------------------------------ MODULE NocCreditProofs ------------------------------
(***************************************************************************)
(* No credit of the network is lost or made up, and no buffer overflows,   *)
(* for every network, routing and order of the ticks.                      *)
(*                                                                         *)
(* CreditLaw says where the credits of every buffer are, in the middle of  *)
(* a tick, too.  It is inductive together with the flags of                *)
(* NocSimulatorProofs and with two facts about the order of the steps:     *)
(* Tour, what the tick has passed, and Noted, which credits a sender has   *)
(* seen.                                                                   *)
(***************************************************************************)
EXTENDS NocSimulatorProofs

(***************************************************************************)
(* Where the credits of a buffer are: with its sender n, in the state of a *)
(* connection, in flits that reader k has yet to take, in what k stores or *)
(* is about to return, and in the returns a link has yet to take.  In      *)
(* cycle 0 they are granted when the reader sends its first credits.       *)
(***************************************************************************)
Held(n, c, vc) == credit[c][vc] + (IF Added(n) THEN 0 ELSE credit_update[c][vc].value)
Credits(c, vc) == IF reverse_channels[c][vc].now THEN reverse_channels[c][vc].value ELSE 0
Arriving(c, k, vc) ==
  IF forward_channels[c].now /\ ~forward_propagated[k] THEN On(forward_channels[c].value, vc) ELSE 0
Stored(c, k, vc) ==
  IF k \in Sinks THEN 0
  ELSE Len(input_buffers[c][vc])
       + (IF forward_propagated[k] /\ ~reverse_channels[c][vc].now
          THEN input_credit_to_send[c][vc] ELSE 0)
Awaited(l, vc) == IF internal_reverse[l][vc] THEN 0 ELSE Credits(sink_connection[l], vc)
Granted(c, vc) ==
  IF cycle = -1 \/ (cycle = 0 /\ ~reverse_channels[c][vc].now) THEN 0 ELSE max_queue_size[c][vc]

(***************************************************************************)
(* Every credit that was granted is somewhere, on a connection that joins  *)
(* a sender to a receiver and on two that a link joins.                    *)
(***************************************************************************)
DirectLaw(n, k, c, vc) ==
  Held(n, c, vc) + Credits(c, vc) + Arriving(c, k, vc) + Stored(c, k, vc) = Granted(c, vc)

Upstream(n, l, vc) == Held(n, src_connection[l], vc) + Arriving(src_connection[l], l, vc)
Downstream(l, k, vc) ==
  Arriving(sink_connection[l], k, vc) + Stored(sink_connection[l], k, vc) + Awaited(l, vc)

LinkedSum(n, l, k, vc, way, back) ==
  Adds(Upstream(n, l, vc), Credits(src_connection[l], vc), way, back, Downstream(l, k, vc),
       Granted(sink_connection[l], vc))

LinkedLaw(n, l, k, vc) ==
  \E way, back \in Nat : /\ Total(FlitsOn(forward_data_stages[l], vc), way)
                         /\ Total(reverse_credit_stages[l][vc], back)
                         /\ LinkedSum(n, l, k, vc, way, back)

CreditLaw ==
  /\ \A n \in Senders, k \in Receivers : \A c \in Drives[n] \cap Reads[k] : \A vc \in Vcs(c) :
       DirectLaw(n, k, c, vc)
  /\ \A n \in Senders, l \in Links, k \in Receivers :
       src_connection[l] \in Drives[n] /\ sink_connection[l] \in Reads[k] =>
         \A vc \in LinkVcs(l) : LinkedLaw(n, l, k, vc)

(***************************************************************************)
(* The weights of flits and of credits.                                    *)
(***************************************************************************)
LEMMA FlitWeights ==
  ASSUME NEW vc, NEW q \in Seq(Flits \cup {Invalid})
  PROVE  LET w == [x \in Flits \cup {Invalid} |-> On(x, vc)]
         IN  /\ w \in [Flits \cup {Invalid} -> Nat] /\ w[Invalid] = 0
             /\ \A x \in Flits \cup {Invalid} : w[x] = On(x, vc)
             /\ FlitsOn(q, vc) = Weighed(q, w)
<1>1. \A x : On(x, vc) \in Nat
  BY Zenon DEF On
<1>2. On(Invalid, vc) = 0
  BY Zenon DEF On
<1>3. \A i \in 1 .. Len(q) : q[i] \in Flits \cup {Invalid}
  OBVIOUS
<1> QED
  BY Zenon, <1>1, <1>2, <1>3 DEF FlitsOn, Weighed

(***************************************************************************)
(* A credit weighs what it counts.                                         *)
(***************************************************************************)
LEMMA CreditWeights ==
  ASSUME NEW q \in Seq(Nat)
  PROVE  LET w == [x \in Nat |-> x]
         IN  /\ w \in [Nat -> Nat] /\ \A x \in Nat : w[x] = x
             /\ q = Weighed(q, w)
  BY DEF Weighed

(***************************************************************************)
(* A flit on a connection counts once or not at all.                       *)
(***************************************************************************)
LEMMA ArrivingNat ==
  \A c, k, vc : Arriving(c, k, vc) \in Nat /\ Arriving(c, k, vc)' \in Nat
  BY Zenon DEF Arriving, On

(***************************************************************************)
(* A link's forward half loses no flit and makes none up.                  *)
(***************************************************************************)
LEMMA LinkForwardCounts ==
  ASSUME NEW l \in Links, TypeInvariant, FlagInvariant, LinkForward(l), NEW vc,
         NEW k \in Receivers, sink_connection[l] \in Reads[k],
         NEW way \in Nat, Total(FlitsOn(forward_data_stages[l], vc), way)
  PROVE  \E rest \in Nat :
           /\ Total(FlitsOn(forward_data_stages'[l], vc), rest)
           /\ Arriving(src_connection[l], l, vc) + way + Arriving(sink_connection[l], k, vc)
              = Arriving(src_connection[l], l, vc)' + rest
                  + Arriving(sink_connection[l], k, vc)'
<1> DEFINE a == src_connection[l]
           b == sink_connection[l]
           V == Flits \cup {Invalid}
           w == [x \in V |-> On(x, vc)]
           p == ForwardTry(l)
<1>1. /\ Forwarded(l, p.done)
      /\ forward_channels' = [forward_channels EXCEPT ![b] = p.to]
      /\ forward_data_stages' = [forward_data_stages EXCEPT ![l] = p.state]
  BY Zenon, LinkForwardIs
<1>2. /\ p.to \in Channel /\ p.state \in Seq(V) /\ p.done \in BOOLEAN
      /\ p.done <=> internal_forward[l] \/ forward_channels[a].now
      /\ forward_channels[b].now /\ (forward_pipeline_stages[l] = 0 => internal_forward[l])
           => p.to = forward_channels[b]
  BY Zenon, ForwardTryResult
<1>3. /\ ~forward_propagated[l] /\ forward_propagated'[l] = p.done
      /\ \A m \in Components \ {l} : forward_propagated'[m] = forward_propagated[m]
  BY Zenon, <1>1, <1>2, ForwardedFlags, Kinds
<1>4. /\ a \in Connections /\ b \in Connections /\ a # b
  BY Zenon, Ports, CompleteAssumption
<1>5. /\ forward_channels'[b] = p.to /\ forward_channels'[a] = forward_channels[a]
      /\ forward_data_stages'[l] = p.state
  BY Zenon, <1>1, <1>4 DEF TypeInvariant, ChannelType, LinkType
<1>6. ~internal_forward[l]
      /\ (forward_pipeline_stages[l] = 0 /\ forward_channels[b].now => internal_forward[l])
  BY Zenon, <1>3, Kinds DEF FlagInvariant, ForwardOf
<1>7. forward_propagated'[k] = forward_propagated[k]
      /\ (forward_propagated[k] => forward_channels[b].now)
  <2>1. k \in Components /\ k # l
    BY Zenon, Kinds, Apart DEF Receivers
  <2>2. k \in Routers => b \in Inputs[k]
    BY Zenon, Attached
  <2>3. k \in Sinks => b = src_connection[k]
    BY Zenon, Attached
  <2>4. ForwardOf(k)
    BY Zenon, <2>1 DEF FlagInvariant
  <2>5. k \in Components \ {l}
    BY Zenon, <2>1
  <2> QED
    BY Zenon, <1>3, <2>2, <2>3, <2>4, <2>5 DEF ForwardOf, InputsReady, Receivers
<1>8. /\ w \in [V -> Nat] /\ w[Invalid] = 0 /\ \A x \in V : w[x] = On(x, vc)
      /\ FlitsOn(forward_data_stages[l], vc) = Weighed(forward_data_stages[l], w)
      /\ FlitsOn(p.state, vc) = Weighed(p.state, w)
  BY Zenon, <1>2, LinkReads, FlitWeights
<1>9. /\ forward_channels[a] \in [now : BOOLEAN, value : V]
      /\ forward_channels[b] \in [now : BOOLEAN, value : V]
      /\ forward_pipeline_stages[l] \in Nat /\ forward_data_stages[l] \in Seq(V)
      /\ internal_forward[l] \in BOOLEAN
  BY Zenon, LinkReads DEF Channel
<1>10. Invalid \in V /\ p = TryPropagation(forward_pipeline_stages[l], forward_channels[a],
                                             forward_channels[b], forward_data_stages[l],
                                             internal_forward[l], Invalid)
  BY Zenon DEF ForwardTry
<1>11. forward_channels[a].value \in V /\ forward_channels[b].value \in V /\ p.to.value \in V
  BY Zenon, <1>2, <1>9 DEF Channel
<1> HIDE DEF w, V, p, a, b
<1>12. PICK rest \in Nat :
         /\ Total(Weighed(p.state, w), rest)
         /\ Brings(forward_channels[a], internal_forward[l], w) + way
              + Carries(forward_channels[b], w)
            = Brings(forward_channels[a], p.done, w) + rest + Carries(p.to, w)
  <2>1. Total(Weighed(forward_data_stages[l], w), way)
    BY Zenon, <1>8
  <2>2. Pipe(V, w, Invalid, forward_pipeline_stages[l], forward_data_stages[l],
             forward_channels[a], forward_channels[b], internal_forward[l], p)
    BY Zenon, <1>6, <1>8, <1>9, <1>10 DEF Pipe
  <2> QED
    BY <2>1, <2>2, Piped
<1>13. /\ Brings(forward_channels[a], internal_forward[l], w) = Arriving(a, l, vc)
       /\ Brings(forward_channels[a], p.done, w) = Arriving(a, l, vc)'
  <2>1. \A d : Brings(forward_channels[a], d, w) =
                 IF forward_channels[a].now /\ ~d THEN On(forward_channels[a].value, vc) ELSE 0
    BY Zenon, <1>8, <1>11 DEF Brings
  <2>2. Arriving(a, l, vc) =
          IF forward_channels[a].now /\ ~internal_forward[l]
          THEN On(forward_channels[a].value, vc) ELSE 0
    BY Zenon, <1>3, <1>6 DEF Arriving
  <2>3. Arriving(a, l, vc)' =
          IF forward_channels[a].now /\ ~p.done THEN On(forward_channels[a].value, vc) ELSE 0
    BY Zenon, <1>3, <1>5 DEF Arriving
  <2> QED
    BY Zenon, <2>1, <2>2, <2>3
<1>0. /\ FlitsOn(forward_data_stages'[l], vc) = Weighed(p.state, w)
      /\ Arriving(a, l, vc) \in Nat /\ Arriving(a, l, vc)' \in Nat
      /\ Arriving(b, k, vc) \in Nat /\ Arriving(b, k, vc)' \in Nat
  BY Zenon, <1>5, <1>8, ArrivingNat
<1> SUFFICES Arriving(a, l, vc) + way + Arriving(b, k, vc)
             = Arriving(a, l, vc)' + rest + Arriving(b, k, vc)'
  BY Zenon, <1>0, <1>12 DEF a, b
<1>14. CASE forward_propagated[k]
  <2>1. p.to = forward_channels[b]
    BY Zenon, <1>2, <1>6, <1>7, <1>14
  <2>2. Arriving(b, k, vc) = 0 /\ Arriving(b, k, vc)' = 0
    BY Zenon, <1>7, <1>14 DEF Arriving
  <2>3. Carries(forward_channels[b], w) \in Nat /\ Carries(p.to, w) = Carries(forward_channels[b], w)
    BY Zenon, <1>8, <1>11, <2>1 DEF Carries
  <2> QED
    BY <1>0, <1>12, <1>13, <2>2, <2>3
<1>15. CASE ~forward_propagated[k]
  <2>1. /\ Carries(forward_channels[b], w) = Arriving(b, k, vc)
        /\ Carries(p.to, w) = Arriving(b, k, vc)'
    BY Zenon, <1>5, <1>7, <1>8, <1>11, <1>15 DEF Carries, Arriving
  <2> QED
    BY Zenon, <1>12, <1>13, <2>1
<1> QED
  BY Zenon, <1>14, <1>15

(***************************************************************************)
(* A link's reverse half loses no credit and makes none up.                *)
(***************************************************************************)
LEMMA LinkReverseCounts ==
  ASSUME NEW l \in Links, TypeInvariant, FlagInvariant, LinkReverse(l), NEW vc \in LinkVcs(l),
         NEW back \in Nat, Total(reverse_credit_stages[l][vc], back)
  PROVE  \E rest \in Nat :
           /\ Total(reverse_credit_stages'[l][vc], rest)
           /\ Awaited(l, vc) + back + Credits(src_connection[l], vc)
              = Awaited(l, vc)' + rest + Credits(src_connection[l], vc)'
<1> DEFINE a == src_connection[l]
           b == sink_connection[l]
           w == [x \in Nat |-> x]
           p == ReverseTry(l, vc)
           from == reverse_channels[b][vc]
           to == reverse_channels[a][vc]
           done == internal_reverse[l][vc]
<1>1. /\ reverse_channels' = [reverse_channels EXCEPT ![a] =
                                [v \in LinkVcs(l) |-> ReverseTry(l, v).to]]
      /\ reverse_credit_stages' = [reverse_credit_stages EXCEPT ![l] =
                                     [v \in LinkVcs(l) |-> ReverseTry(l, v).state]]
      /\ internal_reverse' = [internal_reverse EXCEPT ![l] =
                                [v \in LinkVcs(l) |-> ReverseTry(l, v).done]]
  BY Zenon, LinkReverseIs
<1>2. p.to \in CreditChannel /\ p.state \in Seq(Nat) /\ p.done \in BOOLEAN
  BY Zenon, ReverseTryResult
<1>3. a \in Connections /\ b \in Connections /\ a # b
  BY Zenon, Ports, CompleteAssumption
<1>4. /\ reverse_channels'[a][vc] = p.to /\ reverse_channels'[b] = reverse_channels[b]
      /\ reverse_credit_stages'[l][vc] = p.state /\ internal_reverse'[l][vc] = p.done
  BY Zenon, <1>1, <1>3 DEF TypeInvariant, ChannelType, LinkType
<1>5. reverse_pipeline_stages[l] = 0 /\ to.now => done
  BY Zenon, Kinds DEF FlagInvariant, ReverseOf
<1>6. /\ from \in CreditChannel /\ to \in CreditChannel /\ done \in BOOLEAN
      /\ reverse_pipeline_stages[l] \in Nat /\ reverse_credit_stages[l][vc] \in Seq(Nat)
  BY Zenon, LinkReads
<1>7. /\ w \in [Nat -> Nat] /\ w[0] = 0 /\ 0 \in Nat /\ \A x \in Nat : w[x] = x
      /\ reverse_credit_stages[l][vc] = Weighed(reverse_credit_stages[l][vc], w)
      /\ p.state = Weighed(p.state, w)
  BY Zenon, <1>2, <1>6, CreditWeights
<1>8. p = TryPropagation(reverse_pipeline_stages[l], from, to, reverse_credit_stages[l][vc],
                         done, 0)
  BY Zenon DEF ReverseTry
<1>9. /\ from.value \in Nat /\ to.value \in Nat /\ p.to.value \in Nat
  BY Zenon, <1>2, <1>6 DEF CreditChannel
<1> HIDE DEF w, p
<1>10. PICK rest \in Nat :
         /\ Total(Weighed(p.state, w), rest)
         /\ Brings(from, done, w) + back + Carries(to, w)
            = Brings(from, p.done, w) + rest + Carries(p.to, w)
  <2>1. Pipe(Nat, w, 0, reverse_pipeline_stages[l], reverse_credit_stages[l][vc], from, to,
             done, p)
    BY Zenon, <1>5, <1>6, <1>7, <1>8 DEF Pipe, CreditChannel
  <2>2. Total(Weighed(reverse_credit_stages[l][vc], w), back)
    BY Zenon, <1>7
  <2> HIDE DEF from, to, done
  <2> QED
    BY <2>1, <2>2, Piped
<1>11. /\ Brings(from, done, w) = Awaited(l, vc) /\ Carries(to, w) = Credits(a, vc)
  BY Zenon, <1>7, <1>9 DEF Brings, Carries, Awaited, Credits
<1>12. /\ Brings(from, p.done, w) = Awaited(l, vc)' /\ Carries(p.to, w) = Credits(a, vc)'
  BY Zenon, <1>4, <1>7, <1>9 DEF Brings, Carries, Awaited, Credits
<1> QED
  BY Zenon, <1>4, <1>7, <1>10, <1>11, <1>12

(***************************************************************************)
(* A reader that is done has seen what it reads.                           *)
(***************************************************************************)
LEMMA ReaderSaw ==
  ASSUME FlagInvariant, NEW k \in Components, NEW c \in Reads[k], forward_propagated[k]
  PROVE  forward_channels[c].now
<1>1. ForwardOf(k)
  BY Zenon DEF FlagInvariant
<1>2. k \in Links \cup Sinks => c = src_connection[k]
  BY Zenon, Attached
<1>3. k \in Routers => c \in Inputs[k]
  BY Zenon, Attached
<1>4. k \notin Sources
  BY Zenon, Attached
<1> QED
  BY Zenon, <1>1, <1>2, <1>3, <1>4 DEF ForwardOf, InputsReady, Components

(***************************************************************************)
(* The terms of the law are numbers.                                       *)
(***************************************************************************)
LEMMA Numbers ==
  ASSUME TypeInvariant
  PROVE  /\ \A n \in Senders : \A c \in Drives[n] : \A vc \in Vcs(c) : Held(n, c, vc) \in Nat
         /\ \A c \in Connections : \A vc \in Vcs(c) : Credits(c, vc) \in Nat
         /\ \A k \in Receivers : \A c \in Reads[k] : \A vc \in Vcs(c) : Stored(c, k, vc) \in Nat
         /\ \A c \in Connections : \A vc \in Vcs(c) : Granted(c, vc) \in Nat
         /\ \A l \in Links : \A vc \in LinkVcs(l) : Awaited(l, vc) \in Nat
<1>1. ASSUME NEW n \in Senders, NEW c \in Drives[n], NEW vc \in Vcs(c)
      PROVE  Held(n, c, vc) \in Nat
  <2>1. c \in Credited
    BY Zenon, <1>1 DEF Credited, Senders
  <2>2. credit[c][vc] \in Nat /\ credit_update[c][vc].value \in Nat
    BY Zenon, <1>1, <2>1 DEF TypeInvariant, CreditType, CreditChannel
  <2> QED
    BY <2>2 DEF Held
<1>2. ASSUME NEW c \in Connections, NEW vc \in Vcs(c)
      PROVE  Credits(c, vc) \in Nat
  BY Zenon DEF TypeInvariant, ChannelType, CreditChannel, Credits
<1>3. ASSUME NEW k \in Receivers, NEW c \in Reads[k], NEW vc \in Vcs(c)
      PROVE  Stored(c, k, vc) \in Nat
  <2>1. CASE k \in Sinks
    BY Zenon, <2>1 DEF Stored
  <2>2. CASE k \in Routers
    <3>1. c \in Buffered
      BY Zenon, <1>3, <2>2, Attached, Ports
    <3>2. Len(input_buffers[c][vc]) \in Nat /\ input_credit_to_send[c][vc] \in Nat
      BY <1>3, <3>1 DEF TypeInvariant, RouterType
    <3> QED
      BY <3>2 DEF Stored
  <2> QED
    BY Zenon, <2>1, <2>2 DEF Receivers
<1>4. ASSUME NEW c \in Connections, NEW vc \in Vcs(c)
      PROVE  Granted(c, vc) \in Nat
  BY Zenon, NocAssumption DEF Granted
<1>5. ASSUME NEW l \in Links, NEW vc \in LinkVcs(l)
      PROVE  Awaited(l, vc) \in Nat
  <2>1. Credits(sink_connection[l], vc) \in Nat
    BY Zenon, <1>2, <1>5, LinkSides, Ports
  <2> QED
    BY Zenon, <2>1 DEF Awaited
<1> QED
  BY Zenon, <1>1, <1>2, <1>3, <1>4, <1>5

(***************************************************************************)
(* A sender that writes x spends the credits that x takes.                 *)
(***************************************************************************)
LEMMA SpendsCredit ==
  ASSUME NEW n \in Senders, NEW k \in Components, NEW c \in Drives[n] \cap Reads[k],
         NEW vc \in Vcs(c), TypeInvariant, FlagInvariant, TypeInvariant',
         ~forward_channels[c].now, forward_propagated'[k] = forward_propagated[k], NEW x,
         forward_channels'[c] = Now(x), Added(n)',
         credit'[c][vc] = Held(n, c, vc) - On(x, vc)
  PROVE  Held(n, c, vc) + Arriving(c, k, vc) = Held(n, c, vc)' + Arriving(c, k, vc)'
<1>1. Arriving(c, k, vc) = 0
  BY Zenon DEF Arriving
<1>2. ~forward_propagated[k]
  BY Zenon, ReaderSaw
<1>3. forward_channels'[c].now /\ forward_channels'[c].value = x
  BY DEF Now
<1>4. Arriving(c, k, vc)' = On(x, vc)
  BY Zenon, <1>2, <1>3 DEF Arriving
<1>5. c \in Credited
  BY Zenon DEF Credited, Senders
<1>6. credit'[c][vc] \in Nat
  BY Zenon, <1>5 DEF TypeInvariant, CreditType
<1>7. Held(n, c, vc)' = credit'[c][vc]
  BY <1>6 DEF Held
<1>8. Held(n, c, vc) \in Nat /\ On(x, vc) \in Nat
  <2>1. Held(n, c, vc) \in Nat
    BY Zenon, Numbers
  <2> QED
    BY Zenon, <2>1 DEF On
<1> QED
  BY <1>1, <1>4, <1>7, <1>8

(***************************************************************************)
(* A step of a sender that writes no flit spends no credits.               *)
(***************************************************************************)
LEMMA SpendsNothing ==
  ASSUME NEW n \in Senders, NEW k \in Components, NEW c \in Drives[n] \cap Reads[k],
         NEW vc \in Vcs(c), TypeInvariant', forward_propagated'[k] = forward_propagated[k],
         forward_channels'[c] = forward_channels[c], Added(n)',
         credit'[c][vc] = Held(n, c, vc)
  PROVE  Held(n, c, vc) + Arriving(c, k, vc) = Held(n, c, vc)' + Arriving(c, k, vc)'
<1>1. c \in Credited
  BY Zenon DEF Credited, Senders
<1>2. credit'[c][vc] \in Nat
  BY Zenon, <1>1 DEF TypeInvariant, CreditType
<1>3. Held(n, c, vc)' = credit'[c][vc]
  BY <1>2 DEF Held
<1>4. Arriving(c, k, vc)' = Arriving(c, k, vc)
  BY Zenon DEF Arriving
<1> QED
  BY Zenon, <1>3, <1>4

(***************************************************************************)
(* What a sender's own turn leaves with it and puts on its connections     *)
(* adds up to what was there before.                                       *)
(***************************************************************************)
LEMMA SourceKeeps ==
  ASSUME NEW n \in Sources, NEW k \in Components, NEW c \in Drives[n] \cap Reads[k],
         NEW vc \in Vcs(c), TypeInvariant, FlagInvariant, Tour,
         SourceForward(n) \/ SourceReverse(n)
  PROVE  Held(n, c, vc) + Arriving(c, k, vc) = Held(n, c, vc)' + Arriving(c, k, vc)'
<1>1. /\ n \in Senders /\ n \in Components /\ n \notin Routers /\ c = sink_connection[n]
      /\ k # n /\ k \in Components \ {n} /\ c \in Credited
  <2>1. n \in Senders /\ n \in Components /\ n \notin Routers
    BY Zenon, Kinds, Apart DEF Senders
  <2>2. c = sink_connection[n] /\ k # n
    BY Attached
  <2>3. c \in Credited
    BY Zenon, <2>1 DEF Credited, Senders
  <2> QED
    BY Zenon, <2>1, <2>2, <2>3
<1>2. TypeInvariant'
  BY Zenon, SourceForwardType, SourceReverseType
<1>3. CASE SourceForward(n)
  <2>1. /\ ~forward_propagated[n] /\ forward_propagated'[n] = TRUE
        /\ forward_propagated'[k] = forward_propagated[k]
    BY Zenon, <1>1, <1>3, ForwardedFlags DEF SourceForward
  <2>2. ~forward_channels[c].now
    BY Zenon, <1>1, <2>1 DEF FlagInvariant, ForwardOf
  <2>3. PICK x :
          /\ forward_channels' = [forward_channels EXCEPT ![c] = Now(x)]
          /\ \A v \in Vcs(c) :
               credit'[c][v] = (credit[c][v] + credit_update[c][v].value) - On(x, v)
    <3> DEFINE d == sink_connection[n]
    <3>1. \E x \in Flits \cup {Invalid} :
            /\ forward_channels' = [forward_channels EXCEPT ![d] = Now(x)]
            /\ \A v \in Vcs(d) :
                 credit'[d][v] = (credit[d][v] + credit_update[d][v].value) - On(x, v)
      BY Zenon, <1>3, SourceSends
    <3>2. c = d
      BY Zenon, <1>1
    <3> HIDE DEF d
    <3> QED
      BY Zenon, <3>1, <3>2
  <2>4. forward_channels'[c] = Now(x)
    BY Zenon, <1>1, <2>3, Placed DEF TypeInvariant, ChannelType
  <2>5. Held(n, c, vc) = credit[c][vc] + credit_update[c][vc].value
    BY Zenon, <1>1, <2>1 DEF Held, Added
  <2>6. Added(n)'
    BY Zenon, <1>1, <2>1 DEF Added
  <2>7. credit'[c][vc] = Held(n, c, vc) - On(x, vc)
    BY Zenon, <2>3, <2>5
  <2> QED
    BY Zenon, <1>1, <1>2, <2>1, <2>2, <2>4, <2>6, <2>7, SpendsCredit
<1>4. CASE SourceReverse(n)
  <2> DEFINE done == AllReceived(Drives[n])
  <2>1. done \in BOOLEAN
    BY Zenon DEF AllReceived
  <2>2. /\ Reversed(n, done) /\ credit' = credit /\ forward_channels' = forward_channels
    BY Zenon, <1>4 DEF SourceReverse
  <2> HIDE DEF done
  <2>3. forward_propagated' = forward_propagated
    BY Zenon, <1>1, <2>1, <2>2, ReversedFlags
  <2>4. forward_propagated[n]
    BY Zenon, <2>2 DEF Reversed, Turn, Tour
  <2>5. Added(n) /\ Added(n)'
    BY Zenon, <1>1, <2>3, <2>4 DEF Added
  <2>6. credit'[c][vc] = Held(n, c, vc)
    <3>1. credit[c][vc] \in Nat
      BY Zenon, <1>1 DEF TypeInvariant, CreditType
    <3> QED
      BY <2>2, <2>5, <3>1 DEF Held
  <2> QED
    BY Zenon, <1>1, <1>2, <2>2, <2>3, <2>5, <2>6, SpendsNothing
<1> QED
  BY Zenon, <1>3, <1>4

(***************************************************************************)
(* A router's forward half turns credits of an output into flits on it.    *)
(***************************************************************************)
LEMMA RouterKeepsOutputs ==
  ASSUME NEW n \in Routers, NEW k \in Components, NEW c \in Drives[n] \cap Reads[k],
         NEW vc \in Vcs(c), TypeInvariant, FlagInvariant,
         RouterForward(n) \/ RouterReverse(n)
  PROVE  Held(n, c, vc) + Arriving(c, k, vc) = Held(n, c, vc)' + Arriving(c, k, vc)'
<1>1. /\ n \in Senders /\ n \in Components /\ c \in Outputs[n] /\ c \in Credited
      /\ ForwardOf(n)
  BY Zenon, Kinds, Attached, Ports DEF Senders, FlagInvariant
<1>2. TypeInvariant'
  BY Zenon, RouterForwardType, RouterReverseType
<1>3. credit[c][vc] \in Nat /\ credit_update[c][vc].value \in Nat
  BY Zenon, <1>1 DEF TypeInvariant, CreditType, CreditChannel
<1>4. ASSUME RouterForward(n)
      PROVE  /\ ~forward_propagated[n] /\ forward_propagated'[n] = InputsReady(n)
             /\ (k # n => forward_propagated'[k] = forward_propagated[k])
             /\ ~forward_channels[c].now /\ Added(n)'
             /\ RouterCredit(n)[c][vc] = Held(n, c, vc)
  <2>0. InputsReady(n) \in BOOLEAN
    BY Zenon DEF InputsReady
  <2>1. /\ ~forward_propagated[n] /\ forward_propagated'[n] = InputsReady(n)
        /\ \A m \in Components \ {n} : forward_propagated'[m] = forward_propagated[m]
    BY Zenon, <1>1, <1>4, <2>0, ForwardedFlags DEF RouterForward
  <2>2. k # n => forward_propagated'[k] = forward_propagated[k]
    BY Zenon, <2>1
  <2>3. ~forward_channels[c].now
    BY Zenon, <1>1, <2>1 DEF ForwardOf
  <2>4. internal_propagated' = [internal_propagated EXCEPT ![n] = TRUE]
    BY Zenon, <1>4 DEF RouterForward
  <2>5. Added(n)'
    BY Zenon, <2>4 DEF Added, TypeInvariant, RouterType
  <2>6. RouterCredit(n)[c][vc] = Held(n, c, vc)
    BY <1>1, <1>3 DEF RouterCredit, Held, Added
  <2> QED
    BY Zenon, <2>1, <2>2, <2>3, <2>5, <2>6
<1>5. CASE RouterForward(n) /\ InputsReady(n)
  <2>1. PICK x : /\ forward_channels'[c] = Now(x)
                 /\ credit'[c][vc] = RouterCredit(n)[c][vc] - On(x, vc)
    BY Zenon, <1>1, <1>5, RouterSends
  <2>2. k # n
    BY Zenon, <1>4, <1>5, Attached DEF InputsReady
  <2>3. credit'[c][vc] = Held(n, c, vc) - On(x, vc)
    BY Zenon, <1>4, <1>5, <2>1
  <2> QED
    BY Zenon, <1>1, <1>2, <1>4, <1>5, <2>1, <2>2, <2>3, SpendsCredit
<1>6. CASE RouterForward(n) /\ ~InputsReady(n)
  <2>1. credit' = RouterCredit(n) /\ forward_channels' = forward_channels
    BY Zenon, <1>6, RouterWaits
  <2>2. forward_propagated'[k] = forward_propagated[k]
    <3>1. CASE k = n
      <4>1. forward_propagated[n] = FALSE /\ forward_propagated'[n] = FALSE
        BY Zenon, <1>1, <1>2, <1>4, <1>6 DEF TypeInvariant, FlagType
      <4> QED
        BY Zenon, <3>1, <4>1
    <3> QED
      BY Zenon, <1>4, <1>6, <3>1
  <2>3. credit'[c][vc] = Held(n, c, vc)
    BY Zenon, <1>4, <1>6, <2>1
  <2> QED
    BY Zenon, <1>1, <1>2, <1>4, <1>6, <2>1, <2>2, <2>3, SpendsNothing
<1>7. CASE RouterReverse(n)
  <2>1. /\ credit' = credit /\ forward_channels' = forward_channels
        /\ internal_propagated' = internal_propagated
        /\ (forward_propagated[n] \/ credit_update' = credit_update)
    BY Zenon, <1>7 DEF RouterReverse, router_state
  <2>2. forward_propagated' = forward_propagated
    <3> DEFINE done == AllReceived(Outputs[n])
    <3>1. done \in BOOLEAN
      BY Zenon DEF AllReceived
    <3>2. Reversed(n, done) \/ Reversed(n, FALSE)
      BY Zenon, <1>7 DEF RouterReverse
    <3> HIDE DEF done
    <3> QED
      BY Zenon, <3>2 DEF Reversed
  <2>3. Arriving(c, k, vc)' = Arriving(c, k, vc)
    BY Zenon, <2>1, <2>2 DEF Arriving
  <2>4. CASE forward_propagated[n]
    <3>1. Added(n) /\ Added(n)'
      BY Zenon, <1>1, <2>1, <2>4 DEF Added, ForwardOf
    <3>2. Held(n, c, vc)' = Held(n, c, vc)
      BY Zenon, <2>1, <3>1 DEF Held
    <3> QED
      BY Zenon, <2>3, <3>2
  <2>5. CASE credit_update' = credit_update
    <3>1. Held(n, c, vc)' = Held(n, c, vc)
      BY Zenon, <2>1, <2>2, <2>5 DEF Held, Added
    <3> QED
      BY Zenon, <2>3, <3>1
  <2> QED
    BY Zenon, <2>1, <2>4, <2>5
<1> QED
  BY Zenon, <1>5, <1>6, <1>7

(***************************************************************************)
(* What a receiver's own turn takes from a connection, stores and returns  *)
(* adds up to what was there before and what it grants.                    *)
(***************************************************************************)
Settled(k, c, vc) ==
  Arriving(c, k, vc)' + Stored(c, k, vc)' + Credits(c, vc)' + Granted(c, vc)
    = Arriving(c, k, vc) + Stored(c, k, vc) + Credits(c, vc) + Granted(c, vc)'

(***************************************************************************)
(* A sink returns a credit for the flit it takes.                          *)
(***************************************************************************)
LEMMA SinkSettles ==
  ASSUME NEW k \in Sinks, NEW c \in Reads[k], NEW vc \in Vcs(c), TypeInvariant, FlagInvariant,
         SinkForward(k) \/ SinkReverse(k), Granted(c, vc) = 0 => Arriving(c, k, vc) = 0
  PROVE  Settled(k, c, vc)
<1>1. k \in Components /\ c = src_connection[k] /\ c \in Connections
  <2>1. k \in Components /\ c = src_connection[k]
    BY Attached, Kinds
  <2> QED
    BY Zenon, <2>1, Ports
<1>2. Stored(c, k, vc) = 0 /\ Stored(c, k, vc)' = 0
  BY Zenon DEF Stored
<1>3. ASSUME forward_channels' = forward_channels, reverse_channels' = reverse_channels,
             cycle' = cycle,
             forward_channels[c].now => forward_propagated'[k] = forward_propagated[k]
      PROVE  Settled(k, c, vc)
  <2>1. Arriving(c, k, vc)' = Arriving(c, k, vc)
    BY Zenon, <1>3 DEF Arriving
  <2>2. Credits(c, vc)' = Credits(c, vc) /\ Granted(c, vc)' = Granted(c, vc)
    BY Zenon, <1>3 DEF Credits, Granted
  <2> QED
    BY Zenon, <1>2, <2>1, <2>2 DEF Settled
<1>4. CASE SinkReverse(k)
  <2>1. /\ forward_channels' = forward_channels /\ reverse_channels' = reverse_channels
        /\ cycle' = cycle /\ forward_propagated' = forward_propagated
    BY Zenon, <1>4 DEF SinkReverse, Reversed
  <2> QED
    BY Zenon, <1>3, <2>1
<1>5. CASE SinkForward(k)
  <2> DEFINE f == forward_channels[c].value
             now == forward_channels[c].now
             credits == IF cycle = 0 THEN max_queue_size[c][vc]
                        ELSE IF now /\ f # Invalid /\ f.vc = vc THEN 1 ELSE 0
  <2>0. now \in BOOLEAN
    BY Zenon, <1>1 DEF TypeInvariant, ChannelType, Channel
  <2>1. /\ Forwarded(k, now) /\ forward_channels' = forward_channels
        /\ ~now => reverse_channels' = reverse_channels
        /\ now => reverse_channels' =
                    [reverse_channels EXCEPT ![c] =
                       [v \in Vcs(c) |->
                          Now(IF cycle = 0 THEN max_queue_size[c][v]
                              ELSE IF (now /\ f # Invalid) /\ f.vc = v THEN 1 ELSE 0)]]
    BY Zenon, <1>1, <1>5 DEF SinkForward
  <2>2. /\ ~forward_propagated[k] /\ forward_propagated'[k] = now /\ cycle' = cycle
    BY Zenon, <1>1, <2>0, <2>1, ForwardedFlags
  <2>3. CASE ~now
    BY Zenon, <1>3, <2>1, <2>2, <2>3
  <2>4. CASE now
    <3>1. reverse_channels'[c][vc] = Now(credits)
      BY <1>1, <2>1, <2>4 DEF TypeInvariant, ChannelType
    <3>2. ~reverse_channels[c][vc].now
      BY Zenon, <1>1, <2>2 DEF FlagInvariant, ReverseOf
    <3>3. Credits(c, vc) = 0 /\ Credits(c, vc)' = credits
      <4>1. reverse_channels'[c][vc].now /\ reverse_channels'[c][vc].value = credits
        BY <3>1 DEF Now
      <4> QED
        BY Zenon, <3>2, <4>1 DEF Credits
    <3>4. Arriving(c, k, vc) = On(f, vc) /\ Arriving(c, k, vc)' = 0
      BY Zenon, <2>1, <2>2, <2>4 DEF Arriving
    <3>5. /\ Granted(c, vc) = IF cycle \in {-1, 0} THEN 0 ELSE max_queue_size[c][vc]
          /\ Granted(c, vc)' = IF cycle = -1 THEN 0 ELSE max_queue_size[c][vc]
      <4>1. reverse_channels'[c][vc].now
        BY <3>1 DEF Now
      <4> QED
        BY Zenon, <2>2, <3>2, <4>1 DEF Granted
    <3>6. max_queue_size[c][vc] \in Nat /\ cycle \in {-1, 0, 1}
      BY <1>1, NocAssumption DEF TypeInvariant, ControlType
    <3>7. cycle # 0 => credits = On(f, vc)
      BY Zenon, <2>4 DEF On
    <3>8. cycle = 0 => credits = max_queue_size[c][vc] /\ On(f, vc) = 0
      BY Zenon, <3>4, <3>5
    <3>9. On(f, vc) \in Nat
      BY Zenon DEF On
    <3> HIDE DEF credits, f
    <3> QED
      BY <1>2, <3>3, <3>4, <3>5, <3>6, <3>7, <3>8, <3>9 DEF Settled
  <2> QED
    BY Zenon, <2>0, <2>3, <2>4
<1> QED
  BY Zenon, <1>4, <1>5

(***************************************************************************)
(* A router stores the flit it takes and returns a credit for each it has  *)
(* sent on.                                                                *)
(***************************************************************************)
LEMMA RouterSettles ==
  ASSUME NEW k \in Routers, NEW c \in Reads[k], NEW vc \in Vcs(c), TypeInvariant, FlagInvariant,
         RouterForward(k) \/ RouterReverse(k), Granted(c, vc) = 0 => Stored(c, k, vc) = 0
  PROVE  Settled(k, c, vc)
<1>1. /\ k \in Components /\ c \in Inputs[k] /\ c \in Connections /\ c \in Buffered
      /\ k \notin Sinks /\ ForwardOf(k) /\ ReverseOf(k)
  BY Zenon, Attached, Kinds, Apart, Ports DEF FlagInvariant
<1>2. /\ Stored(c, k, vc) = Len(input_buffers[c][vc])
                             + (IF forward_propagated[k] /\ ~reverse_channels[c][vc].now
                                THEN input_credit_to_send[c][vc] ELSE 0)
      /\ Stored(c, k, vc)' = Len(input_buffers'[c][vc])
                              + (IF forward_propagated'[k] /\ ~reverse_channels'[c][vc].now
                                 THEN input_credit_to_send'[c][vc] ELSE 0)
  BY Zenon, <1>1 DEF Stored
<1>3. Len(input_buffers[c][vc]) \in Nat /\ input_credit_to_send[c][vc] \in Nat
  BY <1>1 DEF TypeInvariant, RouterType
<1>4. ASSUME forward_channels'[c] = forward_channels[c],
             reverse_channels'[c][vc] = reverse_channels[c][vc], cycle' = cycle,
             forward_propagated'[k] = forward_propagated[k],
             input_buffers'[c] = input_buffers[c],
             input_credit_to_send'[c] = input_credit_to_send[c]
      PROVE  Settled(k, c, vc)
  <2>1. Arriving(c, k, vc)' = Arriving(c, k, vc) /\ Stored(c, k, vc)' = Stored(c, k, vc)
    BY Zenon, <1>4 DEF Arriving, Stored
  <2>2. Credits(c, vc)' = Credits(c, vc) /\ Granted(c, vc)' = Granted(c, vc)
    BY Zenon, <1>4 DEF Credits, Granted
  <2> QED
    BY Zenon, <2>1, <2>2 DEF Settled
<1>5. ASSUME RouterForward(k)
      PROVE  /\ ~forward_propagated[k] /\ forward_propagated'[k] = InputsReady(k)
             /\ cycle' = cycle /\ reverse_channels' = reverse_channels
  <2>1. InputsReady(k) \in BOOLEAN
    BY Zenon DEF InputsReady
  <2> QED
    BY Zenon, <1>1, <1>5, <2>1, ForwardedFlags DEF RouterForward
<1>6. CASE RouterForward(k) /\ ~InputsReady(k)
  <2>1. forward_propagated'[k] = forward_propagated[k]
    <3>1. forward_propagated[k] \in BOOLEAN /\ forward_propagated'[k] = FALSE
      BY Zenon, <1>1, <1>5, <1>6 DEF TypeInvariant, FlagType, InputsReady
    <3> QED
      BY Zenon, <1>5, <1>6, <3>1
  <2> QED
    BY Zenon, <1>4, <1>5, <1>6, <2>1, RouterWaits
<1>7. CASE RouterForward(k) /\ InputsReady(k)
  <2>1. ~forward_propagated[k] /\ forward_propagated'[k] /\ cycle' = cycle
    BY Zenon, <1>5, <1>7
  <2>2. ~reverse_channels[c][vc].now /\ ~reverse_channels'[c][vc].now
    BY Zenon, <1>1, <1>5, <1>7 DEF ReverseOf
  <2>3. Credits(c, vc) = 0 /\ Credits(c, vc)' = 0 /\ Granted(c, vc)' = Granted(c, vc)
    BY Zenon, <1>5, <1>7, <2>2 DEF Credits, Granted
  <2>4. Arriving(c, k, vc) = On(forward_channels[c].value, vc) /\ Arriving(c, k, vc)' = 0
    BY Zenon, <1>1, <1>7, <2>1 DEF Arriving, InputsReady
  <2>5. Len(input_buffers'[c][vc]) + input_credit_to_send'[c][vc]
          = Len(input_buffers[c][vc]) + On(forward_channels[c].value, vc)
    BY Zenon, <1>1, <1>7, RouterSends
  <2>6. Stored(c, k, vc) = Len(input_buffers[c][vc]) + 0
        /\ Stored(c, k, vc)' = Len(input_buffers'[c][vc]) + input_credit_to_send'[c][vc]
    BY Zenon, <1>2, <2>1, <2>2
  <2>7. On(forward_channels[c].value, vc) \in Nat
    BY Zenon DEF On
  <2>8. c \in Connections /\ Granted(c, vc) \in Nat
    BY Zenon, <1>1, Numbers
  <2> QED
    BY <1>3, <2>3, <2>4, <2>5, <2>6, <2>7, <2>8 DEF Settled
<1>8. ASSUME RouterReverse(k)
      PROVE  /\ forward_propagated' = forward_propagated /\ cycle' = cycle
             /\ forward_channels' = forward_channels /\ input_buffers' = input_buffers
             /\ input_credit_to_send' = input_credit_to_send
             /\ ~forward_propagated[k] => reverse_channels' = reverse_channels
             /\ forward_propagated[k] => reverse_channels'[c][vc] = Now(CreditToSend(c, vc))
  <2>1. /\ forward_channels' = forward_channels /\ input_buffers' = input_buffers
        /\ input_credit_to_send' = input_credit_to_send
        /\ ~forward_propagated[k] => reverse_channels' = reverse_channels
    BY Zenon, <1>8 DEF RouterReverse, router_state
  <2>2. forward_propagated' = forward_propagated /\ cycle' = cycle
    BY Zenon, <1>8 DEF RouterReverse, Reversed
  <2>3. forward_propagated[k] => reverse_channels'[c][vc] = Now(CreditToSend(c, vc))
    <3>1. forward_propagated[k] =>
            reverse_channels' = [d \in Connections |->
                                   IF d \in Inputs[k]
                                   THEN [v \in Vcs(d) |-> Now(CreditToSend(d, v))]
                                   ELSE reverse_channels[d]]
      BY Zenon, <1>8 DEF RouterReverse
    <3>2. forward_propagated[k] =>
            reverse_channels'[c] = [v \in Vcs(c) |-> Now(CreditToSend(c, v))]
      BY Zenon, <1>1, <3>1
    <3> QED
      BY Zenon, <3>2
  <2> QED
    BY Zenon, <2>1, <2>2, <2>3
<1>9. CASE RouterReverse(k) /\ ~forward_propagated[k]
  BY Zenon, <1>4, <1>8, <1>9
<1>10. CASE RouterReverse(k) /\ forward_propagated[k] /\ reverse_channels[c][vc].now
  <2>1. reverse_channels'[c][vc] = reverse_channels[c][vc]
    BY Zenon, <1>1, <1>8, <1>10 DEF ReverseOf
  <2> QED
    BY Zenon, <1>4, <1>8, <1>10, <2>1
<1>11. CASE RouterReverse(k) /\ forward_propagated[k] /\ ~reverse_channels[c][vc].now
  <2>1. reverse_channels'[c][vc].now /\ reverse_channels'[c][vc].value = CreditToSend(c, vc)
    BY <1>8, <1>11 DEF Now
  <2>2. Arriving(c, k, vc) = 0 /\ Arriving(c, k, vc)' = 0
    BY Zenon, <1>8, <1>11 DEF Arriving
  <2>3. Credits(c, vc) = 0 /\ Credits(c, vc)' = CreditToSend(c, vc)
    BY Zenon, <1>11, <2>1 DEF Credits
  <2>4. /\ Stored(c, k, vc) = Len(input_buffers[c][vc]) + input_credit_to_send[c][vc]
        /\ Stored(c, k, vc)' = Len(input_buffers[c][vc]) + 0
    BY Zenon, <1>2, <1>8, <1>11, <2>1
  <2>5. /\ Granted(c, vc) = IF cycle \in {-1, 0} THEN 0 ELSE max_queue_size[c][vc]
        /\ Granted(c, vc)' = IF cycle = -1 THEN 0 ELSE max_queue_size[c][vc]
    BY Zenon, <1>8, <1>11, <2>1 DEF Granted
  <2>6. max_queue_size[c][vc] \in Nat /\ cycle \in {-1, 0, 1}
    BY <1>1, NocAssumption DEF TypeInvariant, ControlType
  <2>7. CreditToSend(c, vc) =
          IF cycle = 0 THEN max_queue_size[c][vc] ELSE input_credit_to_send[c][vc]
    BY Zenon DEF CreditToSend
  <2>8. CASE cycle = 0
    <3>1. /\ Granted(c, vc) = 0 /\ Granted(c, vc)' = max_queue_size[c][vc]
          /\ Credits(c, vc)' = max_queue_size[c][vc]
      BY <2>3, <2>5, <2>7, <2>8
    <3>2. Stored(c, k, vc) = 0 /\ Stored(c, k, vc)' = 0
      BY <1>3, <2>4, <3>1
    <3> QED
      BY <2>2, <2>3, <2>6, <3>1, <3>2 DEF Settled
  <2>9. CASE cycle # 0
    <3>1. Granted(c, vc)' = Granted(c, vc) /\ Credits(c, vc)' = input_credit_to_send[c][vc]
      BY Zenon, <2>3, <2>5, <2>6, <2>7, <2>9
    <3>2. c \in Connections /\ Granted(c, vc) \in Nat
      BY Zenon, <1>1, Numbers
    <3> QED
      BY <1>3, <2>2, <2>3, <2>4, <3>1, <3>2 DEF Settled
  <2> QED
    BY Zenon, <2>8, <2>9
<1> QED
  BY Zenon, <1>6, <1>7, <1>9, <1>10, <1>11

(***************************************************************************)
(* The turn of a sender or receiver m, as the lemmas above have it.        *)
(***************************************************************************)
LEMMA SenderKeeps ==
  ASSUME NEW m \in Senders, NEW k \in Components, NEW c \in Drives[m] \cap Reads[k],
         NEW vc \in Vcs(c), TypeInvariant, FlagInvariant, Tour, TurnOf(m)
  PROVE  Held(m, c, vc) + Arriving(c, k, vc) = Held(m, c, vc)' + Arriving(c, k, vc)'
<1>1. CASE m \in Sources
  <2>1. SourceForward(m) \/ SourceReverse(m)
    BY Zenon, <1>1, Apart DEF TurnOf
  <2> QED
    BY Zenon, <1>1, <2>1, SourceKeeps
<1>2. CASE m \in Routers
  <2>1. RouterForward(m) \/ RouterReverse(m)
    BY Zenon, <1>2, Apart DEF TurnOf
  <2> QED
    BY Zenon, <1>2, <2>1, RouterKeepsOutputs
<1> QED
  BY Zenon, <1>1, <1>2 DEF Senders

(***************************************************************************)
(* The same of every receiver.                                             *)
(***************************************************************************)
LEMMA ReceiverSettles ==
  ASSUME NEW m \in Receivers, NEW c \in Reads[m], NEW vc \in Vcs(c), TypeInvariant,
         FlagInvariant, TurnOf(m),
         Granted(c, vc) = 0 => Arriving(c, m, vc) = 0 /\ Stored(c, m, vc) = 0
  PROVE  Settled(m, c, vc)
<1>1. CASE m \in Sinks
  <2>1. SinkForward(m) \/ SinkReverse(m)
    BY Zenon, <1>1, Apart DEF TurnOf
  <2> QED
    BY Zenon, <1>1, <2>1, SinkSettles
<1>2. CASE m \in Routers
  <2>1. RouterForward(m) \/ RouterReverse(m)
    BY Zenon, <1>2, Apart DEF TurnOf
  <2> QED
    BY Zenon, <1>2, <2>1, RouterSettles
<1> QED
  BY Zenon, <1>1, <1>2 DEF Receivers

(***************************************************************************)
(* The turn of m leaves the terms of the others as they are.               *)
(***************************************************************************)
LEMMA Elsewhere ==
  ASSUME NEW m \in Components, Frame(m)
  PROVE  /\ \A n \in Senders \ {m} : \A c \in Drives[n] : \A vc :
              Held(n, c, vc)' = Held(n, c, vc)
         /\ \A k \in Components \ {m} : \A c \in Reads[k] : \A vc :
              Credits(c, vc)' = Credits(c, vc) /\ Granted(c, vc)' = Granted(c, vc)
         /\ \A k \in Components \ {m} : \A c \in Reads[k] : \A vc :
              c \notin Drives[m] => Arriving(c, k, vc)' = Arriving(c, k, vc)
         /\ \A k \in Receivers \ {m} : \A c \in Reads[k] : \A vc :
              Stored(c, k, vc)' = Stored(c, k, vc)
<1>1. ASSUME NEW n \in Senders \ {m}, NEW c \in Drives[n], NEW vc
      PROVE  Held(n, c, vc)' = Held(n, c, vc)
  <2>1. n \in Components /\ n # m /\ n \in Components \ {m} /\ (n \in Routers => n \in Routers \ {m})
    BY Zenon, Kinds DEF Senders
  <2>2. c \in Credited /\ c \notin Drives[m]
    BY Zenon, <1>1, <2>1, Alone DEF Credited, Senders
  <2>3. credit'[c] = credit[c] /\ credit_update'[c] = credit_update[c]
    BY Zenon, <2>2 DEF Frame
  <2>4. Added(n)' <=> Added(n)
    <3>1. forward_propagated'[n] = forward_propagated[n]
      BY Zenon, <2>1 DEF Frame
    <3>2. n \in Routers => internal_propagated'[n] = internal_propagated[n]
      BY Zenon, <2>1 DEF Frame
    <3> QED
      BY Zenon, <3>1, <3>2 DEF Added
  <2> QED
    BY Zenon, <2>3, <2>4 DEF Held
<1>2. ASSUME NEW k \in Components \ {m}, NEW c \in Reads[k], NEW vc
      PROVE  /\ Credits(c, vc)' = Credits(c, vc) /\ Granted(c, vc)' = Granted(c, vc)
             /\ c \notin Drives[m] => Arriving(c, k, vc)' = Arriving(c, k, vc)
             /\ k \in Receivers => Stored(c, k, vc)' = Stored(c, k, vc)
  <2>1. k \in Components /\ k # m
    BY Zenon
  <2>2. c \in Connections /\ c \notin Reads[m]
    BY Zenon, <1>2, <2>1, Joined, Alone
  <2>3. /\ reverse_channels'[c] = reverse_channels[c] /\ cycle' = cycle
        /\ forward_propagated'[k] = forward_propagated[k]
        /\ c \notin Drives[m] => forward_channels'[c] = forward_channels[c]
    BY Zenon, <1>2, <2>2 DEF Frame
  <2>4. /\ Credits(c, vc)' = Credits(c, vc) /\ Granted(c, vc)' = Granted(c, vc)
    BY Zenon, <2>3 DEF Credits, Granted
  <2>5. c \notin Drives[m] => Arriving(c, k, vc)' = Arriving(c, k, vc)
    BY Zenon, <2>3 DEF Arriving
  <2>6. k \in Receivers => Stored(c, k, vc)' = Stored(c, k, vc)
    <3>1. CASE k \in Sinks
      BY Zenon, <3>1 DEF Stored
    <3>2. CASE k \in Routers
      <4>1. c \in Buffered
        BY Zenon, <1>2, <3>2, Attached, Ports
      <4>2. /\ input_buffers'[c] = input_buffers[c]
            /\ input_credit_to_send'[c] = input_credit_to_send[c]
        BY Zenon, <2>2, <4>1 DEF Frame
      <4> QED
        BY Zenon, <2>3, <4>2 DEF Stored
    <3> QED
      BY Zenon, <3>1, <3>2 DEF Receivers
  <2> QED
    BY Zenon, <2>4, <2>5, <2>6
<1>3. \A k \in Receivers \ {m} : k \in Components \ {m} /\ k \in Receivers
  BY Zenon, Kinds DEF Receivers
<1> QED
  BY Zenon, <1>1, <1>2, <1>3

(***************************************************************************)
(* The terms of the law are numbers.                                       *)
(***************************************************************************)
Numeric ==
  /\ \A n \in Senders : \A c \in Drives[n] : \A vc \in Vcs(c) : Held(n, c, vc) \in Nat
  /\ \A c \in Connections : \A vc \in Vcs(c) : Credits(c, vc) \in Nat
  /\ \A k \in Receivers : \A c \in Reads[k] : \A vc \in Vcs(c) : Stored(c, k, vc) \in Nat
  /\ \A c \in Connections : \A vc \in Vcs(c) : Granted(c, vc) \in Nat
  /\ \A l \in Links : \A vc \in LinkVcs(l) : Awaited(l, vc) \in Nat

(***************************************************************************)
(* The terms are numbers after a step, too.                                *)
(***************************************************************************)
LEMMA NumericNext == TypeInvariant' => Numeric'
<1>1. TypeInvariant => Numeric
  BY Zenon, Numbers DEF Numeric
<1> QED
  BY <1>1, PTL

(***************************************************************************)
(* A turn keeps the law of a connection that joins a sender to a receiver. *)
(***************************************************************************)
LEMMA DirectTurn ==
  ASSUME NEW m \in Components, TurnOf(m), TypeInvariant, FlagInvariant, Tour,
         TypeInvariant', FlagInvariant',
         NEW n \in Senders, NEW k \in Receivers, NEW c \in Drives[n] \cap Reads[k],
         NEW vc \in Vcs(c), DirectLaw(n, k, c, vc)
  PROVE  DirectLaw(n, k, c, vc)'
<1>1. Frame(m)
  BY Zenon, TurnFacts
<1>2. n \in Components /\ k \in Components /\ c \in Drives[n] /\ c \in Reads[k] /\ c \in Connections
  BY Zenon, Kinds, Joined DEF Senders, Receivers
<1>3. /\ Held(n, c, vc) \in Nat /\ Credits(c, vc) \in Nat /\ Stored(c, k, vc) \in Nat
      /\ Granted(c, vc) \in Nat /\ Arriving(c, k, vc) \in Nat
  BY Zenon, <1>2, Numbers, ArrivingNat
<1>4. /\ Held(n, c, vc)' \in Nat /\ Credits(c, vc)' \in Nat /\ Stored(c, k, vc)' \in Nat
      /\ Granted(c, vc)' \in Nat /\ Arriving(c, k, vc)' \in Nat
  BY Zenon, <1>2, NumericNext, ArrivingNat DEF Numeric
<1>5. Held(n, c, vc) + Credits(c, vc) + Arriving(c, k, vc) + Stored(c, k, vc) = Granted(c, vc)
  BY Zenon DEF DirectLaw
<1> SUFFICES Held(n, c, vc)' + Credits(c, vc)' + Arriving(c, k, vc)' + Stored(c, k, vc)'
             = Granted(c, vc)'
  BY Zenon DEF DirectLaw
<1>6. n # m => Held(n, c, vc)' = Held(n, c, vc)
  BY Zenon, <1>1, <1>2, Elsewhere
<1>7. k # m => /\ Credits(c, vc)' = Credits(c, vc) /\ Granted(c, vc)' = Granted(c, vc)
               /\ Stored(c, k, vc)' = Stored(c, k, vc)
  <2> SUFFICES ASSUME k # m
               PROVE  /\ Credits(c, vc)' = Credits(c, vc) /\ Granted(c, vc)' = Granted(c, vc)
                      /\ Stored(c, k, vc)' = Stored(c, k, vc)
    BY Zenon
  <2>1. k \in Components \ {m} /\ k \in Receivers \ {m}
    BY Zenon, <1>2
  <2>2. Credits(c, vc)' = Credits(c, vc) /\ Granted(c, vc)' = Granted(c, vc)
    BY Zenon, <1>1, <1>2, <2>1, Elsewhere
  <2>3. Stored(c, k, vc)' = Stored(c, k, vc)
    BY Zenon, <1>1, <1>2, <2>1, Elsewhere
  <2> QED
    BY Zenon, <2>2, <2>3
<1>8. n = m => Held(n, c, vc) + Arriving(c, k, vc) = Held(n, c, vc)' + Arriving(c, k, vc)'
  BY Zenon, <1>2, SenderKeeps
<1>9. k = m => Arriving(c, k, vc)' + Stored(c, k, vc)' + Credits(c, vc)' + Granted(c, vc)
               = Arriving(c, k, vc) + Stored(c, k, vc) + Credits(c, vc) + Granted(c, vc)'
  <2>1. Granted(c, vc) = 0 => Arriving(c, k, vc) = 0 /\ Stored(c, k, vc) = 0
    BY Zenon, <1>3, <1>5, NoneLeft
  <2>2. k = m => Settled(k, c, vc)
    BY Zenon, <1>2, <2>1, ReceiverSettles
  <2> QED
    BY Zenon, <2>2 DEF Settled
<1>10. n # m /\ k # m => Arriving(c, k, vc)' = Arriving(c, k, vc)
  <2>1. n # m => c \notin Drives[m]
    BY Zenon, <1>2, Alone
  <2>2. \A j \in Components \ {m} : \A d \in Reads[j] : \A v :
          d \notin Drives[m] => Arriving(d, j, v)' = Arriving(d, j, v)
    BY Zenon, <1>1, Elsewhere
  <2> QED
    BY Zenon, <1>2, <2>1, <2>2
<1>11. n = m /\ k = m => Arriving(c, k, vc) = 0 /\ Arriving(c, k, vc)' = 0
  <2> SUFFICES ASSUME n = m, k = m PROVE Arriving(c, k, vc) = 0 /\ Arriving(c, k, vc)' = 0
    BY Zenon
  <2>1. k \in Routers
    BY Zenon, Apart DEF Senders, Receivers
  <2>2. c \in Outputs[k]
    BY Zenon, <1>2, <2>1, Attached
  <2>3. (forward_channels[c].now => forward_propagated[k])
        /\ (forward_channels'[c].now => forward_propagated'[k])
    BY Zenon, <1>2, <2>1, <2>2 DEF FlagInvariant, ForwardOf
  <2> QED
    BY Zenon, <2>3 DEF Arriving
<1>12. CASE n = m /\ k = m
  BY <1>3, <1>4, <1>5, <1>8, <1>9, <1>11, <1>12
<1>13. CASE n = m /\ k # m
  BY <1>3, <1>4, <1>5, <1>7, <1>8, <1>13
<1>14. CASE n # m /\ k = m
  BY <1>3, <1>4, <1>5, <1>6, <1>9, <1>14
<1>15. CASE n # m /\ k # m
  BY Zenon, <1>3, <1>4, <1>5, <1>6, <1>7, <1>10, <1>15
<1> QED
  BY Zenon, <1>12, <1>13, <1>14, <1>15

(***************************************************************************)
(* The law of the two connections of a link, before and after a step.      *)
(***************************************************************************)
LEMMA LinkedIs ==
  ASSUME NEW n, NEW l, NEW k, NEW vc
  PROVE  /\ LinkedLaw(n, l, k, vc) <=>
              \E way, back \in Nat : /\ Total(FlitsOn(forward_data_stages[l], vc), way)
                                     /\ Total(reverse_credit_stages[l][vc], back)
                                     /\ LinkedSum(n, l, k, vc, way, back)
         /\ LinkedLaw(n, l, k, vc)' <=>
              \E way, back \in Nat : /\ Total(FlitsOn(forward_data_stages'[l], vc), way)
                                     /\ Total(reverse_credit_stages'[l][vc], back)
                                     /\ LinkedSum(n, l, k, vc, way, back)'
  BY Zenon DEF LinkedLaw, Total, FlitsOn

(***************************************************************************)
(* What the two connections of a link are to the link and to the others.   *)
(***************************************************************************)
LEMMA LinkPorts ==
  ASSUME NEW n \in Senders, NEW l \in Links, NEW k \in Receivers,
         src_connection[l] \in Drives[n], sink_connection[l] \in Reads[k]
  PROVE  /\ n \in Components /\ l \in Components /\ k \in Components /\ n # l /\ k # l
         /\ src_connection[l] \in Connections /\ sink_connection[l] \in Connections
         /\ src_connection[l] \in Reads[l] /\ sink_connection[l] \in Drives[l]
         /\ \A vc \in LinkVcs(l) : vc \in Vcs(src_connection[l]) /\ vc \in Vcs(sink_connection[l])
<1>1. n \in Components /\ l \in Components /\ k \in Components
  BY Zenon, Kinds DEF Senders, Receivers
<1>2. n # l /\ k # l
  BY Zenon, Apart DEF Senders, Receivers
<1>3. /\ src_connection[l] \in Connections /\ sink_connection[l] \in Connections
      /\ src_connection[l] \in Reads[l] /\ sink_connection[l] \in Drives[l]
  BY Zenon, Joined, Ports
<1>4. \A vc \in LinkVcs(l) : vc \in Vcs(src_connection[l]) /\ vc \in Vcs(sink_connection[l])
  BY Zenon, NocAssumption DEF LinkVcs, Vcs
<1> QED
  BY Zenon, <1>1, <1>2, <1>3, <1>4

(***************************************************************************)
(* The terms of a link's law are numbers, before and after a step.         *)
(***************************************************************************)
LinkedNumbers(n, l, k, vc) ==
  /\ Held(n, src_connection[l], vc) \in Nat /\ Credits(src_connection[l], vc) \in Nat
  /\ Arriving(src_connection[l], l, vc) \in Nat /\ Awaited(l, vc) \in Nat
  /\ Arriving(sink_connection[l], k, vc) \in Nat /\ Stored(sink_connection[l], k, vc) \in Nat
  /\ Granted(sink_connection[l], vc) \in Nat /\ Credits(sink_connection[l], vc) \in Nat
  /\ Upstream(n, l, vc) \in Nat /\ Downstream(l, k, vc) \in Nat

(***************************************************************************)
(* They are numbers where a link joins a sender to a receiver.             *)
(***************************************************************************)
LEMMA LinkedNat ==
  ASSUME NEW n \in Senders, NEW l \in Links, NEW k \in Receivers, NEW vc \in LinkVcs(l),
         src_connection[l] \in Drives[n], sink_connection[l] \in Reads[k],
         TypeInvariant, TypeInvariant'
  PROVE  LinkedNumbers(n, l, k, vc) /\ LinkedNumbers(n, l, k, vc)'
<1>1. /\ src_connection[l] \in Connections /\ sink_connection[l] \in Connections
      /\ vc \in Vcs(src_connection[l]) /\ vc \in Vcs(sink_connection[l])
  BY Zenon, LinkPorts
<1>2. Numeric /\ Numeric'
  BY Zenon, Numbers, NumericNext DEF Numeric
<1>3. /\ Held(n, src_connection[l], vc) \in Nat /\ Held(n, src_connection[l], vc)' \in Nat
      /\ Stored(sink_connection[l], k, vc) \in Nat /\ Stored(sink_connection[l], k, vc)' \in Nat
  BY Zenon, <1>1, <1>2 DEF Numeric
<1>4. /\ Credits(src_connection[l], vc) \in Nat /\ Credits(src_connection[l], vc)' \in Nat
      /\ Credits(sink_connection[l], vc) \in Nat /\ Credits(sink_connection[l], vc)' \in Nat
      /\ Granted(sink_connection[l], vc) \in Nat /\ Granted(sink_connection[l], vc)' \in Nat
      /\ Awaited(l, vc) \in Nat /\ Awaited(l, vc)' \in Nat
  BY Zenon, <1>1, <1>2 DEF Numeric
<1>5. /\ Arriving(src_connection[l], l, vc) \in Nat /\ Arriving(src_connection[l], l, vc)' \in Nat
      /\ Arriving(sink_connection[l], k, vc) \in Nat /\ Arriving(sink_connection[l], k, vc)' \in Nat
  BY Zenon, ArrivingNat
<1>6. Upstream(n, l, vc) \in Nat /\ Upstream(n, l, vc)' \in Nat
  BY Zenon, <1>3, <1>5, SumNat DEF Upstream
<1>7. Downstream(l, k, vc) \in Nat /\ Downstream(l, k, vc)' \in Nat
  BY Zenon, <1>3, <1>4, <1>5, SumNat DEF Downstream
<1> QED
  BY Zenon, <1>3, <1>4, <1>5, <1>6, <1>7 DEF LinkedNumbers

(***************************************************************************)
(* The link's own turn.                                                    *)
(***************************************************************************)
LEMMA LinkTurn ==
  ASSUME NEW n \in Senders, NEW l \in Links, NEW k \in Receivers, NEW vc \in LinkVcs(l),
         src_connection[l] \in Drives[n], sink_connection[l] \in Reads[k],
         TypeInvariant, FlagInvariant, TypeInvariant', TurnOf(l), LinkedLaw(n, l, k, vc)
  PROVE  LinkedLaw(n, l, k, vc)'
<1>1. PICK way \in Nat, back \in Nat : /\ Total(FlitsOn(forward_data_stages[l], vc), way)
                                       /\ Total(reverse_credit_stages[l][vc], back)
                                       /\ LinkedSum(n, l, k, vc, way, back)
  BY Zenon, LinkedIs
<1>2. LinkedNumbers(n, l, k, vc) /\ LinkedNumbers(n, l, k, vc)'
  BY Zenon, LinkedNat
<1>3. /\ n \in Components /\ l \in Components /\ k \in Components /\ n # l /\ k # l
      /\ n \in Senders \ {l} /\ k \in Components \ {l} /\ k \in Receivers \ {l}
  BY Zenon, LinkPorts
<1>4. Frame(l)
  BY Zenon, <1>3, TurnFacts
<1>5. /\ Held(n, src_connection[l], vc)' = Held(n, src_connection[l], vc)
      /\ Credits(sink_connection[l], vc)' = Credits(sink_connection[l], vc)
      /\ Granted(sink_connection[l], vc)' = Granted(sink_connection[l], vc)
      /\ Stored(sink_connection[l], k, vc)' = Stored(sink_connection[l], k, vc)
  BY Zenon, <1>3, <1>4, Elsewhere
<1>8. /\ Upstream(n, l, vc) \in Nat /\ Upstream(n, l, vc)' \in Nat
      /\ Downstream(l, k, vc) \in Nat /\ Downstream(l, k, vc)' \in Nat
      /\ Credits(src_connection[l], vc) \in Nat /\ Credits(src_connection[l], vc)' \in Nat
      /\ Granted(sink_connection[l], vc) \in Nat
  BY Zenon, <1>2 DEF LinkedNumbers
<1>6. CASE LinkForward(l)
  <2>1. /\ reverse_channels' = reverse_channels /\ reverse_credit_stages' = reverse_credit_stages
        /\ internal_reverse' = internal_reverse
    BY Zenon, <1>6, LinkForwardIs
  <2>2. /\ Credits(src_connection[l], vc)' = Credits(src_connection[l], vc)
        /\ Awaited(l, vc)' = Awaited(l, vc)
    BY Zenon, <2>1 DEF Credits, Awaited
  <2>3. PICK rest \in Nat :
           /\ Total(FlitsOn(forward_data_stages'[l], vc), rest)
           /\ Arriving(src_connection[l], l, vc) + way + Arriving(sink_connection[l], k, vc)
              = Arriving(src_connection[l], l, vc)' + rest
                  + Arriving(sink_connection[l], k, vc)'
    BY Zenon, <1>1, <1>6, LinkForwardCounts
  <2>4. Upstream(n, l, vc)' + rest + Downstream(l, k, vc)'
        = Upstream(n, l, vc) + way + Downstream(l, k, vc)
    <3> DEFINE h == Held(n, src_connection[l], vc)
               s == Stored(sink_connection[l], k, vc)
               a == Awaited(l, vc)
               x == Arriving(src_connection[l], l, vc)
               y == Arriving(sink_connection[l], k, vc)
               x2 == Arriving(src_connection[l], l, vc)'
               y2 == Arriving(sink_connection[l], k, vc)'
    <3>1. Upstream(n, l, vc) = h + x /\ Upstream(n, l, vc)' = h + x2
      BY Zenon, <1>5 DEF Upstream
    <3>2. Downstream(l, k, vc) = y + s + a /\ Downstream(l, k, vc)' = y2 + s + a
      BY Zenon, <1>5, <2>2 DEF Downstream
    <3>3. /\ h \in Nat /\ s \in Nat /\ a \in Nat
          /\ x \in Nat /\ y \in Nat /\ x2 \in Nat /\ y2 \in Nat
      BY Zenon, <1>2 DEF LinkedNumbers
    <3>4. x + way + y = x2 + rest + y2
      BY Zenon, <2>3
    <3> HIDE DEF h, s, a, x, y, x2, y2
    <3>5. (h + x2) + rest + (y2 + s + a) = (h + x) + way + (y + s + a)
      BY <3>3, <3>4
    <3> QED
      BY Zenon, <3>1, <3>2, <3>5
  <2>5. LinkedSum(n, l, k, vc, rest, back)'
    <3> DEFINE u == Upstream(n, l, vc)
               c == Credits(src_connection[l], vc)
               d == Downstream(l, k, vc)
               g == Granted(sink_connection[l], vc)
               u2 == Upstream(n, l, vc)'
               d2 == Downstream(l, k, vc)'
    <3>1. Adds(u, c, way, back, d, g)
      BY Zenon, <1>1 DEF LinkedSum
    <3>2. u \in Nat /\ c \in Nat /\ d \in Nat /\ g \in Nat /\ u2 \in Nat /\ d2 \in Nat
      BY Zenon, <1>8
    <3>3. u2 + rest + d2 = u + way + d
      BY Zenon, <2>4
    <3> HIDE DEF u, c, d, g, u2, d2
    <3>4. Adds(u2, c, rest, back, d2, g)
      BY <3>1, <3>2, <3>3 DEF Adds
    <3> USE DEF u, c, d, g, u2, d2
    <3> QED
      BY Zenon, <1>5, <2>2, <3>4 DEF LinkedSum
  <2> QED
    BY Zenon, <1>1, <2>1, <2>3, <2>5, LinkedIs
<1>7. CASE LinkReverse(l)
  <2>1. /\ forward_channels' = forward_channels /\ forward_data_stages' = forward_data_stages
        /\ forward_propagated' = forward_propagated
    BY Zenon, <1>7, LinkReverseIs DEF Reversed
  <2>2. /\ Arriving(src_connection[l], l, vc)' = Arriving(src_connection[l], l, vc)
        /\ Arriving(sink_connection[l], k, vc)' = Arriving(sink_connection[l], k, vc)
    BY Zenon, <2>1 DEF Arriving
  <2>3. PICK rest \in Nat :
           /\ Total(reverse_credit_stages'[l][vc], rest)
           /\ Awaited(l, vc) + back + Credits(src_connection[l], vc)
              = Awaited(l, vc)' + rest + Credits(src_connection[l], vc)'
    BY Zenon, <1>1, <1>7, LinkReverseCounts
  <2>4. Upstream(n, l, vc)' = Upstream(n, l, vc)
    BY Zenon, <1>5, <2>2 DEF Upstream
  <2>5. Credits(src_connection[l], vc)' + rest + Downstream(l, k, vc)'
        = Credits(src_connection[l], vc) + back + Downstream(l, k, vc)
    <3> DEFINE y == Arriving(sink_connection[l], k, vc) + Stored(sink_connection[l], k, vc)
               a == Awaited(l, vc)
               c == Credits(src_connection[l], vc)
               a2 == Awaited(l, vc)'
               c2 == Credits(src_connection[l], vc)'
    <3>1. Downstream(l, k, vc) = y + a /\ Downstream(l, k, vc)' = y + a2
      BY Zenon, <1>5, <2>2 DEF Downstream
    <3>2. y \in Nat
      BY Zenon, <1>2, SumNat DEF LinkedNumbers
    <3>3. a \in Nat /\ c \in Nat /\ a2 \in Nat /\ c2 \in Nat
      BY Zenon, <1>2 DEF LinkedNumbers
    <3>4. a + back + c = a2 + rest + c2
      BY Zenon, <2>3
    <3> HIDE DEF y, a, c, a2, c2
    <3>5. c2 + rest + (y + a2) = c + back + (y + a)
      BY <3>2, <3>3, <3>4
    <3> USE DEF y, a, c, a2, c2
    <3> QED
      BY Zenon, <3>1, <3>5
  <2>6. LinkedSum(n, l, k, vc, way, rest)'
    <3> DEFINE u == Upstream(n, l, vc)
               c == Credits(src_connection[l], vc)
               d == Downstream(l, k, vc)
               g == Granted(sink_connection[l], vc)
               c2 == Credits(src_connection[l], vc)'
               d2 == Downstream(l, k, vc)'
    <3>1. Adds(u, c, way, back, d, g)
      BY Zenon, <1>1 DEF LinkedSum
    <3>2. u \in Nat /\ c \in Nat /\ d \in Nat /\ g \in Nat /\ c2 \in Nat /\ d2 \in Nat
      BY Zenon, <1>8
    <3>3. c2 + rest + d2 = c + back + d
      BY Zenon, <2>5
    <3> HIDE DEF u, c, d, g, c2, d2
    <3>4. Adds(u, c2, way, rest, d2, g)
      BY <3>1, <3>2, <3>3 DEF Adds
    <3> USE DEF u, c, d, g, c2, d2
    <3> QED
      BY Zenon, <1>5, <2>4, <3>4 DEF LinkedSum
  <2> QED
    BY Zenon, <1>1, <2>1, <2>3, <2>6, LinkedIs
<1> QED
  BY Zenon, <1>6, <1>7, Apart DEF TurnOf

(***************************************************************************)
(* Where the receiver of a link takes flits or returns credits, what it    *)
(* has and what the link has yet to see of the credits it returns adds up  *)
(* to the same.                                                            *)
(***************************************************************************)
LEMMA LinkEnd ==
  ASSUME NEW m \in Components, NEW n \in Senders, NEW l \in Links, NEW k \in Receivers,
         NEW vc \in LinkVcs(l), m # l,
         src_connection[l] \in Drives[n], sink_connection[l] \in Reads[k],
         TypeInvariant, FlagInvariant, TypeInvariant', TurnOf(m),
         Granted(sink_connection[l], vc) = 0 =>
           Arriving(sink_connection[l], k, vc) = 0 /\ Stored(sink_connection[l], k, vc) = 0
  PROVE  Downstream(l, k, vc)' + Granted(sink_connection[l], vc)
         = Downstream(l, k, vc) + Granted(sink_connection[l], vc)'
<1>1. LinkedNumbers(n, l, k, vc) /\ LinkedNumbers(n, l, k, vc)'
  BY Zenon, LinkedNat
<1>2. /\ l \in Components /\ k \in Components
      /\ sink_connection[l] \in Connections /\ sink_connection[l] \in Drives[l]
      /\ vc \in Vcs(sink_connection[l])
  BY Zenon, LinkPorts
<1>3. Frame(m) /\ Steady
  BY Zenon, TurnFacts
<1>4. internal_reverse'[l] = internal_reverse[l]
  BY Zenon, <1>3 DEF Frame
<1>5. CASE k # m
  <2>1. sink_connection[l] \notin Drives[m]
    BY Zenon, <1>2, Alone
  <2>2. k \in Components \ {m} /\ k \in Receivers \ {m}
    BY Zenon, <1>2, <1>5
  <2>3. Arriving(sink_connection[l], k, vc)' = Arriving(sink_connection[l], k, vc)
    BY Zenon, <1>3, <2>1, <2>2, Elsewhere
  <2>4. /\ Credits(sink_connection[l], vc)' = Credits(sink_connection[l], vc)
        /\ Granted(sink_connection[l], vc)' = Granted(sink_connection[l], vc)
        /\ Stored(sink_connection[l], k, vc)' = Stored(sink_connection[l], k, vc)
    BY Zenon, <1>3, <2>2, Elsewhere
  <2>5. Awaited(l, vc)' = Awaited(l, vc)
    BY Zenon, <1>4, <2>4 DEF Awaited
  <2> QED
    BY Zenon, <2>3, <2>4, <2>5 DEF Downstream
<1>6. CASE k = m
  <2>1. Settled(k, sink_connection[l], vc)
    BY Zenon, <1>2, <1>6, ReceiverSettles
  <2>2. CASE internal_reverse[l][vc]
    <3>1. reverse_channels[sink_connection[l]][vc].now
      BY Zenon, <1>2, <2>2 DEF FlagInvariant, ReverseOf
    <3>2. reverse_channels'[sink_connection[l]][vc] = reverse_channels[sink_connection[l]][vc]
      BY Zenon, <1>2, <1>3, <3>1 DEF Steady
    <3>3. cycle' = cycle
      BY Zenon, <1>3 DEF Frame
    <3>4. /\ Credits(sink_connection[l], vc)' = Credits(sink_connection[l], vc)
          /\ Granted(sink_connection[l], vc)' = Granted(sink_connection[l], vc)
      BY Zenon, <3>2, <3>3 DEF Credits, Granted
    <3>5. Awaited(l, vc)' = 0 /\ Awaited(l, vc) = 0
      BY Zenon, <1>4, <2>2 DEF Awaited
    <3> QED
      <4> DEFINE y == Arriving(sink_connection[l], k, vc)
                 s == Stored(sink_connection[l], k, vc)
                 c == Credits(sink_connection[l], vc)
                 g == Granted(sink_connection[l], vc)
                 y2 == Arriving(sink_connection[l], k, vc)'
                 s2 == Stored(sink_connection[l], k, vc)'
      <4>1. y \in Nat /\ s \in Nat /\ c \in Nat /\ g \in Nat /\ y2 \in Nat /\ s2 \in Nat
        BY Zenon, <1>1 DEF LinkedNumbers
      <4>2. y2 + s2 + c + g = y + s + c + g
        BY Zenon, <2>1, <3>4 DEF Settled
      <4> HIDE DEF y, s, c, g, y2, s2
      <4>3. y2 + s2 + 0 + g = y + s + 0 + g
        BY <4>1, <4>2
      <4> USE DEF y, s, c, g, y2, s2
      <4> QED
        BY Zenon, <3>4, <3>5, <4>3 DEF Downstream
  <2>3. CASE ~internal_reverse[l][vc]
    <3>1. /\ Awaited(l, vc) = Credits(sink_connection[l], vc)
          /\ Awaited(l, vc)' = Credits(sink_connection[l], vc)'
      BY Zenon, <1>4, <2>3 DEF Awaited
    <3> QED
      BY Zenon, <1>1, <2>1, <3>1 DEF Settled, LinkedNumbers, Downstream
  <2> QED
    BY Zenon, <2>2, <2>3
<1> QED
  BY Zenon, <1>5, <1>6

(***************************************************************************)
(* Where its sender sends or adds credits, the two it has for the link.    *)
(***************************************************************************)
LEMMA LinkStart ==
  ASSUME NEW m \in Components, NEW n \in Senders, NEW l \in Links, NEW k \in Receivers,
         NEW vc \in LinkVcs(l), m # l,
         src_connection[l] \in Drives[n], sink_connection[l] \in Reads[k],
         TypeInvariant, FlagInvariant, Tour, TurnOf(m)
  PROVE  /\ Upstream(n, l, vc)' = Upstream(n, l, vc)
         /\ Credits(src_connection[l], vc)' = Credits(src_connection[l], vc)
<1>1. /\ n \in Components /\ l \in Components /\ n # l
      /\ src_connection[l] \in Connections /\ src_connection[l] \in Reads[l]
      /\ vc \in Vcs(src_connection[l])
  BY Zenon, LinkPorts
<1>2. Frame(m)
  BY Zenon, TurnFacts
<1>3. l \in Components \ {m}
  BY Zenon, <1>1
<1>4. Credits(src_connection[l], vc)' = Credits(src_connection[l], vc)
  BY Zenon, <1>1, <1>2, <1>3, Elsewhere
<1>5. CASE n = m
  <2>1. src_connection[l] \in Drives[n] \cap Reads[l]
    BY Zenon, <1>1
  <2> QED
    BY Zenon, <1>1, <1>4, <1>5, <2>1, SenderKeeps DEF Upstream
<1>6. CASE n # m
  <2>1. src_connection[l] \notin Drives[m]
    BY Zenon, <1>1, <1>6, Alone
  <2>2. n \in Senders \ {m}
    BY Zenon, <1>6
  <2>3. Held(n, src_connection[l], vc)' = Held(n, src_connection[l], vc)
    BY Zenon, <1>2, <2>2, Elsewhere
  <2>4. Arriving(src_connection[l], l, vc)' = Arriving(src_connection[l], l, vc)
    BY Zenon, <1>1, <1>2, <1>3, <2>1, Elsewhere
  <2> QED
    BY Zenon, <1>4, <2>3, <2>4 DEF Upstream
<1> QED
  BY Zenon, <1>5, <1>6

(***************************************************************************)
(* A turn of another component.                                            *)
(***************************************************************************)
LEMMA LinkedTurn ==
  ASSUME NEW m \in Components, NEW n \in Senders, NEW l \in Links, NEW k \in Receivers,
         NEW vc \in LinkVcs(l), m # l,
         src_connection[l] \in Drives[n], sink_connection[l] \in Reads[k],
         TypeInvariant, FlagInvariant, Tour, TypeInvariant', TurnOf(m), LinkedLaw(n, l, k, vc)
  PROVE  LinkedLaw(n, l, k, vc)'
<1>1. PICK way \in Nat, back \in Nat : /\ Total(FlitsOn(forward_data_stages[l], vc), way)
                                       /\ Total(reverse_credit_stages[l][vc], back)
                                       /\ LinkedSum(n, l, k, vc, way, back)
  BY Zenon, LinkedIs
<1>2. LinkedNumbers(n, l, k, vc) /\ LinkedNumbers(n, l, k, vc)'
  BY Zenon, LinkedNat
<1>3. /\ forward_data_stages'[l] = forward_data_stages[l]
      /\ reverse_credit_stages'[l] = reverse_credit_stages[l]
  <2>1. Frame(m)
    BY Zenon, TurnFacts
  <2> QED
    BY Zenon, <2>1 DEF Frame
<1>4. /\ Upstream(n, l, vc) \in Nat /\ Upstream(n, l, vc)' \in Nat
      /\ Downstream(l, k, vc) \in Nat /\ Downstream(l, k, vc)' \in Nat
      /\ Credits(src_connection[l], vc) \in Nat
      /\ Granted(sink_connection[l], vc) \in Nat /\ Granted(sink_connection[l], vc)' \in Nat
  BY Zenon, <1>2 DEF LinkedNumbers
<1>5. Granted(sink_connection[l], vc) = 0 =>
        Arriving(sink_connection[l], k, vc) = 0 /\ Stored(sink_connection[l], k, vc) = 0
  <2>1. Granted(sink_connection[l], vc) = 0 => Downstream(l, k, vc) = 0
    BY Zenon, <1>1, <1>4, AddsNothing DEF LinkedSum
  <2>2. Downstream(l, k, vc) = 0 =>
          Arriving(sink_connection[l], k, vc) = 0 /\ Stored(sink_connection[l], k, vc) = 0
    BY Zenon, <1>2, NothingOfThree DEF LinkedNumbers, Downstream
  <2> QED
    BY Zenon, <2>1, <2>2
<1>6. Downstream(l, k, vc)' + Granted(sink_connection[l], vc)
      = Downstream(l, k, vc) + Granted(sink_connection[l], vc)'
  BY Zenon, <1>5, LinkEnd
<1>7. /\ Upstream(n, l, vc)' = Upstream(n, l, vc)
      /\ Credits(src_connection[l], vc)' = Credits(src_connection[l], vc)
  BY Zenon, LinkStart
<1>8. LinkedSum(n, l, k, vc, way, back)'
  BY Zenon, <1>1, <1>4, <1>6, <1>7, AddsEnd DEF LinkedSum
<1> QED
  BY Zenon, <1>1, <1>3, <1>8, LinkedIs

(***************************************************************************)
(* In a new simulator no credit is granted and none is anywhere.           *)
(***************************************************************************)
LEMMA InitLaw == Init => CreditLaw
<1> SUFFICES ASSUME Init PROVE CreditLaw
  BY Zenon
<1>1. \A c \in Connections : \A vc \in Vcs(c) : Credits(c, vc) = 0 /\ Granted(c, vc) = 0
  <2>1. \A c \in Connections : \A vc \in Vcs(c) : reverse_channels[c][vc] = Now(0)
    BY Zenon DEF Init, EachVc
  <2>2. cycle = -1
    BY Zenon DEF Init
  <2>3. \A c \in Connections : \A vc \in Vcs(c) : Credits(c, vc) = 0
    BY <2>1 DEF Credits, Now
  <2>4. \A c, vc : Granted(c, vc) = 0
    BY Zenon, <2>2 DEF Granted
  <2> QED
    BY Zenon, <2>3, <2>4
<1>2. \A k \in Components : \A c, vc : Arriving(c, k, vc) = 0
  BY Zenon DEF Init, Arriving
<1>3. ASSUME NEW n \in Senders, NEW c \in Drives[n], NEW vc \in Vcs(c)
      PROVE  Held(n, c, vc) = 0
  <2>1. c \in Credited
    BY Zenon, <1>3 DEF Credited, Senders
  <2>2. credit[c][vc] = 0
    BY Zenon, <2>1 DEF Init, EachVc
  <2>3. Added(n)
    BY Zenon, Kinds DEF Init, Added, Senders
  <2> QED
    BY <2>2, <2>3 DEF Held
<1>4. ASSUME NEW k \in Receivers, NEW c \in Reads[k], NEW vc \in Vcs(c)
      PROVE  Stored(c, k, vc) = 0
  <2>1. k \in Components /\ c \in Connections
    BY Zenon, <1>4, Kinds, Joined DEF Receivers
  <2>2. reverse_channels[c][vc].now
    BY Zenon, <2>1 DEF Init, EachVc, Now
  <2>3. CASE k \in Sinks
    BY Zenon, <2>3 DEF Stored
  <2>4. CASE k \in Routers
    <3>1. c \in Buffered
      BY Zenon, <1>4, <2>4, Attached, Ports
    <3>2. input_buffers[c][vc] = <<>>
      BY Zenon, <3>1 DEF Init, EachVc
    <3>3. Stored(c, k, vc) = Len(<<>>) + 0
      BY Zenon, <2>2, <2>4, <3>2, Apart DEF Stored
    <3> QED
      BY <3>3
  <2> QED
    BY Zenon, <2>3, <2>4 DEF Receivers
<1>5. ASSUME NEW n \in Senders, NEW k \in Receivers, NEW c \in Drives[n] \cap Reads[k],
             NEW vc \in Vcs(c)
      PROVE  DirectLaw(n, k, c, vc)
  <2>1. n \in Components /\ k \in Components /\ c \in Connections /\ c \in Drives[n] /\ c \in Reads[k]
    BY Zenon, <1>5, Kinds, Joined DEF Senders, Receivers
  <2>2. /\ Held(n, c, vc) = 0 /\ Credits(c, vc) = 0 /\ Arriving(c, k, vc) = 0
        /\ Stored(c, k, vc) = 0 /\ Granted(c, vc) = 0
    BY Zenon, <1>1, <1>2, <1>3, <1>4, <2>1
  <2> QED
    BY <2>2 DEF DirectLaw
<1>6. ASSUME NEW n \in Senders, NEW l \in Links, NEW k \in Receivers, NEW vc \in LinkVcs(l),
             src_connection[l] \in Drives[n], sink_connection[l] \in Reads[k]
      PROVE  LinkedLaw(n, l, k, vc)
  <2>1. /\ n \in Components /\ l \in Components /\ k \in Components
        /\ src_connection[l] \in Connections /\ sink_connection[l] \in Connections
        /\ vc \in Vcs(src_connection[l]) /\ vc \in Vcs(sink_connection[l])
    BY Zenon, <1>6, LinkPorts
  <2>2. /\ Held(n, src_connection[l], vc) = 0 /\ Arriving(src_connection[l], l, vc) = 0
        /\ Credits(src_connection[l], vc) = 0 /\ Arriving(sink_connection[l], k, vc) = 0
        /\ Stored(sink_connection[l], k, vc) = 0 /\ Granted(sink_connection[l], vc) = 0
    BY Zenon, <1>1, <1>2, <1>3, <1>4, <1>6, <2>1
  <2>3. Awaited(l, vc) = 0
    BY Zenon DEF Init, Awaited
  <2>4. LinkedSum(n, l, k, vc, 0, 0)
    BY Zenon, <2>2, <2>3, Zeros DEF LinkedSum, Upstream, Downstream
  <2>5. forward_data_stages[l] = <<>> /\ reverse_credit_stages[l][vc] = <<>>
    BY Zenon DEF Init
  <2>6. FlitsOn(<<>>, vc) = <<>>
    BY DEF FlitsOn
  <2>7. 0 \in Nat
    BY Zenon
  <2> QED
    BY Zenon, <2>4, <2>5, <2>6, <2>7, TotalEmpty, LinkedIs
<1> QED
  BY Zenon, <1>5, <1>6 DEF CreditLaw

(***************************************************************************)
(* A step that leaves the network as it is.                                *)
(***************************************************************************)
LEMMA StillLaw ==
  ASSUME Still, CreditLaw
  PROVE  CreditLaw'
<1>1. UNCHANGED <<cycle, forward_channels, reverse_channels, forward_propagated, credit,
                  credit_update, forward_data_stages, reverse_credit_stages, internal_reverse,
                  internal_propagated, input_buffers, input_credit_to_send>>
  BY Zenon DEF Still, link_state, router_state
<1>2. /\ \A n, c, vc : Held(n, c, vc)' = Held(n, c, vc)
      /\ \A c, vc : Credits(c, vc)' = Credits(c, vc) /\ Granted(c, vc)' = Granted(c, vc)
      /\ \A c, k, vc : Arriving(c, k, vc)' = Arriving(c, k, vc) /\ Stored(c, k, vc)' = Stored(c, k, vc)
  BY Zenon, <1>1 DEF Held, Added, Credits, Granted, Arriving, Stored
<1>3. \A l, vc : Awaited(l, vc)' = Awaited(l, vc)
  BY Zenon, <1>1, <1>2 DEF Awaited
<1>4. \A n, k, c, vc : DirectLaw(n, k, c, vc) => DirectLaw(n, k, c, vc)'
  BY Zenon, <1>2 DEF DirectLaw
<1>5. \A n, l, k, vc, way, back :
        LinkedSum(n, l, k, vc, way, back) => LinkedSum(n, l, k, vc, way, back)'
  <2>1. /\ \A n, l, vc : Upstream(n, l, vc)' = Upstream(n, l, vc)
        /\ \A l, k, vc : Downstream(l, k, vc)' = Downstream(l, k, vc)
    BY Zenon, <1>2, <1>3 DEF Upstream, Downstream
  <2> QED
    BY Zenon, <1>2, <2>1 DEF LinkedSum
<1>6. ASSUME NEW n, NEW l, NEW k, NEW vc, LinkedLaw(n, l, k, vc) PROVE LinkedLaw(n, l, k, vc)'
  <2>1. PICK way \in Nat, back \in Nat : /\ Total(FlitsOn(forward_data_stages[l], vc), way)
                                         /\ Total(reverse_credit_stages[l][vc], back)
                                         /\ LinkedSum(n, l, k, vc, way, back)
    BY Zenon, <1>6, LinkedIs
  <2>2. LinkedSum(n, l, k, vc, way, back)'
    BY Zenon, <1>5, <2>1
  <2>3. /\ forward_data_stages' = forward_data_stages
        /\ reverse_credit_stages' = reverse_credit_stages
    BY Zenon, <1>1
  <2> QED
    BY Zenon, <2>1, <2>2, <2>3, LinkedIs
<1> QED
  BY Zenon, <1>4, <1>6 DEF CreditLaw

(***************************************************************************)
(* A turn.                                                                 *)
(***************************************************************************)
LEMMA TurnLaw ==
  ASSUME NEW m \in Components, TurnOf(m), TypeInvariant, FlagInvariant, Tour,
         TypeInvariant', FlagInvariant', CreditLaw
  PROVE  CreditLaw'
<1>1. ASSUME NEW n \in Senders, NEW k \in Receivers, NEW c \in Drives[n] \cap Reads[k],
             NEW vc \in Vcs(c)
      PROVE  DirectLaw(n, k, c, vc)'
  BY Zenon, <1>1, DirectTurn DEF CreditLaw
<1>2. ASSUME NEW n \in Senders, NEW l \in Links, NEW k \in Receivers, NEW vc \in LinkVcs(l),
             src_connection[l] \in Drives[n], sink_connection[l] \in Reads[k]
      PROVE  LinkedLaw(n, l, k, vc)'
  <2>1. LinkedLaw(n, l, k, vc)
    BY Zenon, <1>2 DEF CreditLaw
  <2>2. CASE m = l
    BY Zenon, <1>2, <2>1, <2>2, LinkTurn
  <2>3. CASE m # l
    BY Zenon, <1>2, <2>1, <2>3, LinkedTurn
  <2> QED
    BY Zenon, <2>2, <2>3
<1> QED
  BY Zenon, <1>1, <1>2 DEF CreditLaw

(***************************************************************************)
(* A new cycle begins once every component is done: the credits on a       *)
(* connection are then noted by its sender, and the connection is cleared. *)
(***************************************************************************)
LEMMA CycleTerms ==
  ASSUME RunCycle, TypeInvariant, FlagInvariant, Tour, Noted
  PROVE  /\ \A n \in Senders : \A c \in Drives[n] : \A vc \in Vcs(c) :
              Held(n, c, vc)' = Held(n, c, vc) + Credits(c, vc)
         /\ \A c \in Connections : \A vc \in Vcs(c) : Credits(c, vc)' = 0
         /\ \A k \in Components : \A c \in Reads[k] : \A vc \in Vcs(c) :
              /\ Arriving(c, k, vc) = 0 /\ Arriving(c, k, vc)' = 0
              /\ Stored(c, k, vc)' = Stored(c, k, vc) /\ Granted(c, vc)' = Granted(c, vc)
         /\ \A l \in Links : \A vc \in LinkVcs(l) : Awaited(l, vc) = 0 /\ Awaited(l, vc)' = 0
<1>1. \A n \in Components : forward_propagated[n] /\ reverse_propagated[n]
  BY Zenon DEF RunCycle, Tour
<1>2. /\ \A n \in Components : forward_propagated'[n] = FALSE
      /\ \A c \in Connections : forward_channels'[c].now = FALSE
      /\ \A c \in Connections : \A vc \in Vcs(c) : reverse_channels'[c][vc].now = FALSE
      /\ \A r \in Routers : internal_propagated'[r] = FALSE
      /\ credit' = credit /\ input_buffers' = input_buffers
  BY Zenon DEF RunCycle, EachVc, Old
<1>3. \A n \in Components : \A c \in Drives[n] \cup Reads[n] : \A vc \in Vcs(c) :
        reverse_channels[c][vc].now
  BY Zenon, <1>1, FlagsCurrent DEF ConvergedMeansCurrent
<1>4. \A c \in Connections : \A vc \in Vcs(c) : Credits(c, vc)' = 0
  BY Zenon, <1>2 DEF Credits
<1>5. ASSUME NEW n \in Senders, NEW c \in Drives[n], NEW vc \in Vcs(c)
      PROVE  Held(n, c, vc)' = Held(n, c, vc) + Credits(c, vc)
  <2>1. n \in Components /\ c \in Credited
    BY Zenon, <1>5, Kinds DEF Credited, Senders
  <2>2. NotedOf(n)
    BY Zenon DEF Noted
  <2>3. credit_update[c][vc].now
    BY Zenon, <1>1, <1>5, <2>1, <2>2 DEF NotedOf
  <2>4. Added(n) /\ credit_update[c][vc] = reverse_channels[c][vc]
    BY Zenon, <1>5, <2>2, <2>3 DEF NotedOf
  <2>5. credit_update'[c][vc].value = credit_update[c][vc].value
    BY Zenon, <1>5, <2>1 DEF RunCycle, Old
  <2>6. ~Added(n)'
    BY Zenon, <1>2, <2>1 DEF Added
  <2>7. credit[c][vc] \in Nat /\ reverse_channels[c][vc].value \in Nat
    <3>1. credit[c][vc] \in Nat /\ credit_update[c][vc].value \in Nat
      BY Zenon, <1>5, <2>1 DEF TypeInvariant, CreditType, CreditChannel
    <3> QED
      BY Zenon, <2>4, <3>1
  <2>8. Held(n, c, vc) = credit[c][vc] + 0
    BY Zenon, <2>4 DEF Held
  <2>9. Held(n, c, vc)' = credit[c][vc] + reverse_channels[c][vc].value
    BY Zenon, <1>2, <2>4, <2>5, <2>6 DEF Held
  <2>10. Credits(c, vc) = reverse_channels[c][vc].value
    BY Zenon, <2>3, <2>4 DEF Credits
  <2> QED
    BY <2>7, <2>8, <2>9, <2>10
<1>6. ASSUME NEW k \in Components, NEW c \in Reads[k], NEW vc \in Vcs(c)
      PROVE  /\ Arriving(c, k, vc) = 0 /\ Arriving(c, k, vc)' = 0
             /\ Stored(c, k, vc)' = Stored(c, k, vc) /\ Granted(c, vc)' = Granted(c, vc)
  <2>1. c \in Connections
    BY Zenon, <1>6, Joined
  <2>2. reverse_channels[c][vc].now /\ ~reverse_channels'[c][vc].now
    BY Zenon, <1>2, <1>3, <1>6, <2>1
  <2>3. forward_propagated[k] /\ ~forward_propagated'[k] /\ ~forward_channels'[c].now
    BY Zenon, <1>1, <1>2, <2>1
  <2>4. Arriving(c, k, vc) = 0 /\ Arriving(c, k, vc)' = 0
    BY Zenon, <2>3 DEF Arriving
  <2>5. Stored(c, k, vc)' = Stored(c, k, vc)
    BY Zenon, <1>2, <2>2, <2>3 DEF Stored
  <2>6. Granted(c, vc)' = Granted(c, vc)
    <3>1. cycle \in {-1, 0, 1} /\ cycle' = IF cycle < 1 THEN cycle + 1 ELSE cycle
      BY Zenon DEF TypeInvariant, ControlType, RunCycle
    <3>2. (cycle = -1 <=> cycle' = 0) /\ cycle' # -1
      BY <3>1
    <3> QED
      BY Zenon, <2>2, <3>2 DEF Granted
  <2> QED
    BY Zenon, <2>4, <2>5, <2>6
<1>7. ASSUME NEW l \in Links, NEW vc \in LinkVcs(l)
      PROVE  Awaited(l, vc) = 0 /\ Awaited(l, vc)' = 0
  <2>1. l \in Components /\ sink_connection[l] \in Connections /\ vc \in Vcs(sink_connection[l])
    BY Zenon, <1>7, Kinds, Ports, LinkSides
  <2>2. internal_reverse[l][vc]
    BY Zenon, <1>1, <1>7, <2>1 DEF FlagInvariant, ReverseOf
  <2> QED
    BY Zenon, <1>4, <2>1, <2>2 DEF Awaited
<1> QED
  BY Zenon, <1>4, <1>5, <1>6, <1>7

(***************************************************************************)
(* The law survives the start of a cycle.                                  *)
(***************************************************************************)
LEMMA CycleLaw ==
  ASSUME RunCycle, TypeInvariant, TypeInvariant', FlagInvariant, Tour, Noted, CreditLaw
  PROVE  CreditLaw'
<1>1. ASSUME NEW n \in Senders, NEW k \in Receivers, NEW c \in Drives[n] \cap Reads[k],
             NEW vc \in Vcs(c)
      PROVE  DirectLaw(n, k, c, vc)'
  <2>1. k \in Components /\ c \in Drives[n] /\ c \in Reads[k] /\ c \in Connections
    BY Zenon, <1>1, Kinds, Joined DEF Receivers
  <2>2. /\ Held(n, c, vc)' = Held(n, c, vc) + Credits(c, vc) /\ Credits(c, vc)' = 0
        /\ Arriving(c, k, vc) = 0 /\ Arriving(c, k, vc)' = 0
        /\ Stored(c, k, vc)' = Stored(c, k, vc) /\ Granted(c, vc)' = Granted(c, vc)
    BY Zenon, <1>1, <2>1, CycleTerms
  <2>3. Held(n, c, vc) \in Nat /\ Credits(c, vc) \in Nat /\ Stored(c, k, vc) \in Nat
    BY Zenon, <1>1, <2>1, Numbers
  <2>4. Held(n, c, vc) + Credits(c, vc) + Arriving(c, k, vc) + Stored(c, k, vc) = Granted(c, vc)
    BY Zenon, <1>1 DEF CreditLaw, DirectLaw
  <2> QED
    BY <2>2, <2>3, <2>4 DEF DirectLaw
<1>2. ASSUME NEW n \in Senders, NEW l \in Links, NEW k \in Receivers, NEW vc \in LinkVcs(l),
             src_connection[l] \in Drives[n], sink_connection[l] \in Reads[k]
      PROVE  LinkedLaw(n, l, k, vc)'
  <2>1. /\ l \in Components /\ k \in Components
        /\ src_connection[l] \in Connections /\ sink_connection[l] \in Connections
        /\ src_connection[l] \in Reads[l]
        /\ vc \in Vcs(src_connection[l]) /\ vc \in Vcs(sink_connection[l])
    BY Zenon, <1>2, LinkPorts
  <2>2. PICK way \in Nat, back \in Nat : /\ Total(FlitsOn(forward_data_stages[l], vc), way)
                                         /\ Total(reverse_credit_stages[l][vc], back)
                                         /\ LinkedSum(n, l, k, vc, way, back)
    BY Zenon, <1>2, LinkedIs DEF CreditLaw
  <2>3. LinkedNumbers(n, l, k, vc)
    BY Zenon, <1>2, LinkedNat
  <2>4. /\ Held(n, src_connection[l], vc)'
           = Held(n, src_connection[l], vc) + Credits(src_connection[l], vc)
        /\ Credits(src_connection[l], vc)' = 0
        /\ Arriving(src_connection[l], l, vc) = 0 /\ Arriving(src_connection[l], l, vc)' = 0
    BY Zenon, <1>2, <2>1, CycleTerms
  <2>5. /\ Arriving(sink_connection[l], k, vc) = 0 /\ Arriving(sink_connection[l], k, vc)' = 0
        /\ Stored(sink_connection[l], k, vc)' = Stored(sink_connection[l], k, vc)
        /\ Granted(sink_connection[l], vc)' = Granted(sink_connection[l], vc)
        /\ Awaited(l, vc) = 0 /\ Awaited(l, vc)' = 0
    BY Zenon, <1>2, <2>1, CycleTerms
  <2>6. Downstream(l, k, vc)' = Downstream(l, k, vc)
    BY Zenon, <2>5 DEF Downstream
  <2>7. Upstream(n, l, vc)' + Credits(src_connection[l], vc)'
        = Upstream(n, l, vc) + Credits(src_connection[l], vc)
    <3>1. Upstream(n, l, vc)' + Credits(src_connection[l], vc)'
          = Held(n, src_connection[l], vc) + Credits(src_connection[l], vc) + 0 + 0
      BY Zenon, <2>4 DEF Upstream
    <3>2. Upstream(n, l, vc) + Credits(src_connection[l], vc)
          = Held(n, src_connection[l], vc) + 0 + Credits(src_connection[l], vc)
      BY Zenon, <2>4 DEF Upstream
    <3>3. Held(n, src_connection[l], vc) \in Nat /\ Credits(src_connection[l], vc) \in Nat
      BY Zenon, <2>3 DEF LinkedNumbers
    <3> QED
      BY Zenon, <3>1, <3>2, <3>3, Moved
  <2>8. LinkedSum(n, l, k, vc, way, back)'
    BY Zenon, <2>2, <2>5, <2>6, <2>7 DEF LinkedSum, Adds
  <2>9. /\ forward_data_stages' = forward_data_stages
        /\ reverse_credit_stages' = reverse_credit_stages
    BY Zenon DEF RunCycle
  <2> QED
    BY Zenon, <2>2, <2>8, <2>9, LinkedIs
<1> QED
  BY Zenon, <1>1, <1>2 DEF CreditLaw

(***************************************************************************)
(* The law holds after every step.                                         *)
(***************************************************************************)
LEMMA LawStep ==
  /\ TypeInvariant /\ FlagInvariant /\ Tour /\ Noted /\ CreditLaw
  /\ TypeInvariant' /\ FlagInvariant' /\ [Next]_vars
  => CreditLaw'
<1> SUFFICES ASSUME TypeInvariant, FlagInvariant, Tour, Noted, CreditLaw,
                    TypeInvariant', FlagInvariant', [Next]_vars
             PROVE  CreditLaw'
  BY Zenon
<1>1. ASSUME NEW m \in Components, TurnOf(m) PROVE CreditLaw'
  BY Zenon, <1>1, TurnLaw
<1>2. CASE Still
  BY Zenon, <1>2, StillLaw
<1>3. CASE RunCycle
  BY Zenon, <1>3, CycleLaw
<1> QED
  BY Zenon, <1>1, <1>2, <1>3, Steps

(***************************************************************************)
(* Where the credits of every buffer are, at every point of every cycle,   *)
(* for every network, routing and order of the ticks: a credit that was    *)
(* granted for a virtual channel is with the sender, on a connection, in a *)
(* link, in a flit on its way or in the buffer, and none is there twice.   *)
(***************************************************************************)
THEOREM CreditsAreConserved == Spec => []CreditLaw
  BY InitType, InitFlags, InitTour, InitNoted, InitLaw, TypeStep, FlagStep, TourStep, NotedStep,
     LawStep, PTL DEF Spec

(***************************************************************************)
(* A buffer holds no more than was granted: its connection is driven by a  *)
(* sender, or by a link that reads from one.                               *)
(***************************************************************************)
LEMMA LawBounds == TypeInvariant /\ CreditLaw => BuffersBounded
<1> SUFFICES ASSUME TypeInvariant, CreditLaw, NEW c \in Buffered, NEW vc \in Vcs(c)
             PROVE  Len(input_buffers[c][vc]) <= max_queue_size[c][vc]
  BY Zenon DEF BuffersBounded
<1>1. PICK k \in Routers : c \in Inputs[k]
  BY Zenon, Ports
<1>2. k \in Receivers /\ k \in Components /\ c \in Reads[k] /\ c \in Connections /\ k \notin Sinks
  BY Zenon, <1>1, Kinds, Attached, Apart, Joined DEF Receivers
<1>3. /\ Granted(c, vc) \in Nat /\ Granted(c, vc) <= max_queue_size[c][vc]
      /\ max_queue_size[c][vc] \in Nat
  <2>1. max_queue_size[c] \in [Vcs(c) -> Nat]
    BY Zenon, <1>2, NocAssumption
  <2>2. max_queue_size[c][vc] \in Nat
    BY Zenon, <2>1
  <2> QED
    BY <2>2 DEF Granted
<1>4. Len(input_buffers[c][vc]) \in Nat /\ input_credit_to_send[c][vc] \in Nat
  BY DEF TypeInvariant, RouterType
<1>5. Stored(c, k, vc) \in Nat /\ Len(input_buffers[c][vc]) <= Stored(c, k, vc)
  BY <1>2, <1>4 DEF Stored
<1>6. Stored(c, k, vc) <= Granted(c, vc)
  <2>1. PICK n \in Components : c \in Drives[n]
    BY Zenon, <1>2, CompleteAssumption
  <2>2. CASE n \in Senders
    <3>1. c \in Drives[n] \cap Reads[k]
      BY Zenon, <1>2, <2>1
    <3>2. Held(n, c, vc) + Credits(c, vc) + Arriving(c, k, vc) + Stored(c, k, vc) = Granted(c, vc)
      BY Zenon, <1>2, <2>2, <3>1 DEF CreditLaw, DirectLaw
    <3>3. Held(n, c, vc) \in Nat /\ Credits(c, vc) \in Nat /\ Arriving(c, k, vc) \in Nat
      BY Zenon, <1>2, <2>1, <2>2, Numbers, ArrivingNat
    <3> QED
      BY <1>3, <1>5, <3>2, <3>3
  <2>3. CASE n \in Links
    <3>1. c = sink_connection[n]
      BY <2>1, <2>3, Attached
    <3>2. src_connection[n] \in Connections
      BY Zenon, <2>3, Ports
    <3>3. PICK s \in Components : src_connection[n] \in Drives[s]
      BY Zenon, <3>2, CompleteAssumption
    <3>4. s \notin Links
      <4> SUFFICES ASSUME s \in Links PROVE FALSE
        BY Zenon
      <4>1. src_connection[n] = sink_connection[s]
        BY <3>3, Attached
      <4> QED
        BY Zenon, <2>3, <4>1, CompleteAssumption
    <3>5. s \in Senders
      BY Zenon, <3>3, <3>4, Attached DEF Components, Senders
    <3>6. vc \in LinkVcs(n)
      BY Zenon, <2>3, <3>1, LinkSides
    <3>7. LinkedLaw(s, n, k, vc)
      BY Zenon, <1>2, <2>3, <3>1, <3>3, <3>5, <3>6 DEF CreditLaw
    <3>8. PICK way \in Nat, back \in Nat : LinkedSum(s, n, k, vc, way, back)
      BY Zenon, <3>7, LinkedIs
    <3>9. /\ Held(s, src_connection[n], vc) \in Nat /\ Credits(src_connection[n], vc) \in Nat
          /\ Awaited(n, vc) \in Nat
      BY Zenon, <2>3, <3>2, <3>3, <3>5, <3>6, Numbers DEF LinkVcs
    <3>10. Upstream(s, n, vc) \in Nat
      BY <3>9, ArrivingNat DEF Upstream
    <3>11. Downstream(n, k, vc) \in Nat /\ Stored(c, k, vc) <= Downstream(n, k, vc)
      BY <1>5, <3>1, <3>9, ArrivingNat DEF Downstream
    <3>12. Downstream(n, k, vc) <= Granted(c, vc)
      BY Zenon, <1>3, <3>1, <3>8, <3>9, <3>10, <3>11, AddsBound DEF LinkedSum
    <3> QED
      BY <1>3, <1>5, <3>11, <3>12
  <2>4. n \notin Sinks
    BY Zenon, <2>1, Attached
  <2> QED
    BY Zenon, <2>1, <2>2, <2>3, <2>4 DEF Components, Senders
<1> QED
  BY <1>3, <1>4, <1>5, <1>6

(***************************************************************************)
(* No buffer of a router ever holds more flits than it is deep, although   *)
(* the router stores what arrives unasked, for every network, routing and  *)
(* order of the ticks (BuffersBounded).                                    *)
(***************************************************************************)
THEOREM BuffersNeverOverflow == Spec => []BuffersBounded
  BY CreditsAreConserved, LawBounds, InitType, TypeStep, PTL DEF Spec

--------------------------------------------------------------------------------
(* The credits between cycles.                                             *)

(***************************************************************************)
(* Between cycles every component is done: a sender has noted the credits  *)
(* on its connections, nothing is left on a connection for a reader, and a *)
(* receiver has granted what its buffer is deep.                           *)
(***************************************************************************)
LEMMA TermsAtRest ==
  ASSUME TypeInvariant, FlagInvariant, Tour, Noted, phase = "idle", cycle >= 0
  PROVE  /\ \A n \in Senders : \A c \in Drives[n] : \A vc \in Vcs(c) :
              /\ Held(n, c, vc) = credit[c][vc]
              /\ Credits(c, vc) = credit_update[c][vc].value
              /\ credit[c][vc] \in Nat /\ credit_update[c][vc].value \in Nat
         /\ \A k \in Components : \A c \in Reads[k] : \A vc \in Vcs(c) : Arriving(c, k, vc) = 0
         /\ \A k \in Receivers : \A c \in Reads[k] : \A vc \in Vcs(c) :
              /\ Stored(c, k, vc) = Waiting(c, vc) /\ Waiting(c, vc) \in Nat
              /\ Granted(c, vc) = max_queue_size[c][vc]
         /\ \A l \in Links : \A vc \in LinkVcs(l) : Awaited(l, vc) = 0
<1>1. \A n \in Components : forward_propagated[n] /\ reverse_propagated[n]
  BY Zenon DEF Tour
<1>2. \A n \in Components : \A c \in Drives[n] \cup Reads[n] : \A vc \in Vcs(c) :
        reverse_channels[c][vc].now
  BY Zenon, <1>1, FlagsCurrent DEF ConvergedMeansCurrent
<1>3. ASSUME NEW n \in Senders, NEW c \in Drives[n], NEW vc \in Vcs(c)
      PROVE  /\ Held(n, c, vc) = credit[c][vc]
             /\ Credits(c, vc) = credit_update[c][vc].value
             /\ credit[c][vc] \in Nat /\ credit_update[c][vc].value \in Nat
  <2>1. n \in Components /\ c \in Credited
    BY Zenon, <1>3, Kinds DEF Credited, Senders
  <2>2. NotedOf(n)
    BY Zenon DEF Noted
  <2>3. credit_update[c][vc].now
    BY Zenon, <1>1, <1>3, <2>1, <2>2 DEF NotedOf
  <2>4. Added(n) /\ credit_update[c][vc] = reverse_channels[c][vc]
    BY Zenon, <1>3, <2>2, <2>3 DEF NotedOf
  <2>5. credit[c][vc] \in Nat /\ credit_update[c][vc].value \in Nat
    BY Zenon, <1>3, <2>1 DEF TypeInvariant, CreditType, CreditChannel
  <2>6. Held(n, c, vc) = credit[c][vc]
    BY Zenon, <2>4, <2>5, NothingMore DEF Held
  <2>7. Credits(c, vc) = credit_update[c][vc].value
    BY Zenon, <2>3, <2>4 DEF Credits
  <2> QED
    BY Zenon, <2>5, <2>6, <2>7
<1>4. \A k \in Components : \A c \in Reads[k] : \A vc \in Vcs(c) : Arriving(c, k, vc) = 0
  BY Zenon, <1>1 DEF Arriving
<1>5. ASSUME NEW k \in Receivers, NEW c \in Reads[k], NEW vc \in Vcs(c)
      PROVE  /\ Stored(c, k, vc) = Waiting(c, vc) /\ Waiting(c, vc) \in Nat
             /\ Granted(c, vc) = max_queue_size[c][vc]
  <2>1. k \in Components
    BY Zenon, <1>5, Kinds DEF Receivers
  <2>2. reverse_channels[c][vc].now
    BY Zenon, <1>2, <1>5, <2>1
  <2>3. cycle # -1
    BY DEF TypeInvariant, ControlType
  <2>4. Granted(c, vc) = max_queue_size[c][vc]
    BY Zenon, <2>2, <2>3 DEF Granted
  <2>5. CASE k \in Sinks
    <3>1. c \notin Buffered
      <4>1. c = src_connection[k]
        BY <1>5, <2>5, Attached
      <4> QED
        BY Zenon, <2>5, <4>1, OneReader, Ports
    <3> QED
      BY Zenon, <2>4, <2>5, <3>1 DEF Stored, Waiting
  <2>6. CASE k \in Routers
    <3>1. c \in Buffered /\ k \notin Sinks
      BY Zenon, <1>5, <2>6, Attached, Ports, Apart
    <3>2. Len(input_buffers[c][vc]) \in Nat
      BY <1>5, <3>1 DEF TypeInvariant, RouterType
    <3>3. Stored(c, k, vc) = Len(input_buffers[c][vc])
      BY Zenon, <2>2, <3>1, <3>2, NothingMore DEF Stored
    <3> QED
      BY Zenon, <2>4, <3>1, <3>2, <3>3 DEF Waiting
  <2> QED
    BY Zenon, <1>5, <2>5, <2>6 DEF Receivers
<1>6. ASSUME NEW l \in Links, NEW vc \in LinkVcs(l)
      PROVE  Awaited(l, vc) = 0
  <2>1. l \in Components
    BY Zenon, <1>6, Kinds
  <2>2. internal_reverse[l][vc]
    BY Zenon, <1>1, <1>6, <2>1 DEF FlagInvariant, ReverseOf
  <2> QED
    BY Zenon, <2>2 DEF Awaited
<1> QED
  BY Zenon, <1>3, <1>4, <1>5, <1>6

(***************************************************************************)
(* The law says between cycles what CreditsConserved says.                 *)
(***************************************************************************)
LEMMA LawAtRest ==
  Least /\ TypeInvariant /\ FlagInvariant /\ Tour /\ Noted /\ CreditLaw => CreditsConserved
<1> SUFFICES ASSUME Least, TypeInvariant, FlagInvariant, Tour, Noted, CreditLaw,
                    phase = "idle", cycle >= 0, NEW c \in Credited, NEW vc \in Vcs(c)
             PROVE  credit[c][vc] + credit_update[c][vc].value + Returning(c, vc)
                      + OnTheWay(c, vc) + Waiting(Far(c), vc)
                    = max_queue_size[Far(c)][vc]
  BY Zenon DEF CreditsConserved
<1>1. PICK n \in Senders : c \in Drives[n]
  BY Zenon DEF Credited, Senders
<1>2. n \in Components /\ c \in Connections
  BY Zenon, <1>1, Kinds, Joined DEF Senders
<1>3. PICK r \in Components : c \in Reads[r]
  BY Zenon, <1>2, CompleteAssumption
<1>4. /\ Held(n, c, vc) = credit[c][vc] /\ Credits(c, vc) = credit_update[c][vc].value
      /\ credit[c][vc] \in Nat /\ credit_update[c][vc].value \in Nat
  BY Zenon, <1>1, TermsAtRest
<1>5. Arriving(c, r, vc) = 0
  BY Zenon, <1>3, TermsAtRest
<1>6. CASE r \in Receivers
  <2>1. ~Linked(c)
    <3> SUFFICES ASSUME NEW l \in Links, src_connection[l] = c PROVE FALSE
      BY Zenon DEF Linked
    <3>1. l \in Components /\ c \in Reads[l] /\ l # r
      BY Zenon, <1>6, Kinds, Joined, Apart DEF Receivers
    <3> QED
      BY Zenon, <1>3, <3>1, Alone
  <2>2. Returning(c, vc) = 0 /\ OnTheWay(c, vc) = 0 /\ Far(c) = c
    BY Zenon, <2>1 DEF Returning, OnTheWay, Far
  <2>3. /\ Stored(c, r, vc) = Waiting(c, vc) /\ Waiting(c, vc) \in Nat
        /\ Granted(c, vc) = max_queue_size[c][vc]
    BY Zenon, <1>3, <1>6, TermsAtRest
  <2>4. Held(n, c, vc) + Credits(c, vc) + Arriving(c, r, vc) + Stored(c, r, vc) = Granted(c, vc)
    BY Zenon, <1>1, <1>3, <1>6 DEF CreditLaw, DirectLaw
  <2>5. credit[c][vc] + credit_update[c][vc].value + 0 + Waiting(c, vc) = max_queue_size[c][vc]
    BY Zenon, <1>4, <1>5, <2>3, <2>4
  <2>6. credit[c][vc] + credit_update[c][vc].value + 0 + 0 + Waiting(c, vc)
        = max_queue_size[c][vc]
    BY Zenon, <1>4, <2>5, NothingMore, SumNat
  <2> QED
    BY Zenon, <2>2, <2>6
<1>7. CASE r \in Links
  <2>1. src_connection[r] = c
    BY <1>3, <1>7, Attached
  <2>2. Linked(c) /\ LinkAt(c) \in Links /\ src_connection[LinkAt(c)] = c
    BY Zenon, <1>7, <2>1 DEF Linked, LinkAt
  <2>3. LinkAt(c) = r
    BY Zenon, <1>7, <2>1, <2>2, OneReader
  <2>4. /\ Returning(c, vc) = SumOf(reverse_credit_stages[r][vc])
        /\ OnTheWay(c, vc) = SumOf(FlitsOn(forward_data_stages[r], vc))
        /\ Far(c) = sink_connection[r]
    BY Zenon, <2>2, <2>3 DEF Returning, OnTheWay, Far
  <2> DEFINE d == sink_connection[r]
  <2>5. d \in Connections
    BY Zenon, <1>7, Ports
  <2>6. PICK k \in Components : d \in Reads[k]
    BY Zenon, <2>5, CompleteAssumption
  <2>7. k \in Receivers
    <3>1. k \notin Links
      <4> SUFFICES ASSUME k \in Links PROVE FALSE
        BY Zenon
      <4>1. d = src_connection[k]
        BY <2>6, Attached
      <4> QED
        BY Zenon, <1>7, <4>1, CompleteAssumption
    <3> QED
      BY Zenon, <2>6, <3>1, Attached DEF Components, Receivers
  <2>8. vc \in LinkVcs(r) /\ vc \in Vcs(d)
    BY Zenon, <1>7, <2>1, LinkSides
  <2>9. PICK way \in Nat, back \in Nat : /\ Total(FlitsOn(forward_data_stages[r], vc), way)
                                         /\ Total(reverse_credit_stages[r][vc], back)
                                         /\ LinkedSum(n, r, k, vc, way, back)
    <3>1. LinkedLaw(n, r, k, vc)
      BY Zenon, <1>1, <1>7, <2>1, <2>6, <2>7, <2>8 DEF CreditLaw
    <3> QED
      BY Zenon, <3>1 DEF LinkedLaw
  <2>10. SumOf(FlitsOn(forward_data_stages[r], vc)) = way
    <3>1. FlitsOn(forward_data_stages[r], vc) \in Seq(Nat)
      <4>1. forward_data_stages[r] \in Seq(Flits \cup {Invalid})
        BY Zenon, <1>7 DEF TypeInvariant, LinkType
      <4>2. \A f : On(f, vc) \in Nat
        BY Zenon DEF On
      <4> HIDE <2>9
      <4> QED
        BY <4>1, <4>2 DEF FlitsOn
    <3> QED
      BY Zenon, <2>9, <3>1, TotalIsSum
  <2>11. SumOf(reverse_credit_stages[r][vc]) = back
    <3>1. reverse_credit_stages[r][vc] \in Seq(Nat)
      BY Zenon, <1>7, <2>8 DEF TypeInvariant, LinkType
    <3> QED
      BY Zenon, <2>9, <3>1, TotalIsSum
  <2>12. /\ Stored(d, k, vc) = Waiting(d, vc) /\ Waiting(d, vc) \in Nat
         /\ Granted(d, vc) = max_queue_size[d][vc]
    BY Zenon, <2>6, <2>7, <2>8, TermsAtRest
  <2>13. Arriving(d, k, vc) = 0
    BY Zenon, <2>6, <2>8, TermsAtRest
  <2>14. Awaited(r, vc) = 0
    BY Zenon, <1>7, <2>8, TermsAtRest
  <2>15. Upstream(n, r, vc) = credit[c][vc]
    BY Zenon, <1>4, <1>5, <2>1, NothingMore DEF Upstream
  <2>16. Downstream(r, k, vc) = Waiting(d, vc)
    BY Zenon, <2>12, <2>13, <2>14, NothingMore DEF Downstream
  <2>17. Adds(credit[c][vc], credit_update[c][vc].value, way, back, Waiting(d, vc),
              max_queue_size[d][vc])
    BY Zenon, <1>4, <2>1, <2>9, <2>12, <2>15, <2>16 DEF LinkedSum
  <2>18. credit[c][vc] + credit_update[c][vc].value \in Nat
    BY Zenon, <1>4, SumNat
  <2>19. credit[c][vc] + credit_update[c][vc].value + back + way
         = credit[c][vc] + credit_update[c][vc].value + way + back
    BY Zenon, <2>9, <2>18, Exchanged
  <2>20. credit[c][vc] + credit_update[c][vc].value + back + way + Waiting(d, vc)
         = max_queue_size[d][vc]
    BY Zenon, <2>17, <2>19 DEF Adds
  <2> QED
    BY Zenon, <2>4, <2>10, <2>11, <2>20
<1> QED
  BY Zenon, <1>3, <1>6, <1>7, Attached DEF Components, Receivers

LOCAL INSTANCE WellFoundedInduction

(***************************************************************************)
(* The order of the numbers is well-founded.                               *)
(***************************************************************************)
LEMMA NumbersHaveALeast == Least
<1> DEFINE R == {ss \in Nat \X Nat : ss[1] < ss[2]}
<1> SUFFICES ASSUME NEW S \in SUBSET Nat, S # {} PROVE \E m \in S : \A k \in S : ~(k < m)
  BY Zenon DEF Least
<1>1. IsWellFoundedOn(R, Nat)
  BY Zenon, NatLessThanWellFounded DEF OpToRel
<1> HIDE DEF R
<1>2. PICK m \in S : \A k \in S : ~(<<k, m>> \in R)
  BY Zenon, <1>1, WFMin
<1>3. \A k \in S : ~(k < m)
  BY Zenon, <1>2 DEF R
<1> QED
  BY Zenon, <1>2, <1>3

(***************************************************************************)
(* Between cycles the places of every buffer are accounted for once, with  *)
(* the sender, on the way back, in the buffer or by a flit on its way, for *)
(* every network, routing and order of the ticks (CreditsConserved).       *)
(***************************************************************************)
THEOREM CreditsAddUp == Spec => []CreditsConserved
<1>1. TypeInvariant /\ FlagInvariant /\ Tour /\ Noted /\ CreditLaw => CreditsConserved
  BY Zenon, LawAtRest, NumbersHaveALeast
<1> QED
  BY <1>1, CreditsAreConserved, InitType, InitFlags, InitTour, InitNoted, TypeStep, FlagStep,
     TourStep, NotedStep, PTL DEF Spec

================================================================================
