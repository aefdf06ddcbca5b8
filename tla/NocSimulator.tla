------------------------------ MODULE NocSimulator ------------------------------
(***************************************************************************)
(* The cycle-accurate simulator of a network on chip                       *)
(* (noc/simulation/sim_objects).  Within a cycle every component is ticked *)
(* again and again, in a fixed order, until each has propagated flits      *)
(* forward and credits in reverse.  A connection carries the cycle it was  *)
(* last written in, which is how a component sees whether its inputs are   *)
(* there; here that stamp is a flag "now" that the next cycle clears.      *)
(***************************************************************************)
EXTENDS Integers, Sequences, FiniteSets, Functions

CONSTANTS
  Sources, Links, Routers, Sinks, Connections,
  vc_count,                   \* the virtual channels of a connection
  max_queue_size,             \* the depth of the buffer a connection ends at, per channel
  sink_connection,            \* the connection a source or link drives
  src_connection,             \* the connection a sink or link is driven by
  input_connection,           \* the connections at a router's input ports, by port index
  output_connection,          \* the same for its output ports
  forward_pipeline_stages, reverse_pipeline_stages,
  Route(_, _, _, _),          \* Route(r, c, vc, destination): connection and channel to leave on
  Flows,                      \* the traffic: [source, vc, destination]
  Orders,                     \* the orders in which components may be ticked
  Data, Invalid,
  max_ticks,
  MaxWait,                    \* bound: how far ahead the times of a flow's flits may lie
  MaxPending                  \* bound: the caller sends while fewer flits are on their way

Components == Sources \cup Links \cup Routers \cup Sinks
\* Every port declares a virtual channel: for a port with none the code makes
\* one in the connection but none in the component at its end.
Vcs(c) == 0..vc_count[c] - 1
Inputs == [r \in Routers |-> {input_connection[r][i] : i \in DOMAIN input_connection[r]}]
Outputs == [r \in Routers |-> {output_connection[r][i] : i \in DOMAIN output_connection[r]}]

(***************************************************************************)
(* A connection joins one component that drives it to one that reads it,   *)
(* and a link joins connections with the same channels.                    *)
(***************************************************************************)
Drives ==
  [n \in Components |-> CASE n \in Routers -> Outputs[n]
                          [] n \in Sinks -> {}
                          [] OTHER -> {sink_connection[n]}]
Reads ==
  [n \in Components |-> CASE n \in Routers -> Inputs[n]
                          [] n \in Sources -> {}
                          [] OTHER -> {src_connection[n]}]

(***************************************************************************)
(* The connections whose driver keeps credits, and those that end at a     *)
(* router's input buffers.                                                 *)
(***************************************************************************)
Credited == UNION {Drives[n] : n \in Sources \cup Routers}
Buffered == UNION {Inputs[r] : r \in Routers}

Flits == [flow : Flows, vc : Nat, data : Data]

ASSUME NocAssumption ==
  /\ Sources \cap (Links \cup Routers \cup Sinks) = {}
  /\ Links \cap (Routers \cup Sinks) = {} /\ Routers \cap Sinks = {}
  /\ vc_count \in [Connections -> Nat \ {0}]
  /\ \A c \in Connections : max_queue_size[c] \in [Vcs(c) -> Nat]
  /\ sink_connection \in [Sources \cup Links -> Connections]
  /\ src_connection \in [Sinks \cup Links -> Connections]
  /\ input_connection \in [Routers -> Seq(Connections)]
  /\ output_connection \in [Routers -> Seq(Connections)]
  /\ \A n, k \in Components : n # k => Drives[n] \cap Drives[k] = {} /\ Reads[n] \cap Reads[k] = {}
  /\ \A l \in Links : vc_count[src_connection[l]] = vc_count[sink_connection[l]]
  /\ forward_pipeline_stages \in [Links -> Nat] /\ reverse_pipeline_stages \in [Links -> Nat]
  /\ Flows \subseteq [source : Sources, vc : Nat, destination : Sinks]
  /\ \A f \in Flows : f.vc \in Vcs(sink_connection[f.source])
  /\ Orders \subseteq Seq(Components) /\ MaxWait \in [Flows -> Nat]
  /\ Invalid \notin Flits

(***************************************************************************)
(* No end of a connection is open, a link leads from a source or router to *)
(* a router or sink, the ticks leave no component out, and the routing     *)
(* tables lead to channels that exist.                                     *)
(***************************************************************************)
ASSUME CompleteAssumption ==
  /\ \A c \in Connections : \E n, k \in Components : c \in Drives[n] /\ c \in Reads[k]
  /\ \A l, m \in Links : sink_connection[l] # src_connection[m]
  /\ \A o \in Orders : \A n \in Components : \E i \in 1..Len(o) : o[i] = n
  /\ \A r \in Routers : \A c \in Inputs[r] : \A vc \in Vcs(c) : \A k \in Sinks :
       Route(r, c, vc, k) \in UNION {{o} \X Vcs(o) : o \in Outputs[r]}

VARIABLES
  order, cycle, phase,        \* "idle" between calls of RunCycle, "tick", or "failed"
  at, half,                   \* the component being ticked, and which propagation is tried
  converged, nticks,
  forward_channels, reverse_channels,               \* of each connection: [now, flit], [now, credit]
  forward_propagated, reverse_propagated,           \* of each component: done in this cycle
  forward_data_stages, reverse_credit_stages,       \* of each link
  internal_forward, internal_reverse,               \* of each link: its input was taken in this cycle
  data_to_send,                                     \* of each source: [flit, wait]
  credit, credit_update,                            \* of each credited connection
  internal_propagated,                              \* of each router: its credits were updated
  input_buffers, input_credit_to_send,              \* of each buffered connection
  pending                     \* history: the data sent and not received, by source, channel, sink

control == <<order, cycle, phase, at, half, converged, nticks>>
link_state == <<forward_data_stages, reverse_credit_stages, internal_forward, internal_reverse>>
router_state == <<internal_propagated, input_buffers, input_credit_to_send>>
vars ==
  <<control, forward_channels, reverse_channels, forward_propagated, reverse_propagated,
    link_state, data_to_send, credit, credit_update, router_state, pending>>

(***************************************************************************)
(* A channel as written in this cycle, and as the next cycle finds it.     *)
(* What an old channel holds is never read.  An invalid credit flit counts *)
(* as no credit.                                                           *)
(***************************************************************************)
Now(x) == [now |-> TRUE, value |-> x]
Old(x) == [now |-> FALSE, value |-> x]

EachVc(C, v) == [c \in C |-> [vc \in Vcs(c) |-> v]]
SourceVcs(s) == Vcs(sink_connection[s])
LinkVcs(l) == Vcs(src_connection[l])

(***************************************************************************)
(* A new simulator stands at cycle -1, for which everything is done.       *)
(***************************************************************************)
Init ==
  /\ order \in Orders
  /\ cycle = -1 /\ phase = "idle"
  /\ at = 1 /\ half = "forward" /\ converged = TRUE /\ nticks = 0
  /\ forward_channels = [c \in Connections |-> Now(Invalid)]
  /\ reverse_channels = EachVc(Connections, Now(0))
  /\ forward_propagated = [n \in Components |-> TRUE]
  /\ reverse_propagated = [n \in Components |-> TRUE]
  /\ forward_data_stages = [l \in Links |-> <<>>]
  /\ reverse_credit_stages = [l \in Links |-> [vc \in LinkVcs(l) |-> <<>>]]
  /\ internal_forward = [l \in Links |-> TRUE]
  /\ internal_reverse = [l \in Links |-> [vc \in LinkVcs(l) |-> TRUE]]
  /\ data_to_send = [s \in Sources |-> [vc \in SourceVcs(s) |-> <<>>]]
  /\ credit = EachVc(Credited, 0) /\ credit_update = EachVc(Credited, Now(0))
  /\ internal_propagated = [r \in Routers |-> TRUE]
  /\ input_buffers = EachVc(Buffered, <<>>) /\ input_credit_to_send = EachVc(Buffered, 0)
  /\ pending = [f \in Flows |-> <<>>]

--------------------------------------------------------------------------------
(* The caller and the loop of ticks.                                       *)

(***************************************************************************)
(* A flit is queued at its source, wait cycles ahead of its time.  The     *)
(* traffic injector, which runs at the start of a cycle, does the same     *)
(* with flits for that cycle.  A flow uses a virtual channel its source    *)
(* has (NocAssumption), so the OutOfRange error does not arise.            *)
(***************************************************************************)
SendFlitAtTime(f, d, wait) ==
  /\ phase = "idle"
  /\ SumFunction([g \in Flows |-> Len(pending[g])]) < MaxPending
  /\ data_to_send' =
       [data_to_send EXCEPT ![f.source][f.vc] =
          Append(@, [flit |-> [flow |-> f, vc |-> f.vc, data |-> d], wait |-> wait])]
  /\ pending' = [pending EXCEPT ![f] = Append(@, d)]
  /\ UNCHANGED <<control, forward_channels, reverse_channels, forward_propagated,
                 reverse_propagated, link_state, credit, credit_update, router_state>>

Sooner(q) ==
  [i \in DOMAIN q |->
     [flit |-> q[i].flit, wait |-> IF q[i].wait = 0 THEN 0 ELSE q[i].wait - 1]]

(***************************************************************************)
(* RunCycle begins.  Only cycle 0 is told apart from later ones.           *)
(***************************************************************************)
RunCycle ==
  /\ phase = "idle" /\ phase' = "tick"
  /\ cycle' = IF cycle < 1 THEN cycle + 1 ELSE cycle
  /\ at' = 1 /\ half' = "forward" /\ converged' = TRUE /\ nticks' = 0
  /\ forward_channels' = [c \in Connections |-> Old(Invalid)]
  /\ reverse_channels' = EachVc(Connections, Old(0))
  /\ forward_propagated' = [n \in Components |-> FALSE]
  /\ reverse_propagated' = [n \in Components |-> FALSE]
  /\ internal_forward' = [l \in Links |-> FALSE]
  /\ internal_reverse' = [l \in Links |-> [vc \in LinkVcs(l) |-> FALSE]]
  /\ internal_propagated' = [r \in Routers |-> FALSE]
  /\ credit_update' = [c \in Credited |-> [vc \in Vcs(c) |-> Old(credit_update[c][vc].value)]]
  /\ data_to_send' =
       [s \in Sources |-> [vc \in SourceVcs(s) |-> Sooner(data_to_send[s][vc])]]
  /\ UNCHANGED <<order, forward_data_stages, reverse_credit_stages, credit, input_buffers,
                 input_credit_to_send, pending>>

(***************************************************************************)
(* A tick is over.  The limit is looked at before convergence.             *)
(***************************************************************************)
TickEnds ==
  /\ phase = "tick" /\ at > Len(order)
  /\ at' = 1 /\ converged' = TRUE /\ nticks' = nticks + 1
  /\ phase' = IF nticks + 1 >= max_ticks THEN "failed" ELSE IF converged THEN "idle" ELSE "tick"
  /\ UNCHANGED <<order, cycle, half, forward_channels, reverse_channels, forward_propagated,
                 reverse_propagated, link_state, data_to_send, credit, credit_update,
                 router_state, pending>>

(***************************************************************************)
(* The Tick of a component tries forward propagation, then reverse         *)
(* propagation, each until it has succeeded once in the cycle.             *)
(***************************************************************************)
Turn(n, h) == phase = "tick" /\ at <= Len(order) /\ order[at] = n /\ half = h

Forwarded(n, done) ==
  /\ Turn(n, "forward") /\ ~forward_propagated[n]
  /\ forward_propagated' = [forward_propagated EXCEPT ![n] = done]
  /\ converged' = (converged /\ done)
  /\ half' = "reverse"
  /\ UNCHANGED <<order, cycle, phase, at, nticks, reverse_propagated>>

Reversed(n, done) ==
  /\ Turn(n, "reverse") /\ ~reverse_propagated[n]
  /\ reverse_propagated' = [reverse_propagated EXCEPT ![n] = done]
  /\ converged' = (converged /\ done)
  /\ half' = "forward" /\ at' = at + 1
  /\ UNCHANGED <<order, cycle, phase, nticks, forward_propagated>>

AlreadyPropagated(n) ==
  /\ \/ Turn(n, "forward") /\ forward_propagated[n] /\ half' = "reverse" /\ at' = at
     \/ Turn(n, "reverse") /\ reverse_propagated[n] /\ half' = "forward" /\ at' = at + 1
  /\ UNCHANGED <<order, cycle, phase, converged, nticks, forward_channels, reverse_channels,
                 forward_propagated, reverse_propagated, link_state, data_to_send, credit,
                 credit_update, router_state, pending>>

--------------------------------------------------------------------------------
(* Sources.                                                                *)

(***************************************************************************)
(* The least channel that has a due flit and a credit sends; the credits   *)
(* received in the last cycle are added first.                             *)
(***************************************************************************)
SourceForward(s) ==
  LET c == sink_connection[s]
      available == [vc \in Vcs(c) |-> credit[c][vc] + credit_update[c][vc].value]
      CanSend(vc) == /\ data_to_send[s][vc] # <<>> /\ Head(data_to_send[s][vc]).wait = 0
                     /\ available[vc] > 0
  IN  /\ Forwarded(s, TRUE)
      /\ \/ \E vc \in Vcs(c) :
              /\ CanSend(vc) /\ \A v \in 0..vc - 1 : ~CanSend(v)
              /\ forward_channels' =
                   [forward_channels EXCEPT ![c] = Now(Head(data_to_send[s][vc]).flit)]
              /\ credit' = [credit EXCEPT ![c] = [available EXCEPT ![vc] = @ - 1]]
              /\ data_to_send' = [data_to_send EXCEPT ![s][vc] = Tail(@)]
         \/ /\ \A vc \in Vcs(c) : ~CanSend(vc)
            /\ forward_channels' = [forward_channels EXCEPT ![c] = Now(Invalid)]
            /\ credit' = [credit EXCEPT ![c] = available]
            /\ UNCHANGED data_to_send
      /\ UNCHANGED <<reverse_channels, link_state, credit_update, router_state, pending>>

(***************************************************************************)
(* The credits received on connections C, each once a cycle.               *)
(***************************************************************************)
CreditsReceived(C) ==
  [c \in Credited |-> [vc \in Vcs(c) |->
     IF c \in C /\ reverse_channels[c][vc].now /\ ~credit_update[c][vc].now
     THEN reverse_channels[c][vc] ELSE credit_update[c][vc]]]

AllReceived(C) == \A c \in C : \A vc \in Vcs(c) : reverse_channels[c][vc].now

SourceReverse(s) ==
  LET C == Drives[s]
  IN  /\ Reversed(s, AllReceived(C))
      /\ credit_update' = CreditsReceived(C)
      /\ UNCHANGED <<forward_channels, reverse_channels, link_state, data_to_send, credit,
                     router_state, pending>>

--------------------------------------------------------------------------------
(* Links.                                                                  *)

(***************************************************************************)
(* A definition named Mistake... is a plausible mistake in the definition  *)
(* that follows it.                                                        *)
(***************************************************************************)
MistakeWritesAgain(stages, from, to, state, done, bubble) ==
  LET full == Len(state) >= stages
      rest == IF full THEN Tail(state) ELSE state
  IN  IF done THEN [to |-> to, state |-> state, done |-> TRUE]
      ELSE IF stages = 0
           THEN [to |-> IF from.now THEN from ELSE to, state |-> state, done |-> from.now]
           ELSE [to |-> IF full THEN Now(Head(state)) ELSE Now(bubble), done |-> from.now,
                 state |-> IF from.now THEN Append(rest, from.value) ELSE rest]

MistakeOutputWaits(stages, from, to, state, done, bubble) ==
  LET full == Len(state) >= stages
      rest == IF full THEN Tail(state) ELSE state
  IN  IF done \/ ~from.now THEN [to |-> to, state |-> state, done |-> done]
      ELSE IF stages = 0 THEN [to |-> from, state |-> state, done |-> TRUE]
      ELSE [to |-> IF full THEN Now(Head(state)) ELSE Now(bubble), done |-> TRUE,
            state |-> Append(rest, from.value)]

MistakeDoneOnOutput(stages, from, to, state, done, bubble) ==
  LET full == Len(state) >= stages
      rest == IF full THEN Tail(state) ELSE state
  IN  IF done THEN [to |-> to, state |-> state, done |-> TRUE]
      ELSE IF stages = 0
           THEN [to |-> IF from.now THEN from ELSE to, state |-> state, done |-> from.now]
           ELSE [to |-> IF full THEN Now(Head(state)) ELSE Now(bubble), done |-> TRUE,
                 state |-> IF from.now THEN Append(rest, from.value) ELSE rest]

(***************************************************************************)
(* One try of a pipeline of the given number of stages.  Without stages    *)
(* the output is written when the input is there; with stages the output   *)
(* is written at once, with a bubble while the pipeline fills.             *)
(***************************************************************************)
TryPropagation(stages, from, to, state, done, bubble) ==
  LET full == Len(state) >= stages
      to_now == IF to.now THEN to ELSE IF full THEN Now(Head(state)) ELSE Now(bubble)
      rest == IF ~to.now /\ full THEN Tail(state) ELSE state
  IN  IF done THEN [to |-> to, state |-> state, done |-> TRUE]
      ELSE IF stages = 0
           THEN [to |-> IF from.now THEN from ELSE to, state |-> state, done |-> from.now]
           ELSE [to |-> to_now, done |-> from.now,
                 state |-> IF from.now THEN Append(rest, from.value) ELSE rest]

LinkForward(l) ==
  LET c == sink_connection[l]
      p == TryPropagation(forward_pipeline_stages[l], forward_channels[src_connection[l]],
                          forward_channels[c], forward_data_stages[l], internal_forward[l],
                          Invalid)
  IN  /\ Forwarded(l, p.done)
      /\ forward_channels' = [forward_channels EXCEPT ![c] = p.to]
      /\ forward_data_stages' = [forward_data_stages EXCEPT ![l] = p.state]
      /\ internal_forward' = [internal_forward EXCEPT ![l] = p.done]
      /\ UNCHANGED <<reverse_channels, reverse_credit_stages, internal_reverse, data_to_send,
                     credit, credit_update, router_state, pending>>

LinkReverse(l) ==
  LET c == src_connection[l]
      p == [vc \in LinkVcs(l) |->
              TryPropagation(reverse_pipeline_stages[l], reverse_channels[sink_connection[l]][vc],
                             reverse_channels[c][vc], reverse_credit_stages[l][vc],
                             internal_reverse[l][vc], 0)]
  IN  /\ Reversed(l, \A vc \in LinkVcs(l) : p[vc].done)
      /\ reverse_channels' = [reverse_channels EXCEPT ![c] = [vc \in LinkVcs(l) |-> p[vc].to]]
      /\ reverse_credit_stages' =
           [reverse_credit_stages EXCEPT ![l] = [vc \in LinkVcs(l) |-> p[vc].state]]
      /\ internal_reverse' = [internal_reverse EXCEPT ![l] = [vc \in LinkVcs(l) |-> p[vc].done]]
      /\ UNCHANGED <<forward_channels, forward_data_stages, internal_forward, data_to_send,
                     credit, credit_update, router_state, pending>>

--------------------------------------------------------------------------------
(* Routers.                                                                *)

MistakeAddsOnEachTry(r) ==
  [c \in Credited |-> [vc \in Vcs(c) |->
     IF c \in Outputs[r] THEN credit[c][vc] + credit_update[c][vc].value ELSE credit[c][vc]]]

MistakeWaitsForInputs(r) ==
  [c \in Credited |-> [vc \in Vcs(c) |->
     IF /\ c \in Outputs[r] /\ ~internal_propagated[r]
        /\ \A i \in Inputs[r] : forward_channels[i].now
     THEN credit[c][vc] + credit_update[c][vc].value ELSE credit[c][vc]]]

(***************************************************************************)
(* The credits received in the last cycle are added on the first try, even *)
(* if the inputs are not there yet.                                        *)
(***************************************************************************)
RouterCredit(r) ==
  [c \in Credited |-> [vc \in Vcs(c) |->
     IF c \in Outputs[r] /\ ~internal_propagated[r]
     THEN credit[c][vc] + credit_update[c][vc].value ELSE credit[c][vc]]]

InputsReady(r) == \A c \in Inputs[r] : forward_channels[c].now

MistakeLastFirst(r) ==
  [c \in Buffered |-> [vc \in Vcs(c) |->
     LET f == forward_channels[c].value
     IN  IF c \in Inputs[r] /\ f # Invalid /\ f.vc = vc
         THEN <<f>> \o input_buffers[c][vc] ELSE input_buffers[c][vc]]]

(***************************************************************************)
(* The input buffers of r with the arriving flits.  A flit that finds its  *)
(* buffer empty can leave in the cycle it arrives in.                      *)
(***************************************************************************)
Arrived(r) ==
  [c \in Buffered |-> [vc \in Vcs(c) |->
     LET f == forward_channels[c].value
     IN  IF c \in Inputs[r] /\ f # Invalid /\ f.vc = vc
         THEN Append(input_buffers[c][vc], f) ELSE input_buffers[c][vc]]]

Heads(r, buffers) ==
  {h \in UNION {{i} \X Vcs(input_connection[r][i]) : i \in DOMAIN input_connection[r]} :
     buffers[input_connection[r][h[1]]][h[2]] # <<>>}

HigherPriority(h, g) == h[2] < g[2] \/ (h[2] = g[2] /\ h[1] < g[1])

(***************************************************************************)
(* Each output connection takes the first head, by channel and then by     *)
(* port, that is routed to it and has a credit.  A credit is taken at most *)
(* once a cycle, so the order of the loop decides nothing else.            *)
(***************************************************************************)
RouterForward(r) ==
  LET available == RouterCredit(r)
      buffers == Arrived(r)
      Conn(h) == input_connection[r][h[1]]
      Flit(h) == Head(buffers[Conn(h)][h[2]])
      To(h) == Route(r, Conn(h), h[2], Flit(h).flow.destination)
      ready == {h \in Heads(r, buffers) : available[To(h)[1]][To(h)[2]] > 0}
      sent == {h \in ready : \A g \in ready : To(g)[1] = To(h)[1] => ~HigherPriority(g, h)}
      From(c, vc) == {h \in sent : Conn(h) = c /\ h[2] = vc}
      Into(c) == {h \in sent : To(h)[1] = c}
  IN  /\ Forwarded(r, InputsReady(r))
      /\ internal_propagated' = [internal_propagated EXCEPT ![r] = TRUE]
      /\ \/ /\ ~InputsReady(r)
            /\ credit' = available
            /\ UNCHANGED <<forward_channels, input_buffers, input_credit_to_send>>
         \/ /\ InputsReady(r)
            /\ forward_channels' =
                 [c \in Connections |->
                    IF c \notin Outputs[r] THEN forward_channels[c]
                    ELSE IF Into(c) = {} THEN Now(Invalid)
                    ELSE LET h == CHOOSE h \in Into(c) : TRUE
                         IN  Now([flow |-> Flit(h).flow, vc |-> To(h)[2], data |-> Flit(h).data])]
            /\ credit' = [c \in Credited |-> [vc \in Vcs(c) |->
                            IF \E h \in Into(c) : To(h)[2] = vc
                            THEN available[c][vc] - 1 ELSE available[c][vc]]]
            /\ input_buffers' = [c \in Buffered |-> [vc \in Vcs(c) |->
                                   IF From(c, vc) # {} THEN Tail(buffers[c][vc])
                                   ELSE buffers[c][vc]]]
            /\ input_credit_to_send' =
                 [c \in Buffered |->
                    IF c \in Inputs[r]
                    THEN [vc \in Vcs(c) |-> IF From(c, vc) # {} THEN 1 ELSE 0]
                    ELSE input_credit_to_send[c]]
      /\ UNCHANGED <<reverse_channels, link_state, data_to_send, credit_update, pending>>

MistakeOneTooMany(c, vc) ==
  IF cycle = 0 THEN max_queue_size[c][vc] + 1 ELSE input_credit_to_send[c][vc]

CreditToSend(c, vc) ==
  IF cycle = 0 THEN max_queue_size[c][vc] ELSE input_credit_to_send[c][vc]

(***************************************************************************)
(* After forward propagation the credits of the flits that left are sent   *)
(* upstream, in cycle 0 a full set; credits are awaited from downstream.   *)
(***************************************************************************)
RouterReverse(r) ==
  IF ~forward_propagated[r]
  THEN /\ Reversed(r, FALSE)
       /\ UNCHANGED <<forward_channels, reverse_channels, link_state, data_to_send, credit,
                      credit_update, router_state, pending>>
  ELSE /\ Reversed(r, AllReceived(Outputs[r]))
       /\ reverse_channels' =
            [c \in Connections |->
               IF c \in Inputs[r]
               THEN [vc \in Vcs(c) |->
                       Now(CreditToSend(c, vc))]
               ELSE reverse_channels[c]]
       /\ credit_update' = CreditsReceived(Outputs[r])
       /\ UNCHANGED <<forward_channels, link_state, data_to_send, credit, router_state, pending>>

--------------------------------------------------------------------------------
(* Sinks.                                                                  *)

(***************************************************************************)
(* A sink takes what arrives and returns its credit in the same cycle.     *)
(***************************************************************************)
SinkForward(k) ==
  LET c == src_connection[k]
      f == forward_channels[c].value
      received == forward_channels[c].now /\ f # Invalid
  IN  /\ Forwarded(k, forward_channels[c].now)
      /\ reverse_channels' =
           IF ~forward_channels[c].now THEN reverse_channels
           ELSE [reverse_channels EXCEPT ![c] =
                   [vc \in Vcs(c) |->
                      Now(IF cycle = 0 THEN max_queue_size[c][vc]
                          ELSE IF received /\ f.vc = vc THEN 1 ELSE 0)]]
      /\ pending' = IF received THEN [pending EXCEPT ![f.flow] = SubSeq(@, 2, Len(@))] ELSE pending
      /\ UNCHANGED <<forward_channels, link_state, data_to_send, credit, credit_update,
                     router_state>>

SinkReverse(k) ==
  /\ Reversed(k, TRUE)
  /\ UNCHANGED <<forward_channels, reverse_channels, link_state, data_to_send, credit,
                 credit_update, router_state, pending>>

Tick ==
  \/ \E n \in Components : AlreadyPropagated(n)
  \/ \E s \in Sources : SourceForward(s) \/ SourceReverse(s)
  \/ \E l \in Links : LinkForward(l) \/ LinkReverse(l)
  \/ \E r \in Routers : RouterForward(r) \/ RouterReverse(r)
  \/ \E k \in Sinks : SinkForward(k) \/ SinkReverse(k)
  \/ TickEnds

Next ==
  \/ \E f \in Flows, d \in Data : \E wait \in 1..MaxWait[f] : SendFlitAtTime(f, d, wait)
  \/ RunCycle
  \/ Tick

Spec == Init /\ [][Next]_vars

(***************************************************************************)
(* The driver of a simulation calls RunCycle again and again.              *)
(***************************************************************************)
FairSpec == Spec /\ WF_vars(RunCycle \/ Tick)

--------------------------------------------------------------------------------
(***************************************************************************)
(* What the header says of a component that has converged: every           *)
(* connection attached to it has its state of the current cycle.           *)
(***************************************************************************)
ConvergedMeansCurrent ==
  \A n \in Components : forward_propagated[n] /\ reverse_propagated[n] =>
    \A c \in Drives[n] \cup Reads[n] :
      forward_channels[c].now /\ \A vc \in Vcs(c) : reverse_channels[c][vc].now

(***************************************************************************)
(* A channel is written once a cycle: however often and in whatever order  *)
(* the components are ticked, what one has read is not changed afterwards. *)
(***************************************************************************)
WrittenOnce ==
  [][phase = "tick" =>
       \A c \in Connections :
         /\ forward_channels[c].now => forward_channels'[c] = forward_channels[c]
         /\ \A vc \in Vcs(c) :
              reverse_channels[c][vc].now => reverse_channels'[c][vc] = reverse_channels[c][vc]]_vars

(***************************************************************************)
(* The ticks of a cycle converge before the limit.                         *)
(***************************************************************************)
Converges == phase # "failed"

(***************************************************************************)
(* The link that c leads to, if it leads to one, and the connection on     *)
(* which a flit from connection c reaches a buffer or a sink: c, or the    *)
(* far side of that link.                                                  *)
(***************************************************************************)
Linked(c) == \E l \in Links : src_connection[l] = c
LinkAt(c) == CHOOSE l \in Links : src_connection[l] = c
Far(c) == IF Linked(c) THEN sink_connection[LinkAt(c)] ELSE c

(***************************************************************************)
(* Whether value f of a forward channel is a flit on virtual channel vc,   *)
(* as a number, and the sum of a sequence of numbers.                      *)
(***************************************************************************)
On(f, vc) == IF f # Invalid /\ f.vc = vc THEN 1 ELSE 0
FlitsOn(q, vc) == [i \in 1 .. Len(q) |-> On(q[i], vc)]

SumOf(q) ==
  LET Suffix[i \in 1 .. Len(q) + 1] == IF i = Len(q) + 1 THEN 0 ELSE q[i] + Suffix[i + 1]
  IN  Suffix[1]

OnTheWay(c, vc) ==
  IF Linked(c) THEN SumOf(FlitsOn(forward_data_stages[LinkAt(c)], vc)) ELSE 0

Returning(c, vc) ==
  IF Linked(c) THEN SumOf(reverse_credit_stages[LinkAt(c)][vc]) ELSE 0

Waiting(c, vc) == IF c \in Buffered THEN Len(input_buffers[c][vc]) ELSE 0

(***************************************************************************)
(* Between cycles every place of a buffer is free and known to be so by    *)
(* the sender, or free with its credit on the way back, or taken, or meant *)
(* for a flit on its way: no credit is lost and none is made up, through   *)
(* the initial credits of cycle 0, the links' pipelines and the delay of a *)
(* cycle with which credits are added.                                     *)
(***************************************************************************)
CreditsConserved ==
  phase = "idle" /\ cycle >= 0 =>
    \A c \in Credited : \A vc \in Vcs(c) :
      credit[c][vc] + credit_update[c][vc].value + Returning(c, vc) + OnTheWay(c, vc)
        + Waiting(Far(c), vc)
      = max_queue_size[Far(c)][vc]

(***************************************************************************)
(* A router never holds more flits than the depth of its buffers, although *)
(* it stores what arrives without looking at the depth.                    *)
(***************************************************************************)
BuffersBounded ==
  \A c \in Buffered : \A vc \in Vcs(c) : Len(input_buffers[c][vc]) <= max_queue_size[c][vc]

(***************************************************************************)
(* A sink receives the flits of a flow in the order they were sent, none   *)
(* twice, none left out, and only those addressed to it.                   *)
(***************************************************************************)
DeliveredInOrder ==
  [][\A k \in Sinks :
       LET c == forward_channels[src_connection[k]]
       IN  Turn(k, "forward") /\ ~forward_propagated[k] /\ c.now /\ c.value # Invalid
             => LET f == c.value.flow
                IN  f.destination = k /\ pending[f] # <<>> /\ Head(pending[f]) = c.value.data]_vars

(***************************************************************************)
(* Once nothing more is sent, the network runs empty.  (While flits keep   *)
(* coming, the fixed priority of channels and ports may starve some.)      *)
(***************************************************************************)
Sends == data_to_send # data_to_send' /\ phase = "idle" /\ phase' = "idle"

Drains ==
  (<>[][~Sends]_vars) => []<>(\A f \in Flows : pending[f] = <<>>)

================================================================================
