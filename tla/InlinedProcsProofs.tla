--------------------------- MODULE InlinedProcsProofs ---------------------------
(***************************************************************************)
(* The container that proc inlining makes of a network, whatever the       *)
(* network: lemmas about the order of evaluation, the activations of a     *)
(* proc and AlwaysWith; an inductive invariant, where the activation bits  *)
(* are and what the users of a receive see, that every action preserves;   *)
(* that the data-loss assertion raises no false alarm; and that inlining   *)
(* preserves the meaning of every network whose sends and receives on an   *)
(* inlined channel exclude each other (ChannelsExclusive): the container   *)
(* implements TokenNetwork.                                                *)
(***************************************************************************)
EXTENDS InlinedProcs, WellFoundedInduction, TLAPS

(***************************************************************************)
(* The second value of two stays when the first is taken.                  *)
(***************************************************************************)
LEMMA TailOfTwo ==
  ASSUME NEW S, NEW x \in S, NEW y \in S
  PROVE  Tail(Append(<<x>>, y)) = <<y>>
<1>1. \A s \in Seq(S) : s # <<>> => Tail(Append(s, y)) = Append(Tail(s), y)
  OBVIOUS
<1>2. <<x>> \in Seq(S) /\ <<x>> # <<>> /\ Append(Tail(<<x>>), y) = <<y>>
  OBVIOUS
<1> QED BY Zenon, <1>1, <1>2

(***************************************************************************)
(* One value and then another are more than one.                           *)
(***************************************************************************)
LEMMA LengthOfTwo ==
  ASSUME NEW S, NEW x \in S, NEW y \in S
  PROVE  Len(<<x>>) > 0 /\ Len(<<x>> \o <<y>>) > 1
<1>1. <<x>> \in Seq(S) /\ <<y>> \in Seq(S) /\ Len(<<x>>) = 1 /\ Len(<<y>>) = 1
  OBVIOUS
<1>2. Len(<<x>> \o <<y>>) = 2
  BY <1>1
<1> QED BY <1>1, <1>2

(***************************************************************************)
(* Of two numbers at most one is the smaller.                              *)
(***************************************************************************)
LEMMA Ordered == \A i, j \in Nat : i < j => ~(j < i) /\ ~(j <= i)
  OBVIOUS

(***************************************************************************)
(* A nonempty set of naturals has a least element.                         *)
(***************************************************************************)
LEMMA LeastNatural ==
  ASSUME NEW T, T \subseteq Nat, T # {}
  PROVE  \E x \in T : \A y \in T : x <= y
<1>1. PICK R : R = OpToRel(<, Nat)
  BY Zenon
<1>2. IsWellFoundedOn(R, Nat)
  BY Zenon, <1>1, NatLessThanWellFounded
<1>3. PICK x \in T : \A y \in T : ~(<<y, x>> \in R)
  BY Zenon, <1>2, WFMin
<1>4. \A y \in Nat : y < x => <<y, x>> \in R
  BY Zenon, <1>1, x \in Nat DEF OpToRel
<1>5. \A y \in T : ~(y < x)
  BY Zenon, <1>3, <1>4
<1>6. \A y \in T : x <= y
  BY <1>5
<1> QED BY Zenon, <1>6

(***************************************************************************)
(* Position gives each node and sink its place in the order.               *)
(***************************************************************************)
LEMMA PositionFacts ==
  /\ Len(order) \in Nat
  /\ \A n \in Nodes \cup Procs : Position(n) \in 1 .. Len(order) /\ order[Position(n)] = n
  /\ \A n \in Nodes \cup Procs : \A j \in 1 .. Len(order) : order[j] = n => j = Position(n)
<1>1. order \in Seq(Nodes \cup Procs) /\ Len(order) \in Nat /\ DOMAIN order = 1 .. Len(order)
  BY OrderAssumption
<1>2. ASSUME NEW n \in Nodes \cup Procs
      PROVE  Position(n) \in DOMAIN order /\ order[Position(n)] = n
  BY Zenon, OrderAssumption DEF Position
<1>3. ASSUME NEW n \in Nodes \cup Procs, NEW j \in 1 .. Len(order), order[j] = n
      PROVE  j = Position(n)
  BY Zenon, <1>1, <1>2, <1>3, OrderAssumption
<1> QED BY Zenon, <1>1, <1>2, <1>3

(***************************************************************************)
(* Being at a node.                                                        *)
(***************************************************************************)
LEMMA AtPosition ==
  ASSUME at \in 1 .. Len(order) + 1, NEW n \in Nodes \cup Procs
  PROVE  At(n) <=> Position(n) = at
BY PositionFacts DEF At

(***************************************************************************)
(* Activations come from nodes of the same proc, or from its source.       *)
(***************************************************************************)
LEMMA ActivationsFromFacts ==
  ASSUME NEW n \in Nodes \cup Procs
  PROVE  /\ ActivationsFrom(n) \subseteq Nodes \cup {"source"}
         /\ ProcOf(n) \in Procs
         /\ \A m \in ActivationsFrom(n) : m # "source" =>
              /\ m \in Nodes /\ proc[m] = ProcOf(n)
              /\ Position(m) < Position(n)
         /\ n \in Nodes => /\ ProcOf(n) = proc[n] /\ n \notin Procs
                           /\ Preds[n] \subseteq ActivationsFrom(n)
                           /\ ActivationsFrom(n) \subseteq Preds[n] \cup {"source"}
                           /\ ActivationsFrom(n) # {}
         /\ n \in Procs => n \notin Nodes /\ ProcOf(n) = n
BY Zenon, InlinedProcsAssumption, OrderAssumption
   DEF ActivationsFrom, ProcOf, Terminal, NodesOf

(***************************************************************************)
(* Sends, and receives from outside, have one predecessor.                 *)
(***************************************************************************)
LEMMA OnePredecessor ==
  ASSUME NEW n \in Nodes, op[n] # "after_all"
  PROVE  \A m, k \in ActivationsFrom(n) : m = k
BY Zenon, InlinedProcsAssumption DEF ActivationsFrom

(***************************************************************************)
(* A set of a proc's nodes that contains the last ones and, with a node,   *)
(* its predecessors, contains all: a node that is missing and has the      *)
(* largest position would precede one that is not.                         *)
(***************************************************************************)
LEMMA TerminalReachesAll ==
  ASSUME NEW p \in Procs, NEW S, Terminal(p) \subseteq S,
         \A n \in S \cap NodesOf(p) : Preds[n] \subseteq S
  PROVE  NodesOf(p) \subseteq S
<1> SUFFICES ASSUME NodesOf(p) \ S # {}
             PROVE  FALSE
  BY Zenon
<1> DEFINE Rest == NodesOf(p) \ S
           T == {Len(order) - Position(n) : n \in Rest}
<1>1. T \subseteq Nat /\ T # {}
  BY PositionFacts DEF NodesOf
<1>2. PICK x \in T : \A y \in T : x <= y
  <2> HIDE DEF T
  <2> QED BY Zenon, <1>1, LeastNatural
<1>3. PICK n \in Rest : x = Len(order) - Position(n)
  BY Zenon, <1>2
<1>4. n \in Nodes /\ n \notin Terminal(p) /\ n \in NodesOf(p)
  BY Zenon, <1>3 DEF NodesOf
<1>5. PICK k \in Nodes : n \in Preds[k]
  BY Zenon, <1>4 DEF Terminal
<1>6. k \in NodesOf(p)
  BY Zenon, <1>4, <1>5, InlinedProcsAssumption DEF NodesOf
<1>7. Position(n) < Position(k)
  BY <1>4, <1>5, ActivationsFromFacts, InlinedProcsAssumption
<1>8. k \notin S
  BY Zenon, <1>3, <1>5, <1>6
<1>9. Len(order) - Position(k) \in T
  BY Zenon, <1>6, <1>8
<1>10. x <= Len(order) - Position(k)
  BY Zenon, <1>2, <1>9
<1> HIDE DEF T, Rest
<1> QED BY <1>3, <1>4, <1>5, <1>7, <1>10, PositionFacts

(***************************************************************************)
(* The nodes of a proc come before its sink, which something leads to.     *)
(***************************************************************************)
LEMMA SinkIsLast ==
  ASSUME NEW p \in Procs
  PROVE  /\ \A n \in NodesOf(p) : Position(n) < Position(p)
         /\ ActivationsFrom(p) # {}
<1>1. ActivationsFrom(p) = Terminal(p)
  BY Zenon DEF ActivationsFrom
<1>2. Terminal(p) # {}
  <2>1. SUFFICES ASSUME Terminal(p) = {} PROVE FALSE
    BY Zenon
  <2>2. NodesOf(p) \subseteq {}
    BY Zenon, <2>1, TerminalReachesAll
  <2> QED BY Zenon, <2>2, InlinedProcsAssumption
<1>3. \A n \in NodesOf(p) : Position(n) < Position(p)
  <2> DEFINE S == {n \in NodesOf(p) : Position(n) < Position(p)}
  <2>1. Terminal(p) \subseteq S
    <3> SUFFICES ASSUME NEW n \in Terminal(p) PROVE n \in S
      BY Zenon
    <3>1. n \in NodesOf(p) /\ n # "source"
      BY Zenon, InlinedProcsAssumption DEF Terminal, NodesOf
    <3> QED BY <1>1, <3>1, ActivationsFromFacts
  <2>2. ASSUME NEW n \in S \cap NodesOf(p) PROVE Preds[n] \subseteq S
    <3> SUFFICES ASSUME NEW m \in Preds[n] PROVE m \in S
      BY Zenon
    <3>1. n \in Nodes /\ proc[n] = p
      BY Zenon, <2>2 DEF NodesOf
    <3>2. m \in Nodes /\ proc[m] = p /\ Position(m) < Position(n)
      BY <3>1, ActivationsFromFacts, InlinedProcsAssumption
    <3> QED BY <2>2, <3>1, <3>2, PositionFacts DEF NodesOf
  <2>3. NodesOf(p) \subseteq S
    <3> HIDE DEF S
    <3> QED BY Zenon, <2>1, <2>2, TerminalReachesAll
  <2> QED BY Zenon, <2>3
<1> QED BY Zenon, <1>1, <1>2, <1>3

(***************************************************************************)
(* What AlwaysWith(r) contains besides r comes after r, and is activated   *)
(* by members only.                                                        *)
(***************************************************************************)
LEMMA AlwaysWithFacts ==
  ASSUME NEW r \in Receives, NEW n \in AlwaysWith(r), n # r
  PROVE  /\ n \in Nodes \cup Procs
         /\ ActivationsFrom(n) \subseteq AlwaysWith(r)
         /\ ~(IsVirtual(n) /\ n \in Receives \ NonBlocking)
         /\ Position(r) < Position(n)
<1>1. ASSUME NEW k \in AlwaysWith(r), k # r
      PROVE  /\ k \in Nodes \cup Procs
             /\ ActivationsFrom(k) \subseteq AlwaysWith(r)
             /\ ~(IsVirtual(k) /\ k \in Receives \ NonBlocking)
  BY Zenon, <1>1 DEF AlwaysWith
<1>2. r \in Nodes
  BY Zenon DEF Receives
<1>3. Position(r) < Position(n)
  <2> SUFFICES ASSUME ~(Position(r) < Position(n))
               PROVE  FALSE
    BY Zenon
  <2> DEFINE T == {Position(k) : k \in AlwaysWith(r) \ {r}}
  <2>1. T \subseteq Nat /\ Position(n) \in T
    BY <1>1, PositionFacts
  <2>2. PICK x \in T : \A y \in T : x <= y
    <3> HIDE DEF T
    <3> QED BY Zenon, <2>1, LeastNatural
  <2>3. PICK k \in AlwaysWith(r) \ {r} : x = Position(k)
    BY Zenon, <2>2
  <2>4. k \in Nodes \cup Procs
    BY Zenon, <1>1, <2>3
  <2>5. PICK m : m \in ActivationsFrom(k)
    BY <2>4, ActivationsFromFacts, SinkIsLast
  <2>6. m \in AlwaysWith(r)
    BY Zenon, <1>1, <2>3, <2>5
  <2>7. m \in Nodes \cup Procs
    BY Zenon, <1>1, <1>2, <2>6
  <2>8. m # "source"
    BY Zenon, <2>7, InlinedProcsAssumption
  <2>9. Position(m) < Position(k)
    BY Zenon, <2>4, <2>5, <2>8, ActivationsFromFacts
  <2>10. CASE m # r
    <3>1. Position(m) \in T
      BY Zenon, <2>6, <2>10
    <3>2. x <= Position(m)
      BY Zenon, <2>2, <3>1
    <3> HIDE DEF T
    <3> QED BY <2>3, <2>4, <2>7, <2>9, <3>2, PositionFacts
  <2>11. CASE m = r
    <3>1. Position(k) <= Position(n)
      BY Zenon, <2>1, <2>2, <2>3
    <3> HIDE DEF T
    <3> QED BY <1>1, <1>2, <2>4, <2>9, <2>11, <3>1, PositionFacts
  <2> QED BY Zenon, <2>10, <2>11
<1> QED BY Zenon, <1>1, <1>3

Result == [data : Values, valid : BOOLEAN]

TypeInvariant ==
  /\ activation \in [Procs -> BOOLEAN]
  /\ holds \in [Nodes \cup Procs -> SUBSET (Nodes \cup {"source"})]
  /\ data_valid \in [Internal -> BOOLEAN] /\ data_state \in [Internal -> Values]
  /\ received \in [Receives -> Result] /\ proc_state \in [Procs -> Values]
  /\ at \in 1 .. Len(order) + 1 /\ fired \subseteq Nodes \cup Procs
  /\ send_fired \in [Internal -> BOOLEAN] /\ data_in \in [Internal -> Values]
  /\ receive_fired \in [Internal -> BOOLEAN] /\ result \in [Receives -> Result]
  /\ fifo_depth \in [Internal -> {0, 1}]
  /\ external \in [Inputs \cup Outputs -> Seq(Values)] /\ failed \in BOOLEAN
  /\ done \subseteq Nodes /\ got \in [Receives -> Result]

(***************************************************************************)
(* The activation bits mark the frontier of each activation: there is one  *)
(* on its way from m to n, or held at n, exactly if m has been executed    *)
(* and n has not.                                                          *)
(***************************************************************************)
Pending(n) == at <= Position(n)
Bit(m, n) == m \in holds[n] \/ (Pending(n) /\ m \in ActivationIn(n))
Reached(m) == m = "source" \/ m \in done

Frontier ==
  /\ \A n \in Nodes \cup Procs : \A m \in ActivationsFrom(n) :
       Bit(m, n) <=> Reached(m) /\ n \notin done /\ ProcOf(n) \notin fired
  /\ \A n \in Nodes \cup Procs : holds[n] \subseteq ActivationsFrom(n)
  /\ \A n \in Nodes : ~(n \in Receives /\ IsVirtual(n)) /\ op[n] # "after_all" => holds[n] = {}
  /\ \A n \in done : Preds[n] \subseteq done

(***************************************************************************)
(* The part of the tick that is over.                                      *)
(***************************************************************************)
Past ==
  /\ \A n \in fired : Position(n) < at
  /\ \A n \in fired \cap Nodes : n \in done \/ proc[n] \in fired
  /\ \A n \in done : proc[n] \notin fired
  /\ \A r \in fired \cap Receives : \A n \in AlwaysWith(r) : Position(n) < at => n \in fired

(***************************************************************************)
(* A channel has fired because of a node evaluated in this tick.           *)
(***************************************************************************)
Fired ==
  /\ \A c \in Internal : send_fired[c] =>
       \E n \in Nodes : /\ op[n] = "send" /\ channel[n] = c
                        /\ IsVirtual(n) /\ Position(n) < at
  /\ \A c \in Internal : receive_fired[c] =>
       \E n \in Nodes : /\ op[n] = "receive" /\ channel[n] = c
                        /\ IsVirtual(n) /\ Position(n) < at

(***************************************************************************)
(* What has been received is presented to every user that is still to be   *)
(* executed.                                                               *)
(***************************************************************************)
Kept ==
  \A r \in done \cap Receives :
    /\ r \in fired => Meant(r, result[r]) = got[r]
    /\ r \notin fired /\ r \in Saved => Meant(r, received[r]) = got[r]
    /\ r \notin fired /\ r \notin Saved => users[r] \subseteq done

Inv == TypeInvariant /\ Frontier /\ Past /\ Fired /\ Kept

--------------------------------------------------------------------------------
(***************************************************************************)
(* What a node computes.                                                   *)
(***************************************************************************)
AbsState == [p \in Procs |-> IF p \in fired THEN NextState(p, Env(p)) ELSE proc_state[p]]
AbsQueue == [c \in Channels |-> IF c \in Internal THEN Contents(c) ELSE external[c]]

(***************************************************************************)
(* What the users of receives see has the right type.                      *)
(***************************************************************************)
LEMMA EnvType ==
  ASSUME TypeInvariant, NEW p \in Procs
  PROVE  Env(p) \in Envs(p)
<1>1. \A r \in Receives : Presented(r) \in Result
  BY Zenon DEF TypeInvariant, Presented
<1> QED BY Zenon, <1>1 DEF Env, Envs, TypeInvariant, Result

(***************************************************************************)
(* Nothing that depends on a receive of another activation is computed:    *)
(* a node that is about to be executed, and a sink, see what the abstract  *)
(* network has received in this activation.                                *)
(***************************************************************************)
LEMMA PresentedIsGot ==
  ASSUME Inv, NEW n \in Nodes \cup Procs, n \notin done,
         \A m \in ActivationsFrom(n) : Reached(m),
         NEW r \in Receives, n \in users[r]
  PROVE  Meant(r, Presented(r)) = got[r]
<1>1. ActivationsFrom(n) \cap Nodes \subseteq done
  BY Zenon, InlinedProcsAssumption DEF Reached
<1>2. done \in SUBSET Nodes /\ \A m \in done : Preds[m] \subseteq done
  BY Zenon DEF Inv, TypeInvariant, Frontier
<1>3. Follows(r, n)
  BY Zenon, DataAssumption
<1>4. r \in done
  BY Zenon, <1>1, <1>2, <1>3 DEF Follows
<1>5. ~(users[r] \subseteq done)
  BY Zenon
<1> QED BY Zenon, <1>4, <1>5 DEF Inv, Kept, Presented

(***************************************************************************)
(* So it computes what the node of the abstract network does, provided     *)
(* that it does not look at the data of an invalid receive.                *)
(***************************************************************************)
LEMMA SameMeaning ==
  ASSUME LooksAtValid, Inv, NEW n \in Nodes \cup Procs, n \notin done, ProcOf(n) \notin fired,
         \A m \in ActivationsFrom(n) : Reached(m)
  PROVE  /\ n \in Nodes => /\ Active(n, Env(proc[n])) = Active(n, Network!Env(proc[n]))
                           /\ Data(n, Env(proc[n])) = Data(n, Network!Env(proc[n]))
         /\ n \in Procs => NextState(n, Env(n)) = NextState(n, Network!Env(n))
<1> DEFINE p == ProcOf(n)
           e == Env(p)
           f == Network!Env(p)
           g == MeantEnv(e)
<1>1. p \in Procs
  BY Zenon, ActivationsFromFacts
<1>2. e \in Envs(p)
  BY Zenon, <1>1, EnvType DEF Inv
<1>3. f = [state |-> proc_state[p], got |-> [r \in NodesOf(p) \cap Receives |-> got[r]]]
  BY Zenon, <1>1 DEF Network!Env, Network!NodesOf, Network!Receives, NodesOf, Receives
<1>4. e = [state |-> proc_state[p], got |-> [r \in NodesOf(p) \cap Receives |-> Presented(r)]]
  BY Zenon DEF Env
<1>5. f \in Envs(p)
  BY <1>1, <1>3 DEF Envs, Inv, TypeInvariant, Result
<1>6. \A r \in NodesOf(p) \cap Receives : n \in users[r] => Meant(r, Presented(r)) = got[r]
  BY Zenon, PresentedIsGot
<1> HIDE DEF e, f
<1>7. g = [state |-> proc_state[p],
            got |-> [r \in NodesOf(p) \cap Receives |-> Meant(r, Presented(r))]]
  <2>1. /\ e.state = proc_state[p] /\ DOMAIN e.got = NodesOf(p) \cap Receives
        /\ \A r \in NodesOf(p) \cap Receives : e.got[r] = Presented(r)
    BY Zenon, <1>4
  <2>2. [r \in DOMAIN e.got |-> Meant(r, e.got[r])]
          = [r \in NodesOf(p) \cap Receives |-> Meant(r, Presented(r))]
    BY Zenon, <2>1
  <2> QED BY Zenon, <2>1, <2>2 DEF MeantEnv
<1> HIDE DEF g
<1>8. g \in Envs(p)
  <2>1. \A r \in Receives : Presented(r) \in Result
    BY Zenon DEF Inv, TypeInvariant, Presented
  <2>2. Nothing \in Result
    BY Zenon, InlinedProcsAssumption DEF Nothing, Result
  <2>3. \A r \in Receives : Meant(r, Presented(r)) \in Result
    BY Zenon, <2>1, <2>2 DEF Meant
  <2>4. proc_state[p] \in Values
    BY Zenon, <1>1 DEF Inv, TypeInvariant
  <2> QED BY Zenon, <1>7, <2>3, <2>4 DEF Envs, Result
<1>9. Used(n, g) = Used(n, f)
  <2>1. /\ DOMAIN g.got = NodesOf(p) \cap Receives /\ DOMAIN f.got = NodesOf(p) \cap Receives
        /\ \A r \in NodesOf(p) \cap Receives : n \in users[r] => g.got[r] = f.got[r]
    BY Zenon, <1>3, <1>6, <1>7
  <2>2. [r \in DOMAIN g.got |-> IF n \in users[r] THEN g.got[r] ELSE Nothing]
          = [r \in DOMAIN f.got |-> IF n \in users[r] THEN f.got[r] ELSE Nothing]
    BY Zenon, <2>1
  <2>3. g.state = f.state
    BY Zenon, <1>3, <1>7
  <2> QED BY Zenon, <2>2, <2>3 DEF Used
<1>10. n \in Nodes => p = proc[n] /\ n \in NodesOf(p)
  BY Zenon, ActivationsFromFacts DEF NodesOf
<1>11. /\ NextState(p, e) = NextState(p, g)
       /\ \A m \in NodesOf(p) : Active(m, e) = Active(m, g) /\ Data(m, e) = Data(m, g)
  BY Zenon, <1>1, <1>2 DEF LooksAtValid, g
<1>12. n \in Nodes => Active(n, e) = Active(n, f) /\ Data(n, e) = Data(n, f)
  <2>1. n \in Nodes => Active(n, g) = Active(n, f) /\ Data(n, g) = Data(n, f)
    BY <1>1, <1>5, <1>9, <1>10, <1>8, DataAssumption
  <2> QED BY Zenon, <1>10, <1>11, <2>1
<1>13. n \in Procs => p = n /\ NextState(n, e) = NextState(n, f)
  <2>1. n \in Procs => p = n /\ NextState(n, g) = NextState(n, f)
    BY <1>1, <1>5, <1>9, <1>8, ActivationsFromFacts, DataAssumption
  <2> QED BY Zenon, <1>11, <2>1
<1> QED BY Zenon, <1>10, <1>12, <1>13 DEF e, f

(***************************************************************************)
(* A node is activated with its bits, so it is on the frontier.            *)
(***************************************************************************)
LEMMA ActivatedIsOnFrontier ==
  ASSUME Inv, NEW n \in Nodes \cup Procs, At(n),
         HasActivation(n) = ActivationsFrom(n)
  PROVE  /\ n \notin done /\ ProcOf(n) \notin fired
         /\ \A m \in ActivationsFrom(n) : Reached(m)
<1>1. Pending(n)
  BY AtPosition DEF Inv, TypeInvariant, Pending
<1>2. ActivationsFrom(n) # {}
  BY Zenon, ActivationsFromFacts, SinkIsLast
<1>3. \A m \in ActivationsFrom(n) : Bit(m, n)
  BY Zenon, <1>1 DEF HasActivation, Bit
<1> QED BY Zenon, <1>2, <1>3 DEF Inv, Frontier

--------------------------------------------------------------------------------
(***************************************************************************)
(* What evaluating a node or sink n, activated or not, has in common.      *)
(***************************************************************************)
HoldsBits(n) == n \in Procs \/ op[n] = "after_all" \/ (n \in Receives /\ IsVirtual(n))

NodeStep(n, act) ==
  /\ At(n) /\ at' = at + 1 /\ activation' = activation /\ received' = received
  /\ fired' = IF act THEN fired \cup {n} ELSE fired
  /\ done' = IF ~act THEN done ELSE IF n \in Procs THEN done \ NodesOf(n) ELSE done \cup {n}
  /\ act => HasActivation(n) = ActivationsFrom(n)
  /\ ActivationIn(n) = ActivationsFrom(n) /\ ~(IsVirtual(n) /\ n \in Receives \ NonBlocking) => act
  /\ IF HoldsBits(n) THEN holds' = [holds EXCEPT ![n] = IF act THEN {} ELSE HasActivation(n)]
                     ELSE holds' = holds
  /\ \A r \in Receives \ {n} : result'[r] = result[r] /\ (proc[r] = n \/ got'[r] = got[r])
  /\ act /\ n \in Receives => Meant(n, result'[n]) = got'[n]
  /\ ~act => got' = got

(***************************************************************************)
(* When a sink is activated, every node of its proc has been executed.     *)
(***************************************************************************)
LEMMA SinkMeansDone ==
  ASSUME Inv, NEW p \in Procs, At(p), HasActivation(p) = ActivationsFrom(p)
  PROVE  NodesOf(p) \subseteq done
<1>1. \A m \in ActivationsFrom(p) : Reached(m)
  BY Zenon, ActivatedIsOnFrontier
<1>2. ActivationsFrom(p) = Terminal(p)
  BY Zenon DEF ActivationsFrom
<1>3. Terminal(p) \subseteq Nodes
  BY Zenon DEF Terminal, NodesOf
<1>4. Terminal(p) \subseteq done
  BY Zenon, <1>1, <1>2, <1>3, InlinedProcsAssumption DEF Reached
<1>5. \A n \in done \cap NodesOf(p) : Preds[n] \subseteq done
  BY Zenon DEF Inv, Frontier
<1> QED BY Zenon, <1>4, <1>5, TerminalReachesAll

(***************************************************************************)
(* The frontier moves over the node, and over nothing else.                *)
(***************************************************************************)
LEMMA FrontierAtNode ==
  ASSUME Inv, NEW n \in Nodes \cup Procs, NEW act \in BOOLEAN, NodeStep(n, act),
         NEW m \in ActivationsFrom(n)
  PROVE  Bit(m, n)' <=> Reached(m)' /\ n \notin done' /\ ProcOf(n) \notin fired'
<1>1. Position(n) = at /\ at \in Nat /\ Pending(n) /\ ~Pending(n)'
  BY AtPosition, PositionFacts DEF NodeStep, Inv, TypeInvariant, Pending
<1>2. Bit(m, n)' <=> m \in holds'[n]
  BY Zenon, <1>1 DEF Bit
<1>3. m \in HasActivation(n) <=> Bit(m, n)
  BY Zenon, <1>1 DEF Bit, HasActivation
<1>4. Bit(m, n) <=> Reached(m) /\ n \notin done /\ ProcOf(n) \notin fired
  BY Zenon DEF Inv, Frontier
<1>5. holds \in [Nodes \cup Procs -> SUBSET (Nodes \cup {"source"})]
  BY Zenon DEF Inv, TypeInvariant
<1>6. CASE act
  <2>1. n \in done' \/ ProcOf(n) \in fired'
    BY Zenon, <1>6, ActivationsFromFacts DEF NodeStep
  <2>2. m \notin holds'[n]
    BY Zenon, <1>5, <1>6 DEF NodeStep, HoldsBits, Inv, Frontier
  <2> QED BY Zenon, <1>2, <2>1, <2>2
<1>7. CASE ~act
  <2>1. (Reached(m)' <=> Reached(m)) /\ done' = done /\ fired' = fired
    BY Zenon, <1>7 DEF NodeStep, Reached
  <2>2. CASE HoldsBits(n)
    <3>1. holds'[n] = HasActivation(n)
      BY Zenon, <1>5, <1>7, <2>2 DEF NodeStep
    <3> QED BY Zenon, <1>2, <1>3, <1>4, <2>1, <3>1
  <2>3. CASE ~HoldsBits(n)
    <3>1. n \in Nodes /\ op[n] # "after_all" /\ ~(n \in Receives /\ IsVirtual(n))
      BY Zenon, <2>3 DEF HoldsBits
    <3>2. holds[n] = {} /\ holds' = holds
      BY Zenon, <2>3, <3>1 DEF NodeStep, Inv, Frontier
    <3>3. ActivationIn(n) # ActivationsFrom(n)
      BY Zenon, <1>7, <3>1 DEF NodeStep
    <3>4. m \notin ActivationIn(n)
      BY <3>1, <3>3, OnePredecessor DEF ActivationIn
    <3> QED BY Zenon, <1>2, <1>4, <2>1, <3>2, <3>4 DEF Bit
  <2> QED BY Zenon, <2>2, <2>3
<1> QED BY Zenon, <1>6, <1>7

(***************************************************************************)
(* The same for the bits of the other nodes: the ones n leads to get one,  *)
(* and an activated sink takes the activation away from its proc.          *)
(***************************************************************************)
LEMMA FrontierElsewhere ==
  ASSUME Inv, NEW n \in Nodes \cup Procs, NEW act \in BOOLEAN, NodeStep(n, act),
         NEW k \in Nodes \cup Procs, k # n, NEW m \in ActivationsFrom(k)
  PROVE  Bit(m, k)' <=> Reached(m)' /\ k \notin done' /\ ProcOf(k) \notin fired'
<1>1. Position(n) = at /\ at \in Nat /\ Position(k) \in Nat /\ Position(k) # at
  BY SMTT(30), AtPosition, PositionFacts DEF NodeStep, Inv, TypeInvariant
<1>2. Pending(k)' <=> Pending(k)
  BY <1>1 DEF NodeStep, Pending
<1>3. holds'[k] = holds[k]
  BY Zenon DEF NodeStep, Inv, TypeInvariant
<1>4. Bit(m, k) <=> Reached(m) /\ k \notin done /\ ProcOf(k) \notin fired
  BY Zenon DEF Inv, Frontier
<1>5. /\ m = "source" \/ (m \in Nodes /\ proc[m] = ProcOf(k) /\ Position(m) < Position(k))
      /\ ProcOf(k) \in Procs
  BY Zenon, ActivationsFromFacts
<1>6. "source" \notin Nodes \cup Procs /\ Nodes \cap Procs = {}
  BY Zenon, InlinedProcsAssumption
<1>7. m \in ActivationIn(k)' <=> IF m = "source" THEN activation[ProcOf(k)] ELSE m \in fired'
  BY Zenon DEF ActivationIn, NodeStep
<1>8. m \in ActivationIn(k) <=> IF m = "source" THEN activation[ProcOf(k)] ELSE m \in fired
  BY Zenon DEF ActivationIn
<1>9. CASE ~act
  <2>1. done' = done /\ fired' = fired
    BY Zenon, <1>9 DEF NodeStep
  <2> QED BY Zenon, <1>2, <1>3, <1>4, <1>7, <1>8, <2>1 DEF Bit, Reached
<1>10. CASE act /\ n \in Nodes
  <2>1. done' = done \cup {n} /\ fired' = fired \cup {n} /\ n \notin Procs
    BY Zenon, <1>6, <1>10 DEF NodeStep
  <2>2. CASE m # n
    BY Zenon, <1>2, <1>3, <1>4, <1>5, <1>7, <1>8, <2>1, <2>2 DEF Bit, Reached
  <2>3. CASE m = n
    <3>1. n \notin done /\ ProcOf(n) \notin fired
      BY Zenon, <1>10, ActivatedIsOnFrontier DEF NodeStep
    <3>2. Pending(k)
      BY <1>1, <1>5, <1>6, <1>10, <2>3 DEF Pending
    <3>3. Bit(m, k)'
      BY Zenon, <1>2, <1>6, <1>7, <1>10, <2>1, <2>3, <3>2 DEF Bit
    <3>4. k \notin done
      <4>1. CASE k \in Nodes
        <5>1. n \in Preds[k]
          BY Zenon, <1>6, <1>10, <2>3, <4>1, ActivationsFromFacts
        <5> QED BY Zenon, <3>1, <5>1 DEF Inv, Frontier
      <4>2. CASE k \in Procs
        BY Zenon, <1>6, <4>2 DEF Inv, TypeInvariant
      <4> QED BY Zenon, <4>1, <4>2
    <3>5. ProcOf(k) = ProcOf(n)
      BY Zenon, <1>5, <1>6, <1>10, <2>3, ActivationsFromFacts
    <3>6. Reached(m)'
      BY Zenon, <2>1, <2>3 DEF Reached
    <3> QED BY Zenon, <1>5, <2>1, <3>1, <3>3, <3>4, <3>5, <3>6
  <2> QED BY Zenon, <2>2, <2>3
<1>11. CASE act /\ n \in Procs
  <2>1. done' = done \ NodesOf(n) /\ fired' = fired \cup {n} /\ n \notin Nodes
    BY Zenon, <1>6, <1>11 DEF NodeStep
  <2>2. CASE ProcOf(k) = n
    <3>1. k \in NodesOf(n)
      BY Zenon, <2>2, ActivationsFromFacts DEF NodesOf
    <3>2. k \in done
      BY Zenon, <1>11, <3>1, SinkMeansDone DEF NodeStep
    <3>3. Position(k) < Position(n)
      BY Zenon, <1>11, <3>1, SinkIsLast
    <3>4. ~Pending(k)'
      BY <1>1, <1>2, <3>3 DEF Pending
    <3>5. m \notin holds[k]
      BY Zenon, <1>4, <3>2 DEF Bit
    <3> QED BY Zenon, <1>3, <2>1, <2>2, <3>4, <3>5 DEF Bit
  <2>3. CASE ProcOf(k) # n
    <3>1. m \notin NodesOf(n) /\ k \notin NodesOf(n) /\ m # n
      BY Zenon, <1>5, <1>6, <1>11, <2>3, ActivationsFromFacts DEF NodesOf
    <3> QED BY Zenon, <1>2, <1>3, <1>4, <1>5, <1>7, <1>8, <2>1, <2>3, <3>1 DEF Bit, Reached
  <2> QED BY Zenon, <2>2, <2>3
<1> QED BY Zenon, <1>9, <1>10, <1>11

(***************************************************************************)
(* Together.                                                               *)
(***************************************************************************)
LEMMA FrontierStep ==
  ASSUME Inv, NEW n \in Nodes \cup Procs, NEW act \in BOOLEAN, NodeStep(n, act)
  PROVE  Frontier'
<1>1. ASSUME NEW k \in Nodes \cup Procs, NEW m \in ActivationsFrom(k)
      PROVE  Bit(m, k)' <=> Reached(m)' /\ k \notin done' /\ ProcOf(k) \notin fired'
  BY Zenon, FrontierAtNode, FrontierElsewhere
<1>2. ASSUME NEW k \in Nodes \cup Procs PROVE holds'[k] \subseteq ActivationsFrom(k)
  <2>1. holds[k] \subseteq ActivationsFrom(k) /\ ActivationIn(k) \subseteq ActivationsFrom(k)
    BY Zenon DEF Inv, Frontier, ActivationIn
  <2> QED BY SMTT(30), <2>1 DEF NodeStep, HasActivation, Inv, TypeInvariant
<1>3. ASSUME NEW k \in Nodes, ~(k \in Receives /\ IsVirtual(k)), op[k] # "after_all"
      PROVE  holds'[k] = {}
  <2>1. holds[k] = {} /\ k \notin Procs
    BY Zenon, <1>3, InlinedProcsAssumption DEF Inv, Frontier
  <2> QED BY Zenon, <1>3, <2>1 DEF NodeStep, HoldsBits, Inv, TypeInvariant
<1>4. ASSUME NEW k \in done' PROVE Preds[k] \subseteq done'
  <2>1. \A j \in done : Preds[j] \subseteq done /\ j \in Nodes
    BY Zenon DEF Inv, Frontier, TypeInvariant
  <2>2. CASE ~act
    BY Zenon, <1>4, <2>1, <2>2 DEF NodeStep
  <2>3. CASE act /\ n \in Nodes
    <3>1. \A m \in ActivationsFrom(n) : Reached(m)
      BY Zenon, <2>3, ActivatedIsOnFrontier DEF NodeStep
    <3>2. Preds[n] \subseteq ActivationsFrom(n) /\ Preds[n] \subseteq Nodes
      BY Zenon, <2>3, ActivationsFromFacts, InlinedProcsAssumption
    <3>3. Preds[n] \subseteq done
      BY SMTT(30), <3>1, <3>2, InlinedProcsAssumption DEF Reached
    <3>4. done' = done \cup {n}
      BY Zenon, <2>3, InlinedProcsAssumption DEF NodeStep
    <3> QED BY Zenon, <1>4, <2>1, <3>3, <3>4
  <2>4. CASE act /\ n \in Procs
    <3>1. done' = done \ NodesOf(n)
      BY Zenon, <2>4 DEF NodeStep
    <3>2. k \in Nodes /\ proc[k] # n /\ Preds[k] \subseteq done
      BY Zenon, <1>4, <2>1, <3>1 DEF NodesOf
    <3>3. \A m \in Preds[k] : m \notin NodesOf(n)
      BY Zenon, <3>2, InlinedProcsAssumption DEF NodesOf
    <3> QED BY Zenon, <3>1, <3>2, <3>3
  <2> QED BY Zenon, <2>2, <2>3, <2>4
<1> QED BY Zenon, <1>1, <1>2, <1>3, <1>4 DEF Frontier

(***************************************************************************)
(* What has been evaluated is past, and whatever must be activated along   *)
(* with a receive has been.                                                *)
(***************************************************************************)
LEMMA PastStep ==
  ASSUME Inv, NEW n \in Nodes \cup Procs, NEW act \in BOOLEAN, NodeStep(n, act)
  PROVE  Past'
<1>1. Position(n) = at /\ at \in Nat /\ at' = at + 1
  BY SMTT(30), AtPosition DEF NodeStep, Inv, TypeInvariant
<1>2. act => n \notin done /\ ProcOf(n) \notin fired
  BY Zenon, ActivatedIsOnFrontier DEF NodeStep
<1>3. Nodes \cap Procs = {} /\ fired \subseteq Nodes \cup Procs /\ done \subseteq Nodes
  BY Zenon, InlinedProcsAssumption DEF Inv, TypeInvariant
<1>4. \A k \in fired' : Position(k) < at'
  <2>1. fired' \subseteq fired \cup {n} /\ \A k \in fired : Position(k) < at
    BY Zenon DEF NodeStep, Inv, Past
  <2>2. \A k \in Nodes \cup Procs : Position(k) \in Nat
    BY PositionFacts
  <2> QED BY SMTT(30), <1>1, <1>3, <2>1, <2>2
<1>5. ASSUME NEW k \in fired' \cap Nodes PROVE k \in done' \/ proc[k] \in fired'
  <2>1. k \in fired => k \in done \/ proc[k] \in fired
    BY Zenon, <1>5 DEF Inv, Past
  <2> QED BY Zenon, <1>3, <1>5, <2>1 DEF NodeStep, NodesOf
<1>6. ASSUME NEW k \in done' PROVE proc[k] \notin fired'
  <2>1. k \in done => k \in Nodes /\ proc[k] \in Procs /\ proc[k] \notin fired
    BY Zenon, <1>3, InlinedProcsAssumption DEF Inv, Past
  <2>2. CASE ~act
    BY Zenon, <1>6, <2>1, <2>2 DEF NodeStep
  <2>3. CASE act /\ n \in Nodes
    <3>1. done' = done \cup {n} /\ fired' = fired \cup {n} /\ n \notin Procs
      BY Zenon, <1>3, <2>3 DEF NodeStep
    <3>2. proc[n] \in Procs /\ proc[n] = ProcOf(n)
      BY Zenon, <2>3, ActivationsFromFacts, InlinedProcsAssumption
    <3> QED BY Zenon, <1>2, <1>6, <2>1, <2>3, <3>1, <3>2
  <2>4. CASE act /\ n \in Procs
    BY Zenon, <1>3, <1>6, <2>1, <2>4 DEF NodeStep, NodesOf
  <2> QED BY Zenon, <2>2, <2>3, <2>4
<1>7. ASSUME NEW r \in fired' \cap Receives, NEW k \in AlwaysWith(r), Position(k) < at'
      PROVE  k \in fired'
  <2>0. r \in Nodes
    BY Zenon DEF Receives
  <2>1. k \in Nodes \cup Procs
    BY Zenon, <2>0, AlwaysWithFacts
  <2>2. Position(k) \in Nat /\ Position(r) \in Nat
    BY <2>0, <2>1, PositionFacts
  <2>3. CASE r \notin fired
    <3>1. r = n /\ fired' = fired \cup {n}
      BY Zenon, <1>7, <2>3 DEF NodeStep
    <3>2. k = r
      BY SMTT(30), <1>1, <1>7, <2>2, <3>1, AlwaysWithFacts
    <3> QED BY Zenon, <3>1, <3>2
  <2>4. CASE r \in fired /\ Position(k) # at
    <3>1. Position(k) < at
      BY SMTT(30), <1>1, <1>7, <2>2, <2>4
    <3> QED BY Zenon, <1>7, <2>4, <3>1 DEF NodeStep, Inv, Past
  <2>5. CASE r \in fired /\ Position(k) = at
    <3>1. k = n
      BY Zenon, <1>1, <2>1, <2>5, PositionFacts
    <3>2. Position(r) < at /\ k # r
      BY <1>1, <2>2, <2>5 DEF Inv, Past
    <3>3. /\ ActivationsFrom(k) \subseteq AlwaysWith(r)
          /\ ~(IsVirtual(k) /\ k \in Receives \ NonBlocking)
      BY Zenon, <1>7, <3>2, AlwaysWithFacts
    <3>4. ASSUME NEW m \in ActivationsFrom(k) PROVE m \in ActivationIn(k)
      <4>1. m \in AlwaysWith(r)
        BY Zenon, <3>3
      <4>2. m \in Nodes \cup Procs
        BY Zenon, <2>0, <4>1, AlwaysWithFacts
      <4>3. m # "source"
        BY Zenon, <4>2, InlinedProcsAssumption
      <4>4. Position(m) < at
        BY Zenon, <2>1, <2>5, <4>3, ActivationsFromFacts
      <4>5. m \in fired
        BY Zenon, <2>5, <1>7, <4>1, <4>4 DEF Inv, Past
      <4> QED BY Zenon, <4>3, <4>5 DEF ActivationIn
    <3>5. ActivationIn(n) = ActivationsFrom(n)
      BY Zenon, <3>1, <3>4 DEF ActivationIn
    <3>6. act
      BY Zenon, <3>1, <3>3, <3>5 DEF NodeStep
    <3> QED BY Zenon, <3>1, <3>6 DEF NodeStep
  <2> QED BY Zenon, <2>3, <2>4, <2>5
<1> QED BY Zenon, <1>4, <1>5, <1>6, <1>7 DEF Past

(***************************************************************************)
(* Received data is not disturbed.                                         *)
(***************************************************************************)
LEMMA KeptStep ==
  ASSUME Inv, NEW n \in Nodes \cup Procs, NEW act \in BOOLEAN, NodeStep(n, act)
  PROVE  Kept'
<1> SUFFICES ASSUME NEW r \in done' \cap Receives
             PROVE  /\ r \in fired' => Meant(r, result'[r]) = got'[r]
                    /\ r \notin fired' /\ r \in Saved => Meant(r, received'[r]) = got'[r]
                    /\ r \notin fired' /\ r \notin Saved => users[r] \subseteq done'
  BY Zenon DEF Kept
<1>1. Nodes \cap Procs = {} /\ done \subseteq Nodes /\ r \in Nodes
  BY Zenon, InlinedProcsAssumption DEF Inv, TypeInvariant, Receives
<1>2. CASE r \notin done
  <2>1. r = n /\ act /\ fired' = fired \cup {n}
    BY Zenon, <1>1, <1>2 DEF NodeStep
  <2> QED BY Zenon, <2>1 DEF NodeStep
<1>3. CASE r \in done
  <2>1. /\ r \in fired => Meant(r, result[r]) = got[r]
        /\ r \notin fired /\ r \in Saved => Meant(r, received[r]) = got[r]
        /\ r \notin fired /\ r \notin Saved => users[r] \subseteq done
    BY Zenon, <1>3 DEF Inv, Kept
  <2>2. CASE r = n
    <3>1. ~act
      BY Zenon, <1>3, <2>2, ActivatedIsOnFrontier DEF NodeStep
    <3>2. r \notin fired
      <4>1. Position(n) = at /\ at \in Nat
        BY SMTT(30), AtPosition DEF NodeStep, Inv, TypeInvariant
      <4> QED BY <2>2, <4>1 DEF Inv, Past
    <3> QED BY Zenon, <2>1, <3>1, <3>2 DEF NodeStep
  <2>3. CASE r # n
    <3>1. result'[r] = result[r] /\ received'[r] = received[r] /\ (r \in fired' <=> r \in fired)
      BY Zenon, <2>3 DEF NodeStep
    <3>2. act /\ n \in Procs => proc[r] # n
      BY Zenon, <1>1 DEF NodeStep, NodesOf
    <3>3. got'[r] = got[r]
      BY SMTT(30), <1>1, <2>3, <3>2, InlinedProcsAssumption DEF NodeStep
    <3>4. ASSUME users[r] \subseteq done PROVE users[r] \subseteq done'
      <4> SUFFICES ASSUME NEW u \in users[r], act, n \in Procs PROVE u \notin NodesOf(n)
        BY Zenon, <3>4, <1>1 DEF NodeStep
      <4>1. u \in Nodes /\ ProcOf(u) = proc[r]
        BY Zenon, <1>1, <3>4, DataAssumption
      <4> QED BY Zenon, <3>2, <4>1, ActivationsFromFacts DEF NodesOf
    <3> QED BY Zenon, <2>1, <3>1, <3>3, <3>4
  <2> QED BY Zenon, <2>2, <2>3
<1> QED BY Zenon, <1>2, <1>3

--------------------------------------------------------------------------------
(***************************************************************************)
(* The steps of a tick.                                                    *)
(***************************************************************************)

(***************************************************************************)
(* What is computed has the right type.                                    *)
(***************************************************************************)
LEMMA ComputedType ==
  ASSUME TypeInvariant, NEW n \in Nodes
  PROVE  /\ Predicate(n) \in BOOLEAN /\ Data(n, Env(proc[n])) \in Values
         /\ proc[n] \in Procs
         /\ IsVirtual(n) => channel[n] \in Internal
         /\ op[n] # "after_all" /\ ~IsVirtual(n) => channel[n] \in Inputs \cup Outputs
<1>1. proc[n] \in Procs /\ n \in NodesOf(proc[n])
  BY Zenon, InlinedProcsAssumption DEF NodesOf
<1>2. Env(proc[n]) \in Envs(proc[n])
  BY Zenon, <1>1, EnvType
<1>3. op[n] # "after_all" => channel[n] \in Channels
  BY Zenon, InlinedProcsAssumption
<1> QED BY Zenon, <1>1, <1>2, <1>3, DataAssumption DEF Predicate, IsVirtual, Internal

(***************************************************************************)
(* Only the node that is evaluated makes a channel fire.                   *)
(***************************************************************************)
LEMMA FiredStep ==
  ASSUME Inv, NEW n \in Nodes \cup Procs, NEW act \in BOOLEAN, NodeStep(n, act),
         \A c \in Internal : send_fired'[c] => \/ send_fired[c]
                                               \/ n \in Nodes /\ op[n] = "send" /\ channel[n] = c
                                                  /\ IsVirtual(n),
         \A c \in Internal : receive_fired'[c] => \/ receive_fired[c]
                                                  \/ n \in Nodes /\ op[n] = "receive"
                                                     /\ channel[n] = c /\ IsVirtual(n)
  PROVE  Fired'
<1>1. Position(n) = at /\ at \in Nat /\ at' = at + 1
  BY SMTT(30), AtPosition DEF NodeStep, Inv, TypeInvariant
<1>2. \A k \in Nodes : Position(k) \in Nat
  BY SMTT(30), PositionFacts
<1>3. \A c \in Internal : send_fired[c] =>
        \E k \in Nodes : /\ op[k] = "send" /\ channel[k] = c
                         /\ IsVirtual(k) /\ Position(k) < at
  BY Zenon DEF Inv, Fired
<1>4. \A c \in Internal : receive_fired[c] =>
        \E k \in Nodes : /\ op[k] = "receive" /\ channel[k] = c
                         /\ IsVirtual(k) /\ Position(k) < at
  BY Zenon DEF Inv, Fired
<1>5. \A c \in Internal : send_fired'[c] =>
        \E k \in Nodes : /\ op[k] = "send" /\ channel[k] = c
                         /\ IsVirtual(k) /\ Position(k) < at'
  BY SMTT(30), <1>1, <1>2, <1>3
<1>6. \A c \in Internal : receive_fired'[c] =>
        \E k \in Nodes : /\ op[k] = "receive" /\ channel[k] = c
                         /\ IsVirtual(k) /\ Position(k) < at'
  BY SMTT(30), <1>1, <1>2, <1>4
<1> QED BY Zenon, <1>5, <1>6 DEF Fired

(***************************************************************************)
(* The activations at a node are some of those that lead to it.            *)
(***************************************************************************)
LEMMA ActivationType ==
  ASSUME Inv, NEW n \in Nodes \cup Procs
  PROVE  /\ HasActivation(n) \subseteq ActivationsFrom(n)
         /\ HasActivation(n) \in SUBSET (Nodes \cup {"source"})
         /\ Passes(n) => HasActivation(n) = ActivationsFrom(n)
         /\ ActivationIn(n) = ActivationsFrom(n) => HasActivation(n) = ActivationsFrom(n)
<1>1. holds[n] \subseteq ActivationsFrom(n) /\ ActivationIn(n) \subseteq ActivationsFrom(n)
  BY Zenon DEF Inv, Frontier, ActivationIn
<1> QED BY SMTT(30), <1>1, ActivationsFromFacts DEF HasActivation, Passes

(***************************************************************************)
(* A step of NodeStep that leaves the types in order preserves Inv.        *)
(***************************************************************************)
LEMMA NodeStepPreserves ==
  ASSUME Inv, NEW n \in Nodes \cup Procs, NEW act \in BOOLEAN, NodeStep(n, act),
         TypeInvariant', Fired'
  PROVE  Inv'
BY Zenon, FrontierStep, PastStep, KeptStep DEF Inv
(***************************************************************************)
(* The types of what every evaluation of a node changes.                   *)
(***************************************************************************)
LEMMA EvaluatedType ==
  ASSUME Inv, NEW n \in Nodes \cup Procs, NEW act \in BOOLEAN, At(n), Evaluated(n, act)
  PROVE  /\ at' \in 1 .. Len(order) + 1 /\ fired' \subseteq Nodes \cup Procs
         /\ activation' \in [Procs -> BOOLEAN]
         /\ data_valid' \in [Internal -> BOOLEAN] /\ data_state' \in [Internal -> Values]
         /\ received' \in [Receives -> Result] /\ proc_state' \in [Procs -> Values]
         /\ fifo_depth' \in [Internal -> {0, 1}] /\ failed' \in BOOLEAN
<1>1. Len(order) \in Nat /\ at \in 1 .. Len(order)
  BY PositionFacts DEF At, Inv, TypeInvariant
<1> QED BY <1>1 DEF Evaluated, elements, Inv, TypeInvariant

(***************************************************************************)
(* A send on a virtual channel is activated by the one bit that leads to   *)
(* it.                                                                     *)
(***************************************************************************)
LEMMA VirtualSendStep ==
  ASSUME Inv, NEW n \in Nodes, VirtualSend(n)
  PROVE  NodeStep(n, Passes(n)) /\ Inv'
<1>1. n \notin Procs /\ n \notin Receives /\ Passes(n) \in BOOLEAN
  BY ZenonT(30), ActivationsFromFacts DEF VirtualSend, Receives, Passes
<1>2. NodeStep(n, Passes(n))
  BY ZenonT(30), <1>1, ActivationType
     DEF VirtualSend, NodeStep, Evaluated, Executed, elements, HoldsBits, Passes
<1>3. channel[n] \in Internal /\ Predicate(n) \in BOOLEAN /\ Data(n, Env(proc[n])) \in Values
  BY Zenon, ComputedType DEF VirtualSend, Inv
<1>4. TypeInvariant'
  <2>1. done' \subseteq Nodes
    BY Zenon DEF VirtualSend, Executed, Inv, TypeInvariant
  <2>2. send_fired' \in [Internal -> BOOLEAN] /\ data_in' \in [Internal -> Values]
    BY Zenon, <1>1, <1>3 DEF VirtualSend, Inv, TypeInvariant
  <2> QED BY Zenon, <1>1, <2>1, <2>2, EvaluatedType DEF VirtualSend, Inv, TypeInvariant
<1>5. Fired'
  <2>1. \A c \in Internal : send_fired'[c] => send_fired[c] \/ c = channel[n]
    BY Zenon DEF VirtualSend, Inv, TypeInvariant
  <2>2. receive_fired' = receive_fired /\ op[n] = "send" /\ IsVirtual(n)
    BY Zenon DEF VirtualSend
  <2> QED BY Zenon, <1>1, <1>2, <2>1, <2>2, FiredStep
<1> QED BY Zenon, <1>1, <1>2, <1>4, <1>5, NodeStepPreserves

(***************************************************************************)
(* A receive on a virtual channel gathers its bit until there is data.     *)
(***************************************************************************)
LEMMA VirtualReceiveStep ==
  ASSUME Inv, NEW n \in Nodes, VirtualReceive(n)
  PROVE  NodeStep(n, Gathers(n, Stalled(n))) /\ Inv'
<1> DEFINE act == Gathers(n, Stalled(n))
<1>1. n \notin Procs /\ n \in Receives /\ act \in BOOLEAN /\ IsVirtual(n) /\ op[n] = "receive"
  BY ZenonT(30), ActivationsFromFacts DEF VirtualReceive, Receives, Gathers
<1>2. channel[n] \in Internal /\ Predicate(n) \in BOOLEAN
  BY Zenon, <1>1, ComputedType DEF Inv
<1>3. result' \in [Receives -> Result] /\ \A r \in Receives \ {n} : result'[r] = result[r]
  <2>1. data_out(channel[n]) \in Values /\ valid_out(channel[n]) \in BOOLEAN /\ Zero \in Values
    BY Zenon, <1>2, InlinedProcsAssumption DEF data_out, valid_out, Inv, TypeInvariant
  <2> DEFINE reads == act /\ Predicate(n)
             v == [data |-> IF reads THEN data_out(channel[n]) ELSE Zero,
                   valid |-> IF n \in NonBlocking THEN Predicate(n) /\ valid_out(channel[n])
                             ELSE reads]
  <2>2. result' = [result EXCEPT ![n] = v]
    BY ZenonT(30) DEF VirtualReceive
  <2>3. v \in Result
    BY Zenon, <1>1, <1>2, <2>1 DEF Result
  <2> HIDE DEF v
  <2> QED BY Zenon, <1>1, <2>2, <2>3 DEF Inv, TypeInvariant
<1>4. got' \in [Receives -> Result] /\ (\A r \in Receives \ {n} : got'[r] = got[r])
      /\ (act => got'[n] = Meant(n, result'[n])) /\ (~act => got' = got)
  <2> DEFINE v == Meant(n, result'[n])
  <2>1. Nothing \in Result
    BY Zenon, InlinedProcsAssumption DEF Nothing, Result
  <2>2. v \in Result
    BY Zenon, <1>1, <1>3, <2>1 DEF Meant
  <2>3. got' = IF act THEN [got EXCEPT ![n] = v] ELSE got
    BY Zenon DEF VirtualReceive
  <2> HIDE DEF v
  <2>4. got' \in [Receives -> Result] /\ (\A r \in Receives \ {n} : got'[r] = got[r])
        /\ (act => got'[n] = v) /\ (~act => got' = got)
    BY Zenon, <1>1, <2>2, <2>3 DEF Inv, TypeInvariant
  <2> QED BY Zenon, <2>4 DEF v
<1>5. NodeStep(n, act)
  <2>1. act => HasActivation(n) = ActivationsFrom(n)
    BY Zenon DEF Gathers
  <2>2. ActivationIn(n) = ActivationsFrom(n) /\ n \in NonBlocking => act
    BY Zenon, ActivationType DEF Gathers, Stalled
  <2>3. HoldsBits(n) /\ holds' = [holds EXCEPT ![n] = IF act THEN {} ELSE HasActivation(n)]
    BY ZenonT(30), <1>1 DEF VirtualReceive, Holds, HoldsBits
  <2>4. At(n) /\ Evaluated(n, act) /\ Executed(n, act)
    BY Zenon DEF VirtualReceive
  <2> HIDE DEF act
  <2> QED BY Zenon, <1>1, <1>3, <1>4, <2>1, <2>2, <2>3, <2>4
          DEF NodeStep, Evaluated, Executed, elements
<1>6. TypeInvariant'
  <2>1. done' \subseteq Nodes
    BY Zenon DEF VirtualReceive, Executed, Inv, TypeInvariant
  <2>2. receive_fired' \in [Internal -> BOOLEAN]
    BY Zenon, <1>1, <1>2 DEF VirtualReceive, Inv, TypeInvariant
  <2>3. holds' \in [Nodes \cup Procs -> SUBSET (Nodes \cup {"source"})]
    BY Zenon, ActivationType DEF VirtualReceive, Holds, Inv, TypeInvariant
  <2>4. At(n) /\ Evaluated(n, act)
    BY Zenon DEF VirtualReceive
  <2> QED BY SMTT(30), <1>1, <1>3, <1>4, <2>1, <2>2, <2>3, <2>4, EvaluatedType
          DEF VirtualReceive, Inv, TypeInvariant
<1>7. Fired'
  <2>1. \A c \in Internal : receive_fired'[c] => receive_fired[c] \/ c = channel[n]
    BY Zenon DEF VirtualReceive, Inv, TypeInvariant
  <2>2. send_fired' = send_fired
    BY Zenon DEF VirtualReceive
  <2> QED BY Zenon, <1>1, <1>5, <2>1, <2>2, FiredStep
<1> QED BY Zenon, <1>1, <1>5, <1>6, <1>7, NodeStepPreserves

(***************************************************************************)
(* A send to the outside is activated by the one bit that leads to it.     *)
(***************************************************************************)
LEMMA ActivatedSendStep ==
  ASSUME Inv, NEW n \in Nodes, ActivatedSend(n)
  PROVE  NodeStep(n, Passes(n)) /\ Inv'
<1>1. n \notin Procs /\ n \notin Receives /\ Passes(n) \in BOOLEAN
  <2>1. op[n] = "send"
    BY Zenon DEF ActivatedSend
  <2>2. n \notin Receives
    BY Zenon, <2>1 DEF Receives
  <2>3. n \notin Procs
    BY Zenon, ActivationsFromFacts
  <2> QED BY Zenon, <2>2, <2>3 DEF Passes
<1>2. NodeStep(n, Passes(n))
  BY Zenon, <1>1, ActivationType
     DEF ActivatedSend, NodeStep, Evaluated, Executed, elements, HoldsBits, Passes
<1>3. channel[n] \in Inputs \cup Outputs /\ Data(n, Env(proc[n])) \in Values
  BY ZenonT(30), ComputedType DEF ActivatedSend, Inv
<1>4. TypeInvariant'
  <2>1. done' \subseteq Nodes
    BY Zenon DEF ActivatedSend, Executed, Inv, TypeInvariant
  <2>2. external' \in [Inputs \cup Outputs -> Seq(Values)]
    BY SMTT(30), <1>3 DEF ActivatedSend, Inv, TypeInvariant
  <2> QED BY Zenon, <1>1, <2>1, <2>2, EvaluatedType DEF ActivatedSend, wires, Inv, TypeInvariant
<1>5. Fired'
  BY Zenon, <1>1, <1>2, FiredStep DEF ActivatedSend, wires
<1> QED BY Zenon, <1>1, <1>2, <1>4, <1>5, NodeStepPreserves

(***************************************************************************)
(* So is a receive from outside, which notes what it has received.         *)
(***************************************************************************)
LEMMA ActivatedReceiveStep ==
  ASSUME Inv, NEW n \in Nodes, ActivatedReceive(n)
  PROVE  NodeStep(n, Passes(n)) /\ Inv'
<1>1. /\ n \notin Procs /\ n \in Receives /\ Passes(n) \in BOOLEAN
      /\ ~IsVirtual(n) /\ op[n] = "receive"
  BY ZenonT(30), ActivationsFromFacts DEF ActivatedReceive, Receives, Passes
<1>2. channel[n] \in Inputs \cup Outputs
  BY Zenon, <1>1, ComputedType DEF Inv
<1>3. external[channel[n]] \in Seq(Values)
  BY Zenon, <1>2 DEF Inv, TypeInvariant
<1>4. result' \in [Receives -> Result] /\ \A r \in Receives \ {n} : result'[r] = result[r]
  <2> DEFINE q == external[channel[n]]
             v == IF (Passes(n) /\ Predicate(n)) /\ q # <<>>
                  THEN [data |-> Head(q), valid |-> TRUE] ELSE Nothing
  <2>1. result' = [result EXCEPT ![n] = v]
    BY Zenon DEF ActivatedReceive
  <2>2. q # <<>> => Head(q) \in Values
    BY <1>3
  <2>3. v \in Result
    BY ZenonT(30), <2>2, InlinedProcsAssumption DEF Result, Nothing
  <2> HIDE DEF v
  <2> QED BY Zenon, <1>1, <2>1, <2>3 DEF Inv, TypeInvariant
<1>5. got' \in [Receives -> Result] /\ (\A r \in Receives \ {n} : got'[r] = got[r])
      /\ (Passes(n) => got'[n] = result'[n]) /\ (~Passes(n) => got' = got)
  BY Zenon, <1>1, <1>4 DEF ActivatedReceive, Inv, TypeInvariant
<1>6. NodeStep(n, Passes(n))
  <2>1. At(n) /\ Evaluated(n, Passes(n)) /\ Executed(n, Passes(n)) /\ holds' = holds
    BY Zenon DEF ActivatedReceive
  <2>2. Meant(n, result'[n]) = result'[n]
    <3>1. result'[n] = Nothing \/ result'[n].valid = TRUE
      BY Zenon, <1>1 DEF ActivatedReceive, Inv, TypeInvariant
    <3> QED BY Zenon, <3>1 DEF Meant
  <2> QED BY Zenon, <1>1, <1>4, <1>5, <2>1, <2>2, ActivationType
          DEF NodeStep, Evaluated, Executed, elements, HoldsBits, Passes
<1>7. TypeInvariant'
  <2>1. done' \subseteq Nodes
    BY Zenon DEF ActivatedReceive, Executed, Inv, TypeInvariant
  <2>2. external' \in [Inputs \cup Outputs -> Seq(Values)]
    BY SMTT(30), <1>2, <1>3 DEF ActivatedReceive, Inv, TypeInvariant
  <2>3. At(n) /\ Evaluated(n, Passes(n)) /\ UNCHANGED <<holds, wires>>
    BY Zenon DEF ActivatedReceive
  <2> QED BY Zenon, <1>1, <1>4, <1>5, <2>1, <2>2, <2>3, EvaluatedType DEF wires, Inv, TypeInvariant
<1>8. Fired'
  BY Zenon, <1>1, <1>6, FiredStep DEF ActivatedReceive, wires
<1> QED BY Zenon, <1>1, <1>6, <1>7, <1>8, NodeStepPreserves

(***************************************************************************)
(* An after_all gathers the bits of all its predecessors.                  *)
(***************************************************************************)
LEMMA AfterAllStep ==
  ASSUME Inv, NEW n \in Nodes, AfterAll(n)
  PROVE  NodeStep(n, Gathers(n, FALSE)) /\ Inv'
<1>1. n \notin Procs /\ n \notin Receives /\ Gathers(n, FALSE) \in BOOLEAN
      /\ op[n] = "after_all" /\ ~IsVirtual(n)
  BY Zenon, ActivationsFromFacts DEF AfterAll, Receives, Gathers, IsVirtual
<1>2. NodeStep(n, Gathers(n, FALSE))
  BY Zenon, <1>1, ActivationType
     DEF AfterAll, NodeStep, Evaluated, Executed, elements, HoldsBits, Holds, Gathers
<1>3. TypeInvariant'
  <2>1. done' \subseteq Nodes
    BY Zenon DEF AfterAll, Executed, Inv, TypeInvariant
  <2>2. holds' \in [Nodes \cup Procs -> SUBSET (Nodes \cup {"source"})]
    BY Zenon, ActivationType DEF AfterAll, Holds, Inv, TypeInvariant
  <2> QED BY Zenon, <1>1, <2>1, <2>2, EvaluatedType DEF AfterAll, wires, Inv, TypeInvariant
<1>4. Fired'
  BY Zenon, <1>1, <1>2, FiredStep DEF AfterAll, wires
<1> QED BY ZenonT(30), <1>1, <1>2, <1>3, <1>4, NodeStepPreserves

(***************************************************************************)
(* A sink gathers the bits of its thread, and starts the activation        *)
(* afresh.                                                                 *)
(***************************************************************************)
LEMMA SinkStep ==
  ASSUME Inv, NEW p \in Procs, Sink(p)
  PROVE  NodeStep(p, Gathers(p, FALSE)) /\ Inv'
<1>1. p \notin Nodes /\ p \notin Receives /\ Gathers(p, FALSE) \in BOOLEAN /\ ~IsVirtual(p)
  BY Zenon, ActivationsFromFacts DEF Receives, Gathers, IsVirtual
<1>2. got' \in [Receives -> Result] /\ \A r \in Receives : proc[r] = p \/ got'[r] = got[r]
  <2>1. Nothing \in Result
    BY Zenon, InlinedProcsAssumption DEF Result, Nothing
  <2>2. got \in [Receives -> Result]
    BY Zenon DEF Inv, TypeInvariant
  <2>3. CASE Gathers(p, FALSE)
    <3>1. got' = [r \in Receives |-> IF proc[r] = p THEN Nothing ELSE got[r]]
      BY Zenon, <2>3 DEF Sink
    <3> QED BY Zenon, <2>1, <2>2, <3>1
  <2>4. CASE ~Gathers(p, FALSE)
    BY Zenon, <2>2, <2>4 DEF Sink
  <2> QED BY ZenonT(30), <2>3, <2>4
<1>3. NodeStep(p, Gathers(p, FALSE))
  BY ZenonT(30), <1>1, <1>2, ActivationType
     DEF Sink, NodeStep, Evaluated, elements, HoldsBits, Holds, Gathers
<1>4. TypeInvariant'
  <2>1. done' \subseteq Nodes
    BY Zenon DEF Sink, Inv, TypeInvariant
  <2>2. holds' \in [Nodes \cup Procs -> SUBSET (Nodes \cup {"source"})]
    BY Zenon, ActivationType DEF Sink, Holds, Inv, TypeInvariant
  <2> QED BY Zenon, <1>1, <1>2, <2>1, <2>2, EvaluatedType DEF Sink, wires, Inv, TypeInvariant
<1>5. Fired'
  BY Zenon, <1>1, <1>3, FiredStep DEF Sink, wires
<1> QED BY ZenonT(30), <1>1, <1>3, <1>4, <1>5, NodeStepPreserves

--------------------------------------------------------------------------------
(***************************************************************************)
(* The end of a tick: the bits of a completed activation give way to the   *)
(* thread's activation bit, and what later ticks need has been saved.      *)
(***************************************************************************)
LEMMA EndTickStep ==
  ASSUME Inv, EndTick
  PROVE  Inv'
<1>1. at = Len(order) + 1 /\ at' = 1 /\ fired' = {} /\ done' = done /\ holds' = holds
      /\ got' = got /\ Len(order) \in Nat
  BY Zenon, PositionFacts DEF EndTick
<1>2. \A n \in Nodes \cup Procs : Position(n) < at /\ ~Pending(n) /\ Pending(n)'
  BY SMTT(30), <1>1, PositionFacts DEF Pending
<1>3. TypeInvariant'
  <2>1. \A p \in Procs : NextState(p, Env(p)) \in Values
    BY Zenon, EnvType, DataAssumption DEF Inv
  <2>2. \A r \in Receives : Presented(r) \in Result
    BY Zenon DEF Presented, Inv, TypeInvariant
  <2>3. Nothing \in Result /\ Zero \in Values
    BY Zenon, InlinedProcsAssumption DEF Result, Nothing
  <2>4. activation' \in [Procs -> BOOLEAN] /\ data_valid' \in [Internal -> BOOLEAN]
    BY DEF EndTick
  <2>5. data_state' \in [Internal -> Values]
    BY ZenonT(30) DEF EndTick, Inv, TypeInvariant
  <2>6. received' \in [Receives -> Result]
    BY ZenonT(30), <2>2 DEF EndTick, Inv, TypeInvariant
  <2>7. proc_state' \in [Procs -> Values]
    BY ZenonT(30), <2>1 DEF EndTick, Inv, TypeInvariant
  <2>8. result' \in [Receives -> Result] /\ data_in' \in [Internal -> Values]
    BY Zenon, <2>3 DEF EndTick
  <2>9. send_fired' \in [Internal -> BOOLEAN] /\ receive_fired' \in [Internal -> BOOLEAN]
    BY Zenon DEF EndTick
  <2>10. UNCHANGED <<holds, fifo_depth, external, failed, done, got>>
    BY ZenonT(30) DEF EndTick
  <2> QED BY <1>1, <2>4, <2>5, <2>6, <2>7, <2>8, <2>9, <2>10 DEF Inv, TypeInvariant
<1>4. Frontier'
  <2>1. ASSUME NEW n \in Nodes \cup Procs, NEW m \in ActivationsFrom(n)
        PROVE  Bit(m, n)' <=> Reached(m)' /\ n \notin done' /\ ProcOf(n) \notin fired'
    <3>1. m \in holds[n] <=> Reached(m) /\ n \notin done /\ ProcOf(n) \notin fired
      BY Zenon, <1>2 DEF Inv, Frontier, Bit
    <3>2. ProcOf(n) \in Procs /\ (m # "source" => m \in Nodes /\ proc[m] = ProcOf(n))
          /\ (n \in Nodes => ProcOf(n) = proc[n])
      BY Zenon, ActivationsFromFacts
    <3>3. m \in ActivationIn(n)' <=> m = "source" /\ ProcOf(n) \in fired
      BY ZenonT(30), <1>1, <3>2 DEF ActivationIn, EndTick
    <3>4. Bit(m, n)' <=> m \in holds[n] \/ (m = "source" /\ ProcOf(n) \in fired)
      BY Zenon, <1>1, <1>2, <3>3 DEF Bit
    <3>5. Reached(m)' <=> Reached(m)
      BY Zenon, <1>1 DEF Reached
    <3>6. "source" \notin Nodes \cup Procs /\ done \subseteq Nodes
      BY Zenon, InlinedProcsAssumption DEF Inv, TypeInvariant
    <3>7. \A k \in done : proc[k] \notin fired
      BY Zenon DEF Inv, Past
    <3>8. ProcOf(n) \in fired => n \notin done /\ (m # "source" => m \notin done)
      BY Zenon, <3>2, <3>6, <3>7
    <3> QED BY Zenon, <1>1, <3>1, <3>4, <3>5, <3>8 DEF Reached
  <2>2. \A n \in Nodes \cup Procs : holds'[n] \subseteq ActivationsFrom(n)
    BY Zenon, <1>1 DEF Inv, Frontier
  <2>3. \A n \in Nodes : ~(n \in Receives /\ IsVirtual(n)) /\ op[n] # "after_all" => holds'[n] = {}
    BY Zenon, <1>1 DEF Inv, Frontier
  <2>4. \A n \in done' : Preds[n] \subseteq done'
    BY Zenon, <1>1 DEF Inv, Frontier
  <2> QED BY Zenon, <2>1, <2>2, <2>3, <2>4 DEF Frontier
<1>5. Past'
  BY Zenon, <1>1 DEF Past
<1>6. Fired'
  BY Zenon DEF EndTick, Fired
<1>7. Kept'
  <2> SUFFICES ASSUME NEW r \in done \cap Receives
               PROVE  /\ r \in Saved => Meant(r, received'[r]) = got[r]
                      /\ r \notin Saved => users[r] \subseteq done
    BY Zenon, <1>1 DEF Kept
  <2>1. /\ r \in fired => Meant(r, result[r]) = got[r]
        /\ r \notin fired /\ r \in Saved => Meant(r, received[r]) = got[r]
        /\ r \notin fired /\ r \notin Saved => users[r] \subseteq done
    BY Zenon DEF Inv, Kept
  <2>2. r \in Saved => Meant(r, received'[r]) = got[r]
    BY Zenon, <2>1 DEF EndTick, Presented
  <2>3. ASSUME r \notin Saved, r \in fired, NEW n \in users[r] PROVE n \in done
    <3>1. n \in Nodes \cup Procs /\ ProcOf(n) = proc[r]
      BY Zenon, DataAssumption
    <3>2. n \in AlwaysWith(r)
      BY Zenon, <2>3 DEF Saved
    <3>3. n \in fired
      BY Zenon, <1>2, <2>3, <3>1, <3>2 DEF Inv, Past
    <3>4. proc[r] \notin fired
      BY Zenon DEF Inv, Past
    <3>5. n \in Nodes
      BY Zenon, <3>1, <3>3, <3>4, ActivationsFromFacts
    <3>6. n \in done \/ proc[n] \in fired
      BY Zenon, <3>3, <3>5 DEF Inv, Past
    <3> QED BY Zenon, <3>1, <3>4, <3>5, <3>6, ActivationsFromFacts
  <2> QED BY Zenon, <2>1, <2>2, <2>3
<1> QED BY Zenon, <1>3, <1>4, <1>5, <1>6, <1>7 DEF Inv

(***************************************************************************)
(* Steps that leave the container's logic alone preserve Inv.              *)
(***************************************************************************)
LEMMA QuietStep ==
  ASSUME Inv, failed' \in BOOLEAN, external' \in [Inputs \cup Outputs -> Seq(Values)],
         UNCHANGED <<elements, holds, at, fired, wires, result, fifo_depth, done, got>>
  PROVE  Inv'
<1>1. TypeInvariant'
  BY Zenon DEF Inv, TypeInvariant, elements, wires
<1>2. Frontier' = Frontier
  <2>1. \A m, n : Bit(m, n)' <=> Bit(m, n)
    BY Zenon DEF Bit, Pending, ActivationIn, elements
  <2>2. \A m : Reached(m)' <=> Reached(m)
    BY Zenon DEF Reached
  <2> QED BY ZenonT(30), <2>1, <2>2 DEF Frontier
<1>3. Past' /\ Fired' /\ Kept'
  BY Zenon DEF Inv, Past, Fired, Kept, elements, wires
<1> QED BY Zenon, <1>1, <1>2, <1>3 DEF Inv

(***************************************************************************)
(* The environment supplies and takes values of the external channels.     *)
(***************************************************************************)
LEMMA EnvironmentStep ==
  ASSUME Inv, Environment
  PROVE  Inv'
<1>1. external \in [Inputs \cup Outputs -> Seq(Values)]
  BY Zenon DEF Inv, TypeInvariant
<1>2. CASE \E c \in Inputs, v \in Values : Put(c, v)
  <2>1. external' \in [Inputs \cup Outputs -> Seq(Values)]
    BY <1>1, <1>2 DEF Put
  <2> QED BY Zenon, <2>1, QuietStep DEF Environment, Inv, TypeInvariant
<1>3. CASE \E c \in Outputs : Take(c)
  <2>1. external' \in [Inputs \cup Outputs -> Seq(Values)]
    BY <1>1, <1>3 DEF Take
  <2> QED BY Zenon, <2>1, QuietStep DEF Environment, Inv, TypeInvariant
<1> QED BY Zenon, <1>2, <1>3 DEF Environment

(***************************************************************************)
(* At the start each thread has its activation bit, and nothing else is    *)
(* on its way.                                                             *)
(***************************************************************************)
LEMMA InitInv == Init => Inv
<1> SUFFICES ASSUME Init PROVE Inv
  BY Zenon
<1>1. \A n \in Nodes \cup Procs : Pending(n)
  BY PositionFacts DEF Init, Pending
<1>2. TypeInvariant
  <2>1. Nothing \in Result /\ Zero \in Values /\ InitStates \subseteq [Procs -> Values]
    BY Zenon, InlinedProcsAssumption DEF Result, Nothing
  <2>2. received \in [Receives -> Result] /\ result \in [Receives -> Result]
        /\ got \in [Receives -> Result]
    BY Zenon, <2>1 DEF Init
  <2>3. external \in [Inputs \cup Outputs -> Seq(Values)]
    BY SMTT(30) DEF Init
  <2>4. at \in 1 .. Len(order) + 1
    BY SMTT(30), PositionFacts DEF Init
  <2> QED BY ZenonT(30), <2>1, <2>2, <2>3, <2>4 DEF Init, TypeInvariant
<1>3. Frontier
  <2>1. ASSUME NEW n \in Nodes \cup Procs, NEW m \in ActivationsFrom(n)
        PROVE  Bit(m, n) <=> Reached(m) /\ n \notin done /\ ProcOf(n) \notin fired
    <3>1. m \in ActivationIn(n) <=> m = "source"
      BY Zenon, ActivationsFromFacts DEF ActivationIn, Init
    <3>2. holds[n] = {} /\ done = {} /\ fired = {}
      BY Zenon DEF Init
    <3> QED BY Zenon, <1>1, <3>1, <3>2 DEF Bit, Reached
  <2> QED BY Zenon, <2>1 DEF Init, Frontier
<1>4. Past /\ Fired /\ Kept
  BY Zenon DEF Init, Past, Fired, Kept
<1> QED BY Zenon, <1>2, <1>3, <1>4 DEF Inv

(***************************************************************************)
(* Every step of the container preserves Inv.                              *)
(***************************************************************************)
LEMMA NextInv == Inv /\ [Next]_vars => Inv'
<1> SUFFICES ASSUME Inv, [Next]_vars PROVE Inv'
  BY Zenon
<1>1. ASSUME NEW n \in Nodes, \/ VirtualSend(n) \/ VirtualReceive(n) \/ ActivatedSend(n)
                              \/ ActivatedReceive(n) \/ AfterAll(n)
      PROVE  Inv'
  BY Zenon, <1>1, VirtualSendStep, VirtualReceiveStep, ActivatedSendStep, ActivatedReceiveStep,
     AfterAllStep
<1>2. ASSUME NEW p \in Procs, Sink(p) PROVE Inv'
  BY ZenonT(30), <1>2, SinkStep
<1>3. CASE AssertionFails
  BY Zenon, <1>3, QuietStep DEF AssertionFails, Inv, TypeInvariant
<1>4. CASE EndTick
  BY Zenon, <1>4, EndTickStep
<1>5. CASE Environment
  BY Zenon, <1>5, EnvironmentStep
<1>6. CASE UNCHANGED vars
  BY Zenon, <1>6, QuietStep DEF vars, Inv, TypeInvariant
<1> QED BY Zenon, <1>1, <1>2, <1>3, <1>4, <1>5, <1>6 DEF Next, Tick

(***************************************************************************)
(* The frontier, what is past and what is kept, of every network.          *)
(***************************************************************************)
THEOREM FrontierCorrect == Spec => []Inv
<1> QED BY InitInv, NextInv, PTL DEF Spec

(***************************************************************************)
(* What the assertion has found stays so: nothing moves after it.          *)
(***************************************************************************)
LossFound == failed => at = Len(order) + 1 /\ \E c \in Internal : DataLoss(c)

(***************************************************************************)
(* LossFound is preserved, as every other step needs a tick in progress or *)
(* an assertion that has not failed.                                       *)
(***************************************************************************)
LEMMA NextLossFound == Inv /\ LossFound /\ [Next]_vars => LossFound'
<1> SUFFICES ASSUME Inv, LossFound, [Next]_vars PROVE LossFound'
  BY Zenon
<1>1. CASE failed
  <2>1. Len(order) \in Nat /\ at = Len(order) + 1
    BY Zenon, <1>1, PositionFacts DEF LossFound
  <2>2. \A n : ~At(n)
    BY <2>1 DEF At
  <2>3. UNCHANGED vars
    BY Zenon, <1>1, <2>2
       DEF Next, Tick, VirtualSend, VirtualReceive, ActivatedSend, ActivatedReceive, AfterAll,
           Sink, AssertionFails, EndTick, Environment
  <2> QED BY Zenon, <2>3 DEF LossFound, DataLoss, valid_out, vars, elements, wires
<1>2. CASE ~failed
  <2>1. CASE AssertionFails
    BY Zenon, <2>1 DEF AssertionFails, LossFound, DataLoss, valid_out, elements, wires
  <2>2. CASE ~AssertionFails
    <3>1. failed' = failed
      BY Zenon, <2>2 DEF Next, Tick, VirtualSend, VirtualReceive, ActivatedSend, ActivatedReceive,
         AfterAll, Sink, Evaluated, EndTick, Environment, vars
    <3> QED BY Zenon, <1>2, <3>1 DEF LossFound
  <2> QED BY Zenon, <2>1, <2>2
<1> QED BY Zenon, <1>1, <1>2

(***************************************************************************)
(* The data-loss assertion raises no false alarm, in any network: when it  *)
(* fails, some inlined channel holds more than its FIFO depth.             *)
(***************************************************************************)
THEOREM AlarmIsReal == Spec => []LossIsReal
<1>1. Init => LossFound
  BY Zenon DEF Init, LossFound
<1>2. Inv /\ LossFound => LossIsReal
  <2> SUFFICES ASSUME Inv, LossFound, failed
               PROVE  \E c \in Internal : Len(Contents(c)) > fifo_depth[c]
    BY Zenon DEF LossIsReal
  <2>1. PICK c \in Internal : DataLoss(c)
    BY Zenon DEF LossFound
  <2>2. fifo_depth[c] \in {0, 1} /\ data_in[c] \in Values /\ data_state[c] \in Values
    BY Zenon DEF Inv, TypeInvariant
  <2>3. CASE fifo_depth[c] = 0
    <3>1. Contents(c) = <<data_in[c]>>
      BY <2>1, <2>3 DEF DataLoss, valid_out, Contents
    <3> QED BY Zenon, <2>2, <2>3, <3>1, LengthOfTwo
  <2>4. CASE fifo_depth[c] = 1
    <3>1. Contents(c) = <<data_state[c]>> \o <<data_in[c]>>
      BY <2>1, <2>4 DEF DataLoss, Contents
    <3> QED BY Zenon, <2>2, <2>4, <3>1, LengthOfTwo
  <2> QED BY Zenon, <2>2, <2>3, <2>4
<1> QED BY <1>1, <1>2, InitInv, NextInv, NextLossFound, PTL DEF Spec


(***************************************************************************)
(* Evaluating a node leaves the abstract states alone: the nodes of a proc *)
(* whose sink has been activated are past, and so are its receives.        *)
(***************************************************************************)
LEMMA StateKept ==
  ASSUME Inv, NEW n \in Nodes \cup Procs, NEW act \in BOOLEAN, NodeStep(n, act),
         proc_state' = proc_state
  PROVE  /\ n \in Nodes \/ ~act => AbsState' = AbsState
         /\ \A p \in Procs : p \in fired \/ p = n => Env(p)' = Env(p)
<1>1. Position(n) = at /\ at \in Nat
  BY AtPosition DEF NodeStep, Inv, TypeInvariant
<1>2. ASSUME NEW p \in Procs, p \in fired \/ p = n PROVE Env(p)' = Env(p)
  <2>1. Position(p) <= at /\ Position(p) \in Nat
    BY <1>1, <1>2, PositionFacts DEF Inv, Past
  <2>2. ASSUME NEW r \in NodesOf(p) \cap Receives PROVE Presented(r)' = Presented(r)
    <3>1. Position(r) < Position(p) /\ Position(r) \in Nat
      BY SinkIsLast, PositionFacts DEF NodesOf
    <3>2. r # n /\ r \in Receives
      BY <1>1, <2>1, <3>1
    <3> QED BY Zenon, <3>2 DEF Presented, NodeStep
  <2> QED BY Zenon, <2>2 DEF Env
<1>3. ASSUME n \in Nodes \/ ~act PROVE AbsState' = AbsState
  <2>1. \A p \in Procs : p \in fired' <=> p \in fired
    BY Zenon, <1>3, InlinedProcsAssumption DEF NodeStep
  <2> QED BY Zenon, <1>2, <2>1 DEF AbsState
<1> QED BY Zenon, <1>2, <1>3

(***************************************************************************)
(* The variables of the abstract network.                                  *)
(***************************************************************************)
LEMMA NetworkVars ==
  ASSUME done' = done, got' = got, AbsState' = AbsState, AbsQueue' = AbsQueue
  PROVE  UNCHANGED Network!vars
BY Zenon DEF Network!vars, AbsState, AbsQueue

(***************************************************************************)
(* A step that changes one queue.                                          *)
(***************************************************************************)
LEMMA OneQueue ==
  ASSUME NEW c \in Channels,
         \A d \in Internal \ {c} : Contents(d)' = Contents(d),
         \A d \in (Inputs \cup Outputs) \ {c} : external'[d] = external[d]
  PROVE  AbsQueue' = [AbsQueue EXCEPT ![c] = AbsQueue'[c]]
<1>1. \A d \in Channels \ {c} : AbsQueue'[d] = AbsQueue[d]
  BY Zenon DEF AbsQueue, Internal
<1>2. AbsQueue = [d \in Channels |-> AbsQueue[d]] /\ AbsQueue' = [d \in Channels |-> AbsQueue'[d]]
  BY Zenon DEF AbsQueue
<1> HIDE DEF AbsQueue
<1> QED BY Zenon, <1>1, <1>2

(***************************************************************************)
(* What a virtual channel holds, given whether a value is saved, sent and  *)
(* taken.                                                                  *)
(***************************************************************************)
Holding(kept, x, sent, y, taken) ==
  LET q == (IF kept THEN <<x>> ELSE <<>>) \o (IF sent THEN <<y>> ELSE <<>>)
  IN  IF taken /\ q # <<>> THEN Tail(q) ELSE q

(***************************************************************************)
(* The saved value is the first and a sent value is the last.              *)
(***************************************************************************)
LEMMA HoldingCases ==
  ASSUME NEW x \in Values, NEW y \in Values
  PROVE  /\ Holding(FALSE, x, FALSE, y, FALSE) = <<>>
         /\ Holding(FALSE, x, FALSE, y, TRUE) = <<>>
         /\ Holding(TRUE, x, FALSE, y, FALSE) = <<x>>
         /\ Holding(TRUE, x, FALSE, y, TRUE) = <<>>
         /\ Holding(FALSE, x, TRUE, y, FALSE) = <<y>>
         /\ Holding(FALSE, x, TRUE, y, TRUE) = <<>>
         /\ Holding(TRUE, x, TRUE, y, FALSE) = Append(<<x>>, y)
         /\ Holding(TRUE, x, TRUE, y, TRUE) = <<y>>
         /\ Head(Append(<<x>>, y)) = x /\ Tail(Append(<<x>>, y)) = <<y>>
<1>1. /\ <<>> \o <<>> = <<>> /\ <<x>> \o <<>> = <<x>> /\ <<>> \o <<y>> = <<y>>
      /\ <<x>> \o <<y>> = Append(<<x>>, y)
  OBVIOUS
<1>2. <<x>> # <<>> /\ <<y>> # <<>> /\ Append(<<x>>, y) # <<>>
  OBVIOUS
<1>3. Tail(<<x>>) = <<>> /\ Tail(<<y>>) = <<>> /\ Head(Append(<<x>>, y)) = x
  OBVIOUS
<1>4. Tail(Append(<<x>>, y)) = <<y>>
  BY Zenon, TailOfTwo
<1> QED BY Zenon, <1>1, <1>2, <1>3, <1>4 DEF Holding

(***************************************************************************)
(* A virtual channel whose wires and state are left alone.                 *)
(***************************************************************************)
LEMMA ContentsKept ==
  ASSUME NEW c, fifo_depth' = fifo_depth, data_valid' = data_valid, data_state' = data_state,
         send_fired'[c] = send_fired[c], receive_fired'[c] = receive_fired[c],
         send_fired[c] => data_in'[c] = data_in[c]
  PROVE  Contents(c)' = Contents(c)
BY Zenon DEF Contents

(***************************************************************************)
(* Whatever leaves all channels alone leaves the abstract queues alone.    *)
(***************************************************************************)
LEMMA QueuesKept ==
  ASSUME \A c \in Internal : Contents(c)' = Contents(c), external' = external
  PROVE  AbsQueue' = AbsQueue
BY Zenon DEF AbsQueue

(***************************************************************************)
(* A node is activated in the container when it is ready in the network.   *)
(***************************************************************************)
LEMMA ActivatedIsReady ==
  ASSUME LooksAtValid, Inv, NEW n \in Nodes, NodeStep(n, TRUE), proc_state' = proc_state
  PROVE  /\ Network!Ready(n) /\ Network!Done(n)
         /\ Predicate(n) = Active(n, Network!Env(proc[n]))
         /\ Data(n, Env(proc[n])) = Data(n, Network!Env(proc[n]))
<1>1. n \notin done /\ ProcOf(n) \notin fired /\ \A m \in ActivationsFrom(n) : Reached(m)
  BY Zenon, ActivatedIsOnFrontier DEF NodeStep
<1>2. Preds[n] \subseteq done
  BY <1>1, ActivationsFromFacts, InlinedProcsAssumption DEF Reached
<1>3. done' = done \cup {n} /\ AbsState' = AbsState
  BY Zenon, StateKept, InlinedProcsAssumption DEF NodeStep
<1> QED BY Zenon, <1>1, <1>2, <1>3, SameMeaning
        DEF Network!Ready, Network!Done, Predicate, AbsState

(***************************************************************************)
(* A send on a virtual channel: the receives of the channel come later in  *)
(* the tick and no other send has fired, so that its value is the last.    *)
(***************************************************************************)
LEMMA VirtualSendRefines ==
  ASSUME LooksAtValid, Inv, ChannelsExclusive, NEW n \in Nodes, VirtualSend(n)
  PROVE  [Network!Next]_(Network!vars)
<1> DEFINE c == channel[n]
           sends == Passes(n) /\ Predicate(n)
           d == Data(n, Env(proc[n]))
<1>1. /\ NodeStep(n, Passes(n)) /\ At(n) /\ op[n] = "send" /\ IsVirtual(n)
      /\ Passes(n) \in BOOLEAN /\ proc_state' = proc_state /\ got' = got /\ external' = external
      /\ fifo_depth' = fifo_depth /\ data_valid' = data_valid /\ data_state' = data_state
      /\ receive_fired' = receive_fired
  BY Zenon, VirtualSendStep DEF VirtualSend, Evaluated, elements, Passes
<1>2. c \in Internal /\ c \in Channels /\ Predicate(n) \in BOOLEAN /\ d \in Values
  BY Zenon, <1>1, ComputedType DEF Inv, Internal
<1>3. Position(n) = at /\ at \in Nat /\ \A m \in Nodes : Position(m) \in Nat
  BY SMTT(30), <1>1, AtPosition, PositionFacts DEF Inv, TypeInvariant
<1>4. ~receive_fired[c]
  <2> SUFFICES ASSUME receive_fired[c] PROVE FALSE
    OBVIOUS
  <2>1. PICK m \in Nodes : /\ op[m] = "receive" /\ channel[m] = c
                           /\ IsVirtual(m) /\ Position(m) < at
    BY Zenon, <1>2 DEF Inv, Fired
  <2>2. Position(n) < Position(m)
    BY Zenon, <1>1, <2>1, OrderAssumption
  <2> QED BY Zenon, <1>3, <2>1, <2>2, Ordered
<1>5. sends \/ FirstSend(n) => ~send_fired[c]
  <2>1. sends => ~send_fired[c]
    BY Zenon, <1>1 DEF ChannelsExclusive
  <2>2. FirstSend(n) => ~send_fired[c]
    <3> SUFFICES ASSUME FirstSend(n), send_fired[c] PROVE FALSE
      OBVIOUS
    <3>1. PICK m \in Nodes : /\ op[m] = "send" /\ channel[m] = c /\ Position(m) < at
      BY Zenon, <1>2 DEF Inv, Fired
    <3>2. Position(n) <= Position(m)
      BY Zenon, <3>1 DEF FirstSend
    <3> QED BY Zenon, <1>3, <3>1, <3>2, Ordered
  <2> QED BY Zenon, <2>1, <2>2
<1>6. send_fired' = [send_fired EXCEPT ![c] = @ \/ sends]
      /\ data_in' = [data_in EXCEPT ![c] = IF sends \/ FirstSend(n) THEN d ELSE @]
  BY Zenon DEF VirtualSend
<1>7. \A b \in Internal \ {c} : Contents(b)' = Contents(b)
  BY Zenon, <1>1, <1>6, ContentsKept DEF Inv, TypeInvariant
<1>8. CASE ~sends
  <2>1. Contents(c)' = Contents(c)
    BY Zenon, <1>1, <1>2, <1>5, <1>6, <1>8, ContentsKept DEF Inv, TypeInvariant
  <2>2. AbsQueue' = AbsQueue
    BY Zenon, <1>1, <1>7, <2>1, QueuesKept
  <2>3. CASE ~Passes(n)
    <3>1. done' = done /\ AbsState' = AbsState
      BY Zenon, <1>1, <2>3, StateKept DEF NodeStep
    <3> QED BY Zenon, <1>1, <2>2, <3>1, NetworkVars
  <2>4. CASE Passes(n)
    <3>1. ~Active(n, Network!Env(proc[n])) /\ Network!Ready(n) /\ Network!Done(n)
      BY ZenonT(30), <1>1, <1>8, <2>4, ActivatedIsReady
    <3>2. Network!Send(n)
      BY Zenon, <1>1, <2>2, <3>1 DEF Network!Send, AbsQueue
    <3> QED BY Zenon, <3>2 DEF Network!Next
  <2> QED BY Zenon, <2>3, <2>4
<1>9. CASE sends
  <2>1. /\ Active(n, Network!Env(proc[n])) /\ Network!Ready(n) /\ Network!Done(n)
        /\ d = Data(n, Network!Env(proc[n]))
    BY Zenon, <1>1, <1>9, ActivatedIsReady
  <2>2. send_fired'[c] /\ ~send_fired[c] /\ data_in'[c] = d /\ ~receive_fired'[c]
    BY Zenon, <1>1, <1>2, <1>4, <1>5, <1>6, <1>9 DEF Inv, TypeInvariant
  <2>3. Contents(c)' = Append(Contents(c), d)
    <3> DEFINE x == data_state[c]
               kept == fifo_depth[c] = 1 /\ data_valid[c]
    <3>1. x \in Values /\ data_in[c] \in Values /\ kept \in BOOLEAN
      BY Zenon, <1>2 DEF Inv, TypeInvariant
    <3>2. Contents(c) = Holding(kept, x, FALSE, data_in[c], FALSE)
      BY Zenon, <1>4, <2>2 DEF Contents, Holding
    <3>3. Contents(c)' = Holding(kept, x, TRUE, d, FALSE)
      BY Zenon, <1>1, <2>2 DEF Contents, Holding
    <3> HIDE DEF x, kept, d
    <3>4. Append(<<>>, d) = <<d>>
      BY <1>2
    <3>5. CASE kept = TRUE
      <4>1. Contents(c) = <<x>>
        BY Zenon, <3>1, <3>2, <3>5, HoldingCases
      <4>2. Contents(c)' = Append(<<x>>, d)
        BY Zenon, <1>2, <3>1, <3>3, <3>5, HoldingCases
      <4> QED BY Zenon, <4>1, <4>2
    <3>6. CASE kept = FALSE
      <4>1. Contents(c) = <<>>
        BY Zenon, <3>1, <3>2, <3>6, HoldingCases
      <4>2. Contents(c)' = <<d>>
        BY ZenonT(30), <1>2, <3>1, <3>3, <3>6, HoldingCases
      <4> QED BY Zenon, <3>4, <4>1, <4>2
    <3> QED BY Zenon, <3>1, <3>5, <3>6
  <2>4. AbsQueue'[c] = Append(AbsQueue[c], d)
    BY Zenon, <1>2, <2>3 DEF AbsQueue
  <2>5. AbsQueue' = [AbsQueue EXCEPT ![c] = Append(@, d)]
    <3>1. AbsQueue' = [AbsQueue EXCEPT ![c] = AbsQueue'[c]]
      BY Zenon, <1>1, <1>2, <1>7, OneQueue
    <3> QED BY Zenon, <2>4, <3>1
  <2> HIDE DEF d
  <2>6. Network!Send(n)
    BY Zenon, <1>1, <2>1, <2>5 DEF Network!Send, AbsQueue
  <2> QED BY Zenon, <2>6 DEF Network!Next
<1> QED BY Zenon, <1>8, <1>9

(***************************************************************************)
(* A receive on a virtual channel takes the first value, if there is one,  *)
(* as no other receive of the channel has fired.                           *)
(***************************************************************************)
LEMMA VirtualReceiveRefines ==
  ASSUME LooksAtValid, Inv, ChannelsExclusive, NEW n \in Nodes, VirtualReceive(n)
  PROVE  [Network!Next]_(Network!vars)
<1> DEFINE c == channel[n]
           act == Gathers(n, Stalled(n))
           reads == act /\ Predicate(n)
<1>1. /\ NodeStep(n, act) /\ At(n) /\ op[n] = "receive" /\ IsVirtual(n) /\ n \in Receives
      /\ act \in BOOLEAN /\ proc_state' = proc_state /\ external' = external
      /\ fifo_depth' = fifo_depth /\ data_valid' = data_valid /\ data_state' = data_state
      /\ send_fired' = send_fired /\ data_in' = data_in
      /\ receive_fired' = [receive_fired EXCEPT ![c] = @ \/ reads]
  BY ZenonT(30), VirtualReceiveStep DEF VirtualReceive, Evaluated, elements, Gathers, Receives
<1>2. c \in Internal /\ c \in Channels /\ Predicate(n) \in BOOLEAN
  BY Zenon, <1>1, ComputedType DEF Inv, Internal
<1>3. \A b \in Internal \ {c} : Contents(b)' = Contents(b)
  BY Zenon, <1>1, ContentsKept DEF Inv, TypeInvariant
<1>4. act => got' = [got EXCEPT ![n] = Meant(n,
        [data |-> IF reads THEN data_out(c) ELSE Zero,
         valid |-> IF n \in NonBlocking THEN Predicate(n) /\ valid_out(c) ELSE reads])]
  BY Zenon, <1>1 DEF VirtualReceive, Inv, TypeInvariant
<1>5. ~reads => AbsQueue' = AbsQueue
  <2>1. ~reads => Contents(c)' = Contents(c)
    BY Zenon, <1>1, <1>2, ContentsKept DEF Inv, TypeInvariant
  <2> QED BY Zenon, <1>1, <1>3, <2>1, QueuesKept
<1>6. CASE ~act
  <2>1. done' = done /\ got' = got /\ AbsState' = AbsState
    BY Zenon, <1>1, <1>6, StateKept DEF NodeStep
  <2> QED BY Zenon, <1>5, <1>6, <2>1, NetworkVars
<1>7. ASSUME act
      PROVE  /\ Network!Ready(n) /\ Network!Done(n)
             /\ Predicate(n) = Active(n, Network!Env(proc[n]))
  BY Zenon, <1>1, <1>7, ActivatedIsReady
<1>8. CASE act /\ ~Predicate(n)
  <2>1. got' = [got EXCEPT ![n] = Nothing]
    BY Zenon, <1>2, <1>4, <1>8 DEF Nothing, Meant
  <2>2. AbsQueue' = AbsQueue
    BY Zenon, <1>5, <1>8
  <2>3. Network!Receive(n)
    BY Zenon, <1>1, <1>7, <1>8, <2>1, <2>2 DEF Network!Receive, Network!Nothing, Nothing, AbsQueue
  <2> QED BY Zenon, <2>3 DEF Network!Next
<1>9. CASE reads
  <2> DEFINE x == data_state[c]
             y == data_in[c]
             kept == fifo_depth[c] = 1 /\ data_valid[c]
  <2>1. x \in Values /\ y \in Values /\ kept \in BOOLEAN /\ send_fired[c] \in BOOLEAN
    BY Zenon, <1>2 DEF Inv, TypeInvariant
  <2>2. ~receive_fired[c] /\ receive_fired'[c]
    BY ZenonT(30), <1>1, <1>2, <1>9 DEF ChannelsExclusive, Inv, TypeInvariant
  <2>3. Contents(c) = Holding(kept, x, send_fired[c], y, FALSE)
    BY Zenon, <2>2 DEF Contents, Holding
  <2>4. Contents(c)' = Holding(kept, x, send_fired[c], y, TRUE)
    BY Zenon, <1>1, <2>2 DEF Contents, Holding
  <2>5. valid_out(c) <=> send_fired[c] \/ kept
    BY Zenon DEF valid_out
  <2>6. data_out(c) = IF kept THEN x ELSE y
    BY Zenon DEF data_out
  <2>7. AbsQueue[c] = Contents(c) /\ AbsQueue'[c] = Contents(c)'
    BY Zenon, <1>2 DEF AbsQueue
  <2>8. AbsQueue' = [AbsQueue EXCEPT ![c] = Contents(c)']
    <3>1. AbsQueue' = [AbsQueue EXCEPT ![c] = AbsQueue'[c]]
      BY Zenon, <1>1, <1>2, <1>3, OneQueue
    <3> QED BY Zenon, <2>7, <3>1
  <2> HIDE DEF x, y, kept
  <2>9. CASE valid_out(c)
    <3>1. /\ Contents(c) # <<>> /\ Head(Contents(c)) = data_out(c)
          /\ Contents(c)' = Tail(Contents(c))
      <4>1. Head(<<x>>) = x /\ Tail(<<x>>) = <<>> /\ Head(<<y>>) = y /\ Tail(<<y>>) = <<>>
            /\ <<x>> # <<>> /\ <<y>> # <<>> /\ Append(<<x>>, y) # <<>>
        BY SMTT(30), <2>1
      <4>2. CASE kept = TRUE /\ send_fired[c] = TRUE
        <5>1. Contents(c) = Append(<<x>>, y)
          BY Zenon, <2>1, <2>3, <4>2, HoldingCases
        <5>2. Contents(c)' = <<y>>
          BY Zenon, <2>1, <2>4, <4>2, HoldingCases
        <5> QED BY SMTT(30), <2>1, <2>6, <4>1, <4>2, <5>1, <5>2, HoldingCases
      <4>3. CASE kept = TRUE /\ send_fired[c] = FALSE
        <5>1. Contents(c) = <<x>>
          BY ZenonT(30), <2>1, <2>3, <4>3, HoldingCases
        <5>2. Contents(c)' = <<>>
          BY ZenonT(30), <2>1, <2>4, <4>3, HoldingCases
        <5> QED BY Zenon, <2>1, <2>6, <4>1, <4>3, <5>1, <5>2
      <4>4. CASE kept = FALSE /\ send_fired[c] = TRUE
        <5>1. Contents(c) = <<y>>
          BY Zenon, <2>1, <2>3, <4>4, HoldingCases
        <5>2. Contents(c)' = <<>>
          BY Zenon, <2>1, <2>4, <4>4, HoldingCases
        <5> QED BY Zenon, <2>1, <2>6, <4>1, <4>4, <5>1, <5>2
      <4> QED BY Zenon, <2>1, <2>5, <2>9, <4>2, <4>3, <4>4
    <3>2. got' = [got EXCEPT ![n] = [data |-> Head(Contents(c)), valid |-> TRUE]]
      <4>1. LET x1 == [data |-> data_out(c), valid |-> TRUE] IN Meant(n, x1) = x1
        BY Zenon DEF Meant
      <4>2. got' = [got EXCEPT ![n] = Meant(n, [data |-> data_out(c), valid |-> TRUE])]
        BY ZenonT(30), <1>2, <1>4, <1>9, <2>9
      <4> QED BY Zenon, <3>1, <4>1, <4>2
    <3>3. AbsQueue[c] # <<>> /\ AbsQueue' = [AbsQueue EXCEPT ![c] = Tail(AbsQueue[c])]
          /\ got' = [got EXCEPT ![n] = [data |-> Head(AbsQueue[c]), valid |-> TRUE]]
      BY Zenon, <2>7, <2>8, <3>1, <3>2
    <3>4. Network!Receive(n)
      BY Zenon, <1>1, <1>7, <1>9, <3>3 DEF Network!Receive, AbsQueue
    <3> QED BY Zenon, <3>4 DEF Network!Next
  <2>10. CASE ~valid_out(c)
    <3>1. n \in NonBlocking
      BY Zenon, <1>9, <2>10 DEF Gathers, Stalled
    <3>2. Contents(c) = <<>> /\ Contents(c)' = <<>>
      <4>1. kept = FALSE /\ send_fired[c] = FALSE
        BY Zenon, <2>1, <2>5, <2>10
      <4> QED BY ZenonT(30), <2>1, <2>3, <2>4, <4>1, HoldingCases
    <3>3. AbsQueue' = AbsQueue /\ AbsQueue[c] = <<>>
      BY Zenon, <1>1, <1>3, <2>7, <3>2, QueuesKept
    <3>4. got' = [got EXCEPT ![n] = Nothing]
      <4>1. Meant(n, [data |-> data_out(c), valid |-> FALSE]) = Nothing
        BY Zenon, <3>1 DEF Meant
      <4>2. got' = [got EXCEPT ![n] = Meant(n, [data |-> data_out(c), valid |-> FALSE])]
        BY ZenonT(30), <1>2, <1>4, <1>9, <2>10, <3>1
      <4> QED BY Zenon, <4>1, <4>2
    <3>5. Network!Receive(n)
      BY Zenon, <1>1, <1>7, <1>9, <3>1, <3>3, <3>4
         DEF Network!Receive, Network!Nothing, Nothing, AbsQueue
    <3> QED BY Zenon, <3>5 DEF Network!Next
  <2> QED BY Zenon, <2>9, <2>10
<1> QED BY Zenon, <1>6, <1>8, <1>9

(***************************************************************************)
(* A send to the outside.                                                  *)
(***************************************************************************)
LEMMA ActivatedSendRefines ==
  ASSUME LooksAtValid, Inv, NEW n \in Nodes, ActivatedSend(n)
  PROVE  [Network!Next]_(Network!vars)
<1> DEFINE c == channel[n]
           sends == Passes(n) /\ Predicate(n)
           d == Data(n, Env(proc[n]))
<1>1. /\ NodeStep(n, Passes(n)) /\ op[n] = "send" /\ ~IsVirtual(n)
      /\ Passes(n) \in BOOLEAN /\ proc_state' = proc_state /\ got' = got
      /\ external' = IF sends THEN [external EXCEPT ![c] = Append(@, d)] ELSE external
  BY Zenon, ActivatedSendStep DEF ActivatedSend, Evaluated, elements, Passes
<1>2. c \in Inputs \cup Outputs /\ c \in Channels /\ c \notin Internal
  BY Zenon, <1>1, ComputedType, InlinedProcsAssumption DEF Inv, Internal
<1>3. \A b \in Internal : Contents(b)' = Contents(b)
  BY Zenon, ContentsKept DEF ActivatedSend, wires, Evaluated, elements
<1>4. CASE ~Passes(n)
  <2>1. done' = done /\ AbsState' = AbsState
    BY Zenon, <1>1, <1>4, StateKept DEF NodeStep
  <2> QED BY Zenon, <1>1, <1>3, <1>4, <2>1, QueuesKept, NetworkVars
<1>5. ASSUME Passes(n)
      PROVE  /\ Network!Ready(n) /\ Network!Done(n)
             /\ Predicate(n) = Active(n, Network!Env(proc[n]))
             /\ d = Data(n, Network!Env(proc[n]))
  BY Zenon, <1>1, <1>5, ActivatedIsReady
<1>6. CASE Passes(n) /\ ~Predicate(n)
  <2>1. AbsQueue' = AbsQueue
    BY Zenon, <1>1, <1>3, <1>6, QueuesKept
  <2>2. Network!Send(n)
    BY Zenon, <1>1, <1>5, <1>6, <2>1 DEF Network!Send, AbsQueue
  <2> QED BY Zenon, <2>2 DEF Network!Next
<1>7. CASE sends
  <2>1. \A b \in (Inputs \cup Outputs) \ {c} : external'[b] = external[b]
    BY Zenon, <1>1, <1>7 DEF Inv, TypeInvariant
  <2>2. AbsQueue' = [AbsQueue EXCEPT ![c] = AbsQueue'[c]]
    BY Zenon, <1>2, <1>3, <2>1, OneQueue
  <2>3. AbsQueue'[c] = Append(AbsQueue[c], d)
    BY Zenon, <1>1, <1>2, <1>7 DEF AbsQueue, Inv, TypeInvariant
  <2> HIDE DEF d
  <2>4. AbsQueue' = [AbsQueue EXCEPT ![c] = Append(@, d)]
    BY Zenon, <2>2, <2>3
  <2>5. Network!Send(n)
    BY Zenon, <1>1, <1>5, <1>7, <2>4 DEF Network!Send, AbsQueue
  <2> QED BY Zenon, <2>5 DEF Network!Next
<1> QED BY Zenon, <1>4, <1>6, <1>7

(***************************************************************************)
(* A receive from outside.                                                 *)
(***************************************************************************)
LEMMA ActivatedReceiveRefines ==
  ASSUME LooksAtValid, Inv, NEW n \in Nodes, ActivatedReceive(n)
  PROVE  [Network!Next]_(Network!vars)
<1> DEFINE c == channel[n]
           q == external[c]
           enabled == Passes(n) /\ Predicate(n)
<1>1. /\ NodeStep(n, Passes(n)) /\ op[n] = "receive" /\ ~IsVirtual(n) /\ n \in Receives
      /\ Passes(n) \in BOOLEAN /\ proc_state' = proc_state
      /\ enabled /\ n \notin NonBlocking => q # <<>>
      /\ external' = IF enabled /\ q # <<>> THEN [external EXCEPT ![c] = Tail(q)] ELSE external
  BY Zenon, ActivatedReceiveStep DEF ActivatedReceive, Evaluated, elements, Passes, Receives
<1>2. c \in Inputs \cup Outputs /\ c \in Channels /\ c \notin Internal
  BY Zenon, <1>1, ComputedType, InlinedProcsAssumption DEF Inv, Internal
<1>3. \A b \in Internal : Contents(b)' = Contents(b)
  BY ZenonT(30), ContentsKept DEF ActivatedReceive, wires, Evaluated, elements
<1>4. Passes(n) => got' = [got EXCEPT ![n] =
        IF enabled /\ q # <<>> THEN [data |-> Head(q), valid |-> TRUE] ELSE Nothing]
  BY Zenon, <1>1 DEF ActivatedReceive, Inv, TypeInvariant
<1>5. AbsQueue[c] = q
  BY Zenon, <1>2 DEF AbsQueue
<1>6. CASE ~Passes(n)
  <2>1. done' = done /\ got' = got /\ AbsState' = AbsState
    BY Zenon, <1>1, <1>6, StateKept DEF NodeStep
  <2> QED BY Zenon, <1>1, <1>3, <1>6, <2>1, QueuesKept, NetworkVars
<1>7. ASSUME Passes(n)
      PROVE  /\ Network!Ready(n) /\ Network!Done(n)
             /\ Predicate(n) = Active(n, Network!Env(proc[n]))
  BY Zenon, <1>1, <1>7, ActivatedIsReady
<1>8. CASE Passes(n) /\ ~(enabled /\ q # <<>>)
  <2>1. AbsQueue' = AbsQueue
    BY Zenon, <1>1, <1>3, <1>8, QueuesKept
  <2>2. got' = [got EXCEPT ![n] = [data |-> Zero, valid |-> FALSE]] /\ Zero \in Values
    BY Zenon, <1>4, <1>8, InlinedProcsAssumption DEF Nothing
  <2>3. ~Predicate(n) \/ (n \in NonBlocking /\ Predicate(n) /\ AbsQueue[c] = <<>>)
    BY Zenon, <1>1, <1>5, <1>8
  <2>4. Network!Receive(n)
    BY ZenonT(30), <1>1, <1>7, <1>8, <2>1, <2>2, <2>3 DEF Network!Receive, Network!Nothing, AbsQueue
  <2> QED BY Zenon, <2>4 DEF Network!Next
<1>9. CASE enabled /\ q # <<>>
  <2>1. \A b \in (Inputs \cup Outputs) \ {c} : external'[b] = external[b]
    BY Zenon, <1>1, <1>9 DEF Inv, TypeInvariant
  <2>2. AbsQueue' = [AbsQueue EXCEPT ![c] = AbsQueue'[c]]
    BY Zenon, <1>2, <1>3, <2>1, OneQueue
  <2>3. AbsQueue'[c] = Tail(q)
    BY Zenon, <1>1, <1>2, <1>9 DEF AbsQueue, Inv, TypeInvariant
  <2>4. AbsQueue' = [AbsQueue EXCEPT ![c] = Tail(AbsQueue[c])] /\ AbsQueue[c] # <<>>
        /\ got' = [got EXCEPT ![n] = [data |-> Head(AbsQueue[c]), valid |-> TRUE]]
    BY Zenon, <1>4, <1>5, <1>9, <2>2, <2>3
  <2>5. Network!Receive(n)
    BY Zenon, <1>1, <1>7, <1>9, <2>4 DEF Network!Receive, AbsQueue
  <2> QED BY Zenon, <2>5 DEF Network!Next
<1> QED BY Zenon, <1>6, <1>8, <1>9

(***************************************************************************)
(* An after_all.                                                           *)
(***************************************************************************)
LEMMA AfterAllRefines ==
  ASSUME LooksAtValid, Inv, NEW n \in Nodes, AfterAll(n)
  PROVE  [Network!Next]_(Network!vars)
<1> DEFINE act == Gathers(n, FALSE)
<1>1. /\ NodeStep(n, act) /\ op[n] = "after_all" /\ act \in BOOLEAN
      /\ proc_state' = proc_state /\ got' = got /\ external' = external
  BY Zenon, AfterAllStep DEF AfterAll, Evaluated, elements, Gathers
<1>2. \A b \in Internal : Contents(b)' = Contents(b)
  BY Zenon, ContentsKept DEF AfterAll, wires, Evaluated, elements
<1>3. AbsQueue' = AbsQueue
  BY Zenon, <1>1, <1>2, QueuesKept
<1>4. CASE ~act
  <2>1. done' = done /\ AbsState' = AbsState
    BY Zenon, <1>1, <1>4, StateKept DEF NodeStep
  <2> QED BY Zenon, <1>1, <1>3, <2>1, NetworkVars
<1>5. CASE act
  <2>1. Network!Ready(n) /\ Network!Done(n)
    BY Zenon, <1>1, <1>5, ActivatedIsReady
  <2>2. Network!AfterAll(n)
    BY Zenon, <1>1, <1>3, <2>1 DEF Network!AfterAll, AbsQueue
  <2> QED BY Zenon, <2>2 DEF Network!Next
<1> QED BY Zenon, <1>4, <1>5

(***************************************************************************)
(* A sink completes the activation with the state the network computes.    *)
(***************************************************************************)
LEMMA SinkRefines ==
  ASSUME LooksAtValid, Inv, NEW p \in Procs, Sink(p)
  PROVE  [Network!Next]_(Network!vars)
<1> DEFINE act == Gathers(p, FALSE)
<1>1. /\ NodeStep(p, act) /\ At(p) /\ act \in BOOLEAN
      /\ proc_state' = proc_state /\ external' = external
  BY Zenon, SinkStep DEF Sink, Evaluated, elements, Gathers
<1>2. \A b \in Internal : Contents(b)' = Contents(b)
  BY Zenon, ContentsKept DEF Sink, wires, Evaluated, elements
<1>3. AbsQueue' = AbsQueue
  BY Zenon, <1>1, <1>2, QueuesKept
<1>4. CASE ~act
  <2>1. done' = done /\ got' = got /\ AbsState' = AbsState
    BY Zenon, <1>1, <1>4, StateKept DEF NodeStep
  <2> QED BY Zenon, <1>3, <2>1, NetworkVars
<1>5. CASE act
  <2>1. /\ HasActivation(p) = ActivationsFrom(p)
        /\ done' = done \ NodesOf(p) /\ fired' = fired \cup {p}
    BY Zenon, <1>1, <1>5 DEF NodeStep
  <2>2. NodesOf(p) \subseteq done
    BY Zenon, <1>1, <2>1, SinkMeansDone
  <2>3. got' = [r \in Receives |-> IF proc[r] = p THEN Nothing ELSE got[r]]
    BY Zenon, <1>5 DEF Sink
  <2>4. NextState(p, Env(p)) = NextState(p, Network!Env(p))
    <3>1. p \notin done /\ ProcOf(p) \notin fired /\ \A m \in ActivationsFrom(p) : Reached(m)
      BY Zenon, <1>1, <2>1, ActivatedIsOnFrontier
    <3> QED BY Zenon, <3>1, SameMeaning
  <2>5. AbsState' = [AbsState EXCEPT ![p] = NextState(p, Network!Env(p))]
    <3>1. \A b \in Procs : b \in fired \/ b = p => Env(b)' = Env(b)
      BY Zenon, <1>1, StateKept
    <3>2. AbsState'[p] = NextState(p, Env(p))
      BY Zenon, <2>1, <3>1 DEF AbsState
    <3>3. \A b \in Procs \ {p} : AbsState'[b] = AbsState[b]
      BY Zenon, <1>1, <2>1, <3>1 DEF AbsState
    <3>4. AbsState = [b \in Procs |-> AbsState[b]] /\ AbsState' = [b \in Procs |-> AbsState'[b]]
      BY Zenon DEF AbsState
    <3> HIDE DEF AbsState
    <3> QED BY Zenon, <2>4, <3>2, <3>3, <3>4
  <2>6. Network!Complete(p)
    BY Zenon, <1>3, <2>1, <2>2, <2>3, <2>5
       DEF Network!Complete, Network!NodesOf, Network!Receives, Network!Nothing,
           NodesOf, Receives, Nothing, AbsState, AbsQueue
  <2> QED BY Zenon, <2>6 DEF Network!Next
<1> QED BY ZenonT(30), <1>4, <1>5

(***************************************************************************)
(* The end of a tick changes nothing the network can see: the state        *)
(* elements take up what the wires carry.  Without the assertions a value  *)
(* that was sent and not received would be lost here.                      *)
(***************************************************************************)
LEMMA EndTickRefines ==
  ASSUME Inv, EndTick
  PROVE  UNCHANGED Network!vars
<1>1. done' = done /\ got' = got /\ external' = external /\ fifo_depth' = fifo_depth /\ fired' = {}
  BY ZenonT(30) DEF EndTick
<1>2. AbsState' = AbsState
  BY ZenonT(30), <1>1 DEF EndTick, AbsState
<1>3. ASSUME NEW c \in Internal PROVE Contents(c)' = Contents(c)
  <2> DEFINE x == data_state[c]
             y == data_in[c]
             one == fifo_depth[c] = 1
             kept == one /\ data_valid[c]
  <2>1. /\ x \in Values /\ y \in Values /\ kept \in BOOLEAN /\ one \in BOOLEAN
        /\ fifo_depth[c] \in {0, 1} /\ data_valid[c] \in BOOLEAN
        /\ send_fired[c] \in BOOLEAN /\ receive_fired[c] \in BOOLEAN
    BY Zenon DEF Inv, TypeInvariant
  <2>2. /\ one /\ send_fired[c] /\ data_valid[c] => receive_fired[c]
        /\ ~one /\ send_fired[c] => receive_fired[c]
    BY Zenon, <2>1 DEF EndTick, DataLoss, valid_out
  <2>3. Contents(c) = Holding(kept, x, send_fired[c], y, receive_fired[c])
    BY Zenon DEF Contents, Holding
  <2>4. /\ data_state'[c] = IF one /\ send_fired[c] THEN y ELSE x
        /\ data_valid'[c] = (/\ one
                             /\ \/ send_fired[c] /\ data_valid[c]
                                \/ (send_fired[c] \/ data_valid[c]) /\ ~receive_fired[c])
        /\ send_fired'[c] = FALSE /\ receive_fired'[c] = FALSE /\ data_in'[c] \in Values
    BY ZenonT(30), InlinedProcsAssumption DEF EndTick
  <2>5. Contents(c)' = Holding(one /\ data_valid'[c], data_state'[c], FALSE, data_in'[c], FALSE)
    BY Zenon, <1>1, <2>4 DEF Contents, Holding
  <2>6. data_state'[c] \in Values
    BY Zenon, <2>1, <2>4
  <2>7. one /\ data_valid'[c] => Contents(c)' = <<data_state'[c]>>
    BY Zenon, <2>4, <2>5, <2>6, HoldingCases
  <2>8. ~(one /\ data_valid'[c]) => Contents(c)' = <<>>
    BY Zenon, <2>4, <2>5, <2>6, HoldingCases
  <2> HIDE DEF x, y, kept, one
  <2>9. CASE kept = TRUE /\ send_fired[c] = TRUE
    <3>1. receive_fired[c] = TRUE /\ one /\ data_valid'[c] /\ data_state'[c] = y
      BY Zenon, <2>1, <2>2, <2>4, <2>9 DEF kept
    <3>2. Contents(c) = <<y>>
      BY Zenon, <2>1, <2>3, <2>9, <3>1, HoldingCases
    <3> QED BY Zenon, <2>7, <3>1, <3>2
  <2>10. CASE kept = FALSE /\ send_fired[c] = TRUE
    <3>1. CASE receive_fired[c] = TRUE
      <4>1. Contents(c) = <<>>
        BY ZenonT(30), <2>1, <2>3, <2>10, <3>1, HoldingCases
      <4> QED BY Zenon, <2>4, <2>8, <2>10, <3>1, <4>1 DEF kept
    <3>2. CASE receive_fired[c] = FALSE
      <4>1. Contents(c) = <<y>>
        BY ZenonT(30), <2>1, <2>3, <2>10, <3>2, HoldingCases
      <4> QED BY Zenon, <2>1, <2>2, <2>4, <2>7, <2>10, <3>2, <4>1
    <3> QED BY Zenon, <2>1, <3>1, <3>2
  <2>11. CASE kept = TRUE /\ send_fired[c] = FALSE
    <3>1. CASE receive_fired[c] = TRUE
      <4>1. Contents(c) = <<>>
        BY ZenonT(30), <2>1, <2>3, <2>11, <3>1, HoldingCases
      <4> QED BY Zenon, <2>4, <2>8, <2>11, <3>1, <4>1
    <3>2. CASE receive_fired[c] = FALSE
      <4>1. Contents(c) = <<x>>
        BY ZenonT(30), <2>1, <2>3, <2>11, <3>2, HoldingCases
      <4> QED BY Zenon, <2>1, <2>4, <2>7, <2>11, <3>2, <4>1 DEF kept
    <3> QED BY ZenonT(30), <2>1, <3>1, <3>2
  <2>12. CASE kept = FALSE /\ send_fired[c] = FALSE
    <3>1. Contents(c) = <<>>
      BY ZenonT(30), <2>1, <2>3, <2>12, HoldingCases
    <3> QED BY Zenon, <2>4, <2>8, <2>12, <3>1 DEF kept
  <2> QED BY ZenonT(30), <2>1, <2>9, <2>10, <2>11, <2>12
<1>4. AbsQueue' = AbsQueue
  BY Zenon, <1>1, <1>3, QueuesKept
<1> QED BY Zenon, <1>1, <1>2, <1>4, NetworkVars

(***************************************************************************)
(* The environment of the container is that of the network.                *)
(***************************************************************************)
LEMMA EnvironmentRefines ==
  ASSUME Inv, Environment
  PROVE  [Network!Next]_(Network!vars)
<1>1. AbsState' = AbsState /\ done' = done /\ got' = got
  BY Zenon DEF Environment, AbsState, Env, Presented, elements
<1>2. \A b \in Internal : Contents(b)' = Contents(b)
  BY Zenon, ContentsKept DEF Environment, elements, wires
<1>3. external \in [Inputs \cup Outputs -> Seq(Values)]
      /\ \A c \in Inputs \cup Outputs : c \in Channels /\ c \notin Internal
  BY Zenon, InlinedProcsAssumption DEF Inv, TypeInvariant, Internal
<1>4. ASSUME NEW c \in Inputs, NEW v \in Values, Put(c, v) PROVE Network!Environment
  <2>1. AbsQueue' = [AbsQueue EXCEPT ![c] = AbsQueue'[c]]
    BY Zenon, <1>2, <1>3, <1>4, OneQueue DEF Put
  <2>2. AbsQueue'[c] = Append(AbsQueue[c], v)
    BY Zenon, <1>3, <1>4 DEF AbsQueue, Put
  <2>3. AbsQueue' = [AbsQueue EXCEPT ![c] = Append(@, v)]
    BY Zenon, <2>1, <2>2
  <2> QED BY Zenon, <1>1, <2>3 DEF Network!Environment, AbsQueue, AbsState
<1>5. ASSUME NEW c \in Outputs, Take(c) PROVE Network!Environment
  <2>1. AbsQueue' = [AbsQueue EXCEPT ![c] = AbsQueue'[c]]
    BY Zenon, <1>2, <1>3, <1>5, OneQueue DEF Take
  <2>2. AbsQueue'[c] = Tail(AbsQueue[c]) /\ AbsQueue[c] # <<>>
    BY Zenon, <1>3, <1>5 DEF AbsQueue, Take
  <2>3. AbsQueue' = [AbsQueue EXCEPT ![c] = Tail(@)]
    BY Zenon, <2>1, <2>2
  <2> QED BY Zenon, <1>1, <2>2, <2>3 DEF Network!Environment, AbsQueue, AbsState
<1> QED BY Zenon, <1>4, <1>5 DEF Environment, Network!Next

(***************************************************************************)
(* Inlining is correct for every network in which the sends of an inlined  *)
(* channel exclude each other, so do its receives, and no proc uses the    *)
(* data of a non-blocking receive that its valid bit says is not there: as *)
(* long as that holds the container behaves as the network, whatever its   *)
(* token graph, FIFO depths, evaluation order, predicates and data.  What  *)
(* happens without the condition on the valid bits is the subject of       *)
(* MCInlinedPoll.                                                          *)
(***************************************************************************)
THEOREM InliningIsCorrect ==
  ASSUME LooksAtValid
  PROVE  Spec /\ []ChannelsExclusive => RefinesTokenNetwork
<1>1. Init => Network!Init
  <2> SUFFICES ASSUME Init PROVE Network!Init
    BY Zenon
  <2>1. AbsState = proc_state
    <3>1. AbsState = [p \in Procs |-> proc_state[p]]
      BY Zenon DEF Init, AbsState
    <3>2. proc_state \in [Procs -> Values]
      BY Zenon, InlinedProcsAssumption DEF Init
    <3> QED BY Zenon, <3>1, <3>2
  <2>2. \A c \in Internal : Contents(c) = <<>>
    <3>1. Zero \in Values
      BY Zenon, InlinedProcsAssumption
    <3>2. ASSUME NEW c \in Internal PROVE Contents(c) = Holding(FALSE, Zero, FALSE, Zero, FALSE)
      BY Zenon DEF Init, Contents, Holding
    <3> QED BY Zenon, <3>1, <3>2, HoldingCases
  <2>3. AbsQueue = [c \in Channels |-> <<>>]
    BY Zenon, <2>2 DEF Init, AbsQueue, Internal
  <2> QED BY Zenon, <2>1, <2>3
          DEF Init, Network!Init, Network!Receives, Network!Nothing, Receives, Nothing,
              AbsState, AbsQueue
<1>2. Inv /\ ChannelsExclusive /\ [Next]_vars => [Network!Next]_(Network!vars)
  <2> SUFFICES ASSUME Inv, ChannelsExclusive, [Next]_vars
               PROVE  [Network!Next]_(Network!vars)
    BY Zenon
  <2>1. ASSUME NEW n \in Nodes, \/ VirtualSend(n) \/ VirtualReceive(n) \/ ActivatedSend(n)
                                \/ ActivatedReceive(n) \/ AfterAll(n)
        PROVE  [Network!Next]_(Network!vars)
    BY Zenon, <2>1, VirtualSendRefines, VirtualReceiveRefines, ActivatedSendRefines,
       ActivatedReceiveRefines, AfterAllRefines
  <2>2. ASSUME NEW p \in Procs, Sink(p) PROVE [Network!Next]_(Network!vars)
    BY Zenon, <2>2, SinkRefines
  <2>3. CASE EndTick
    BY Zenon, <2>3, EndTickRefines
  <2>4. CASE Environment
    BY Zenon, <2>4, EnvironmentRefines
  <2>5. CASE AssertionFails \/ UNCHANGED vars
    <3>1. UNCHANGED <<elements, fired, wires, result, fifo_depth, external, done, got>>
      BY Zenon, <2>5 DEF AssertionFails, vars
    <3>2. AbsState' = AbsState
      BY Zenon, <3>1 DEF AbsState, Env, Presented, elements
    <3>3. \A b \in Internal : Contents(b)' = Contents(b)
      BY Zenon, <3>1, ContentsKept DEF elements, wires
    <3> QED BY Zenon, <3>1, <3>2, <3>3, QueuesKept, NetworkVars
  <2> QED BY Zenon, <2>1, <2>2, <2>3, <2>4, <2>5 DEF Next, Tick
<1> QED BY <1>1, <1>2, FrontierCorrect, PTL DEF Spec, RefinesTokenNetwork, Network!Spec

================================================================================
