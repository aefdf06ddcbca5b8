--------------------------- MODULE BlockPipelineProofs ---------------------------
(***************************************************************************)
(* What the elastic pipeline guarantees for every number of stages, every  *)
(* schedule and every proc.                                                *)
(***************************************************************************)
EXTENDS RegisterCombining, TLAPS, WellFoundedInduction

(***************************************************************************)
(* A clock edge without reset, from a state in which every register and    *)
(* port has its type.                                                      *)
(***************************************************************************)
Edge == TypeInvariant /\ Load

(***************************************************************************)
(* The activation in a stage follows one of the proc's plans, so the next  *)
(* value of a state element that it will use is at one of its stages.      *)
(***************************************************************************)
LEMMA PlanFacts ==
  ASSUME TypeInvariant, NEW m \in Stage
  PROVE  /\ act[m].plan \in Plans
         /\ \A s \in States : /\ act[m].plan.next[s] \in next_stages[s]
                              /\ act[m].plan.next[s] \in Nat
<1>1. act \in [Stage -> Activation]
  BY Zenon DEF TypeInvariant
<1>2. act[m] \in Activation
  BY Zenon, <1>1
<1>3. act[m].plan \in Plans
  BY <1>2 DEF Activation
<1>4. \A s \in States : /\ act[m].plan.next[s] \in next_stages[s]
                       /\ next_stages[s] \subseteq Stage
  BY Zenon, <1>3, PipelineAssumption
<1>5. Stage \subseteq Nat
  BY PipelineAssumption DEF Stage
<1> QED BY Zenon, <1>3, <1>4, <1>5

(***************************************************************************)
(* The state token.  An activation in stage m holds s when it has read s   *)
(* and not yet passed the stage of its next value.  At most one activation *)
(* holds s, none does while reg_full is set, and the value that the next   *)
(* reader must see is known at every moment.                               *)
(***************************************************************************)
Holder(s, m) ==
  /\ read_stage[s] < m /\ pipeline_valid[m]
  /\ m <= act[m].plan.next[s]

NextOf(a, s, old) == IF s \in a.plan.writes THEN a.plan.value ELSE old

TokenInvariant ==
  \A s \in States :
    /\ \A m1, m2 \in Stage : Holder(s, m1) /\ Holder(s, m2) => m1 = m2
    /\ reg_full[s] => \A m \in Stage : ~Holder(s, m)
    /\ reg_full[s] => ref_state[s] = state_reg[s]
    /\ \A m \in Stage : Holder(s, m) => ref_state[s] = NextOf(act[m], s, state_reg[s])

(***************************************************************************)
(* How the flow control moves activations at an edge without reset: an     *)
(* enabled stage holds a valid activation whose states are full, and what  *)
(* a stage holds afterwards came from the stage before it or was stalled.  *)
(***************************************************************************)
LEMMA Movement ==
  ASSUME Edge, NEW n \in Stage
  PROVE  /\ load_en[n] <=> data_enable(n)
         /\ load_en[n] => /\ pipeline_valid[n]
                          /\ \A s \in States : read_stage[s] = n => reg_full[s]
         /\ n # 0 => /\ n - 1 \in Stage
                     /\ act'[n].plan = IF load_en[n - 1] THEN act[n - 1].plan
                                                         ELSE act[n].plan
                     /\ pipeline_valid'[n] =>
                          load_en[n - 1] \/ (pipeline_valid[n] /\ ~load_en[n])
<1> TypeInvariant /\ Load
  BY Zenon DEF Edge
<1>1. load_en[n] <=> data_enable(n)
  BY Zenon DEF TypeInvariant, FlowControl, Load
<1>2. load_en[n] => /\ pipeline_valid[n]
                    /\ \A s \in States : read_stage[s] = n => reg_full[s]
  BY Zenon, <1>1 DEF data_enable, stage_done, stage_valid, states_valid
<1>3. ASSUME n # 0
      PROVE  /\ n - 1 \in Stage
             /\ act'[n].plan = IF load_en[n - 1] THEN act[n - 1].plan ELSE act[n].plan
             /\ pipeline_valid'[n] =>
                  load_en[n - 1] \/ (pipeline_valid[n] /\ ~load_en[n])
  <2>1. n - 1 \in Stage /\ n - 1 # Last /\ (n - 1) + 1 = n
    BY <1>3, PipelineAssumption DEF Stage
  <2>2. act'[n].plan = IF load_en[n - 1] THEN act[n - 1].plan ELSE act[n].plan
    <3>1. act'[n] = IF load_en[n - 1] THEN Live(n - 1) ELSE act[n]
      BY Zenon, <1>3 DEF Load
    <3> QED BY <3>1 DEF Live
  <2>3. pipeline_valid'[n] <=> IF next_stage_open(n - 1) THEN stage_done(n - 1)
                                                         ELSE pipeline_valid[n]
    <3>1. pipeline_valid' = [i \in Stage |->
            i = 0 \/ IF next_stage_open(i - 1) THEN stage_done(i - 1)
                                               ELSE pipeline_valid[i]]
      BY Zenon DEF Load
    <3> QED BY Zenon, <1>3, <3>1
  <2>4. load_en[n - 1] <=> (next_stage_open(n - 1) /\ stage_done(n - 1))
    BY Zenon, <2>1 DEF TypeInvariant, FlowControl, Load, data_enable
  <2>5. next_stage_open(n - 1) <=> (load_en[n] \/ ~pipeline_valid[n])
    BY Zenon, <2>1 DEF next_stage_open
  <2> QED BY Zenon, <2>1, <2>2, <2>3, <2>4, <2>5 DEF TypeInvariant
<1> QED BY Zenon, <1>1, <1>2, <1>3

(***************************************************************************)
(* Whoever holds s after the edge has just read it, has just moved on with *)
(* it, or is stalled with it.                                              *)
(***************************************************************************)
ReadNow(s, m) ==
  LET r == read_stage[s]
  IN  /\ m = r + 1 /\ load_en[r] /\ reg_full[s]
      /\ act'[m].plan = act[r].plan /\ r < act[r].plan.next[s]

MovedOn(s, m) ==
  /\ m - 1 \in Stage /\ Holder(s, m - 1) /\ load_en[m - 1]
  /\ act'[m].plan = act[m - 1].plan /\ m <= act[m - 1].plan.next[s]

Stalled(s, m) == Holder(s, m) /\ ~load_en[m] /\ act'[m].plan = act[m].plan

(***************************************************************************)
(* After the clock edge, the activation that holds state s in stage m has  *)
(* just read it, has come with it from the stage before, or stands where   *)
(* it stood: no other edge of the pipeline registers puts a holder there.  *)
(***************************************************************************)
LEMMA HolderSource ==
  ASSUME Edge, NEW s \in States, NEW m \in Stage, Holder(s, m)'
  PROVE  ReadNow(s, m) \/ MovedOn(s, m) \/ Stalled(s, m)
<1> TypeInvariant /\ Load
  BY Zenon DEF Edge
<1>0. /\ read_stage[s] \in Nat /\ m \in Nat
      /\ read_stage[s] \in Stage
  BY PipelineAssumption DEF Stage
<1>1. read_stage[s] < m /\ pipeline_valid'[m] /\ m <= act'[m].plan.next[s]
  BY Zenon DEF Holder
<1>2. m # 0
  BY <1>0, <1>1
<1>3. /\ m - 1 \in Stage
      /\ act'[m].plan = IF load_en[m - 1] THEN act[m - 1].plan ELSE act[m].plan
      /\ load_en[m - 1] \/ (pipeline_valid[m] /\ ~load_en[m])
  BY Zenon, <1>1, <1>2, Movement
<1>4. CASE load_en[m - 1]
  <2>1. pipeline_valid[m - 1] /\ (read_stage[s] = m - 1 => reg_full[s])
    BY Zenon, <1>3, <1>4, Movement
  <2>2. CASE read_stage[s] = m - 1
    <3>1. act[m - 1].plan.next[s] \in Nat
      BY Zenon, <1>3, PlanFacts
    <3>2. m = read_stage[s] + 1 /\ read_stage[s] < act[read_stage[s]].plan.next[s]
      BY <1>0, <1>1, <1>3, <1>4, <2>2, <3>1
    <3>3. load_en[read_stage[s]] /\ reg_full[s] /\ act'[m].plan = act[read_stage[s]].plan
      BY Zenon, <1>3, <1>4, <2>1, <2>2
    <3> QED BY Zenon, <3>2, <3>3 DEF ReadNow
  <2>3. CASE read_stage[s] # m - 1
    <3>1. act[m - 1].plan.next[s] \in Nat
      BY Zenon, <1>3, PlanFacts
    <3>2. read_stage[s] < m - 1 /\ m <= act[m - 1].plan.next[s]
            /\ m - 1 <= act[m - 1].plan.next[s]
      BY <1>0, <1>1, <1>3, <1>4, <2>3, <3>1
    <3> QED BY Zenon, <1>3, <1>4, <2>1, <3>2 DEF MovedOn, Holder
  <2> QED BY Zenon, <2>2, <2>3
<1>5. CASE ~load_en[m - 1]
  BY Zenon, <1>1, <1>3, <1>5 DEF Stalled, Holder
<1> QED BY Zenon, <1>4, <1>5

(***************************************************************************)
(* A next_value fires only for the activation that reads s in this cycle   *)
(* or for the one that holds it.                                           *)
(***************************************************************************)
LEMMA ActivatedBy ==
  ASSUME Edge, NEW s \in States, NEW w \in next_stages[s],
         activated(s, w)
  PROVE  /\ w \in Stage /\ load_en[w] /\ act[w].plan.next[s] = w
         /\ (w = read_stage[s] /\ reg_full[s]) \/ Holder(s, w)
<1> TypeInvariant /\ Load
  BY Zenon DEF Edge
<1>1. w \in Stage /\ read_stage[s] <= w /\ read_stage[s] \in Nat /\ w \in Nat
  BY PipelineAssumption DEF Stage
<1>2. data_enable(w) /\ act[w].plan.next[s] = w
  BY Zenon DEF activated
<1>3. load_en[w] /\ pipeline_valid[w] /\ (read_stage[s] = w => reg_full[s])
  BY Zenon, <1>1, <1>2, Movement
<1> QED BY <1>1, <1>2, <1>3 DEF Holder

(***************************************************************************)
(* A state register without an active next_value that changes it keeps its *)
(* value; with one, it takes the value that activation computed.           *)
(***************************************************************************)
LEMMA StateWrite ==
  ASSUME Edge, NEW s \in States
  PROVE  /\ writers(s) = {} => state_reg'[s] = state_reg[s]
         /\ \A w : writers(s) = {w} => state_reg'[s] = act[w].plan.value
<1> TypeInvariant /\ Load
  BY Zenon DEF Edge
<1>1. state_reg'[s] \in NextStateValues(s)
  BY Zenon DEF Load
<1> QED BY Zenon, <1>1 DEF NextStateValues

(***************************************************************************)
(* The state token is kept by an edge without reset.                       *)
(***************************************************************************)
LEMMA TokenLoad ==
  ASSUME Edge, TokenInvariant, TypeInvariant'
  PROVE  TokenInvariant'
<1> TypeInvariant /\ Load
  BY Zenon DEF Edge
<1> SUFFICES ASSUME NEW s \in States
    PROVE /\ \A m1, m2 \in Stage : Holder(s, m1)' /\ Holder(s, m2)' => m1 = m2
          /\ reg_full'[s] => \A m \in Stage : ~Holder(s, m)'
          /\ reg_full'[s] => ref_state'[s] = state_reg'[s]
          /\ \A m \in Stage : Holder(s, m)' =>
                ref_state'[s] = NextOf(act'[m], s, state_reg'[s])
  BY Zenon DEF TokenInvariant, NextOf
<1> DEFINE r == read_stage[s]
<1>0. r \in Stage /\ r \in Nat /\ \A m \in Stage : m \in Nat
  BY PipelineAssumption DEF Stage
<1>1. /\ \A m1, m2 \in Stage : Holder(s, m1) /\ Holder(s, m2) => m1 = m2
      /\ reg_full[s] => \A m \in Stage : ~Holder(s, m)
      /\ reg_full[s] => ref_state[s] = state_reg[s]
      /\ \A m \in Stage : Holder(s, m) => ref_state[s] = NextOf(act[m], s, state_reg[s])
  BY Zenon DEF TokenInvariant
<1>2. load_en[r] => reg_full[s]
  BY Zenon, <1>0, Movement
<1>3. load_en[r] <=> data_enable(r)
  BY Zenon, <1>0, Movement
<1>4. reg_full'[s] <=> (value_determined(s) \/ (~load_en[r] /\ reg_full[s]))
  <2>1. reg_full'[s] = NextFull(s)
    BY Zenon DEF Load
  <2> QED BY Zenon, <1>3, <2>1 DEF NextFull, TypeInvariant
<1>5. ref_state'[s] = IF load_en[r] THEN NextOf(act[r], s, ref_state[s]) ELSE ref_state[s]
  BY Zenon, <1>3 DEF Load, HistoryNext, NextOf
<1>6. \A m \in Stage : Holder(s, m)' => ReadNow(s, m) \/ MovedOn(s, m) \/ Stalled(s, m)
  BY Zenon, HolderSource
<1>7. \A w \in next_stages[s] : activated(s, w) =>
        /\ w \in Stage /\ load_en[w] /\ act[w].plan.next[s] = w
        /\ (w = r /\ reg_full[s]) \/ Holder(s, w)
  BY Zenon, ActivatedBy
<1>8. \A w \in writers(s) : w \in next_stages[s] /\ activated(s, w) /\ s \in act[w].plan.writes
  BY Zenon DEF writers
<1> HIDE DEF r
<1>9. \A m1, m2 \in Stage : Holder(s, m1)' /\ Holder(s, m2)' => m1 = m2
  <2> SUFFICES ASSUME NEW m1 \in Stage, NEW m2 \in Stage, Holder(s, m1)', Holder(s, m2)'
               PROVE  m1 = m2
    BY Zenon
  <2>1. /\ ReadNow(s, m1) \/ MovedOn(s, m1) \/ Stalled(s, m1)
        /\ ReadNow(s, m2) \/ MovedOn(s, m2) \/ Stalled(s, m2)
    BY Zenon, <1>6
  <2>2. CASE reg_full[s]
    BY Zenon, <1>1, <2>1, <2>2 DEF ReadNow, MovedOn, Stalled
  <2>3. CASE ~reg_full[s]
    <3>1. /\ MovedOn(s, m1) \/ Stalled(s, m1)
          /\ MovedOn(s, m2) \/ Stalled(s, m2)
      BY Zenon, <2>1, <2>3 DEF ReadNow
    <3>2. /\ MovedOn(s, m1) => m1 - 1 \in Stage /\ Holder(s, m1 - 1) /\ load_en[m1 - 1]
          /\ MovedOn(s, m2) => m2 - 1 \in Stage /\ Holder(s, m2 - 1) /\ load_en[m2 - 1]
          /\ Stalled(s, m1) => Holder(s, m1) /\ ~load_en[m1]
          /\ Stalled(s, m2) => Holder(s, m2) /\ ~load_en[m2]
      BY Zenon DEF MovedOn, Stalled
    <3> QED BY <1>0, <1>1, <3>1, <3>2
  <2> QED BY Zenon, <2>2, <2>3
<1>10. ASSUME NEW w \in next_stages[s], activated(s, w), NEW m \in Stage, Holder(s, m)'
       PROVE  FALSE
  <2>1. /\ w \in Stage /\ load_en[w] /\ act[w].plan.next[s] = w /\ w \in Nat /\ m \in Nat
        /\ (w = r /\ reg_full[s]) \/ Holder(s, w)
    BY Zenon, <1>0, <1>7, <1>10
  <2>2. ReadNow(s, m) \/ MovedOn(s, m) \/ Stalled(s, m)
    BY Zenon, <1>6, <1>10
  <2>3. CASE ReadNow(s, m)
    BY <1>0, <1>1, <2>1, <2>3 DEF ReadNow, r
  <2>4. CASE MovedOn(s, m)
    <3>1. Holder(s, m - 1) /\ m - 1 \in Stage /\ m <= act[m - 1].plan.next[s]
      BY Zenon, <2>4 DEF MovedOn
    <3>2. m - 1 = w
      BY Zenon, <1>1, <2>1, <3>1
    <3> QED BY <2>1, <3>1, <3>2
  <2>5. CASE Stalled(s, m)
    <3>1. Holder(s, m) /\ ~load_en[m]
      BY Zenon, <2>5 DEF Stalled
    <3> QED BY Zenon, <1>1, <2>1, <3>1
  <2> QED BY Zenon, <2>2, <2>3, <2>4, <2>5
<1>11. ASSUME reg_full'[s], NEW m \in Stage, Holder(s, m)'
       PROVE  FALSE
  <2>1. CASE value_determined(s)
    BY Zenon, <1>10, <1>11, <2>1 DEF value_determined
  <2>2. CASE ~load_en[r] /\ reg_full[s]
    BY Zenon, <1>1, <1>6, <1>11, <2>2 DEF ReadNow, MovedOn, Stalled, r
  <2> QED BY Zenon, <1>4, <1>11, <2>1, <2>2
<1>12. ASSUME reg_full'[s]
       PROVE  ref_state'[s] = state_reg'[s]
  <2>1. CASE value_determined(s)
    <3>1. PICK w \in next_stages[s] : activated(s, w)
      BY Zenon, <2>1 DEF value_determined
    <3>2. w \in Stage /\ load_en[w] /\ ((w = r /\ reg_full[s]) \/ Holder(s, w))
      BY Zenon, <1>7, <3>1
    <3>3. \A v \in next_stages[s] : activated(s, v) => v = w
      BY Zenon, <1>1, <1>2, <1>7, <3>2
    <3>4. writers(s) = IF s \in act[w].plan.writes THEN {w} ELSE {}
      BY Zenon, <3>1, <3>3 DEF writers
    <3>5. state_reg'[s] = NextOf(act[w], s, state_reg[s])
      BY Zenon, <3>4, StateWrite DEF NextOf
    <3>6. CASE w = r /\ reg_full[s]
      BY <1>1, <1>5, <3>2, <3>5, <3>6 DEF NextOf
    <3>7. CASE Holder(s, w)
      <4>1. ~load_en[r]
        BY Zenon, <1>1, <1>2, <3>2, <3>7
      <4> QED BY Zenon, <1>1, <1>5, <3>2, <3>5, <3>7, <4>1
    <3> QED BY Zenon, <3>2, <3>6, <3>7
  <2>2. CASE ~value_determined(s)
    <3>1. writers(s) = {}
      BY Zenon, <2>2 DEF writers, value_determined
    <3> QED BY Zenon, <1>1, <1>4, <1>5, <1>12, <2>2, <3>1, StateWrite
  <2> QED BY Zenon, <2>1, <2>2
<1>13. ASSUME NEW m \in Stage, Holder(s, m)'
       PROVE  ref_state'[s] = NextOf(act'[m], s, state_reg'[s])
  <2>1. state_reg'[s] = state_reg[s]
    <3>1. writers(s) = {}
      BY Zenon, <1>8, <1>10, <1>13
    <3> QED BY Zenon, <3>1, StateWrite
  <2>2. CASE ReadNow(s, m)
    BY Zenon, <1>1, <1>5, <2>1, <2>2 DEF ReadNow, NextOf, r
  <2>3. CASE MovedOn(s, m)
    <3>1. Holder(s, m - 1) /\ m - 1 \in Stage /\ act'[m].plan = act[m - 1].plan
      BY Zenon, <2>3 DEF MovedOn
    <3>2. ~load_en[r]
      BY Zenon, <1>1, <1>2, <3>1
    <3> QED BY Zenon, <1>1, <1>5, <2>1, <3>1, <3>2 DEF NextOf
  <2>4. CASE Stalled(s, m)
    <3>1. Holder(s, m) /\ act'[m].plan = act[m].plan
      BY Zenon, <2>4 DEF Stalled
    <3>2. ~load_en[r]
      BY Zenon, <1>1, <1>2, <3>1
    <3> QED BY Zenon, <1>1, <1>5, <2>1, <3>1, <3>2 DEF NextOf
  <2> QED BY Zenon, <1>6, <1>13, <2>2, <2>3, <2>4
<1> QED BY Zenon, <1>9, <1>11, <1>12, <1>13

--------------------------------------------------------------------------------
(***************************************************************************)
(* Register merging.  While an activation carries a value through stages   *)
(* that exclude each other, the first register of the value still holds it,*)
(* because nothing behind it can load; and while it holds a state element, *)
(* the state register keeps what it read.                                  *)
(***************************************************************************)
Carries(x, n) == IF x \in States THEN act[n].st[x] ELSE act[n].got[x]

CarryInvariant ==
  \A n \in Stage : pipeline_valid[n] =>
    /\ \A x \in Carried, w \in Stage :
         birth(x) <= w /\ MutuallyExclusive(w, n) => Carries(x, w + 1) = Carries(x, n)
    /\ \A x \in States :
         read_stage[x] < n /\ (\A v \in next_stages[x] : n <= v) =>
           state_reg[x] = act[n].st[x]

(***************************************************************************)
(* An enabled stage hands a value on as it carries it, once the value has  *)
(* been received or read; a stage that is not enabled leaves the registers *)
(* behind it as they are.                                                  *)
(***************************************************************************)
LEMMA CarriedOn ==
  ASSUME Edge, NEW n \in Stage, n # 0
  PROVE  /\ n - 1 \in Stage
         /\ load_en[n - 1] => \A x \in Carried : birth(x) < n - 1 =>
                                 Carries(x, n)' = Carries(x, n - 1)
         /\ load_en[n - 1] => \A x \in States : read_stage[x] = n - 1 =>
                                 act'[n].st[x] = state_reg[x]
         /\ ~load_en[n - 1] => act'[n] = act[n]
<1> TypeInvariant /\ Load
  BY Zenon DEF Edge
<1>1. n - 1 \in Stage
  BY Zenon, Movement
<1>2. act'[n] = IF load_en[n - 1] THEN Live(n - 1) ELSE act[n]
  BY Zenon DEF Load
<1>3. ASSUME load_en[n - 1], NEW x \in Carried, birth(x) < n - 1
      PROVE  Carries(x, n)' = Carries(x, n - 1)
  <2>1. birth(x) # n - 1
    BY <1>1, <1>3, PipelineAssumption DEF birth, Carried, Stage
  <2>2. CASE x \in States
    BY <1>2, <1>3, <2>1, <2>2 DEF Carries, Live, birth
  <2>3. CASE x \notin States
    <3>1. x \in Inputs
      BY Zenon, <1>3, <2>3 DEF Carried
    <3>2. Live(n - 1).got[x] = act[n - 1].got[x]
      BY Zenon, <2>1, <2>3, <3>1 DEF Live, Received, birth
    <3> QED BY Zenon, <1>2, <1>3, <2>3, <3>2 DEF Carries
  <2> QED BY Zenon, <2>2, <2>3
<1>4. ASSUME load_en[n - 1], NEW x \in States, read_stage[x] = n - 1
      PROVE  act'[n].st[x] = state_reg[x]
  BY <1>2, <1>4 DEF Live
<1> QED BY Zenon, <1>1, <1>2, <1>3, <1>4

(***************************************************************************)
(* Where an activation behind the read of s and not yet at its earliest    *)
(* next value comes from: it holds s in the stage before, holds it where   *)
(* it is, or has just read it.                                             *)
(***************************************************************************)
LEMMA InRegion ==
  ASSUME Edge, TokenInvariant, NEW s \in States, NEW n \in Stage,
         pipeline_valid'[n], read_stage[s] < n, \A v \in next_stages[s] : n <= v
  PROVE  /\ n # 0 /\ n - 1 \in Stage
         /\ \/ /\ load_en[n - 1] /\ pipeline_valid[n - 1]
               /\ read_stage[s] = n - 1 /\ reg_full[s] /\ act[n - 1].plan.next[s] >= n
            \/ /\ load_en[n - 1] /\ pipeline_valid[n - 1]
               /\ Holder(s, n - 1) /\ act[n - 1].plan.next[s] >= n
            \/ /\ ~load_en[n - 1] /\ ~load_en[n] /\ pipeline_valid[n] /\ Holder(s, n)
<1> TypeInvariant /\ Load
  BY Zenon DEF Edge
<1>1. read_stage[s] \in Nat /\ n \in Nat /\ n # 0
  BY PipelineAssumption DEF Stage
<1>2. n - 1 \in Stage /\ (load_en[n - 1] \/ (pipeline_valid[n] /\ ~load_en[n]))
  BY Zenon, <1>1, Movement
<1>3. \A m \in Stage : act[m].plan.next[s] \in next_stages[s] /\ act[m].plan.next[s] \in Nat
  BY Zenon, PlanFacts
<1>4. CASE load_en[n - 1]
  <2>1. pipeline_valid[n - 1] /\ (read_stage[s] = n - 1 => reg_full[s])
    BY Zenon, <1>2, <1>4, Movement
  <2>2. act[n - 1].plan.next[s] >= n
    BY Zenon, <1>1, <1>2, <1>3
  <2>3. read_stage[s] # n - 1 => Holder(s, n - 1)
    BY <1>1, <1>2, <1>3, <2>1, <2>2 DEF Holder
  <2> QED BY Zenon, <1>1, <1>2, <1>4, <2>1, <2>2, <2>3
<1>5. CASE ~load_en[n - 1]
  <2>1. Holder(s, n)
    BY Zenon, <1>2, <1>3, <1>5 DEF Holder
  <2> QED BY Zenon, <1>1, <1>2, <1>5, <2>1
<1> QED BY Zenon, <1>4, <1>5

(***************************************************************************)
(* While an activation in a stage of the region of s holds s, no stage of  *)
(* the region behind it is enabled.                                        *)
(***************************************************************************)
LEMMA NothingBehind ==
  ASSUME Edge, TokenInvariant, NEW s \in States, NEW m \in Stage,
         NEW w \in Stage, Holder(s, m), read_stage[s] <= w, w < m,
         \A v \in next_stages[s] : w <= v
  PROVE  ~load_en[w]
<1> TypeInvariant /\ Load
  BY Zenon DEF Edge
<1> SUFFICES ASSUME load_en[w] PROVE FALSE
  BY Zenon DEF TypeInvariant
<1>1. pipeline_valid[w] /\ (read_stage[s] = w => reg_full[s])
  BY Zenon, Movement
<1>2. read_stage[s] \in Nat /\ w \in Nat /\ m \in Nat
  BY PipelineAssumption DEF Stage
<1>3. CASE read_stage[s] = w
  BY Zenon, <1>1, <1>3 DEF TokenInvariant
<1>4. CASE read_stage[s] # w
  <2>1. w <= act[w].plan.next[s]
    BY Zenon, PlanFacts, PipelineAssumption
  <2>2. Holder(s, w)
    BY <1>1, <1>2, <1>4, <2>1 DEF Holder
  <2> QED BY <1>2, <2>2 DEF TokenInvariant
<1> QED BY Zenon, <1>3, <1>4

(***************************************************************************)
(* An edge without reset keeps both parts of the invariant.                *)
(***************************************************************************)
LEMMA CarryLoad ==
  ASSUME Edge, TokenInvariant, CarryInvariant
  PROVE  CarryInvariant'
<1> TypeInvariant /\ Load
  BY Zenon DEF Edge
<1> SUFFICES ASSUME NEW n \in Stage, pipeline_valid'[n]
    PROVE /\ \A x \in Carried, w \in Stage :
               birth(x) <= w /\ MutuallyExclusive(w, n) => Carries(x, w + 1)' = Carries(x, n)'
          /\ \A x \in States :
               read_stage[x] < n /\ (\A v \in next_stages[x] : n <= v) =>
                 state_reg'[x] = act'[n].st[x]
  BY Zenon DEF CarryInvariant, birth, MutuallyExclusive
<1>0. n \in Nat /\ \A m \in Stage : m \in Nat
  BY PipelineAssumption DEF Stage
<1>1. ASSUME NEW x \in Carried, NEW w \in Stage, birth(x) <= w, MutuallyExclusive(w, n)
      PROVE  Carries(x, w + 1)' = Carries(x, n)'
  <2>1. PICK s \in States : read_stage[s] <= w /\ w < n /\ \A v \in next_stages[s] : n <= v
    BY Zenon, <1>1 DEF MutuallyExclusive
  <2>2. read_stage[s] \in Nat /\ read_stage[s] < n /\ birth(x) \in Nat /\ w \in Nat
    BY <1>0, <1>1, <2>1, PipelineAssumption DEF Stage, birth, Carried
  <2>3. SUFFICES ASSUME w + 1 # n PROVE Carries(x, w + 1)' = Carries(x, n)'
    BY Zenon
  <2>4. w + 1 \in Stage /\ w + 1 # 0 /\ (w + 1) - 1 = w /\ w < n - 1 /\ w + 1 <= n - 1
    BY <1>0, <2>1, <2>2, <2>3, PipelineAssumption DEF Stage
  <2>5. \A v \in next_stages[s] : w <= v /\ n - 1 <= v
    BY <1>0, <2>1, <2>2, PipelineAssumption DEF Stage
  <2>6. n # 0 /\ n - 1 \in Stage
    BY Zenon, <2>1, <2>2, InRegion
  <2>7. \/ load_en[n - 1] /\ pipeline_valid[n - 1] /\ Holder(s, n - 1)
        \/ ~load_en[n - 1] /\ pipeline_valid[n] /\ Holder(s, n)
    <3>1. \/ read_stage[s] = n - 1
          \/ load_en[n - 1] /\ pipeline_valid[n - 1] /\ Holder(s, n - 1)
          \/ ~load_en[n - 1] /\ pipeline_valid[n] /\ Holder(s, n)
      BY ZenonT(30), <2>1, <2>2, InRegion
    <3>2. read_stage[s] # n - 1
      BY <1>0, <2>1, <2>2, <2>4
    <3> QED BY Zenon, <3>1, <3>2
  <2>8. ~load_en[w]
    BY Zenon, <2>1, <2>2, <2>4, <2>5, <2>6, <2>7, NothingBehind
  <2>9. Carries(x, w + 1)' = Carries(x, w + 1)
    <3>1. act'[w + 1] = act[w + 1]
      BY Zenon, <2>4, <2>8, CarriedOn
    <3> QED BY Zenon, <3>1 DEF Carries
  <2>10. CASE load_en[n - 1]
    <3>1. MutuallyExclusive(w, n - 1)
      BY Zenon, <2>1, <2>4, <2>5 DEF MutuallyExclusive
    <3>2. Carries(x, w + 1) = Carries(x, n - 1)
      BY Zenon, <1>1, <2>6, <2>7, <2>10, <3>1 DEF CarryInvariant
    <3>3. Carries(x, n)' = Carries(x, n - 1)
      BY <1>1, <2>2, <2>4, <2>6, <2>10, CarriedOn
    <3> QED BY Zenon, <2>9, <3>2, <3>3
  <2>11. CASE ~load_en[n - 1]
    <3>1. Carries(x, w + 1) = Carries(x, n)
      BY Zenon, <1>1, <2>7, <2>11 DEF CarryInvariant
    <3>2. act'[n] = act[n]
      BY Zenon, <2>6, <2>11, CarriedOn
    <3>3. Carries(x, n)' = Carries(x, n)
      BY Zenon, <3>2 DEF Carries
    <3> QED BY Zenon, <2>9, <3>1, <3>3
  <2> QED BY Zenon, <2>10, <2>11
<1>2. ASSUME NEW x \in States, read_stage[x] < n, \A v \in next_stages[x] : n <= v
      PROVE  state_reg'[x] = act'[n].st[x]
  <2>1. n # 0 /\ n - 1 \in Stage /\ read_stage[x] \in Nat
    BY <1>2, InRegion, PipelineAssumption DEF Stage
  <2>2. \A v \in next_stages[x] : activated(x, v) =>
          /\ v \in Stage /\ load_en[v] /\ act[v].plan.next[x] = v
          /\ (v = read_stage[x] /\ reg_full[x]) \/ Holder(x, v)
    BY Zenon, ActivatedBy
  <2>3. /\ reg_full[x] => \A m \in Stage : ~Holder(x, m)
        /\ \A m1, m2 \in Stage : Holder(x, m1) /\ Holder(x, m2) => m1 = m2
    BY Zenon DEF TokenInvariant
  <2>4. \/ /\ load_en[n - 1] /\ read_stage[x] = n - 1
           /\ reg_full[x] /\ act[n - 1].plan.next[x] >= n
        \/ /\ load_en[n - 1] /\ pipeline_valid[n - 1]
           /\ Holder(x, n - 1) /\ act[n - 1].plan.next[x] >= n
        \/ /\ ~load_en[n - 1] /\ ~load_en[n] /\ pipeline_valid[n] /\ Holder(x, n)
    BY Zenon, <1>2, InRegion
  <2>5. \A v \in next_stages[x] : ~activated(x, v)
    <3> SUFFICES ASSUME NEW v \in next_stages[x], activated(x, v) PROVE FALSE
      BY Zenon
    <3>1. /\ v \in Stage /\ load_en[v] /\ act[v].plan.next[x] = v
          /\ (v = read_stage[x] /\ reg_full[x]) \/ Holder(x, v)
      BY Zenon, <2>2
    <3>2. CASE /\ read_stage[x] = n - 1 /\ reg_full[x] /\ act[n - 1].plan.next[x] >= n
      <4>1. v = n - 1
        BY Zenon, <2>3, <3>1, <3>2
      <4> QED BY <1>0, <2>1, <3>1, <3>2, <4>1
    <3>3. CASE Holder(x, n - 1) /\ act[n - 1].plan.next[x] >= n
      <4>1. v = n - 1
        BY Zenon, <2>1, <2>3, <3>1, <3>3
      <4> QED BY <1>0, <2>1, <3>1, <3>3, <4>1
    <3>4. CASE ~load_en[n] /\ Holder(x, n)
      BY Zenon, <2>3, <3>1, <3>4
    <3> QED BY Zenon, <2>4, <3>2, <3>3, <3>4
  <2>6. writers(x) = {}
    BY Zenon, <2>5 DEF writers
  <2>7. state_reg'[x] = state_reg[x]
    BY Zenon, <2>6, StateWrite
  <2>8. CASE load_en[n - 1] /\ read_stage[x] = n - 1
    BY Zenon, <2>1, <2>7, <2>8, CarriedOn
  <2>9. CASE load_en[n - 1] /\ pipeline_valid[n - 1] /\ Holder(x, n - 1)
    <3>1. read_stage[x] < n - 1 /\ \A v \in next_stages[x] : n - 1 <= v
      BY <1>0, <1>2, <2>1, <2>9, PipelineAssumption DEF Holder, Stage
    <3>2. state_reg[x] = act[n - 1].st[x]
      BY Zenon, <2>1, <2>9, <3>1 DEF CarryInvariant
    <3>3. Carries(x, n)' = Carries(x, n - 1)
      BY Zenon, <2>1, <2>9, <3>1, CarriedOn DEF Carried, birth
    <3> QED BY Zenon, <2>7, <3>2, <3>3 DEF Carries
  <2>10. CASE ~load_en[n - 1] /\ pipeline_valid[n]
    <3>1. state_reg[x] = act[n].st[x]
      BY Zenon, <1>2, <2>10 DEF CarryInvariant
    <3> QED BY Zenon, <2>1, <2>7, <2>10, <3>1, CarriedOn
  <2> QED BY Zenon, <2>4, <2>8, <2>9, <2>10
<1> QED BY Zenon, <1>1, <1>2

--------------------------------------------------------------------------------
(***************************************************************************)
(* The activation in stage 0 has received and read nothing yet.            *)
(***************************************************************************)
FirstIsFresh == act[0] = Fresh(act[0].plan)

(***************************************************************************)
(* A stage without non-blocking receives whose inputs, states and          *)
(* successor are ready but that cannot finish (a consumer is not ready)    *)
(* shows the same data in the next cycle, and its successor is empty then. *)
(***************************************************************************)
LEMMA StalledStage ==
  ASSUME Edge, TokenInvariant, FirstIsFresh, EnvNext,
         NEW n \in Stage, \A d \in NonBlocking : recv_stage[d] # n,
         stage_valid(n), recvs_valid(n), next_stage_open(n), ~load_en[n]
  PROVE  /\ act'[n] = act[n]
         /\ Live(n)' = Live(n)
         /\ stage_valid(n)' /\ recvs_valid(n)'
         /\ n # Last => ~pipeline_valid'[n + 1]
         /\ \A c \in Outputs : send_stage[c] = n => (predicate(c)' <=> predicate(c))
<1> TypeInvariant /\ Load
  BY Zenon DEF Edge
<1>0. n \in Nat /\ 0 \in Stage /\ Last \in Nat
  BY PipelineAssumption DEF Stage
<1>1. pipeline_valid[n] /\ \A s \in States : read_stage[s] = n => reg_full[s]
  BY Zenon DEF stage_valid, states_valid
<1>2. pipeline_valid'[n] /\ act'[n] = act[n]
  <2>1. CASE n = 0
    <3>1. PICK p \in {act[0].plan} :
            act' = [i \in Stage |-> IF i = 0 THEN Fresh(p)
                              ELSE IF load_en[i - 1] THEN Live(i - 1)
                              ELSE act[i]]
      BY Zenon, <2>1 DEF Load
    <3>2. pipeline_valid' = [i \in Stage |->
            i = 0 \/ IF next_stage_open(i - 1) THEN stage_done(i - 1)
                                               ELSE pipeline_valid[i]]
      BY Zenon DEF Load
    <3>3. pipeline_valid'[0]
      BY Zenon, <1>0, <3>2
    <3> QED BY Zenon, <2>1, <3>1, <3>3 DEF FirstIsFresh
  <2>2. CASE n # 0
    <3>1. n - 1 \in Stage /\ n - 1 # Last /\ (n - 1) + 1 = n
      BY <1>0, <2>2, PipelineAssumption DEF Stage
    <3>2. ~next_stage_open(n - 1)
      BY Zenon, <1>1, <3>1 DEF next_stage_open
    <3>3. ~load_en[n - 1]
      BY Zenon, <3>1, <3>2, Movement DEF data_enable
    <3>4. pipeline_valid' = [i \in Stage |->
            i = 0 \/ IF next_stage_open(i - 1) THEN stage_done(i - 1)
                                               ELSE pipeline_valid[i]]
      BY Zenon DEF Load
    <3>5. pipeline_valid'[n]
      BY ZenonT(30), <1>1, <2>2, <3>2, <3>4
    <3>6. act'[n] = act[n]
      BY Zenon, <2>2, <3>3 DEF Load
    <3> QED BY Zenon, <3>5, <3>6
  <2> QED BY Zenon, <2>1, <2>2
<1>3. ASSUME NEW s \in States, read_stage[s] = n
      PROVE  reg_full'[s] /\ state_reg'[s] = state_reg[s]
  <2>1. ~data_enable(n)
    BY Zenon, Movement
  <2>2. \A w \in next_stages[s] : ~activated(s, w)
    <3> SUFFICES ASSUME NEW w \in next_stages[s], activated(s, w) PROVE FALSE
      BY Zenon
    <3>1. w \in Stage /\ load_en[w] /\ (w = read_stage[s] \/ Holder(s, w))
      BY Zenon, ActivatedBy
    <3> QED BY Zenon, <1>1, <1>3, <3>1 DEF TokenInvariant
  <2>3. writers(s) = {} /\ ~value_determined(s)
    BY Zenon, <2>2 DEF writers, value_determined
  <2>4. reg_full'[s] = reg_full[s]
    BY Zenon, <1>3, <2>1, <2>3 DEF Load, NextFull
  <2> QED BY Zenon, <1>1, <1>3, <2>3, <2>4, StateWrite
<1>4. ASSUME NEW c \in Inputs, recv_stage[c] = n, c \in act[n].plan.recvs
      PROVE  in_valid[c] /\ in_valid'[c] /\ in_data'[c] = in_data[c]
  <2>1. in_valid[c]
    BY Zenon, <1>4 DEF recvs_valid
  <2>2. ~in_ready(c) /\ ~rst
    BY Zenon, <1>4 DEF in_ready, Load
  <2> QED BY Zenon, <2>1, <2>2 DEF EnvNext
<1>5. \A c \in Inputs : Received(n, c)' = Received(n, c)
  BY Zenon, <1>2, <1>4 DEF Received
<1>6. Live(n)' = Live(n)
  <2>1. \A s \in States : (IF read_stage[s] = n THEN state_reg'[s] ELSE act'[n].st[s])
                           = (IF read_stage[s] = n THEN state_reg[s] ELSE act[n].st[s])
    BY Zenon, <1>2, <1>3
  <2>2. [c \in Inputs |-> Received(n, c)]' = [c \in Inputs |-> Received(n, c)]
    BY Zenon, <1>5
  <2> QED BY Zenon, <1>2, <2>1, <2>2 DEF Live
<1>7. stage_valid(n)' /\ recvs_valid(n)'
  BY Zenon, <1>2, <1>3, <1>4 DEF stage_valid, states_valid, recvs_valid
<1>8. ASSUME n # Last PROVE ~pipeline_valid'[n + 1]
  <2>1. n + 1 \in Stage /\ n + 1 # 0 /\ (n + 1) - 1 = n
    BY <1>0, <1>8, PipelineAssumption DEF Stage
  <2>2. ~stage_done(n)
    BY Zenon, Movement DEF data_enable
  <2>3. pipeline_valid' = [i \in Stage |->
          i = 0 \/ IF next_stage_open(i - 1) THEN stage_done(i - 1)
                                             ELSE pipeline_valid[i]]
    BY Zenon DEF Load
  <2> QED BY Zenon, <2>1, <2>2, <2>3
<1>9. ASSUME NEW c \in Outputs, send_stage[c] = n
      PROVE  predicate(c)' <=> predicate(c)
  <2>1. \A d \in NonBlocking : d \in Inputs
    BY Zenon, PipelineAssumption
  <2>2. {d \in NonBlocking : Received(n, d)' # None} = {d \in NonBlocking : Received(n, d) # None}
    BY Zenon, <1>5, <2>1
  <2> QED BY Zenon, <1>2, <1>9, <2>2 DEF predicate
<1> QED BY Zenon, <1>2, <1>6, <1>7, <1>8, <1>9

Alone(c) == \A d \in Outputs : send_stage[d] = send_stage[c] => d = c

(***************************************************************************)
(* What has_been_sent means: the activation in the stage has sent, with    *)
(* the data it still shows, and waits only for other consumers.            *)
(***************************************************************************)
SentInvariant ==
  \A c \in Outputs :
    LET n == send_stage[c]
    IN  IF has_been_sent[c]
        THEN /\ ~Alone(c) /\ delivered[c] = <<Live(n)>>
             /\ stage_valid(n) /\ recvs_valid(n) /\ predicate(c)
             /\ n # Last => ~pipeline_valid[n + 1]
        ELSE delivered[c] = <<>>

(***************************************************************************)
(* A clock edge without reset keeps has_been_sent in step with what the    *)
(* consumer of the output has taken from the activation in the stage.      *)
(***************************************************************************)
LEMMA SentLoad ==
  ASSUME \A c \in Outputs : Settled(c) \/ Alone(c), OneShot, Edge, TokenInvariant,
         FirstIsFresh, SentInvariant, EnvNext
  PROVE  SentInvariant'
<1> TypeInvariant /\ Load
  BY Zenon DEF Edge
<1> SUFFICES ASSUME NEW c \in Outputs
    PROVE IF has_been_sent'[c]
          THEN /\ ~Alone(c) /\ delivered'[c] = <<Live(send_stage[c])'>>
               /\ stage_valid(send_stage[c])' /\ recvs_valid(send_stage[c])'
               /\ predicate(c)'
               /\ send_stage[c] # Last => ~pipeline_valid'[send_stage[c] + 1]
          ELSE delivered'[c] = <<>>
  BY Zenon DEF SentInvariant
<1> DEFINE n == send_stage[c]
<1>0. n \in Stage
  BY Zenon, PipelineAssumption
<1>1. load_en[n] <=> data_enable(n)
  BY Zenon, <1>0, Movement
<1>2. delivered'[c] = IF load_en[n] THEN <<>> ELSE Delivered(c)
  BY Zenon, <1>1 DEF Load, HistoryNext
<1>3. has_been_sent'[c] <=> NextSent(c)
  BY Zenon DEF Load
<1>4. IF has_been_sent[c]
      THEN /\ ~Alone(c) /\ delivered[c] = <<Live(n)>>
           /\ stage_valid(n) /\ recvs_valid(n) /\ predicate(c)
           /\ n # Last => ~pipeline_valid[n + 1]
      ELSE delivered[c] = <<>>
  BY Zenon DEF SentInvariant
<1>5. CASE load_en[n]
  <2>1. sends_ready(n) /\ recvs_valid(n) /\ stage_valid(n) /\ next_stage_open(n)
    BY Zenon, <1>1, <1>5 DEF data_enable, stage_done
  <2>2. ~NextSent(c)
    BY Zenon, <1>4, <2>1 DEF NextSent, from_valid, valid_and_ready_txfr, out_valid
  <2> QED BY Zenon, <1>2, <1>3, <1>5, <2>2
<1>6. CASE ~load_en[n]
  <2>1. ~(from_valid(c) /\ sends_ready(n))
    BY Zenon, <1>1, <1>6 DEF from_valid, data_enable, stage_done
  <2>2. NextSent(c) <=> (valid_and_ready_txfr(c) \/ has_been_sent[c])
    BY Zenon, <2>1 DEF NextSent, TypeInvariant
  <2>3. CASE ~NextSent(c)
    BY Zenon, <1>2, <1>3, <1>4, <1>6, <2>2, <2>3 DEF Delivered
  <2>4. CASE NextSent(c)
    <3>1. stage_valid(n) /\ recvs_valid(n) /\ next_stage_open(n) /\ predicate(c)
      BY Zenon, <1>4, <2>2, <2>4 DEF valid_and_ready_txfr, out_valid, from_valid, next_stage_open
    <3>2. Delivered(c) = <<Live(n)>>
      <4>1. CASE has_been_sent[c]
        BY Zenon, <1>4, <4>1 DEF Delivered, valid_and_ready_txfr, out_valid
      <4>2. CASE ~has_been_sent[c]
        <5>1. valid_and_ready_txfr(c) /\ delivered[c] = <<>>
          BY Zenon, <1>4, <2>2, <2>4, <4>2
        <5> QED BY <5>1 DEF Delivered
      <4> QED BY Zenon, <4>1, <4>2
    <3>3. ~Alone(c)
      <4>1. ASSUME Alone(c) PROVE ~valid_and_ready_txfr(c)
        BY Zenon, <2>1, <4>1 DEF Alone, sends_ready, has_sent_or_is_ready, valid_and_ready_txfr,
           out_valid
      <4> QED BY Zenon, <1>4, <2>2, <2>4, <4>1
    <3>4. /\ Live(n)' = Live(n)
          /\ stage_valid(n)' /\ recvs_valid(n)' /\ predicate(c)'
          /\ n # Last => ~pipeline_valid'[n + 1]
      BY Zenon, <1>0, <1>6, <3>1, <3>3, StalledStage DEF Settled
    <3> QED BY Zenon, <1>2, <1>3, <1>6, <2>4, <3>2, <3>3, <3>4
  <2> QED BY Zenon, <2>3, <2>4
<1> QED BY Zenon, <1>5, <1>6

--------------------------------------------------------------------------------
(***************************************************************************)
(* The data visible in a stage, and what may be latched, are activations.  *)
(***************************************************************************)
LEMMA LiveType ==
  ASSUME TypeInvariant, NEW n \in Stage
  PROVE  Live(n) \in Activation
BY PipelineAssumption DEF TypeInvariant, PortsType, Live, Received, Activation

(***************************************************************************)
(* A new activation is an activation.                                      *)
(***************************************************************************)
LEMMA FreshType ==
  ASSUME NEW p \in Plans
  PROVE  Fresh(p) \in Activation
BY Zenon, PipelineAssumption DEF Fresh, Activation

(***************************************************************************)
(* A register keeps its type when it loads.                                *)
(***************************************************************************)
LEMMA TypeStep == TypeInvariant /\ [Next]_vars => TypeInvariant'
<1> SUFFICES ASSUME TypeInvariant, [Next]_vars PROVE TypeInvariant'
  BY Zenon
<1>1. CASE UNCHANGED vars
  <2>1. /\ act' = act /\ pipeline_valid' = pipeline_valid /\ state_reg' = state_reg
        /\ reg_full' = reg_full /\ has_been_sent' = has_been_sent /\ load_en' = load_en
        /\ in_valid' = in_valid /\ in_data' = in_data /\ out_ready' = out_ready
        /\ rst' = rst /\ delivered' = delivered /\ ref_state' = ref_state
    BY Zenon, <1>1 DEF vars, ports, history
  <2>2. \A n \in Stage : data_enable(n)' = data_enable(n)
    BY Zenon, <2>1 DEF data_enable, next_stage_open, stage_done, stage_valid, states_valid,
       recvs_valid, sends_ready, predicate, Received, has_sent_or_is_ready
  <2>3. FlowControl'
    BY Zenon, <2>1, <2>2 DEF FlowControl, TypeInvariant
  <2> QED BY Zenon, <2>1, <2>3 DEF TypeInvariant, PortsType
<1>2. CASE Next
  <2>1. load_en' \in [Stage -> BOOLEAN] /\ FlowControl' /\ PortsType'
    BY Zenon, <1>2 DEF Next, EnvNext, PortsType
  <2>2. CASE Reset
    <3>1. act' \in [Stage -> Activation]
      <4>1. PICK p \in Plans :
              act' = [n \in Stage |-> IF n = 0 THEN Fresh(p)
                              ELSE IF reset_data_path THEN Fresh(ResetPlan)
                              ELSE Live(n - 1)]
        BY Zenon, <2>2 DEF Reset
      <4>2. \A n \in Stage : n # 0 => n - 1 \in Stage
        BY PipelineAssumption DEF Stage
      <4>3. \A n \in Stage : n # 0 => Live(n - 1) \in Activation
        BY Zenon, <4>2, LiveType
      <4> QED BY Zenon, <4>1, <4>3, FreshType, PipelineAssumption
    <3>2. delivered' \in [Outputs -> Seq(Activation)]
      BY <2>2 DEF Reset
    <3>3. pipeline_valid' \in [Stage -> BOOLEAN] /\ pipeline_valid'[0]
      <4>1. 0 \in Stage
        BY PipelineAssumption DEF Stage
      <4>2. pipeline_valid' = [n \in Stage |-> n = 0]
        BY Zenon, <2>2 DEF Reset
      <4> QED BY Zenon, <4>1, <4>2
    <3>4. reg_full' \in [States -> BOOLEAN] /\ has_been_sent' \in [Outputs -> BOOLEAN]
      BY Zenon, <2>2 DEF Reset
    <3>5. state_reg' \in [States -> Values] /\ ref_state' \in [States -> Values]
      BY Zenon, <2>2, PipelineAssumption DEF Reset
    <3> QED BY Zenon, <2>1, <3>1, <3>2, <3>3, <3>4, <3>5 DEF TypeInvariant
  <2>3. CASE Load
    <3>1. act' \in [Stage -> Activation]
      <4>0. 0 \in Stage
        BY PipelineAssumption DEF Stage
      <4>1. PICK p \in Plans :
              act' = [n \in Stage |-> IF n = 0 THEN Fresh(p)
                              ELSE IF load_en[n - 1] THEN Live(n - 1)
                              ELSE act[n]]
        BY Zenon, <2>3, <4>0, PlanFacts DEF Load
      <4>2. \A n \in Stage : n # 0 => n - 1 \in Stage
        BY PipelineAssumption DEF Stage
      <4>3. \A n \in Stage : n # 0 => Live(n - 1) \in Activation
        BY Zenon, <4>2, LiveType
      <4> QED BY Zenon, <4>1, <4>3, FreshType DEF TypeInvariant
    <3>2. \A c \in Outputs : Delivered(c) \in Seq(Activation)
      <4> TAKE c \in Outputs
      <4>1. Live(send_stage[c]) \in Activation
        BY Zenon, LiveType, PipelineAssumption
      <4> QED BY <4>1 DEF Delivered, TypeInvariant
    <3>3. delivered' \in [Outputs -> Seq(Activation)]
      BY <2>3, <3>2 DEF Load, HistoryNext
    <3>4. ref_state' \in [States -> Values]
      BY <2>3, PipelineAssumption DEF Load, HistoryNext, TypeInvariant, Activation, PlanType
    <3>5. /\ pipeline_valid' \in [Stage -> BOOLEAN] /\ pipeline_valid'[0]
          /\ reg_full' \in [States -> BOOLEAN]
          /\ has_been_sent' \in [Outputs -> BOOLEAN]
      <4>1. 0 \in Stage
        BY PipelineAssumption DEF Stage
      <4>2. pipeline_valid' = [n \in Stage |->
              n = 0 \/ IF next_stage_open(n - 1) THEN stage_done(n - 1)
                                                 ELSE pipeline_valid[n]]
        BY Zenon, <2>3 DEF Load
      <4>3. \A n \in Stage : (n = 0 \/ IF next_stage_open(n - 1) THEN stage_done(n - 1)
                                                 ELSE pipeline_valid[n]) \in BOOLEAN
        BY Zenon
      <4>4. \A s \in States : NextFull(s) \in BOOLEAN
        BY Zenon DEF NextFull, value_determined, TypeInvariant
      <4>5. \A c \in Outputs : NextSent(c) \in BOOLEAN
        BY Zenon DEF NextSent, TypeInvariant
      <4> QED BY Zenon, <2>3, <4>1, <4>2, <4>3, <4>4, <4>5 DEF Load
    <3> QED BY Zenon, <2>1, <2>3, <3>1, <3>3, <3>4, <3>5 DEF Load, TypeInvariant
  <2> QED BY Zenon, <1>2, <2>2, <2>3 DEF Next
<1> QED BY Zenon, <1>1, <1>2

(***************************************************************************)
(* Registers and ports always have their types, for every pipeline.        *)
(***************************************************************************)
THEOREM TypeCorrect == Spec => []TypeInvariant
<1>1. Init => TypeInvariant
  <2> SUFFICES ASSUME Init PROVE TypeInvariant
    BY Zenon
  <2>1. 0 \in Stage
    BY PipelineAssumption DEF Stage
  <2>2. act \in [Stage -> Activation]
    BY FreshType, PipelineAssumption DEF Init
  <2>3. pipeline_valid \in [Stage -> BOOLEAN] /\ pipeline_valid[0]
    BY Zenon, <2>1 DEF Init
  <2>4. reg_full \in [States -> BOOLEAN] /\ has_been_sent \in [Outputs -> BOOLEAN]
    BY Zenon DEF Init
  <2>5. delivered \in [Outputs -> Seq(Activation)]
    BY DEF Init
  <2>6. state_reg \in [States -> Values] /\ ref_state \in [States -> Values]
    BY Zenon, PipelineAssumption DEF Init
  <2>7. PortsType /\ load_en \in [Stage -> BOOLEAN] /\ FlowControl
    BY Zenon DEF Init
  <2> QED BY Zenon, <2>2, <2>3, <2>4, <2>5, <2>6, <2>7 DEF TypeInvariant
<1> QED BY <1>1, TypeStep, PTL DEF Spec

--------------------------------------------------------------------------------
(***************************************************************************)
(* The state token exists initially, after a reset, and ever after.        *)
(***************************************************************************)
LEMMA TokenStart ==
  ASSUME pipeline_valid = [n \in Stage |-> n = 0], state_reg = InitValue,
         ref_state = InitValue
  PROVE  TokenInvariant
<1>1. \A s \in States : read_stage[s] \in Nat
  BY PipelineAssumption DEF Stage
<1>2. ASSUME NEW s \in States, NEW m \in Stage, Holder(s, m) PROVE FALSE
  <2>1. pipeline_valid[m] <=> m = 0
    BY Zenon
  <2> QED BY <1>1, <1>2, <2>1 DEF Holder
<1> QED BY Zenon, <1>2 DEF TokenInvariant

(***************************************************************************)
(* Every clock edge, with or without reset, preserves the token invariant: *)
(* the full bit and the activations in flight keep one token per state     *)
(* element.                                                                *)
(***************************************************************************)
LEMMA TokenStep ==
  TypeInvariant /\ TypeInvariant' /\ TokenInvariant /\ [Next]_vars => TokenInvariant'
<1> SUFFICES ASSUME TypeInvariant, TypeInvariant', TokenInvariant, [Next]_vars
             PROVE  TokenInvariant'
  BY Zenon
<1>1. CASE UNCHANGED vars
  <2>1. /\ act' = act /\ pipeline_valid' = pipeline_valid /\ state_reg' = state_reg
        /\ reg_full' = reg_full /\ ref_state' = ref_state
    BY Zenon, <1>1 DEF vars, history
  <2> QED BY Zenon, <2>1 DEF TokenInvariant, Holder, NextOf
<1>2. CASE Next /\ Reset
  <2>1. pipeline_valid' = [n \in Stage |-> n = 0]
    BY Zenon, <1>2 DEF Reset
  <2>2. state_reg' = InitValue /\ ref_state' = InitValue
    BY Zenon, <1>2 DEF Reset
  <2>3. \A s \in States : read_stage[s] \in Nat
    BY PipelineAssumption DEF Stage
  <2>4. ASSUME NEW s \in States, NEW m \in Stage, Holder(s, m)' PROVE FALSE
    <3>1. pipeline_valid'[m] <=> m = 0
      BY Zenon, <2>1
    <3> QED BY <2>3, <2>4, <3>1 DEF Holder
  <2> QED BY Zenon, <2>2, <2>4 DEF TokenInvariant
<1>3. CASE Next /\ Load
  BY Zenon, <1>3, TokenLoad DEF Edge
<1> QED BY Zenon, <1>1, <1>2, <1>3 DEF Next

(***************************************************************************)
(* The token invariant holds in every cycle of the generated pipeline.     *)
(***************************************************************************)
LEMMA TokenAlways == Spec => []TokenInvariant
<1>1. Init => TokenInvariant
  <2> SUFFICES ASSUME Init PROVE TokenInvariant
    BY Zenon
  <2>1. pipeline_valid = [n \in Stage |-> n = 0]
    BY Zenon DEF Init
  <2>2. state_reg = InitValue /\ ref_state = InitValue
    BY Zenon DEF Init
  <2> QED BY Zenon, <2>1, <2>2, TokenStart
<1> QED BY <1>1, TokenStep, TypeCorrect, PTL DEF Spec

(***************************************************************************)
(* Every activation reads each state element as its predecessor left it.   *)
(***************************************************************************)
THEOREM StateIsFedBack == Spec => []StateFeedback
<1>1. TypeInvariant /\ TokenInvariant => StateFeedback
  BY Zenon DEF TokenInvariant, StateFeedback, stage_valid, states_valid
<1> QED BY <1>1, TypeCorrect, TokenAlways, PTL

(***************************************************************************)
(* The stages that CalculateConcurrentGroupsFromStateWrites marks mutually *)
(* exclusive never hold active activations in the same cycle.              *)
(***************************************************************************)
THEOREM ExclusiveStages == Spec => []StagesExclusive
<1>1. TypeInvariant /\ TokenInvariant => StagesExclusive
  <2> SUFFICES ASSUME TypeInvariant, TokenInvariant,
                      NEW i \in Stage, NEW j \in Stage, MutuallyExclusive(i, j),
                      stage_valid(i), stage_valid(j)
               PROVE  FALSE
    BY Zenon DEF StagesExclusive
  <2>1. PICK s \in States : read_stage[s] <= i /\ i < j /\ \A w \in next_stages[s] : j <= w
    BY Zenon DEF MutuallyExclusive
  <2>2. i \in Nat /\ j \in Nat /\ read_stage[s] \in Nat
    BY PipelineAssumption DEF Stage
  <2>3. pipeline_valid[i] /\ pipeline_valid[j]
    BY Zenon DEF stage_valid
  <2>4. act[i].plan.next[s] \in next_stages[s] /\ act[j].plan.next[s] \in next_stages[s]
    BY Zenon, PlanFacts, PipelineAssumption
  <2>5. act[i].plan.next[s] \in Nat /\ act[j].plan.next[s] \in Nat
    BY <2>4, PipelineAssumption DEF Stage
  <2>6. Holder(s, j)
    BY <2>1, <2>2, <2>3, <2>4, <2>5 DEF Holder
  <2>7. CASE read_stage[s] = i
    BY Zenon, <2>6, <2>7 DEF TokenInvariant, stage_valid, states_valid
  <2>8. CASE read_stage[s] # i
    <3>1. read_stage[s] < i /\ i <= act[i].plan.next[s]
      BY <2>1, <2>2, <2>4, <2>5, <2>8
    <3>2. Holder(s, i)
      BY Zenon, <2>3, <3>1 DEF Holder
    <3> QED BY <2>1, <2>2, <2>6, <3>2 DEF TokenInvariant
  <2> QED BY Zenon, <2>7, <2>8
<1> QED BY <1>1, TypeCorrect, TokenAlways, PTL

--------------------------------------------------------------------------------
(***************************************************************************)
(* The first stage has no pipeline register before it, so what is in it    *)
(* has been registered nowhere: it is fresh in every cycle.                *)
(***************************************************************************)
LEMMA FreshAlways == Spec => []FirstIsFresh
<1>1. Init => FirstIsFresh
  <2> SUFFICES ASSUME Init PROVE FirstIsFresh
    BY Zenon
  <2>1. 0 \in Stage
    BY PipelineAssumption DEF Stage
  <2>2. \E p \in Plans : act[0] = Fresh(p)
    BY Zenon, <2>1 DEF Init
  <2> QED BY <2>2 DEF FirstIsFresh, Fresh
<1>2. FirstIsFresh /\ [Next]_vars => FirstIsFresh'
  <2> SUFFICES ASSUME FirstIsFresh, [Next]_vars PROVE FirstIsFresh'
    BY Zenon
  <2>1. 0 \in Stage
    BY PipelineAssumption DEF Stage
  <2>2. CASE UNCHANGED vars
    BY Zenon, <2>2 DEF vars, FirstIsFresh, Fresh
  <2>3. CASE Next
    <3>1. \E p : act'[0] = Fresh(p)
      BY Zenon, <2>1, <2>3 DEF Next, Reset, Load
    <3> QED BY <3>1 DEF FirstIsFresh, Fresh
  <2> QED BY Zenon, <2>2, <2>3
<1> QED BY <1>1, <1>2, PTL DEF Spec

(***************************************************************************)
(* An offer on an output is never withdrawn or changed before it is taken, *)
(* unless the stage has a non-blocking receive.                            *)
(***************************************************************************)
THEOREM OutputsAreHeld == Spec => OutputHeld
<1> DEFINE Held(c) == Settled(c) /\ out_valid(c) /\ ~out_ready[c] /\ ~rst =>
                        out_valid(c)' /\ Live(send_stage[c])' = Live(send_stage[c])
<1>1. ASSUME TypeInvariant, TokenInvariant, FirstIsFresh, [Next]_vars
      PROVE  [\A c \in Outputs : Held(c)]_vars
  <2> SUFFICES ASSUME Next, NEW c \in Outputs, Settled(c), out_valid(c), ~out_ready[c], ~rst
               PROVE  out_valid(c)' /\ Live(send_stage[c])' = Live(send_stage[c])
    BY Zenon, <1>1
  <2> DEFINE n == send_stage[c]
  <2>1. n \in Stage /\ Load /\ EnvNext
    BY Zenon, PipelineAssumption DEF Next, Reset
  <2>2. /\ stage_valid(n) /\ recvs_valid(n) /\ next_stage_open(n) /\ predicate(c)
        /\ ~has_been_sent[c]
    BY Zenon DEF out_valid, from_valid
  <2>3. ~sends_ready(n)
    BY Zenon, <2>2 DEF sends_ready, has_sent_or_is_ready
  <2>4. ~load_en[n]
    BY Zenon, <1>1, <2>1, <2>3, Movement DEF Edge, data_enable, stage_done
  <2>5. /\ Live(n)' = Live(n)
        /\ stage_valid(n)' /\ recvs_valid(n)' /\ predicate(c)'
        /\ n # Last => ~pipeline_valid'[n + 1]
    BY ZenonT(30), <1>1, <2>1, <2>2, <2>4, StalledStage DEF Edge, Settled
  <2>6. ~has_been_sent'[c]
    BY ZenonT(30), <2>1, <2>2, <2>3 DEF Load, NextSent, valid_and_ready_txfr
  <2>7. next_stage_open(n)'
    BY Zenon, <2>5 DEF next_stage_open
  <2> QED BY Zenon, <2>5, <2>6, <2>7 DEF out_valid, from_valid
<1>2. Spec => [][\A c \in Outputs : Held(c)]_vars
  BY <1>1, TypeCorrect, TokenAlways, FreshAlways, PTL DEF Spec
<1> QED BY Zenon, <1>2 DEF OutputHeld

(***************************************************************************)
(* Where no stage with several sends receives without blocking, the one-   *)
(* shot logic makes every stage atomic: whatever the order in which        *)
(* consumers become ready, each enabled send happens exactly once, with    *)
(* the data the stage hands on.                                            *)
(***************************************************************************)
THEOREM StagesAreAtomic ==
  ASSUME \A c \in Outputs : Settled(c) \/ Alone(c), OneShot
  PROVE  Spec => []StageAtomic
<1>1. Init => SentInvariant
  BY Zenon DEF Init, SentInvariant
<1>2. TypeInvariant /\ TokenInvariant /\ FirstIsFresh /\ SentInvariant /\ [Next]_vars
        => SentInvariant'
  <2> SUFFICES ASSUME TypeInvariant, TokenInvariant, FirstIsFresh, SentInvariant, [Next]_vars
               PROVE  SentInvariant'
    BY Zenon
  <2>1. CASE UNCHANGED vars
    <3>1. /\ act' = act /\ pipeline_valid' = pipeline_valid /\ state_reg' = state_reg
          /\ reg_full' = reg_full /\ has_been_sent' = has_been_sent
          /\ in_valid' = in_valid /\ in_data' = in_data /\ delivered' = delivered
      BY Zenon, <2>1 DEF vars, ports, history
    <3>2. ASSUME NEW n PROVE Live(n)' = Live(n)
      BY Zenon, <3>1 DEF Live, Received
    <3>3. ASSUME NEW n PROVE /\ stage_valid(n)' <=> stage_valid(n)
                             /\ recvs_valid(n)' <=> recvs_valid(n)
      BY Zenon, <3>1 DEF stage_valid, states_valid, recvs_valid
    <3>4. ASSUME NEW c PROVE predicate(c)' <=> predicate(c)
      BY Zenon, <3>1 DEF predicate, Received
    <3> QED BY Zenon, <3>1, <3>2, <3>3, <3>4 DEF SentInvariant
  <2>2. CASE Next /\ Reset
    BY Zenon, <2>2 DEF Reset, SentInvariant
  <2>3. CASE Next /\ Load
    BY Zenon, <2>3, SentLoad DEF Edge, Next
  <2> QED BY Zenon, <2>1, <2>2, <2>3 DEF Next
<1>3. TypeInvariant /\ SentInvariant => StageAtomic
  <2> SUFFICES ASSUME TypeInvariant, SentInvariant, NEW c \in Outputs,
                      data_enable(send_stage[c])
               PROVE  Delivered(c) = IF predicate(c) THEN <<Live(send_stage[c])>> ELSE <<>>
    BY Zenon DEF StageAtomic
  <2> DEFINE n == send_stage[c]
  <2>1. sends_ready(n) /\ recvs_valid(n) /\ stage_valid(n) /\ next_stage_open(n)
    BY Zenon DEF data_enable, stage_done
  <2>2. CASE has_been_sent[c]
    BY Zenon, <2>2 DEF SentInvariant, Delivered, valid_and_ready_txfr, out_valid
  <2>3. CASE ~has_been_sent[c]
    <3>1. delivered[c] = <<>>
      BY Zenon, <2>3 DEF SentInvariant
    <3>2. CASE predicate(c)
      <4>1. valid_and_ready_txfr(c)
        BY Zenon, <2>1, <2>3, <3>2 DEF valid_and_ready_txfr, out_valid, from_valid, sends_ready,
           has_sent_or_is_ready
      <4> QED BY <3>1, <3>2, <4>1 DEF Delivered
    <3>3. CASE ~predicate(c)
      BY Zenon, <3>1, <3>3 DEF Delivered, valid_and_ready_txfr, out_valid, from_valid
    <3> QED BY Zenon, <3>2, <3>3
  <2> QED BY Zenon, <2>2, <2>3
<1> QED BY <1>1, <1>2, <1>3, TypeCorrect, TokenAlways, FreshAlways, PTL DEF Spec

--------------------------------------------------------------------------------
(***************************************************************************)
(* Every reachable state of the pipeline satisfies the invariant; after a  *)
(* reset only the first stage holds an activation, and it carries nothing. *)
(***************************************************************************)
LEMMA CarryAlways == Spec => []CarryInvariant
<1>1. ASSUME TypeInvariant, pipeline_valid = [n \in Stage |-> n = 0] PROVE CarryInvariant
  <2>1. \A n \in Stage : pipeline_valid[n] => n = 0
    BY Zenon, <1>1
  <2>2. \A x \in States : read_stage[x] \in Nat
    BY PipelineAssumption DEF Stage
  <2>3. \A w \in Stage : ~MutuallyExclusive(w, 0)
    BY PipelineAssumption DEF MutuallyExclusive, Stage
  <2> QED BY <2>1, <2>2, <2>3 DEF CarryInvariant
<1>2. Init /\ TypeInvariant => CarryInvariant
  BY Zenon, <1>1 DEF Init
<1>3. TypeInvariant /\ TypeInvariant' /\ TokenInvariant /\ CarryInvariant /\ [Next]_vars
        => CarryInvariant'
  <2> SUFFICES ASSUME TypeInvariant, TypeInvariant', TokenInvariant, CarryInvariant, [Next]_vars
               PROVE  CarryInvariant'
    BY Zenon
  <2>1. CASE UNCHANGED vars
    BY <2>1 DEF vars, CarryInvariant, Carries, MutuallyExclusive, birth
  <2>2. CASE Reset
    <3>1. pipeline_valid' = [n \in Stage |-> n = 0]
      BY Zenon, <2>2 DEF Reset
    <3>2. \A n \in Stage : pipeline_valid'[n] => n = 0
      BY Zenon, <3>1
    <3>3. \A x \in States : read_stage[x] \in Nat
      BY PipelineAssumption DEF Stage
    <3>4. \A w \in Stage : ~MutuallyExclusive(w, 0)
      BY PipelineAssumption DEF MutuallyExclusive, Stage
    <3> QED BY <3>2, <3>3, <3>4 DEF CarryInvariant, MutuallyExclusive, birth
  <2>3. CASE Load
    BY Zenon, <2>3, CarryLoad DEF Edge
  <2> QED BY Zenon, <2>1, <2>2, <2>3 DEF Next
<1> QED BY <1>2, <1>3, TypeCorrect, TokenAlways, PTL DEF Spec

(***************************************************************************)
(* Register combining is correct whenever its groups meet the condition in *)
(* the comment on RegisterChains: the stage that reads a removed register  *)
(* sees in the first register of the group what it would have read.        *)
(***************************************************************************)
THEOREM RegisterCombiningIsCorrect ==
  ASSUME GroupsLoadedAfterRead
  PROVE  Spec => []MergedRegistersAgree
<1>1. CarryInvariant => MergedRegistersAgree
  <2> SUFFICES ASSUME CarryInvariant, NEW group \in mutex_chains, NEW i \in DOMAIN group,
                      stage_valid(group[i].read_stage)
               PROVE  Contents(front(group)) = Contents(group[i])
    BY Zenon DEF MergedRegistersAgree
  <2> DEFINE first == front(group)
             reg == group[i]
             x == reg.value
  <2>1. SUFFICES ASSUME LoadedAfterRead(first, reg) PROVE Contents(first) = Contents(reg)
    BY Zenon DEF GroupsLoadedAfterRead
  <2> HIDE DEF first, reg
  <2>2. pipeline_valid[reg.read_stage]
    BY Zenon DEF stage_valid, reg
  <2>3. /\ x \in Carried /\ first.value = x /\ reg.read_stage \in Stage
        /\ birth(x) < reg.read_stage /\ reg.write_stage = reg.read_stage - 1
    BY Zenon, <2>1 DEF LoadedAfterRead
  <2>4. ~(reg.read_stage <= reg.write_stage)
    BY <2>3, PipelineAssumption DEF Stage
  <2>5. Contents(reg) = Carries(x, reg.read_stage)
    BY Zenon, <2>4 DEF Contents, Carries
  <2>6. CASE /\ x \in States /\ first.read_stage <= first.write_stage
             /\ \A w \in next_stages[x] : reg.read_stage <= w
    <3>1. state_reg[x] = act[reg.read_stage].st[x]
      BY Zenon, <2>2, <2>3, <2>6 DEF CarryInvariant, birth
    <3> QED BY Zenon, <2>3, <2>5, <2>6, <3>1 DEF Contents, Carries
  <2>7. CASE /\ first.write_stage \in Stage /\ first.read_stage = first.write_stage + 1
             /\ birth(x) <= first.write_stage
             /\ MutuallyExclusive(first.write_stage, reg.read_stage)
    <3>1. Carries(x, first.write_stage + 1) = Carries(x, reg.read_stage)
      BY Zenon, <2>2, <2>3, <2>7 DEF CarryInvariant
    <3>2. ~(first.read_stage <= first.write_stage)
      BY <2>7, PipelineAssumption DEF Stage
    <3> QED BY Zenon, <2>3, <2>5, <2>7, <3>1, <3>2 DEF Contents, Carries
  <2> QED BY Zenon, <2>1, <2>6, <2>7 DEF LoadedAfterRead
<1> QED BY <1>1, CarryAlways, PTL

--------------------------------------------------------------------------------
(***************************************************************************)
(* A state element whose register is not full is held by an activation     *)
(* that read it: a token is never lost.                                    *)
(***************************************************************************)
HeldInvariant == \A s \in States : ~reg_full[s] => \E m \in Stage : Holder(s, m)

(***************************************************************************)
(* Without reset, an activation whose stage is enabled is in the next      *)
(* stage after the clock edge, and one whose stage is not stays where it   *)
(* is.                                                                     *)
(***************************************************************************)
LEMMA MovesOrStays ==
  ASSUME Edge, NEW n \in Stage
  PROVE  /\ load_en[n] /\ n # Last => /\ n + 1 \in Stage /\ pipeline_valid'[n + 1]
                                      /\ act'[n + 1].plan = act[n].plan
         /\ pipeline_valid[n] /\ ~load_en[n] /\ n # 0 => /\ pipeline_valid'[n]
                                                         /\ act'[n].plan = act[n].plan
<1> TypeInvariant /\ Load
  BY Zenon DEF Edge
<1>1. pipeline_valid' = [i \in Stage |->
         i = 0 \/ IF next_stage_open(i - 1) THEN stage_done(i - 1)
                                            ELSE pipeline_valid[i]]
  BY Zenon DEF Load
<1>2. ASSUME load_en[n], n # Last
      PROVE  /\ n + 1 \in Stage /\ pipeline_valid'[n + 1]
             /\ act'[n + 1].plan = act[n].plan
  <2>1. n + 1 \in Stage /\ n + 1 # 0 /\ (n + 1) - 1 = n
    BY <1>2, PipelineAssumption DEF Stage
  <2>2. next_stage_open(n) /\ stage_done(n)
    BY Zenon, <1>2, Movement DEF data_enable
  <2>3. pipeline_valid'[n + 1] <=>
          IF next_stage_open((n + 1) - 1) THEN stage_done((n + 1) - 1) ELSE pipeline_valid[n + 1]
    BY Zenon, <1>1, <2>1
  <2>4. act'[n + 1].plan = IF load_en[(n + 1) - 1] THEN act[(n + 1) - 1].plan
                                                   ELSE act[n + 1].plan
    BY Zenon, <2>1, Movement
  <2>5. act'[n + 1].plan = act[n].plan
    BY Zenon, <1>2, <2>1, <2>4
  <2> QED BY Zenon, <2>1, <2>2, <2>3, <2>5
<1>3. ASSUME pipeline_valid[n], ~load_en[n], n # 0
      PROVE  pipeline_valid'[n] /\ act'[n].plan = act[n].plan
  <2>1. n - 1 \in Stage /\ n - 1 # Last /\ (n - 1) + 1 = n
    BY <1>3, PipelineAssumption DEF Stage
  <2>2. ~next_stage_open(n - 1)
    BY Zenon, <1>3, <2>1 DEF next_stage_open
  <2>3. ~load_en[n - 1]
    BY Zenon, <2>1, <2>2, Movement DEF data_enable
  <2>4. act'[n].plan = act[n].plan
    BY Zenon, <1>3, <2>3, Movement
  <2>5. pipeline_valid'[n] <=>
          n = 0 \/ IF next_stage_open(n - 1) THEN stage_done(n - 1) ELSE pipeline_valid[n]
    BY Zenon, <1>1
  <2> QED BY Zenon, <1>3, <2>2, <2>4, <2>5
<1> QED BY Zenon, <1>2, <1>3

(***************************************************************************)
(* An activation that leaves stage n with a next value of s still to come  *)
(* holds s in the next stage.                                              *)
(***************************************************************************)
LEMMA TakesAlong ==
  ASSUME Edge, NEW s \in States, NEW n \in Stage, read_stage[s] <= n, load_en[n],
         n <= act[n].plan.next[s], ~value_determined(s)
  PROVE  n + 1 \in Stage /\ Holder(s, n + 1)'
<1> TypeInvariant /\ Load
  BY Zenon DEF Edge
<1> DEFINE k == act[n].plan.next[s]
<1>1. k \in next_stages[s] /\ k \in Stage
  BY Zenon, PlanFacts, PipelineAssumption
<1>2. k # n
  <2>1. data_enable(n)
    BY Zenon, Movement
  <2> QED BY Zenon, <1>1, <2>1 DEF value_determined, activated
<1>3. n \in Nat /\ k \in Nat /\ read_stage[s] \in Nat /\ k <= Last /\ Last \in Nat
  BY <1>1, PipelineAssumption DEF Stage
<1> HIDE DEF k
<1>4. n <= k
  BY Zenon DEF k
<1>5. n # Last /\ read_stage[s] < n + 1 /\ n + 1 <= k
  BY <1>2, <1>3, <1>4
<1>6. n + 1 \in Stage /\ pipeline_valid'[n + 1] /\ act'[n + 1].plan = act[n].plan
  BY Zenon, <1>5, MovesOrStays
<1> QED BY Zenon, <1>5, <1>6 DEF Holder, k

(***************************************************************************)
(* No clock edge loses a token.                                            *)
(***************************************************************************)
LEMMA HeldLoad ==
  ASSUME Edge, HeldInvariant
  PROVE  HeldInvariant'
<1> TypeInvariant /\ Load
  BY Zenon DEF Edge
<1> SUFFICES ASSUME NEW s \in States, ~reg_full'[s]
             PROVE  \E m \in Stage : Holder(s, m)'
  BY Zenon DEF HeldInvariant
<1> DEFINE r == read_stage[s]
<1>1. r \in Stage /\ r \in Nat /\ r <= r
  BY PipelineAssumption DEF Stage
<1>2. ~value_determined(s) /\ (load_en[r] \/ ~reg_full[s])
  <2>1. reg_full'[s] = NextFull(s)
    BY Zenon DEF Load
  <2>2. load_en[r] <=> data_enable(r)
    BY Zenon, <1>1, Movement
  <2> QED BY Zenon, <2>1, <2>2 DEF NextFull
<1>3. CASE load_en[r]
  <2>1. r <= act[r].plan.next[s]
    BY Zenon, <1>1, PlanFacts, PipelineAssumption
  <2>2. r + 1 \in Stage /\ Holder(s, r + 1)'
    BY Zenon, <1>1, <1>2, <1>3, <2>1, TakesAlong
  <2> QED BY Zenon, <2>2
<1>4. CASE ~reg_full[s]
  <2>1. PICK m \in Stage : Holder(s, m)
    BY Zenon, <1>4 DEF HeldInvariant
  <2>2. r < m /\ pipeline_valid[m] /\ m <= act[m].plan.next[s] /\ m \in Nat
    BY <2>1, PipelineAssumption DEF Holder, Stage
  <2>3. r <= m /\ m # 0
    BY <1>1, <2>2
  <2>4. CASE load_en[m]
    <3>1. m + 1 \in Stage /\ Holder(s, m + 1)'
      BY Zenon, <1>2, <2>2, <2>3, <2>4, TakesAlong
    <3> QED BY Zenon, <3>1
  <2>5. CASE ~load_en[m]
    <3>1. pipeline_valid'[m] /\ act'[m].plan = act[m].plan
      BY Zenon, <2>2, <2>3, <2>5, MovesOrStays
    <3>2. Holder(s, m)'
      BY Zenon, <2>2, <3>1 DEF Holder
    <3> QED BY Zenon, <3>2
  <2> QED BY Zenon, <2>4, <2>5
<1> QED BY Zenon, <1>2, <1>3, <1>4

(***************************************************************************)
(* A set of stages has a last one.                                         *)
(***************************************************************************)
LEMMA LastOf ==
  ASSUME NEW S, S \subseteq Stage, S # {}
  PROVE  \E m \in S : \A k \in S : k <= m
<1> DEFINE T == {Last - k : k \in S}
           R == {ss \in Nat \X Nat : ss[1] < ss[2]}
<1>1. S \subseteq Nat /\ Last \in Nat /\ S \subseteq 0 .. Last
  BY PipelineAssumption DEF Stage
<1>2. T \subseteq Nat
  <2>1. \A k \in 0 .. Last : Last - k \in Nat
    BY <1>1
  <2> QED BY Zenon, <1>1, <2>1
<1>3. T # {}
  OBVIOUS
<1>4. IsWellFoundedOn(R, Nat)
  BY Zenon, NatLessThanWellFounded DEF OpToRel
<1> HIDE DEF T, R
<1>5. PICK x \in T : \A y \in T : ~(<<y, x>> \in R)
  BY Zenon, <1>2, <1>3, <1>4, WFMin
<1>6. x \in Nat /\ \A y \in T : y \in Nat /\ ~(y < x)
  BY <1>2, <1>5 DEF R
<1>7. PICK m \in S : x = Last - m
  BY Zenon DEF T
<1>8. \A k \in S : Last - k \in T
  BY Zenon DEF T
<1>9. \A k \in S : k <= m
  BY <1>1, <1>6, <1>7, <1>8
<1> QED BY Zenon, <1>7, <1>9

(***************************************************************************)
(* The idle output says that the pipeline is empty: the last stage that    *)
(* holds an activation waits for no state element, because what it waits   *)
(* for would be held by an activation in a later stage.                    *)
(***************************************************************************)
THEOREM IdleIsEmpty == Spec => []IdleMeansEmpty
<1>1. Init => HeldInvariant
  BY Zenon DEF Init, HeldInvariant
<1>2. TypeInvariant /\ HeldInvariant /\ [Next]_vars => HeldInvariant'
  <2> SUFFICES ASSUME TypeInvariant, HeldInvariant, [Next]_vars PROVE HeldInvariant'
    BY Zenon
  <2>1. CASE UNCHANGED vars
    <3>1. act' = act /\ pipeline_valid' = pipeline_valid /\ reg_full' = reg_full
      BY Zenon, <2>1 DEF vars
    <3> QED BY Zenon, <3>1 DEF HeldInvariant, Holder
  <2>2. CASE Reset
    <3>1. reg_full' = [s \in States |-> TRUE]
      BY Zenon, <2>2 DEF Reset
    <3> QED BY Zenon, <3>1 DEF HeldInvariant
  <2>3. CASE Load
    BY Zenon, <2>3, HeldLoad DEF Edge
  <2> QED BY Zenon, <2>1, <2>2, <2>3 DEF Next
<1>3. TypeInvariant /\ HeldInvariant => IdleMeansEmpty
  <2> SUFFICES ASSUME TypeInvariant, HeldInvariant, idle, NEW n \in Stage \ {0}, pipeline_valid[n]
               PROVE  FALSE
    BY Zenon DEF IdleMeansEmpty
  <2> DEFINE S == {i \in Stage \ {0} : pipeline_valid[i]}
  <2>1. PICK m \in S : \A k \in S : k <= m
    <3>1. S \subseteq Stage /\ S # {}
      BY Zenon
    <3> HIDE DEF S
    <3> QED BY Zenon, <3>1, LastOf
  <2>2. m \in Stage \ {0} /\ pipeline_valid[m] /\ ~stage_valid(m)
    BY Zenon, <2>1 DEF idle
  <2>3. PICK s \in States : read_stage[s] = m /\ ~reg_full[s]
    BY Zenon, <2>2 DEF stage_valid, states_valid
  <2>4. PICK k \in Stage : Holder(s, k)
    BY Zenon, <2>3 DEF HeldInvariant
  <2>5. m < k /\ pipeline_valid[k] /\ k \in Nat /\ m \in Nat
    BY <2>2, <2>3, <2>4, PipelineAssumption DEF Holder, Stage
  <2>6. k \in S
    BY <2>5
  <2>7. k <= m
    BY Zenon, <2>1, <2>6
  <2> QED BY <2>5, <2>7
<1> QED BY <1>1, <1>2, <1>3, TypeCorrect, PTL DEF Spec

==================================================================================
