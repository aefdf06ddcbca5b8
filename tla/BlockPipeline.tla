------------------------------ MODULE BlockPipeline ------------------------------
(***************************************************************************)
(* The elastic pipeline that block conversion builds from a scheduled proc *)
(* (AddBubbleFlowControl and the functions it calls, and AddOneShotOutput- *)
(* Logic, in codegen/block_conversion.cc).                                 *)
(*                                                                         *)
(* A state is one clock cycle just before its rising edge.  Registers and  *)
(* ports are variables; the netlist's signals are state functions with the *)
(* names the code gives them, except load_en, which the code defines from  *)
(* the last stage backwards: it is a variable that solves the netlist's    *)
(* equations in every state (FlowControl).                                 *)
(*                                                                         *)
(* One activation of the proc occupies one stage at a time.  What its data *)
(* decides is fixed in a plan when it starts: which receives and sends its *)
(* predicates enable, at which stage each state element gets its next      *)
(* value, and whether that value differs from the old one.  A send may     *)
(* also depend on which non-blocking receives returned data.               *)
(***************************************************************************)
EXTENDS Integers, Sequences

CONSTANTS
  Last,             \* the last stage; stages are 0..Last
  Inputs, Outputs,  \* the streaming channels received from and sent on
  NonBlocking,      \* the inputs that are received from without blocking
  States,           \* the state elements
  recv_stage, send_stage, read_stage,  \* the schedule of these operations
  next_stages,      \* the stages of a state element's next_value nodes
  Tokens, Values,   \* data on input channels, values of state elements
  None,             \* what a receive returns when it receives nothing
  InitValue,        \* initial values of the state elements
  Plans, ResetPlan, \* what an activation may do; what all-zero data does
  OneShot,          \* the outputs were not proven mutually exclusive
  reset_data_path   \* ResetProto::reset_data_path

Stage == 0..Last

PlanType ==
  [recvs : SUBSET Inputs, sends : [SUBSET NonBlocking -> SUBSET Outputs],
   next : [States -> Stage], writes : SUBSET States, value : Values]

Activation ==
  [plan : Plans, got : [Inputs -> Tokens \cup {None}], st : [States -> Values]]

ASSUME PipelineAssumption ==
  /\ Last \in Nat
  /\ NonBlocking \subseteq Inputs
  /\ recv_stage \in [Inputs -> Stage] /\ send_stage \in [Outputs -> Stage]
  /\ read_stage \in [States -> Stage] /\ next_stages \in [States -> SUBSET Stage]
  /\ \A s \in States : \A w \in next_stages[s] : read_stage[s] <= w
  /\ Plans \subseteq PlanType /\ ResetPlan \in Plans
  /\ \A p \in Plans, s \in States : p.next[s] \in next_stages[s]
  /\ InitValue \in [States -> Values]
  /\ OneShot \in BOOLEAN /\ reset_data_path \in BOOLEAN

VARIABLES
  act,                         \* pipeline registers: the data in each stage
  pipeline_valid,              \* the valid bit of each stage
  state_reg, reg_full,         \* StateRegister::reg and ::reg_full
  has_been_sent,               \* the one-shot register of each output
  load_en,                     \* data_load_enable
  in_valid, in_data, out_ready, rst,   \* the ports driven from outside
  delivered,   \* history: what the activation now at the send's stage sent
  ref_state    \* history: the states after the last activation that read them

ports == <<in_valid, in_data, out_ready, rst>>
history == <<delivered, ref_state>>
vars == <<act, pipeline_valid, state_reg, reg_full, has_been_sent, load_en,
          ports, history>>

Fresh(p) == [plan |-> p, got |-> [c \in Inputs |-> None], st |-> InitValue]

--------------------------------------------------------------------------------
(***************************************************************************)
(* The data visible in stage n: what the pipeline registers carry, with    *)
(* the receives and state reads of the stage itself added.                 *)
(***************************************************************************)
Received(n, c) ==
  IF recv_stage[c] # n THEN act[n].got[c]
  ELSE IF c \in act[n].plan.recvs /\ in_valid[c] THEN in_data[c]
  ELSE None

Live(n) ==
  [plan |-> act[n].plan,
   got |-> [c \in Inputs |-> Received(n, c)],
   st |-> [s \in States |-> IF read_stage[s] = n THEN state_reg[s] ELSE act[n].st[s]]]

predicate(c) ==
  LET n == send_stage[c]
  IN  c \in act[n].plan.sends[{d \in NonBlocking : Received(n, d) # None}]

(***************************************************************************)
(* Here and below, a definition that starts with Mistake is a plausible    *)
(* mistake in the definition that follows it; a property notices each.     *)
(***************************************************************************)
recvs_valid(n) ==
  \A c \in Inputs \ NonBlocking :
    recv_stage[c] = n /\ c \in act[n].plan.recvs => in_valid[c]

MistakeStatesAlwaysValid(n) == TRUE

states_valid(n) == \A s \in States : read_stage[s] = n => reg_full[s]

has_sent_or_is_ready(c) == out_ready[c] \/ has_been_sent[c]

sends_ready(n) ==
  \A c \in Outputs :
    send_stage[c] = n /\ predicate(c) => has_sent_or_is_ready(c)

stage_valid(n) == states_valid(n) /\ pipeline_valid[n]

stage_done(n) == stage_valid(n) /\ recvs_valid(n) /\ sends_ready(n)

next_stage_open(n) == n = Last \/ load_en[n + 1] \/ ~pipeline_valid[n + 1]

data_enable(n) == next_stage_open(n) /\ stage_done(n)

FlowControl ==
  load_en = [n \in Stage |->
               data_enable(n) \/ (rst /\ n # Last /\ ~reset_data_path)]

(***************************************************************************)
(* Output ports.  from_valid is an output's valid before the one-shot      *)
(* logic clamps it.                                                        *)
(***************************************************************************)
from_valid(c) ==
  LET n == send_stage[c]
  IN  recvs_valid(n) /\ stage_valid(n) /\ next_stage_open(n) /\ predicate(c)

MistakeWaitsForOthers(c) ==
  /\ from_valid(c) /\ ~has_been_sent[c]
  /\ \A d \in Outputs \ {c} : send_stage[d] = send_stage[c] /\ predicate(d) =>
                                 has_sent_or_is_ready(d)

out_valid(c) == from_valid(c) /\ ~has_been_sent[c]

in_ready(c) ==
  LET n == recv_stage[c] IN load_en[n] /\ c \in act[n].plan.recvs

valid_and_ready_txfr(c) == out_valid(c) /\ out_ready[c]

stage_0_has_no_active_recvs ==
  \A c \in Inputs : recv_stage[c] = 0 => c \notin act[0].plan.recvs

MistakeIdleFromPorts ==
  /\ ~stage_0_has_no_active_recvs
  /\ \A c \in Inputs : c \notin NonBlocking /\ ~in_valid[c]
  /\ \A c \in Outputs : ~out_valid(c)

idle ==
  /\ \A n \in Stage \ {0} : ~stage_valid(n)
  /\ ~stage_0_has_no_active_recvs
  /\ \A c \in Inputs : c \notin NonBlocking /\ ~in_valid[c]
  /\ \A c \in Outputs : ~out_valid(c)

--------------------------------------------------------------------------------
(***************************************************************************)
(* State elements.  A next_value fires when its stage is enabled; if two   *)
(* fired together their values would be or-ed by the one-hot select, which *)
(* is modelled as an arbitrary value.                                      *)
(***************************************************************************)
activated(s, w) == data_enable(w) /\ act[w].plan.next[s] = w

MistakeOnlyChanges(s) ==
  \E w \in next_stages[s] : activated(s, w) /\ s \in act[w].plan.writes

value_determined(s) == \E w \in next_stages[s] : activated(s, w)

writers(s) ==
  {w \in next_stages[s] : activated(s, w) /\ s \in act[w].plan.writes}

NextStateValues(s) ==
  IF writers(s) = {} THEN {state_reg[s]}
  ELSE IF \A v, w \in writers(s) : v = w
       THEN {act[w].plan.value : w \in writers(s)}
  ELSE Values

MistakeNeverEmptied(s) == reg_full[s] \/ value_determined(s)

NextFull(s) ==
  IF data_enable(read_stage[s]) \/ value_determined(s)
  THEN value_determined(s) ELSE reg_full[s]

MistakeSentUntilReset(c) ==
  OneShot /\ (has_been_sent[c] \/ valid_and_ready_txfr(c))

NextSent(c) ==
  LET load == from_valid(c) /\ sends_ready(send_stage[c])
  IN  IF load \/ valid_and_ready_txfr(c) THEN OneShot /\ ~load
                                         ELSE has_been_sent[c]

--------------------------------------------------------------------------------
PortsType ==
  /\ in_valid \in [Inputs -> BOOLEAN] /\ in_data \in [Inputs -> Tokens]
  /\ out_ready \in [Outputs -> BOOLEAN] /\ rst \in BOOLEAN

(***************************************************************************)
(* Producers keep an offer until it is taken; consumers and reset are free.*)
(***************************************************************************)
EnvNext ==
  /\ in_valid' \in [Inputs -> BOOLEAN] /\ in_data' \in [Inputs -> Tokens]
  /\ out_ready' \in [Outputs -> BOOLEAN] /\ rst' \in BOOLEAN
  /\ \A c \in Inputs : in_valid[c] /\ ~in_ready(c) /\ ~rst =>
                          in_valid'[c] /\ in_data'[c] = in_data[c]

Init ==
  /\ \E p \in Plans :
       act = [n \in Stage |-> Fresh(IF n = 0 THEN p ELSE ResetPlan)]
  /\ pipeline_valid = [n \in Stage |-> n = 0]
  /\ state_reg = InitValue /\ reg_full = [s \in States |-> TRUE]
  /\ has_been_sent = [c \in Outputs |-> FALSE]
  /\ delivered = [c \in Outputs |-> <<>>] /\ ref_state = InitValue
  /\ PortsType
  /\ load_en \in [Stage -> BOOLEAN] /\ FlowControl

(***************************************************************************)
(* The edge with reset asserted.  Data registers without a reset are       *)
(* transparent meanwhile and keep whatever passes through.                 *)
(***************************************************************************)
Reset ==
  /\ rst
  /\ \E p \in Plans :
       act' = [n \in Stage |-> IF n = 0 THEN Fresh(p)
                              ELSE IF reset_data_path THEN Fresh(ResetPlan)
                              ELSE Live(n - 1)]
  /\ pipeline_valid' = [n \in Stage |-> n = 0]
  /\ state_reg' = InitValue /\ reg_full' = [s \in States |-> TRUE]
  /\ has_been_sent' = [c \in Outputs |-> FALSE]
  /\ delivered' = [c \in Outputs |-> <<>>] /\ ref_state' = InitValue

Delivered(c) ==
  IF valid_and_ready_txfr(c) THEN Append(delivered[c], Live(send_stage[c]))
                             ELSE delivered[c]

HistoryNext ==
  /\ delivered' = [c \in Outputs |-> IF data_enable(send_stage[c]) THEN <<>>
                                                                  ELSE Delivered(c)]
  /\ ref_state' = [s \in States |->
       LET r == read_stage[s]
       IN  IF data_enable(r) /\ s \in act[r].plan.writes
           THEN act[r].plan.value ELSE ref_state[s]]

(***************************************************************************)
(* The edge without reset: every register loads if it is enabled.  When    *)
(* stage 0 advances, the next activation starts there.                     *)
(***************************************************************************)
Load ==
  /\ ~rst
  /\ \E p \in IF load_en[0] THEN Plans ELSE {act[0].plan} :
       act' = [n \in Stage |-> IF n = 0 THEN Fresh(p)
                              ELSE IF load_en[n - 1] THEN Live(n - 1)
                              ELSE act[n]]
  /\ pipeline_valid' = [n \in Stage |->
       n = 0 \/ IF next_stage_open(n - 1) THEN stage_done(n - 1)
                                          ELSE pipeline_valid[n]]
  /\ state_reg' \in [States -> Values]
  /\ \A s \in States : state_reg'[s] \in NextStateValues(s)
  /\ reg_full' = [s \in States |-> NextFull(s)]
  /\ has_been_sent' = [c \in Outputs |-> NextSent(c)]
  /\ HistoryNext

Next ==
  /\ Reset \/ Load
  /\ EnvNext
  /\ load_en' \in [Stage -> BOOLEAN] /\ FlowControl'

Spec == Init /\ [][Next]_vars

(***************************************************************************)
(* The clock runs, every producer offers and every consumer becomes ready  *)
(* again and again.                                                        *)
(***************************************************************************)
FairSpec ==
  /\ Spec
  /\ WF_vars(Next)
  /\ \A c \in Inputs : []<>in_valid[c]
  /\ \A c \in Outputs : []<>out_ready[c]

--------------------------------------------------------------------------------
(***************************************************************************)
(* Registers and ports have their types, the first stage always holds an   *)
(* activation and load_en solves the netlist.                              *)
(***************************************************************************)
TypeInvariant ==
  /\ act \in [Stage -> Activation]
  /\ pipeline_valid \in [Stage -> BOOLEAN] /\ pipeline_valid[0]
  /\ state_reg \in [States -> Values] /\ reg_full \in [States -> BOOLEAN]
  /\ has_been_sent \in [Outputs -> BOOLEAN]
  /\ load_en \in [Stage -> BOOLEAN] /\ FlowControl
  /\ PortsType
  /\ delivered \in [Outputs -> Seq(Activation)]
  /\ ref_state \in [States -> Values]

(***************************************************************************)
(* A stage is atomic although its outputs may be taken in different cycles:*)
(* when it finishes, each send its predicates enable has happened exactly  *)
(* once, with the data the stage hands on, and no other send has.          *)
(***************************************************************************)
StageAtomic ==
  ~rst => \A c \in Outputs :
    LET n == send_stage[c]
    IN  data_enable(n) =>
          Delivered(c) = IF predicate(c) THEN <<Live(n)>> ELSE <<>>

(***************************************************************************)
(* An activation reads a state element as the activation before it left    *)
(* it, though that one may still be several stages ahead of its next_value.*)
(***************************************************************************)
StateFeedback ==
  \A s \in States : stage_valid(read_stage[s]) => state_reg[s] = ref_state[s]

(***************************************************************************)
(* What CalculateConcurrentGroupsFromStateWrites claims: between the read  *)
(* of a state element and its earliest next_value at most one stage is     *)
(* active in a cycle.  Register merging relies on it.                      *)
(***************************************************************************)
MutuallyExclusive(i, j) ==
  \E s \in States :
    read_stage[s] <= i /\ i < j /\ \A w \in next_stages[s] : j <= w

StagesExclusive ==
  \A i, j \in Stage : MutuallyExclusive(i, j) => ~(stage_valid(i) /\ stage_valid(j))

(***************************************************************************)
(* An offer on an output is repeated with the same data until it is taken, *)
(* unless a non-blocking receive in the same stage may decide it anew.     *)
(***************************************************************************)
Settled(c) == \A d \in NonBlocking : recv_stage[d] # send_stage[c]

OutputHeld ==
  [][\A c \in Outputs :
       Settled(c) /\ out_valid(c) /\ ~out_ready[c] /\ ~rst =>
         out_valid(c)' /\ Live(send_stage[c])' = Live(send_stage[c])]_vars

(***************************************************************************)
(* The idle output is asserted only when no stage holds an activation, not *)
(* even one that waits for a state element.                                *)
(***************************************************************************)
IdleMeansEmpty == idle => \A n \in Stage \ {0} : ~pipeline_valid[n]

(***************************************************************************)
(* The pipeline never stops: activations finish again and again, unless    *)
(* the block is reset again and again.                                     *)
(***************************************************************************)
Progress == []<>(data_enable(Last) \/ rst)

(***************************************************************************)
(* The comment on the one-shot logic: has_been_sent is cleared when the    *)
(* stage is loaded with new inputs.  So it is set only while the           *)
(* activation in the stage is the one that sent.                           *)
(***************************************************************************)
SentByThisActivation ==
  \A c \in Outputs : has_been_sent[c] => delivered[c] # <<>>

================================================================================
