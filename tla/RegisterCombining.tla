---------------------------- MODULE RegisterCombining ----------------------------
(***************************************************************************)
(* Register combining (codegen/register_combining_pass.cc): a value that   *)
(* is carried through stages of which at most one is active needs only one *)
(* of the registers it passes through.  The registers of a value are put   *)
(* into chains, the chains are split where stages may be active together   *)
(* (codegen/register_chaining_analysis.cc), and in each group that results *)
(* every read of a later register becomes a read of the first.             *)
(*                                                                         *)
(* The values are the received data and the state elements of              *)
(* BlockPipeline, which carries each of them to the last stage.  Only      *)
(* registers of the same value can be chained, so that each value has      *)
(* chains of its own.                                                      *)
(***************************************************************************)
EXTENDS BlockPipeline

Carried == Inputs \cup States

birth(x) == IF x \in States THEN read_stage[x] ELSE recv_stage[x]

(***************************************************************************)
(* The stage of the earliest next_value of a state element.                *)
(***************************************************************************)
FirstWrite(s) == CHOOSE w \in next_stages[s] : \A v \in next_stages[s] : w <= v

RegisterData(x, w, r) == [value |-> x, write_stage |-> w, read_stage |-> r]

(***************************************************************************)
(* The state register, unless it is written in the stage that reads it,    *)
(* and the pipeline registers in the order of their stages.                *)
(***************************************************************************)
candidate_registers(x) ==
  (IF x \in States /\ FirstWrite(x) # read_stage[x]
   THEN <<RegisterData(x, FirstWrite(x), read_stage[x])>> ELSE <<>>)
  \o [i \in 1..(Last - birth(x)) |-> RegisterData(x, birth(x) + i - 1, birth(x) + i)]

--------------------------------------------------------------------------------
(***************************************************************************)
(* Chains.                                                                 *)
(***************************************************************************)
front(q) == q[1]
back(q) == q[Len(q)]

IsChainable(first, next) ==
  /\ first.read_stage = next.write_stage
  /\ next.write_stage < next.read_stage
  /\ first.value = next.value

IsClobbered(chain_start, chain_end) ==
  /\ chain_start.read_stage <= chain_start.write_stage
  /\ chain_end.write_stage >= chain_start.write_stage

Follows(p, q) == IsChainable(back(p), front(q)) /\ ~IsClobbered(front(p), back(q))

Least(S) == CHOOSE i \in S : \A j \in S : i <= j

Without(q, i) == SubSeq(q, 1, i - 1) \o SubSeq(q, i + 1, Len(q))

ReduceChains(chains, i, is_front_modified) ==
  LET partners == {j \in DOMAIN chains \ {i} :
                     IF is_front_modified THEN Follows(chains[j], chains[i])
                                          ELSE Follows(chains[i], chains[j])}
      j == Least(partners)
  IN  IF partners = {} THEN chains
      ELSE IF is_front_modified
           THEN Without([chains EXCEPT ![j] = @ \o chains[i]], i)
           ELSE Without([chains EXCEPT ![i] = @ \o chains[j]], j)

(***************************************************************************)
(* InsertIntoChain: the chains that a register can be put onto; it goes to *)
(* the front of the first of them, else to its back.                       *)
(***************************************************************************)
AtFront(reg, chain) == Follows(<<reg>>, chain)
AtBack(reg, chain) == Follows(chain, <<reg>>)
Homes(chains, reg) ==
  {i \in DOMAIN chains : AtFront(reg, chains[i]) \/ AtBack(reg, chains[i])}

InsertAndReduce(chains, reg) ==
  LET i == Least(Homes(chains, reg))
      at_front == AtFront(reg, chains[i])
  IN  IF Homes(chains, reg) = {} THEN <<<<reg>>>> \o chains
      ELSE ReduceChains([chains EXCEPT ![i] = IF at_front THEN <<reg>> \o @
                                                          ELSE Append(@, reg)],
                        i, at_front)

RegisterChains(x) ==
  LET regs == candidate_registers(x)
      chains[n \in 0..Len(regs)] ==
        IF n = 0 THEN <<>> ELSE InsertAndReduce(chains[n - 1], regs[n])
  IN  chains[Len(regs)]

--------------------------------------------------------------------------------
(***************************************************************************)
(* Groups of registers to merge.                                           *)
(***************************************************************************)
IsMutuallyExclusive(i, j) == MutuallyExclusive(i, j) \/ MutuallyExclusive(j, i)

DropSingleton(groups) ==
  IF groups # <<>> /\ Len(back(groups)) = 1
  THEN SubSeq(groups, 1, Len(groups) - 1) ELSE groups

MayJoin(group, cur) ==
  /\ IsMutuallyExclusive(cur.write_stage, cur.read_stage)
  /\ \A i \in DOMAIN group :
       /\ IsMutuallyExclusive(group[i].read_stage, cur.read_stage)
       /\ IsMutuallyExclusive(group[i].write_stage, cur.write_stage)

SplitOneChain(chain) ==
  LET groups[n \in 0..Len(chain)] ==
        IF n = 0 THEN <<>>
        ELSE LET done == groups[n - 1]
                 cur == chain[n]
             IN  IF done # <<>> /\ MayJoin(back(done), cur)
                 THEN [done EXCEPT ![Len(done)] = Append(@, cur)]
                 ELSE Append(DropSingleton(done), <<cur>>)
  IN  DropSingleton(groups[Len(chain)])

mutex_chains ==
  UNION {UNION {{SplitOneChain(c)[i] : i \in DOMAIN SplitOneChain(c)} :
                c \in {RegisterChains(x)[n] : n \in DOMAIN RegisterChains(x)}} :
         x \in Carried}

--------------------------------------------------------------------------------
(***************************************************************************)
(* What a register holds.                                                  *)
(***************************************************************************)
Contents(reg) ==
  IF reg.read_stage <= reg.write_stage THEN state_reg[reg.value]
  ELSE IF reg.value \in States THEN act[reg.read_stage].st[reg.value]
  ELSE act[reg.read_stage].got[reg.value]

(***************************************************************************)
(* When first may take the place of reg, by the comment on RegisterChains: *)
(* what reads reg must be active before first is loaded again.  A state    *)
(* register is loaded by the next values; a pipeline register by the stage *)
(* before it, which must not be active together with the reader of reg.    *)
(***************************************************************************)
LoadedAfterRead(first, reg) ==
  /\ reg.value \in Carried /\ first.value = reg.value
  /\ reg.read_stage \in Stage /\ birth(reg.value) < reg.read_stage
  /\ reg.write_stage = reg.read_stage - 1
  /\ \/ /\ reg.value \in States /\ first.read_stage <= first.write_stage
        /\ \A w \in next_stages[reg.value] : reg.read_stage <= w
     \/ /\ first.write_stage \in Stage /\ first.read_stage = first.write_stage + 1
        /\ birth(reg.value) <= first.write_stage
        /\ MutuallyExclusive(first.write_stage, reg.read_stage)

GroupsLoadedAfterRead ==
  \A group \in mutex_chains : \A i \in DOMAIN group :
    group[i] = front(group) \/ LoadedAfterRead(front(group), group[i])

(***************************************************************************)
(* Merging registers changes nothing: whenever the stage that reads a      *)
(* removed register is active, the register that is read in its place      *)
(* holds the same value, although activations before and behind may move   *)
(* independently.                                                          *)
(***************************************************************************)
MergedRegistersAgree ==
  \A group \in mutex_chains : \A i \in DOMAIN group :
    stage_valid(group[i].read_stage) => Contents(front(group)) = Contents(group[i])

================================================================================
