# XLS: a TLA+ model of its concurrent parts

XLS compiles DSLX and C++ to an intermediate representation (IR) of functions
and *procs* (processes that receive, compute and send for ever), simulates the
IR, optimizes and schedules it, and generates Verilog. Most of it is a
sequential compiler. What is hard to test is the behaviour *over time* of what
it generates and of what it simulates with: elastic pipelines whose stages stall
independently, buffers that meet a stall and an arrival in one cycle, procs
merged into one proc, registers merged into one register, a runtime that
suspends and resumes procs, a network simulator that iterates to a fixed point
in every cycle, and threads of the host tools. This project models those parts
from the source, checks them with TLC on small instances, and proves nearly all
of their safety properties with TLAPS for every instance.

All paths below are relative to `src/xls/`. Where a definition keeps the name of
a signal, register or method of the code, it stands for it; `PROJECT.json`
("map") gives the lines of every definition.

## 1. The system's parts

| Part | Where | What it does over time | Modelled by |
|---|---|---|---|
| Block conversion of procs | `codegen/block_conversion.cc` | turns a scheduled proc into a pipeline with valid/ready flow control, state registers with a full bit, one-shot outputs, an idle output | `BlockPipeline` |
| Register combining | `codegen/register_combining_pass.cc`, `register_chaining_analysis.cc` | merges registers of stages that exclude each other | `RegisterCombining` |
| Streaming I/O buffers | `codegen/block_conversion.cc` | flop, skid buffer, zero-latency buffer at channel ports | `FlopBuffer`, `SkidBuffer`, `ZeroLatencyBuffer` |
| Combinational blocks | same file | ready/valid logic without registers | `CombinationalBlock` |
| Block interpreter | `interpreter/block_interpreter.cc` | evaluates a block cycle by cycle; models FIFO instantiations | `FifoModel` (the FIFO only) |
| the four buffers and a combinational block in a row | the two files above | | `BufferChain` |
| Channel queues | `interpreter/channel_queue.{h,cc}` | unbounded queue or single value, with an optional generator, under a mutex | `ChannelQueue` |
| JIT queues | `jit/jit_channel_queue.{h,cc}` | the same over a circular byte buffer that grows | `ByteQueue` |
| Proc interpreter and runtime | `interpreter/proc_interpreter.cc`, `proc_evaluator.cc`, `proc_runtime.cc`, `serial_proc_runtime.cc`, `interpreter_proc_runtime.cc` | runs procs until they block, wakes them when a channel is written, detects deadlock | `ProcRuntime`, `ProcNodes`, `ProcNetwork` |
| Proc inlining | `passes/proc_inlining_pass.cc` | merges a network of procs into one, with activation bits and one-entry buffers | `InlinedProcs`, `TokenNetwork` |
| NoC simulator | `noc/simulation/sim_objects.{h,cc}` | cycle simulation of sources, links, routers and sinks with credits | `NocSimulator` |
| NoC packetizer | `noc/simulation/packetizer.{h,cc}` | cuts packets into flits and joins them again | `Packetizer` |
| Subprocess invocation | `common/subprocess.cc` | a caller, a watchdog thread, a child and its pipes | `Subprocess` |
| Multi-threaded test bench | `tools/testbench.h`, `testbench_thread.h` | workers over ranges of indices, cancelled after too many failures | `Testbench` |
| Proc JIT | `jit/proc_jit.cc` | the interpreter's continuation protocol, compiled | no |
| Scheduler, proc state legalization | `scheduling/` | decide where reads and next values are | no; constants of `BlockPipeline` |
| DSLX, xlscc, IR, other passes, solvers, netlist, delay models, Verilog text, fuzzer, tools | the rest | sequential translation, evaluation or I/O | no |

How they interact: the scheduler fixes stages; block conversion builds the
pipeline, puts buffers at its ports and leaves it to register combining, which
uses what block conversion found out about exclusive stages; the block
interpreter or a Verilog simulator executes the result, with FIFOs between
blocks. Where a network is to become one block, proc inlining first makes one
proc of it. Independently, the proc runtimes execute the same procs directly,
over the channel queues: the reference the generated hardware is compared with.
The NoC simulator and the host threads are tools beside this.

## 2. The modules

**Ports and buffers.** `ReadyValidPorts` is the environment of a ready/valid
channel: a producer keeps an offer until it is taken; the consumer and the reset
are free. `StreamFifo` is the abstract specification of every buffer: a bounded
queue, with or without a combinational bypass, and what it promises on its
ports. `SkidBuffer` (`AddSkidBufferToRDVNodes`), `FlopBuffer`
(`AddRegisterToRDVNodes`), `ZeroLatencyBuffer`
(`AddZeroLatencyBufferToRDVNodes`) and `FifoModel` (the block interpreter's
FIFO) implement it by `INSTANCE ... WITH` a queue read off their registers. A
state is one clock cycle just before its rising edge: registers and driven ports
are variables, combinational signals are state functions. Each module has two
actions, the edge with reset and the edge without (`FifoModel`, which is not
reset, has one). `BufferChain` puts all four in a row, in front of a
combinational block whose activations receive from the chain, from a side input
or from both. There each part is the others' environment, so the assumption each
module makes of its producer has to be guaranteed by another. An activation that
receives from both stalls the chain on the side input; that it also loses tokens
is the question of `combinational_join`, and no property of the chain is about it.

**`BlockPipeline`** is the pipeline of `AddBubbleFlowControl`, for any number of
stages, any schedule of receives, sends, state reads and next values, and any
proc. The data of the proc is abstracted to a *plan* fixed when an activation
starts: which receives and sends its predicates enable, at which stage each
state element gets its next value and whether the value changes. `act[n]` is the
data in the pipeline registers of stage `n`, with what each activation has
received and read, so that properties can speak of whose data is sent. `load_en`
is defined in the code from the last stage backwards; here it is a variable that
solves the netlist's equations in every state (`FlowControl`). `delivered` and
`ref_state` are history variables. `next_value` nodes that would fire in the same
cycle for different activations produce an arbitrary value, because the code ORs
them. A pipeline with one stage is `Last = 0`.

**`RegisterCombining`** is the pass over that pipeline: which registers are
candidates (`candidate_registers`), how they are joined to chains
(`InsertAndReduce`) and the chains split into groups whose readers and
writers exclude each other (`SplitOneChain`), and what the register that stays
would hold compared with the ones removed.

**`CombinationalBlock`** is `AddCombinationalFlowControl`: the ready and valid
signals (`Fire`), and a history of tokens taken that no activation has used
(`TakeTokens`).

**`ChannelQueue`** is a channel queue as the interpreter implements it: `Write`,
`Read` and `AttachGenerator`, each atomic because the code holds the mutex. Its
second specification, `JitSpec`, differs where the JIT's queue does (a raw write
does not check for a generator). **`ByteQueue`** is the JIT's buffer. Indices
count elements, because they are always multiples of the element size; the
allocation is in bytes, because doubling it may more than double the number of
elements. It implements `ChannelQueue!JitSpec`.

**`ProcNodes`** holds a network's constants: each proc a list of receive, send
and next_value nodes, with what each node computes given by the constant
operators `Active` and `Data`. **`ProcNetwork`** is the abstract meaning of a
network: procs execute nodes in order, with no scheduler. **`ProcRuntime`** is
the runtime: one step is one node executed by `ProcInterpreter::Tick`, one return
of a Tick handled by `TickInternal` (completed, sent, blocked, error), one head
of a loop of `TickUntilOutput` or `TickUntilBlocked`, one call, one `ResetState`,
or one queue access by the caller's threads, which may fall between calls or
inside one. `raced` remembers the channels another thread wrote during the
current `TickInternal`: what the scheduler reports is about the network without
those writes. The instances in `proc_instances` are distinct, because
`ir/proc_elaboration.cc` allocates each one and appends it once. The runtime
refines `ProcNetwork`.

**`TokenNetwork`** is what a network means when only tokens order the sends and
receives of an activation; a poll of an empty channel is the zero value with its
valid bit clear, as in `proc_interpreter.cc`. **`InlinedProcs`** is the container proc that inlining
makes of it: a step of a tick evaluates the next node in the container's
topological order, moving activation bits along the token graph of each proc
thread, and the end of a tick updates the state elements: held activations,
saved receives, the one-entry buffers of virtual channels of FIFO depth 1, the
data-loss assertion and the state of each proc. The data of a poll that finds
nothing is what the wires of the channel carry, as in the code; `Meant` is what
the network's poll would return. It refines `TokenNetwork` as long as the
assertion has not failed and the procs look at the data of a poll only when it is
valid (`LooksAtValid`); `MCInlinedPoll` has one that does not.

**`NocSimulator`** is `RunCycle` and the `Tick` of every component: sources and
routers that spend credits, links with pipelines in both directions, sinks. A
step is one half (forward or reverse) of one component's `Tick`, in the order the
simulator keeps them. A channel carries a flag "written in this cycle" instead of
the cycle number; only cycle 0, in which the initial credits are sent, is told
apart. **`Packetizer`** cuts packets into flits at each source and joins them at
the destination, over a network that keeps the order of each source's flits.

**`Subprocess`** and **`Testbench`** have a step per access to shared state: lock,
unlock, wait, notification (lost when nobody waits), atomic read or write, pipe,
signal. A thread of the test bench that was notified is first *woken*: it has left
the condition variable and holds the mutex again only after `Reacquire`, and others
may take the mutex in between. In `Subprocess` the caller's
`poll` and `waitpid` may fail, and so may its `read`: the count it returns is kept
in an unsigned variable, so that the test for a failure is dead, and the program
ends in the exception of `append` (`ReadFails`, `"aborted"`). The child may leave orphans that keep its pipes open;
they end when they like, or never. **`HostThreads`** composes the two with
`ByteQueue`: a tool makes one call or the other, or its threads share a queue.

`MC...` modules only give constants their values. `...Proofs` modules hold
theorems. Definitions named `Mistake...` (in the buffers: listed under "Plausible
mistakes") are wrong variants of the definition that follows; each makes a
property fail, which shows that the property constrains the code.

## 3. What TLC checks

| Run | Instance | Shows |
|---|---|---|
| `buffer_chain` | 2 values, FIFO of depth 2 with and without bypass, receives from the chain, the side input or both | each buffer refines its queue in the environment the others make; the chain is an ordered queue (`ChainInOrder`), sustains full rate behind the flop, keeps delivering and serving its producer |
| `pipeline` | 4 stages, 2 state elements with overlapping ranges, 2 one-shot outputs in one stage, 2 plans | `StateFeedback`, `StagesExclusive`, `IdleMeansEmpty`, `MergedRegistersAgree`, `StageAtomic`, `OutputHeld`, `Progress` |
| `runtime` | 3 procs, 5 channels, callers' threads between and during calls | `Exhausted`, `OneActivation`, `DeadlockIsReal`, `BlockedIsReal`, `RefinesNetwork`, `TickTerminates` |
| `proc_inlining` | 3 procs, 4 internal channels of every combination of depths | `LossIsReal`, `RefinesTokenNetwork`, `ThreadsComplete` |
| `noc` | 2 routers in a circle, 2 sources, 2 sinks, 3 links, two orders of ticks | `ConvergedMeansCurrent`, `Converges`, `CreditsConserved`, `BuffersBounded`, `WrittenOnce`, `DeliveredInOrder`, `Drains` |
| `host_threads` | a child with two pipes and orphans; 3 workers over 7 indices; a queue with slots of 3 bytes in 4 bytes, growing twice | `ResultIsFinal`, `VerdictIsComplete`, `CancelledForCause`, `InvokeReturns`, `RunReturns`; the queue's indices stay consistent (`TypeInvariant`) and it refines `ChannelQueue!JitSpec` |
| `pipeline_report` (violation) | a predicate that depends on a non-blocking receive of its own stage | see below |
| `combinational_join` (violation) | two receives in one activation | see below |
| `register_overlap` (violation) | two exclusion regions that overlap in one stage | see below |
| `noc_packets` (violation) | 2 sources, 2 stores, packets of 1 and 3 bits | see below |
| `subprocess_hang` (violation) | a watchdog and a child that leaves orphans | see below |
| `inlined_poll` (violation) | a proc that passes on some values, and one that polls it and sends what it got | see below |

*Bounds.* Two data values tell an older from a newer one in a buffer, and each
buffer of the chain has at most two places. Depth 2 is the least at which a FIFO
is empty, partly full and full. Four stages leave a stage between the read of a
state element and the first of its two possible writes, where registers can be
combined, and room for a second element whose range overlaps the first's. Four-byte buffers of three-byte slots grow through 1,
2 and 5 slots: the first growth doubles, the second more than doubles. Three
workers over seven indices give ranges of different lengths, two failures are
allowed, and a worker looks for a cancellation after every second index; the
theorems are about every limit, zero included.
`MaxSize` (5 elements), `MaxTokens` (2 per channel), `MaxPending` (1 value on an
external channel of the inlined network, 3 flits in the network on chip) and
`MaxPackets` bound what is unbounded in the code; they are guards of the
environment's writes only, and exceed what is needed to block, resume, deadlock,
compete for a link and use up credits. `Data = {0, 1}` tells a flit from the one behind it.

*Fairness.* For the buffers: the clock runs, and the consumer is ready again and
again (`[]<>consumer_ready`); for the pipeline also that producers offer again
and again. Without that a ready/valid circuit need not move, and the code
promises nothing. For the runtime: the thread that made a call goes on executing
it (`WF(TickInternal \/ LoopHead)`); nothing is assumed of other threads. For the
inlined network: the container is ticked and its environment acts
(`WF(Tick)`, `WF(Environment)`). For the NoC: the caller goes on calling `RunCycle`
and a call goes on (`WF(RunCycle \/ Tick)`). For host threads: each thread is
scheduled; the child itself may run for ever unless the watchdog kills it, and
nothing at all is assumed of the processes it leaves behind. `InvokeReturns` is
therefore about a call whose child ends or has a watchdog, and which no orphan
keeps from seeing the end of the pipes. No failure of a system call is assumed to
happen. Weak fairness of each thread suffices although they compete for a mutex:
none of them takes it for ever again and again.

*Six disagreements.* `pipeline_report`: the one-shot logic clears
`has_been_sent` only while the send's own valid holds, and the comment at
`codegen/block_conversion.cc:1654` calls that conjunct "not strictly needed". If
the send's predicate depends on a non-blocking receive in the same stage, it can
turn false during a stall; the register then survives into the next activation,
whose send is suppressed. `combinational_join`: in a combinational block an
input's ready does not depend on the other inputs' valid, so a proc with two
receives per activation takes a token from one while it waits for the other and
has nowhere to keep it, although "A blocking receive waits (or blocks) until
valid data is present at the channel" (`src/docs_src/ir_semantics.md:426`).
`register_overlap`: `SplitOneChain` compares readers with readers and writers with
writers, never a reader with the writer of the register that stays; where two
exclusion regions overlap in one stage the merged register is loaded again before
it is read, against the condition stated at
`codegen/register_chaining_analysis.h:105`. `noc_packets`: when a packet is
complete the `Packetizer` erases its index map by store, not by source, so a later
packet of that source is put together with another source's, against
`noc/simulation/packetizer.h:323`. `subprocess_hang`: the watchdog kills the child
only, and the caller reads until both pipes are closed at their other end, so a
process the child has started keeps the call open for as long as it likes, after
the timeout, too (`TimeoutEndsCall`). `inlined_poll`: an inlined non-blocking
receive counts as fired whether or not the channel has a value, so a poll of an
empty channel presents the data operand of a send whose predicate is false where
`interpreter/proc_interpreter.cc:149` has "a zero data value with a zero valid bit";
a proc that uses the data without looking at the valid bit then sends something
else than the network does.

## 4. What is proved

All proofs are for every value of the constants that satisfies the named
assumptions of the modules, which say what the code guarantees of its inputs:
`DataAssumption`, `DepthAssumption`, `PipelineAssumption`, `ByteQueueAssumption`,
`ProcNodesAssumption`, `ProcRuntimeAssumption`, `InlinedProcsAssumption` (with
`OrderAssumption`, that the order is topological, and `DataAssumption`, that a node
depends on the receives it uses), `TestbenchAssumption`, `NocAssumption` (a
connection has one driver and one reader) and `CompleteAssumption` (none is open,
no component is left out of the ticks, routes lead to channels that exist). TLC
evaluates each of them on the instances. Every safety property of the passing runs
is proved, except the two named in 4.9.

### 4.1 Buffers (`BufferChainProofs`)
`SkidBufferIsAFifo`, `ZeroLatencyIsAFifo`, `FlopIsAFifo`, `FifoModelIsAFifo`: each
buffer by itself implements its queue, for every set of values and depth. The
lemma they share says how a queue moves in one cycle (`Moves`). `ChainInvariant`
then says that each buffer of the chain keeps its offers, so that each is in the
environment the others assume: `SkidInChain`, `ZeroLatencyInChain`, `FlopInChain`,
`FifoInChain`. `ChainIsAQueue` composes the four moves into one. Also
`FlopSustainsRate`.

### 4.2 Pipeline (`BlockPipelineProofs`)
State feedback (`StateIsFedBack`) is not inductive: nothing in it says that a
state whose full bit is clear is on its way. `TokenInvariant` adds it: each element
is either full, or held by at most one activation between its read and its next
value, and the last reader's outcome is what the register holds or will get.
`ExclusiveStages` follows from the same invariant, because both stages would hold
the token. `IdleIsEmpty` needs the converse, `HeldInvariant`: an element that is
not full has a holder. The idle output looks at `stage_valid`, which is false for
an activation that waits for an element; take the last stage with an activation:
what it waits for is held in a later stage, which there is none. The last stage
exists by the library's `WFMin`. For the outputs, `StalledStage` shows that a stage
that waits only for consumers shows the same data in the next cycle;
`SentInvariant` says what `has_been_sent` means. `OutputsAreHeld` speaks of outputs
whose stage has no non-blocking receive (`Settled`); `StagesAreAtomic` assumes
`OneShot`, and of every output that it is settled or the only one of its stage
(`Alone`); `pipeline_report` shows that the assumption is needed.

### 4.3 Register combining (`BlockPipelineProofs`)
`RegisterCombiningIsCorrect`: for every schedule in which each group satisfies the
condition of the code's comment (`GroupsLoadedAfterRead`: a removed register is
read before the one that stays is loaded again), the register that stays holds
what would have been read (`CarryInvariant`). `register_overlap` shows that the
code's own test does not guarantee the condition.

### 4.4 Queues (`ByteQueueProofs`)
`TypeCorrect` and `ByteQueueIsAChannelQueue`, for every element size not larger than
the initial buffer. The type invariant relates the indices, the fill level and the
allocation, and is inductive; the refinement maps the buffer to the sequence read
from `read_index`, wrapping.

### 4.5 Runtime (`ProcRuntimeProofs`)
`TickIsExhaustive`: `SchedulerInvariant` says that every proc is running, ready,
done, or in `blocked_instances` under the channel it waits on; it needs one reader
per channel (`SingleReader`), because the map has one entry per channel.
`DeadlocksAreReal`, `BlockedIsBlocked`: `ProgressInvariant` says that without progress
every proc has its turn to come or waits. `OneActivationPerTick`: `OnceInvariant`
says that the scheduler's lists hold no proc twice and share none, and that a proc
which is in one of them has completed nothing in this tick. `RuntimeRefinesNetwork`:
a step of the runtime is a step of the network or none. What has to be known of a
continuation for that is `ContinuationInvariant`: the results it keeps are those of
the nodes before its index, the next values it has noted are those of the active
ones among them, and a blocked or finished Tick leaves it there.

### 4.6 Inlining (`InlinedProcsProofs`)
`FrontierCorrect`: the activation bits are exactly at the frontier of each proc's
activation, and what the users of a receive see is what was received in that
activation (`Inv`: `Frontier`, `Past`, `Fired`, `Kept`). `AlarmIsReal`: the data-loss
assertion fails only when a channel holds more than its depth.
`InliningIsCorrect`: the container implements `TokenNetwork` under two conditions on
the procs. One is `[]ChannelsExclusive`: the sends on an inlined channel exclude each
other and so do its receives (`AttachSend` and `AttachReceive` take it for granted
when they merge them by a disjunction). The other is `LooksAtValid`: what a proc
computes does not depend on the data of a poll that found nothing; TLC evaluates it
on the instance of `proc_inlining`, and `inlined_poll` shows that it is needed.

### 4.7 Network on chip (`NocSimulatorProofs`, `NocCreditProofs`)
`FlagInvariant` says what the flags of every component mean for its connections;
from it follow `ConvergedIsCurrent` and `ChannelsWrittenOnce`. `Tour` says that a tick
that is still converged has left nothing undone behind it, so that between cycles
all is done; `Noted`, that a sender notes a cycle's credits after adding the last
cycle's. With both, `CreditLaw` is inductive: in every state, in the middle of a
tick, too, the credits granted for a virtual channel are the sender's, or on a
connection, in a link's pipelines, in flits on the way, or in the buffer
(`CreditsAreConserved`). `BuffersNeverOverflow` follows, as the other terms are not
negative, and `CreditsAddUp`, the equation between cycles that the run checks
(`CreditsConserved`). The law speaks of the sum of a pipeline by the sums of its
suffixes (`Total`); that these are what the recursive `SumOf` computes is
`TotalIsSum`, by a least index at which they would differ.

### 4.8 Host threads (`HostThreadsProofs`)
`TestbenchVerdict` and `TestbenchCancels` from `RunInvariant` (which status a worker
has at which place of its loop, and what it has covered); `InvokeResult` from
`InvokeInvariant`, for every interleaving of caller, watchdog, child and orphans.
The verdict is about the ranges that `Run` computes, and these are not the space it
is given: `RangesLeaveGaps` shows that with two threads or more, and no more
threads than indices, some index of the space is in no range (for 3 threads and 7
indices, 3 and 6), although `tools/testbench.h:63` has the space evaluated "as
[start, end)".

### 4.9 Only model-checked
- Liveness, which needs fairness and `ENABLED`: `ChainDelivers`, `ProducerIsServed`,
  `Progress`, `TickTerminates`, `ThreadsComplete`, `Drains`, `InvokeReturns`,
  `RunReturns`.
- `Converges`: not true of every network, since the number of ticks a cycle takes
  grows with the network and `max_ticks` does not.
- `DeliveredInOrder`: a flit's place in its flow is spread over a route of any
  length, so it takes an induction along the route that the provers cannot do.

## 5. What is not modelled, and why

Sequential translation and evaluation (front ends, IR, optimization passes,
solvers, netlists, delay models, Verilog text): no behaviour over time. In the
modelled parts: values of node data beyond what decides control; several state
elements per proc in `ProcRuntime` (one stands for the tuple); assertion failures
and interpreter events; queue generators inside `ProcRuntime` (they are in the
queues); the thread-unsafe JIT queue; single-value channels (plain ports) and FIFO
instantiations inside a `BlockPipeline`, and function pipelines; asserts, covers,
traces and gates inside inlined procs; statistics, routing-table construction and
traffic models of the NoC. Some error returns are outside the modelled inputs: a
value of the wrong type written to a queue, a flit for a virtual channel that its
source lacks, a NoC port that declares no virtual channel (for which the code sizes
the connection and the component differently), and calls of a runtime after a proc
has failed with an error. `PROJECT.json` lists every part, and every hazard with
the property that covers it or the reason why none does.
