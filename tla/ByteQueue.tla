-------------------------------- MODULE ByteQueue --------------------------------
(***************************************************************************)
(* The circular buffer behind the JIT's channel queues (ByteQueue in       *)
(* jit/jit_channel_queue.h and .cc) under the operations of a              *)
(* JitChannelQueue.                                                        *)
(*                                                                         *)
(* read_index, write_index and bytes_used are multiples of the allocated   *)
(* element size in the code; here they count elements ("slots").  The size *)
(* of the allocation stays in bytes, because doubling it may more than     *)
(* double the number of slots.                                             *)
(***************************************************************************)
EXTENDS Integers, Sequences

CONSTANTS
  Values, None, MaxSize,   \* as in ChannelQueue
  kInitBufferSize,                          \* bytes allocated at first
  allocated_element_size                    \* bytes of an element's slot

ASSUME ByteQueueAssumption ==
  /\ allocated_element_size \in Nat \ {0}
  /\ kInitBufferSize \in Nat /\ allocated_element_size <= kInitBufferSize
  /\ MaxSize \in Nat /\ None \notin Values

VARIABLES
  is_single_value,        \* set by the constructor
  circular_buffer,        \* the value in each slot
  buffer_size,            \* circular_buffer_.size(), in bytes
  used, read_index, write_index,
  generator, outcome      \* what the last operation returned: ChannelQueue's result

buffer_vars == <<circular_buffer, buffer_size, used, read_index, write_index>>
queue_vars == <<is_single_value, buffer_vars, generator, outcome>>

Slots(size) == size \div allocated_element_size
max_count == Slots(buffer_size)

Wrap(i, count) == IF i = count THEN 0 ELSE i

(***************************************************************************)
(* A queue is a record here so that Read can write a generated value       *)
(* first.                                                                  *)
(***************************************************************************)
Queue ==
  [buf |-> circular_buffer, size |-> buffer_size, used |-> used,
   rd |-> read_index, wr |-> write_index]

(***************************************************************************)
(* Plausible mistakes in the definition that follows each of them.         *)
(***************************************************************************)
MistakeNoRearrange(q) ==
  LET count == Slots(2 * q.size)
  IN  [q EXCEPT
         !.size = 2 * q.size,
         !.buf = [i \in 0..count - 1 |-> IF i < Slots(q.size) THEN q.buf[i] ELSE None],
         !.wr = Wrap(q.used + q.rd, count)]

Resize(q) ==
  LET count == Slots(2 * q.size)
  IN  [q EXCEPT
         !.size = 2 * q.size,
         !.buf = [i \in 0..count - 1 |->
                    IF q.used <= i /\ i < q.used + q.rd THEN q.buf[i - q.used]
                    ELSE IF i < Slots(q.size) THEN q.buf[i]
                    ELSE None],
         !.wr = Wrap(q.used + q.rd, count)]

MistakeNeverWraps(q, v) ==
  IF is_single_value
  THEN [q EXCEPT !.buf[q.wr] = v, !.used = 1]
  ELSE [q EXCEPT !.buf[q.wr] = v, !.used = q.used + 1, !.wr = q.wr + 1]

Store(q, v) ==
  IF is_single_value
  THEN [q EXCEPT !.buf[q.wr] = v, !.used = 1]
  ELSE [q EXCEPT !.buf[q.wr] = v, !.used = q.used + 1,
                 !.wr = Wrap(q.wr + 1, Slots(q.size))]

WriteQueue(q, v) ==
  Store(IF q.used = Slots(q.size) /\ ~is_single_value THEN Resize(q) ELSE q, v)

ReadQueue(q) ==
  IF q.used = 0 \/ is_single_value THEN q
  ELSE [q EXCEPT !.used = q.used - 1, !.rd = Wrap(q.rd + 1, Slots(q.size))]

SetQueue(q) ==
  /\ circular_buffer' = q.buf /\ buffer_size' = q.size
  /\ used' = q.used /\ read_index' = q.rd /\ write_index' = q.wr

QueueInit ==
  /\ is_single_value \in BOOLEAN
  /\ circular_buffer = [i \in 0..Slots(kInitBufferSize) - 1 |-> None]
  /\ buffer_size = kInitBufferSize
  /\ used = 0 /\ read_index = 0 /\ write_index = 0
  /\ generator = FALSE /\ outcome = None

AttachGenerator ==
  /\ IF generator \/ is_single_value
     THEN generator' = generator /\ outcome' = "InternalError"
     ELSE generator' = TRUE /\ outcome' = "Ok"
  /\ UNCHANGED <<is_single_value, buffer_vars>>

WriteRaw(v) ==
  /\ used < MaxSize
  /\ SetQueue(WriteQueue(Queue, v))
  /\ UNCHANGED <<is_single_value, generator, outcome>>

Write(v) ==
  /\ used < MaxSize
  /\ IF generator THEN UNCHANGED buffer_vars /\ outcome' = "InternalError"
                  ELSE SetQueue(WriteQueue(Queue, v)) /\ outcome' = "Ok"
  /\ UNCHANGED <<is_single_value, generator>>

ReadRaw(g) ==
  /\ g # None => generator /\ used < MaxSize
  /\ LET q == IF g = None THEN Queue ELSE WriteQueue(Queue, g)
     IN  /\ outcome' = IF q.used = 0 THEN None ELSE q.buf[q.rd]
         /\ SetQueue(ReadQueue(q))
  /\ UNCHANGED <<is_single_value, generator>>

QueueNext ==
  \/ AttachGenerator
  \/ \E v \in Values : WriteRaw(v) \/ Write(v)
  \/ \E g \in Values \cup {None} : ReadRaw(g)

QueueSpec == QueueInit /\ [][QueueNext]_queue_vars

--------------------------------------------------------------------------------
(***************************************************************************)
(* The indices stay inside the buffer and agree with the number of queued  *)
(* values, through every wrap-around and every reallocation.               *)
(***************************************************************************)
TypeInvariant ==
  /\ is_single_value \in BOOLEAN
  /\ buffer_size \in Nat /\ max_count \in Nat \ {0}
  /\ circular_buffer \in [0..max_count - 1 -> Values \cup {None}]
  /\ used \in 0..max_count
  /\ read_index \in 0..max_count - 1
  /\ write_index \in 0..max_count - 1
  /\ IF is_single_value THEN used <= 1 /\ read_index = 0 /\ write_index = 0
     ELSE write_index = (read_index + used) \/ write_index = (read_index + used) - max_count
  /\ generator \in BOOLEAN
  /\ outcome \in Values \cup {None, "Ok", "InternalError"}

SlotOf(i) ==
  IF read_index + i < max_count THEN read_index + i ELSE (read_index + i) - max_count

Contents == [i \in 1..used |-> circular_buffer[SlotOf(i - 1)]]

Abstract == INSTANCE ChannelQueue WITH queue <- Contents, result <- outcome

(***************************************************************************)
(* The circular buffer behaves like the interpreter's deque: the compiled  *)
(* procs and the interpreted ones see the same values in the same order.   *)
(***************************************************************************)
RefinesChannelQueue == Abstract!JitSpec

================================================================================
