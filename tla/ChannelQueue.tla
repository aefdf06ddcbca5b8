------------------------------ MODULE ChannelQueue ------------------------------
(***************************************************************************)
(* The queue of one channel instance as the interpreter implements it      *)
(* (interpreter/channel_queue.cc).  A streaming channel is a FIFO; a       *)
(* single-value channel keeps the last value written and reading does not  *)
(* remove it.  A generator, once attached, supplies the values instead of  *)
(* Write: it is asked for one at every Read.                               *)
(*                                                                         *)
(* Every operation holds the queue's mutex, so it is one step whatever the *)
(* thread.  The JIT's queues implement this specification.                 *)
(***************************************************************************)
EXTENDS Naturals, Sequences

CONSTANTS
  Values,
  None,            \* std::nullopt
  MaxSize          \* bound on the number of queued values

VARIABLES
  is_single_value, \* the channel's kind is kSingleValue; set by the constructor
  queue,           \* queue_
  generator,       \* generator_.has_value()
  result           \* what the last operation returned

vars == <<is_single_value, queue, generator, result>>

WriteInternal(q, v) == IF is_single_value THEN <<v>> ELSE Append(q, v)

ReadInternal(q) == IF q = <<>> \/ is_single_value THEN q ELSE Tail(q)

Init ==
  /\ is_single_value \in BOOLEAN
  /\ queue = <<>> /\ generator = FALSE /\ result = None

(***************************************************************************)
(* AttachGenerator fails if there is a generator already or the channel is *)
(* a single-value channel.                                                 *)
(***************************************************************************)
AttachGenerator ==
  /\ IF generator \/ is_single_value
     THEN generator' = generator /\ result' = "InternalError"
     ELSE generator' = TRUE /\ result' = "Ok"
  /\ UNCHANGED <<is_single_value, queue>>

(***************************************************************************)
(* Values are of the channel's type: the InvalidArgument that a value of   *)
(* another type is answered with, before anything changes, is left out.    *)
(***************************************************************************)
Write(v) ==
  /\ Len(queue) < MaxSize
  /\ IF generator THEN queue' = queue /\ result' = "InternalError"
                  ELSE queue' = WriteInternal(queue, v) /\ result' = "Ok"
  /\ UNCHANGED <<is_single_value, generator>>

(***************************************************************************)
(* g is what the generator returns; without a generator there is none.     *)
(***************************************************************************)
Read(g) ==
  /\ g # None => generator /\ Len(queue) < MaxSize
  /\ LET q == IF g = None THEN queue ELSE WriteInternal(queue, g)
     IN  /\ result' = IF q = <<>> THEN None ELSE Head(q)
         /\ queue' = ReadInternal(q)
  /\ UNCHANGED <<is_single_value, generator>>

Next ==
  \/ AttachGenerator
  \/ \E v \in Values : Write(v)
  \/ \E g \in Values \cup {None} : Read(g)

Spec == Init /\ [][Next]_vars

(***************************************************************************)
(* A JitChannelQueue also has WriteRaw, which compiled procs use and which *)
(* does not look for a generator.                                          *)
(***************************************************************************)
WriteRaw(v) ==
  /\ Len(queue) < MaxSize
  /\ queue' = WriteInternal(queue, v)
  /\ UNCHANGED <<is_single_value, generator, result>>

JitSpec == Init /\ [][Next \/ \E v \in Values : WriteRaw(v)]_vars

================================================================================
