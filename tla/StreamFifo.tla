------------------------------- MODULE StreamFifo -------------------------------
(***************************************************************************)
(* What every buffer on a streaming channel promises: it is a first-in     *)
(* first-out queue of at most Capacity values that loses, duplicates and   *)
(* reorders nothing, offers its oldest value as soon as it has one, and    *)
(* takes a value whenever it has room.  A bypassing buffer offers an       *)
(* incoming value in the cycle it arrives.                                 *)
(***************************************************************************)
EXTENDS ReadyValidPorts, Naturals

CONSTANT Capacity    \* a natural number

VARIABLES
  Bypass,        \* a Boolean that never changes
  q,             \* the values taken and not yet passed on, oldest first
  to_valid,      \* the buffer offers to_data to the consumer
  to_data,
  from_rdy       \* the buffer takes the producer's offer

vars == <<ports, Bypass, q, to_valid, to_data, from_rdy>>

Pushed == from_valid /\ from_rdy
Popped == to_valid /\ to_ready

(***************************************************************************)
(* What the buffer drives on its ports when it holds q.                    *)
(***************************************************************************)
Promise ==
  /\ to_valid = (q # <<>> \/ (Bypass /\ from_valid))
  /\ to_valid => to_data = IF q # <<>> THEN Head(q) ELSE from_data
  /\ from_valid /\ Len(q) < Capacity => from_rdy
  /\ Pushed => Len(q) < Capacity \/ Popped

Init ==
  /\ PortsType
  /\ Bypass \in BOOLEAN
  /\ q = <<>>
  /\ Promise

(***************************************************************************)
(* One clock edge: the offer taken joins the queue, the value passed on    *)
(* leaves it, and a reset empties it.                                      *)
(***************************************************************************)
Clock ==
  /\ q' = IF rst THEN <<>>
          ELSE LET in == IF Pushed THEN Append(q, from_data) ELSE q
               IN  IF Popped THEN Tail(in) ELSE in
  /\ EnvNext(Pushed)
  /\ UNCHANGED Bypass
  /\ Promise'

Spec == Init /\ [][Clock]_vars

================================================================================
