----------------------------- MODULE ByteQueueProofs -----------------------------
(***************************************************************************)
(* The JIT's circular buffer implements the interpreter's queue for every  *)
(* element size, initial allocation and bound.                             *)
(*                                                                         *)
(* The argument is about one record, the queue before and after Store,     *)
(* Resize and ReadQueue: WellFormed is what TypeInvariant says of it, and  *)
(* Value is the sequence it stands for.                                    *)
(***************************************************************************)
EXTENDS ByteQueue, SequenceTheorems, TLAPS

WellFormed(q) ==
  /\ q \in [buf : [0..Slots(q.size) - 1 -> Values \cup {None}], size : Nat,
            used : 0..Slots(q.size), rd : 0..Slots(q.size) - 1, wr : 0..Slots(q.size) - 1]
  /\ Slots(q.size) \in Nat \ {0}
  /\ IF is_single_value THEN q.used <= 1 /\ q.rd = 0 /\ q.wr = 0
     ELSE q.wr = q.rd + q.used \/ q.wr = (q.rd + q.used) - Slots(q.size)

At(q, i) ==
  IF q.rd + i < Slots(q.size) THEN q.rd + i ELSE (q.rd + i) - Slots(q.size)

Value(q) == [i \in 1..q.used |-> q.buf[At(q, i - 1)]]

(***************************************************************************)
(* Doubling the allocation at least doubles the number of slots (the       *)
(* recomputation of max_byte_count_ in Resize), so the values moved from   *)
(* the front of the buffer fit behind the others.                          *)
(***************************************************************************)
LEMMA DoubleSlots ==
  ASSUME NEW s \in Nat, Slots(s) \in Nat \ {0}
  PROVE  Slots(2 * s) \in Nat /\ Slots(2 * s) >= 2 * Slots(s)
<1> DEFINE a == allocated_element_size
           q == s \div a
           d == (2 * s) \div a
<1>1. a \in Nat /\ a > 0
  BY ByteQueueAssumption
<1>2. q \in Nat /\ d \in Nat /\ a * q <= s /\ 2 * s < a * (d + 1)
  BY <1>1, SMT
<1>3. ASSUME d + 1 <= 2 * q PROVE FALSE
  <2>1. a * (d + 1) <= a * (2 * q)
    BY <1>1, <1>2, <1>3, SMT
  <2>2. a * (2 * q) = 2 * (a * q)
    BY <1>1, <1>2, SMT
  <2> QED BY <1>1, <1>2, <2>1, <2>2, SMT
<1> QED BY <1>2, <1>3 DEF Slots

(***************************************************************************)
(* Slots is a natural number.                                              *)
(***************************************************************************)
LEMMA SlotsNat ==
  ASSUME NEW s \in Nat
  PROVE  Slots(s) \in Nat
BY ByteQueueAssumption, SMT DEF Slots

(***************************************************************************)
(* Resize, called on a full queue, keeps the values and their order and    *)
(* makes room.                                                             *)
(***************************************************************************)
LEMMA ResizeKeeps ==
  ASSUME NEW q, WellFormed(q), is_single_value = FALSE, q.used = Slots(q.size)
  PROVE  /\ WellFormed(Resize(q))
         /\ Resize(q).used = q.used /\ q.used < Slots(Resize(q).size)
         /\ Value(Resize(q)) = Value(q)
<1> DEFINE n == Slots(q.size)
           m == Slots(2 * q.size)
           b == [i \in 0..m - 1 |->
                   IF q.used <= i /\ i < q.used + q.rd THEN q.buf[i - q.used]
                   ELSE IF i < n THEN q.buf[i]
                   ELSE None]
           r == Resize(q)
<1>1. /\ q.buf \in [0..n - 1 -> Values \cup {None}]
      /\ q.size \in Nat /\ n \in Nat \ {0} /\ q.used = n /\ q.rd \in 0..n - 1
  BY Zenon DEF WellFormed
<1>2. m \in Nat /\ m >= 2 * n
  BY Zenon, <1>1, DoubleSlots
<1>3. 2 * q.size \in Nat
  BY <1>1
<1>4. Wrap(q.used + q.rd, m) = n + q.rd
  <2> HIDE DEF n, m
  <2> QED BY <1>1, <1>2 DEF Wrap
<1>5. /\ r.buf = b /\ r.size = 2 * q.size /\ r.used = n /\ r.rd = q.rd /\ r.wr = n + q.rd
      /\ r = [buf |-> b, size |-> 2 * q.size, used |-> n, rd |-> q.rd, wr |-> n + q.rd]
  <2>1. q = [buf |-> q.buf, size |-> q.size, used |-> q.used, rd |-> q.rd, wr |-> q.wr]
    BY Zenon DEF WellFormed
  <2>2. r = [q EXCEPT !.size = 2 * q.size, !.buf = b, !.wr = n + q.rd]
    BY Zenon, <1>4 DEF Resize
  <2> HIDE DEF n, m, b, r
  <2> QED BY Zenon, <2>1, <2>2, <1>1
<1>6. b \in [0..m - 1 -> Values \cup {None}]
  <2> HIDE DEF n, m
  <2> QED BY <1>1, <1>2
<1>7. WellFormed(r)
  <2>1. n \in 0..m /\ q.rd \in 0..m - 1 /\ n + q.rd \in 0..m - 1 /\ m \in Nat \ {0}
    <3> HIDE DEF n, m
    <3> QED BY <1>1, <1>2
  <2>2. Slots(r.size) = m
    BY Zenon, <1>5
  <2>3. r.wr = r.rd + r.used
    <3>1. q.rd \in Int /\ n \in Int
      <4> HIDE DEF n
      <4> QED BY <1>1
    <3> HIDE DEF n, r
    <3> QED BY <3>1, <1>5
  <2> HIDE DEF n, m, b, r
  <2> QED BY Zenon, <2>1, <2>2, <2>3, <1>3, <1>5, <1>6 DEF WellFormed
<1>8. Value(r) = Value(q)
  <2>1. ASSUME NEW i \in 1..n PROVE r.buf[At(r, i - 1)] = q.buf[At(q, i - 1)]
    <3>1. At(r, i - 1) = q.rd + (i - 1)
      <4>1. Slots(r.size) = m
        BY Zenon, <1>5
      <4> HIDE DEF n, m, b, r
      <4> QED BY <4>1, <1>1, <1>2, <1>5 DEF At
    <3>2. At(q, i - 1) = IF q.rd + (i - 1) < n THEN q.rd + (i - 1) ELSE (q.rd + (i - 1)) - n
      BY Zenon DEF At
    <3>3. q.rd + (i - 1) \in 0..m - 1
      <4> HIDE DEF n, m, b, r
      <4> QED BY <1>1, <1>2
    <3>4. b[q.rd + (i - 1)] = q.buf[At(q, i - 1)]
      <4> HIDE DEF n, m
      <4> QED BY <1>1, <1>2, <3>2, <3>3
    <3> QED BY Zenon, <1>5, <3>1, <3>4
  <2> HIDE DEF n, m, b, r
  <2> QED BY Zenon, <2>1, <1>1, <1>5 DEF Value
<1>9. n < m
  <2> HIDE DEF n, m
  <2> QED BY <1>1, <1>2
<1> QED BY Zenon, <1>1, <1>5, <1>7, <1>8, <1>9

(***************************************************************************)
(* Storing into a queue that has room, or into a single-value queue, does  *)
(* what the interpreter's queue does.                                      *)
(***************************************************************************)
LEMMA StoreAppends ==
  ASSUME NEW q, WellFormed(q), is_single_value \in BOOLEAN, NEW v \in Values,
         is_single_value \/ q.used < Slots(q.size)
  PROVE  /\ WellFormed(Store(q, v))
         /\ Value(Store(q, v)) = IF is_single_value THEN <<v>> ELSE Append(Value(q), v)
<1> DEFINE n == Slots(q.size)
           b == [q.buf EXCEPT ![q.wr] = v]
           r == Store(q, v)
<1>1. /\ q.buf \in [0..n - 1 -> Values \cup {None}]
      /\ q.size \in Nat /\ n \in Nat \ {0} /\ q.used \in 0..n
      /\ q.rd \in 0..n - 1 /\ q.wr \in 0..n - 1
      /\ q = [buf |-> q.buf, size |-> q.size, used |-> q.used, rd |-> q.rd, wr |-> q.wr]
  BY Zenon DEF WellFormed
<1>2. b \in [0..n - 1 -> Values \cup {None}] /\ b[q.wr] = v
  <2> HIDE DEF n
  <2> QED BY Zenon, <1>1
<1>3. CASE is_single_value
  <2>1. q.rd = 0 /\ q.wr = 0
    BY Zenon, <1>3 DEF WellFormed
  <2>2. r = [buf |-> b, size |-> q.size, used |-> 1, rd |-> q.rd, wr |-> q.wr]
    <3>1. r = [q EXCEPT !.buf[q.wr] = v, !.used = 1]
      BY Zenon, <1>3 DEF Store
    <3> HIDE DEF n, r
    <3> QED BY Zenon, <3>1, <1>1
  <2>3. r.buf = b /\ r.size = q.size /\ r.used = 1 /\ r.rd = 0 /\ r.wr = 0
    <3> HIDE DEF n, b, r
    <3> QED BY Zenon, <2>1, <2>2
  <2>4. WellFormed(r)
    <3>1. 1 \in 0..n
      <4> HIDE DEF n
      <4> QED BY <1>1
    <3>2. Slots(r.size) = n
      BY Zenon, <2>3
    <3> HIDE DEF n, b, r
    <3> QED BY <1>1, <1>2, <1>3, <2>1, <2>2, <2>3, <3>1, <3>2 DEF WellFormed
  <2>5. Value(r) = <<v>>
    <3>1. At(r, 0) = 0
      <4>1. Slots(r.size) = n
        BY Zenon, <2>3
      <4> HIDE DEF n, b, r
      <4> QED BY <4>1, <1>1, <2>3 DEF At
    <3>2. r.buf[At(r, 0)] = v
      BY Zenon, <3>1, <2>1, <2>3, <1>2
    <3>3. Value(r) = [i \in 1..1 |-> r.buf[At(r, i - 1)]]
      BY Zenon, <2>3 DEF Value
    <3>4. ASSUME NEW i \in 1..1 PROVE r.buf[At(r, i - 1)] = v
      <4>1. i - 1 = 0
        OBVIOUS
      <4> QED BY Zenon, <4>1, <3>2
    <3> HIDE DEF r
    <3>5. Value(r) = [i \in 1..1 |-> v]
      BY Zenon, <3>3, <3>4
    <3> QED BY <3>5
  <2> QED BY Zenon, <1>3, <2>4, <2>5
<1>4. CASE ~is_single_value
  <2>1. q.used \in 0..n - 1 /\ (q.wr = q.rd + q.used \/ q.wr = (q.rd + q.used) - n)
    <3>1. q.used < n /\ (q.wr = q.rd + q.used \/ q.wr = (q.rd + q.used) - n)
      BY Zenon, <1>4 DEF WellFormed
    <3> HIDE DEF n
    <3> QED BY <1>1, <3>1
  <2> DEFINE w == Wrap(q.wr + 1, n)
  <2>2. r = [buf |-> b, size |-> q.size, used |-> q.used + 1, rd |-> q.rd, wr |-> w]
    <3>1. r = [q EXCEPT !.buf[q.wr] = v, !.used = q.used + 1, !.wr = w]
      BY Zenon, <1>4 DEF Store
    <3> HIDE DEF n, r, w
    <3> QED BY Zenon, <3>1, <1>1
  <2>3. r.buf = b /\ r.size = q.size /\ r.used = q.used + 1 /\ r.rd = q.rd /\ r.wr = w
    <3> HIDE DEF n, b, r, w
    <3> QED BY Zenon, <2>2
  <2>4. Slots(r.size) = n
    BY Zenon, <2>3
  <2>5. /\ w \in 0..n - 1 /\ q.used + 1 \in 0..n
        /\ w = q.rd + (q.used + 1) \/ w = (q.rd + (q.used + 1)) - n
    <3> HIDE DEF n
    <3> QED BY SMTT(30), <1>1, <2>1 DEF Wrap
  <2>6. WellFormed(r)
    <3> HIDE DEF n, b, r, w
    <3> QED BY Zenon, <1>1, <1>2, <1>4, <2>2, <2>3, <2>4, <2>5 DEF WellFormed
  <2>7. ASSUME NEW i \in 1..q.used PROVE r.buf[At(r, i - 1)] = q.buf[At(q, i - 1)]
    <3>1. At(r, i - 1) = At(q, i - 1)
      BY Zenon, <2>3 DEF At
    <3>2. At(q, i - 1) \in 0..n - 1 /\ At(q, i - 1) # q.wr
      <4>1. At(q, i - 1) = IF q.rd + (i - 1) < n THEN q.rd + (i - 1) ELSE (q.rd + (i - 1)) - n
        BY Zenon DEF At
      <4> HIDE DEF n
      <4> QED BY SMTT(30), <4>1, <1>1, <2>1
    <3> HIDE DEF n, r
    <3> QED BY Zenon, <3>1, <3>2, <2>3, <1>1
  <2>8. r.buf[At(r, q.used)] = v
    <3>1. At(r, q.used) = q.wr
      <4>1. At(r, q.used) = IF q.rd + q.used < n THEN q.rd + q.used ELSE (q.rd + q.used) - n
        BY Zenon, <2>3 DEF At
      <4> HIDE DEF n
      <4> QED BY <4>1, <1>1, <2>1
    <3> QED BY Zenon, <3>1, <2>3, <1>2
  <2>9. Value(r) = Append(Value(q), v)
    <3>1. /\ Value(q) = [i \in 1..q.used |-> q.buf[At(q, i - 1)]]
          /\ Value(r) = [i \in 1..q.used + 1 |-> r.buf[At(r, i - 1)]]
      BY Zenon, <2>3 DEF Value
    <3>2. q.used \in Nat
      <4> HIDE DEF n
      <4> QED BY <1>1
    <3> HIDE DEF n, b, r, w
    <3>3. ASSUME NEW i \in 1..q.used + 1
          PROVE  r.buf[At(r, i - 1)] = IF i <= q.used THEN q.buf[At(q, i - 1)] ELSE v
      <4>1. CASE i <= q.used
        <5>1. i \in 1..q.used
          BY <3>2, <4>1
        <5> QED BY Zenon, <5>1, <4>1, <2>7
      <4>2. CASE i = q.used + 1
        <5>1. i - 1 = q.used /\ ~(i <= q.used)
          BY <3>2, <4>2
        <5> QED BY Zenon, <5>1, <2>8
      <4> QED BY <3>2, <4>1, <4>2
    <3>4. Value(r) = [i \in 1..q.used + 1 |-> IF i <= q.used THEN q.buf[At(q, i - 1)] ELSE v]
      BY Zenon, <3>1, <3>3
    <3>5. Len(Value(q)) = q.used
      BY <3>1, <3>2
    <3> QED BY <3>1, <3>2, <3>4, <3>5
  <2> QED BY Zenon, <1>4, <2>6, <2>9
<1> QED BY Zenon, <1>3, <1>4

(***************************************************************************)
(* Write, with the reallocation it may need, is the interpreter's          *)
(* WriteInternal.                                                          *)
(***************************************************************************)
LEMMA WriteAppends ==
  ASSUME NEW q, WellFormed(q), is_single_value \in BOOLEAN, NEW v \in Values
  PROVE  /\ WellFormed(WriteQueue(q, v))
         /\ Value(WriteQueue(q, v)) = IF is_single_value THEN <<v>> ELSE Append(Value(q), v)
<1>1. CASE q.used = Slots(q.size) /\ ~is_single_value
  <2>1. WriteQueue(q, v) = Store(Resize(q), v)
    BY Zenon, <1>1 DEF WriteQueue
  <2>2. /\ WellFormed(Resize(q)) /\ Value(Resize(q)) = Value(q)
        /\ Resize(q).used < Slots(Resize(q).size)
    BY Zenon, <1>1, ResizeKeeps
  <2> QED BY Zenon, <2>1, <2>2, StoreAppends
<1>2. CASE ~(q.used = Slots(q.size) /\ ~is_single_value)
  <2>1. WriteQueue(q, v) = Store(q, v)
    BY Zenon, <1>2 DEF WriteQueue
  <2>2. is_single_value \/ q.used < Slots(q.size)
    <3>1. q.used \in 0..Slots(q.size) /\ Slots(q.size) \in Nat
      BY Zenon DEF WellFormed
    <3> QED BY <1>2, <3>1
  <2> QED BY Zenon, <2>1, <2>2, StoreAppends
<1> QED BY Zenon, <1>1, <1>2

(***************************************************************************)
(* What a queue stands for is a sequence of the values in its slots.       *)
(***************************************************************************)
LEMMA ValueSeq ==
  ASSUME NEW q, WellFormed(q)
  PROVE  Value(q) \in Seq(Values \cup {None}) /\ Len(Value(q)) = q.used
<1> DEFINE n == Slots(q.size)
<1>1. /\ q.buf \in [0..n - 1 -> Values \cup {None}]
      /\ n \in Nat \ {0} /\ q.used \in 0..n /\ q.rd \in 0..n - 1
  BY Zenon DEF WellFormed
<1>2. q.used \in Nat
  <2> HIDE DEF n
  <2> QED BY <1>1
<1>3. Value(q) = [i \in 1..q.used |-> q.buf[At(q, i - 1)]]
  BY Zenon DEF Value
<1>4. ASSUME NEW i \in 1..q.used
      PROVE  At(q, i - 1) \in 0..n - 1
  <2>1. At(q, i - 1) = IF q.rd + (i - 1) < n THEN q.rd + (i - 1) ELSE (q.rd + (i - 1)) - n
    BY Zenon DEF At
  <2> HIDE DEF n
  <2> QED BY <2>1, <1>1
<1>5. Value(q) \in Seq(Values \cup {None}) /\ Len(Value(q)) = q.used
  <2>1. Value(q) \in [1..q.used -> Values \cup {None}]
    <3>1. \A i \in 1..q.used : q.buf[At(q, i - 1)] \in Values \cup {None}
      <4> HIDE DEF n
      <4> QED BY Zenon, <1>1, <1>4
    <3> QED BY Zenon, <3>1, <1>3
  <2> QED BY <1>2, <2>1
<1> QED BY Zenon, <1>5

(***************************************************************************)
(* Read returns the oldest value, if there is one, and removes it from a   *)
(* streaming channel's queue.                                              *)
(***************************************************************************)
LEMMA ReadTakesHead ==
  ASSUME NEW q, WellFormed(q), is_single_value \in BOOLEAN
  PROVE  /\ WellFormed(ReadQueue(q))
         /\ Value(ReadQueue(q)) =
              IF Value(q) = <<>> \/ is_single_value THEN Value(q) ELSE Tail(Value(q))
         /\ q.used = 0 <=> Value(q) = <<>>
         /\ q.used # 0 => q.buf[q.rd] = Head(Value(q)) /\ q.buf[q.rd] \in Values \cup {None}
<1> DEFINE n == Slots(q.size)
           r == ReadQueue(q)
<1>1. /\ q.buf \in [0..n - 1 -> Values \cup {None}]
      /\ q.size \in Nat /\ n \in Nat \ {0} /\ q.used \in 0..n
      /\ q.rd \in 0..n - 1 /\ q.wr \in 0..n - 1
      /\ q = [buf |-> q.buf, size |-> q.size, used |-> q.used, rd |-> q.rd, wr |-> q.wr]
  BY Zenon DEF WellFormed
<1>2. q.used \in Nat
  <2> HIDE DEF n
  <2> QED BY <1>1
<1>3. Value(q) = [i \in 1..q.used |-> q.buf[At(q, i - 1)]]
  BY Zenon DEF Value
<1>5. Value(q) \in Seq(Values \cup {None}) /\ Len(Value(q)) = q.used
  BY Zenon, ValueSeq
<1>6. q.used = 0 <=> Value(q) = <<>>
  BY <1>2, <1>5
<1>7. CASE q.used = 0 \/ is_single_value
  <2>1. r = q
    BY Zenon, <1>7 DEF ReadQueue
  <2>2. q.used # 0 => q.buf[q.rd] = Head(Value(q)) /\ q.buf[q.rd] \in Values \cup {None}
    <3> SUFFICES ASSUME q.used # 0
                 PROVE  q.buf[q.rd] = Head(Value(q)) /\ q.buf[q.rd] \in Values \cup {None}
      BY Zenon
    <3>1. 1 \in 1..q.used
      BY <1>2
    <3>2. At(q, 1 - 1) = q.rd
      <4>1. At(q, 0) = IF q.rd + 0 < n THEN q.rd + 0 ELSE (q.rd + 0) - n
        BY Zenon DEF At
      <4> HIDE DEF n
      <4> QED BY <4>1, <1>1
    <3>3. Value(q)[1] = q.buf[q.rd]
      BY Zenon, <1>3, <3>1, <3>2
    <3>4. Head(Value(q)) = Value(q)[1]
      BY <1>5, <1>6
    <3>5. q.buf[q.rd] \in Values \cup {None}
      <4> HIDE DEF n
      <4> QED BY Zenon, <1>1
    <3> QED BY Zenon, <3>3, <3>4, <3>5
  <2> QED BY Zenon, <1>6, <1>7, <2>1, <2>2
<1>8. CASE q.used # 0 /\ ~is_single_value
  <2> DEFINE d == Wrap(q.rd + 1, n)
  <2>1. r = [buf |-> q.buf, size |-> q.size, used |-> q.used - 1, rd |-> d, wr |-> q.wr]
    <3>1. r = [q EXCEPT !.used = q.used - 1, !.rd = d]
      BY Zenon, <1>8 DEF ReadQueue
    <3> HIDE DEF n, r, d
    <3> QED BY Zenon, <3>1, <1>1
  <2>2. /\ r.buf = q.buf /\ r.size = q.size /\ r.used = q.used - 1 /\ r.rd = d
        /\ r.wr = q.wr /\ Slots(r.size) = n
    <3>1. /\ r.buf = q.buf /\ r.size = q.size /\ r.used = q.used - 1 /\ r.rd = d
          /\ r.wr = q.wr
      <4> HIDE DEF n, r, d
      <4> QED BY Zenon, <2>1
    <3> QED BY Zenon, <3>1
  <2>3. q.wr = q.rd + q.used \/ q.wr = (q.rd + q.used) - n
    BY Zenon, <1>8 DEF WellFormed
  <2>4. /\ d \in 0..n - 1 /\ q.used - 1 \in 0..n
        /\ q.wr = d + (q.used - 1) \/ q.wr = (d + (q.used - 1)) - n
    <3> HIDE DEF n
    <3> QED BY SMTT(30), <1>1, <1>8, <2>3 DEF Wrap
  <2>5. WellFormed(r)
    <3> HIDE DEF n, r, d
    <3> QED BY Zenon, <1>1, <1>8, <2>1, <2>2, <2>4 DEF WellFormed
  <2>6. ASSUME NEW i \in 1..q.used - 1 PROVE At(r, i - 1) = At(q, (i + 1) - 1)
    <3>1. /\ At(r, i - 1) = IF d + (i - 1) < n THEN d + (i - 1) ELSE (d + (i - 1)) - n
          /\ At(q, (i + 1) - 1) = IF q.rd + ((i + 1) - 1) < n THEN q.rd + ((i + 1) - 1)
                                  ELSE (q.rd + ((i + 1) - 1)) - n
      BY Zenon, <2>2 DEF At
    <3> HIDE DEF n
    <3> QED BY SMTT(30), <3>1, <1>1 DEF Wrap
  <2>7. Value(r) = Tail(Value(q))
    <3>1. Value(r) = [i \in 1..q.used - 1 |-> q.buf[At(r, i - 1)]]
      BY Zenon, <2>2 DEF Value
    <3>2. /\ Tail(Value(q)) \in Seq(Values \cup {None}) /\ Len(Tail(Value(q))) = q.used - 1
          /\ \A i \in 1..q.used - 1 : Tail(Value(q))[i] = Value(q)[i + 1]
      BY Zenon, <1>5, <1>6, <1>8, HeadTailProperties
    <3>3. Value(r) \in Seq(Values \cup {None}) /\ Len(Value(r)) = q.used - 1
      BY Zenon, <2>2, <2>5, ValueSeq
    <3>4. ASSUME NEW i \in 1..q.used - 1 PROVE Value(r)[i] = Value(q)[i + 1]
      <4>1. i + 1 \in 1..q.used
        BY <1>2
      <4> HIDE DEF n, r, d
      <4> QED BY Zenon, <4>1, <1>3, <2>6, <3>1
    <3> HIDE DEF r
    <3> QED BY Zenon, <3>2, <3>3, <3>4, SeqEqual
  <2>8. q.buf[q.rd] = Head(Value(q)) /\ q.buf[q.rd] \in Values \cup {None}
    <3>1. 1 \in 1..q.used
      BY <1>2, <1>8
    <3>2. At(q, 1 - 1) = q.rd
      <4>1. At(q, 0) = IF q.rd + 0 < n THEN q.rd + 0 ELSE (q.rd + 0) - n
        BY Zenon DEF At
      <4> HIDE DEF n
      <4> QED BY <4>1, <1>1
    <3>3. Value(q)[1] = q.buf[q.rd]
      BY Zenon, <1>3, <3>1, <3>2
    <3>4. Head(Value(q)) = Value(q)[1]
      BY <1>5, <1>6, <1>8
    <3>5. q.buf[q.rd] \in Values \cup {None}
      <4> HIDE DEF n
      <4> QED BY Zenon, <1>1
    <3> QED BY Zenon, <3>3, <3>4, <3>5
  <2> QED BY Zenon, <1>6, <1>8, <2>5, <2>7, <2>8
<1> QED BY Zenon, <1>7, <1>8

--------------------------------------------------------------------------------
(***************************************************************************)
(* The record Queue carries what TypeInvariant says of the variables, and  *)
(* stands for Contents.                                                    *)
(***************************************************************************)
LEMMA QueueOfState ==
  /\ TypeInvariant <=> /\ is_single_value \in BOOLEAN /\ WellFormed(Queue)
                       /\ generator \in BOOLEAN
                       /\ outcome \in Values \cup {None, "Ok", "InternalError"}
  /\ Contents = Value(Queue)
<1>1. /\ Queue.buf = circular_buffer /\ Queue.size = buffer_size /\ Queue.used = used
      /\ Queue.rd = read_index /\ Queue.wr = write_index
      /\ Slots(Queue.size) = max_count
  BY Zenon DEF Queue, max_count
<1>2. Contents = Value(Queue)
  BY Zenon, <1>1 DEF Contents, Value, SlotOf, At
<1>3. WellFormed(Queue) <=>
        /\ buffer_size \in Nat /\ max_count \in Nat \ {0}
        /\ circular_buffer \in [0..max_count - 1 -> Values \cup {None}]
        /\ used \in 0..max_count
        /\ read_index \in 0..max_count - 1
        /\ write_index \in 0..max_count - 1
        /\ IF is_single_value THEN used <= 1 /\ read_index = 0 /\ write_index = 0
           ELSE write_index = (read_index + used) \/ write_index = (read_index + used) - max_count
  BY Zenon, <1>1 DEF WellFormed, Queue
<1> QED BY Zenon, <1>2, <1>3 DEF TypeInvariant

(***************************************************************************)
(* SetQueue(q) makes q the queue of the next state.                        *)
(***************************************************************************)
LEMMA QueueSet ==
  ASSUME NEW q, WellFormed(q), SetQueue(q), is_single_value' = is_single_value
  PROVE  WellFormed(Queue)' /\ Contents' = Value(q) /\ Queue' = q
<1>1. Queue' = q
  BY Zenon DEF SetQueue, Queue, WellFormed
<1>2. WellFormed(Queue)'
  BY Zenon, <1>1 DEF WellFormed
<1>3. Contents' = Value(Queue)'
  BY Zenon DEF Contents, SlotOf, max_count, Value, At, Queue
<1>4. Value(Queue)' = Value(q)
  BY Zenon, <1>1 DEF Value, At
<1> QED BY Zenon, <1>1, <1>2, <1>3, <1>4

(***************************************************************************)
(* One step: the state stays well formed and the interpreter's queue takes *)
(* the corresponding step.                                                 *)
(***************************************************************************)
LEMMA QueueStep ==
  ASSUME TypeInvariant, [QueueNext]_queue_vars
  PROVE  /\ TypeInvariant'
         /\ [Abstract!Next \/ \E v \in Values : Abstract!WriteRaw(v)]_(Abstract!vars)
<1> DEFINE Results == Values \cup {None, "Ok", "InternalError"}
           AbstractNext == Abstract!Next \/ \E v \in Values : Abstract!WriteRaw(v)
<1>1. /\ is_single_value \in BOOLEAN /\ WellFormed(Queue)
      /\ generator \in BOOLEAN /\ outcome \in Results
      /\ Contents = Value(Queue) /\ Len(Contents) = used
  <2>1. Queue.used = used
    BY Zenon DEF Queue
  <2> QED BY Zenon, <2>1, QueueOfState, ValueSeq
<1>2. ASSUME is_single_value' = is_single_value, WellFormed(Queue)',
             generator' \in BOOLEAN, outcome' \in Results
      PROVE  TypeInvariant'
  <2>1. /\ (Queue').buf = circular_buffer' /\ (Queue').size = buffer_size'
        /\ (Queue').used = used' /\ (Queue').rd = read_index' /\ (Queue').wr = write_index'
        /\ Slots((Queue').size) = max_count'
    BY Zenon DEF Queue, max_count
  <2> QED BY Zenon, <1>1, <1>2, <2>1 DEF TypeInvariant, WellFormed
<1>3. ASSUME UNCHANGED <<is_single_value, buffer_vars>>
      PROVE  /\ is_single_value' = is_single_value /\ WellFormed(Queue)'
             /\ Contents' = Contents
  BY Zenon, <1>1, <1>3 DEF buffer_vars, Queue, WellFormed, Contents, SlotOf, max_count
<1>4. CASE AttachGenerator
  <2>1. Abstract!AttachGenerator
    BY Zenon, <1>3, <1>4 DEF AttachGenerator, Abstract!AttachGenerator
  <2>2. TypeInvariant'
    BY Zenon, <1>1, <1>2, <1>3, <1>4 DEF AttachGenerator
  <2> QED BY Zenon, <2>1, <2>2 DEF Abstract!Next
<1>5. ASSUME NEW v \in Values, WriteRaw(v)
      PROVE  TypeInvariant' /\ Abstract!WriteRaw(v)
  <2>1. /\ WellFormed(WriteQueue(Queue, v))
        /\ Value(WriteQueue(Queue, v)) = IF is_single_value THEN <<v>> ELSE Append(Contents, v)
    BY Zenon, <1>1, WriteAppends
  <2>2. SetQueue(WriteQueue(Queue, v)) /\ is_single_value' = is_single_value
    BY Zenon, <1>5 DEF WriteRaw
  <2>3. WellFormed(Queue)' /\ Contents' = Value(WriteQueue(Queue, v))
    BY Zenon, <2>1, <2>2, QueueSet
  <2>4. TypeInvariant'
    BY Zenon, <1>1, <1>2, <1>5, <2>2, <2>3 DEF WriteRaw
  <2> QED BY Zenon, <1>1, <1>5, <2>1, <2>3, <2>4
          DEF WriteRaw, Abstract!WriteRaw, Abstract!WriteInternal
<1>6. ASSUME NEW v \in Values, Write(v)
      PROVE  TypeInvariant' /\ Abstract!Write(v)
  <2>1. CASE generator
    <3>1. UNCHANGED <<is_single_value, buffer_vars>> /\ generator' = generator /\ outcome' = "InternalError"
      BY Zenon, <1>6, <2>1 DEF Write
    <3>2. TypeInvariant'
      BY Zenon, <1>1, <1>2, <1>3, <3>1
    <3> QED BY Zenon, <1>1, <1>3, <1>6, <2>1, <3>1, <3>2 DEF Write, Abstract!Write
  <2>2. CASE ~generator
    <3>1. /\ WellFormed(WriteQueue(Queue, v))
          /\ Value(WriteQueue(Queue, v)) = IF is_single_value THEN <<v>> ELSE Append(Contents, v)
      BY Zenon, <1>1, WriteAppends
    <3>2. /\ SetQueue(WriteQueue(Queue, v)) /\ is_single_value' = is_single_value
          /\ generator' = generator /\ outcome' = "Ok"
      BY Zenon, <1>6, <2>2 DEF Write
    <3>3. WellFormed(Queue)' /\ Contents' = Value(WriteQueue(Queue, v))
      BY Zenon, <3>1, <3>2, QueueSet
    <3>4. TypeInvariant'
      BY Zenon, <1>1, <1>2, <3>2, <3>3
    <3> QED BY Zenon, <1>1, <1>6, <2>2, <3>1, <3>2, <3>3, <3>4
            DEF Write, Abstract!Write, Abstract!WriteInternal
  <2> QED BY Zenon, <2>1, <2>2
<1>7. ASSUME NEW g \in Values \cup {None}, ReadRaw(g)
      PROVE  TypeInvariant' /\ Abstract!Read(g)
  <2> DEFINE q == IF g = None THEN Queue ELSE WriteQueue(Queue, g)
             s == IF g = None THEN Contents
                  ELSE IF is_single_value THEN <<g>> ELSE Append(Contents, g)
  <2>1. WellFormed(q) /\ Value(q) = s
    BY Zenon, <1>1, WriteAppends
  <2>2. /\ outcome' = IF q.used = 0 THEN None ELSE q.buf[q.rd]
        /\ SetQueue(ReadQueue(q)) /\ is_single_value' = is_single_value
        /\ generator' = generator /\ (g # None => generator /\ used < MaxSize)
    BY Zenon, <1>7 DEF ReadRaw
  <2> HIDE DEF q
  <2>3. /\ WellFormed(ReadQueue(q))
        /\ Value(ReadQueue(q)) =
             IF Value(q) = <<>> \/ is_single_value THEN Value(q) ELSE Tail(Value(q))
        /\ outcome' = IF Value(q) = <<>> THEN None ELSE Head(Value(q))
        /\ outcome' \in Results
    BY Zenon, <1>1, <2>1, <2>2, ReadTakesHead
  <2>4. WellFormed(Queue)' /\ Contents' = Value(ReadQueue(q))
    BY Zenon, <2>2, <2>3, QueueSet
  <2>5. TypeInvariant'
    BY Zenon, <1>1, <1>2, <2>2, <2>3, <2>4
  <2>6. /\ Contents' = IF s = <<>> \/ is_single_value THEN s ELSE Tail(s)
        /\ outcome' = IF s = <<>> THEN None ELSE Head(s)
    BY Zenon, <2>1, <2>3, <2>4
  <2> QED BY Zenon, <1>1, <2>2, <2>5, <2>6
          DEF Abstract!Read, Abstract!WriteInternal, Abstract!ReadInternal
<1>8. CASE UNCHANGED queue_vars
  <2>1. UNCHANGED <<is_single_value, buffer_vars, generator, outcome>>
    BY Zenon, <1>8 DEF queue_vars
  <2>2. UNCHANGED Abstract!vars
    BY Zenon, <1>3, <2>1 DEF Abstract!vars
  <2>3. TypeInvariant'
    BY Zenon, <1>1, <1>2, <1>3, <2>1
  <2> QED BY Zenon, <2>2, <2>3
<1> QED BY Zenon, <1>4, <1>5, <1>6, <1>7, <1>8 DEF QueueNext, Abstract!Next

(***************************************************************************)
(* The initial queue is empty and well formed.                             *)
(***************************************************************************)
LEMMA QueueStart ==
  ASSUME QueueInit
  PROVE  TypeInvariant /\ Abstract!Init
<1>1. Slots(kInitBufferSize) \in Nat \ {0}
  <2>1. /\ allocated_element_size \in Nat /\ allocated_element_size > 0
        /\ kInitBufferSize \in Nat /\ allocated_element_size <= kInitBufferSize
    BY ByteQueueAssumption
  <2> QED BY <2>1, SMT DEF Slots
<1>2. TypeInvariant
  <2>1. /\ buffer_size \in Nat /\ max_count \in Nat \ {0}
        /\ circular_buffer \in [0..max_count - 1 -> Values \cup {None}]
    BY Zenon, <1>1, ByteQueueAssumption DEF QueueInit, max_count
  <2>2. used = 0 /\ read_index = 0 /\ write_index = 0 /\ is_single_value \in BOOLEAN
    BY Zenon DEF QueueInit
  <2>3. generator \in BOOLEAN /\ outcome \in Values \cup {None, "Ok", "InternalError"}
    BY Zenon DEF QueueInit
  <2> HIDE DEF max_count
  <2> QED BY <2>1, <2>2, <2>3 DEF TypeInvariant
<1>3. Contents = <<>>
  BY DEF QueueInit, Contents
<1> QED BY Zenon, <1>2, <1>3 DEF QueueInit, Abstract!Init

(***************************************************************************)
(* read_index_, write_index_ and bytes_used_ stay in the buffer and agree, *)
(* for every element size and initial allocation.                          *)
(***************************************************************************)
THEOREM TypeCorrect == QueueSpec => []TypeInvariant
BY QueueStart, QueueStep, PTL DEF QueueSpec

(***************************************************************************)
(* The JIT's queue of a channel, with its circular buffer and its          *)
(* reallocations, implements the interpreter's queue.                      *)
(***************************************************************************)
THEOREM ByteQueueIsAChannelQueue == QueueSpec => RefinesChannelQueue
<1>1. QueueInit => Abstract!Init
  BY Zenon, QueueStart
<1>2. TypeInvariant /\ [QueueNext]_queue_vars
        => [Abstract!Next \/ \E v \in Values : Abstract!WriteRaw(v)]_(Abstract!vars)
  BY Zenon, QueueStep
<1> QED BY <1>1, <1>2, TypeCorrect, PTL DEF QueueSpec, RefinesChannelQueue, Abstract!JitSpec

================================================================================
