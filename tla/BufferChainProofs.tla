---------------------------- MODULE BufferChainProofs ----------------------------
(***************************************************************************)
(* For every set of values and every depth of the FIFO: each of the four   *)
(* buffers of a streaming channel is the queue it stands for, the chain of *)
(* them is an environment in which each may rely on its producer, and the  *)
(* chain as a whole is a queue, whatever the block behind it receives.     *)
(***************************************************************************)
EXTENDS BufferChain, SequenceTheorems, TLAPS

USE DEF input_ready_and_valid, from_skid_rdy

--------------------------------------------------------------------------------
(***************************************************************************)
(* What a queue does in one cycle: the value d pushed joins q at its end,  *)
(* and the value out popped is the oldest, which may be the one that was   *)
(* just pushed.                                                            *)
(***************************************************************************)
Moves(q, next, pushed, d, popped, out) ==
  LET in == IF pushed THEN Append(q, d) ELSE q
  IN  /\ next = IF popped THEN Tail(in) ELSE in
      /\ popped => in # <<>> /\ out = Head(in)

(***************************************************************************)
(* Moving the oldest value of a queue to the end of the one before it      *)
(* leaves the two together as they were.                                   *)
(***************************************************************************)
LEMMA HandOver ==
  ASSUME NEW S, NEW a \in Seq(S), NEW x \in Seq(S), x # <<>>
  PROVE  Append(a, Head(x)) \o Tail(x) = a \o x
<1> DEFINE l == Append(a, Head(x)) \o Tail(x)
           r == a \o x
<1>1. /\ Head(x) = x[1] /\ Head(x) \in S
      /\ Tail(x) \in Seq(S) /\ Len(Tail(x)) = Len(x) - 1
      /\ \A i \in 1 .. Len(Tail(x)) : Tail(x)[i] = x[i + 1]
  BY HeadTailProperties
<1>2. /\ Append(a, Head(x)) \in Seq(S) /\ Len(Append(a, Head(x))) = Len(a) + 1
      /\ \A i \in 1 .. Len(a) : Append(a, Head(x))[i] = a[i]
      /\ Append(a, Head(x))[Len(a) + 1] = x[1]
  BY <1>1, AppendProperties
<1>3. /\ l \in Seq(S) /\ Len(l) = (Len(a) + 1) + (Len(x) - 1)
      /\ \A i \in 1 .. Len(l) :
           l[i] = IF i <= Len(a) + 1 THEN Append(a, Head(x))[i] ELSE Tail(x)[i - (Len(a) + 1)]
  BY <1>1, <1>2, ConcatProperties
<1>4. /\ r \in Seq(S) /\ Len(r) = Len(a) + Len(x)
      /\ \A i \in 1 .. Len(r) : r[i] = IF i <= Len(a) THEN a[i] ELSE x[i - Len(a)]
  BY Zenon, ConcatProperties
<1> HIDE DEF l, r
<1>5. Len(a) \in Nat /\ Len(x) \in Nat /\ Len(l) = Len(r)
  BY <1>3, <1>4, LenProperties
<1>6. \A i \in 1 .. Len(l) : l[i] = r[i]
  <2> SUFFICES ASSUME NEW i \in 1 .. Len(l) PROVE l[i] = r[i]
    BY Zenon
  <2>1. CASE i <= Len(a)
    BY SMTT(30), <2>1, <1>2, <1>3, <1>4, <1>5
  <2>2. CASE i = Len(a) + 1
    BY <2>2, <1>2, <1>3, <1>4, <1>5
  <2>3. CASE i > Len(a) + 1
    <3>1. i - (Len(a) + 1) \in 1 .. Len(Tail(x)) /\ (i - (Len(a) + 1)) + 1 = i - Len(a)
      BY <2>3, <1>1, <1>3, <1>5
    <3>2. l[i] = Tail(x)[i - (Len(a) + 1)] /\ r[i] = x[i - Len(a)]
      BY <2>3, <1>3, <1>4, <1>5
    <3> QED BY Zenon, <1>1, <3>1, <3>2
  <2> QED BY <2>1, <2>2, <2>3, <1>5
<1>7. l = r
  BY Zenon, <1>3, <1>4, <1>5, <1>6, SeqEqual
<1> QED BY Zenon, <1>7 DEF l, r

(***************************************************************************)
(* Concatenation and the two ends of a queue.                              *)
(***************************************************************************)
LEMMA FrontOfConcat ==
  ASSUME NEW S, NEW a \in Seq(S), NEW b \in Seq(S), a # <<>>
  PROVE  a \o b # <<>> /\ Head(a \o b) = Head(a) /\ Tail(a \o b) = Tail(a) \o b
<1> DEFINE c == a \o b
           l == Tail(c)
           r == Tail(a) \o b
<1>1. /\ c \in Seq(S) /\ Len(c) = Len(a) + Len(b)
      /\ \A i \in 1 .. Len(c) : c[i] = IF i <= Len(a) THEN a[i] ELSE b[i - Len(a)]
  BY Zenon, ConcatProperties
<1>2. Len(a) \in Nat \ {0} /\ Len(b) \in Nat
  BY Zenon, EmptySeq, LenProperties
<1>3. /\ Tail(a) \in Seq(S) /\ Len(Tail(a)) = Len(a) - 1
      /\ \A i \in 1 .. Len(Tail(a)) : Tail(a)[i] = a[i + 1]
  BY Zenon, HeadTailProperties
<1> HIDE DEF c
<1>4. c # <<>> /\ Head(c) = c[1] /\ Head(a) = a[1] /\ c[1] = a[1]
  BY <1>1, <1>2
<1>5. l \in Seq(S) /\ Len(l) = Len(c) - 1 /\ \A i \in 1 .. Len(l) : l[i] = c[i + 1]
  BY Zenon, <1>1, <1>4, HeadTailProperties
<1>6. /\ r \in Seq(S) /\ Len(r) = (Len(a) - 1) + Len(b)
      /\ \A i \in 1 .. Len(r) : r[i] = IF i <= Len(a) - 1 THEN Tail(a)[i] ELSE b[i - (Len(a) - 1)]
  BY <1>3, ConcatProperties
<1> HIDE DEF l, r
<1>7. \A i \in 1 .. Len(l) : l[i] = r[i]
  <2> SUFFICES ASSUME NEW i \in 1 .. Len(l) PROVE l[i] = r[i]
    BY Zenon
  <2>1. CASE i <= Len(a) - 1
    BY <2>1, <1>1, <1>2, <1>3, <1>5, <1>6
  <2>2. CASE i > Len(a) - 1
    <3>1. (i + 1) - Len(a) = i - (Len(a) - 1)
      BY <1>2, <1>5
    <3>2. l[i] = b[(i + 1) - Len(a)] /\ r[i] = b[i - (Len(a) - 1)]
      BY <2>2, <1>1, <1>2, <1>5, <1>6
    <3> QED BY Zenon, <3>1, <3>2
  <2> QED BY <2>1, <2>2, <1>2
<1>8. l = r
  BY SMTT(30), <1>1, <1>2, <1>5, <1>6, <1>7, SeqEqual
<1> QED BY Zenon, <1>4, <1>8 DEF c, l, r

(***************************************************************************)
(* Appending to the last of two queues appends to both of them together.   *)
(***************************************************************************)
LEMMA BackOfConcat ==
  ASSUME NEW S, NEW a \in Seq(S), NEW b \in Seq(S), NEW d \in S
  PROVE  a \o Append(b, d) = Append(a \o b, d)
<1>1. Append(b, d) = b \o <<d>> /\ <<d>> \in Seq(S)
  BY AppendIsConcat
<1>2. a \o b \in Seq(S) /\ Append(a \o b, d) = (a \o b) \o <<d>>
  BY Zenon, AppendIsConcat, ConcatProperties
<1> QED BY <1>1, <1>2, ConcatAssociative

(***************************************************************************)
(* Two queues one behind the other, the first of which pushes what the     *)
(* second pops, are together a queue.                                      *)
(***************************************************************************)
LEMMA QueuesCompose ==
  ASSUME NEW S, NEW a \in Seq(S), NEW a2, NEW b \in Seq(S), NEW b2,
         NEW pushed, NEW d \in S, NEW between, NEW m, NEW popped, NEW out,
         Moves(a, a2, between, m, popped, out),
         Moves(b, b2, pushed, d, between, m)
  PROVE  Moves(a \o b, a2 \o b2, pushed, d, popped, out)
<1> DEFINE x == IF pushed THEN Append(b, d) ELSE b
           y == IF between THEN Append(a, m) ELSE a
           z == IF pushed THEN Append(a \o b, d) ELSE a \o b
<1>1. x \in Seq(S) /\ z = a \o x
  <2>1. Append(b, d) \in Seq(S) /\ a \o Append(b, d) = Append(a \o b, d)
    BY BackOfConcat, AppendProperties
  <2>2. CASE pushed
    BY Zenon, <2>1, <2>2
  <2>3. CASE ~pushed
    BY Zenon, <2>3
  <2> QED BY Zenon, <2>2, <2>3
<1>2. /\ b2 = IF between THEN Tail(x) ELSE x
      /\ between => x # <<>> /\ m = Head(x)
      /\ a2 = IF popped THEN Tail(y) ELSE y
      /\ popped => y # <<>> /\ out = Head(y)
  BY Zenon DEF Moves
<1> HIDE DEF x
<1>3. b2 \in Seq(S) /\ (between => m \in S)
  BY Zenon, <1>1, <1>2, HeadTailProperties
<1>4. y \in Seq(S)
  BY Zenon, <1>3, AppendProperties
<1>5. y \o b2 = z
  BY Zenon, <1>1, <1>2, HandOver DEF y
<1> HIDE DEF y, z
<1>6. popped => z # <<>> /\ Head(z) = Head(y) /\ Tail(z) = Tail(y) \o b2
  BY ZenonT(30), <1>2, <1>3, <1>4, <1>5, FrontOfConcat
<1>7. a2 \o b2 = IF popped THEN Tail(z) ELSE z
  BY Zenon, <1>2, <1>5, <1>6
<1> QED BY Zenon, <1>2, <1>6, <1>7 DEF Moves, z

--------------------------------------------------------------------------------
(***************************************************************************)
(* Appending to a one-place queue gives the two-place queue of the         *)
(* refinement mapping.                                                     *)
(***************************************************************************)
LEMMA AppendToOne ==
  ASSUME NEW S, NEW a \in S, NEW b \in S
  PROVE  Append(<<a>>, b) = <<a, b>>
<1> DEFINE s == Append(<<a>>, b)
<1>1. s \in Seq(S) /\ Len(s) = 2 /\ s[1] = a /\ s[2] = b
  OBVIOUS
<1>2. <<a, b>> \in Seq(S) /\ Len(<<a, b>>) = 2
  OBVIOUS
<1>3. \A i \in 1 .. Len(s) : s[i] = <<a, b>>[i]
  BY <1>1
<1> HIDE DEF s
<1>4. s = <<a, b>>
  BY Zenon, <1>1, <1>2, <1>3, SeqEqual
<1>5. QED
  BY Zenon, <1>4 DEF s

(***************************************************************************)
(* Pushing to and popping from a one-place queue.                          *)
(***************************************************************************)
LEMMA OnePlace ==
  ASSUME NEW S, NEW a \in S, NEW b \in S
  PROVE  /\ <<a>> # <<>> /\ Head(<<a>>) = a /\ Tail(<<a>>) = <<>> /\ Len(<<a>>) = 1
         /\ Append(<<>>, a) = <<a>> /\ Tail(Append(<<a>>, b)) = <<b>>
<1>1. Append(<<a>>, b) = <<a, b>>
  BY Zenon, AppendToOne
<1>2. Tail(<<a, b>>) = <<b>>
  OBVIOUS
<1>3. <<a>> # <<>> /\ Head(<<a>>) = a /\ Tail(<<a>>) = <<>> /\ Len(<<a>>) = 1
  OBVIOUS
<1>4. Append(<<>>, a) = <<a>>
  OBVIOUS
<1> QED BY Zenon, <1>1, <1>2, <1>3, <1>4

(***************************************************************************)
(* A clock edge keeps the types, and the skid pair is occupied only with   *)
(* the data pair.                                                          *)
(***************************************************************************)
LEMMA SkidType == TypeInvariant /\ Next => TypeInvariant'
  <1> SUFFICES ASSUME TypeInvariant, Next PROVE TypeInvariant'
    BY Zenon
  <1> USE DEF TypeInvariant, PortsType, EnvNext
  <1>1. CASE Reset /\ EnvNext(input_ready_and_valid)
    BY Zenon, <1>1, DataAssumption DEF Reset
  <1>2. CASE Load /\ EnvNext(input_ready_and_valid)
    BY Zenon, <1>2 DEF Load, valid_load_en, data_is_sent_to, skid_data_load_en,
                skid_valid_set_zero, skid_valid_load_en
  <1> QED BY Zenon, <1>1, <1>2 DEF Next

(***************************************************************************)
(* The registers keep their types and the skid pair is occupied only with  *)
(* the data pair, through every clock edge of AddSkidBufferToRDVNodes.     *)
(***************************************************************************)
LEMMA TypeCorrect == Spec => []TypeInvariant
<1>1. Init => TypeInvariant
  BY Zenon, DataAssumption DEF Init, TypeInvariant, PortsType
<1>2. TypeInvariant /\ UNCHANGED vars => TypeInvariant'
  BY DEF vars, ports, regs, TypeInvariant, PortsType
<1>3. QED
  BY <1>1, <1>2, SkidType, PTL DEF Spec

(***************************************************************************)
(* What the ports show agrees with the queue the registers stand for.      *)
(***************************************************************************)
LEMMA PortsKeepPromise == TypeInvariant => Fifo!Promise
  <1> SUFFICES ASSUME TypeInvariant PROVE Fifo!Promise
    BY Zenon
  <1> USE DEF TypeInvariant, PortsType, Fifo!Promise, Fifo!Pushed,
              Fifo!Popped, Contents, to_valid, to_data
  <1>1. CASE data_valid_skid_reg
    BY <1>1
  <1>2. CASE ~data_valid_skid_reg /\ data_valid_reg
    BY <1>2
  <1>3. CASE ~data_valid_skid_reg /\ ~data_valid_reg
    BY <1>3
  <1>4. QED
    BY Zenon, <1>1, <1>2, <1>3

(***************************************************************************)
(* Every clock edge of the skid buffer is one of the queue.                *)
(***************************************************************************)
LEMMA SkidClock ==
  TypeInvariant /\ Next => TypeInvariant' /\ Fifo!Clock
  <1> SUFFICES ASSUME TypeInvariant, Next PROVE TypeInvariant' /\ Fifo!Clock
    BY Zenon
  <1>0. TypeInvariant'
    BY Zenon, SkidType
  <1>1. Fifo!Promise'
    BY <1>0, PortsKeepPromise, PTL
  <1> USE DEF TypeInvariant, PortsType, Contents, to_valid, to_data
  <1>2. CASE Reset /\ EnvNext(input_ready_and_valid)
    BY Zenon, <1>0, <1>1, <1>2 DEF Reset, Fifo!Clock, EnvNext, Fifo!EnvNext, Fifo!Pushed, ProducerHolds, Fifo!ProducerHolds
  <1>3. CASE Load /\ EnvNext(input_ready_and_valid)
    <2>1. Fifo!EnvNext(Fifo!Pushed)
      BY Zenon, <1>3 DEF EnvNext, Fifo!EnvNext, Fifo!Pushed, ProducerHolds, Fifo!ProducerHolds
    <2> DEFINE in == IF Fifo!Pushed THEN Append(Contents, from_data) ELSE Contents
    <2>2. Contents' = IF Fifo!Popped THEN Tail(in) ELSE in
      <3> USE <1>3 DEF Load, valid_load_en, data_is_sent_to, skid_data_load_en,
                skid_valid_set_zero, skid_valid_load_en, Fifo!Pushed, Fifo!Popped
      <3>1. CASE data_valid_skid_reg
        BY <3>1
      <3>2. CASE ~data_valid_skid_reg /\ data_valid_reg
        <4>1. Append(<<data_reg>>, from_data) = <<data_reg, from_data>>
          BY Zenon, AppendToOne
        <4>2. Tail(<<data_reg, from_data>>) = <<from_data>>
          OBVIOUS
        <4>3. CASE from_valid /\ to_ready
          BY Zenon, <3>2, <4>1, <4>2, <4>3
        <4>4. CASE from_valid /\ ~to_ready
          BY Zenon, <3>2, <4>1, <4>4
        <4>5. CASE ~from_valid
          BY <3>2, <4>5
        <4>6. QED
          BY Zenon, <4>3, <4>4, <4>5
      <3>3. CASE ~data_valid_skid_reg /\ ~data_valid_reg
        BY <3>3
      <3>4. QED BY Zenon, <3>1, <3>2, <3>3
    <2>3. QED
      BY Zenon, <1>0, <1>1, <1>3, <2>1, <2>2 DEF Load, Fifo!Clock
  <1>4. QED
    BY Zenon, <1>2, <1>3 DEF Next

(***************************************************************************)
(* Stuttering of the skid buffer is stuttering of the queue.               *)
(***************************************************************************)
LEMMA SkidStutters == UNCHANGED vars => UNCHANGED Fifo!vars
  BY DEF vars, ports, regs, Fifo!vars, Fifo!ports, from_skid_rdy, Contents, to_valid, to_data

(***************************************************************************)
(* The skid buffer implements the queue.                                   *)
(***************************************************************************)
THEOREM SkidBufferIsAFifo == Spec => RefinesFifo
<1>1. Init => Fifo!Init
  <2> SUFFICES ASSUME Init PROVE Fifo!Init
    BY Zenon
  <2>1. TypeInvariant
    BY Zenon, DataAssumption DEF Init, TypeInvariant, PortsType
  <2>2. QED
    BY Zenon, <2>1, PortsKeepPromise DEF Init, Fifo!Init, Contents, PortsType, Fifo!PortsType
<1>2. QED
  BY <1>1, TypeCorrect, SkidClock, SkidStutters, PTL DEF Spec, RefinesFifo, Fifo!Spec

--------------------------------------------------------------------------------
(***************************************************************************)
(* The types of the zero-latency buffer, its ports and its registers.      *)
(***************************************************************************)
ZlType == Zl!PortsType /\ zl_reg \in Data /\ zl_valid_reg \in BOOLEAN

(***************************************************************************)
(* What its ports show agrees with the queue its register stands for, in   *)
(* particular when an offer passes straight through it.                    *)
(***************************************************************************)
LEMMA ZlKeepsPromise == ZlType => Zl!Fifo!Promise
  <1> SUFFICES ASSUME ZlType PROVE Zl!Fifo!Promise
    BY Zenon
  <1> USE DEF ZlType, Zl!PortsType, Zl!Fifo!Promise, Zl!Fifo!Pushed, Zl!Fifo!Popped,
              Zl!Contents, Zl!to_valid, Zl!to_data, Zl!from_skid_rdy
  <1>1. CASE zl_valid_reg
    BY <1>1
  <1>2. CASE ~zl_valid_reg
    BY <1>2
  <1> QED BY Zenon, <1>1, <1>2

(***************************************************************************)
(* Every clock edge of it is one of the queue.                             *)
(***************************************************************************)
LEMMA ZlClock == ZlType /\ Zl!Next => ZlType' /\ Zl!Fifo!Clock
  <1> SUFFICES ASSUME ZlType, Zl!Next PROVE ZlType' /\ Zl!Fifo!Clock
    BY Zenon
  <1>1. ZlType'
    BY Zenon, DataAssumption
       DEF Zl!Next, Zl!Reset, Zl!Load, Zl!EnvNext, ZlType, Zl!PortsType,
           Zl!skid_data_load_en, Zl!skid_valid_load_en, Zl!from_skid_rdy
  <1>2. Zl!Fifo!Promise'
    BY <1>1, ZlKeepsPromise, PTL
  <1>3. Zl!Fifo!EnvNext(Zl!Fifo!Pushed)
    BY Zenon DEF Zl!Next, Zl!EnvNext, Zl!ProducerHolds, Zl!Fifo!EnvNext,
                Zl!Fifo!ProducerHolds, Zl!Fifo!Pushed
  <1>4. Zl!Contents' = IF rst THEN <<>>
           ELSE LET in == IF Zl!Fifo!Pushed THEN Append(Zl!Contents, to_data)
                                            ELSE Zl!Contents
                IN  IF Zl!Fifo!Popped THEN Tail(in) ELSE in
    <2>0. ZlType => Tail(<<zl_reg>>) = <<>> /\ Append(<<>>, to_data) = <<to_data>>
                    /\ Tail(<<to_data>>) = <<>>
      BY Zenon, OnePlace DEF ZlType, Zl!PortsType
    <2> USE <2>0 DEF Zl!Next, Zl!Reset, Zl!Load, ZlType, Zl!PortsType,
                Zl!skid_data_load_en, Zl!skid_valid_load_en, Zl!skid_valid_set_zero,
                Zl!Contents, Zl!to_valid, Zl!from_skid_rdy, Zl!Fifo!Pushed, Zl!Fifo!Popped
    <2>1. CASE zl_valid_reg
      BY Zenon, <2>1
    <2>2. CASE ~zl_valid_reg
      BY <2>2
    <2> QED BY Zenon, <2>1, <2>2
  <1> QED BY Zenon, <1>1, <1>2, <1>3, <1>4 DEF Zl!Fifo!Clock

(***************************************************************************)
(* Stuttering of it is stuttering of the queue.                            *)
(***************************************************************************)
LEMMA ZlStutters == ZlType /\ UNCHANGED Zl!vars => ZlType' /\ UNCHANGED Zl!Fifo!vars
  BY DEF Zl!vars, Zl!ports, Zl!regs, Zl!Fifo!vars, Zl!Fifo!ports, Zl!to_valid,
         Zl!to_data, Zl!from_skid_rdy, Zl!Contents, ZlType, Zl!PortsType

(***************************************************************************)
(* The zero-latency buffer (AddZeroLatencyBufferToRDVNodes) implements a   *)
(* one-place bypassing queue, for every environment that keeps its offers. *)
(***************************************************************************)
THEOREM ZeroLatencyIsAFifo == Zl!Spec => Zl!RefinesFifo
<1>1. Zl!Init => ZlType
  BY Zenon, DataAssumption DEF Zl!Init, ZlType
<1>2. Zl!Init => Zl!Fifo!Init
  BY Zenon, <1>1, ZlKeepsPromise DEF Zl!Init, Zl!Fifo!Init, Zl!Contents, Zl!PortsType, Zl!Fifo!PortsType
<1> QED BY <1>1, <1>2, ZlClock, ZlStutters, PTL DEF Zl!Spec, Zl!RefinesFifo, Zl!Fifo!Spec

--------------------------------------------------------------------------------
(***************************************************************************)
(* The types of the flop, its ports and its registers.                     *)
(***************************************************************************)
FlopType == Flop!PortsType /\ flop_reg \in Data /\ flop_valid_reg \in BOOLEAN

(***************************************************************************)
(* What its ports show agrees with the queue its registers stand for.      *)
(***************************************************************************)
LEMMA FlopKeepsPromise == FlopType => Flop!Fifo!Promise
  <1> SUFFICES ASSUME FlopType PROVE Flop!Fifo!Promise
    BY Zenon
  <1> USE DEF FlopType, Flop!PortsType, Flop!Fifo!Promise, Flop!Fifo!Pushed, Flop!Fifo!Popped,
              Flop!Contents, Flop!to_valid, Flop!to_data, Flop!from_rdy, Flop!data_load_en,
              Flop!valid_load_en
  <1>1. CASE flop_valid_reg
    <2>1. <<flop_reg>> # <<>> /\ Head(<<flop_reg>>) = flop_reg /\ ~(Len(<<flop_reg>>) < 1)
      BY OnePlace
    <2> QED BY Zenon, <1>1, <2>1
  <1>2. CASE ~flop_valid_reg
    BY <1>2
  <1> QED BY Zenon, <1>1, <1>2

(***************************************************************************)
(* Every clock edge of it is one of the queue.                             *)
(***************************************************************************)
LEMMA FlopClock == FlopType /\ Flop!Next => FlopType' /\ Flop!Fifo!Clock
  <1> SUFFICES ASSUME FlopType, Flop!Next PROVE FlopType' /\ Flop!Fifo!Clock
    BY Zenon
  <1> USE DEF Flop!to_valid, Flop!to_data, Flop!from_rdy, Flop!data_load_en, Flop!valid_load_en
  <1>1. FlopType'
    BY Zenon, DataAssumption
       DEF Flop!Next, Flop!Reset, Flop!Load, Flop!EnvNext, FlopType, Flop!PortsType
  <1>2. Flop!Fifo!Promise'
    BY <1>1, FlopKeepsPromise, PTL
  <1>3. Flop!Fifo!EnvNext(Flop!Fifo!Pushed)
    BY Zenon DEF Flop!Next, Flop!EnvNext, Flop!ProducerHolds, Flop!Fifo!EnvNext,
                Flop!Fifo!ProducerHolds, Flop!Fifo!Pushed
  <1>4. Flop!Contents' = IF rst THEN <<>>
           ELSE LET in == IF Flop!Fifo!Pushed THEN Append(Flop!Contents, Zl!to_data)
                                              ELSE Flop!Contents
                IN  IF Flop!Fifo!Popped THEN Tail(in) ELSE in
    <2>1. FlopType => Zl!to_data \in Data /\ flop_reg \in Data
      BY Zenon DEF FlopType, Flop!PortsType
    <2>2. /\ Tail(Append(<<flop_reg>>, Zl!to_data)) = <<Zl!to_data>>
          /\ Tail(<<flop_reg>>) = <<>> /\ Append(<<>>, Zl!to_data) = <<Zl!to_data>>
      BY Zenon, <2>1, OnePlace
    <2> USE <2>2 DEF Flop!Next, Flop!Reset, Flop!Load, FlopType, Flop!PortsType,
                Flop!Contents, Flop!Fifo!Pushed, Flop!Fifo!Popped
    <2>3. CASE flop_valid_reg
      <3>1. CASE consumer_ready /\ Zl!to_valid
        BY Zenon, <2>3, <3>1
      <3>2. CASE consumer_ready /\ ~Zl!to_valid
        <4>1. Flop!Contents' = <<>>
          <5>1. ~flop_valid_reg'
            BY Zenon, <3>2
          <5> QED BY Zenon, <5>1
        <4>2. Flop!Fifo!Popped /\ ~Flop!Fifo!Pushed /\ Flop!Contents = <<flop_reg>>
          BY Zenon, <2>3, <3>2
        <4> QED BY Zenon, <2>2, <4>1, <4>2
      <3>3. CASE ~consumer_ready
        BY Zenon, <2>3, <3>3
      <3> QED BY Zenon, <3>1, <3>2, <3>3
    <2>4. CASE ~flop_valid_reg
      BY <2>4
    <2> QED BY Zenon, <2>3, <2>4
  <1> QED BY Zenon, <1>1, <1>2, <1>3, <1>4 DEF Flop!Fifo!Clock

(***************************************************************************)
(* Stuttering of it is stuttering of the queue.                            *)
(***************************************************************************)
LEMMA FlopStutters == FlopType /\ UNCHANGED Flop!vars => FlopType' /\ UNCHANGED Flop!Fifo!vars
  BY DEF Flop!vars, Flop!ports, Flop!regs, Flop!Fifo!vars, Flop!Fifo!ports, Flop!Contents,
         FlopType, Flop!PortsType, Flop!to_valid, Flop!to_data, Flop!from_rdy,
         Flop!data_load_en, Flop!valid_load_en

(***************************************************************************)
(* The flop (AddRegisterToRDVNodes) implements a one-place queue, for      *)
(* every environment that keeps its offers.                                *)
(***************************************************************************)
THEOREM FlopIsAFifo == Flop!Spec => Flop!RefinesFifo
<1>1. Flop!Init => FlopType
  BY Zenon, DataAssumption DEF Flop!Init, FlopType
<1>2. Flop!Init => Flop!Fifo!Init
  BY Zenon, <1>1, FlopKeepsPromise
     DEF Flop!Init, Flop!Fifo!Init, Flop!Contents, Flop!PortsType, Flop!Fifo!PortsType
<1> QED BY <1>1, <1>2, FlopClock, FlopStutters, PTL DEF Flop!Spec, Flop!RefinesFifo, Flop!Fifo!Spec

--------------------------------------------------------------------------------
(***************************************************************************)
(* What the ports of the FIFO show agrees with its elements.               *)
(***************************************************************************)
LEMMA FifoKeepsPromise == Q!TypeInvariant => Q!Fifo!Promise
  <1> SUFFICES ASSUME Q!TypeInvariant PROVE Q!Fifo!Promise
    BY Zenon
  <1>1. /\ elements \in Seq(Data) /\ Len(elements) \in Nat /\ Len(elements) <= Depth
        /\ Depth \in Nat \ {0} /\ (Len(elements) = 0 <=> elements = <<>>)
    BY DepthAssumption, EmptySeq DEF Q!TypeInvariant
  <1>2. Q!pop_valid = (elements # <<>> \/ (bypass /\ push_valid))
    BY Zenon DEF Q!pop_valid, Q!empty, Q!TypeInvariant, Q!PortsType
  <1>3. Q!pop_valid => Q!pop_data = IF elements # <<>> THEN Head(elements) ELSE push_data
    BY Zenon DEF Q!pop_valid, Q!pop_data, Q!empty, Q!TypeInvariant, Q!PortsType
  <1>4. Len(elements) < Depth => Q!push_ready
    BY <1>1 DEF Q!push_ready, Q!full
  <1>5. Q!push_ready => Len(elements) < Depth \/ (Q!pop_valid /\ ~data_valid_skid_reg)
    <2>1. CASE Len(elements) = Depth
      <3>1. elements # <<>>
        BY Zenon, <1>1, <2>1
      <3>2. Q!full
        BY Zenon, <2>1 DEF Q!full
      <3> QED BY Zenon, <1>2, <3>1, <3>2 DEF Q!push_ready
    <2> QED BY <1>1, <2>1
  <1> QED BY Zenon, <1>2, <1>3, <1>4, <1>5 DEF Q!Fifo!Promise, Q!Fifo!Pushed, Q!Fifo!Popped

(***************************************************************************)
(* The next contents of the FIFO, which it computes by popping before it   *)
(* pushes, are those of a queue that pushes first, and fit in it.          *)
(***************************************************************************)
LEMMA NextElementsMove ==
  ASSUME Q!TypeInvariant
  PROVE  LET in == IF Q!Fifo!Pushed THEN Append(elements, push_data) ELSE elements
         IN  /\ Q!NextElements = IF Q!Fifo!Popped THEN Tail(in) ELSE in
             /\ Q!NextElements \in Seq(Data) /\ Len(Q!NextElements) <= Depth
<1> DEFINE in == IF Q!Fifo!Pushed THEN Append(elements, push_data) ELSE elements
           rest == IF Q!pop_element THEN Tail(elements) ELSE elements
           next == IF Q!push_element THEN Append(rest, push_data) ELSE rest
<1>0. Q!NextElements = next
  BY Zenon DEF Q!NextElements
<1>1. /\ elements \in Seq(Data) /\ Len(elements) \in Nat /\ Len(elements) <= Depth
      /\ Depth \in Nat \ {0} /\ (Len(elements) = 0 <=> elements = <<>>)
      /\ push_data \in Data /\ push_valid \in BOOLEAN /\ bypass \in BOOLEAN
  BY DepthAssumption, EmptySeq DEF Q!TypeInvariant, Q!PortsType
<1> HIDE DEF Q!NextElements
<1>2. CASE elements = <<>>
  <2>1. Append(<<>>, push_data) = <<push_data>> /\ Tail(<<push_data>>) = <<>>
        /\ <<push_data>> \in Seq(Data) /\ Len(<<push_data>>) = 1
    BY <1>1, OnePlace
  <2>2. ~Q!full /\ Q!push_ready /\ ~Q!pop_element
    BY Zenon, <1>1, <1>2 DEF Q!full, Q!push_ready, Q!pop_element, Q!empty
  <2>3. Q!Fifo!Pushed <=> push_valid
    BY Zenon, <2>2 DEF Q!Fifo!Pushed
  <2>4. Q!Fifo!Popped <=> bypass /\ push_valid /\ ~data_valid_skid_reg
    BY Zenon, <1>1, <1>2 DEF Q!Fifo!Popped, Q!pop_valid, Q!empty
  <2>5. Q!push_element <=> push_valid /\ ~(bypass /\ ~data_valid_skid_reg)
    BY Zenon, <1>2, <2>2 DEF Q!push_element, Q!pushed_element_immediately_popped, Q!empty
  <2>6. rest = <<>>
    BY Zenon, <1>2, <2>2
  <2>7. next = IF Q!Fifo!Popped THEN Tail(in) ELSE in
    BY Zenon, <1>2, <2>1, <2>3, <2>4, <2>5, <2>6
  <2>8. next \in Seq(Data) /\ Len(next) <= Depth
    BY <1>1, <1>2, <2>1, <2>5, <2>6
  <2> QED BY Zenon, <1>0, <2>7, <2>8
<1>3. CASE elements # <<>>
  <2>1. /\ Tail(elements) \in Seq(Data) /\ Len(Tail(elements)) = Len(elements) - 1
        /\ Tail(Append(elements, push_data)) = Append(Tail(elements), push_data)
    BY Zenon, <1>1, <1>3, HeadTailProperties, HeadTailAppend
  <2>2. Q!Fifo!Popped <=> ~data_valid_skid_reg
    BY Zenon, <1>1, <1>3 DEF Q!Fifo!Popped, Q!pop_valid, Q!empty
  <2>3. Q!pop_element <=> ~data_valid_skid_reg
    BY Zenon, <1>3 DEF Q!pop_element, Q!empty
  <2>4. Q!push_element <=> push_valid /\ (~Q!full \/ (bypass /\ ~data_valid_skid_reg))
    BY Zenon, <1>3 DEF Q!push_element, Q!pushed_element_immediately_popped, Q!empty
  <2>5. Q!Fifo!Pushed <=> push_valid /\ (~Q!full \/ (bypass /\ ~data_valid_skid_reg))
    BY Zenon, <1>1 DEF Q!Fifo!Pushed, Q!push_ready, Q!full
  <2>6. next = IF Q!Fifo!Popped THEN Tail(in) ELSE in
    BY Zenon, <2>1, <2>2, <2>3, <2>4, <2>5
  <2>7. /\ rest \in Seq(Data) /\ Len(rest) <= Depth
        /\ Q!push_element => Len(rest) < Depth
    <3>1. CASE Q!pop_element
      BY <1>1, <2>1, <3>1
    <3>2. CASE ~Q!pop_element
      <4>1. Q!push_element => Len(elements) # Depth
        BY Zenon, <2>3, <2>4, <3>2 DEF Q!full
      <4> QED BY <1>1, <3>2, <4>1
    <3> QED BY Zenon, <3>1, <3>2
  <2> HIDE DEF rest
  <2>8. next \in Seq(Data) /\ Len(next) <= Depth
    BY <1>1, <2>7, AppendProperties
  <2> QED BY Zenon, <1>0, <2>6, <2>8
<1> QED BY Zenon, <1>2, <1>3

(***************************************************************************)
(* Every cycle of the FIFO is one of the queue, and keeps its bound.       *)
(***************************************************************************)
LEMMA FifoClock == Q!TypeInvariant /\ Q!Clock => Q!TypeInvariant' /\ Q!Fifo!Clock
  <1> SUFFICES ASSUME Q!TypeInvariant, Q!Clock PROVE Q!TypeInvariant' /\ Q!Fifo!Clock
    BY Zenon
  <1>1. Q!TypeInvariant'
    BY Zenon, NextElementsMove DEF Q!Clock, Q!TypeInvariant, Q!PortsType
  <1>2. Q!Fifo!Promise'
    BY <1>1, FifoKeepsPromise, PTL
  <1>3. Q!Fifo!EnvNext(Q!Fifo!Pushed)
    BY Zenon DEF Q!Clock, Q!Fifo!EnvNext, Q!Fifo!ProducerHolds, Q!Fifo!Pushed
  <1> QED BY Zenon, <1>1, <1>2, <1>3, NextElementsMove DEF Q!Clock, Q!Fifo!Clock

(***************************************************************************)
(* Stuttering of it is stuttering of the queue.                            *)
(***************************************************************************)
LEMMA FifoStutters ==
  Q!TypeInvariant /\ UNCHANGED Q!vars => Q!TypeInvariant' /\ UNCHANGED Q!Fifo!vars
  <1> SUFFICES ASSUME Q!TypeInvariant, UNCHANGED Q!vars
               PROVE  Q!TypeInvariant' /\ UNCHANGED Q!Fifo!vars
    BY Zenon
  <1>1. Q!TypeInvariant'
    BY Zenon DEF Q!vars, Q!TypeInvariant, Q!PortsType
  <1>2. UNCHANGED Q!Fifo!vars
    BY Zenon DEF Q!vars, Q!Fifo!vars, Q!Fifo!ports, Q!pop_valid, Q!pop_data, Q!push_ready,
                 Q!empty, Q!full
  <1> QED BY Zenon, <1>1, <1>2

(***************************************************************************)
(* The FIFO of the block interpreter (FifoModel) implements a queue of its *)
(* depth, with and without bypass, for every depth.                        *)
(***************************************************************************)
THEOREM FifoModelIsAFifo == Q!Spec => Q!RefinesFifo
<1>1. Q!Init => Q!TypeInvariant
  BY DepthAssumption DEF Q!Init, Q!TypeInvariant
<1>2. Q!Init => Q!Fifo!Init
  BY Zenon, <1>1, FifoKeepsPromise DEF Q!Init, Q!Fifo!Init, Q!PortsType, Q!Fifo!PortsType
<1> QED BY <1>1, <1>2, FifoClock, FifoStutters, PTL DEF Q!Spec, Q!RefinesFifo, Q!Fifo!Spec

--------------------------------------------------------------------------------
(***************************************************************************)
(* What a queue offers is its oldest value, or the one that is just being  *)
(* pushed.                                                                 *)
(***************************************************************************)
LEMMA QueueOffers ==
  ASSUME NEW S, NEW q \in Seq(S), NEW d \in S, NEW cap \in Nat \ {0},
         NEW bypassing \in BOOLEAN, NEW offered \in BOOLEAN, NEW room \in BOOLEAN,
         NEW offers \in BOOLEAN, NEW out,
         offers = (q # <<>> \/ (bypassing /\ offered)),
         offers => out = IF q # <<>> THEN Head(q) ELSE d,
         offered /\ Len(q) < cap => room
  PROVE  LET in == IF offered /\ room THEN Append(q, d) ELSE q
         IN  offers => in # <<>> /\ out = Head(in)
<1> DEFINE in == IF offered /\ room THEN Append(q, d) ELSE q
<1>1. Append(q, d) # <<>> /\ Head(Append(q, d)) = IF q = <<>> THEN d ELSE Head(q)
  BY AppendProperties, HeadTailAppend
<1>2. q = <<>> => Len(q) < cap
  BY EmptySeq
<1>3. CASE q = <<>>
  <2>1. offers => offered /\ room /\ out = d
    BY Zenon, <1>2, <1>3
  <2> QED BY Zenon, <1>1, <1>3, <2>1
<1>4. CASE q # <<>>
  BY Zenon, <1>1, <1>4
<1> QED BY Zenon, <1>3, <1>4

(***************************************************************************)
(* The inductive invariant of the chain: the types and the wires.          *)
(***************************************************************************)
ChainInvariant ==
  /\ Q!TypeInvariant /\ TypeInvariant /\ ZlType /\ FlopType
  /\ side_valid \in BOOLEAN /\ sink_ready \in BOOLEAN
  /\ Wired

(***************************************************************************)
(* The FIFO moves values as a queue, and keeps an offer until the skid     *)
(* buffer has taken it.                                                    *)
(***************************************************************************)
LEMMA FifoMoves ==
  ASSUME Q!TypeInvariant, Q!Fifo!Clock
  PROVE  /\ Moves(elements, elements', push_valid /\ Q!push_ready, push_data,
                  Q!pop_valid /\ from_skid_rdy, Q!pop_data)
         /\ Q!pop_valid /\ ~from_skid_rdy => (Q!pop_valid)' /\ (Q!pop_data)' = Q!pop_data
<1> DEFINE in == IF push_valid /\ Q!push_ready THEN Append(elements, push_data) ELSE elements
<1>1. Q!Fifo!Promise
  BY Zenon, FifoKeepsPromise
<1>2. (Q!Fifo!Promise)'
  BY Zenon DEF Q!Fifo!Clock
<1>3. elements' = IF Q!pop_valid /\ from_skid_rdy THEN Tail(in) ELSE in
  BY Zenon DEF Q!Fifo!Clock, Q!Fifo!Pushed, Q!Fifo!Popped
<1>4. Q!pop_valid => in # <<>> /\ Q!pop_data = Head(in)
  <2>1. /\ elements \in Seq(Data) /\ push_data \in Data /\ Depth \in Nat \ {0}
        /\ bypass \in BOOLEAN /\ push_valid \in BOOLEAN /\ Q!push_ready \in BOOLEAN /\ Q!pop_valid \in BOOLEAN
    BY Zenon, DepthAssumption
       DEF Q!TypeInvariant, Q!PortsType, Q!push_ready, Q!full, Q!pop_valid, Q!empty
  <2>2. /\ Q!pop_valid = (elements # <<>> \/ (bypass /\ push_valid))
        /\ Q!pop_valid => Q!pop_data = IF elements # <<>> THEN Head(elements) ELSE push_data
        /\ push_valid /\ Len(elements) < Depth => Q!push_ready
    BY Zenon, <1>1 DEF Q!Fifo!Promise
  <2> QED BY SMTT(30), <2>1, <2>2, QueueOffers
<1> HIDE DEF in
<1>5. Q!pop_valid /\ ~from_skid_rdy => (Q!pop_valid)' /\ (Q!pop_data)' = Q!pop_data
  BY Zenon, <1>2, <1>3, <1>4 DEF Q!Fifo!Promise
<1> QED BY Zenon, <1>3, <1>4, <1>5 DEF Moves, in

(***************************************************************************)
(* Unless it is reset, the skid buffer moves values as a queue and keeps   *)
(* an offer until it is taken.                                             *)
(***************************************************************************)
LEMMA SkidMoves ==
  ASSUME TypeInvariant, Fifo!Clock, ~rst
  PROVE  /\ Moves(Contents, Contents', from_valid /\ from_skid_rdy, from_data,
                  to_valid /\ to_ready, to_data)
         /\ to_valid /\ ~to_ready => (to_valid)' /\ (to_data)' = to_data
<1> DEFINE in == IF from_valid /\ from_skid_rdy THEN Append(Contents, from_data) ELSE Contents
<1>1. Fifo!Promise
  BY Zenon, PortsKeepPromise
<1>2. (Fifo!Promise)'
  BY Zenon DEF Fifo!Clock
<1>3. Contents' = IF to_valid /\ to_ready THEN Tail(in) ELSE in
  BY Zenon DEF Fifo!Clock, Fifo!Pushed, Fifo!Popped
<1>4. to_valid => in # <<>> /\ to_data = Head(in)
  <2>1. /\ Contents \in Seq(Data) /\ from_data \in Data
        /\ from_valid \in BOOLEAN /\ from_skid_rdy \in BOOLEAN /\ to_valid \in BOOLEAN
    BY DEF TypeInvariant, PortsType, Contents, to_valid
  <2>2. /\ to_valid = (Contents # <<>> \/ (FALSE /\ from_valid))
        /\ to_valid => to_data = IF Contents # <<>> THEN Head(Contents) ELSE from_data
        /\ from_valid /\ Len(Contents) < 2 => from_skid_rdy
    BY Zenon, <1>1 DEF Fifo!Promise
  <2> QED BY SMTT(30), <2>1, <2>2, QueueOffers
<1> HIDE DEF in
<1>5. to_valid /\ ~to_ready => (to_valid)' /\ (to_data)' = to_data
  BY Zenon, <1>2, <1>3, <1>4 DEF Fifo!Promise
<1> QED BY Zenon, <1>3, <1>4, <1>5 DEF Moves, in

(***************************************************************************)
(* So does the zero-latency buffer.                                        *)
(***************************************************************************)
LEMMA ZlMoves ==
  ASSUME ZlType, Zl!Fifo!Clock, ~rst
  PROVE  /\ Moves(Zl!Contents, Zl!Contents', to_valid /\ Zl!from_skid_rdy, to_data,
                  Zl!to_valid /\ zl_ready, Zl!to_data)
         /\ Zl!to_valid /\ ~zl_ready => (Zl!to_valid)' /\ (Zl!to_data)' = Zl!to_data
<1> DEFINE in == IF to_valid /\ Zl!from_skid_rdy THEN Append(Zl!Contents, to_data) ELSE Zl!Contents
<1>1. Zl!Fifo!Promise
  BY Zenon, ZlKeepsPromise
<1>2. (Zl!Fifo!Promise)'
  BY Zenon DEF Zl!Fifo!Clock
<1>3. Zl!Contents' = IF Zl!to_valid /\ zl_ready THEN Tail(in) ELSE in
  BY Zenon DEF Zl!Fifo!Clock, Zl!Fifo!Pushed, Zl!Fifo!Popped
<1>4. Zl!to_valid => in # <<>> /\ Zl!to_data = Head(in)
  <2>1. /\ Zl!Contents \in Seq(Data) /\ to_data \in Data
        /\ to_valid \in BOOLEAN /\ Zl!from_skid_rdy \in BOOLEAN /\ Zl!to_valid \in BOOLEAN
    BY DEF ZlType, Zl!PortsType, Zl!Contents, Zl!to_valid, Zl!from_skid_rdy
  <2>2. /\ Zl!to_valid = (Zl!Contents # <<>> \/ (TRUE /\ to_valid))
        /\ Zl!to_valid => Zl!to_data = IF Zl!Contents # <<>> THEN Head(Zl!Contents) ELSE to_data
        /\ to_valid /\ Len(Zl!Contents) < 1 => Zl!from_skid_rdy
    BY Zenon, <1>1 DEF Zl!Fifo!Promise
  <2> QED BY SMTT(30), <2>1, <2>2, QueueOffers
<1> HIDE DEF in
<1>5. Zl!to_valid /\ ~zl_ready => (Zl!to_valid)' /\ (Zl!to_data)' = Zl!to_data
  BY ZenonT(30), <1>2, <1>3, <1>4 DEF Zl!Fifo!Promise
<1> QED BY Zenon, <1>3, <1>4, <1>5 DEF Moves, in

(***************************************************************************)
(* And the flop.                                                           *)
(***************************************************************************)
LEMMA FlopMoves ==
  ASSUME FlopType, Flop!Fifo!Clock, ~rst
  PROVE  /\ Moves(Flop!Contents, Flop!Contents', Zl!to_valid /\ Flop!from_rdy, Zl!to_data,
                  Flop!to_valid /\ consumer_ready, Flop!to_data)
         /\ Flop!to_valid /\ ~consumer_ready => (Flop!to_valid)' /\ (Flop!to_data)' = Flop!to_data
<1> DEFINE in == IF Zl!to_valid /\ Flop!from_rdy THEN Append(Flop!Contents, Zl!to_data) ELSE Flop!Contents
<1>1. Flop!Fifo!Promise
  BY Zenon, FlopKeepsPromise
<1>2. (Flop!Fifo!Promise)'
  BY Zenon DEF Flop!Fifo!Clock
<1>3. Flop!Contents' = IF Flop!to_valid /\ consumer_ready THEN Tail(in) ELSE in
  BY Zenon DEF Flop!Fifo!Clock, Flop!Fifo!Pushed, Flop!Fifo!Popped
<1>4. Flop!to_valid => in # <<>> /\ Flop!to_data = Head(in)
  <2>1. /\ Flop!Contents \in Seq(Data) /\ Zl!to_data \in Data
        /\ Zl!to_valid \in BOOLEAN /\ Flop!from_rdy \in BOOLEAN /\ Flop!to_valid \in BOOLEAN
    BY DEF FlopType, Flop!PortsType, Flop!Contents, Flop!to_valid, Flop!from_rdy,
           Flop!data_load_en
  <2>2. /\ Flop!to_valid = (Flop!Contents # <<>> \/ (FALSE /\ Zl!to_valid))
        /\ Flop!to_valid => Flop!to_data = IF Flop!Contents # <<>> THEN Head(Flop!Contents) ELSE Zl!to_data
        /\ Zl!to_valid /\ Len(Flop!Contents) < 1 => Flop!from_rdy
    BY Zenon, <1>1 DEF Flop!Fifo!Promise
  <2> QED BY SMTT(30), <2>1, <2>2, QueueOffers
<1> HIDE DEF in
<1>5. Flop!to_valid /\ ~consumer_ready => (Flop!to_valid)' /\ (Flop!to_data)' = Flop!to_data
  BY Zenon, <1>2, <1>3, <1>4 DEF Flop!Fifo!Promise
<1> QED BY Zenon, <1>3, <1>4, <1>5 DEF Moves, in

(***************************************************************************)
(* The outputs of the first three parts are values of their types.         *)
(***************************************************************************)
FifoPorts == Q!pop_valid \in BOOLEAN /\ Q!pop_data \in Data
SkidPorts == to_valid \in BOOLEAN /\ to_data \in Data
ZlPorts == Zl!to_valid \in BOOLEAN /\ Zl!to_data \in Data

(***************************************************************************)
(* Those of the FIFO, also when it is empty.                               *)
(***************************************************************************)
LEMMA FifoPortsType == Q!TypeInvariant => FifoPorts
  <1> SUFFICES ASSUME Q!TypeInvariant PROVE Q!pop_valid \in BOOLEAN /\ Q!pop_data \in Data
    BY Zenon DEF FifoPorts
  <1>1. elements # <<>> => Head(elements) \in Data
    BY Zenon, HeadTailProperties DEF Q!TypeInvariant
  <1> QED BY Zenon, <1>1, DataAssumption
             DEF Q!pop_valid, Q!pop_data, Q!empty, Q!TypeInvariant, Q!PortsType

(***************************************************************************)
(* Those of the skid buffer.                                               *)
(***************************************************************************)
LEMMA SkidPortsType == TypeInvariant => SkidPorts
  BY Zenon DEF TypeInvariant, PortsType, to_valid, to_data, SkidPorts

(***************************************************************************)
(* Those of the zero-latency buffer.                                       *)
(***************************************************************************)
LEMMA ZlPortsType == ZlType => ZlPorts
  BY Zenon DEF ZlType, Zl!PortsType, Zl!to_valid, Zl!to_data, ZlPorts

(***************************************************************************)
(* A clock edge of the chain is one of each of its parts: every buffer     *)
(* finds in the others an environment that keeps its offers.               *)
(***************************************************************************)
LEMMA ChainParts ==
  ASSUME ChainInvariant, ChainNext
  PROVE  Q!Clock /\ Next /\ Zl!Next /\ Flop!Next /\ Wired'
<1> USE DEF ChainInvariant
<1>1. Q!Clock
  BY Zenon DEF ChainNext, Q!Clock
<1>2. Wired'
  BY Zenon DEF ChainNext, Wired
<1>3. /\ from_valid = Q!pop_valid /\ from_data = Q!pop_data
      /\ to_ready = Zl!from_skid_rdy /\ zl_ready = Flop!from_rdy
  BY Zenon DEF Wired
<1>4. /\ from_valid' = (Q!pop_valid)' /\ from_data' = (Q!pop_data)'
      /\ to_ready' = (Zl!from_skid_rdy)' /\ zl_ready' = (Flop!from_rdy)'
      /\ consumer_ready' = Merge!in_ready("chain")' /\ rst' \in BOOLEAN
  BY Zenon DEF ChainNext
<1>5. Next
  <2>1. Q!TypeInvariant' /\ Q!Fifo!Clock
    BY Zenon, <1>1, FifoClock
  <2>2. from_valid' \in BOOLEAN /\ from_data' \in Data
    <3>1. (Q!pop_valid)' \in BOOLEAN /\ (Q!pop_data)' \in Data
      <4>1. FifoPorts'
        BY <2>1, FifoPortsType, PTL
      <4> QED BY Zenon, <4>1 DEF FifoPorts
    <3> QED BY Zenon, <1>4, <3>1
  <2>3. ProducerHolds(input_ready_and_valid)
    <3>1. Q!pop_valid /\ ~from_skid_rdy => (Q!pop_valid)' /\ (Q!pop_data)' = Q!pop_data
      BY Zenon, <2>1, FifoMoves
    <3> QED BY Zenon, <1>3, <1>4, <3>1 DEF ProducerHolds
  <2>4. to_ready' \in BOOLEAN
    BY Zenon, <1>4 DEF Zl!from_skid_rdy
  <2> QED BY Zenon, <1>4, <2>2, <2>3, <2>4 DEF ChainNext, Next, EnvNext
<1>6. Zl!Next
  <2>1. TypeInvariant' /\ Fifo!Clock
    BY Zenon, <1>5, SkidClock
  <2>2. to_valid' \in BOOLEAN /\ to_data' \in Data
    <3>1. SkidPorts'
      BY <2>1, SkidPortsType, PTL
    <3> QED BY Zenon, <3>1 DEF SkidPorts
  <2>3. Zl!ProducerHolds(to_valid /\ Zl!from_skid_rdy)
    <3>1. ~rst /\ to_valid /\ ~to_ready => to_valid' /\ to_data' = to_data
      BY Zenon, <2>1, SkidMoves
    <3> QED BY Zenon, <1>3, <3>1 DEF Zl!ProducerHolds
  <2>4. zl_ready' \in BOOLEAN
    BY Zenon, <1>4 DEF Flop!from_rdy, Flop!data_load_en
  <2> QED BY Zenon, <1>4, <2>2, <2>3, <2>4 DEF ChainNext, Zl!Next, Zl!EnvNext
<1>7. Flop!Next
  <2>1. ZlType' /\ Zl!Fifo!Clock
    BY Zenon, <1>6, ZlClock
  <2>2. (Zl!to_valid)' \in BOOLEAN /\ (Zl!to_data)' \in Data
    <3>1. ZlPorts'
      BY <2>1, ZlPortsType, PTL
    <3> QED BY Zenon, <3>1 DEF ZlPorts
  <2>3. Flop!ProducerHolds(Flop!data_load_en)
    <3>1. ~rst /\ Zl!to_valid /\ ~zl_ready => (Zl!to_valid)' /\ (Zl!to_data)' = Zl!to_data
      BY Zenon, <2>1, ZlMoves
    <3> QED BY Zenon, <1>3, <3>1 DEF Flop!ProducerHolds, Flop!from_rdy
  <2>4. consumer_ready' \in BOOLEAN
    BY Zenon, <1>4 DEF Merge!in_ready
  <2> QED BY Zenon, <1>4, <2>2, <2>3, <2>4 DEF ChainNext, Flop!Next, Flop!EnvNext
<1> QED BY Zenon, <1>1, <1>2, <1>5, <1>6, <1>7

(***************************************************************************)
(* A clock edge of the chain keeps its invariant.                          *)
(***************************************************************************)
LEMMA ChainEdge == ChainInvariant /\ ChainNext => ChainInvariant'
<1> SUFFICES ASSUME ChainInvariant, ChainNext PROVE ChainInvariant'
  BY Zenon
<1>1. Q!Clock /\ Next /\ Zl!Next /\ Flop!Next /\ Wired'
  BY Zenon, ChainParts
<1>2. Q!TypeInvariant' /\ TypeInvariant' /\ ZlType' /\ FlopType'
  BY Zenon, <1>1, FifoClock, SkidClock, ZlClock, FlopClock DEF ChainInvariant
<1>3. side_valid' \in BOOLEAN /\ sink_ready' \in BOOLEAN
  BY Zenon DEF ChainNext
<1> QED BY Zenon, <1>1, <1>2, <1>3 DEF ChainInvariant

(***************************************************************************)
(* Every state of the chain satisfies its invariant.                       *)
(***************************************************************************)
LEMMA ChainAlways == ChainSpec => []ChainInvariant
<1>1. ChainInit => ChainInvariant
  <2> SUFFICES ASSUME ChainInit PROVE ChainInvariant
    BY Zenon
  <2>1. Q!TypeInvariant
    BY DepthAssumption DEF ChainInit, Q!TypeInvariant, Q!PortsType
  <2>2. Wired
    BY Zenon DEF ChainInit
  <2>3. FifoPorts
    BY Zenon, <2>1, FifoPortsType
  <2>4. TypeInvariant
    <3>1. /\ from_valid \in BOOLEAN /\ from_data \in Data /\ to_ready \in BOOLEAN
      BY Zenon, <2>2, <2>3 DEF FifoPorts, Wired, Zl!from_skid_rdy
    <3> QED BY Zenon, <3>1, DataAssumption DEF ChainInit, TypeInvariant, PortsType
  <2>5. ZlType
    <3>1. SkidPorts /\ zl_ready \in BOOLEAN
      BY Zenon, <2>2, <2>4, SkidPortsType DEF Wired, Flop!from_rdy, Flop!data_load_en
    <3> QED BY Zenon, <3>1, DataAssumption DEF ChainInit, ZlType, Zl!PortsType, SkidPorts
  <2>6. FlopType
    <3>1. ZlPorts /\ consumer_ready \in BOOLEAN
      BY Zenon, <2>2, <2>5, ZlPortsType DEF Wired, Merge!in_ready
    <3> QED BY Zenon, <3>1, DataAssumption DEF ChainInit, FlopType, Flop!PortsType, ZlPorts
  <2> QED BY Zenon, <2>1, <2>2, <2>4, <2>5, <2>6 DEF ChainInit, ChainInvariant
<1>2. ChainInvariant /\ UNCHANGED chain => ChainInvariant'
  <2> SUFFICES ASSUME ChainInvariant, UNCHANGED chain PROVE ChainInvariant'
    BY Zenon
  <2>1. /\ UNCHANGED <<data_reg, data_valid_reg, data_skid_reg, data_valid_skid_reg>>
        /\ UNCHANGED <<bypass, elements, zl_reg, zl_valid_reg, flop_reg, flop_valid_reg>>
        /\ UNCHANGED <<from_valid, from_data, to_ready, zl_ready, consumer_ready>>
        /\ UNCHANGED <<rst, push_valid, push_data, side_valid, sink_ready, plan>>
    BY Zenon DEF chain, registers, regs, wires, outside
  <2>2. UNCHANGED <<to_valid, to_data>>
    BY Zenon, <2>1 DEF to_valid, to_data
  <2>3. UNCHANGED <<Zl!to_valid, Zl!to_data, Zl!from_skid_rdy>>
    BY Zenon, <2>1, <2>2 DEF Zl!to_valid, Zl!to_data, Zl!from_skid_rdy
  <2>4. UNCHANGED Flop!from_rdy
    BY Zenon, <2>1, <2>3 DEF Flop!from_rdy, Flop!data_load_en, Flop!valid_load_en
  <2>5. UNCHANGED <<Q!pop_valid, Q!pop_data>>
    BY Zenon, <2>1 DEF Q!pop_valid, Q!pop_data, Q!empty
  <2>6. UNCHANGED Merge!in_ready("chain")
    BY Zenon, <2>1 DEF Merge!in_ready, Merge!all_active_outputs_ready
  <2>7. Wired'
    BY Zenon, <2>1, <2>3, <2>4, <2>5, <2>6 DEF ChainInvariant, Wired
  <2>8. Q!TypeInvariant' /\ TypeInvariant'
    BY Zenon, <2>1 DEF ChainInvariant, Q!TypeInvariant, Q!PortsType, TypeInvariant, PortsType
  <2>9. ZlType' /\ FlopType'
    BY Zenon, <2>1, <2>2, <2>3
       DEF ChainInvariant, ZlType, Zl!PortsType, FlopType, Flop!PortsType
  <2> QED BY Zenon, <2>1, <2>7, <2>8, <2>9 DEF ChainInvariant
<1> QED BY <1>1, <1>2, ChainEdge, PTL DEF ChainSpec

(***************************************************************************)
(* Nothing of a part moves when nothing of the chain does.                 *)
(***************************************************************************)
LEMMA PartsStutter ==
  UNCHANGED chain => /\ UNCHANGED Q!vars /\ UNCHANGED vars
                     /\ UNCHANGED Zl!vars /\ UNCHANGED Flop!vars
<1> SUFFICES ASSUME UNCHANGED chain
             PROVE  /\ UNCHANGED Q!vars /\ UNCHANGED vars
                    /\ UNCHANGED Zl!vars /\ UNCHANGED Flop!vars
  BY Zenon
<1>1. /\ UNCHANGED <<data_reg, data_valid_reg, data_skid_reg, data_valid_skid_reg>>
      /\ UNCHANGED <<bypass, elements, zl_reg, zl_valid_reg, flop_reg, flop_valid_reg>>
      /\ UNCHANGED <<from_valid, from_data, to_ready, zl_ready, consumer_ready>>
      /\ UNCHANGED <<rst, push_valid, push_data>>
  BY Zenon DEF chain, registers, regs, wires, outside
<1>2. UNCHANGED <<to_valid, to_data>>
  BY Zenon, <1>1 DEF to_valid, to_data
<1>3. UNCHANGED <<Zl!to_valid, Zl!to_data>>
  BY Zenon, <1>1, <1>2 DEF Zl!to_valid, Zl!to_data
<1> QED BY Zenon, <1>1, <1>2, <1>3
           DEF Q!vars, vars, ports, regs, Zl!vars, Zl!ports, Zl!regs, Flop!vars, Flop!ports, Flop!regs

(***************************************************************************)
(* In the environment that the chain makes, the FIFO model is a queue.     *)
(***************************************************************************)
THEOREM FifoInChain == ChainSpec => FifoModelRefines
<1>1. ChainInit => Q!Init
  BY Zenon DEF ChainInit, Q!Init, Q!PortsType
<1>2. ChainInvariant /\ ChainNext => Q!Clock
  BY Zenon, ChainParts
<1>3. ChainSpec => Q!Spec
  BY <1>1, <1>2, PartsStutter, ChainAlways, PTL DEF ChainSpec, Q!Spec
<1> QED BY <1>3, FifoModelIsAFifo, PTL DEF FifoModelRefines

(***************************************************************************)
(* In the environment that the chain makes, the skid buffer is a queue.    *)
(***************************************************************************)
THEOREM SkidInChain == ChainSpec => RefinesFifo
<1>1. ChainInit /\ ChainInvariant => Init
  BY Zenon DEF ChainInit, ChainInvariant, TypeInvariant, Init
<1>2. ChainInvariant /\ ChainNext => Next
  BY Zenon, ChainParts
<1>3. ChainSpec => Spec
  BY <1>1, <1>2, PartsStutter, ChainAlways, PTL DEF ChainSpec, Spec
<1> QED BY <1>3, SkidBufferIsAFifo, PTL

(***************************************************************************)
(* In the environment that the chain makes, the zero-latency buffer is a   *)
(* queue.                                                                  *)
(***************************************************************************)
THEOREM ZeroLatencyInChain == ChainSpec => ZeroLatencyRefines
<1>1. ChainInit /\ ChainInvariant => Zl!Init
  BY Zenon DEF ChainInit, ChainInvariant, ZlType, Zl!Init
<1>2. ChainInvariant /\ ChainNext => Zl!Next
  BY Zenon, ChainParts
<1>3. ChainSpec => Zl!Spec
  BY <1>1, <1>2, PartsStutter, ChainAlways, PTL DEF ChainSpec, Zl!Spec
<1> QED BY <1>3, ZeroLatencyIsAFifo, PTL DEF ZeroLatencyRefines

(***************************************************************************)
(* In the environment that the chain makes, the flop is a queue.           *)
(***************************************************************************)
THEOREM FlopInChain == ChainSpec => FlopRefines
<1>1. ChainInit /\ ChainInvariant => Flop!Init
  BY Zenon DEF ChainInit, ChainInvariant, FlopType, Flop!Init
<1>2. ChainInvariant /\ ChainNext => Flop!Next
  BY Zenon, ChainParts
<1>3. ChainSpec => Flop!Spec
  BY <1>1, <1>2, PartsStutter, ChainAlways, PTL DEF ChainSpec, Flop!Spec
<1> QED BY <1>3, FlopIsAFifo, PTL DEF FlopRefines

(***************************************************************************)
(* While its consumer is ready the flop passes a value on in every cycle   *)
(* in which it is offered one.                                             *)
(***************************************************************************)
THEOREM FlopSustainsRate == ChainSpec => FullThroughput
<1>1. ChainInvariant /\ ChainNext =>
        (Zl!to_valid /\ consumer_ready /\ ~rst => Flop!from_rdy /\ (Flop!to_valid)')
  <2> SUFFICES ASSUME ChainInvariant, ChainNext, Zl!to_valid, consumer_ready, ~rst
               PROVE  Flop!from_rdy /\ (Flop!to_valid)'
    BY Zenon
  <2>1. Flop!valid_load_en /\ Flop!from_rdy
    BY Zenon DEF Flop!valid_load_en, Flop!from_rdy, Flop!data_load_en
  <2>2. Flop!Load
    BY Zenon DEF ChainNext, Flop!Reset
  <2> QED BY Zenon, <2>1, <2>2 DEF Flop!Load, Flop!to_valid
<1> QED BY <1>1, PartsStutter, ChainAlways, PTL
           DEF ChainSpec, FullThroughput, Flop!FullThroughput

(***************************************************************************)
(* Between resets the chain as a whole is one queue, whatever passes       *)
(* combinationally through several buffers in a cycle.                     *)
(***************************************************************************)
THEOREM ChainIsAQueue == ChainSpec => ChainInOrder
<1> DEFINE in == IF Accepted THEN Append(Contained, push_data) ELSE Contained
           Ordered == /\ Contained' = IF Consumed THEN Tail(in) ELSE in
                      /\ Consumed => Flop!to_data = Head(in)
<1>1. ChainInvariant /\ ChainNext => (~rst => Ordered)
  <2> SUFFICES ASSUME ChainInvariant, ChainNext, ~rst PROVE Ordered
    BY Zenon
  <2> DEFINE e == elements
             k == Contents
             z == Zl!Contents
             f == Flop!Contents
  <2>1. Q!Fifo!Clock /\ Fifo!Clock /\ Zl!Fifo!Clock /\ Flop!Fifo!Clock
    BY Zenon, ChainParts, FifoClock, SkidClock, ZlClock, FlopClock DEF ChainInvariant
  <2>2. /\ e \in Seq(Data) /\ k \in Seq(Data) /\ z \in Seq(Data) /\ f \in Seq(Data)
        /\ push_data \in Data /\ from_data \in Data /\ to_data \in Data /\ Zl!to_data \in Data
    BY DEF ChainInvariant, Q!TypeInvariant, Q!PortsType, TypeInvariant, PortsType, ZlType,
           Zl!PortsType, FlopType, Flop!PortsType, Contents, Zl!Contents, Flop!Contents
  <2>3. Moves(e, e', Accepted, push_data, from_valid /\ from_skid_rdy, from_data)
    <3>1. Moves(e, e', push_valid /\ Q!push_ready, push_data,
                Q!pop_valid /\ from_skid_rdy, Q!pop_data)
      BY Zenon, <2>1, FifoMoves DEF ChainInvariant
    <3> QED BY Zenon, <3>1 DEF ChainInvariant, Wired, Accepted
  <2>4. Moves(k, k', from_valid /\ from_skid_rdy, from_data, to_valid /\ to_ready, to_data)
    BY Zenon, <2>1, SkidMoves DEF ChainInvariant
  <2>5. Moves(z, z', to_valid /\ to_ready, to_data, Zl!to_valid /\ zl_ready, Zl!to_data)
    <3>1. Moves(z, z', to_valid /\ Zl!from_skid_rdy, to_data,
                Zl!to_valid /\ zl_ready, Zl!to_data)
      BY Zenon, <2>1, ZlMoves DEF ChainInvariant
    <3> QED BY Zenon, <3>1 DEF ChainInvariant, Wired
  <2>6. Moves(f, f', Zl!to_valid /\ zl_ready, Zl!to_data, Consumed, Flop!to_data)
    <3>1. Moves(f, f', Zl!to_valid /\ Flop!from_rdy, Zl!to_data,
                Flop!to_valid /\ consumer_ready, Flop!to_data)
      BY Zenon, <2>1, FlopMoves DEF ChainInvariant
    <3> QED BY Zenon, <3>1 DEF ChainInvariant, Wired, Consumed
  <2> HIDE DEF e, k, z, f
  <2>7. f \o z \in Seq(Data) /\ (f \o z) \o k \in Seq(Data)
    BY Zenon, <2>2, ConcatProperties
  <2>8. Moves(f \o z, f' \o z', to_valid /\ to_ready, to_data, Consumed, Flop!to_data)
    BY Zenon, <2>2, <2>5, <2>6, QueuesCompose
  <2>9. Moves((f \o z) \o k, (f' \o z') \o k', from_valid /\ from_skid_rdy, from_data,
              Consumed, Flop!to_data)
    BY Zenon, <2>2, <2>4, <2>7, <2>8, QueuesCompose
  <2>10. Moves(((f \o z) \o k) \o e, ((f' \o z') \o k') \o e', Accepted, push_data,
               Consumed, Flop!to_data)
    BY Zenon, <2>2, <2>3, <2>7, <2>9, QueuesCompose
  <2>11. Contained = ((f \o z) \o k) \o e /\ Contained' = ((f' \o z') \o k') \o e'
    BY Zenon DEF Contained, e, k, z, f
  <2> QED BY Zenon, <2>10, <2>11 DEF Moves
<1> QED BY <1>1, ChainAlways, PTL DEF ChainSpec, ChainInOrder

================================================================================
