--------------------------- MODULE NocSimulatorProofs ---------------------------
(***************************************************************************)
(* Proofs about the simulator of a network on chip, for every network: a   *)
(* converged component has seen its connections, a channel is written once *)
(* a cycle, and between cycles everything is done and every credit noted.  *)
(***************************************************************************)
EXTENDS NocSimulator, TLAPS

--------------------------------------------------------------------------------
(* Sums, of numbers and of sequences.                                      *)

(***************************************************************************)
(* The five numbers add up to g.                                           *)
(***************************************************************************)
Adds(u, c, w, b, d, g) == u + c + w + b + d = g

(***************************************************************************)
(* Arithmetic of sums: a sum of numbers is one; a sum that is nothing has  *)
(* nothing in it; and a term may change with the sum.                      *)
(***************************************************************************)
LEMMA SumNat == \A a, b \in Nat : a + b \in Nat
  OBVIOUS

(***************************************************************************)
(* A sum that is nothing has nothing in it.                                *)
(***************************************************************************)
LEMMA NothingOfThree == \A a, b, c \in Nat : a + b + c = 0 => a = 0 /\ b = 0
  OBVIOUS

(***************************************************************************)
(* What adds up to nothing has no terms left.                              *)
(***************************************************************************)
LEMMA NoneLeft ==
  \A a, b, c, d, g \in Nat : a + b + c + d = g => (g = 0 => c = 0 /\ d = 0)
  OBVIOUS

(***************************************************************************)
(* Nothing adds up to nothing.                                             *)
(***************************************************************************)
LEMMA Zeros == 0 + 0 = 0 /\ Adds(0, 0, 0, 0, 0, 0)
  BY DEF Adds

(***************************************************************************)
(* Terms that are nothing may stand anywhere.                              *)
(***************************************************************************)
LEMMA Moved == \A a, b \in Nat : a + b + 0 + 0 = a + 0 + b
  OBVIOUS

(***************************************************************************)
(* A term is no more than the sum.                                         *)
(***************************************************************************)
LEMMA AddsBound ==
  \A u, c, w, b, d, g \in Nat : Adds(u, c, w, b, d, g) => d <= g
  BY DEF Adds

(***************************************************************************)
(* A term of a sum that is nothing is nothing.                             *)
(***************************************************************************)
LEMMA AddsNothing ==
  \A u, c, w, b, d, g \in Nat : Adds(u, c, w, b, d, g) /\ g = 0 => d = 0
  BY DEF Adds

(***************************************************************************)
(* A term may change by as much as the sum does.                           *)
(***************************************************************************)
LEMMA AddsEnd ==
  \A u, c, w, b, d, g, d2, g2 \in Nat :
    Adds(u, c, w, b, d, g) /\ d2 + g = d + g2 => Adds(u, c, w, b, d2, g2)
  BY DEF Adds

(***************************************************************************)
(* Adding nothing.                                                         *)
(***************************************************************************)
LEMMA NothingMore == \A a \in Nat : a + 0 = a /\ 0 + a = a
  OBVIOUS

(***************************************************************************)
(* Two terms of a sum may change places.                                   *)
(***************************************************************************)
LEMMA Exchanged == \A a, b, c \in Nat : a + b + c = a + c + b
  OBVIOUS

(***************************************************************************)
(* The positions of a sequence of length L, counted from either end.       *)
(***************************************************************************)
LEMMA Positions ==
  ASSUME NEW L \in Nat
  PROVE  /\ \A i \in 1 .. L + 1 : i = L + 1 \/ i \in 1 .. L
         /\ 1 .. L \subseteq 1 .. L + 1 /\ L + 1 \in 1 .. L + 1 /\ ~(L + 1 \in 1 .. L)
         /\ 0 .. L \subseteq Nat /\ L \in 0 .. L /\ (L + 1) - L = 1 /\ (L + 1) - 0 = L + 1
         /\ \A m \in 0 .. L : m # 0 =>
              /\ (L + 1) - m \in 1 .. L /\ m - 1 \in 0 .. L /\ m - 1 < m
              /\ (L + 1) - (m - 1) = ((L + 1) - m) + 1
  OBVIOUS

(***************************************************************************)
(* n is the sum of q, stated by the sums of the suffixes of q.             *)
(***************************************************************************)
Total(q, n) ==
  \E h \in [1 .. Len(q) + 1 -> Nat] :
    /\ h[Len(q) + 1] = 0 /\ n = h[1]
    /\ \A i \in 1 .. Len(q) : h[i] = q[i] + h[i + 1]

(***************************************************************************)
(* The sum of a sequence grows with what is appended and shrinks by its    *)
(* head.                                                                   *)
(***************************************************************************)
LEMMA TotalEmpty == Total(<<>>, 0)
<1> DEFINE h == [i \in 1 .. 1 |-> 0]
<1>1. h \in [1 .. Len(<<>>) + 1 -> Nat] /\ h[Len(<<>>) + 1] = 0 /\ h[1] = 0
  OBVIOUS
<1>2. \A i \in 1 .. Len(<<>>) : FALSE
  OBVIOUS
<1> HIDE DEF h
<1> QED
  BY Zenon, <1>1, <1>2 DEF Total

(***************************************************************************)
(* What is appended is added to the sum.                                   *)
(***************************************************************************)
LEMMA TotalAppend ==
  ASSUME NEW q \in Seq(Nat), NEW x \in Nat, NEW n \in Nat, Total(q, n)
  PROVE  Total(Append(q, x), n + x)
<1>1. PICK h \in [1 .. Len(q) + 1 -> Nat] :
        /\ h[Len(q) + 1] = 0 /\ n = h[1]
        /\ \A i \in 1 .. Len(q) : h[i] = q[i] + h[i + 1]
  BY Zenon DEF Total
<1> DEFINE p == Append(q, x)
           g == [i \in 1 .. Len(p) + 1 |-> IF i = Len(q) + 2 THEN 0 ELSE h[i] + x]
<1>2. /\ Len(q) \in Nat /\ Len(p) = Len(q) + 1 /\ p[Len(q) + 1] = x
      /\ \A i \in 1 .. Len(q) : p[i] = q[i] /\ q[i] \in Nat
  OBVIOUS
<1> HIDE DEF p
<1>3. g \in [1 .. Len(p) + 1 -> Nat] /\ g[Len(p) + 1] = 0 /\ n + x = g[1]
  BY <1>1, <1>2
<1>4. /\ \A i \in 1 .. Len(q) + 1 : g[i] = h[i] + x /\ h[i] \in Nat
      /\ g[(Len(q) + 1) + 1] = 0
  BY <1>1, <1>2
<1> HIDE DEF g
<1>5. ASSUME NEW i \in 1 .. Len(p) PROVE g[i] = p[i] + g[i + 1]
  <2>1. CASE i = Len(q) + 1
    <3>1. g[i] = h[i] + x /\ h[i] = 0 /\ p[i] = x /\ g[i + 1] = 0
      BY Zenon, <1>1, <1>2, <1>4, <2>1
    <3> QED
      BY <3>1
  <2>2. CASE i \in 1 .. Len(q)
    <3>1. i \in 1 .. Len(q) + 1 /\ i + 1 \in 1 .. Len(q) + 1
      BY <1>2, <2>2
    <3>2. g[i] = h[i] + x /\ g[i + 1] = h[i + 1] + x /\ h[i + 1] \in Nat /\ h[i] \in Nat
      BY Zenon, <1>4, <3>1
    <3>3. h[i] = q[i] + h[i + 1] /\ p[i] = q[i] /\ q[i] \in Nat
      BY Zenon, <1>1, <1>2, <2>2
    <3> QED
      BY <3>2, <3>3
  <2> QED
    BY <1>2, <2>1, <2>2
<1>6. Total(p, n + x)
  BY Zenon, <1>3, <1>5 DEF Total
<1> QED
  BY Zenon, <1>6 DEF p

(***************************************************************************)
(* The head is taken off the sum.                                          *)
(***************************************************************************)
LEMMA TotalTail ==
  ASSUME NEW q \in Seq(Nat), q # <<>>, NEW n \in Nat, Total(q, n)
  PROVE  \E r \in Nat : n = Head(q) + r /\ Total(Tail(q), r)
<1>1. PICK h \in [1 .. Len(q) + 1 -> Nat] :
        /\ h[Len(q) + 1] = 0 /\ n = h[1]
        /\ \A i \in 1 .. Len(q) : h[i] = q[i] + h[i + 1]
  BY Zenon DEF Total
<1> DEFINE p == Tail(q)
           g == [i \in 1 .. Len(p) + 1 |-> h[i + 1]]
<1>2. /\ Len(q) \in Nat /\ Len(q) > 0 /\ Len(p) = Len(q) - 1 /\ Head(q) = q[1]
      /\ \A i \in 1 .. Len(p) : p[i] = q[i + 1]
  OBVIOUS
<1> HIDE DEF p
<1>0. \A i \in 1 .. Len(p) + 1 : i + 1 \in 1 .. Len(q) + 1 /\ h[i + 1] \in Nat
  <2>1. \A i \in 1 .. Len(p) + 1 : i + 1 \in 1 .. Len(q) + 1
    BY <1>2
  <2>2. \A j \in 1 .. Len(q) + 1 : h[j] \in Nat
    BY Zenon
  <2> QED
    BY Zenon, <2>1, <2>2
<1>3. /\ g \in [1 .. Len(p) + 1 -> Nat] /\ g[Len(p) + 1] = 0 /\ g[1] \in Nat
      /\ \A i \in 1 .. Len(p) + 1 : g[i] = h[i + 1]
  BY <1>0, <1>1, <1>2
<1> HIDE DEF g
<1>4. n = Head(q) + g[1]
  <2>1. 1 \in 1 .. Len(q) /\ 1 \in 1 .. Len(p) + 1
    BY <1>2
  <2> QED
    BY Zenon, <1>1, <1>2, <1>3, <2>1
<1>5. ASSUME NEW i \in 1 .. Len(p) PROVE g[i] = p[i] + g[i + 1]
  <2>1. i + 1 \in 1 .. Len(q) /\ i \in 1 .. Len(p) + 1 /\ i + 1 \in 1 .. Len(p) + 1
    BY <1>2
  <2> QED
    BY Zenon, <1>1, <1>2, <1>3, <2>1
<1>6. Total(p, g[1])
  BY Zenon, <1>3, <1>5 DEF Total
<1> QED
  BY Zenon, <1>3, <1>4, <1>6 DEF p

(***************************************************************************)
(* Every non-empty set of numbers has a least one.                         *)
(***************************************************************************)
Least == \A S \in SUBSET Nat : S # {} => \E m \in S : \A k \in S : ~(k < m)

(***************************************************************************)
(* The sum that SumOf computes is the one Total speaks of: the sums of the *)
(* suffixes are determined, from the last one on.                          *)
(***************************************************************************)
LEMMA TotalIsSum ==
  ASSUME Least, NEW q \in Seq(Nat), NEW n, Total(q, n)
  PROVE  SumOf(q) = n
<1> DEFINE L == Len(q)
           Sums(f) == f = [i \in 1 .. L + 1 |-> IF i = L + 1 THEN 0 ELSE q[i] + f[i + 1]]
           f == CHOOSE g : Sums(g)
<1>1. PICK h \in [1 .. L + 1 -> Nat] :
        /\ h[L + 1] = 0 /\ n = h[1]
        /\ \A i \in 1 .. L : h[i] = q[i] + h[i + 1]
  BY Zenon DEF Total
<1>2. L \in Nat
  OBVIOUS
<1> HIDE DEF L
<1>3. \A i \in 1 .. L + 1 : i = L + 1 \/ i \in 1 .. L
  BY Zenon, <1>2, Positions
<1>4. 1 .. L \subseteq 1 .. L + 1 /\ L + 1 \in 1 .. L + 1 /\ ~(L + 1 \in 1 .. L)
  BY Zenon, <1>2, Positions
<1>5. Sums(h)
  BY Zenon, <1>1, <1>3
<1>6. Sums(f)
  BY Zenon, <1>5
<1>7. f[L + 1] = 0 /\ \A i \in 1 .. L : f[i] = q[i] + f[i + 1]
  <2>1. \A i \in 1 .. L + 1 : f[i] = IF i = L + 1 THEN 0 ELSE q[i] + f[i + 1]
    <3> HIDE DEF f
    <3> QED BY Zenon, <1>6
  <2> HIDE DEF f
  <2> QED BY Zenon, <1>4, <2>1
<1>8. SumOf(q) = f[1]
  BY Zenon DEF SumOf, L
<1> HIDE DEF f, Sums
<1> DEFINE B == {k \in 0 .. L : f[(L + 1) - k] # h[(L + 1) - k]}
<1>9. B = {}
  <2> SUFFICES ASSUME B # {} PROVE FALSE
    BY Zenon
  <2>1. B \subseteq Nat
    BY Zenon, <1>2, Positions
  <2>2. PICK m \in B : \A k \in B : ~(k < m)
    <3> HIDE DEF B
    <3> QED BY Zenon, <2>1 DEF Least
  <2>3. m \in 0 .. L /\ f[(L + 1) - m] # h[(L + 1) - m]
    BY Zenon
  <2>4. CASE m = 0
    <3>1. (L + 1) - m = L + 1
      BY Zenon, <1>2, <2>4, Positions
    <3> QED BY Zenon, <1>1, <1>7, <2>3, <3>1
  <2>5. CASE m # 0
    <3> DEFINE i == (L + 1) - m
    <3>1. i \in 1 .. L /\ m - 1 \in 0 .. L /\ m - 1 < m /\ (L + 1) - (m - 1) = i + 1
      BY Zenon, <1>2, <2>3, <2>5, Positions
    <3>2. m - 1 \notin B
      BY Zenon, <2>2, <3>1
    <3>3. f[i + 1] = h[i + 1]
      BY Zenon, <3>1, <3>2
    <3> HIDE DEF i, B
    <3> QED BY Zenon, <1>1, <1>7, <2>3, <3>1, <3>3 DEF i
  <2> QED BY Zenon, <2>4, <2>5
<1>10. f[1] = h[1]
  <2>1. L \in 0 .. L /\ (L + 1) - L = 1
    BY Zenon, <1>2, Positions
  <2>2. ~(L \in B)
    BY Zenon, <1>9
  <2>3. f[(L + 1) - L] = h[(L + 1) - L]
    BY Zenon, <2>1, <2>2
  <2> HIDE DEF B
  <2> QED BY Zenon, <2>1, <2>3
<1> QED BY Zenon, <1>1, <1>8, <1>10

(***************************************************************************)
(* Sequences with the same elements are the same.                          *)
(***************************************************************************)
LEMMA SameSeq ==
  ASSUME NEW S, NEW a \in Seq(S), NEW b \in Seq(S), Len(a) = Len(b),
         \A i \in 1 .. Len(a) : a[i] = b[i]
  PROVE  a = b
  OBVIOUS

(***************************************************************************)
(* The sequence q with each element replaced by its weight.                *)
(***************************************************************************)
Weighed(q, w) == [i \in 1 .. Len(q) |-> w[q[i]]]

(***************************************************************************)
(* The weights of a sequence are a sequence of numbers, and those of its   *)
(* tail are the tail of them.                                              *)
(***************************************************************************)
LEMMA WeighedSeq ==
  ASSUME NEW V, NEW w \in [V -> Nat], NEW q \in Seq(V)
  PROVE  /\ Weighed(q, w) \in Seq(Nat)
         /\ \A x \in V : Weighed(Append(q, x), w) = Append(Weighed(q, w), w[x])
         /\ q # <<>> => /\ Weighed(q, w) # <<>>
                        /\ Head(q) \in V /\ Head(Weighed(q, w)) = w[Head(q)]
                        /\ Weighed(Tail(q), w) = Tail(Weighed(q, w))
<1>1. /\ Weighed(q, w) \in Seq(Nat) /\ Len(Weighed(q, w)) = Len(q) /\ Len(q) \in Nat
      /\ \A i \in 1 .. Len(q) : q[i] \in V /\ Weighed(q, w)[i] = w[q[i]]
  BY DEF Weighed
<1>2. ASSUME NEW x \in V
      PROVE  Weighed(Append(q, x), w) = Append(Weighed(q, w), w[x])
  <2> DEFINE a == Weighed(Append(q, x), w)
             b == Append(Weighed(q, w), w[x])
  <2>1. Append(q, x) \in Seq(V) /\ Len(Append(q, x)) = Len(q) + 1
    OBVIOUS
  <2>2. a \in Seq(Nat) /\ Len(a) = Len(q) + 1
    BY <1>1, <2>1 DEF Weighed
  <2>3. b \in Seq(Nat) /\ Len(b) = Len(q) + 1
    BY <1>1
  <2>4. ASSUME NEW i \in 1 .. Len(q) + 1 PROVE a[i] = b[i]
    <3>1. a[i] = w[Append(q, x)[i]]
      BY Zenon, <2>1 DEF Weighed
    <3>2. CASE i = Len(q) + 1
      BY <1>1, <3>1, <3>2
    <3>3. CASE i \in 1 .. Len(q)
      BY <1>1, <3>1, <3>3
    <3> QED
      BY <1>1, <3>2, <3>3
  <2> HIDE DEF a, b
  <2>5. a = b
    BY <1>1, <2>2, <2>3, <2>4
  <2> QED
    BY Zenon, <2>5 DEF a, b
<1>3. ASSUME q # <<>>
      PROVE  /\ Weighed(q, w) # <<>>
             /\ Head(q) \in V /\ Head(Weighed(q, w)) = w[Head(q)]
             /\ Weighed(Tail(q), w) = Tail(Weighed(q, w))
  <2> DEFINE a == Weighed(Tail(q), w)
             b == Tail(Weighed(q, w))
  <2>1. Len(q) > 0 /\ Head(q) = q[1] /\ Tail(q) \in Seq(V) /\ Len(Tail(q)) = Len(q) - 1
        /\ \A i \in 1 .. Len(q) - 1 : Tail(q)[i] = q[i + 1]
    BY <1>3
  <2>2. Weighed(q, w) # <<>> /\ Head(q) \in V /\ Head(Weighed(q, w)) = w[Head(q)]
    BY <1>1, <2>1
  <2>3. a \in Seq(Nat) /\ Len(a) = Len(q) - 1
    BY <1>1, <2>1 DEF Weighed
  <2>4. b \in Seq(Nat) /\ Len(b) = Len(q) - 1
    BY <1>1, <2>1, <2>2
  <2>5. ASSUME NEW i \in 1 .. Len(q) - 1 PROVE a[i] = b[i]
    <3>1. a[i] = w[Tail(q)[i]]
      BY Zenon, <2>1 DEF Weighed
    <3>2. b[i] = Weighed(q, w)[i + 1]
      BY <1>1, <2>1, <2>2
    <3> QED
      BY <1>1, <2>1, <3>1, <3>2
  <2> HIDE DEF a, b
  <2>6. Len(a) = Len(b) /\ \A i \in 1 .. Len(a) : a[i] = b[i]
    BY Zenon, <2>3, <2>4, <2>5
  <2>7. a = b
    BY Zenon, <2>3, <2>4, <2>6, SameSeq
  <2> QED
    BY Zenon, <2>2, <2>7 DEF a, b
<1> QED
  BY Zenon, <1>1, <1>2, <1>3

(***************************************************************************)
(* The weights of a longer sequence.                                       *)
(***************************************************************************)
LEMMA WeighedAppend ==
  ASSUME NEW V, NEW w \in [V -> Nat], NEW q \in Seq(V), NEW x \in V
  PROVE  /\ Weighed(q, w) \in Seq(Nat)
         /\ Weighed(Append(q, x), w) = Append(Weighed(q, w), w[x])
  BY Zenon, WeighedSeq

(***************************************************************************)
(* What a channel brings to a reader that has yet to take it, and what it  *)
(* carries.                                                                *)
(***************************************************************************)
Brings(from, done, w) == IF from.now /\ ~done THEN w[from.value] ELSE 0
Carries(to, w) == IF to.now THEN w[to.value] ELSE 0

(***************************************************************************)
(* A pipeline that is about to be tried, and the result of the try.        *)
(***************************************************************************)
Pipe(V, w, bubble, stages, state, from, to, done, p) ==
  /\ w \in [V -> Nat] /\ bubble \in V /\ w[bubble] = 0
  /\ stages \in Nat /\ state \in Seq(V) /\ done \in BOOLEAN
  /\ from \in [now : BOOLEAN, value : V] /\ to \in [now : BOOLEAN, value : V]
  /\ stages = 0 /\ to.now => done
  /\ p = TryPropagation(stages, from, to, state, done, bubble)

(***************************************************************************)
(* A try of a pipeline neither makes up nor loses weight: what its input   *)
(* brings, what it holds and what is on its output.                        *)
(***************************************************************************)
LEMMA Piped ==
  ASSUME NEW V, NEW w, NEW bubble, NEW stages, NEW state, NEW from, NEW to, NEW done,
         NEW sum \in Nat, NEW p, Pipe(V, w, bubble, stages, state, from, to, done, p),
         Total(Weighed(state, w), sum)
  PROVE  \E rest \in Nat : /\ Total(Weighed(p.state, w), rest)
                           /\ Brings(from, done, w) + sum + Carries(to, w)
                              = Brings(from, p.done, w) + rest + Carries(p.to, w)
<1> DEFINE full == Len(state) >= stages
           in == IF from.now /\ ~done THEN w[from.value] ELSE 0
           out == IF to.now THEN w[to.value] ELSE 0
           in1 == IF from.now /\ ~p.done THEN w[from.value] ELSE 0
           out1 == IF p.to.now THEN w[p.to.value] ELSE 0
           Goal == \E rest \in Nat :
                     Total(Weighed(p.state, w), rest) /\ in + sum + out = in1 + rest + out1
<1> USE DEF Pipe
<1>0. /\ \A x \in V : w[x] \in Nat
      /\ from.now \in BOOLEAN /\ to.now \in BOOLEAN /\ from.value \in V /\ to.value \in V
      /\ w[from.value] \in Nat
  BY Zenon
<1> SUFFICES Goal
  BY Zenon DEF Brings, Carries
<1>1. CASE done
  <2>1. p.to = to /\ p.state = state /\ p.done = TRUE
    BY Zenon, <1>1 DEF TryPropagation
  <2>2. in = in1 /\ out = out1
    BY Zenon, <1>1, <2>1
  <2>3. in + sum + out = in1 + sum + out1
    BY Zenon, <2>2
  <2> QED
    BY Zenon, <2>1, <2>3
<1>2. CASE ~done /\ stages = 0
  <2>1. /\ p.to = (IF from.now THEN from ELSE to) /\ p.state = state /\ p.done = from.now
        /\ ~to.now
    BY Zenon, <1>2 DEF TryPropagation
  <2>2. CASE from.now
    <3>1. in = w[from.value] /\ out = 0 /\ in1 = 0 /\ out1 = w[from.value]
      BY Zenon, <1>2, <2>1, <2>2
    <3>2. in + sum + out = in1 + sum + out1
      BY <1>0, <3>1
    <3> QED
      BY Zenon, <2>1, <3>2
  <2>3. CASE ~from.now
    <3>1. in = in1 /\ out = out1
      BY Zenon, <2>1, <2>3
    <3>2. in + sum + out = in1 + sum + out1
      BY Zenon, <3>1
    <3> QED
      BY Zenon, <2>1, <3>2
  <2> QED
    BY Zenon, <2>2, <2>3
<1>3. CASE ~done /\ stages # 0
  <2> DEFINE s == IF ~to.now /\ full THEN Tail(state) ELSE state
  <2>1. /\ p.to = (IF to.now THEN to ELSE IF full THEN Now(Head(state)) ELSE Now(bubble))
        /\ p.state = (IF from.now THEN Append(s, from.value) ELSE s) /\ p.done = from.now
    BY Zenon, <1>3 DEF TryPropagation
  <2>2. /\ s \in Seq(V) /\ out1 \in Nat
        /\ \E left \in Nat : Total(Weighed(s, w), left) /\ sum + out = left + out1
    <3>1. CASE to.now \/ ~full
      <4>1. s = state
        BY Zenon, <3>1
      <4>2. out = out1
        <5>1. CASE to.now
          BY Zenon, <2>1, <5>1
        <5>2. CASE ~to.now
          <6>1. p.to = Now(bubble)
            BY Zenon, <2>1, <3>1, <5>2
          <6>2. p.to.now /\ p.to.value = bubble
            BY <6>1 DEF Now
          <6> QED
            BY Zenon, <5>2, <6>2
        <5> QED
          BY Zenon, <5>1, <5>2
      <4>3. out \in Nat
        BY Zenon, <1>0
      <4> QED
        BY Zenon, <4>1, <4>2, <4>3
    <3>2. CASE ~to.now /\ full
      <4>1. state # <<>>
        BY <1>3, <3>2
      <4>2. p.to = Now(Head(state)) /\ s = Tail(state)
        BY Zenon, <2>1, <3>2
      <4>3. out = 0 /\ out1 = w[Head(state)]
        <5>1. p.to.now /\ p.to.value = Head(state)
          BY <4>2 DEF Now
        <5> QED
          BY Zenon, <3>2, <5>1
      <4>4. /\ Weighed(state, w) \in Seq(Nat) /\ Weighed(state, w) # <<>>
            /\ Head(Weighed(state, w)) = w[Head(state)]
            /\ Weighed(s, w) = Tail(Weighed(state, w))
        BY Zenon, <4>1, <4>2, WeighedSeq
      <4>5. PICK left \in Nat : /\ sum = Head(Weighed(state, w)) + left
                                /\ Total(Tail(Weighed(state, w)), left)
        BY Zenon, <4>4, TotalTail
      <4>6. Tail(state) \in Seq(V) /\ w[Head(state)] \in Nat
        BY <4>1
      <4>7. sum + out = left + out1
        <5> DEFINE y == w[Head(state)]
        <5>1. y \in Nat /\ sum = y + left /\ out = 0 /\ out1 = y
          BY Zenon, <4>3, <4>4, <4>5, <4>6
        <5> HIDE DEF y, out, out1
        <5> QED
          BY <5>1
      <4> QED
        BY Zenon, <4>2, <4>3, <4>4, <4>5, <4>6, <4>7
    <3> QED
      BY Zenon, <3>1, <3>2
  <2>3. out \in Nat
    BY Zenon, <1>0
  <2> HIDE DEF s
  <2>4. PICK left \in Nat : Total(Weighed(s, w), left) /\ sum + out = left + out1
    BY Zenon, <2>2
  <2>5. CASE from.now
    <3>1. in = w[from.value] /\ in1 = 0 /\ p.state = Append(s, from.value)
      BY Zenon, <1>3, <2>1, <2>5
    <3>2. Weighed(s, w) \in Seq(Nat) /\ Weighed(p.state, w) = Append(Weighed(s, w), w[from.value])
      <4>1. /\ Weighed(s, w) \in Seq(Nat)
            /\ Weighed(Append(s, from.value), w) = Append(Weighed(s, w), w[from.value])
        <5>1. s \in Seq(V) /\ from.value \in V
          BY Zenon, <1>0, <2>2
        <5> HIDE DEF in, out, in1, out1
        <5> QED
          BY Zenon, <5>1, WeighedAppend
      <4> QED
        BY Zenon, <3>1, <4>1
    <3>3. Total(Weighed(p.state, w), left + w[from.value])
      BY Zenon, <1>0, <2>4, <3>2, TotalAppend
    <3> HIDE DEF in, in1, out, out1
    <3>4. left + w[from.value] \in Nat
          /\ in + sum + out = in1 + (left + w[from.value]) + out1
      <4> DEFINE x == w[from.value]
      <4>1. x \in Nat /\ sum + out = left + out1 /\ out1 \in Nat
        BY Zenon, <1>0, <2>2, <2>4
      <4> HIDE DEF x
      <4>2. left + x \in Nat /\ x + sum + out = 0 + (left + x) + out1
        BY <2>3, <4>1
      <4>3. in = x /\ in1 = 0
        BY Zenon, <3>1 DEF x
      <4>4. left + x \in Nat /\ in + sum + out = in1 + (left + x) + out1
        BY Zenon, <4>2, <4>3
      <4> QED
        BY Zenon, <4>4 DEF x
    <3> QED
      BY Zenon, <3>3, <3>4
  <2>6. CASE ~from.now
    <3>1. in = 0 /\ in1 = 0 /\ p.state = s
      BY Zenon, <2>1, <2>6
    <3> HIDE DEF in, in1, out, out1
    <3>2. in + sum + out = in1 + left + out1
      <4>1. 0 + sum + out = 0 + left + out1
        BY <2>2, <2>3, <2>4
      <4> QED
        BY Zenon, <3>1, <4>1
    <3> QED
      BY Zenon, <2>4, <3>1, <3>2
  <2> QED
    BY Zenon, <2>5, <2>6
<1> QED
  BY Zenon, <1>1, <1>2, <1>3

--------------------------------------------------------------------------------
(* The network.                                                            *)

(***************************************************************************)
(* The kinds of component are apart.                                       *)
(***************************************************************************)
LEMMA Kinds ==
  /\ Sources \cap Links = {} /\ Sources \cap Routers = {} /\ Sources \cap Sinks = {}
  /\ Links \cap Routers = {} /\ Links \cap Sinks = {} /\ Routers \cap Sinks = {}
  /\ Sources \subseteq Components /\ Links \subseteq Components
  /\ Routers \subseteq Components /\ Sinks \subseteq Components
  BY Zenon, NocAssumption DEF Components

(***************************************************************************)
(* The same of one component.                                              *)
(***************************************************************************)
LEMMA Apart ==
  /\ \A n \in Sources : n \notin Links /\ n \notin Routers /\ n \notin Sinks
  /\ \A n \in Links : n \notin Sources /\ n \notin Routers /\ n \notin Sinks
  /\ \A n \in Routers : n \notin Sources /\ n \notin Links /\ n \notin Sinks
  /\ \A n \in Sinks : n \notin Sources /\ n \notin Links /\ n \notin Routers
  BY Zenon, Kinds

(***************************************************************************)
(* What the components of each kind drive and read.                        *)
(***************************************************************************)
LEMMA Attached ==
  /\ \A n \in Sources \cup Links : Drives[n] = {sink_connection[n]}
  /\ \A n \in Links \cup Sinks : Reads[n] = {src_connection[n]}
  /\ \A r \in Routers : Drives[r] = Outputs[r] /\ Reads[r] = Inputs[r]
  /\ \A k \in Sinks : Drives[k] = {}
  /\ \A s \in Sources : Reads[s] = {}
  BY Zenon, Kinds DEF Drives, Reads

(***************************************************************************)
(* A connection has one driver.                                            *)
(***************************************************************************)
LEMMA OneDriver ==
  /\ \A n, k \in Sources \cup Links : sink_connection[n] = sink_connection[k] => n = k
  /\ \A r \in Routers : \A n \in Sources \cup Links : sink_connection[n] \notin Outputs[r]
  /\ \A r, q \in Routers : \A c \in Outputs[r] : c \in Outputs[q] => r = q
<1>1. \A n, k \in Components : \A c \in Drives[n] : c \in Drives[k] => n = k
  BY Zenon, NocAssumption
<1> QED
  BY Zenon, <1>1, Kinds, Attached

(***************************************************************************)
(* The same for readers.                                                   *)
(***************************************************************************)
LEMMA OneReader ==
  /\ \A n, k \in Links \cup Sinks : src_connection[n] = src_connection[k] => n = k
  /\ \A r \in Routers : \A n \in Links \cup Sinks : src_connection[n] \notin Inputs[r]
  /\ \A r, q \in Routers : \A c \in Inputs[r] : c \in Inputs[q] => r = q
<1>1. \A n, k \in Components : \A c \in Reads[n] : c \in Reads[k] => n = k
  BY Zenon, NocAssumption
<1> QED
  BY Zenon, <1>1, Kinds, Attached

(***************************************************************************)
(* The connections at the ports, and who is behind a credited or buffered  *)
(* one.                                                                    *)
(***************************************************************************)
LEMMA Ports ==
  /\ \A n \in Sources \cup Links : sink_connection[n] \in Connections
  /\ \A n \in Links \cup Sinks : src_connection[n] \in Connections
  /\ \A r \in Routers : Inputs[r] \subseteq Connections /\ Outputs[r] \subseteq Connections
  /\ \A r \in Routers : Inputs[r] \subseteq Buffered /\ Outputs[r] \subseteq Credited
  /\ \A s \in Sources : sink_connection[s] \in Credited
  /\ \A c \in Buffered : \E r \in Routers : c \in Inputs[r]
  /\ \A c \in Credited : \/ \E s \in Sources : c = sink_connection[s]
                         \/ \E r \in Routers : c \in Outputs[r]
<1>1. \A n \in Sources \cup Links : sink_connection[n] \in Connections
  BY Zenon, NocAssumption
<1>2. \A n \in Links \cup Sinks : src_connection[n] \in Connections
  BY Zenon, NocAssumption
<1>3. \A r \in Routers : Inputs[r] \subseteq Connections
  <2>1. \A r \in Routers : input_connection[r] \in Seq(Connections)
    BY Zenon, NocAssumption
  <2>2. \A r \in Routers : \A i \in DOMAIN input_connection[r] : input_connection[r][i] \in Connections
    BY <2>1
  <2> QED
    BY Zenon, <2>2 DEF Inputs
<1>4. \A r \in Routers : Outputs[r] \subseteq Connections
  <2>1. \A r \in Routers : output_connection[r] \in Seq(Connections)
    BY Zenon, NocAssumption
  <2>2. \A r \in Routers : \A i \in DOMAIN output_connection[r] : output_connection[r][i] \in Connections
    BY <2>1
  <2> QED
    BY Zenon, <2>2 DEF Outputs
<1>5. \A r \in Routers : Inputs[r] \subseteq Buffered
  BY Zenon DEF Buffered
<1>6. \A c \in Buffered : \E r \in Routers : c \in Inputs[r]
  BY Zenon DEF Buffered
<1>7. \A n \in Sources \cup Routers : Drives[n] \subseteq Credited
  BY Zenon DEF Credited
<1>8. \A c \in Credited : \E n \in Sources \cup Routers : c \in Drives[n]
  BY Zenon DEF Credited
<1> QED
  BY <1>1, <1>2, <1>3, <1>4, <1>5, <1>6, <1>7, <1>8, Attached

(***************************************************************************)
(* The connections a component drives and reads.                           *)
(***************************************************************************)
LEMMA Joined ==
  /\ \A n \in Sources \cup Links : sink_connection[n] \in Drives[n]
  /\ \A n \in Links \cup Sinks : src_connection[n] \in Reads[n]
  /\ \A n \in Components : \A c \in Drives[n] : c \in Connections
  /\ \A n \in Components : \A c \in Reads[n] : c \in Connections
  BY Attached, Ports DEF Components

(***************************************************************************)
(* Credited and buffered connections are connections.                      *)
(***************************************************************************)
LEMMA Placed == Credited \subseteq Connections /\ Buffered \subseteq Connections
  BY Zenon, Ports

(***************************************************************************)
(* The channels of the two sides of a link.                                *)
(***************************************************************************)
LEMMA LinkSides ==
  \A l \in Links : Vcs(src_connection[l]) = LinkVcs(l) /\ Vcs(sink_connection[l]) = LinkVcs(l)
  BY Zenon, NocAssumption DEF LinkVcs, Vcs

(***************************************************************************)
(* Virtual channels are numbers.                                           *)
(***************************************************************************)
LEMMA VcsNat == \A c \in Connections : Vcs(c) \subseteq Nat
  BY NocAssumption DEF Vcs

--------------------------------------------------------------------------------
(* Types.                                                                  *)

Channel == [now : BOOLEAN, value : Flits \cup {Invalid}]
CreditChannel == [now : BOOLEAN, value : Nat]

ControlType ==
  /\ order \in Orders /\ cycle \in {-1, 0, 1} /\ phase \in {"idle", "tick", "failed"}
  /\ at \in 1 .. Len(order) + 1 /\ half \in {"forward", "reverse"} /\ converged \in BOOLEAN

FlagType ==
  /\ forward_propagated \in [Components -> BOOLEAN]
  /\ reverse_propagated \in [Components -> BOOLEAN]

ChannelType ==
  /\ forward_channels \in [Connections -> Channel]
  /\ DOMAIN reverse_channels = Connections
  /\ \A c \in Connections : reverse_channels[c] \in [Vcs(c) -> CreditChannel]

LinkType ==
  /\ forward_data_stages \in [Links -> Seq(Flits \cup {Invalid})]
  /\ internal_forward \in [Links -> BOOLEAN]
  /\ DOMAIN reverse_credit_stages = Links /\ DOMAIN internal_reverse = Links
  /\ \A l \in Links : /\ reverse_credit_stages[l] \in [LinkVcs(l) -> Seq(Nat)]
                      /\ internal_reverse[l] \in [LinkVcs(l) -> BOOLEAN]

Queued(vc) == [flit : {f \in Flits : f.vc = vc}, wait : Nat]

SourceType ==
  /\ DOMAIN data_to_send = Sources
  /\ \A s \in Sources : DOMAIN data_to_send[s] = SourceVcs(s)
  /\ \A s \in Sources : \A vc \in SourceVcs(s) : data_to_send[s][vc] \in Seq(Queued(vc))

CreditType ==
  /\ DOMAIN credit = Credited /\ DOMAIN credit_update = Credited
  /\ \A c \in Credited : /\ credit[c] \in [Vcs(c) -> Nat]
                         /\ credit_update[c] \in [Vcs(c) -> CreditChannel]

RouterType ==
  /\ internal_propagated \in [Routers -> BOOLEAN]
  /\ DOMAIN input_buffers = Buffered /\ DOMAIN input_credit_to_send = Buffered
  /\ \A c \in Buffered : /\ input_buffers[c] \in [Vcs(c) -> Seq(Flits)]
                         /\ input_credit_to_send[c] \in [Vcs(c) -> Nat]

(***************************************************************************)
(* The types of the variables.                                             *)
(***************************************************************************)
TypeInvariant ==
  /\ ControlType /\ FlagType /\ ChannelType /\ LinkType
  /\ SourceType /\ CreditType /\ RouterType

(***************************************************************************)
(* A new simulator is well typed.                                          *)
(***************************************************************************)
LEMMA InitType == Init => TypeInvariant
<1> SUFFICES ASSUME Init PROVE TypeInvariant
  BY Zenon
<1>1. ControlType
  <2>1. Len(order) \in Nat
    BY NocAssumption DEF Init
  <2> QED
    BY <2>1 DEF Init, ControlType
<1>2. FlagType
  BY Zenon DEF Init, FlagType
<1>3. ChannelType
  BY Zenon DEF Init, ChannelType, Channel, CreditChannel, EachVc, Now
<1>4. LinkType
  BY DEF Init, LinkType
<1>5. SourceType
  BY DEF Init, SourceType
<1>6. CreditType
  BY Zenon DEF Init, CreditType, CreditChannel, EachVc, Now
<1>7. RouterType
  BY DEF Init, RouterType, EachVc
<1> QED
  BY Zenon, <1>1, <1>2, <1>3, <1>4, <1>5, <1>6, <1>7 DEF TypeInvariant

(***************************************************************************)
(* A turn of either half keeps the types of the loop and of the flags.     *)
(***************************************************************************)
LEMMA ForwardedType ==
  ASSUME NEW n \in Components, NEW done \in BOOLEAN, ControlType, FlagType, Forwarded(n, done)
  PROVE  ControlType' /\ FlagType'
  BY Zenon DEF Forwarded, ControlType, FlagType

(***************************************************************************)
(* The same for the reverse half.                                          *)
(***************************************************************************)
LEMMA ReversedType ==
  ASSUME NEW n \in Components, NEW done \in BOOLEAN, ControlType, FlagType, Reversed(n, done)
  PROVE  ControlType' /\ FlagType'
<1>1. Len(order) \in Nat
  BY NocAssumption DEF ControlType
<1> QED
  BY <1>1 DEF Reversed, Turn, ControlType, FlagType

(***************************************************************************)
(* Queueing a flit at a source keeps the types.                            *)
(***************************************************************************)
LEMMA SendType ==
  ASSUME NEW f \in Flows, NEW d \in Data, NEW wait \in Nat, TypeInvariant,
         SendFlitAtTime(f, d, wait)
  PROVE  TypeInvariant'
<1>1. f.source \in Sources /\ f.vc \in Nat /\ f.vc \in SourceVcs(f.source)
  BY Zenon, NocAssumption DEF SourceVcs
<1>2. SourceType'
  <2> DEFINE x == [flit |-> [flow |-> f, vc |-> f.vc, data |-> d], wait |-> wait]
  <2>1. x \in Queued(f.vc)
    BY Zenon, <1>1 DEF Queued, Flits
  <2>2. data_to_send' = [data_to_send EXCEPT ![f.source][f.vc] = Append(@, x)]
    BY Zenon DEF SendFlitAtTime
  <2> HIDE DEF x
  <2> QED
    BY <1>1, <2>1, <2>2 DEF TypeInvariant, SourceType
<1>3. /\ ControlType' /\ FlagType' /\ ChannelType' /\ LinkType' /\ CreditType' /\ RouterType'
  BY Zenon DEF SendFlitAtTime, TypeInvariant, control, link_state, router_state, ControlType, FlagType,
     ChannelType, LinkType, CreditType, RouterType
<1> QED
  BY Zenon, <1>2, <1>3 DEF TypeInvariant

(***************************************************************************)
(* The queues of a source keep their flits as their times come nearer.     *)
(***************************************************************************)
LEMMA SoonerType ==
  ASSUME NEW vc, NEW q \in Seq(Queued(vc))
  PROVE  Sooner(q) \in Seq(Queued(vc))
<1>1. \A i \in DOMAIN q : Sooner(q)[i] \in Queued(vc)
  <2> SUFFICES ASSUME NEW i \in DOMAIN q PROVE Sooner(q)[i] \in Queued(vc)
    BY Zenon
  <2>1. q[i] \in Queued(vc)
    OBVIOUS
  <2>2. q[i].flit \in {f \in Flits : f.vc = vc} /\ q[i].wait \in Nat
    BY Zenon, <2>1 DEF Queued
  <2>3. (IF q[i].wait = 0 THEN 0 ELSE q[i].wait - 1) \in Nat
    BY <2>2
  <2> QED
    BY Zenon, <2>2, <2>3 DEF Queued, Sooner
<1>2. DOMAIN q = 1 .. Len(q) /\ Len(q) \in Nat
  OBVIOUS
<1>3. Sooner(q) \in [1 .. Len(q) -> Queued(vc)]
  BY Zenon, <1>1, <1>2 DEF Sooner
<1> QED
  BY <1>2, <1>3

(***************************************************************************)
(* The start of a cycle keeps the types.                                   *)
(***************************************************************************)
LEMMA RunCycleType ==
  ASSUME TypeInvariant, RunCycle
  PROVE  TypeInvariant'
<1>1. ControlType'
  <2>1. Len(order) \in Nat
    BY NocAssumption DEF TypeInvariant, ControlType
  <2> QED
    BY <2>1 DEF RunCycle, TypeInvariant, ControlType
<1>2. FlagType'
  BY Zenon DEF RunCycle, FlagType
<1>3. ChannelType'
  BY Zenon DEF RunCycle, ChannelType, Channel, CreditChannel, EachVc, Old
<1>4. LinkType'
  BY Zenon DEF RunCycle, TypeInvariant, LinkType
<1>5. SourceType'
  BY Zenon, SoonerType DEF RunCycle, TypeInvariant, SourceType
<1>6. CreditType'
  BY Zenon DEF RunCycle, TypeInvariant, CreditType, CreditChannel, Old
<1>7. RouterType'
  BY Zenon DEF RunCycle, TypeInvariant, RouterType
<1> QED
  BY Zenon, <1>1, <1>2, <1>3, <1>4, <1>5, <1>6, <1>7 DEF TypeInvariant

(***************************************************************************)
(* What a source does: it adds the credits of the last cycle, and uses one *)
(* for the flit x it sends, if it sends one.                               *)
(***************************************************************************)
LEMMA SourceSends ==
  ASSUME NEW s \in Sources, TypeInvariant, SourceForward(s)
  PROVE  LET c == sink_connection[s]
         IN  /\ SourceType'
             /\ DOMAIN credit' = Credited
             /\ \A d \in Credited \ {c} : credit'[d] = credit[d]
             /\ credit'[c] \in [Vcs(c) -> Nat]
             /\ \E x \in Flits \cup {Invalid} :
                  /\ forward_channels' = [forward_channels EXCEPT ![c] = Now(x)]
                  /\ x # Invalid => x.vc \in Vcs(c)
                  /\ \A vc \in Vcs(c) :
                       credit'[c][vc] = (credit[c][vc] + credit_update[c][vc].value) - On(x, vc)
<1> DEFINE c == sink_connection[s]
           available == [vc \in Vcs(c) |-> credit[c][vc] + credit_update[c][vc].value]
           CanSend(vc) == /\ data_to_send[s][vc] # <<>> /\ Head(data_to_send[s][vc]).wait = 0
                          /\ available[vc] > 0
<1>1. c \in Credited /\ c \in Connections
  BY Zenon, Ports
<1>2. available \in [Vcs(c) -> Nat]
  BY <1>1 DEF TypeInvariant, CreditType, CreditChannel
<1>3. \/ \E vc \in Vcs(c) :
           /\ CanSend(vc)
           /\ forward_channels' =
                [forward_channels EXCEPT ![c] = Now(Head(data_to_send[s][vc]).flit)]
           /\ credit' = [credit EXCEPT ![c] = [available EXCEPT ![vc] = @ - 1]]
           /\ data_to_send' = [data_to_send EXCEPT ![s][vc] = Tail(@)]
      \/ /\ forward_channels' = [forward_channels EXCEPT ![c] = Now(Invalid)]
         /\ credit' = [credit EXCEPT ![c] = available]
         /\ UNCHANGED data_to_send
  BY Zenon DEF SourceForward
<1>4. DOMAIN credit = Credited
  BY Zenon DEF TypeInvariant, CreditType
<1>5. \A vc \in Vcs(c) : available[vc] = credit[c][vc] + credit_update[c][vc].value
  BY Zenon
<1> HIDE DEF available
<1>6. CASE \E vc \in Vcs(c) :
             /\ CanSend(vc)
             /\ forward_channels' =
                  [forward_channels EXCEPT ![c] = Now(Head(data_to_send[s][vc]).flit)]
             /\ credit' = [credit EXCEPT ![c] = [available EXCEPT ![vc] = @ - 1]]
             /\ data_to_send' = [data_to_send EXCEPT ![s][vc] = Tail(@)]
  <2>1. PICK vc \in Vcs(c) :
             /\ CanSend(vc)
             /\ forward_channels' =
                  [forward_channels EXCEPT ![c] = Now(Head(data_to_send[s][vc]).flit)]
             /\ credit' = [credit EXCEPT ![c] = [available EXCEPT ![vc] = @ - 1]]
             /\ data_to_send' = [data_to_send EXCEPT ![s][vc] = Tail(@)]
    BY Zenon, <1>6
  <2> DEFINE q == data_to_send[s][vc]
             x == Head(q).flit
  <2>2. q \in Seq(Queued(vc)) /\ q # <<>>
    BY Zenon, <2>1 DEF TypeInvariant, SourceType, SourceVcs
  <2>3. Head(q) \in Queued(vc) /\ Tail(q) \in Seq(Queued(vc))
    BY <2>2
  <2>4. x \in Flits /\ x.vc = vc
    BY Zenon, <2>3 DEF Queued
  <2>5. x # Invalid
    BY Zenon, <2>4, NocAssumption
  <2>6. \A v \in Vcs(c) : On(x, v) = IF v = vc THEN 1 ELSE 0
    BY Zenon, <2>4, <2>5 DEF On
  <2>7. SourceType'
    BY Zenon, <2>1, <2>3 DEF TypeInvariant, SourceType
  <2>8. available[vc] > 0
    BY Zenon, <2>1
  <2>9. credit'[c] = [available EXCEPT ![vc] = @ - 1]
    BY Zenon, <2>1, <1>1, <1>4
  <2>10. credit'[c] \in [Vcs(c) -> Nat]
    BY <2>8, <2>9, <1>2
  <2>11. \A v \in Vcs(c) : credit'[c][v] = available[v] - On(x, v)
    BY <2>6, <2>8, <2>9, <1>2
  <2>12. DOMAIN credit' = Credited /\ \A d \in Credited \ {c} : credit'[d] = credit[d]
    BY Zenon, <2>1, <1>4
  <2>13. forward_channels' = [forward_channels EXCEPT ![c] = Now(x)]
    BY Zenon, <2>1
  <2>14. \A v \in Vcs(c) :
           credit'[c][v] = (credit[c][v] + credit_update[c][v].value) - On(x, v)
    BY Zenon, <2>11, <1>5
  <2>15. x \in Flits \cup {Invalid} /\ x.vc \in Vcs(c)
    BY Zenon, <2>4
  <2> HIDE DEF x, c
  <2>16. \E y \in Flits \cup {Invalid} :
           /\ forward_channels' = [forward_channels EXCEPT ![c] = Now(y)]
           /\ y # Invalid => y.vc \in Vcs(c)
           /\ \A v \in Vcs(c) :
                credit'[c][v] = (credit[c][v] + credit_update[c][v].value) - On(y, v)
    BY Zenon, <2>13, <2>14, <2>15
  <2> QED
    BY Zenon, <2>7, <2>10, <2>12, <2>16 DEF c
<1>7. CASE /\ forward_channels' = [forward_channels EXCEPT ![c] = Now(Invalid)]
           /\ credit' = [credit EXCEPT ![c] = available]
           /\ UNCHANGED data_to_send
  <2>1. SourceType'
    BY Zenon, <1>7 DEF TypeInvariant, SourceType
  <2>2. \A vc \in Vcs(c) : credit'[c][vc] = available[vc] - On(Invalid, vc)
    BY <1>1, <1>2, <1>4, <1>7 DEF On
  <2>3. credit'[c] \in [Vcs(c) -> Nat] /\ DOMAIN credit' = Credited
    BY Zenon, <1>1, <1>2, <1>4, <1>7
  <2>4. \A d \in Credited \ {c} : credit'[d] = credit[d]
    BY Zenon, <1>4, <1>7
  <2>5. \A vc \in Vcs(c) :
          credit'[c][vc] = (credit[c][vc] + credit_update[c][vc].value) - On(Invalid, vc)
    BY Zenon, <2>2, <1>5
  <2> QED
    BY Zenon, <1>7, <2>1, <2>3, <2>4, <2>5
<1> QED
  BY Zenon, <1>3, <1>6, <1>7

(***************************************************************************)
(* The buffers of a router with what has arrived.                          *)
(***************************************************************************)
LEMMA ArrivedType ==
  ASSUME NEW r \in Routers, TypeInvariant, InputsReady(r)
  PROVE  /\ DOMAIN Arrived(r) = Buffered
         /\ \A c \in Buffered : Arrived(r)[c] \in [Vcs(c) -> Seq(Flits)]
         /\ \A c \in Buffered \ Inputs[r] : Arrived(r)[c] = input_buffers[c]
         /\ \A c \in Inputs[r] : \A vc \in Vcs(c) :
              Len(Arrived(r)[c][vc])
                = Len(input_buffers[c][vc]) + On(forward_channels[c].value, vc)
<1>1. \A c \in Buffered : /\ input_buffers[c] \in [Vcs(c) -> Seq(Flits)]
                          /\ forward_channels[c].value \in Flits \cup {Invalid}
  BY Zenon, Placed DEF TypeInvariant, RouterType, ChannelType, Channel
<1>2. \A c \in Inputs[r] : c \in Buffered
  BY Zenon, Ports
<1>3. ASSUME NEW c \in Buffered, NEW vc \in Vcs(c)
      PROVE  /\ Arrived(r)[c][vc] \in Seq(Flits)
             /\ c \in Inputs[r] => Len(Arrived(r)[c][vc])
                                     = Len(input_buffers[c][vc]) + On(forward_channels[c].value, vc)
             /\ c \notin Inputs[r] => Arrived(r)[c][vc] = input_buffers[c][vc]
  <2> DEFINE f == forward_channels[c].value
             q == input_buffers[c][vc]
  <2>1. q \in Seq(Flits) /\ (f # Invalid => f \in Flits)
    BY Zenon, <1>1
  <2>2. Arrived(r)[c][vc] = IF c \in Inputs[r] /\ f # Invalid /\ f.vc = vc THEN Append(q, f) ELSE q
    BY Zenon DEF Arrived
  <2> HIDE DEF f, q
  <2>3. Arrived(r)[c][vc] \in Seq(Flits)
    BY <2>1, <2>2
  <2>4. c \in Inputs[r] => Len(Arrived(r)[c][vc]) = Len(q) + On(f, vc)
    BY <2>1, <2>2 DEF On
  <2> QED
    BY Zenon, <2>2, <2>3, <2>4 DEF f, q
<1>4. DOMAIN Arrived(r) = Buffered /\ \A c \in Buffered : DOMAIN Arrived(r)[c] = Vcs(c)
  BY Zenon DEF Arrived
<1>5. \A c \in Buffered : Arrived(r)[c] = [vc \in Vcs(c) |-> Arrived(r)[c][vc]]
  BY Zenon DEF Arrived
<1>6. \A c \in Buffered : Arrived(r)[c] \in [Vcs(c) -> Seq(Flits)]
  BY Zenon, <1>3, <1>5
<1>7. \A c \in Buffered \ Inputs[r] : Arrived(r)[c] = input_buffers[c]
  BY <1>1, <1>3, <1>6
<1> QED
  BY Zenon, <1>2, <1>3, <1>4, <1>6, <1>7

(***************************************************************************)
(* The credits of a router's outputs after the update.                     *)
(***************************************************************************)
LEMMA RouterCreditType ==
  ASSUME NEW r \in Routers, TypeInvariant
  PROVE  /\ DOMAIN RouterCredit(r) = Credited
         /\ \A c \in Credited : RouterCredit(r)[c] \in [Vcs(c) -> Nat]
         /\ \A c \in Credited \ Outputs[r] : RouterCredit(r)[c] = credit[c]
<1>1. \A c \in Credited : credit[c] \in [Vcs(c) -> Nat] /\ credit_update[c] \in [Vcs(c) -> CreditChannel]
  BY Zenon DEF TypeInvariant, CreditType
<1>2. \A c \in Credited : \A vc \in Vcs(c) : credit_update[c][vc].value \in Nat
  BY Zenon, <1>1 DEF CreditChannel
<1>3. \A c \in Credited : RouterCredit(r)[c] \in [Vcs(c) -> Nat]
  BY <1>1, <1>2 DEF RouterCredit
<1>4. \A c \in Credited \ Outputs[r] : RouterCredit(r)[c] = [vc \in Vcs(c) |-> credit[c][vc]]
  BY Zenon DEF RouterCredit
<1> QED
  BY Zenon, <1>1, <1>3, <1>4 DEF RouterCredit

(***************************************************************************)
(* What a router does once its inputs are there: an output connection      *)
(* carries at most one flit, for which one credit is used, and a buffer    *)
(* takes in what arrives and lets at most one flit go, for which one       *)
(* credit is to be sent.                                                   *)
(***************************************************************************)
LEMMA RouterSends ==
  ASSUME NEW r \in Routers, TypeInvariant, RouterForward(r), InputsReady(r)
  PROVE  /\ DOMAIN credit' = Credited
         /\ \A c \in Credited \ Outputs[r] : credit'[c] = credit[c]
         /\ \A c \in Outputs[r] : credit'[c] \in [Vcs(c) -> Nat]
         /\ forward_channels' \in [Connections -> Channel]
         /\ \A c \in Connections \ Outputs[r] : forward_channels'[c] = forward_channels[c]
         /\ \A c \in Outputs[r] : \E x \in Flits \cup {Invalid} :
              /\ forward_channels'[c] = Now(x)
              /\ x # Invalid => x.vc \in Vcs(c)
              /\ \A vc \in Vcs(c) : credit'[c][vc] = RouterCredit(r)[c][vc] - On(x, vc)
         /\ RouterType'
         /\ \A c \in Buffered \ Inputs[r] : /\ input_buffers'[c] = input_buffers[c]
                                            /\ input_credit_to_send'[c] = input_credit_to_send[c]
         /\ \A c \in Inputs[r] : \A vc \in Vcs(c) :
              /\ input_credit_to_send'[c][vc] \in {0, 1}
              /\ Len(input_buffers'[c][vc]) + input_credit_to_send'[c][vc]
                   = Len(input_buffers[c][vc]) + On(forward_channels[c].value, vc)
<1> DEFINE available == RouterCredit(r)
           buffers == Arrived(r)
           Conn(h) == input_connection[r][h[1]]
           Flit(h) == Head(buffers[Conn(h)][h[2]])
           To(h) == Route(r, Conn(h), h[2], Flit(h).flow.destination)
           ready == {h \in Heads(r, buffers) : available[To(h)[1]][To(h)[2]] > 0}
           sent == {h \in ready : \A g \in ready : To(g)[1] = To(h)[1] => ~HigherPriority(g, h)}
           From(c, vc) == {h \in sent : Conn(h) = c /\ h[2] = vc}
           Into(c) == {h \in sent : To(h)[1] = c}
<1>1. forward_channels' =
        [c \in Connections |->
           IF c \notin Outputs[r] THEN forward_channels[c]
           ELSE IF Into(c) = {} THEN Now(Invalid)
           ELSE LET h == CHOOSE h \in Into(c) : TRUE
                IN  Now([flow |-> Flit(h).flow, vc |-> To(h)[2], data |-> Flit(h).data])]
  BY Zenon DEF RouterForward
<1>2. credit' = [c \in Credited |-> [vc \in Vcs(c) |->
                   IF \E h \in Into(c) : To(h)[2] = vc
                   THEN available[c][vc] - 1 ELSE available[c][vc]]]
  BY Zenon DEF RouterForward
<1>3. input_buffers' = [c \in Buffered |-> [vc \in Vcs(c) |->
                          IF From(c, vc) # {} THEN Tail(buffers[c][vc]) ELSE buffers[c][vc]]]
  BY Zenon DEF RouterForward
<1>4. input_credit_to_send' =
        [c \in Buffered |->
           IF c \in Inputs[r] THEN [vc \in Vcs(c) |-> IF From(c, vc) # {} THEN 1 ELSE 0]
           ELSE input_credit_to_send[c]]
  BY Zenon DEF RouterForward
<1>5. /\ \A c \in Credited : available[c] \in [Vcs(c) -> Nat]
      /\ \A c \in Credited \ Outputs[r] : available[c] = credit[c]
  BY Zenon, RouterCreditType
<1>6. /\ \A c \in Buffered : buffers[c] \in [Vcs(c) -> Seq(Flits)]
      /\ \A c \in Buffered \ Inputs[r] : buffers[c] = input_buffers[c]
      /\ \A c \in Inputs[r] : \A vc \in Vcs(c) :
           Len(buffers[c][vc]) = Len(input_buffers[c][vc]) + On(forward_channels[c].value, vc)
  BY Zenon, ArrivedType
<1> HIDE DEF available, buffers
<1>7. ASSUME NEW h \in Heads(r, buffers)
      PROVE  /\ h[1] \in Nat /\ h[2] \in Nat /\ h = <<h[1], h[2]>>
             /\ Conn(h) \in Inputs[r] /\ h[2] \in Vcs(Conn(h))
             /\ buffers[Conn(h)][h[2]] # <<>>
  <2>1. PICK i \in DOMAIN input_connection[r] : h \in {i} \X Vcs(input_connection[r][i])
    BY Zenon DEF Heads
  <2>2. h = <<h[1], h[2]>> /\ h[1] = i /\ h[2] \in Vcs(input_connection[r][i])
    BY <2>1
  <2>3. DOMAIN input_connection[r] = 1 .. Len(input_connection[r])
    BY NocAssumption
  <2>4. Conn(h) \in Inputs[r]
    BY Zenon, <2>2 DEF Inputs
  <2>6. Conn(h) \in Connections
    BY Zenon, <2>4, Ports
  <2>7. i \in Nat
    BY <2>3, NocAssumption
  <2>8. buffers[Conn(h)][h[2]] # <<>>
    BY Zenon DEF Heads
  <2> QED
    BY Zenon, <2>2, <2>4, <2>6, <2>7, <2>8, VcsNat
<1>8. ASSUME NEW h \in Heads(r, buffers)
      PROVE  /\ Flit(h) \in Flits
             /\ To(h)[1] \in Outputs[r] /\ To(h)[2] \in Vcs(To(h)[1])
  <2>1. Conn(h) \in Inputs[r] /\ Conn(h) \in Buffered /\ h[2] \in Vcs(Conn(h))
    BY Zenon, <1>7, Ports
  <2>2. buffers[Conn(h)][h[2]] \in Seq(Flits) /\ buffers[Conn(h)][h[2]] # <<>>
    BY Zenon, <1>6, <1>7, <2>1
  <2>3. Flit(h) \in Flits
    BY <2>2
  <2>4. Flit(h).flow.destination \in Sinks
    <3>1. \A x \in Flits : x.flow \in Flows
      BY Zenon DEF Flits
    <3>2. \A x \in Flows : x.destination \in Sinks
      BY Zenon, NocAssumption
    <3> QED
      BY Zenon, <2>3, <3>1, <3>2
  <2>5. To(h) \in UNION {{o} \X Vcs(o) : o \in Outputs[r]}
    <3>1. \A c \in Inputs[r] : \A vc \in Vcs(c) : \A k \in Sinks :
            Route(r, c, vc, k) \in UNION {{o} \X Vcs(o) : o \in Outputs[r]}
      BY Zenon, CompleteAssumption
    <3> QED
      BY Zenon, <2>1, <2>4, <3>1
  <2> HIDE DEF To
  <2>6. PICK o \in Outputs[r] : To(h) \in {o} \X Vcs(o)
    BY Zenon, <2>5
  <2> QED
    BY Zenon, <2>3, <2>6
<1>9. \A h \in sent : h \in Heads(r, buffers) /\ available[To(h)[1]][To(h)[2]] > 0
  BY Zenon
<1>10. ASSUME NEW g \in sent, NEW h \in sent, To(g)[1] = To(h)[1]
       PROVE  g = h
  <2>1. ~HigherPriority(g, h) /\ ~HigherPriority(h, g)
    BY Zenon, <1>10
  <2>2. g[1] \in Nat /\ h[1] \in Nat /\ g[2] \in Nat /\ h[2] \in Nat
    BY Zenon, <1>7, <1>9
  <2>3. g = <<g[1], g[2]>> /\ h = <<h[1], h[2]>>
    BY Zenon, <1>7, <1>9
  <2> HIDE DEF sent
  <2>4. g[1] = h[1] /\ g[2] = h[2]
    BY <2>1, <2>2 DEF HigherPriority
  <2> QED
    BY Zenon, <2>3, <2>4
<1>11. \A c \in Outputs[r] : c \in Connections /\ c \in Credited
  BY Zenon, Ports
<1>12. ASSUME NEW c \in Credited, NEW vc \in Vcs(c)
       PROVE  /\ credit'[c][vc] = IF \E h \in Into(c) : To(h)[2] = vc
                                  THEN available[c][vc] - 1 ELSE available[c][vc]
              /\ credit'[c][vc] \in Nat
  <2>1. credit'[c][vc] = IF \E h \in Into(c) : To(h)[2] = vc
                         THEN available[c][vc] - 1 ELSE available[c][vc]
    BY Zenon, <1>2
  <2>2. available[c][vc] \in Nat
    BY Zenon, <1>5
  <2>3. (\E h \in Into(c) : To(h)[2] = vc) => available[c][vc] > 0
    BY Zenon, <1>9
  <2> HIDE DEF Into, To
  <2> QED
    BY <2>1, <2>2, <2>3
<1>13. \A c \in Credited : credit'[c] \in [Vcs(c) -> Nat]
  <2>1. \A c \in Credited : credit'[c] = [vc \in Vcs(c) |-> credit'[c][vc]]
    BY Zenon, <1>2
  <2> QED
    BY Zenon, <1>12, <2>1
<1>14. ASSUME NEW c \in Credited, c \notin Outputs[r]
       PROVE  credit'[c] = credit[c]
  <2>1. \A h \in Into(c) : FALSE
    BY Zenon, <1>8, <1>9, <1>14
  <2>2. \A vc \in Vcs(c) : credit'[c][vc] = available[c][vc]
    BY Zenon, <1>12, <2>1
  <2> QED
    BY <1>5, <1>13, <2>2, <1>14
<1>15. ASSUME NEW c \in Outputs[r]
       PROVE  \E x \in Flits \cup {Invalid} :
                /\ forward_channels'[c] = Now(x)
                /\ x # Invalid => x.vc \in Vcs(c)
                /\ \A vc \in Vcs(c) : credit'[c][vc] = available[c][vc] - On(x, vc)
  <2>1. CASE Into(c) = {}
    <3>1. forward_channels'[c] = Now(Invalid)
      BY Zenon, <1>1, <1>11, <2>1
    <3>2. \A vc \in Vcs(c) : credit'[c][vc] = available[c][vc] /\ available[c][vc] \in Nat
      BY Zenon, <1>5, <1>11, <1>12, <2>1
    <3>3. \A vc \in Vcs(c) : credit'[c][vc] = available[c][vc] - On(Invalid, vc)
      BY <3>2 DEF On
    <3> QED
      BY Zenon, <3>1, <3>3
  <2>2. CASE Into(c) # {}
    <3> DEFINE h == CHOOSE h \in Into(c) : TRUE
               x == [flow |-> Flit(h).flow, vc |-> To(h)[2], data |-> Flit(h).data]
    <3>1. h \in Into(c)
      BY Zenon, <2>2
    <3>2. forward_channels'[c] = Now(x)
      BY Zenon, <1>1, <1>11, <2>2
    <3> HIDE DEF h
    <3>3. h \in sent /\ To(h)[1] = c
      BY Zenon, <3>1
    <3>4. Flit(h) \in Flits /\ To(h)[2] \in Vcs(c)
      BY Zenon, <1>8, <1>9, <3>3
    <3>5. To(h)[2] \in Nat
      BY Zenon, <3>4, <1>11, VcsNat
    <3>6. \A g \in Into(c) : g = h
      BY Zenon, <1>10, <3>3
    <3> HIDE DEF To, Flit, Into, sent
    <3>7. x \in Flits /\ x.vc = To(h)[2]
      BY Zenon, <3>4, <3>5 DEF Flits
    <3>8. x # Invalid
      BY Zenon, <3>7, NocAssumption
    <3>9. \A vc \in Vcs(c) : On(x, vc) = IF To(h)[2] = vc THEN 1 ELSE 0
      BY Zenon, <3>7, <3>8 DEF On
    <3> HIDE DEF x
    <3>10. \A vc \in Vcs(c) : credit'[c][vc] = available[c][vc] - On(x, vc)
      <4> SUFFICES ASSUME NEW vc \in Vcs(c)
                   PROVE  credit'[c][vc] = available[c][vc] - On(x, vc)
        BY Zenon
      <4>1. (\E g \in Into(c) : To(g)[2] = vc) <=> To(h)[2] = vc
        BY Zenon, <3>1, <3>6
      <4>2. available[c][vc] \in Nat
        BY Zenon, <1>5, <1>11
      <4>3. credit'[c][vc] = IF \E g \in Into(c) : To(g)[2] = vc
                             THEN available[c][vc] - 1 ELSE available[c][vc]
        BY Zenon, <1>12, <1>11
      <4> QED
        BY <4>1, <4>2, <4>3, <3>9
    <3> QED
      BY Zenon, <3>2, <3>4, <3>7, <3>10
  <2> QED
    BY Zenon, <2>1, <2>2
<1>16. \A c \in Connections \ Outputs[r] : forward_channels'[c] = forward_channels[c]
  BY Zenon, <1>1
<1>17. forward_channels' \in [Connections -> Channel]
  <2>1. ASSUME NEW c \in Connections
        PROVE  forward_channels'[c] \in Channel
    <3>1. CASE c \in Outputs[r]
      <4>1. PICK x \in Flits \cup {Invalid} : forward_channels'[c] = Now(x)
        BY Zenon, <1>15, <3>1
      <4> QED
        BY <4>1 DEF Now, Channel
    <3>2. CASE c \notin Outputs[r]
      BY Zenon, <1>16, <3>2 DEF TypeInvariant, ChannelType
    <3> QED
      BY Zenon, <3>1, <3>2
  <2>2. forward_channels' = [c \in Connections |-> forward_channels'[c]]
    <3> DEFINE F(c) ==
          IF c \notin Outputs[r] THEN forward_channels[c]
          ELSE IF Into(c) = {} THEN Now(Invalid)
          ELSE LET h == CHOOSE h \in Into(c) : TRUE
               IN  Now([flow |-> Flit(h).flow, vc |-> To(h)[2], data |-> Flit(h).data])
    <3>1. forward_channels' = [c \in Connections |-> F(c)]
      BY Zenon, <1>1
    <3> HIDE DEF F
    <3> QED
      BY Zenon, <3>1
  <2> QED
    BY Zenon, <2>1, <2>2
<1>18. ASSUME NEW c \in Buffered, NEW vc \in Vcs(c), From(c, vc) # {}
       PROVE  c \in Inputs[r] /\ buffers[c][vc] # <<>>
  <2>1. PICK h \in sent : Conn(h) = c /\ h[2] = vc
    BY Zenon, <1>18
  <2>2. Conn(h) \in Inputs[r] /\ buffers[Conn(h)][h[2]] # <<>>
    BY Zenon, <1>7, <1>9
  <2> QED
    BY Zenon, <2>1, <2>2
<1>19. ASSUME NEW c \in Buffered, NEW vc \in Vcs(c)
       PROVE  /\ input_buffers'[c][vc] = IF From(c, vc) # {} THEN Tail(buffers[c][vc])
                                         ELSE buffers[c][vc]
              /\ c \in Inputs[r] =>
                   input_credit_to_send'[c][vc] = IF From(c, vc) # {} THEN 1 ELSE 0
  <2> HIDE DEF From
  <2> QED
    BY Zenon, <1>3, <1>4
<1>20. /\ DOMAIN input_buffers' = Buffered /\ DOMAIN input_credit_to_send' = Buffered
       /\ \A c \in Buffered : input_buffers'[c] = [vc \in Vcs(c) |-> input_buffers'[c][vc]]
       /\ \A c \in Buffered \ Inputs[r] : input_credit_to_send'[c] = input_credit_to_send[c]
       /\ \A c \in Inputs[r] :
            input_credit_to_send'[c] = [vc \in Vcs(c) |-> input_credit_to_send'[c][vc]]
  <2> HIDE DEF From
  <2> QED
    BY Zenon, <1>3, <1>4, Ports
<1> HIDE DEF From
<1>21. ASSUME NEW c \in Buffered, NEW vc \in Vcs(c)
       PROVE  input_buffers'[c][vc] \in Seq(Flits)
  <2>1. buffers[c][vc] \in Seq(Flits)
    BY Zenon, <1>6
  <2>2. From(c, vc) # {} => buffers[c][vc] # <<>>
    BY Zenon, <1>18
  <2>3. input_buffers'[c][vc] = IF From(c, vc) # {} THEN Tail(buffers[c][vc]) ELSE buffers[c][vc]
    BY Zenon, <1>19
  <2> QED
    BY <2>1, <2>2, <2>3
<1>22. ASSUME NEW c \in Inputs[r], NEW vc \in Vcs(c)
       PROVE  /\ input_credit_to_send'[c][vc] \in {0, 1}
              /\ Len(input_buffers'[c][vc]) + input_credit_to_send'[c][vc]
                   = Len(input_buffers[c][vc]) + On(forward_channels[c].value, vc)
  <2>1. c \in Buffered
    BY Zenon, Ports
  <2>2. buffers[c][vc] \in Seq(Flits)
    BY Zenon, <1>6, <2>1
  <2>3. Len(buffers[c][vc]) = Len(input_buffers[c][vc]) + On(forward_channels[c].value, vc)
    BY Zenon, <1>6
  <2>4. Len(input_buffers'[c][vc]) + input_credit_to_send'[c][vc] = Len(buffers[c][vc])
    <3>1. From(c, vc) # {} => buffers[c][vc] # <<>>
      BY Zenon, <1>18, <2>1
    <3>2. /\ input_buffers'[c][vc] = IF From(c, vc) # {} THEN Tail(buffers[c][vc])
                                     ELSE buffers[c][vc]
          /\ input_credit_to_send'[c][vc] = IF From(c, vc) # {} THEN 1 ELSE 0
      BY Zenon, <1>19, <2>1
    <3> QED
      BY <2>2, <3>1, <3>2
  <2>5. input_credit_to_send'[c][vc] \in {0, 1}
    BY Zenon, <1>19, <2>1
  <2> QED
    BY Zenon, <2>3, <2>4, <2>5
<1>23. ASSUME NEW c \in Buffered, c \notin Inputs[r]
       PROVE  input_buffers'[c] = input_buffers[c]
  <2>1. \A vc \in Vcs(c) : input_buffers'[c][vc] = input_buffers[c][vc]
    BY Zenon, <1>6, <1>18, <1>19, <1>23
  <2>2. input_buffers[c] = [vc \in Vcs(c) |-> input_buffers[c][vc]]
    BY Zenon DEF TypeInvariant, RouterType
  <2> QED
    BY Zenon, <1>20, <2>1, <2>2
<1>24. RouterType'
  <2>1. \A c \in Buffered : input_buffers'[c] \in [Vcs(c) -> Seq(Flits)]
    BY Zenon, <1>20, <1>21
  <2>2. \A c \in Buffered : input_credit_to_send'[c] \in [Vcs(c) -> Nat]
    <3>1. \A c \in Inputs[r] : input_credit_to_send'[c] \in [Vcs(c) -> Nat]
      <4>1. \A c \in Inputs[r] : \A vc \in Vcs(c) : input_credit_to_send'[c][vc] \in Nat
        <5>1. {0, 1} \subseteq Nat
          OBVIOUS
        <5> QED
          BY Zenon, <1>22, <5>1
      <4>2. \A c \in Inputs[r] :
              input_credit_to_send'[c] = [vc \in Vcs(c) |-> input_credit_to_send'[c][vc]]
        BY Zenon, <1>20
      <4> QED
        BY Zenon, <4>1, <4>2
    <3>2. \A c \in Buffered \ Inputs[r] : input_credit_to_send'[c] \in [Vcs(c) -> Nat]
      BY Zenon, <1>20 DEF TypeInvariant, RouterType
    <3> QED
      BY Zenon, <3>1, <3>2
  <2>3. internal_propagated' \in [Routers -> BOOLEAN]
    <3>1. internal_propagated' = [internal_propagated EXCEPT ![r] = TRUE]
      BY Zenon DEF RouterForward
    <3> QED
      BY Zenon, <3>1 DEF TypeInvariant, RouterType
  <2> QED
    BY Zenon, <1>20, <2>1, <2>2, <2>3 DEF RouterType
<1>25. DOMAIN credit' = Credited
  BY Zenon, <1>2
<1>26. \A c \in Outputs[r] : \E x \in Flits \cup {Invalid} :
         /\ forward_channels'[c] = Now(x)
         /\ x # Invalid => x.vc \in Vcs(c)
         /\ \A vc \in Vcs(c) : credit'[c][vc] = RouterCredit(r)[c][vc] - On(x, vc)
  BY Zenon, <1>15 DEF available
<1> HIDE DEF Into
<1> QED
  BY Zenon, <1>11, <1>13, <1>14, <1>16, <1>17, <1>20, <1>22, <1>23, <1>24, <1>25, <1>26

(***************************************************************************)
(* What a router does while an input is missing: it only adds credits.     *)
(***************************************************************************)
LEMMA RouterWaits ==
  ASSUME NEW r \in Routers, TypeInvariant, RouterForward(r), ~InputsReady(r)
  PROVE  /\ credit' = RouterCredit(r)
         /\ UNCHANGED <<forward_channels, input_buffers, input_credit_to_send>>
         /\ RouterType'
<1>1. /\ credit' = RouterCredit(r)
      /\ UNCHANGED <<forward_channels, input_buffers, input_credit_to_send>>
      /\ internal_propagated' = [internal_propagated EXCEPT ![r] = TRUE]
  BY Zenon DEF RouterForward
<1>2. RouterType'
  BY Zenon, <1>1 DEF TypeInvariant, RouterType
<1> QED
  BY Zenon, <1>1, <1>2

(***************************************************************************)
(* One try of a pipeline over values in V.  It is done once the input was  *)
(* there; then the output is there too.  An output that is there stays.    *)
(***************************************************************************)
LEMMA TryResult ==
  ASSUME NEW V, NEW bubble \in V, NEW stages \in Nat, NEW state \in Seq(V),
         NEW from \in [now : BOOLEAN, value : V], NEW to \in [now : BOOLEAN, value : V],
         NEW done \in BOOLEAN, NEW p, p = TryPropagation(stages, from, to, state, done, bubble)
  PROVE  /\ p.to \in [now : BOOLEAN, value : V]
         /\ p.state \in Seq(V)
         /\ p.done \in BOOLEAN
         /\ p.done <=> done \/ from.now
         /\ to.now => p.to.now
         /\ ~done /\ p.done => p.to.now
         /\ to.now /\ (stages = 0 => done) => p.to = to
         /\ stages = 0 /\ p.to.now => p.done \/ to.now
<1>1. CASE done
  <2>1. p = [to |-> to, state |-> state, done |-> TRUE]
    BY Zenon, <1>1 DEF TryPropagation
  <2>2. p.to = to /\ p.state = state /\ p.done = TRUE
    BY <2>1
  <2> QED
    BY Zenon, <1>1, <2>2
<1>2. CASE ~done /\ stages = 0
  <2>1. p = [to |-> IF from.now THEN from ELSE to, state |-> state, done |-> from.now]
    BY Zenon, <1>2 DEF TryPropagation
  <2>2. p.to = (IF from.now THEN from ELSE to) /\ p.state = state /\ p.done = from.now
    BY <2>1
  <2>3. from.now \in BOOLEAN
    BY Zenon
  <2> QED
    BY Zenon, <1>2, <2>2, <2>3
<1>3. CASE ~done /\ stages # 0
  <2> DEFINE full == Len(state) >= stages
             to_now == IF to.now THEN to ELSE IF full THEN Now(Head(state)) ELSE Now(bubble)
             rest == IF ~to.now /\ full THEN Tail(state) ELSE state
  <2>1. p = [to |-> to_now, done |-> from.now,
             state |-> IF from.now THEN Append(rest, from.value) ELSE rest]
    BY Zenon, <1>3 DEF TryPropagation
  <2>2. full => Head(state) \in V /\ Tail(state) \in Seq(V)
    BY <1>3
  <2>3. to_now \in [now : BOOLEAN, value : V] /\ to_now.now /\ (to.now => to_now = to)
    BY Zenon, <2>2 DEF Now
  <2>4. rest \in Seq(V)
    BY Zenon, <2>2
  <2> HIDE DEF full, to_now, rest
  <2>5. p.to = to_now /\ p.done = from.now
        /\ p.state = IF from.now THEN Append(rest, from.value) ELSE rest
    BY <2>1
  <2>6. from.value \in V /\ from.now \in BOOLEAN
    BY Zenon
  <2>7. p.state \in Seq(V)
    BY <2>4, <2>5, <2>6
  <2> QED
    BY Zenon, <1>3, <2>3, <2>5, <2>6, <2>7
<1> QED
  BY Zenon, <1>1, <1>2, <1>3

(***************************************************************************)
(* What a link reads, forward and in reverse, is fit for its pipelines.    *)
(***************************************************************************)
LEMMA LinkReads ==
  ASSUME NEW l \in Links, TypeInvariant
  PROVE  /\ forward_pipeline_stages[l] \in Nat /\ reverse_pipeline_stages[l] \in Nat
         /\ forward_channels[src_connection[l]] \in Channel
         /\ forward_channels[sink_connection[l]] \in Channel
         /\ forward_data_stages[l] \in Seq(Flits \cup {Invalid})
         /\ internal_forward[l] \in BOOLEAN
         /\ \A vc \in LinkVcs(l) :
              /\ reverse_channels[src_connection[l]][vc] \in CreditChannel
              /\ reverse_channels[sink_connection[l]][vc] \in CreditChannel
              /\ reverse_credit_stages[l][vc] \in Seq(Nat)
              /\ internal_reverse[l][vc] \in BOOLEAN
<1>1. forward_pipeline_stages[l] \in Nat /\ reverse_pipeline_stages[l] \in Nat
  BY Zenon, NocAssumption
<1>2. src_connection[l] \in Connections /\ sink_connection[l] \in Connections
  BY Zenon, Ports
<1>3. /\ forward_channels[src_connection[l]] \in Channel
      /\ forward_channels[sink_connection[l]] \in Channel
  BY Zenon, <1>2 DEF TypeInvariant, ChannelType
<1>4. /\ forward_data_stages[l] \in Seq(Flits \cup {Invalid}) /\ internal_forward[l] \in BOOLEAN
  BY Zenon DEF TypeInvariant, LinkType
<1>5. \A vc \in LinkVcs(l) : /\ reverse_channels[src_connection[l]][vc] \in CreditChannel
                             /\ reverse_channels[sink_connection[l]][vc] \in CreditChannel
  BY Zenon, <1>2, LinkSides DEF TypeInvariant, ChannelType
<1>6. \A vc \in LinkVcs(l) : /\ reverse_credit_stages[l][vc] \in Seq(Nat)
                             /\ internal_reverse[l][vc] \in BOOLEAN
  BY Zenon DEF TypeInvariant, LinkType
<1> QED
  BY Zenon, <1>1, <1>3, <1>4, <1>5, <1>6

(***************************************************************************)
(* What the two tries of a link return.                                    *)
(***************************************************************************)
ForwardTry(l) ==
  TryPropagation(forward_pipeline_stages[l], forward_channels[src_connection[l]],
                 forward_channels[sink_connection[l]], forward_data_stages[l],
                 internal_forward[l], Invalid)

ReverseTry(l, vc) ==
  TryPropagation(reverse_pipeline_stages[l], reverse_channels[sink_connection[l]][vc],
                 reverse_channels[src_connection[l]][vc], reverse_credit_stages[l][vc],
                 internal_reverse[l][vc], 0)

(***************************************************************************)
(* The forward try of a link, as TryResult has it.                         *)
(***************************************************************************)
LEMMA ForwardTryResult ==
  ASSUME NEW l \in Links, TypeInvariant
  PROVE  LET p == ForwardTry(l)
             from == forward_channels[src_connection[l]]
             to == forward_channels[sink_connection[l]]
         IN  /\ p.to \in Channel
             /\ p.state \in Seq(Flits \cup {Invalid})
             /\ p.done \in BOOLEAN
             /\ p.done <=> internal_forward[l] \/ from.now
             /\ to.now => p.to.now
             /\ ~internal_forward[l] /\ p.done => p.to.now
             /\ to.now /\ (forward_pipeline_stages[l] = 0 => internal_forward[l]) => p.to = to
             /\ forward_pipeline_stages[l] = 0 /\ p.to.now => p.done \/ to.now
<1> DEFINE p == ForwardTry(l)
           from == forward_channels[src_connection[l]]
           to == forward_channels[sink_connection[l]]
           V == Flits \cup {Invalid}
<1>1. from \in [now : BOOLEAN, value : V] /\ to \in [now : BOOLEAN, value : V] /\ Invalid \in V
  BY Zenon, LinkReads DEF Channel
<1>2. /\ forward_data_stages[l] \in Seq(V) /\ internal_forward[l] \in BOOLEAN
      /\ forward_pipeline_stages[l] \in Nat
  BY Zenon, LinkReads
<1>3. p = TryPropagation(forward_pipeline_stages[l], from, to, forward_data_stages[l],
                         internal_forward[l], Invalid)
  BY Zenon DEF ForwardTry
<1>4. Channel = [now : BOOLEAN, value : V]
  BY Zenon DEF Channel
<1> HIDE DEF V, p, from, to
<1>5. /\ p.to \in [now : BOOLEAN, value : V]
      /\ p.state \in Seq(V)
      /\ p.done \in BOOLEAN
      /\ p.done <=> internal_forward[l] \/ from.now
      /\ to.now => p.to.now
      /\ ~internal_forward[l] /\ p.done => p.to.now
      /\ to.now /\ (forward_pipeline_stages[l] = 0 => internal_forward[l]) => p.to = to
      /\ forward_pipeline_stages[l] = 0 /\ p.to.now => p.done \/ to.now
  BY <1>1, <1>2, <1>3, TryResult
<1> QED
  BY Zenon, <1>4, <1>5 DEF V, p, from, to

(***************************************************************************)
(* The reverse try of a link, as TryResult has it.                         *)
(***************************************************************************)
LEMMA ReverseTryResult ==
  ASSUME NEW l \in Links, TypeInvariant, NEW vc \in LinkVcs(l)
  PROVE  LET p == ReverseTry(l, vc)
             from == reverse_channels[sink_connection[l]][vc]
             to == reverse_channels[src_connection[l]][vc]
         IN  /\ p.to \in CreditChannel
             /\ p.state \in Seq(Nat)
             /\ p.done \in BOOLEAN
             /\ p.done <=> internal_reverse[l][vc] \/ from.now
             /\ to.now => p.to.now
             /\ ~internal_reverse[l][vc] /\ p.done => p.to.now
             /\ to.now /\ (reverse_pipeline_stages[l] = 0 => internal_reverse[l][vc]) => p.to = to
             /\ reverse_pipeline_stages[l] = 0 /\ p.to.now => p.done \/ to.now
<1> DEFINE p == ReverseTry(l, vc)
           from == reverse_channels[sink_connection[l]][vc]
           to == reverse_channels[src_connection[l]][vc]
           V == Nat
<1>1. from \in [now : BOOLEAN, value : V] /\ to \in [now : BOOLEAN, value : V] /\ 0 \in V
  BY Zenon, LinkReads DEF CreditChannel
<1>2. /\ reverse_credit_stages[l][vc] \in Seq(V) /\ internal_reverse[l][vc] \in BOOLEAN
      /\ reverse_pipeline_stages[l] \in Nat
  BY Zenon, LinkReads
<1>3. p = TryPropagation(reverse_pipeline_stages[l], from, to, reverse_credit_stages[l][vc],
                         internal_reverse[l][vc], 0)
  BY Zenon DEF ReverseTry
<1>4. CreditChannel = [now : BOOLEAN, value : V]
  BY Zenon DEF CreditChannel
<1> HIDE DEF V, p, from, to
<1>5. /\ p.to \in [now : BOOLEAN, value : V]
      /\ p.state \in Seq(V)
      /\ p.done \in BOOLEAN
      /\ p.done <=> internal_reverse[l][vc] \/ from.now
      /\ to.now => p.to.now
      /\ ~internal_reverse[l][vc] /\ p.done => p.to.now
      /\ to.now /\ (reverse_pipeline_stages[l] = 0 => internal_reverse[l][vc]) => p.to = to
      /\ reverse_pipeline_stages[l] = 0 /\ p.to.now => p.done \/ to.now
  BY <1>1, <1>2, <1>3, TryResult
<1> QED
  BY Zenon, <1>4, <1>5 DEF V, p, from, to

(***************************************************************************)
(* The turns of a link in terms of its tries.                              *)
(***************************************************************************)
LEMMA LinkForwardIs ==
  ASSUME NEW l \in Links, LinkForward(l)
  PROVE  /\ Forwarded(l, ForwardTry(l).done)
         /\ forward_channels' = [forward_channels EXCEPT ![sink_connection[l]] = ForwardTry(l).to]
         /\ forward_data_stages' = [forward_data_stages EXCEPT ![l] = ForwardTry(l).state]
         /\ internal_forward' = [internal_forward EXCEPT ![l] = ForwardTry(l).done]
         /\ UNCHANGED <<reverse_channels, reverse_credit_stages, internal_reverse, data_to_send,
                        credit, credit_update, router_state, pending>>
  BY Zenon DEF LinkForward, ForwardTry

(***************************************************************************)
(* The same in reverse, for every virtual channel.                         *)
(***************************************************************************)
LEMMA LinkReverseIs ==
  ASSUME NEW l \in Links, LinkReverse(l)
  PROVE  /\ Reversed(l, \A vc \in LinkVcs(l) : ReverseTry(l, vc).done)
         /\ reverse_channels' = [reverse_channels EXCEPT ![src_connection[l]] =
                                   [vc \in LinkVcs(l) |-> ReverseTry(l, vc).to]]
         /\ reverse_credit_stages' = [reverse_credit_stages EXCEPT ![l] =
                                        [vc \in LinkVcs(l) |-> ReverseTry(l, vc).state]]
         /\ internal_reverse' = [internal_reverse EXCEPT ![l] =
                                   [vc \in LinkVcs(l) |-> ReverseTry(l, vc).done]]
         /\ UNCHANGED <<forward_channels, forward_data_stages, internal_forward, data_to_send,
                        credit, credit_update, router_state, pending>>
<1> DEFINE p == [vc \in LinkVcs(l) |-> ReverseTry(l, vc)]
<1>1. /\ Reversed(l, \A vc \in LinkVcs(l) : p[vc].done)
      /\ reverse_channels' = [reverse_channels EXCEPT ![src_connection[l]] =
                                [vc \in LinkVcs(l) |-> p[vc].to]]
      /\ reverse_credit_stages' = [reverse_credit_stages EXCEPT ![l] =
                                     [vc \in LinkVcs(l) |-> p[vc].state]]
      /\ internal_reverse' = [internal_reverse EXCEPT ![l] = [vc \in LinkVcs(l) |-> p[vc].done]]
      /\ UNCHANGED <<forward_channels, forward_data_stages, internal_forward, data_to_send,
                     credit, credit_update, router_state, pending>>
  BY Zenon DEF LinkReverse, ReverseTry
<1>2. \A vc \in LinkVcs(l) : p[vc] = ReverseTry(l, vc)
  BY Zenon
<1> HIDE DEF p
<1>3. /\ [vc \in LinkVcs(l) |-> p[vc].to] = [vc \in LinkVcs(l) |-> ReverseTry(l, vc).to]
      /\ [vc \in LinkVcs(l) |-> p[vc].state] = [vc \in LinkVcs(l) |-> ReverseTry(l, vc).state]
      /\ [vc \in LinkVcs(l) |-> p[vc].done] = [vc \in LinkVcs(l) |-> ReverseTry(l, vc).done]
  BY Zenon, <1>2
<1>4. (\A vc \in LinkVcs(l) : p[vc].done) = (\A vc \in LinkVcs(l) : ReverseTry(l, vc).done)
  BY Zenon, <1>2
<1> QED
  BY Zenon, <1>1, <1>3, <1>4

(***************************************************************************)
(* The turns of a link keep the types.                                     *)
(***************************************************************************)
LEMMA LinkForwardType ==
  ASSUME NEW l \in Links, TypeInvariant, LinkForward(l)
  PROVE  TypeInvariant'
<1> DEFINE p == ForwardTry(l)
<1>1. /\ Forwarded(l, p.done)
      /\ forward_channels' = [forward_channels EXCEPT ![sink_connection[l]] = p.to]
      /\ forward_data_stages' = [forward_data_stages EXCEPT ![l] = p.state]
      /\ internal_forward' = [internal_forward EXCEPT ![l] = p.done]
      /\ UNCHANGED <<reverse_channels, reverse_credit_stages, internal_reverse, data_to_send,
                     credit, credit_update, router_state, pending>>
  BY Zenon, LinkForwardIs
<1>2. p.to \in Channel /\ p.state \in Seq(Flits \cup {Invalid}) /\ p.done \in BOOLEAN
  BY Zenon, ForwardTryResult
<1> HIDE DEF p
<1>3. ControlType' /\ FlagType'
  BY Zenon, <1>1, <1>2, ForwardedType, Kinds DEF TypeInvariant
<1>4. ChannelType'
  BY Zenon, <1>1, <1>2 DEF TypeInvariant, ChannelType
<1>5. LinkType'
  BY Zenon, <1>1, <1>2 DEF TypeInvariant, LinkType
<1>6. SourceType' /\ CreditType' /\ RouterType'
  BY Zenon, <1>1 DEF TypeInvariant, SourceType, CreditType, RouterType, router_state
<1> QED
  BY Zenon, <1>3, <1>4, <1>5, <1>6 DEF TypeInvariant

(***************************************************************************)
(* A link keeps the types in its reverse half.                             *)
(***************************************************************************)
LEMMA LinkReverseType ==
  ASSUME NEW l \in Links, TypeInvariant, LinkReverse(l)
  PROVE  TypeInvariant'
<1> DEFINE p(vc) == ReverseTry(l, vc)
<1>1. /\ Reversed(l, \A vc \in LinkVcs(l) : p(vc).done)
      /\ reverse_channels' = [reverse_channels EXCEPT ![src_connection[l]] =
                                [vc \in LinkVcs(l) |-> p(vc).to]]
      /\ reverse_credit_stages' = [reverse_credit_stages EXCEPT ![l] =
                                     [vc \in LinkVcs(l) |-> p(vc).state]]
      /\ internal_reverse' = [internal_reverse EXCEPT ![l] = [vc \in LinkVcs(l) |-> p(vc).done]]
      /\ UNCHANGED <<forward_channels, forward_data_stages, internal_forward, data_to_send,
                     credit, credit_update, router_state, pending>>
  BY Zenon, LinkReverseIs
<1>2. ASSUME NEW vc \in LinkVcs(l)
      PROVE  p(vc).to \in CreditChannel /\ p(vc).state \in Seq(Nat) /\ p(vc).done \in BOOLEAN
  BY Zenon, ReverseTryResult
<1> HIDE DEF p
<1>3. ControlType' /\ FlagType'
  <2> DEFINE done == \A vc \in LinkVcs(l) : p(vc).done
  <2>1. done \in BOOLEAN /\ Reversed(l, done) /\ l \in Components
    BY Zenon, <1>1, Kinds
  <2> HIDE DEF done
  <2> QED
    BY Zenon, <2>1, ReversedType DEF TypeInvariant
<1>4. ChannelType'
  <2>1. Vcs(src_connection[l]) = LinkVcs(l)
    BY Zenon, LinkSides
  <2>2. [vc \in LinkVcs(l) |-> p(vc).to] \in [Vcs(src_connection[l]) -> CreditChannel]
    BY Zenon, <1>2, <2>1
  <2> QED
    BY Zenon, <1>1, <2>2 DEF TypeInvariant, ChannelType
<1>5. LinkType'
  <2>1. /\ [vc \in LinkVcs(l) |-> p(vc).state] \in [LinkVcs(l) -> Seq(Nat)]
        /\ [vc \in LinkVcs(l) |-> p(vc).done] \in [LinkVcs(l) -> BOOLEAN]
    BY Zenon, <1>2
  <2> QED
    BY Zenon, <1>1, <2>1 DEF TypeInvariant, LinkType
<1>6. SourceType' /\ CreditType' /\ RouterType'
  BY Zenon, <1>1 DEF TypeInvariant, SourceType, CreditType, RouterType, router_state
<1> QED
  BY Zenon, <1>3, <1>4, <1>5, <1>6 DEF TypeInvariant

(***************************************************************************)
(* The turns of a source keep the types.                                   *)
(***************************************************************************)
LEMMA SourceForwardType ==
  ASSUME NEW s \in Sources, TypeInvariant, SourceForward(s)
  PROVE  TypeInvariant'
<1> DEFINE c == sink_connection[s]
<1>1. /\ Forwarded(s, TRUE)
      /\ UNCHANGED <<reverse_channels, link_state, credit_update, router_state, pending>>
  BY Zenon DEF SourceForward
<1>2. PICK x \in Flits \cup {Invalid} : forward_channels' = [forward_channels EXCEPT ![c] = Now(x)]
  BY Zenon, SourceSends
<1>3. /\ SourceType' /\ DOMAIN credit' = Credited
      /\ \A d \in Credited \ {c} : credit'[d] = credit[d]
      /\ credit'[c] \in [Vcs(c) -> Nat]
  BY Zenon, SourceSends
<1>4. ControlType' /\ FlagType'
  <2>1. TRUE \in BOOLEAN /\ s \in Components
    BY Zenon, Kinds
  <2> QED
    BY Zenon, <1>1, <2>1, ForwardedType DEF TypeInvariant
<1>5. ChannelType'
  <2>1. Now(x) \in Channel
    BY Zenon DEF Now, Channel
  <2> QED
    BY Zenon, <1>1, <1>2, <2>1 DEF TypeInvariant, ChannelType
<1>6. LinkType' /\ RouterType'
  BY Zenon, <1>1 DEF TypeInvariant, LinkType, RouterType, link_state, router_state
<1>7. CreditType'
  BY Zenon, <1>1, <1>3 DEF TypeInvariant, CreditType
<1> QED
  BY Zenon, <1>3, <1>4, <1>5, <1>6, <1>7 DEF TypeInvariant

(***************************************************************************)
(* The credit updates keep their types as credits are received.            *)
(***************************************************************************)
LEMMA ReceivedType ==
  ASSUME NEW C, TypeInvariant
  PROVE  /\ DOMAIN CreditsReceived(C) = Credited
         /\ \A c \in Credited : CreditsReceived(C)[c] \in [Vcs(c) -> CreditChannel]
<1>1. \A c \in Credited : \A vc \in Vcs(c) :
        reverse_channels[c][vc] \in CreditChannel /\ credit_update[c][vc] \in CreditChannel
  BY Zenon, Placed DEF TypeInvariant, ChannelType, CreditType
<1> QED
  BY Zenon, <1>1 DEF CreditsReceived

(***************************************************************************)
(* A source keeps the types in its reverse half.                           *)
(***************************************************************************)
LEMMA SourceReverseType ==
  ASSUME NEW s \in Sources, TypeInvariant, SourceReverse(s)
  PROVE  TypeInvariant'
<1>1. /\ Reversed(s, AllReceived(Drives[s]))
      /\ credit_update' = CreditsReceived(Drives[s])
      /\ UNCHANGED <<forward_channels, reverse_channels, link_state, data_to_send, credit,
                     router_state, pending>>
  BY Zenon DEF SourceReverse
<1>2. ControlType' /\ FlagType'
  <2>1. AllReceived(Drives[s]) \in BOOLEAN /\ s \in Components
    BY Zenon, Kinds DEF AllReceived
  <2> QED
    BY Zenon, <1>1, <2>1, ReversedType DEF TypeInvariant
<1>3. CreditType'
  BY Zenon, <1>1, ReceivedType DEF TypeInvariant, CreditType
<1>4. ChannelType' /\ LinkType' /\ SourceType' /\ RouterType'
  BY Zenon, <1>1 DEF TypeInvariant, ChannelType, LinkType, SourceType, RouterType, link_state,
     router_state
<1> QED
  BY Zenon, <1>2, <1>3, <1>4 DEF TypeInvariant

(***************************************************************************)
(* The turns of a router keep the types.                                   *)
(***************************************************************************)
LEMMA RouterForwardType ==
  ASSUME NEW r \in Routers, TypeInvariant, RouterForward(r)
  PROVE  TypeInvariant'
<1>1. /\ Forwarded(r, InputsReady(r))
      /\ UNCHANGED <<reverse_channels, link_state, data_to_send, credit_update, pending>>
  BY Zenon DEF RouterForward
<1>2. ControlType' /\ FlagType'
  <2>1. InputsReady(r) \in BOOLEAN /\ r \in Components
    BY Zenon, Kinds DEF InputsReady
  <2> QED
    BY Zenon, <1>1, <2>1, ForwardedType DEF TypeInvariant
<1>3. LinkType' /\ SourceType'
  BY Zenon, <1>1 DEF TypeInvariant, LinkType, SourceType, link_state
<1>4. RouterType'
  BY Zenon, RouterSends, RouterWaits
<1>5. forward_channels' \in [Connections -> Channel]
  <2>1. CASE InputsReady(r)
    BY Zenon, <2>1, RouterSends
  <2>2. CASE ~InputsReady(r)
    BY Zenon, <2>2, RouterWaits DEF TypeInvariant, ChannelType
  <2> QED
    BY Zenon, <2>1, <2>2
<1>6. ChannelType'
  BY Zenon, <1>1, <1>5 DEF TypeInvariant, ChannelType
<1>7. DOMAIN credit' = Credited /\ \A c \in Credited : credit'[c] \in [Vcs(c) -> Nat]
  <2>1. CASE InputsReady(r)
    <3>1. /\ DOMAIN credit' = Credited
          /\ \A c \in Credited \ Outputs[r] : credit'[c] = credit[c]
          /\ \A c \in Outputs[r] : credit'[c] \in [Vcs(c) -> Nat]
      BY Zenon, <2>1, RouterSends
    <3> QED
      BY Zenon, <3>1 DEF TypeInvariant, CreditType
  <2>2. CASE ~InputsReady(r)
    BY Zenon, <2>2, RouterWaits, RouterCreditType
  <2> QED
    BY Zenon, <2>1, <2>2
<1>8. CreditType'
  BY Zenon, <1>1, <1>7 DEF TypeInvariant, CreditType
<1> QED
  BY Zenon, <1>2, <1>3, <1>4, <1>6, <1>8 DEF TypeInvariant

(***************************************************************************)
(* A router keeps the types in its reverse half.                           *)
(***************************************************************************)
LEMMA RouterReverseType ==
  ASSUME NEW r \in Routers, TypeInvariant, RouterReverse(r)
  PROVE  TypeInvariant'
<1>1. CASE ~forward_propagated[r]
  <2>1. /\ Reversed(r, FALSE)
        /\ UNCHANGED <<forward_channels, reverse_channels, link_state, data_to_send, credit,
                       credit_update, router_state, pending>>
    BY Zenon, <1>1 DEF RouterReverse
  <2>2. ControlType' /\ FlagType'
    <3>1. FALSE \in BOOLEAN /\ r \in Components
      BY Zenon, Kinds
    <3> QED
      BY Zenon, <2>1, <3>1, ReversedType DEF TypeInvariant
  <2>3. ChannelType' /\ LinkType' /\ SourceType' /\ CreditType' /\ RouterType'
    BY Zenon, <2>1 DEF TypeInvariant, ChannelType, LinkType, SourceType, CreditType, RouterType,
       link_state, router_state
  <2> QED
    BY Zenon, <2>2, <2>3 DEF TypeInvariant
<1>2. CASE forward_propagated[r]
  <2>1. /\ Reversed(r, AllReceived(Outputs[r]))
        /\ reverse_channels' =
             [c \in Connections |->
                IF c \in Inputs[r] THEN [vc \in Vcs(c) |-> Now(CreditToSend(c, vc))]
                ELSE reverse_channels[c]]
        /\ credit_update' = CreditsReceived(Outputs[r])
        /\ UNCHANGED <<forward_channels, link_state, data_to_send, credit, router_state, pending>>
    BY Zenon, <1>2 DEF RouterReverse
  <2>2. ControlType' /\ FlagType'
    <3>1. AllReceived(Outputs[r]) \in BOOLEAN /\ r \in Components
      BY Zenon, Kinds DEF AllReceived
    <3> QED
      BY Zenon, <2>1, <3>1, ReversedType DEF TypeInvariant
  <2>3. CreditType'
    BY Zenon, <2>1, ReceivedType DEF TypeInvariant, CreditType
  <2>4. ChannelType'
    <3>1. \A c \in Inputs[r] : \A vc \in Vcs(c) : CreditToSend(c, vc) \in Nat
      <4>1. \A c \in Inputs[r] : c \in Buffered /\ c \in Connections
        BY Zenon, Ports
      <4>2. \A c \in Connections : \A vc \in Vcs(c) : max_queue_size[c][vc] \in Nat
        BY Zenon, NocAssumption
      <4>3. \A c \in Buffered : \A vc \in Vcs(c) : input_credit_to_send[c][vc] \in Nat
        BY Zenon DEF TypeInvariant, RouterType
      <4> QED
        BY Zenon, <4>1, <4>2, <4>3 DEF CreditToSend
    <3>2. \A c \in Inputs[r] : \A vc \in Vcs(c) : Now(CreditToSend(c, vc)) \in CreditChannel
      BY Zenon, <3>1 DEF Now, CreditChannel
    <3> QED
      BY Zenon, <2>1, <3>2 DEF TypeInvariant, ChannelType
  <2>5. LinkType' /\ SourceType' /\ RouterType'
    BY Zenon, <2>1 DEF TypeInvariant, LinkType, SourceType, RouterType, link_state, router_state
  <2> QED
    BY Zenon, <2>2, <2>3, <2>4, <2>5 DEF TypeInvariant
<1> QED
  BY Zenon, <1>1, <1>2

(***************************************************************************)
(* The turns of a sink keep the types.                                     *)
(***************************************************************************)
LEMMA SinkForwardType ==
  ASSUME NEW k \in Sinks, TypeInvariant, SinkForward(k)
  PROVE  TypeInvariant'
<1> DEFINE c == src_connection[k]
           f == forward_channels[c].value
           received == forward_channels[c].now /\ f # Invalid
           C(vc) == IF cycle = 0 THEN max_queue_size[c][vc]
                    ELSE IF received /\ f.vc = vc THEN 1 ELSE 0
<1>1. /\ Forwarded(k, forward_channels[c].now)
      /\ reverse_channels' =
           IF ~forward_channels[c].now THEN reverse_channels
           ELSE [reverse_channels EXCEPT ![c] = [vc \in Vcs(c) |-> Now(C(vc))]]
      /\ UNCHANGED <<forward_channels, link_state, data_to_send, credit, credit_update,
                     router_state>>
  BY Zenon DEF SinkForward
<1>2. c \in Connections
  BY Zenon, Ports
<1>3. \A vc \in Vcs(c) : C(vc) \in Nat
  <2>1. \A vc \in Vcs(c) : max_queue_size[c][vc] \in Nat
    BY Zenon, <1>2, NocAssumption
  <2> QED
    BY Zenon, <2>1
<1> HIDE DEF C
<1>4. \A vc \in Vcs(c) : Now(C(vc)) \in CreditChannel
  BY Zenon, <1>3 DEF Now, CreditChannel
<1>5. ControlType' /\ FlagType'
  <2>1. forward_channels[c].now \in BOOLEAN /\ k \in Components
    BY Zenon, <1>2, Kinds DEF TypeInvariant, ChannelType, Channel
  <2> QED
    BY Zenon, <1>1, <2>1, ForwardedType DEF TypeInvariant
<1>6. ChannelType'
  <2>1. CASE forward_channels[c].now
    <3>1. reverse_channels' = [reverse_channels EXCEPT ![c] = [vc \in Vcs(c) |-> Now(C(vc))]]
      BY Zenon, <1>1, <2>1
    <3> HIDE DEF c
    <3> QED
      BY <1>1, <1>2, <1>4, <3>1 DEF TypeInvariant, ChannelType
  <2>2. CASE ~forward_channels[c].now
    <3>1. reverse_channels' = reverse_channels
      BY Zenon, <1>1, <2>2
    <3> QED
      BY Zenon, <1>1, <3>1 DEF TypeInvariant, ChannelType
  <2> QED
    BY Zenon, <2>1, <2>2
<1>7. LinkType' /\ SourceType' /\ CreditType' /\ RouterType'
  BY Zenon, <1>1 DEF TypeInvariant, LinkType, SourceType, CreditType, RouterType, link_state,
     router_state
<1> QED
  BY Zenon, <1>5, <1>6, <1>7 DEF TypeInvariant

(***************************************************************************)
(* A sink keeps the types in its reverse half.                             *)
(***************************************************************************)
LEMMA SinkReverseType ==
  ASSUME NEW k \in Sinks, TypeInvariant, SinkReverse(k)
  PROVE  TypeInvariant'
<1>1. /\ Reversed(k, TRUE)
      /\ UNCHANGED <<forward_channels, reverse_channels, link_state, data_to_send, credit,
                     credit_update, router_state, pending>>
  BY Zenon DEF SinkReverse
<1>2. ControlType' /\ FlagType'
  <2>1. TRUE \in BOOLEAN /\ k \in Components
    BY Zenon, Kinds
  <2> QED
    BY Zenon, <1>1, <2>1, ReversedType DEF TypeInvariant
<1>3. ChannelType' /\ LinkType' /\ SourceType' /\ CreditType' /\ RouterType'
  BY Zenon, <1>1 DEF TypeInvariant, ChannelType, LinkType, SourceType, CreditType, RouterType,
     link_state, router_state
<1> QED
  BY Zenon, <1>2, <1>3 DEF TypeInvariant

(***************************************************************************)
(* So do a turn with nothing left to do and the end of a tick.             *)
(***************************************************************************)
LEMMA AlreadyType ==
  ASSUME NEW n \in Components, TypeInvariant, AlreadyPropagated(n)
  PROVE  TypeInvariant'
<1>1. UNCHANGED <<order, cycle, phase, converged, nticks, forward_channels, reverse_channels,
                  forward_propagated, reverse_propagated, link_state, data_to_send, credit,
                  credit_update, router_state, pending>>
  BY Zenon DEF AlreadyPropagated
<1>2. ControlType'
  <2>1. Len(order) \in Nat
    BY NocAssumption DEF TypeInvariant, ControlType
  <2> QED
    BY <2>1 DEF AlreadyPropagated, Turn, TypeInvariant, ControlType
<1>3. FlagType' /\ ChannelType' /\ LinkType' /\ SourceType' /\ CreditType' /\ RouterType'
  BY Zenon, <1>1 DEF TypeInvariant, FlagType, ChannelType, LinkType, SourceType, CreditType, RouterType,
     link_state, router_state
<1> QED
  BY Zenon, <1>2, <1>3 DEF TypeInvariant

(***************************************************************************)
(* The end of a tick keeps the types.                                      *)
(***************************************************************************)
LEMMA TickEndsType ==
  ASSUME TypeInvariant, TickEnds
  PROVE  TypeInvariant'
<1>1. UNCHANGED <<order, cycle, half, forward_channels, reverse_channels, forward_propagated,
                  reverse_propagated, link_state, data_to_send, credit, credit_update,
                  router_state, pending>>
  BY Zenon DEF TickEnds
<1>2. ControlType'
  <2>1. Len(order) \in Nat
    BY NocAssumption DEF TypeInvariant, ControlType
  <2> QED
    BY <1>1, <2>1 DEF TickEnds, TypeInvariant, ControlType
<1>3. FlagType' /\ ChannelType' /\ LinkType' /\ SourceType' /\ CreditType' /\ RouterType'
  BY Zenon, <1>1 DEF TypeInvariant, FlagType, ChannelType, LinkType, SourceType, CreditType, RouterType,
     link_state, router_state
<1> QED
  BY Zenon, <1>2, <1>3 DEF TypeInvariant

(***************************************************************************)
(* Every step keeps the types.                                             *)
(***************************************************************************)
LEMMA TypeStep == TypeInvariant /\ [Next]_vars => TypeInvariant'
<1> SUFFICES ASSUME TypeInvariant, [Next]_vars PROVE TypeInvariant'
  BY Zenon
<1>1. CASE UNCHANGED vars
  BY Zenon, <1>1 DEF vars, control, link_state, router_state, TypeInvariant, ControlType, FlagType,
     ChannelType, LinkType, SourceType, CreditType, RouterType
<1>2. CASE \E f \in Flows, d \in Data : \E wait \in 1..MaxWait[f] : SendFlitAtTime(f, d, wait)
  <2>1. PICK f \in Flows, d \in Data : \E wait \in 1..MaxWait[f] : SendFlitAtTime(f, d, wait)
    BY Zenon, <1>2
  <2>2. 1..MaxWait[f] \subseteq Nat
    BY NocAssumption
  <2> QED
    BY Zenon, <2>1, <2>2, SendType
<1>3. CASE RunCycle
  BY Zenon, <1>3, RunCycleType
<1>4. CASE Tick
  BY Zenon, <1>4, AlreadyType, SourceForwardType, SourceReverseType, LinkForwardType,
     LinkReverseType, RouterForwardType, RouterReverseType, SinkForwardType, SinkReverseType,
     TickEndsType DEF Tick
<1> QED
  BY Zenon, <1>1, <1>2, <1>3, <1>4 DEF Next

(***************************************************************************)
(* The variables have their types in every reachable state: a source or    *)
(* router never counts below zero credits, and a queue or buffer of one    *)
(* virtual channel holds flits only.                                       *)
(***************************************************************************)
THEOREM TypeCorrect == Spec => []TypeInvariant
  BY InitType, TypeStep, PTL DEF Spec

--------------------------------------------------------------------------------
(* What a turn of component n touches.                                     *)

(***************************************************************************)
(* Forward channels only where n drives, credit channels only where it     *)
(* reads, and of the components' own state only that of n.                 *)
(***************************************************************************)
Frame(n) ==
  /\ cycle' = cycle /\ order' = order /\ phase' = phase
  /\ \A m \in Components \ {n} : /\ forward_propagated'[m] = forward_propagated[m]
                                 /\ reverse_propagated'[m] = reverse_propagated[m]
  /\ \A c \in Connections \ Drives[n] : forward_channels'[c] = forward_channels[c]
  /\ \A c \in Connections \ Reads[n] : reverse_channels'[c] = reverse_channels[c]
  /\ \A l \in Links \ {n} : /\ internal_forward'[l] = internal_forward[l]
                            /\ internal_reverse'[l] = internal_reverse[l]
                            /\ forward_data_stages'[l] = forward_data_stages[l]
                            /\ reverse_credit_stages'[l] = reverse_credit_stages[l]
  /\ \A r \in Routers \ {n} : internal_propagated'[r] = internal_propagated[r]
  /\ \A c \in Buffered \ Reads[n] : /\ input_buffers'[c] = input_buffers[c]
                                    /\ input_credit_to_send'[c] = input_credit_to_send[c]
  /\ \A c \in Credited \ Drives[n] : /\ credit'[c] = credit[c]
                                     /\ credit_update'[c] = credit_update[c]

(***************************************************************************)
(* The flags after a turn.                                                 *)
(***************************************************************************)
LEMMA ForwardedFlags ==
  ASSUME NEW n \in Components, NEW done \in BOOLEAN, TypeInvariant, Forwarded(n, done)
  PROVE  /\ ~forward_propagated[n] /\ forward_propagated'[n] = done
         /\ \A m \in Components \ {n} : forward_propagated'[m] = forward_propagated[m]
         /\ reverse_propagated' = reverse_propagated
         /\ cycle' = cycle /\ order' = order /\ phase' = phase /\ phase = "tick"
  BY Zenon DEF Forwarded, Turn, TypeInvariant, FlagType

(***************************************************************************)
(* The same for the reverse half.                                          *)
(***************************************************************************)
LEMMA ReversedFlags ==
  ASSUME NEW n \in Components, NEW done \in BOOLEAN, TypeInvariant, Reversed(n, done)
  PROVE  /\ ~reverse_propagated[n] /\ reverse_propagated'[n] = done
         /\ \A m \in Components \ {n} : reverse_propagated'[m] = reverse_propagated[m]
         /\ forward_propagated' = forward_propagated
         /\ cycle' = cycle /\ order' = order /\ phase' = phase /\ phase = "tick"
  BY Zenon DEF Reversed, Turn, TypeInvariant, FlagType

(***************************************************************************)
(* The turns of sources.                                                   *)
(***************************************************************************)
LEMMA SourceForwardFrame ==
  ASSUME NEW s \in Sources, TypeInvariant, SourceForward(s)
  PROVE  Frame(s)
<1> DEFINE c == sink_connection[s]
<1>1. /\ Forwarded(s, TRUE)
      /\ UNCHANGED <<reverse_channels, link_state, credit_update, router_state, pending>>
  BY Zenon DEF SourceForward
<1>2. s \in Components /\ Drives[s] = {c} /\ c \in Connections /\ TRUE \in BOOLEAN
  BY Zenon, Kinds, Attached, Ports
<1>3. PICK x : forward_channels' = [forward_channels EXCEPT ![c] = Now(x)]
  BY Zenon, SourceSends
<1>4. \A d \in Credited \ {c} : credit'[d] = credit[d]
  BY Zenon, SourceSends
<1>5. \A d \in Connections \ {c} : forward_channels'[d] = forward_channels[d]
  BY Zenon, <1>3 DEF TypeInvariant, ChannelType
<1>6. /\ cycle' = cycle /\ order' = order /\ phase' = phase
      /\ reverse_propagated' = reverse_propagated
      /\ \A m \in Components \ {s} : forward_propagated'[m] = forward_propagated[m]
  BY Zenon, <1>1, <1>2, ForwardedFlags
<1> QED
  BY Zenon, <1>1, <1>2, <1>4, <1>5, <1>6 DEF Frame, link_state, router_state

(***************************************************************************)
(* What a sender notes changes nothing of the other components.            *)
(***************************************************************************)
LEMMA ReceivedFrame ==
  ASSUME NEW C, TypeInvariant
  PROVE  \A c \in Credited \ C : CreditsReceived(C)[c] = credit_update[c]
<1>1. \A c \in Credited : credit_update[c] = [vc \in Vcs(c) |-> credit_update[c][vc]]
  BY Zenon DEF TypeInvariant, CreditType
<1>2. \A c \in Credited \ C : CreditsReceived(C)[c] = [vc \in Vcs(c) |-> credit_update[c][vc]]
  BY Zenon DEF CreditsReceived
<1> QED
  BY Zenon, <1>1, <1>2

(***************************************************************************)
(* What the reverse half of a source leaves alone.                         *)
(***************************************************************************)
LEMMA SourceReverseFrame ==
  ASSUME NEW s \in Sources, TypeInvariant, SourceReverse(s)
  PROVE  Frame(s)
<1>1. /\ Reversed(s, AllReceived(Drives[s]))
      /\ credit_update' = CreditsReceived(Drives[s])
      /\ UNCHANGED <<forward_channels, reverse_channels, link_state, data_to_send, credit,
                     router_state, pending>>
  BY Zenon DEF SourceReverse
<1>2. s \in Components /\ AllReceived(Drives[s]) \in BOOLEAN
  BY Zenon, Kinds DEF AllReceived
<1>3. /\ cycle' = cycle /\ order' = order /\ phase' = phase
      /\ forward_propagated' = forward_propagated
      /\ \A m \in Components \ {s} : reverse_propagated'[m] = reverse_propagated[m]
  BY Zenon, <1>1, <1>2, ReversedFlags
<1>4. \A c \in Credited \ Drives[s] : credit_update'[c] = credit_update[c]
  BY Zenon, <1>1, ReceivedFrame
<1> QED
  BY Zenon, <1>1, <1>3, <1>4 DEF Frame, link_state, router_state

(***************************************************************************)
(* The turns of links.                                                     *)
(***************************************************************************)
LEMMA LinkForwardFrame ==
  ASSUME NEW l \in Links, TypeInvariant, LinkForward(l)
  PROVE  Frame(l)
<1> DEFINE p == ForwardTry(l)
<1>1. /\ Forwarded(l, p.done)
      /\ forward_channels' = [forward_channels EXCEPT ![sink_connection[l]] = p.to]
      /\ forward_data_stages' = [forward_data_stages EXCEPT ![l] = p.state]
      /\ internal_forward' = [internal_forward EXCEPT ![l] = p.done]
      /\ UNCHANGED <<reverse_channels, reverse_credit_stages, internal_reverse, data_to_send,
                     credit, credit_update, router_state, pending>>
  BY Zenon, LinkForwardIs
<1>2. p.done \in BOOLEAN
  BY Zenon, ForwardTryResult
<1> HIDE DEF p
<1>3. l \in Components /\ Drives[l] = {sink_connection[l]}
  BY Zenon, Kinds, Attached
<1>4. /\ cycle' = cycle /\ order' = order /\ phase' = phase
      /\ reverse_propagated' = reverse_propagated
      /\ \A m \in Components \ {l} : forward_propagated'[m] = forward_propagated[m]
  BY Zenon, <1>1, <1>2, <1>3, ForwardedFlags
<1>5. \A c \in Connections \ {sink_connection[l]} : forward_channels'[c] = forward_channels[c]
  BY Zenon, <1>1 DEF TypeInvariant, ChannelType
<1>6. \A m \in Links \ {l} : /\ forward_data_stages'[m] = forward_data_stages[m]
                             /\ internal_forward'[m] = internal_forward[m]
  BY Zenon, <1>1 DEF TypeInvariant, LinkType
<1> QED
  BY Zenon, <1>1, <1>3, <1>4, <1>5, <1>6 DEF Frame, router_state

(***************************************************************************)
(* What the reverse half of a link leaves alone.                           *)
(***************************************************************************)
LEMMA LinkReverseFrame ==
  ASSUME NEW l \in Links, TypeInvariant, LinkReverse(l)
  PROVE  Frame(l)
<1> DEFINE done == \A vc \in LinkVcs(l) : ReverseTry(l, vc).done
           F == [vc \in LinkVcs(l) |-> ReverseTry(l, vc).to]
           G == [vc \in LinkVcs(l) |-> ReverseTry(l, vc).state]
           H == [vc \in LinkVcs(l) |-> ReverseTry(l, vc).done]
<1>1. /\ Reversed(l, done)
      /\ reverse_channels' = [reverse_channels EXCEPT ![src_connection[l]] = F]
      /\ reverse_credit_stages' = [reverse_credit_stages EXCEPT ![l] = G]
      /\ internal_reverse' = [internal_reverse EXCEPT ![l] = H]
      /\ UNCHANGED <<forward_channels, forward_data_stages, internal_forward, data_to_send,
                     credit, credit_update, router_state, pending>>
  BY Zenon, LinkReverseIs
<1>2. done \in BOOLEAN
  BY Zenon
<1> HIDE DEF done, F, G, H
<1>3. l \in Components /\ Reads[l] = {src_connection[l]}
  BY Zenon, Kinds, Attached
<1>4. /\ cycle' = cycle /\ order' = order /\ phase' = phase
      /\ forward_propagated' = forward_propagated
      /\ \A m \in Components \ {l} : reverse_propagated'[m] = reverse_propagated[m]
  BY Zenon, <1>1, <1>2, <1>3, ReversedFlags
<1>5. \A c \in Connections \ {src_connection[l]} : reverse_channels'[c] = reverse_channels[c]
  BY Zenon, <1>1 DEF TypeInvariant, ChannelType
<1>6. \A m \in Links \ {l} : /\ reverse_credit_stages'[m] = reverse_credit_stages[m]
                             /\ internal_reverse'[m] = internal_reverse[m]
  BY Zenon, <1>1 DEF TypeInvariant, LinkType
<1> QED
  BY Zenon, <1>1, <1>3, <1>4, <1>5, <1>6 DEF Frame, router_state

(***************************************************************************)
(* The turns of routers.                                                   *)
(***************************************************************************)
LEMMA RouterForwardFrame ==
  ASSUME NEW r \in Routers, TypeInvariant, RouterForward(r)
  PROVE  Frame(r)
<1>1. /\ Forwarded(r, InputsReady(r))
      /\ internal_propagated' = [internal_propagated EXCEPT ![r] = TRUE]
      /\ UNCHANGED <<reverse_channels, link_state, data_to_send, credit_update, pending>>
  BY Zenon DEF RouterForward
<1>2. r \in Components /\ Drives[r] = Outputs[r] /\ Reads[r] = Inputs[r]
      /\ InputsReady(r) \in BOOLEAN
  BY Zenon, Kinds, Attached DEF InputsReady
<1>3. /\ cycle' = cycle /\ order' = order /\ phase' = phase
      /\ reverse_propagated' = reverse_propagated
      /\ \A m \in Components \ {r} : forward_propagated'[m] = forward_propagated[m]
  BY Zenon, <1>1, <1>2, ForwardedFlags
<1>4. \A q \in Routers \ {r} : internal_propagated'[q] = internal_propagated[q]
  BY Zenon, <1>1 DEF TypeInvariant, RouterType
<1>5. /\ \A c \in Connections \ Outputs[r] : forward_channels'[c] = forward_channels[c]
      /\ \A c \in Credited \ Outputs[r] : credit'[c] = credit[c]
      /\ \A c \in Buffered \ Inputs[r] : /\ input_buffers'[c] = input_buffers[c]
                                         /\ input_credit_to_send'[c] = input_credit_to_send[c]
  <2>1. CASE InputsReady(r)
    BY Zenon, <2>1, RouterSends
  <2>2. CASE ~InputsReady(r)
    BY Zenon, <2>2, RouterWaits, RouterCreditType
  <2> QED
    BY Zenon, <2>1, <2>2
<1> QED
  BY Zenon, <1>1, <1>2, <1>3, <1>4, <1>5 DEF Frame, link_state

(***************************************************************************)
(* What the reverse half of a router leaves alone.                         *)
(***************************************************************************)
LEMMA RouterReverseFrame ==
  ASSUME NEW r \in Routers, TypeInvariant, RouterReverse(r)
  PROVE  Frame(r)
<1>1. r \in Components /\ Drives[r] = Outputs[r] /\ Reads[r] = Inputs[r]
      /\ AllReceived(Outputs[r]) \in BOOLEAN /\ FALSE \in BOOLEAN
  BY Zenon, Kinds, Attached DEF AllReceived
<1>2. /\ cycle' = cycle /\ order' = order /\ phase' = phase
      /\ forward_propagated' = forward_propagated
      /\ \A m \in Components \ {r} : reverse_propagated'[m] = reverse_propagated[m]
  BY Zenon, <1>1, ReversedFlags DEF RouterReverse
<1>3. /\ \A c \in Connections \ Inputs[r] : reverse_channels'[c] = reverse_channels[c]
      /\ \A c \in Credited \ Outputs[r] : credit_update'[c] = credit_update[c]
  BY Zenon, ReceivedFrame DEF RouterReverse
<1>4. UNCHANGED <<forward_channels, link_state, data_to_send, credit, router_state, pending>>
  BY Zenon DEF RouterReverse
<1> QED
  BY Zenon, <1>1, <1>2, <1>3, <1>4 DEF Frame, link_state, router_state

(***************************************************************************)
(* The turns of sinks.                                                     *)
(***************************************************************************)
LEMMA SinkForwardFrame ==
  ASSUME NEW k \in Sinks, TypeInvariant, SinkForward(k)
  PROVE  Frame(k)
<1>1. /\ Forwarded(k, forward_channels[src_connection[k]].now)
      /\ UNCHANGED <<forward_channels, link_state, data_to_send, credit, credit_update,
                     router_state>>
  BY Zenon DEF SinkForward
<1>2. k \in Components /\ Reads[k] = {src_connection[k]}
      /\ forward_channels[src_connection[k]].now \in BOOLEAN
  BY Zenon, Kinds, Attached, Ports DEF TypeInvariant, ChannelType, Channel
<1>3. /\ cycle' = cycle /\ order' = order /\ phase' = phase
      /\ reverse_propagated' = reverse_propagated
      /\ \A m \in Components \ {k} : forward_propagated'[m] = forward_propagated[m]
  BY Zenon, <1>1, <1>2, ForwardedFlags
<1>4. \A c \in Connections \ {src_connection[k]} : reverse_channels'[c] = reverse_channels[c]
  <2>1. \/ reverse_channels' = reverse_channels
        \/ \E F : reverse_channels' = [reverse_channels EXCEPT ![src_connection[k]] = F]
    BY Zenon DEF SinkForward
  <2> QED
    BY Zenon, <2>1 DEF TypeInvariant, ChannelType
<1> QED
  BY Zenon, <1>1, <1>2, <1>3, <1>4 DEF Frame, link_state, router_state

(***************************************************************************)
(* What the reverse half of a sink leaves alone.                           *)
(***************************************************************************)
LEMMA SinkReverseFrame ==
  ASSUME NEW k \in Sinks, TypeInvariant, SinkReverse(k)
  PROVE  Frame(k)
<1>1. k \in Components /\ TRUE \in BOOLEAN
  BY Zenon, Kinds
<1>2. /\ Reversed(k, TRUE)
      /\ UNCHANGED <<forward_channels, reverse_channels, link_state, data_to_send, credit,
                     credit_update, router_state, pending>>
  BY Zenon DEF SinkReverse
<1>3. /\ cycle' = cycle /\ order' = order /\ phase' = phase
      /\ forward_propagated' = forward_propagated
      /\ \A m \in Components \ {k} : reverse_propagated'[m] = reverse_propagated[m]
  BY Zenon, <1>1, <1>2, ReversedFlags
<1> QED
  BY Zenon, <1>2, <1>3 DEF Frame, link_state, router_state

--------------------------------------------------------------------------------
(* What the flags of a component say of its channels.                      *)

(***************************************************************************)
(* A source or router has written its forward channels just when it is     *)
(* done; a router or sink that is done has seen its inputs; a link that    *)
(* is done has taken its input and written its output, and without stages  *)
(* it writes the output only then.                                         *)
(***************************************************************************)
ForwardOf(n) ==
  /\ n \in Sources => (forward_channels[sink_connection[n]].now <=> forward_propagated[n])
  /\ n \in Routers => /\ \A c \in Outputs[n] : forward_channels[c].now <=> forward_propagated[n]
                      /\ forward_propagated[n] => internal_propagated[n] /\ InputsReady(n)
  /\ n \in Links => /\ internal_forward[n] <=> forward_propagated[n]
                    /\ internal_forward[n] => /\ forward_channels[src_connection[n]].now
                                              /\ forward_channels[sink_connection[n]].now
                    /\ /\ forward_pipeline_stages[n] = 0
                       /\ forward_channels[sink_connection[n]].now
                       => internal_forward[n]
  /\ n \in Sinks => (forward_propagated[n] => forward_channels[src_connection[n]].now)

(***************************************************************************)
(* The same for credits.  A router may write its credit channels in        *)
(* several tries, with the same credits each time.                         *)
(***************************************************************************)
ReverseOf(n) ==
  /\ n \in Sources => (reverse_propagated[n] => AllReceived(Drives[n]))
  /\ n \in Routers =>
       /\ \A c \in Inputs[n] : \A vc \in Vcs(c) : reverse_channels[c][vc].now =>
            /\ forward_propagated[n]
            /\ reverse_channels[c][vc] = Now(CreditToSend(c, vc))
       /\ reverse_propagated[n] => AllReceived(Inputs[n]) /\ AllReceived(Outputs[n])
  /\ n \in Links =>
       /\ reverse_propagated[n] => \A vc \in LinkVcs(n) : internal_reverse[n][vc]
       /\ \A vc \in LinkVcs(n) :
            /\ internal_reverse[n][vc] => /\ reverse_channels[src_connection[n]][vc].now
                                          /\ reverse_channels[sink_connection[n]][vc].now
            /\ reverse_pipeline_stages[n] = 0 /\ reverse_channels[src_connection[n]][vc].now
                 => internal_reverse[n][vc]
  /\ n \in Sinks => \A vc \in Vcs(src_connection[n]) :
                      reverse_channels[src_connection[n]][vc].now <=> forward_propagated[n]

FlagInvariant == \A n \in Components : ForwardOf(n) /\ ReverseOf(n)

(***************************************************************************)
(* A step that changes no channel that was written in this cycle.          *)
(***************************************************************************)
Steady ==
  \A c \in Connections :
    /\ forward_channels[c].now => forward_channels'[c] = forward_channels[c]
    /\ \A vc \in Vcs(c) :
         reverse_channels[c][vc].now => reverse_channels'[c][vc] = reverse_channels[c][vc]

(***************************************************************************)
(* A steady turn of n keeps what the flags of the others say.              *)
(***************************************************************************)
LEMMA ForwardKept ==
  ASSUME TypeInvariant, NEW n \in Components, NEW m \in Components \ {n},
         Frame(n), Steady, ForwardOf(m)
  PROVE  ForwardOf(m)'
<1>1. \A c \in Drives[m] : c \notin Drives[n]
  BY Zenon, NocAssumption
<1>2. forward_propagated'[m] = forward_propagated[m]
  BY Zenon DEF Frame
<1>3. \A c \in Connections : forward_channels[c].now => forward_channels'[c].now
  BY Zenon DEF Steady
<1>4. CASE m \in Sources
  <2>1. forward_channels'[sink_connection[m]] = forward_channels[sink_connection[m]]
    BY Zenon, <1>1, <1>4, Joined DEF Frame
  <2> QED
    BY Zenon, <1>2, <1>4, <2>1, Apart DEF ForwardOf
<1>5. CASE m \in Routers
  <2>1. \A c \in Outputs[m] : forward_channels'[c] = forward_channels[c]
    BY Zenon, <1>1, <1>5, Attached, Ports DEF Frame
  <2>2. internal_propagated'[m] = internal_propagated[m]
    BY Zenon, <1>5 DEF Frame
  <2>3. InputsReady(m) => InputsReady(m)'
    BY Zenon, <1>3, <1>5, Ports DEF InputsReady
  <2> QED
    BY Zenon, <1>2, <1>5, <2>1, <2>2, <2>3, Apart DEF ForwardOf
<1>6. CASE m \in Links
  <2>1. forward_channels'[sink_connection[m]] = forward_channels[sink_connection[m]]
    BY Zenon, <1>1, <1>6, Joined DEF Frame
  <2>2. forward_channels[src_connection[m]].now => forward_channels'[src_connection[m]].now
    BY Zenon, <1>3, <1>6, Ports
  <2>3. internal_forward'[m] = internal_forward[m]
    BY Zenon, <1>6 DEF Frame
  <2> QED
    BY Zenon, <1>2, <1>6, <2>1, <2>2, <2>3, Apart DEF ForwardOf
<1>7. CASE m \in Sinks
  <2>1. forward_channels[src_connection[m]].now => forward_channels'[src_connection[m]].now
    BY Zenon, <1>3, <1>7, Ports
  <2> QED
    BY Zenon, <1>2, <1>7, <2>1, Apart DEF ForwardOf
<1> QED
  BY Zenon, <1>4, <1>5, <1>6, <1>7 DEF Components

(***************************************************************************)
(* The same for the flags of the reverse half.                             *)
(***************************************************************************)
LEMMA ReverseKept ==
  ASSUME TypeInvariant, NEW n \in Components, NEW m \in Components \ {n},
         Frame(n), Steady, ReverseOf(m)
  PROVE  ReverseOf(m)'
<1>1. \A c \in Reads[m] : c \notin Reads[n]
  BY Zenon, NocAssumption
<1>2. /\ forward_propagated'[m] = forward_propagated[m]
      /\ reverse_propagated'[m] = reverse_propagated[m]
  BY Zenon DEF Frame
<1>3. \A c \in Connections : \A vc \in Vcs(c) :
        reverse_channels[c][vc].now => reverse_channels'[c][vc].now
  BY Zenon DEF Steady
<1>4. CASE m \in Sources
  <2>1. AllReceived(Drives[m]) => AllReceived(Drives[m])'
    BY Zenon, <1>3, <1>4, Joined DEF AllReceived
  <2> QED
    BY Zenon, <1>2, <1>4, <2>1, Apart DEF ReverseOf
<1>5. CASE m \in Routers
  <2>1. \A c \in Inputs[m] : reverse_channels'[c] = reverse_channels[c]
    BY Zenon, <1>1, <1>5, Attached, Ports DEF Frame
  <2>2. \A c \in Inputs[m] : \A vc \in Vcs(c) : CreditToSend(c, vc)' = CreditToSend(c, vc)
    <3>1. \A c \in Inputs[m] : input_credit_to_send'[c] = input_credit_to_send[c]
      BY Zenon, <1>1, <1>5, Attached, Ports DEF Frame
    <3>2. cycle' = cycle
      BY Zenon DEF Frame
    <3> QED
      BY Zenon, <3>1, <3>2 DEF CreditToSend
  <2>3. /\ AllReceived(Inputs[m]) => AllReceived(Inputs[m])'
        /\ AllReceived(Outputs[m]) => AllReceived(Outputs[m])'
    BY Zenon, <1>3, <1>5, Ports DEF AllReceived
  <2> QED
    BY Zenon, <1>2, <1>5, <2>1, <2>2, <2>3, Apart DEF ReverseOf
<1>6. CASE m \in Links
  <2>1. reverse_channels'[src_connection[m]] = reverse_channels[src_connection[m]]
    BY Zenon, <1>1, <1>6, Joined DEF Frame
  <2>2. \A vc \in LinkVcs(m) : reverse_channels[sink_connection[m]][vc].now
                                 => reverse_channels'[sink_connection[m]][vc].now
    BY Zenon, <1>3, <1>6, Ports, LinkSides
  <2>3. internal_reverse'[m] = internal_reverse[m]
    BY Zenon, <1>6 DEF Frame
  <2> QED
    BY Zenon, <1>2, <1>6, <2>1, <2>2, <2>3, Apart DEF ReverseOf
<1>7. CASE m \in Sinks
  <2>1. reverse_channels'[src_connection[m]] = reverse_channels[src_connection[m]]
    BY Zenon, <1>1, <1>7, Joined DEF Frame
  <2> QED
    BY Zenon, <1>2, <1>7, <2>1, Apart DEF ReverseOf
<1> QED
  BY Zenon, <1>4, <1>5, <1>6, <1>7 DEF Components

(***************************************************************************)
(* A turn is steady if it is where n writes.                               *)
(***************************************************************************)
LEMMA SteadyTurn ==
  ASSUME NEW n \in Components, Frame(n),
         \A c \in Drives[n] : forward_channels[c].now => forward_channels'[c] = forward_channels[c],
         \A c \in Reads[n] : \A vc \in Vcs(c) :
           reverse_channels[c][vc].now => reverse_channels'[c][vc] = reverse_channels[c][vc]
  PROVE  Steady
  BY Zenon DEF Frame, Steady

(***************************************************************************)
(* The turns of sources are steady, and keep what their flags say.         *)
(***************************************************************************)
LEMMA SourceForwardFlags ==
  ASSUME NEW s \in Sources, TypeInvariant, FlagInvariant, SourceForward(s)
  PROVE  Steady /\ ForwardOf(s)' /\ ReverseOf(s)'
<1> DEFINE c == sink_connection[s]
<1>1. Forwarded(s, TRUE) /\ reverse_channels' = reverse_channels
  BY Zenon DEF SourceForward
<1>2. s \in Components /\ c \in Connections /\ Drives[s] = {c} /\ Reads[s] = {} /\ TRUE \in BOOLEAN
  BY Zenon, Kinds, Attached, Ports
<1>3. /\ ~forward_propagated[s] /\ forward_propagated'[s] = TRUE
      /\ reverse_propagated' = reverse_propagated
  BY Zenon, <1>1, <1>2, ForwardedFlags
<1>4. PICK x : forward_channels' = [forward_channels EXCEPT ![c] = Now(x)]
  BY Zenon, SourceSends
<1>5. forward_channels'[c].now = TRUE
  BY Zenon, <1>2, <1>4 DEF TypeInvariant, ChannelType, Now
<1>6. ForwardOf(s) /\ ReverseOf(s)
  BY Zenon, <1>2 DEF FlagInvariant
<1>7. Steady
  <2>1. ~forward_channels[c].now
    BY Zenon, <1>3, <1>6 DEF ForwardOf
  <2>2. Frame(s)
    BY Zenon, SourceForwardFrame
  <2> QED
    BY Zenon, <1>2, <2>1, <2>2, SteadyTurn
<1>8. ForwardOf(s)'
  BY Zenon, <1>3, <1>5, Apart DEF ForwardOf
<1>9. ReverseOf(s)'
  BY Zenon, <1>1, <1>3, <1>6, Apart DEF ReverseOf, AllReceived
<1> QED
  BY Zenon, <1>7, <1>8, <1>9

(***************************************************************************)
(* The flags after the reverse half of a source.                           *)
(***************************************************************************)
LEMMA SourceReverseFlags ==
  ASSUME NEW s \in Sources, TypeInvariant, FlagInvariant, SourceReverse(s)
  PROVE  Steady /\ ForwardOf(s)' /\ ReverseOf(s)'
<1>1. /\ Reversed(s, AllReceived(Drives[s]))
      /\ forward_channels' = forward_channels /\ reverse_channels' = reverse_channels
  BY Zenon DEF SourceReverse
<1>2. s \in Components /\ AllReceived(Drives[s]) \in BOOLEAN
  BY Zenon, Kinds DEF AllReceived
<1>3. /\ reverse_propagated'[s] = AllReceived(Drives[s])
      /\ forward_propagated' = forward_propagated
  BY Zenon, <1>1, <1>2, ReversedFlags
<1>4. ForwardOf(s)
  BY Zenon, <1>2 DEF FlagInvariant
<1>5. Steady
  BY Zenon, <1>1 DEF Steady
<1>6. ForwardOf(s)'
  BY Zenon, <1>1, <1>3, <1>4, Apart DEF ForwardOf
<1>7. ReverseOf(s)'
  BY Zenon, <1>1, <1>3, Apart DEF ReverseOf, AllReceived
<1> QED
  BY Zenon, <1>5, <1>6, <1>7

(***************************************************************************)
(* So are and do those of links.                                           *)
(***************************************************************************)
LEMMA LinkForwardFlags ==
  ASSUME NEW l \in Links, TypeInvariant, FlagInvariant, LinkForward(l)
  PROVE  Steady /\ ForwardOf(l)' /\ ReverseOf(l)'
<1> DEFINE p == ForwardTry(l)
           a == src_connection[l]
           b == sink_connection[l]
           from == forward_channels[a]
           to == forward_channels[b]
<1>1. /\ Forwarded(l, p.done)
      /\ forward_channels' = [forward_channels EXCEPT ![b] = p.to]
      /\ internal_forward' = [internal_forward EXCEPT ![l] = p.done]
      /\ reverse_channels' = reverse_channels /\ internal_reverse' = internal_reverse
  BY Zenon, LinkForwardIs
<1>2. /\ p.done \in BOOLEAN
      /\ p.done <=> internal_forward[l] \/ from.now
      /\ to.now => p.to.now
      /\ ~internal_forward[l] /\ p.done => p.to.now
      /\ to.now /\ (forward_pipeline_stages[l] = 0 => internal_forward[l]) => p.to = to
      /\ forward_pipeline_stages[l] = 0 /\ p.to.now => p.done \/ to.now
  BY Zenon, ForwardTryResult
<1> HIDE DEF p
<1>3. /\ l \in Components /\ a \in Connections /\ b \in Connections
      /\ Drives[l] = {b} /\ Reads[l] = {a}
  BY Zenon, Kinds, Attached, Ports
<1>4. ForwardOf(l) /\ ReverseOf(l)
  BY Zenon, <1>3 DEF FlagInvariant
<1>5. /\ ~forward_propagated[l] /\ forward_propagated'[l] = p.done
      /\ reverse_propagated' = reverse_propagated
  BY Zenon, <1>1, <1>2, <1>3, ForwardedFlags
<1>6. /\ ~internal_forward[l]
      /\ forward_pipeline_stages[l] = 0 => ~to.now
  BY Zenon, <1>4, <1>5 DEF ForwardOf
<1>7. forward_channels'[b] = p.to /\ internal_forward'[l] = p.done
  BY Zenon, <1>1, <1>3 DEF TypeInvariant, ChannelType, LinkType
<1>8. to.now => p.to = to
  BY Zenon, <1>2, <1>6
<1>9. Steady
  <2>1. Frame(l)
    BY Zenon, LinkForwardFrame
  <2> QED
    BY Zenon, <1>1, <1>3, <1>7, <1>8, <2>1, SteadyTurn
<1>10. from.now => forward_channels'[a].now
  BY Zenon, <1>3, <1>9 DEF Steady
<1>11. ForwardOf(l)'
  BY Zenon, <1>2, <1>5, <1>6, <1>7, <1>10, Apart DEF ForwardOf
<1>12. ReverseOf(l)'
  BY Zenon, <1>1, <1>4, <1>5, Apart DEF ReverseOf
<1> QED
  BY Zenon, <1>9, <1>11, <1>12

(***************************************************************************)
(* The flags after the reverse half of a link.                             *)
(***************************************************************************)
LEMMA LinkReverseFlags ==
  ASSUME NEW l \in Links, TypeInvariant, FlagInvariant, LinkReverse(l)
  PROVE  Steady /\ ForwardOf(l)' /\ ReverseOf(l)'
<1> DEFINE p(vc) == ReverseTry(l, vc)
           done == \A vc \in LinkVcs(l) : p(vc).done
           a == src_connection[l]
           b == sink_connection[l]
           from(vc) == reverse_channels[b][vc]
           to(vc) == reverse_channels[a][vc]
<1>1. /\ Reversed(l, done)
      /\ reverse_channels' = [reverse_channels EXCEPT ![a] = [vc \in LinkVcs(l) |-> p(vc).to]]
      /\ internal_reverse' = [internal_reverse EXCEPT ![l] = [vc \in LinkVcs(l) |-> p(vc).done]]
      /\ forward_channels' = forward_channels /\ internal_forward' = internal_forward
  BY Zenon, LinkReverseIs
<1>2. ASSUME NEW vc \in LinkVcs(l)
      PROVE  /\ p(vc).done \in BOOLEAN
             /\ p(vc).done <=> internal_reverse[l][vc] \/ from(vc).now
             /\ to(vc).now => p(vc).to.now
             /\ ~internal_reverse[l][vc] /\ p(vc).done => p(vc).to.now
             /\ to(vc).now /\ (reverse_pipeline_stages[l] = 0 => internal_reverse[l][vc])
                  => p(vc).to = to(vc)
             /\ reverse_pipeline_stages[l] = 0 /\ p(vc).to.now => p(vc).done \/ to(vc).now
  BY Zenon, ReverseTryResult
<1>3. done \in BOOLEAN
  BY Zenon
<1> HIDE DEF p
<1>4. /\ l \in Components /\ a \in Connections /\ b \in Connections
      /\ Drives[l] = {b} /\ Reads[l] = {a} /\ Vcs(a) = LinkVcs(l) /\ Vcs(b) = LinkVcs(l)
  BY Zenon, Kinds, Attached, Ports, LinkSides
<1>5. ForwardOf(l) /\ ReverseOf(l)
  BY Zenon, <1>4 DEF FlagInvariant
<1>6. /\ reverse_propagated'[l] = done /\ forward_propagated' = forward_propagated
  <2> HIDE DEF done
  <2> QED
    BY Zenon, <1>1, <1>3, <1>4, ReversedFlags
<1>7. ASSUME NEW vc \in LinkVcs(l)
      PROVE  reverse_channels'[a][vc] = p(vc).to /\ internal_reverse'[l][vc] = p(vc).done
  BY Zenon, <1>1, <1>4 DEF TypeInvariant, ChannelType, LinkType
<1>8. ASSUME NEW vc \in LinkVcs(l)
      PROVE  /\ internal_reverse[l][vc] => to(vc).now /\ from(vc).now
             /\ reverse_pipeline_stages[l] = 0 /\ to(vc).now => internal_reverse[l][vc]
             /\ to(vc).now => p(vc).to = to(vc)
  BY Zenon, <1>2, <1>5 DEF ReverseOf
<1>9. Steady
  <2>1. Frame(l)
    BY Zenon, LinkReverseFrame
  <2>2. \A c \in Drives[l] : forward_channels[c].now => forward_channels'[c] = forward_channels[c]
    BY Zenon, <1>1
  <2>3. \A c \in Reads[l] : \A vc \in Vcs(c) :
          reverse_channels[c][vc].now => reverse_channels'[c][vc] = reverse_channels[c][vc]
    <3>1. \A vc \in LinkVcs(l) : to(vc).now => reverse_channels'[a][vc] = to(vc)
      BY Zenon, <1>7, <1>8
    <3> QED
      BY Zenon, <1>4, <3>1
  <2> QED
    BY Zenon, <1>4, <2>1, <2>2, <2>3, SteadyTurn
<1>10. ASSUME NEW vc \in LinkVcs(l)
       PROVE  from(vc).now => reverse_channels'[b][vc].now
  BY Zenon, <1>4, <1>9 DEF Steady
<1>11. ASSUME NEW vc \in LinkVcs(l)
       PROVE  /\ internal_reverse'[l][vc] => /\ reverse_channels'[a][vc].now
                                             /\ reverse_channels'[b][vc].now
              /\ reverse_pipeline_stages[l] = 0 /\ reverse_channels'[a][vc].now
                   => internal_reverse'[l][vc]
  BY Zenon, <1>2, <1>7, <1>8, <1>10
<1>12. reverse_propagated'[l] => \A vc \in LinkVcs(l) : internal_reverse'[l][vc]
  BY Zenon, <1>6, <1>7
<1>13. ReverseOf(l)'
  BY Zenon, <1>11, <1>12, Apart DEF ReverseOf
<1>14. ForwardOf(l)'
  BY Zenon, <1>1, <1>5, <1>6, Apart DEF ForwardOf
<1> QED
  BY Zenon, <1>9, <1>13, <1>14

(***************************************************************************)
(* So are and do those of routers.                                         *)
(***************************************************************************)
LEMMA RouterForwardFlags ==
  ASSUME NEW r \in Routers, TypeInvariant, FlagInvariant, RouterForward(r)
  PROVE  Steady /\ ForwardOf(r)' /\ ReverseOf(r)'
<1>1. /\ Forwarded(r, InputsReady(r))
      /\ internal_propagated' = [internal_propagated EXCEPT ![r] = TRUE]
      /\ reverse_channels' = reverse_channels
  BY Zenon DEF RouterForward
<1>2. /\ r \in Components /\ InputsReady(r) \in BOOLEAN
      /\ Drives[r] = Outputs[r] /\ Reads[r] = Inputs[r]
      /\ \A c \in Inputs[r] : c \in Connections
  BY Zenon, Kinds, Attached, Ports DEF InputsReady
<1>3. /\ ~forward_propagated[r] /\ forward_propagated'[r] = InputsReady(r)
      /\ reverse_propagated' = reverse_propagated
  BY Zenon, <1>1, <1>2, ForwardedFlags
<1>4. ForwardOf(r) /\ ReverseOf(r)
  BY Zenon, <1>2 DEF FlagInvariant
<1>5. \A c \in Outputs[r] : ~forward_channels[c].now
  BY Zenon, <1>3, <1>4 DEF ForwardOf
<1>6. Steady
  <2>1. Frame(r)
    BY Zenon, RouterForwardFrame
  <2> QED
    BY Zenon, <1>1, <1>2, <1>5, <2>1, SteadyTurn
<1>7. internal_propagated'[r] = TRUE
  BY Zenon, <1>1 DEF TypeInvariant, RouterType
<1>8. \A c \in Outputs[r] : forward_channels'[c].now <=> InputsReady(r)
  <2>1. CASE InputsReady(r)
    <3>1. \A c \in Outputs[r] : \E x : forward_channels'[c] = Now(x)
      BY Zenon, <2>1, RouterSends
    <3>2. \A x : Now(x).now = TRUE
      BY Zenon DEF Now
    <3> QED
      BY Zenon, <2>1, <3>1, <3>2
  <2>2. CASE ~InputsReady(r)
    BY Zenon, <1>5, <2>2, RouterWaits
  <2> QED
    BY Zenon, <2>1, <2>2
<1>9. InputsReady(r) => InputsReady(r)'
  BY Zenon, <1>2, <1>6 DEF InputsReady, Steady
<1>10. ForwardOf(r)'
  BY Zenon, <1>3, <1>7, <1>8, <1>9, Apart DEF ForwardOf
<1>11. \A c \in Inputs[r] : \A vc \in Vcs(c) : ~reverse_channels'[c][vc].now
  BY Zenon, <1>1, <1>3, <1>4 DEF ReverseOf
<1>12. ReverseOf(r)'
  BY Zenon, <1>1, <1>3, <1>4, <1>11, Apart DEF ReverseOf, AllReceived
<1> QED
  BY Zenon, <1>6, <1>10, <1>12

(***************************************************************************)
(* The flags after the reverse half of a router.                           *)
(***************************************************************************)
LEMMA RouterReverseFlags ==
  ASSUME NEW r \in Routers, TypeInvariant, FlagInvariant, RouterReverse(r)
  PROVE  Steady /\ ForwardOf(r)' /\ ReverseOf(r)'
<1>1. /\ forward_channels' = forward_channels /\ internal_propagated' = internal_propagated
      /\ input_credit_to_send' = input_credit_to_send
  BY Zenon DEF RouterReverse, router_state
<1>2. /\ r \in Components /\ AllReceived(Outputs[r]) \in BOOLEAN /\ FALSE \in BOOLEAN
      /\ Drives[r] = Outputs[r] /\ Reads[r] = Inputs[r]
      /\ \A c \in Inputs[r] : c \in Connections
      /\ \A c \in Outputs[r] : c \in Connections
  BY Zenon, Kinds, Attached, Ports DEF AllReceived
<1>3. forward_propagated' = forward_propagated /\ cycle' = cycle
  BY Zenon, <1>2, ReversedFlags DEF RouterReverse
<1>4. ForwardOf(r) /\ ReverseOf(r)
  BY Zenon, <1>2 DEF FlagInvariant
<1>5. ForwardOf(r)'
  BY Zenon, <1>1, <1>3, <1>4, Apart DEF ForwardOf, InputsReady
<1>6. \A c, vc : CreditToSend(c, vc)' = CreditToSend(c, vc)
  BY Zenon, <1>1, <1>3 DEF CreditToSend
<1>7. CASE ~forward_propagated[r]
  <2>1. reverse_channels' = reverse_channels /\ Reversed(r, FALSE)
    BY Zenon, <1>7 DEF RouterReverse
  <2>2. reverse_propagated'[r] = FALSE
    BY Zenon, <1>2, <2>1, ReversedFlags
  <2>3. Steady
    BY Zenon, <1>1, <2>1 DEF Steady
  <2>4. ReverseOf(r)'
    BY Zenon, <1>3, <1>4, <1>6, <2>1, <2>2, Apart DEF ReverseOf
  <2> QED
    BY Zenon, <1>5, <2>3, <2>4
<1>8. CASE forward_propagated[r]
  <2>1. /\ Reversed(r, AllReceived(Outputs[r]))
        /\ reverse_channels' =
             [c \in Connections |->
                IF c \in Inputs[r] THEN [vc \in Vcs(c) |-> Now(CreditToSend(c, vc))]
                ELSE reverse_channels[c]]
    BY Zenon, <1>8 DEF RouterReverse
  <2>2. reverse_propagated'[r] = AllReceived(Outputs[r])
    BY Zenon, <1>2, <2>1, ReversedFlags
  <2>3. \A c \in Inputs[r] : \A vc \in Vcs(c) :
          reverse_channels'[c][vc] = Now(CreditToSend(c, vc))
    BY Zenon, <1>2, <2>1
  <2>4. Steady
    <3>1. Frame(r)
      BY Zenon, RouterReverseFrame
    <3>2. \A c \in Inputs[r] : \A vc \in Vcs(c) :
            reverse_channels[c][vc].now => reverse_channels'[c][vc] = reverse_channels[c][vc]
      BY Zenon, <1>4, <2>3 DEF ReverseOf
    <3> QED
      BY Zenon, <1>1, <1>2, <3>1, <3>2, SteadyTurn
  <2>5. AllReceived(Outputs[r]) => AllReceived(Outputs[r])'
    BY Zenon, <1>2, <2>4 DEF AllReceived, Steady
  <2>6. \A x : Now(x).now = TRUE
    BY Zenon DEF Now
  <2>7. AllReceived(Inputs[r])'
    BY Zenon, <2>3, <2>6 DEF AllReceived
  <2>8. ReverseOf(r)'
    BY Zenon, <1>3, <1>6, <1>8, <2>2, <2>3, <2>5, <2>7, Apart DEF ReverseOf
  <2> QED
    BY Zenon, <1>5, <2>4, <2>8
<1> QED
  BY Zenon, <1>7, <1>8

(***************************************************************************)
(* So are and do those of sinks.                                           *)
(***************************************************************************)
LEMMA SinkForwardFlags ==
  ASSUME NEW k \in Sinks, TypeInvariant, FlagInvariant, SinkForward(k)
  PROVE  Steady /\ ForwardOf(k)' /\ ReverseOf(k)'
<1> DEFINE c == src_connection[k]
<1>1. /\ Forwarded(k, forward_channels[c].now) /\ forward_channels' = forward_channels
  BY Zenon DEF SinkForward
<1>2. /\ k \in Components /\ c \in Connections /\ forward_channels[c].now \in BOOLEAN
      /\ Drives[k] = {} /\ Reads[k] = {c}
  BY Zenon, Kinds, Attached, Ports DEF TypeInvariant, ChannelType, Channel
<1>3. /\ ~forward_propagated[k] /\ forward_propagated'[k] = forward_channels[c].now
      /\ reverse_propagated' = reverse_propagated
  BY Zenon, <1>1, <1>2, ForwardedFlags
<1>4. ForwardOf(k) /\ ReverseOf(k)
  BY Zenon, <1>2 DEF FlagInvariant
<1>5. \A vc \in Vcs(c) : ~reverse_channels[c][vc].now
  BY Zenon, <1>3, <1>4 DEF ReverseOf
<1>6. Steady
  <2>1. Frame(k)
    BY Zenon, SinkForwardFrame
  <2> QED
    BY Zenon, <1>2, <1>5, <2>1, SteadyTurn
<1>7. ForwardOf(k)'
  BY Zenon, <1>1, <1>3, Apart DEF ForwardOf
<1>8. \A vc \in Vcs(c) : reverse_channels'[c][vc].now <=> forward_channels[c].now
  <2>1. CASE ~forward_channels[c].now
    BY Zenon, <1>5, <2>1 DEF SinkForward
  <2>2. CASE forward_channels[c].now
    <3> DEFINE C(vc) == IF cycle = 0 THEN max_queue_size[c][vc]
                        ELSE IF /\ forward_channels[c].now /\ forward_channels[c].value # Invalid
                                /\ forward_channels[c].value.vc = vc
                             THEN 1 ELSE 0
    <3>1. reverse_channels' = [reverse_channels EXCEPT ![c] = [vc \in Vcs(c) |-> Now(C(vc))]]
      BY Zenon, <2>2 DEF SinkForward
    <3> HIDE DEF C
    <3> QED
      BY Zenon, <1>2, <2>2, <3>1 DEF TypeInvariant, ChannelType, Now
  <2> QED
    BY Zenon, <2>1, <2>2
<1>9. ReverseOf(k)'
  BY Zenon, <1>3, <1>8, Apart DEF ReverseOf
<1> QED
  BY Zenon, <1>6, <1>7, <1>9

(***************************************************************************)
(* The flags after the reverse half of a sink.                             *)
(***************************************************************************)
LEMMA SinkReverseFlags ==
  ASSUME NEW k \in Sinks, TypeInvariant, FlagInvariant, SinkReverse(k)
  PROVE  Steady /\ ForwardOf(k)' /\ ReverseOf(k)'
<1>1. /\ Reversed(k, TRUE)
      /\ forward_channels' = forward_channels /\ reverse_channels' = reverse_channels
  BY Zenon DEF SinkReverse
<1>2. k \in Components /\ TRUE \in BOOLEAN
  BY Zenon, Kinds
<1>3. forward_propagated' = forward_propagated
  BY Zenon, <1>1, <1>2, ReversedFlags
<1>4. ForwardOf(k) /\ ReverseOf(k)
  BY Zenon, <1>2 DEF FlagInvariant
<1>5. Steady
  BY Zenon, <1>1 DEF Steady
<1>6. ForwardOf(k)' /\ ReverseOf(k)'
  BY Zenon, <1>1, <1>3, <1>4, Apart DEF ForwardOf, ReverseOf
<1> QED
  BY Zenon, <1>5, <1>6

(***************************************************************************)
(* A turn of n in which n has something left to do, and a step that leaves *)
(* the network as it is.                                                   *)
(***************************************************************************)
TurnOf(n) ==
  \/ n \in Sources /\ (SourceForward(n) \/ SourceReverse(n))
  \/ n \in Links /\ (LinkForward(n) \/ LinkReverse(n))
  \/ n \in Routers /\ (RouterForward(n) \/ RouterReverse(n))
  \/ n \in Sinks /\ (SinkForward(n) \/ SinkReverse(n))

Still ==
  UNCHANGED <<cycle, order, forward_channels, reverse_channels, forward_propagated,
              reverse_propagated, link_state, credit, credit_update, router_state>>

(***************************************************************************)
(* Every step is a turn, leaves the network as it is, or begins a cycle.   *)
(***************************************************************************)
LEMMA Steps ==
  ASSUME [Next]_vars
  PROVE  \/ \E n \in Components : TurnOf(n)
         \/ Still /\ UNCHANGED <<phase, at, half, converged>>
         \/ Still /\ \E n \in Components : AlreadyPropagated(n)
         \/ Still /\ TickEnds
         \/ RunCycle
<1>1. CASE UNCHANGED vars
  BY Zenon, <1>1 DEF vars, control, Still
<1>2. CASE \E f \in Flows, d \in Data : \E wait \in 1..MaxWait[f] : SendFlitAtTime(f, d, wait)
  BY Zenon, <1>2 DEF SendFlitAtTime, control, Still
<1>3. CASE Tick
  <2>1. ASSUME NEW n \in Components, AlreadyPropagated(n)
        PROVE  Still
    BY Zenon, <2>1 DEF AlreadyPropagated, Still
  <2>2. TickEnds => Still
    BY Zenon DEF TickEnds, Still
  <2>3. \/ \E n \in Components : AlreadyPropagated(n)
        \/ TickEnds
        \/ \E n \in Components : TurnOf(n)
    BY Zenon, <1>3 DEF Tick, TurnOf, Components
  <2> QED
    BY Zenon, <2>1, <2>2, <2>3
<1> QED
  BY Zenon, <1>1, <1>2, <1>3 DEF Next

(***************************************************************************)
(* A turn changes no written channel, and keeps the flags.                 *)
(***************************************************************************)
LEMMA TurnFacts ==
  ASSUME NEW n \in Components, TypeInvariant, FlagInvariant, TurnOf(n)
  PROVE  Frame(n) /\ Steady /\ ForwardOf(n)' /\ ReverseOf(n)'
<1>1. Frame(n)
  BY Zenon, SourceForwardFrame, SourceReverseFrame, LinkForwardFrame, LinkReverseFrame,
     RouterForwardFrame, RouterReverseFrame, SinkForwardFrame, SinkReverseFrame DEF TurnOf
<1>2. Steady /\ ForwardOf(n)' /\ ReverseOf(n)'
  BY Zenon, SourceForwardFlags, SourceReverseFlags, LinkForwardFlags, LinkReverseFlags,
     RouterForwardFlags, RouterReverseFlags, SinkForwardFlags, SinkReverseFlags DEF TurnOf
<1> QED
  BY Zenon, <1>1, <1>2

(***************************************************************************)
(* What the flags say holds at first and is kept.                          *)
(***************************************************************************)
LEMMA InitFlags == Init => FlagInvariant
<1> SUFFICES ASSUME Init, NEW n \in Components PROVE ForwardOf(n) /\ ReverseOf(n)
  BY Zenon DEF FlagInvariant
<1>1. /\ \A c \in Connections : forward_channels[c].now = TRUE
      /\ \A c \in Connections : \A vc \in Vcs(c) : reverse_channels[c][vc] = Now(0)
      /\ forward_propagated[n] = TRUE
      /\ \A r \in Routers : internal_propagated[r] = TRUE
      /\ \A l \in Links : internal_forward[l] = TRUE
      /\ \A l \in Links : \A vc \in LinkVcs(l) : internal_reverse[l][vc] = TRUE
  BY Zenon DEF Init, EachVc, Now
<1>2. \A c \in Connections : \A vc \in Vcs(c) : reverse_channels[c][vc].now = TRUE
  BY <1>1 DEF Now
<1>3. \A c \in Buffered : \A vc \in Vcs(c) : CreditToSend(c, vc) = 0
  BY DEF Init, CreditToSend, EachVc
<1>4. ForwardOf(n)
  BY Zenon, <1>1, Ports DEF ForwardOf, InputsReady
<1>5. ReverseOf(n)
  <2>1. n \in Routers => /\ AllReceived(Inputs[n]) /\ AllReceived(Outputs[n])
                         /\ \A c \in Inputs[n] : \A vc \in Vcs(c) :
                              reverse_channels[c][vc] = Now(CreditToSend(c, vc))
    BY Zenon, <1>1, <1>2, <1>3, Ports DEF AllReceived
  <2>2. AllReceived(Drives[n])
    BY Zenon, <1>2, Joined DEF AllReceived
  <2>3. n \in Links => \A vc \in LinkVcs(n) : /\ internal_reverse[n][vc]
                                              /\ reverse_channels[src_connection[n]][vc].now
                                              /\ reverse_channels[sink_connection[n]][vc].now
    BY Zenon, <1>1, <1>2, LinkSides, Ports
  <2>4. n \in Sinks => \A vc \in Vcs(src_connection[n]) :
                         reverse_channels[src_connection[n]][vc].now
    BY Zenon, <1>2, Ports
  <2> QED
    BY Zenon, <1>1, <2>1, <2>2, <2>3, <2>4 DEF ReverseOf
<1> QED
  BY Zenon, <1>4, <1>5

(***************************************************************************)
(* A new cycle clears the flags together with the channels.                *)
(***************************************************************************)
LEMMA RunCycleFlags ==
  ASSUME RunCycle
  PROVE  FlagInvariant'
<1> SUFFICES ASSUME NEW n \in Components PROVE ForwardOf(n)' /\ ReverseOf(n)'
  BY Zenon DEF FlagInvariant
<1>1. /\ \A c \in Connections : forward_channels'[c].now = FALSE
      /\ \A c \in Connections : \A vc \in Vcs(c) : reverse_channels'[c][vc].now = FALSE
      /\ forward_propagated'[n] = FALSE /\ reverse_propagated'[n] = FALSE
      /\ \A l \in Links : internal_forward'[l] = FALSE
      /\ \A l \in Links : \A vc \in LinkVcs(l) : internal_reverse'[l][vc] = FALSE
  BY Zenon DEF RunCycle, EachVc, Old
<1>2. ForwardOf(n)'
  BY Zenon, <1>1, Ports DEF ForwardOf
<1>3. ReverseOf(n)'
  <2>1. n \in Links => \A vc \in LinkVcs(n) : ~reverse_channels'[src_connection[n]][vc].now
    BY Zenon, <1>1, LinkSides, Ports
  <2>2. n \in Routers => \A c \in Inputs[n] : \A vc \in Vcs(c) : ~reverse_channels'[c][vc].now
    BY Zenon, <1>1, Ports
  <2>3. n \in Sinks => \A vc \in Vcs(src_connection[n]) :
                         ~reverse_channels'[src_connection[n]][vc].now
    BY Zenon, <1>1, Ports
  <2> QED
    BY Zenon, <1>1, <2>1, <2>2, <2>3 DEF ReverseOf
<1> QED
  BY Zenon, <1>2, <1>3

(***************************************************************************)
(* The flags say what they should after every step.                        *)
(***************************************************************************)
LEMMA FlagStep == TypeInvariant /\ FlagInvariant /\ [Next]_vars => FlagInvariant'
<1> SUFFICES ASSUME TypeInvariant, FlagInvariant, [Next]_vars PROVE FlagInvariant'
  BY Zenon
<1>1. ASSUME NEW n \in Components, TurnOf(n)
      PROVE  FlagInvariant'
  <2>1. Frame(n) /\ Steady /\ ForwardOf(n)' /\ ReverseOf(n)'
    BY Zenon, <1>1, TurnFacts
  <2>2. \A m \in Components \ {n} : ForwardOf(m)' /\ ReverseOf(m)'
    BY Zenon, <2>1, ForwardKept, ReverseKept DEF FlagInvariant
  <2> QED
    BY Zenon, <2>1, <2>2 DEF FlagInvariant
<1>2. CASE Still
  BY Zenon, <1>2 DEF Still, FlagInvariant, ForwardOf, ReverseOf, AllReceived, InputsReady,
     CreditToSend, link_state, router_state
<1> QED
  BY Zenon, <1>1, <1>2, RunCycleFlags, Steps

(***************************************************************************)
(* A component that is done has seen its connections: what its flags say.  *)
(***************************************************************************)
LEMMA FlagsCurrent == FlagInvariant => ConvergedMeansCurrent
<1> SUFFICES ASSUME FlagInvariant, NEW n \in Components,
                    forward_propagated[n], reverse_propagated[n],
                    NEW c \in Drives[n] \cup Reads[n]
             PROVE  forward_channels[c].now /\ \A vc \in Vcs(c) : reverse_channels[c][vc].now
  BY Zenon DEF ConvergedMeansCurrent
<1>1. ForwardOf(n) /\ ReverseOf(n)
  BY Zenon DEF FlagInvariant
<1>2. CASE n \in Sources
  <2>1. c = sink_connection[n] /\ c \in Drives[n]
    BY Zenon, <1>2, Attached
  <2> QED
    BY Zenon, <1>1, <1>2, <2>1 DEF ForwardOf, ReverseOf, AllReceived
<1>3. CASE n \in Links
  <2>1. c = sink_connection[n] \/ c = src_connection[n]
    BY <1>3, Attached
  <2>2. Vcs(c) = LinkVcs(n)
    BY Zenon, <1>3, <2>1, LinkSides
  <2>3. /\ forward_channels[src_connection[n]].now
        /\ forward_channels[sink_connection[n]].now
    BY Zenon, <1>1, <1>3 DEF ForwardOf
  <2>4. \A vc \in LinkVcs(n) : /\ reverse_channels[src_connection[n]][vc].now
                               /\ reverse_channels[sink_connection[n]][vc].now
    BY Zenon, <1>1, <1>3 DEF ReverseOf
  <2> QED
    BY Zenon, <2>1, <2>2, <2>3, <2>4
<1>4. CASE n \in Routers
  <2>1. c \in Inputs[n] \/ c \in Outputs[n]
    BY Zenon, <1>4, Attached
  <2> QED
    BY Zenon, <1>1, <1>4, <2>1 DEF ForwardOf, ReverseOf, AllReceived, InputsReady
<1>5. CASE n \in Sinks
  <2>1. c = src_connection[n]
    BY Zenon, <1>5, Attached
  <2> QED
    BY Zenon, <1>1, <1>5, <2>1 DEF ForwardOf, ReverseOf
<1> QED
  BY Zenon, <1>2, <1>3, <1>4, <1>5 DEF Components

(***************************************************************************)
(* A component that has converged has seen every connection attached to it *)
(* in the state of the current cycle, whatever the network and the order   *)
(* of the ticks (ConvergedMeansCurrent).                                   *)
(***************************************************************************)
THEOREM ConvergedIsCurrent == Spec => []ConvergedMeansCurrent
  BY FlagsCurrent, InitType, InitFlags, TypeStep, FlagStep, PTL DEF Spec

(***************************************************************************)
(* No channel that was written in a cycle changes later in it, however     *)
(* often and in whatever order the components are ticked (WrittenOnce).    *)
(***************************************************************************)
THEOREM ChannelsWrittenOnce == Spec => WrittenOnce
<1>1. TypeInvariant /\ FlagInvariant /\ [Next]_vars => (phase = "tick" => Steady)
  <2> SUFFICES ASSUME TypeInvariant, FlagInvariant, [Next]_vars, phase = "tick" PROVE Steady
    BY Zenon
  <2>1. Still => Steady
    BY Zenon DEF Still, Steady
  <2>2. ~RunCycle
    BY Zenon DEF RunCycle
  <2> QED
    BY Zenon, <2>1, <2>2, Steps, TurnFacts
<1>2. TypeInvariant /\ FlagInvariant /\ [Next]_vars =>
        [phase = "tick" =>
           \A c \in Connections :
             /\ forward_channels[c].now => forward_channels'[c] = forward_channels[c]
             /\ \A vc \in Vcs(c) :
                  reverse_channels[c][vc].now
                    => reverse_channels'[c][vc] = reverse_channels[c][vc]]_vars
  BY Zenon, <1>1 DEF Steady
<1> QED
  BY <1>2, InitType, InitFlags, TypeStep, FlagStep, PTL DEF Spec, WrittenOnce

--------------------------------------------------------------------------------
(* The order of the steps of a tick, and the credits a sender has seen.    *)

(***************************************************************************)
(* The components that keep credits, and those that hand them out.  A      *)
(* sender adds the credits of the last cycle on its first forward try.     *)
(***************************************************************************)
Senders == Sources \cup Routers
Receivers == Routers \cup Sinks

Added(n) == IF n \in Routers THEN internal_propagated[n] ELSE forward_propagated[n]

(***************************************************************************)
(* A sender notes the credits of a cycle after it added those of the last, *)
(* and has noted all of them when it is done.                              *)
(***************************************************************************)
NotedOf(n) ==
  /\ \A c \in Drives[n] : \A vc \in Vcs(c) :
       credit_update[c][vc].now => Added(n) /\ credit_update[c][vc] = reverse_channels[c][vc]
  /\ reverse_propagated[n] => \A c \in Drives[n] : \A vc \in Vcs(c) : credit_update[c][vc].now

Noted == \A n \in Senders : NotedOf(n)

(***************************************************************************)
(* A source is through with its forward half when its reverse half is      *)
(* tried.  While a tick is converged, everything it has passed is done, so *)
(* that between cycles everything is.                                      *)
(***************************************************************************)
Tour ==
  /\ phase = "tick" /\ at > Len(order) => half = "forward"
  /\ phase = "tick" /\ half = "reverse" /\ at <= Len(order) =>
       /\ order[at] \in Sources => forward_propagated[order[at]]
       /\ converged => forward_propagated[order[at]]
  /\ phase = "tick" /\ converged =>
       \A i \in 1 .. at - 1 : forward_propagated[order[i]] /\ reverse_propagated[order[i]]
  /\ phase = "idle" => \A n \in Components : forward_propagated[n] /\ reverse_propagated[n]

(***************************************************************************)
(* No other component drives what n drives or reads what n reads.          *)
(***************************************************************************)
LEMMA Alone ==
  \A n, m \in Components : n # m => /\ \A c \in Drives[n] : c \notin Drives[m]
                                   /\ \A c \in Reads[n] : c \notin Reads[m]
  BY Zenon, NocAssumption

(***************************************************************************)
(* The tour is where Tour says at first and after every step.              *)
(***************************************************************************)
LEMMA InitTour == Init => Tour
<1> SUFFICES ASSUME Init PROVE Tour
  BY Zenon
<1>1. phase = "idle" /\ \A n \in Components : forward_propagated[n] /\ reverse_propagated[n]
  BY Zenon DEF Init
<1>2. phase # "tick"
  BY Zenon, <1>1
<1> QED
  BY Zenon, <1>1, <1>2 DEF Tour

(***************************************************************************)
(* A forward half.                                                         *)
(***************************************************************************)
LEMMA ForwardTour ==
  ASSUME NEW n \in Components, NEW done \in BOOLEAN, TypeInvariant, Tour, Forwarded(n, done),
         n \in Sources => done
  PROVE  Tour'
<1>1. /\ phase = "tick" /\ phase' = "tick" /\ order' = order /\ at' = at /\ order[at] = n
      /\ converged' = (converged /\ done) /\ half' = "reverse" /\ at <= Len(order)
  BY Zenon DEF Forwarded, Turn
<1>2. /\ forward_propagated'[n] = done
      /\ \A m \in Components \ {n} : forward_propagated'[m] = forward_propagated[m]
      /\ reverse_propagated' = reverse_propagated
  BY Zenon, ForwardedFlags
<1>3. phase' # "idle" /\ ~(at' > Len(order'))
  <2>1. at \in Nat /\ Len(order) \in Nat
    BY NocAssumption DEF TypeInvariant, ControlType
  <2> QED
    BY <1>1, <2>1
<1>4. /\ order'[at'] \in Sources => forward_propagated'[order'[at']]
      /\ converged' => forward_propagated'[order'[at']]
  BY Zenon, <1>1, <1>2
<1>5. ASSUME converged', NEW i \in 1 .. at' - 1
      PROVE  forward_propagated'[order'[i]] /\ reverse_propagated'[order'[i]]
  <2>1. converged /\ done
    BY Zenon, <1>1, <1>5
  <2>2. i \in 1 .. at - 1
    BY Zenon, <1>1
  <2>3. order[i] \in Components
    <3>1. order \in Seq(Components) /\ at \in 1 .. Len(order) + 1
      BY Zenon, NocAssumption DEF TypeInvariant, ControlType
    <3>2. i \in 1 .. Len(order)
      BY <2>2, <3>1
    <3> QED
      BY <3>1, <3>2
  <2>4. forward_propagated[order[i]] /\ reverse_propagated[order[i]]
    BY Zenon, <1>1, <2>1, <2>2 DEF Tour
  <2> QED
    BY Zenon, <1>1, <1>2, <2>1, <2>3, <2>4
<1> QED
  BY Zenon, <1>3, <1>4, <1>5 DEF Tour

(***************************************************************************)
(* A reverse half.                                                         *)
(***************************************************************************)
LEMMA ReverseTour ==
  ASSUME NEW n \in Components, NEW done \in BOOLEAN, TypeInvariant, Tour, Reversed(n, done)
  PROVE  Tour'
<1>1. /\ phase = "tick" /\ phase' = "tick" /\ order' = order /\ at' = at + 1 /\ order[at] = n
      /\ converged' = (converged /\ done) /\ half = "reverse" /\ half' = "forward"
      /\ at <= Len(order)
  BY Zenon DEF Reversed, Turn
<1>2. /\ reverse_propagated'[n] = done
      /\ \A m \in Components \ {n} : reverse_propagated'[m] = reverse_propagated[m]
      /\ forward_propagated' = forward_propagated
  BY Zenon, ReversedFlags
<1>3. phase' # "idle" /\ half' # "reverse"
  BY Zenon, <1>1
<1>4. order \in Seq(Components) /\ at \in 1 .. Len(order) + 1
  BY Zenon, NocAssumption DEF TypeInvariant, ControlType
<1>5. ASSUME converged', NEW i \in 1 .. at' - 1
      PROVE  forward_propagated'[order'[i]] /\ reverse_propagated'[order'[i]]
  <2>1. converged /\ done
    BY Zenon, <1>1, <1>5
  <2>2. (i \in 1 .. at - 1 \/ i = at) /\ i \in 1 .. Len(order)
    BY <1>1, <1>4
  <2>3. order[i] \in Components
    BY <1>4, <2>2
  <2>4. CASE i = at
    <3>1. forward_propagated[order[at]]
      BY Zenon, <1>1, <2>1 DEF Tour
    <3> QED
      BY Zenon, <1>1, <1>2, <2>1, <2>4, <3>1
  <2>5. CASE i \in 1 .. at - 1
    <3>1. forward_propagated[order[i]] /\ reverse_propagated[order[i]]
      BY Zenon, <1>1, <2>1, <2>5 DEF Tour
    <3> QED
      BY Zenon, <1>1, <1>2, <2>1, <2>3, <3>1
  <2> QED
    BY Zenon, <2>2, <2>4, <2>5
<1> QED
  BY Zenon, <1>1, <1>3, <1>5 DEF Tour

(***************************************************************************)
(* A half that was done before, and the end of a tick.                     *)
(***************************************************************************)
LEMMA AlreadyTour ==
  ASSUME NEW n \in Components, TypeInvariant, Tour, AlreadyPropagated(n)
  PROVE  Tour'
<1>1. /\ phase = "tick" /\ phase' = "tick" /\ order' = order /\ order[at] = n
      /\ converged' = converged /\ at <= Len(order)
      /\ forward_propagated' = forward_propagated /\ reverse_propagated' = reverse_propagated
  BY Zenon DEF AlreadyPropagated, Turn
<1>2. phase' # "idle"
  BY Zenon, <1>1
<1>3. order \in Seq(Components) /\ at \in 1 .. Len(order) + 1
  BY Zenon, NocAssumption DEF TypeInvariant, ControlType
<1>4. CASE forward_propagated[n] /\ half' = "reverse" /\ at' = at
  <2>1. ~(at' > Len(order'))
    BY <1>1, <1>3, <1>4
  <2> QED
    BY Zenon, <1>1, <1>2, <1>4, <2>1 DEF Tour
<1>5. CASE half = "reverse" /\ reverse_propagated[n] /\ half' = "forward" /\ at' = at + 1
  <2>1. ASSUME converged', NEW i \in 1 .. at' - 1
        PROVE  forward_propagated'[order'[i]] /\ reverse_propagated'[order'[i]]
    <3>1. i \in 1 .. at - 1 \/ i = at
      BY <1>3, <1>5
    <3>2. forward_propagated[order[at]]
      BY Zenon, <1>1, <1>5, <2>1 DEF Tour
    <3> QED
      BY Zenon, <1>1, <1>5, <2>1, <3>1, <3>2 DEF Tour
  <2>2. half' # "reverse"
    BY Zenon, <1>5
  <2> QED
    BY Zenon, <1>2, <1>5, <2>1, <2>2 DEF Tour
<1> QED
  BY Zenon, <1>4, <1>5 DEF AlreadyPropagated, Turn

(***************************************************************************)
(* At the end of a converged tick everything is done, since the order      *)
(* leaves no component out.                                                *)
(***************************************************************************)
LEMMA TickEndsTour ==
  ASSUME TypeInvariant, Tour, TickEnds
  PROVE  Tour'
<1>1. /\ phase = "tick" /\ order' = order /\ at' = 1 /\ at > Len(order)
      /\ forward_propagated' = forward_propagated /\ reverse_propagated' = reverse_propagated
      /\ half' = half
  BY Zenon DEF TickEnds
<1>2. ASSUME NEW i \in 1 .. at' - 1 PROVE FALSE
  BY <1>1
<1>3. order \in Seq(Components) /\ at \in 1 .. Len(order) + 1 /\ order \in Orders
  BY Zenon, NocAssumption DEF TypeInvariant, ControlType
<1>4. ASSUME phase' = "idle", NEW n \in Components
      PROVE  forward_propagated'[n] /\ reverse_propagated'[n]
  <2>1. converged
    BY Zenon, <1>4 DEF TickEnds
  <2>2. PICK i \in 1 .. Len(order) : order[i] = n
    BY Zenon, <1>3, CompleteAssumption
  <2>3. i \in 1 .. at - 1
    BY <1>1, <1>3
  <2> QED
    BY Zenon, <1>1, <2>1, <2>2, <2>3 DEF Tour
<1>5. half' = "forward" /\ half' # "reverse"
  BY Zenon, <1>1 DEF Tour
<1> QED
  BY Zenon, <1>1, <1>2, <1>4, <1>5 DEF Tour

(***************************************************************************)
(* A turn is a forward half, with which a source is through, or a reverse  *)
(* half.                                                                   *)
(***************************************************************************)
LEMMA TurnHalves ==
  ASSUME NEW n \in Components, TypeInvariant, TurnOf(n)
  PROVE  \/ \E done \in BOOLEAN : Forwarded(n, done) /\ (n \in Sources => done)
         \/ \E done \in BOOLEAN : Reversed(n, done)
<1>1. CASE n \in Sources /\ SourceForward(n)
  BY Zenon, <1>1 DEF SourceForward
<1>2. CASE n \in Sources /\ SourceReverse(n)
  <2> DEFINE done == AllReceived(Drives[n])
  <2>1. done \in BOOLEAN
    BY Zenon DEF AllReceived
  <2>2. Reversed(n, done)
    BY Zenon, <1>2 DEF SourceReverse
  <2> HIDE DEF done
  <2> QED
    BY Zenon, <2>1, <2>2
<1>3. CASE n \in Links /\ LinkForward(n)
  <2>1. Forwarded(n, ForwardTry(n).done) /\ ForwardTry(n).done \in BOOLEAN
    BY Zenon, <1>3, LinkForwardIs, ForwardTryResult
  <2> QED
    BY Zenon, <1>3, <2>1, Apart
<1>4. CASE n \in Links /\ LinkReverse(n)
  <2> DEFINE done == \A vc \in LinkVcs(n) : ReverseTry(n, vc).done
  <2>1. done \in BOOLEAN
    BY Zenon
  <2>2. Reversed(n, done)
    BY Zenon, <1>4, LinkReverseIs
  <2> HIDE DEF done
  <2> QED
    BY Zenon, <2>1, <2>2
<1>5. CASE n \in Routers /\ RouterForward(n)
  <2>1. InputsReady(n) \in BOOLEAN
    BY Zenon DEF InputsReady
  <2>2. Forwarded(n, InputsReady(n))
    BY Zenon, <1>5 DEF RouterForward
  <2> QED
    BY Zenon, <1>5, <2>1, <2>2, Apart
<1>6. CASE n \in Routers /\ RouterReverse(n)
  <2> DEFINE done == AllReceived(Outputs[n])
  <2>1. done \in BOOLEAN
    BY Zenon DEF AllReceived
  <2>2. Reversed(n, done) \/ Reversed(n, FALSE)
    BY Zenon, <1>6 DEF RouterReverse
  <2> HIDE DEF done
  <2> QED
    BY Zenon, <2>1, <2>2
<1>7. CASE n \in Sinks /\ SinkForward(n)
  <2> DEFINE done == forward_channels[src_connection[n]].now
  <2>1. done \in BOOLEAN
    BY Zenon, <1>7, Ports DEF TypeInvariant, ChannelType, Channel
  <2>2. Forwarded(n, done)
    BY Zenon, <1>7 DEF SinkForward
  <2> HIDE DEF done
  <2> QED
    BY Zenon, <1>7, <2>1, <2>2, Apart
<1>8. CASE n \in Sinks /\ SinkReverse(n)
  BY Zenon, <1>8 DEF SinkReverse
<1> QED
  BY Zenon, <1>1, <1>2, <1>3, <1>4, <1>5, <1>6, <1>7, <1>8 DEF TurnOf

(***************************************************************************)
(* The first step of a cycle.                                              *)
(***************************************************************************)
LEMMA RunCycleTour ==
  ASSUME RunCycle
  PROVE  Tour'
<1>1. phase' = "tick" /\ at' = 1 /\ half' = "forward"
  BY Zenon DEF RunCycle
<1>2. phase' # "idle" /\ half' # "reverse" /\ \A i \in 1 .. at' - 1 : FALSE
  BY <1>1
<1> QED
  BY Zenon, <1>1, <1>2 DEF Tour

(***************************************************************************)
(* The tour is where Tour says after every step.                           *)
(***************************************************************************)
LEMMA TourStep == TypeInvariant /\ Tour /\ [Next]_vars => Tour'
<1> SUFFICES ASSUME TypeInvariant, Tour, [Next]_vars PROVE Tour'
  BY Zenon
<1>1. ASSUME NEW n \in Components, TurnOf(n) PROVE Tour'
  BY Zenon, <1>1, TurnHalves, ForwardTour, ReverseTour
<1>2. CASE Still /\ UNCHANGED <<phase, at, half, converged>>
  BY Zenon, <1>2 DEF Still, Tour
<1> QED
  BY Zenon, <1>1, <1>2, AlreadyTour, TickEndsTour, RunCycleTour, Steps

(***************************************************************************)
(* What senders note holds at first.                                       *)
(***************************************************************************)
LEMMA InitNoted == Init => Noted
<1> SUFFICES ASSUME Init, NEW n \in Senders PROVE NotedOf(n)
  BY Zenon DEF Noted
<1>1. n \in Components
  BY Zenon, Kinds DEF Senders
<1>2. ASSUME NEW c \in Drives[n], NEW vc \in Vcs(c)
      PROVE  credit_update[c][vc] = Now(0) /\ reverse_channels[c][vc] = Now(0)
  <2>1. c \in Connections /\ c \in Credited
    BY Zenon, <1>1, <1>2, Joined DEF Credited, Senders
  <2> QED
    BY Zenon, <1>2, <2>1 DEF Init, EachVc
<1>3. Added(n)
  BY Zenon, <1>1 DEF Init, Added
<1>4. Now(0).now
  BY Zenon DEF Now
<1> QED
  BY Zenon, <1>2, <1>3, <1>4 DEF NotedOf

(***************************************************************************)
(* Credits that are noted: those of connections C whose state is current.  *)
(***************************************************************************)
LEMMA ReceivedNoted ==
  ASSUME NEW C, TypeInvariant, NEW c \in Credited, c \in C, NEW vc \in Vcs(c)
  PROVE  /\ credit_update[c][vc].now => CreditsReceived(C)[c][vc] = credit_update[c][vc]
         /\ ~credit_update[c][vc].now /\ reverse_channels[c][vc].now
              => CreditsReceived(C)[c][vc] = reverse_channels[c][vc]
         /\ ~reverse_channels[c][vc].now => CreditsReceived(C)[c][vc] = credit_update[c][vc]
  BY Zenon DEF CreditsReceived

(***************************************************************************)
(* What a sender that is not the one to turn has noted stays.              *)
(***************************************************************************)
LEMMA NotedKept ==
  ASSUME NEW m \in Components, NEW n \in Senders, n # m, Frame(m), Steady, NotedOf(n)
  PROVE  NotedOf(n)'
<1>1. n \in Components /\ n \in Components \ {m}
  BY Zenon, Kinds DEF Senders
<1>2. \A c \in Drives[n] : c \in Connections /\ c \in Credited /\ c \notin Drives[m]
  BY Zenon, <1>1, Joined, Alone DEF Credited, Senders
<1>3. \A c \in Drives[n] : credit_update'[c] = credit_update[c]
  BY Zenon, <1>2 DEF Frame
<1>4. Added(n)' <=> Added(n)
  <2>1. forward_propagated'[n] = forward_propagated[n]
    BY Zenon, <1>1 DEF Frame
  <2>2. n \in Routers => internal_propagated'[n] = internal_propagated[n]
    BY Zenon DEF Frame
  <2> QED
    BY Zenon, <2>1, <2>2 DEF Added
<1>5. reverse_propagated'[n] = reverse_propagated[n]
  BY Zenon, <1>1 DEF Frame
<1>6. ASSUME NEW c \in Drives[n], NEW vc \in Vcs(c), credit_update'[c][vc].now
      PROVE  Added(n)' /\ credit_update'[c][vc] = reverse_channels'[c][vc]
  <2>1. Added(n) /\ credit_update[c][vc] = reverse_channels[c][vc]
    BY Zenon, <1>3, <1>6 DEF NotedOf
  <2>2. reverse_channels[c][vc].now
    BY Zenon, <1>3, <1>6, <2>1
  <2>3. reverse_channels'[c][vc] = reverse_channels[c][vc]
    BY Zenon, <1>2, <1>6, <2>2 DEF Steady
  <2> QED
    BY Zenon, <1>3, <1>4, <1>6, <2>1, <2>3
<1> QED
  BY Zenon, <1>3, <1>5, <1>6 DEF NotedOf

(***************************************************************************)
(* A sender's own turn: a forward half notes nothing, a reverse half notes *)
(* what is current.                                                        *)
(***************************************************************************)
LEMMA NotedForward ==
  ASSUME NEW n \in Senders, NotedOf(n), Steady, Added(n)',
         credit_update' = credit_update, reverse_propagated' = reverse_propagated
  PROVE  NotedOf(n)'
<1>1. n \in Components
  BY Zenon, Kinds DEF Senders
<1>2. ASSUME NEW c \in Drives[n], NEW vc \in Vcs(c), credit_update[c][vc].now
      PROVE  credit_update[c][vc] = reverse_channels'[c][vc]
  <2>1. c \in Connections
    BY Zenon, <1>1, Joined
  <2> QED
    BY Zenon, <1>2, <2>1 DEF NotedOf, Steady
<1> QED
  BY Zenon, <1>2 DEF NotedOf

(***************************************************************************)
(* The same for a reverse half that notes credits.                         *)
(***************************************************************************)
LEMMA NotedReverse ==
  ASSUME NEW n \in Senders, TypeInvariant, NotedOf(n), Steady, Added(n), Added(n)' <=> Added(n),
         credit_update' = CreditsReceived(Drives[n]),
         reverse_propagated'[n] => AllReceived(Drives[n])
  PROVE  NotedOf(n)'
<1>1. \A c \in Drives[n] : c \in Connections /\ c \in Credited
  BY Zenon, Joined, Kinds DEF Credited, Senders
<1>2. ASSUME NEW c \in Drives[n], NEW vc \in Vcs(c)
      PROVE  /\ credit_update'[c][vc].now => credit_update'[c][vc] = reverse_channels'[c][vc]
             /\ reverse_channels[c][vc].now => credit_update'[c][vc].now
  <2>0. c \in Connections /\ c \in Credited
    BY Zenon, <1>1
  <2>1. CASE credit_update[c][vc].now
    <3>1. credit_update'[c][vc] = credit_update[c][vc]
      BY Zenon, <2>0, <2>1, <1>2, ReceivedNoted
    <3>2. credit_update[c][vc] = reverse_channels[c][vc]
      BY Zenon, <2>1, <1>2 DEF NotedOf
    <3> QED
      BY Zenon, <2>0, <2>1, <1>2, <3>1, <3>2 DEF Steady
  <2>2. CASE ~credit_update[c][vc].now /\ reverse_channels[c][vc].now
    <3>1. credit_update'[c][vc] = reverse_channels[c][vc]
      BY Zenon, <2>0, <2>2, <1>2, ReceivedNoted
    <3> QED
      BY Zenon, <2>0, <2>2, <1>2, <3>1 DEF Steady
  <2>3. CASE ~credit_update[c][vc].now /\ ~reverse_channels[c][vc].now
    <3>1. credit_update'[c][vc] = credit_update[c][vc]
      BY Zenon, <2>0, <2>3, <1>2, ReceivedNoted
    <3> QED
      BY Zenon, <2>3, <3>1
  <2> QED
    BY Zenon, <2>1, <2>2, <2>3
<1> QED
  BY Zenon, <1>2 DEF NotedOf, AllReceived

(***************************************************************************)
(* What senders note is kept by every step.                                *)
(***************************************************************************)
LEMMA NotedTurn ==
  ASSUME NEW m \in Components, TypeInvariant, FlagInvariant, Tour, Noted, TurnOf(m)
  PROVE  Noted'
<1>1. Frame(m) /\ Steady
  BY Zenon, TurnFacts
<1>2. \A n \in Senders : n # m => NotedOf(n)'
  BY Zenon, <1>1, NotedKept DEF Noted
<1>3. ASSUME m \in Senders PROVE NotedOf(m)'
  <2>0. NotedOf(m) /\ ForwardOf(m)
    BY Zenon, <1>3 DEF Noted, FlagInvariant
  <2>1. CASE m \in Sources /\ SourceForward(m)
    <3>1. forward_propagated'[m] = TRUE /\ reverse_propagated' = reverse_propagated
      BY Zenon, <2>1, ForwardedFlags DEF SourceForward
    <3>2. credit_update' = credit_update
      BY Zenon, <2>1 DEF SourceForward
    <3>3. Added(m)'
      BY Zenon, <2>1, <3>1, Apart DEF Added
    <3> QED
      BY Zenon, <1>1, <1>3, <2>0, <3>1, <3>2, <3>3, NotedForward
  <2>2. CASE m \in Sources /\ SourceReverse(m)
    <3> DEFINE done == AllReceived(Drives[m])
    <3>1. done \in BOOLEAN
      BY Zenon DEF AllReceived
    <3>2. Reversed(m, done) /\ credit_update' = CreditsReceived(Drives[m])
      BY Zenon, <2>2 DEF SourceReverse
    <3> HIDE DEF done
    <3>3. reverse_propagated'[m] = done /\ forward_propagated' = forward_propagated
      BY Zenon, <3>1, <3>2, ReversedFlags
    <3>4. forward_propagated[m]
      BY Zenon, <2>2, <3>2 DEF Reversed, Turn, Tour
    <3>5. Added(m) /\ (Added(m)' <=> Added(m))
      BY Zenon, <2>2, <3>3, <3>4, Apart DEF Added
    <3>6. reverse_propagated'[m] => AllReceived(Drives[m])
      BY Zenon, <3>3 DEF done
    <3> QED
      BY Zenon, <1>1, <1>3, <2>0, <3>2, <3>5, <3>6, NotedReverse
  <2>3. CASE m \in Routers /\ RouterForward(m)
    <3>0. InputsReady(m) \in BOOLEAN
      BY Zenon DEF InputsReady
    <3>1. reverse_propagated' = reverse_propagated
      BY Zenon, <2>3, <3>0, ForwardedFlags DEF RouterForward
    <3>2. credit_update' = credit_update
      BY Zenon, <2>3 DEF RouterForward
    <3>3. internal_propagated'[m] = TRUE
      <4>1. internal_propagated' = [internal_propagated EXCEPT ![m] = TRUE]
        BY Zenon, <2>3 DEF RouterForward
      <4> QED
        BY Zenon, <2>3, <4>1 DEF TypeInvariant, RouterType
    <3>4. Added(m)'
      BY Zenon, <2>3, <3>3 DEF Added
    <3> QED
      BY Zenon, <1>1, <1>3, <2>0, <3>1, <3>2, <3>4, NotedForward
  <2>4. CASE m \in Routers /\ RouterReverse(m) /\ forward_propagated[m]
    <3> DEFINE done == AllReceived(Outputs[m])
    <3>1. done \in BOOLEAN
      BY Zenon DEF AllReceived
    <3>2. Reversed(m, done) /\ credit_update' = CreditsReceived(Outputs[m])
          /\ internal_propagated' = internal_propagated
      BY Zenon, <2>4 DEF RouterReverse, router_state
    <3> HIDE DEF done
    <3>3. reverse_propagated'[m] = done
      BY Zenon, <3>1, <3>2, ReversedFlags
    <3>4. Added(m) /\ (Added(m)' <=> Added(m))
      BY Zenon, <2>0, <2>4, <3>2 DEF Added, ForwardOf
    <3>5. Outputs[m] = Drives[m]
      BY Zenon, <2>4, Attached
    <3>6. reverse_propagated'[m] => AllReceived(Drives[m])
      BY Zenon, <3>3, <3>5 DEF done
    <3> QED
      BY Zenon, <1>1, <1>3, <2>0, <3>2, <3>4, <3>5, <3>6, NotedReverse
  <2>5. CASE m \in Routers /\ RouterReverse(m) /\ ~forward_propagated[m]
    <3>1. /\ Reversed(m, FALSE) /\ credit_update' = credit_update
          /\ reverse_channels' = reverse_channels /\ internal_propagated' = internal_propagated
      BY Zenon, <2>5 DEF RouterReverse, router_state
    <3>2. ~reverse_propagated'[m]
      BY Zenon, <3>1, ReversedFlags
    <3> QED
      BY Zenon, <2>0, <2>5, <3>1, <3>2 DEF NotedOf, Added
  <2> QED
    BY Zenon, <1>3, <2>1, <2>2, <2>3, <2>4, <2>5, Apart DEF TurnOf, Senders
<1> QED
  BY Zenon, <1>2, <1>3 DEF Noted

(***************************************************************************)
(* Every step keeps what Noted says.                                       *)
(***************************************************************************)
LEMMA NotedStep ==
  TypeInvariant /\ FlagInvariant /\ Tour /\ Noted /\ [Next]_vars => Noted'
<1> SUFFICES ASSUME TypeInvariant, FlagInvariant, Tour, Noted, [Next]_vars PROVE Noted'
  BY Zenon
<1>1. CASE Still
  BY Zenon, <1>1 DEF Still, Noted, NotedOf, Added, router_state
<1>2. CASE RunCycle
  <2> SUFFICES ASSUME NEW n \in Senders PROVE NotedOf(n)'
    BY Zenon DEF Noted
  <2>1. n \in Components /\ \A c \in Drives[n] : c \in Credited
    BY Zenon, Kinds DEF Credited, Senders
  <2>2. \A c \in Credited : \A vc \in Vcs(c) : credit_update'[c][vc].now = FALSE
    BY Zenon, <1>2 DEF RunCycle, Old
  <2>3. reverse_propagated'[n] = FALSE
    BY Zenon, <1>2, <2>1 DEF RunCycle
  <2> QED
    BY Zenon, <2>1, <2>2, <2>3 DEF NotedOf
<1> QED
  BY Zenon, <1>1, <1>2, NotedTurn, Steps

================================================================================
