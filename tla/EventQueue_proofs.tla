-------------------------- MODULE EventQueue_proofs --------------------------
(* What holds of the event queues for any capacity, limit, batches and      *)
(* restarts, and that they keep the promise of EventStream.                 *)
EXTENDS EventQueue, WellFoundedInduction, SequenceTheorems, FiniteSetTheorems, TLAPS

(***************************************************************************)
(* Sequences of sequences.                                                 *)
(***************************************************************************)

\* Induction, over a set: its smallest exception would be one more than a member.
LEMMA Induction ==
  ASSUME NEW S \in SUBSET Nat, 0 \in S, \A n \in S : n + 1 \in S
  PROVE  S = Nat
<1> SUFFICES ASSUME Nat \ S # {} PROVE FALSE
  OBVIOUS
<1>1. PICK n \in Nat \ S : \A k \in Nat \ S : ~(<<k, n>> \in OpToRel(<, Nat))
  BY NatLessThanWellFounded, WFMin
<1>2. n # 0 /\ n - 1 \in Nat /\ n - 1 \notin S
  OBVIOUS
<1>3. <<n - 1, n>> \in OpToRel(<, Nat)
  BY <1>2 DEF OpToRel
<1>. QED BY <1>1, <1>2, <1>3

\* One step of FlattenSeq's recursion, and what it is a step of.
FlattenStep(seqs, f, i) == IF i = 1 THEN seqs[i] ELSE f[i - 1] \o seqs[i]

IsFlattening(seqs, f) == f = [i \in 1..Len(seqs) |-> FlattenStep(seqs, f, i)]

\* The recursion of FlattenSeq defines a function.
LEMMA FlattenFunction ==
  ASSUME NEW seqs, Len(seqs) \in Nat \ {0}
  PROVE  \E f : IsFlattening(seqs, f) /\ FlattenSeq(seqs) = f[Len(seqs)]
<1> DEFINE N == Len(seqs)
           S == {k \in Nat : \E f : f = [i \in 1..k |-> FlattenStep(seqs, f, i)]}
           flatten == CHOOSE f : f = [i \in 1..N |-> IF i = 1 THEN seqs[i] ELSE f[i - 1] \o seqs[i]]
<1>1. 0 \in S
  <2>1. \E f : f = [i \in 1..0 |-> FlattenStep(seqs, f, i)]
    <3> DEFINE e == [i \in 1..0 |-> 0]
    <3>1. e = [i \in 1..0 |-> FlattenStep(seqs, e, i)]
      OBVIOUS
    <3> HIDE DEF e
    <3>. QED BY <3>1
  <2>. QED BY <2>1
<1>2. ASSUME NEW k \in S PROVE k + 1 \in S
  <2>0. k \in Nat
    OBVIOUS
  <2>1. PICK f : f = [i \in 1..k |-> FlattenStep(seqs, f, i)]
    OBVIOUS
  <2> DEFINE g == [i \in 1..k + 1 |-> IF i = k + 1 THEN FlattenStep(seqs, f, k + 1) ELSE f[i]]
  <2>2. \A i \in 1..k : g[i] = f[i]
    BY <2>0
  <2>3. ASSUME NEW i \in 1..k PROVE g[i] = FlattenStep(seqs, g, i)
    <3>1. f[i] = FlattenStep(seqs, f, i)
      BY <2>1
    <3>2. i # 1 => i - 1 \in 1..k
      BY <2>0
    <3>3. FlattenStep(seqs, f, i) = FlattenStep(seqs, g, i)
      BY <2>2, <3>2 DEF FlattenStep
    <3>. QED BY <2>2, <3>1, <3>3
  <2>4. g[k + 1] = FlattenStep(seqs, g, k + 1)
    <3>1. g[k + 1] = FlattenStep(seqs, f, k + 1) /\ (k + 1) - 1 = k /\ (k + 1 # 1 => k \in 1..k)
      BY <2>0
    <3>2. FlattenStep(seqs, f, k + 1) = FlattenStep(seqs, g, k + 1)
      BY <3>1, <2>2 DEF FlattenStep
    <3>. QED BY <3>1, <3>2
  <2>5. \A i \in 1..k + 1 : i = k + 1 \/ i \in 1..k
    BY <2>0
  <2>6. \A i \in 1..k + 1 : g[i] = FlattenStep(seqs, g, i)
    BY <2>3, <2>4, <2>5
  <2>7. g = [i \in 1..k + 1 |-> FlattenStep(seqs, g, i)]
    <3>1. g = [i \in 1..k + 1 |-> g[i]]
      OBVIOUS
    <3>. HIDE DEF g
    <3>. QED BY <3>1, <2>6
  <2>8. \E h : h = [i \in 1..k + 1 |-> FlattenStep(seqs, h, i)]
    <3>. HIDE DEF g
    <3>. QED BY <2>7
  <2>. QED BY <2>0, <2>8
<1>. HIDE DEF S
<1>3. S = Nat
  <2>1. S \subseteq Nat
    BY DEF S
  <2>. QED BY <1>1, <1>2, <2>1, Induction
<1>4. \E f : f = [i \in 1..N |-> FlattenStep(seqs, f, i)]
  BY <1>3 DEF S
<1>5. flatten = [i \in 1..N |-> FlattenStep(seqs, flatten, i)]
  BY <1>4 DEF FlattenStep
<1>6. FlattenSeq(seqs) = flatten[N]
  BY DEF FlattenSeq
<1>. HIDE DEF flatten
<1>. QED BY <1>5, <1>6 DEF IsFlattening

LEMMA FlattenValues ==
  ASSUME NEW S, NEW seqs \in Seq(Seq(S)), NEW f, IsFlattening(seqs, f)
  PROVE  /\ \A i \in 1..Len(seqs) : f[i] \in Seq(S)
         /\ 1 \in 1..Len(seqs) => f[1] = seqs[1]
         /\ \A k \in Nat \ {0} : k + 1 \in 1..Len(seqs) => f[k + 1] = f[k] \o seqs[k + 1]
<1>0. Len(seqs) \in Nat /\ \A i \in 1..Len(seqs) : seqs[i] \in Seq(S)
  OBVIOUS
<1>1. \A i \in 1..Len(seqs) : f[i] = FlattenStep(seqs, f, i)
  BY DEF IsFlattening
<1>2. 1 \in 1..Len(seqs) => f[1] = seqs[1]
  BY <1>1 DEF FlattenStep
<1>3. ASSUME NEW k \in Nat \ {0}, k + 1 \in 1..Len(seqs)
      PROVE  f[k + 1] = f[k] \o seqs[k + 1]
  <2>1. f[k + 1] = FlattenStep(seqs, f, k + 1) /\ k + 1 # 1 /\ (k + 1) - 1 = k
    BY <1>1, <1>3
  <2>2. \A i : i # 1 => FlattenStep(seqs, f, i) = f[i - 1] \o seqs[i]
    BY Zenon DEF FlattenStep
  <2>3. FlattenStep(seqs, f, k + 1) = f[(k + 1) - 1] \o seqs[k + 1]
    BY ONLY <2>1, <2>2, Zenon
  <2>4. f[(k + 1) - 1] = f[k]
    BY <2>1, Zenon
  <2>. QED BY <2>1, <2>3, <2>4, Zenon
<1>4. ASSUME NEW j \in 1..Len(seqs) PROVE f[j] \in Seq(S)
  <2> DEFINE T == {k \in Nat : k \in 1..Len(seqs) => f[k] \in Seq(S)}
  <2>1. 0 \in T
    OBVIOUS
  <2>2. ASSUME NEW k \in T PROVE k + 1 \in T
    <3>1. k \in Nat /\ (k \in 1..Len(seqs) => f[k] \in Seq(S))
      OBVIOUS
    <3>2. ASSUME k + 1 \in 1..Len(seqs) PROVE f[k + 1] \in Seq(S)
      <4>1. CASE k = 0
        <5>1. f[k + 1] = seqs[k + 1] /\ seqs[k + 1] \in Seq(S)
          BY <1>0, <1>2, <3>2, <4>1
        <5>. QED BY <5>1
      <4>2. CASE k # 0
        <5>1. k \in 1..Len(seqs) /\ k \in Nat \ {0}
          BY <1>0, <3>1, <3>2, <4>2
        <5>2. f[k + 1] = f[k] \o seqs[k + 1]
          BY <1>3, <3>2, <5>1
        <5>3. f[k] \in Seq(S) /\ seqs[k + 1] \in Seq(S)
          BY <1>0, <3>1, <3>2, <5>1
        <5>4. f[k] \o seqs[k + 1] \in Seq(S)
          BY <5>3
        <5>. QED BY <5>2, <5>4
      <4>. QED BY <4>1, <4>2
    <3>. QED BY <3>1, <3>2
  <2>. HIDE DEF T
  <2>3. T = Nat
    <3>1. T \subseteq Nat
      BY DEF T
    <3>. QED BY <2>1, <2>2, <3>1, Induction
  <2>4. j \in T
    BY <1>0, <2>3
  <2>. QED BY <2>4 DEF T
<1>. QED BY <1>2, <1>3, <1>4

LEMMA FlattenType ==
  ASSUME NEW S, NEW seqs \in Seq(Seq(S))
  PROVE  FlattenSeq(seqs) \in Seq(S)
<1>1. CASE Len(seqs) = 0
  <2>1. FlattenSeq(seqs) = seqs
    BY <1>1, Zenon DEF FlattenSeq
  <2>2. seqs = <<>> /\ <<>> \in Seq(S)
    BY <1>1
  <2>. QED BY <2>1, <2>2
<1>2. CASE Len(seqs) # 0
  <2>1. Len(seqs) \in Nat \ {0} /\ Len(seqs) \in 1..Len(seqs)
    BY <1>2
  <2>2. PICK f : IsFlattening(seqs, f) /\ FlattenSeq(seqs) = f[Len(seqs)]
    BY <2>1, FlattenFunction
  <2>3. \A i \in 1..Len(seqs) : f[i] \in Seq(S)
    BY ONLY <2>2, FlattenValues, seqs \in Seq(Seq(S)), Zenon
  <2>. QED BY <2>1, <2>2, <2>3, Zenon
<1>. QED BY <1>1, <1>2

LEMMA FlattenEmpty == FlattenSeq(<<>>) = <<>>
<1>1. Len(<<>>) = 0
  OBVIOUS
<1>. QED BY <1>1, Zenon DEF FlattenSeq

LEMMA ConcatLaws ==
  ASSUME NEW S, NEW s \in Seq(S), NEW t \in Seq(S), NEW u \in Seq(S)
  PROVE  /\ (s \o t) \o u = s \o (t \o u) /\ s \o t \in Seq(S)
         /\ s \o <<>> = s /\ <<>> \o s = s
<1>1. (s \o t) \o u = s \o (t \o u)
  OBVIOUS
<1>2. s \o <<>> = s /\ <<>> \o s = s /\ s \o t \in Seq(S)
  OBVIOUS
<1>. QED BY <1>1, <1>2

\* A sequence appended comes after all the others.
LEMMA FlattenAppend ==
  ASSUME NEW S, NEW seqs \in Seq(Seq(S)), NEW s \in Seq(S)
  PROVE  FlattenSeq(Append(seqs, s)) = FlattenSeq(seqs) \o s
<1> DEFINE N == Len(seqs)
<1>0. PICK more : more = Append(seqs, s)
  OBVIOUS
<1>1. /\ N \in Nat /\ more \in Seq(Seq(S)) /\ Len(more) = N + 1 /\ more[N + 1] = s
      /\ \A i \in 1..N : more[i] = seqs[i]
  BY <1>0
<1> HIDE DEF N
<1>2. PICK g : IsFlattening(more, g) /\ FlattenSeq(more) = g[N + 1]
  <2>1. Len(more) \in Nat \ {0}
    BY <1>1
  <2>. QED BY <1>1, <2>1, FlattenFunction
<1>3. /\ more # <<>> /\ g[1] = more[1]
      /\ \A k \in Nat \ {0} : k + 1 \in 1..N + 1 => g[k + 1] = g[k] \o more[k + 1]
  <2>1. more # <<>> /\ 1 \in 1..Len(more)
    BY <1>1
  <2>2. /\ \A i \in 1..Len(more) : g[i] \in Seq(S)
        /\ 1 \in 1..Len(more) => g[1] = more[1]
        /\ \A k \in Nat \ {0} : k + 1 \in 1..Len(more) => g[k + 1] = g[k] \o more[k + 1]
    <3>1. more \in Seq(Seq(S)) /\ IsFlattening(more, g)
      BY <1>1, <1>2
    <3>2. \A q \in Seq(Seq(S)) : \A h :
            IsFlattening(q, h) =>
              /\ \A i \in 1..Len(q) : h[i] \in Seq(S)
              /\ 1 \in 1..Len(q) => h[1] = q[1]
              /\ \A k \in Nat \ {0} : k + 1 \in 1..Len(q) => h[k + 1] = h[k] \o q[k + 1]
      BY ONLY FlattenValues, Zenon
    <3>. QED BY ONLY <3>1, <3>2, Zenon
  <2>. QED BY <1>1, <2>1, <2>2, Zenon
<1>4. CASE N = 0
  <2>1. seqs = <<>> /\ FlattenSeq(more) = s
    BY <1>1, <1>2, <1>3, <1>4 DEF N
  <2>. QED BY <2>1, <1>0, FlattenEmpty, ConcatLaws
<1>5. CASE N # 0
  <2>1. PICK f : IsFlattening(seqs, f) /\ FlattenSeq(seqs) = f[N]
    <3>1. Len(seqs) \in Nat \ {0}
      BY <1>1, <1>5 DEF N
    <3>. QED BY <3>1, FlattenFunction DEF N
  <2>2. /\ f[1] = seqs[1]
        /\ \A k \in Nat \ {0} : k + 1 \in 1..N => f[k + 1] = f[k] \o seqs[k + 1]
    <3>1. 1 \in 1..Len(seqs)
      BY <1>1, <1>5 DEF N
    <3>2. /\ \A i \in 1..Len(seqs) : f[i] \in Seq(S)
          /\ 1 \in 1..Len(seqs) => f[1] = seqs[1]
          /\ \A k \in Nat \ {0} : k + 1 \in 1..Len(seqs) => f[k + 1] = f[k] \o seqs[k + 1]
      BY ONLY <2>1, FlattenValues, seqs \in Seq(Seq(S)), ZenonT(30)
    <3>. QED BY <3>1, <3>2, Zenon DEF N
  <2> DEFINE T == {k \in Nat : k \in 1..N => g[k] = f[k]}
  <2>3. 0 \in T
    OBVIOUS
  <2>4. ASSUME NEW k \in T PROVE k + 1 \in T
    <3>1. k \in Nat /\ (k \in 1..N => g[k] = f[k])
      OBVIOUS
    <3>2. ASSUME k + 1 \in 1..N PROVE g[k + 1] = f[k + 1]
      <4>1. CASE k = 0
        BY <1>1, <1>3, <2>2, <3>2, <4>1
      <4>2. CASE k # 0
        <5>1. k \in 1..N /\ k \in Nat \ {0} /\ k + 1 \in 1..N + 1
          BY <1>1, <3>1, <3>2, <4>2
        <5>2. f[k + 1] = f[k] \o seqs[k + 1] /\ g[k + 1] = g[k] \o more[k + 1]
          BY <1>3, <2>2, <3>2, <5>1
        <5>. QED BY <1>1, <3>1, <3>2, <5>1, <5>2
      <4>. QED BY <4>1, <4>2
    <3>. QED BY <3>1, <3>2
  <2>. HIDE DEF T
  <2>5. T = Nat
    <3>1. T \subseteq Nat
      BY DEF T
    <3>. QED BY <2>3, <2>4, <3>1, Induction
  <2>6. g[N] = f[N]
    <3>1. N \in T /\ N \in 1..N
      BY <1>1, <1>5, <2>5
    <3>. QED BY <3>1 DEF T
  <2>7. g[N + 1] = g[N] \o s
    <3>1. N \in Nat \ {0} /\ N + 1 \in 1..N + 1
      BY <1>1, <1>5
    <3>. QED BY <1>1, <1>3, <3>1
  <2>. QED BY <1>0, <1>2, <2>1, <2>6, <2>7
<1>. QED BY <1>4, <1>5

\* A first sequence comes before all the others.
LEMMA FlattenHead ==
  ASSUME NEW S, NEW seqs \in Seq(Seq(S)), seqs # <<>>
  PROVE  FlattenSeq(seqs) = Head(seqs) \o FlattenSeq(Tail(seqs))
<1> DEFINE N == Len(seqs)
<1>0. PICK s, rest : s = Head(seqs) /\ rest = Tail(seqs)
  OBVIOUS
<1>1. /\ N \in Nat \ {0} /\ seqs[1] = s /\ s \in Seq(S) /\ rest \in Seq(Seq(S)) /\ Len(rest) = N - 1
      /\ \A i \in 1..N - 1 : rest[i] = seqs[i + 1] /\ rest[i] \in Seq(S)
  BY <1>0
<1>2. PICK g : IsFlattening(seqs, g) /\ FlattenSeq(seqs) = g[N]
  BY <1>1, FlattenFunction
<1>3. \A q \in Seq(Seq(S)) : \A h :
        IsFlattening(q, h) =>
          /\ \A i \in 1..Len(q) : h[i] \in Seq(S)
          /\ 1 \in 1..Len(q) => h[1] = q[1]
          /\ \A k \in Nat \ {0} : k + 1 \in 1..Len(q) => h[k + 1] = h[k] \o q[k + 1]
  BY ONLY FlattenValues, Zenon
<1> HIDE DEF N
<1>4. g[1] = s /\ \A k \in Nat \ {0} : k + 1 \in 1..N => g[k + 1] = g[k] \o seqs[k + 1]
  <2>1. 1 \in 1..Len(seqs)
    BY <1>1 DEF N
  <2>2. /\ 1 \in 1..Len(seqs) => g[1] = seqs[1]
        /\ \A k \in Nat \ {0} : k + 1 \in 1..Len(seqs) => g[k + 1] = g[k] \o seqs[k + 1]
    BY <1>2, <1>3, Zenon
  <2>. QED BY <1>1, <2>1, <2>2, Zenon DEF N
<1>5. CASE N = 1
  <2>1. rest = <<>>
    BY <1>1, <1>5
  <2>2. FlattenSeq(rest) = <<>>
    BY <2>1, FlattenEmpty, Zenon
  <2>. QED BY <1>0, <1>1, <1>2, <1>4, <1>5, <2>2, ConcatLaws
<1>6. CASE N # 1
  <2> DEFINE M == N - 1
  <2>0. M \in Nat \ {0} /\ Len(rest) = M /\ M + 1 = N
    BY <1>1, <1>6
  <2> HIDE DEF M
  <2>1. PICK f : IsFlattening(rest, f) /\ FlattenSeq(rest) = f[M]
    BY <2>0, FlattenFunction
  <2>2. /\ f[1] = rest[1] /\ \A i \in 1..M : f[i] \in Seq(S)
        /\ \A k \in Nat \ {0} : k + 1 \in 1..M => f[k + 1] = f[k] \o rest[k + 1]
    <3>1. 1 \in 1..Len(rest)
      BY <2>0
    <3>2. /\ 1 \in 1..Len(rest) => f[1] = rest[1]
          /\ \A i \in 1..Len(rest) : f[i] \in Seq(S)
          /\ \A k \in Nat \ {0} : k + 1 \in 1..Len(rest) => f[k + 1] = f[k] \o rest[k + 1]
      BY <1>1, <1>3, <2>1, Zenon
    <3>. QED BY <2>0, <3>1, <3>2, Zenon
  <2> DEFINE T == {k \in Nat : k \in 1..M => g[k + 1] = s \o f[k]}
  <2>3. 0 \in T
    OBVIOUS
  <2>4. ASSUME NEW k \in T PROVE k + 1 \in T
    <3>1. k \in Nat /\ (k \in 1..M => g[k + 1] = s \o f[k])
      OBVIOUS
    <3>2. ASSUME k + 1 \in 1..M PROVE g[(k + 1) + 1] = s \o f[k + 1]
      <4>1. /\ k + 1 \in Nat \ {0} /\ (k + 1) + 1 \in 1..N
            /\ rest[k + 1] = seqs[(k + 1) + 1] /\ rest[k + 1] \in Seq(S)
        BY <1>1, <2>0, <3>1, <3>2
      <4>2. g[(k + 1) + 1] = g[k + 1] \o rest[k + 1]
        BY <1>4, <4>1, Zenon
      <4>3. CASE k = 0
        <5>1. g[k + 1] = s /\ f[k + 1] = rest[k + 1]
          BY <1>4, <2>2, <4>3
        <5>. QED BY <4>2, <5>1, Zenon
      <4>4. CASE k # 0
        <5>1. k \in 1..M /\ k \in Nat \ {0}
          BY <2>0, <3>1, <3>2, <4>4, SMTT(30)
        <5>2. g[k + 1] = s \o f[k] /\ f[k + 1] = f[k] \o rest[k + 1] /\ f[k] \in Seq(S)
          BY <2>2, <3>1, <3>2, <5>1, Zenon
        <5>3. \A x, y, z \in Seq(S) : (x \o y) \o z = x \o (y \o z)
          BY ONLY ConcatLaws, SMTT(30)
        <5>4. s \in Seq(S) /\ f[k] \in Seq(S) /\ rest[k + 1] \in Seq(S)
          BY <1>1, <4>1, <5>2, Zenon
        <5>5. (s \o f[k]) \o rest[k + 1] = s \o (f[k] \o rest[k + 1])
          BY ONLY <5>3, <5>4, Zenon
        <5>. QED BY <4>2, <5>2, <5>5, Zenon
      <4>. QED BY <4>3, <4>4
    <3>. QED BY <3>1, <3>2
  <2>. HIDE DEF T
  <2>5. T = Nat
    <3>1. T \subseteq Nat
      BY DEF T
    <3>. QED BY <2>3, <2>4, <3>1, Induction
  <2>6. g[M + 1] = s \o f[M]
    <3>1. M \in T /\ M \in 1..M
      BY <2>0, <2>5
    <3>. QED BY <3>1 DEF T
  <2>. QED BY <1>0, <1>2, <2>0, <2>1, <2>6, Zenon
<1>. QED BY <1>5, <1>6

LEMMA CutLaws ==
  ASSUME NEW S, NEW s \in Seq(S), NEW n \in 0..Len(s)
  PROVE  /\ SubSeq(s, 1, n) \in Seq(S) /\ Len(SubSeq(s, 1, n)) = n
         /\ \A i \in 1..n : SubSeq(s, 1, n)[i] = s[i]
         /\ Drop(s, n) \in Seq(S) /\ Len(Drop(s, n)) = Len(s) - n
         /\ \A i \in 1..Len(s) - n : Drop(s, n)[i] = s[i + n]
         /\ SubSeq(s, 1, n) \o Drop(s, n) = s
<1>1. /\ SubSeq(s, 1, n) \in Seq(S) /\ Len(SubSeq(s, 1, n)) = n
      /\ \A i \in 1..n : SubSeq(s, 1, n)[i] = s[i]
  OBVIOUS
<1>2. /\ Drop(s, n) \in Seq(S) /\ Len(Drop(s, n)) = Len(s) - n
      /\ \A i \in 1..Len(s) - n : Drop(s, n)[i] = s[i + n]
  BY DEF Drop
<1>3. SubSeq(s, 1, n) \o Drop(s, n) = s
  <2>1. /\ 1 \in 1..Len(s) + 1 /\ n \in 1 - 1..Len(s) /\ Len(s) \in n..Len(s)
        /\ SubSeq(s, 1, Len(s)) = s
    OBVIOUS
  <2>2. SubSeq(s, 1, n) \o SubSeq(s, n + 1, Len(s)) = SubSeq(s, 1, Len(s))
    BY <2>1, ConcatAdjacentSubSeq, Zenon
  <2>. QED BY <2>1, <2>2, Zenon DEF Drop
<1>. QED BY <1>1, <1>2, <1>3

LEMMA DropConcat ==
  ASSUME NEW S, NEW s \in Seq(S), NEW t \in Seq(S), NEW n \in 0..Len(s)
  PROVE  Drop(s \o t, n) = Drop(s, n) \o t
<1>1. PICK st : st = s \o t
  OBVIOUS
<1>2. /\ st \in Seq(S) /\ Len(st) = Len(s) + Len(t) /\ n \in 0..Len(st)
      /\ \A i \in 1..Len(s) + Len(t) : st[i] = IF i <= Len(s) THEN s[i] ELSE t[i - Len(s)]
  BY <1>1
<1>3. PICK a : a = Drop(st, n)
  OBVIOUS
<1>4. /\ a \in Seq(S) /\ Len(a) = Len(s) + Len(t) - n
      /\ \A i \in 1..Len(s) + Len(t) - n : a[i] = st[i + n]
  <2>1. \A r \in Seq(S) : \A m \in 0..Len(r) :
          /\ Drop(r, m) \in Seq(S) /\ Len(Drop(r, m)) = Len(r) - m
          /\ \A i \in 1..Len(r) - m : Drop(r, m)[i] = r[i + m]
    BY ONLY CutLaws, Zenon
  <2>2. /\ a \in Seq(S) /\ Len(a) = Len(st) - n
        /\ \A i \in 1..Len(st) - n : a[i] = st[i + n]
    BY <1>2, <1>3, <2>1, Zenon
  <2>. QED BY <1>2, <2>2
<1>5. PICK b : b = Drop(s, n)
  OBVIOUS
<1>6. /\ b \in Seq(S) /\ Len(b) = Len(s) - n
      /\ \A i \in 1..Len(s) - n : b[i] = s[i + n]
  BY <1>5, CutLaws, Zenon
<1>7. PICK bt : bt = b \o t
  OBVIOUS
<1>8. /\ bt \in Seq(S) /\ Len(bt) = Len(b) + Len(t)
      /\ \A i \in 1..Len(b) + Len(t) : bt[i] = IF i <= Len(b) THEN b[i] ELSE t[i - Len(b)]
  BY <1>6, <1>7, ConcatProperties, Zenon
<1>9. Len(a) = Len(bt) /\ \A i \in 1..Len(a) : a[i] = bt[i]
  <2>1. Len(s) \in Nat /\ Len(t) \in Nat /\ n \in Nat /\ n <= Len(s) /\ Len(a) = Len(bt)
    BY <1>4, <1>6, <1>8
  <2>2. ASSUME NEW i \in 1..Len(a) PROVE a[i] = bt[i]
    <3>1. a[i] = st[i + n] /\ i + n \in 1..Len(s) + Len(t)
      BY <1>4, <2>1
    <3>2. CASE i <= Len(s) - n
      <4>1. st[i + n] = s[i + n] /\ bt[i] = b[i] /\ b[i] = s[i + n]
        BY <1>2, <1>6, <1>8, <2>1, <3>1, <3>2
      <4>. QED BY <3>1, <4>1
    <3>3. CASE i > Len(s) - n
      <4>1. (i + n) - Len(s) = i - Len(b) /\ i \in 1..Len(b) + Len(t) /\ ~(i <= Len(b)) /\ ~(i + n <= Len(s))
        BY <1>4, <1>6, <2>1, <3>3
      <4>2. st[i + n] = t[(i + n) - Len(s)] /\ bt[i] = t[i - Len(b)]
        BY <1>2, <1>8, <3>1, <4>1, Zenon
      <4>. QED BY <3>1, <4>1, <4>2, Zenon
    <3>. QED BY <2>1, <3>2, <3>3
  <2>. QED BY <2>1, <2>2
<1>10. a = bt
  BY <1>4, <1>8, <1>9, SeqEqual
<1>. QED BY <1>1, <1>3, <1>5, <1>7, <1>10, Zenon

LEMMA DropDrop ==
  ASSUME NEW S, NEW s \in Seq(S), NEW i \in 0..Len(s), NEW n \in 0..Len(s) - i
  PROVE  Drop(s, i + n) = Drop(Drop(s, i), n)
<1>1. PICK a, b, c : a = Drop(s, i) /\ b = Drop(s, i + n) /\ c = Drop(a, n)
  OBVIOUS
<1>2. \A r \in Seq(S) : \A m \in 0..Len(r) :
        /\ Drop(r, m) \in Seq(S) /\ Len(Drop(r, m)) = Len(r) - m
        /\ \A k \in 1..Len(r) - m : Drop(r, m)[k] = r[k + m]
  BY ONLY CutLaws, Zenon
<1>3. /\ a \in Seq(S) /\ Len(a) = Len(s) - i /\ \A k \in 1..Len(s) - i : a[k] = s[k + i]
  BY <1>1, <1>2, Zenon
<1>4. Len(s) \in Nat /\ i \in Nat /\ n \in Nat /\ i + n \in 0..Len(s) /\ n \in 0..Len(a)
  BY <1>3
<1>5. /\ b \in Seq(S) /\ Len(b) = Len(s) - (i + n) /\ \A k \in 1..Len(s) - (i + n) : b[k] = s[k + (i + n)]
      /\ c \in Seq(S) /\ Len(c) = Len(a) - n /\ \A k \in 1..Len(a) - n : c[k] = a[k + n]
  BY <1>1, <1>2, <1>3, <1>4, Zenon
<1>6. Len(b) = Len(c)
  BY <1>3, <1>4, <1>5
<1>7. ASSUME NEW k \in 1..Len(b) PROVE b[k] = c[k]
  <2>1. /\ k \in 1..Len(a) - n /\ k + n \in 1..Len(s) - i /\ (k + n) + i = k + (i + n)
    BY <1>3, <1>4, <1>5
  <2>2. c[k] = a[k + n] /\ a[k + n] = s[(k + n) + i] /\ b[k] = s[k + (i + n)]
    BY <1>3, <1>5, <2>1
  <2>. QED BY <2>1, <2>2, Zenon
<1>8. b = c
  BY <1>5, <1>6, <1>7, SeqEqual
<1>. QED BY <1>1, <1>8, Zenon

LEMMA PrefixOfConcat ==
  ASSUME NEW S, NEW s \in Seq(S), NEW t \in Seq(S), NEW i \in 0..Len(t)
  PROVE  SubSeq(s \o t, 1, Len(s) + i) = s \o SubSeq(t, 1, i)
<1>1. PICK st, n : st = s \o t /\ n = Len(s) + i
  OBVIOUS
<1>2. /\ st \in Seq(S) /\ Len(st) = Len(s) + Len(t) /\ n \in 0..Len(st)
      /\ \A k \in 1..Len(s) + Len(t) : st[k] = IF k <= Len(s) THEN s[k] ELSE t[k - Len(s)]
  BY <1>1, ConcatProperties
<1>3. PICK a, b, c : a = SubSeq(st, 1, n) /\ b = SubSeq(t, 1, i) /\ c = s \o b
  OBVIOUS
<1>4. /\ a \in Seq(S) /\ Len(a) = n /\ \A k \in 1..n : a[k] = st[k]
      /\ b \in Seq(S) /\ Len(b) = i /\ \A k \in 1..i : b[k] = t[k]
  BY <1>2, <1>3, CutLaws
<1>5. /\ c \in Seq(S) /\ Len(c) = n
      /\ \A k \in 1..n : c[k] = IF k <= Len(s) THEN s[k] ELSE b[k - Len(s)]
  BY <1>1, <1>3, <1>4, ConcatProperties
<1>6. ASSUME NEW k \in 1..n PROVE a[k] = c[k]
  <2>0. Len(s) \in Nat /\ Len(t) \in Nat /\ k \in 1..Len(s) + Len(t) /\ a[k] = st[k]
    BY <1>1, <1>2, <1>4
  <2>1. CASE k <= Len(s)
    BY <1>2, <1>5, <2>0, <2>1
  <2>2. CASE ~(k <= Len(s))
    <3>1. k - Len(s) \in 1..i
      BY <1>1, <2>0, <2>2
    <3>. QED BY <1>2, <1>4, <1>5, <2>0, <2>2, <3>1
  <2>. QED BY <2>1, <2>2
<1>7. a = c
  BY <1>4, <1>5, <1>6, SeqEqual
<1>. QED BY <1>1, <1>3, <1>7

LEMMA PrefixConcat ==
  ASSUME NEW S, NEW s \in Seq(S), NEW t \in Seq(S)
  PROVE  SubSeq(s \o t, 1, Len(s)) = s /\ Drop(s \o t, Len(s)) = t
<1>1. SubSeq(s \o t, 1, Len(s)) = s
  OBVIOUS
<1>2. Drop(s \o t, Len(s)) = t
  BY DEF Drop
<1>. QED BY <1>1, <1>2
-----------------------------------------------------------------------------
(***************************************************************************)
(* The pending queue.                                                      *)
(***************************************************************************)
Batch == [events : Seq(Event), numWakeupEvents : 0..MaxBatch]

EventsOf(batches) == [b \in 1..Len(batches) |-> batches[b].events]

\* The events of a queue of batches, in order.
EventsIn(batches) == FlattenSeq(EventsOf(batches))

LEMMA PendingIsFlat == PendingEvents = EventsIn(mPendingWriteEventsQueue)
BY DEF PendingEvents, EventsIn, EventsOf

LEMMA EventsInType ==
  ASSUME NEW batches \in Seq(Batch)
  PROVE  EventsOf(batches) \in Seq(Seq(Event)) /\ EventsIn(batches) \in Seq(Event)
<1>1. EventsOf(batches) \in Seq(Seq(Event))
  <2>0. \A batch \in Batch : batch.events \in Seq(Event)
    BY DEF Batch
  <2>1. Len(batches) \in Nat /\ \A b \in 1..Len(batches) : batches[b].events \in Seq(Event)
    BY <2>0
  <2>. QED BY <2>1, IsASeq DEF EventsOf
<1>. QED BY <1>1, FlattenType DEF EventsIn

LEMMA EventsInEmpty == EventsIn(<<>>) = <<>>
<1>1. EventsOf(<<>>) = <<>>
  BY DEF EventsOf
<1>. QED BY <1>1, FlattenEmpty, Zenon DEF EventsIn

LEMMA EventsInAppend ==
  ASSUME NEW batches \in Seq(Batch), NEW batch \in Batch
  PROVE  EventsIn(Append(batches, batch)) = EventsIn(batches) \o batch.events
<1>1. batch.events \in Seq(Event)
  BY DEF Batch
<1>2. EventsOf(Append(batches, batch)) = Append(EventsOf(batches), batch.events)
  BY DEF EventsOf
<1>3. EventsOf(batches) \in Seq(Seq(Event))
  BY EventsInType
<1>. QED BY <1>1, <1>2, <1>3, FlattenAppend, Zenon DEF EventsIn

LEMMA EventsInHead ==
  ASSUME NEW batches \in Seq(Batch), batches # <<>>
  PROVE  EventsIn(batches) = Head(batches).events \o EventsIn(Tail(batches))
<1>1. EventsOf(batches) \in Seq(Seq(Event)) /\ EventsOf(batches) # <<>>
  <2>1. EventsOf(batches) \in Seq(Seq(Event))
    BY EventsInType
  <2>2. Len(EventsOf(batches)) = Len(batches) /\ Len(batches) # 0
    BY DEF EventsOf
  <2>. QED BY <2>1, <2>2
<1>2. Head(EventsOf(batches)) = Head(batches).events
  BY DEF EventsOf
<1>3. Tail(EventsOf(batches)) = EventsOf(Tail(batches))
  BY DEF EventsOf
<1>4. FlattenSeq(EventsOf(batches)) = Head(EventsOf(batches)) \o FlattenSeq(Tail(EventsOf(batches)))
  BY <1>1, FlattenHead, Zenon
<1>. QED BY <1>2, <1>3, <1>4, Zenon DEF EventsIn

LEMMA WakeupEventsBounded ==
  ASSUME NEW S, NEW events \in Seq(S)
  PROVE  WakeupEvents(events) \in 0..Len(events)
<1> DEFINE woken == {i \in 1..Len(events) : events[i].wake}
<1>1. /\ Len(events) \in Nat /\ IsFiniteSet(1..Len(events))
      /\ Cardinality(1..Len(events)) = Len(events)
  <2>1. Len(events) \in Nat /\ 1 \in Int /\ (1 <= Len(events) \/ Len(events) = 0)
    OBVIOUS
  <2>2. Len(events) - 1 + 1 = Len(events) /\ Len(events) \in Int /\ (1 > Len(events) => Len(events) = 0)
    BY <2>1
  <2>3. IsFiniteSet(1..Len(events))
    BY <2>2, FS_Interval
  <2>4. Cardinality(1..Len(events)) = IF 1 > Len(events) THEN 0 ELSE Len(events) - 1 + 1
    BY <2>2, FS_Interval
  <2>. QED BY <2>1, <2>2, <2>3, <2>4
<1>2. IsFiniteSet(woken) /\ Cardinality(woken) <= Cardinality(1..Len(events))
  BY <1>1, FS_Subset
<1>3. Cardinality(woken) \in Nat
  BY <1>2, FS_CardinalityType
<1>. QED BY <1>1, <1>2, <1>3 DEF WakeupEvents
-----------------------------------------------------------------------------
(***************************************************************************)
(* Sizes modulo SizeSpan.                                                  *)
(***************************************************************************)

LEMMA ModLaws ==
  ASSUME NEW S \in Nat \ {0}, NEW a \in Int
  PROVE  /\ a % S \in 0..S - 1
         /\ a \in 0..S - 1 => a % S = a
         /\ S <= a /\ a < 2 * S => a % S = a - S
         /\ -S <= a /\ a < 0 => a % S = a + S
<1>1. a % S \in 0..S - 1
  BY SMTT(20)
<1>2. a \in 0..S - 1 => a % S = a
  BY SMTT(20)
<1>3. S <= a /\ a < 2 * S => a % S = a - S
  BY SMTT(20)
<1>4. -S <= a /\ a < 0 => a % S = a + S
  BY SMTT(20)
<1>. QED BY <1>1, <1>2, <1>3, <1>4

\* What is added to a size, or taken off it, is added to what it stands for.
LEMMA ModShift ==
  ASSUME NEW S \in Nat \ {0}, NEW a \in Int, NEW m \in Int,
         -S < a, a < S, -S < a + m, a + m < S
  PROVE  ((a % S) + m) % S = (a + m) % S
<1>0. \A x \in Int : /\ x \in 0..S - 1 => x % S = x
                     /\ S <= x /\ x < 2 * S => x % S = x - S
                     /\ -S <= x /\ x < 0 => x % S = x + S
  BY ModLaws
<1>1. CASE 0 <= a
  <2>1. a \in 0..S - 1
    BY <1>1
  <2>2. a % S = a
    BY <1>0, <2>1, Zenon
  <2>. QED BY <2>2, Zenon
<1>2. CASE a < 0
  <2>1. a % S = a + S
    <3>1. -S <= a
      OBVIOUS
    <3>. QED BY <1>0, <1>2, <3>1, Zenon
  <2>2. PICK c, d : c = a + m /\ d = (a + S) + m
    OBVIOUS
  <2>3. c \in Int /\ d \in Int /\ d = c + S /\ 0 < d /\ d < 2 * S /\ -S <= c /\ c < S
    BY <1>2, <2>2
  <2>4. d % S = c % S
    <3>1. CASE c < 0
      <4>1. d \in 0..S - 1
        BY <2>3, <3>1
      <4>2. d % S = d /\ c % S = c + S
        BY <1>0, <2>3, <3>1, <4>1, Zenon
      <4>. QED BY <2>3, <4>2, Zenon
    <3>2. CASE ~(c < 0)
      <4>1. c \in 0..S - 1 /\ S <= d /\ d - S = c
        BY <2>3, <3>2
      <4>2. d % S = d - S /\ c % S = c
        BY <1>0, <2>3, <4>1, Zenon
      <4>. QED BY <4>1, <4>2, Zenon
    <3>. QED BY <3>1, <3>2
  <2>. QED BY <2>1, <2>2, <2>4, Zenon
<1>. QED BY <1>1, <1>2
-----------------------------------------------------------------------------
(***************************************************************************)
(* The inductive invariant.                                                *)
(***************************************************************************)

\* The queues are only cleared while no thread writes a batch of theirs.
WriterJoined ==
  binder \in {"clearing", "resetting", "replacing", "starting"} => pendingWritesThread = "off"

\* No more waits than was posted, so that the size wraps once at most.
WaitingWerePosted == Len(PendingEvents) <= posted /\ unsized <= posted

QueueInv ==
  /\ QueueTypeOK /\ PendingSizeExact /\ SingleWriter
  /\ WriterJoined /\ WaitingWerePosted

LEMMA FrontLaws ==
  ASSUME QueueInv, mPendingWriteEventsQueue # <<>>
  PROVE  /\ FrontBatch \in Batch /\ FrontBatch.events \in Seq(Event)
         /\ Batches \in Seq(Batch) /\ EventsIn(Batches) \in Seq(Event)
         /\ PendingEvents = FrontBatch.events \o EventsIn(Batches)
         /\ Len(PendingEvents) = Len(FrontBatch.events) + Len(EventsIn(Batches))
<1>1. mPendingWriteEventsQueue \in Seq(Batch)
  BY DEF QueueInv, QueueTypeOK, Batch
<1>2. FrontBatch \in Batch /\ Batches \in Seq(Batch)
  BY <1>1 DEF FrontBatch, Batches
<1>3. FrontBatch.events \in Seq(Event)
  BY <1>2 DEF Batch
<1>4. EventsIn(Batches) \in Seq(Event)
  BY <1>2, EventsInType
<1>5. PendingEvents = FrontBatch.events \o EventsIn(Batches)
  BY <1>1, PendingIsFlat, EventsInHead, Zenon DEF FrontBatch, Batches
<1>. QED BY <1>2, <1>3, <1>4, <1>5, ConcatProperties, Zenon

\* What the thread writes of the front batch is there to be written.
LEMMA WriterLaws ==
  ASSUME QueueInv, pendingWritesThread \in {"writing", "failed", "written"}
  PROVE  /\ mPendingWriteEventsQueue # <<>>
         /\ numToWrite \in 0..Len(FrontBatch.events)
         /\ numToWrite = IF Len(FrontBatch.events) > QuantumCount THEN QuantumCount
                                                                  ELSE Len(FrontBatch.events)
<1>1. mPendingWriteEventsQueue # <<>> /\ numToWrite = Least(Len(FrontBatch.events), QuantumCount)
  BY DEF QueueInv, SingleWriter
<1>2. Len(FrontBatch.events) \in Nat /\ QuantumCount \in Nat
  BY <1>1, FrontLaws, QueueAssumption
<1>. QED BY <1>1, <1>2 DEF Least

LEMMA NewEventsLaws ==
  ASSUME QueueTypeOK, NEW wakes \in Seq(BOOLEAN), posted + Len(wakes) <= MaxEvents
  PROVE  /\ NewEvents(wakes) \in Seq(Event) /\ Len(NewEvents(wakes)) = Len(wakes)
         /\ \A i \in 1..Len(wakes) : NewEvents(wakes)[i].id = posted + i
<1>1. posted \in Nat /\ MaxEvents \in Nat /\ Len(wakes) \in Nat
  BY QueueAssumption DEF QueueTypeOK
<1>2. ASSUME NEW i \in 1..Len(wakes) PROVE [id |-> posted + i, wake |-> wakes[i]] \in Event
  <2>1. posted + i \in 1..MaxEvents
    BY <1>1
  <2>2. wakes[i] \in BOOLEAN
    BY ElementOfSeq, Zenon
  <2>. QED BY <2>1, <2>2, Zenon DEF Event
<1>3. /\ NewEvents(wakes) \in Seq(Event) /\ Len(NewEvents(wakes)) = Len(wakes)
      /\ \A i \in 1..Len(wakes) : NewEvents(wakes)[i] = [id |-> posted + i, wake |-> wakes[i]]
  BY <1>1, <1>2, IsASeq DEF NewEvents
<1>4. ASSUME NEW i \in 1..Len(wakes) PROVE NewEvents(wakes)[i].id = posted + i
  <2>1. NewEvents(wakes)[i] = [id |-> posted + i, wake |-> wakes[i]]
    BY <1>3
  <2>2. [id |-> posted + i, wake |-> wakes[i]].id = posted + i
    OBVIOUS
  <2>. QED BY <2>1, <2>2, Zenon
<1>. QED BY <1>3, <1>4, Zenon

LEMMA WrittenNowLaws ==
  ASSUME QueueTypeOK, NEW events \in Seq(Event)
  PROVE  /\ WrittenNow(events) \in 0..Len(events)
         /\ WrittenNow(events) <= QuantumCount - Len(mEventQueue)
         /\ mPendingWriteEventsQueue # <<>> => WrittenNow(events) = 0
BY QueueAssumption DEF QueueTypeOK, WrittenNow, Least

\* What is written at once, if anything, there is room for, and it overtakes nothing.
LEMMA DirectLaws ==
  ASSUME QueueTypeOK, NEW events \in Seq(Event), NEW direct, direct \in {0, WrittenNow(events)}
  PROVE  /\ direct \in 0..Len(events) /\ direct <= QuantumCount - Len(mEventQueue)
         /\ mPendingWriteEventsQueue # <<>> => direct = 0
<1>1. CASE direct = 0
  BY <1>1, QueueAssumption DEF QueueTypeOK
<1>2. CASE direct = WrittenNow(events)
  BY <1>2, WrittenNowLaws
<1>. QED BY <1>1, <1>2

\* What a post does to the pending queue and its size.
LEMMA PushKeepsSize ==
  ASSUME QueueInv, NEW events \in Seq(Event), NEW left \in Seq(Event), Len(events) <= MaxBatch,
         Len(left) <= Len(events), posted' = posted + Len(events), posted' \in 0..MaxEvents,
         ~Overflows(Len(left)), PushPending(left, WakeupEvents(events)), binder' = binder
  PROVE  /\ mPendingWriteEventsQueue' \in Seq(Batch)
         /\ mSizePendingWriteEventsQueue' \in 0..SizeSpan - 1
         /\ mMostEventsObservedPendingWriteEventsQueue' \in Nat
         /\ PendingSizeExact' /\ WaitingWerePosted'
         /\ mPendingWriteEventsQueue' # <<>>
         /\ mPendingWriteEventsQueue # <<>> => FrontBatch' = FrontBatch
<1> DEFINE new == [events |-> left, numWakeupEvents |-> WakeupEvents(events)]
<1>1. /\ mPendingWriteEventsQueue \in Seq(Batch) /\ mSizePendingWriteEventsQueue \in 0..SizeSpan - 1
      /\ mMostEventsObservedPendingWriteEventsQueue \in Nat /\ posted \in Nat /\ unsized \in Nat
      /\ PendingEvents = EventsIn(mPendingWriteEventsQueue) /\ PendingEvents \in Seq(Event)
  <2>1. /\ mPendingWriteEventsQueue \in Seq(Batch) /\ mSizePendingWriteEventsQueue \in 0..SizeSpan - 1
        /\ mMostEventsObservedPendingWriteEventsQueue \in Nat /\ posted \in Nat /\ unsized \in Nat
    BY DEF QueueInv, QueueTypeOK, Batch
  <2>. QED BY <2>1, EventsInType, PendingIsFlat
<1>2. WakeupEvents(events) \in 0..MaxBatch
  <2>1. WakeupEvents(events) \in 0..Len(events)
    BY WakeupEventsBounded
  <2>. QED BY <2>1, QueueAssumption
<1>3. new \in Batch /\ new.events = left
  BY <1>2 DEF Batch
<1>4. /\ mPendingWriteEventsQueue' = Append(mPendingWriteEventsQueue, new)
      /\ mSizePendingWriteEventsQueue' = (mSizePendingWriteEventsQueue + Len(left)) % SizeSpan
      /\ mMostEventsObservedPendingWriteEventsQueue' =
           Greatest(mMostEventsObservedPendingWriteEventsQueue, mSizePendingWriteEventsQueue')
      /\ unsized' = unsized
  BY DEF PushPending
<1> HIDE DEF new
<1>5. EventsIn(mPendingWriteEventsQueue') = PendingEvents \o left
  BY <1>1, <1>3, <1>4, EventsInAppend, Zenon
<1>6. PendingEvents' = EventsIn(mPendingWriteEventsQueue')
  BY DEF PendingEvents, EventsIn, EventsOf
<1>7. Len(PendingEvents') = Len(PendingEvents) + Len(left)
  BY <1>1, <1>5, <1>6, ConcatProperties, Zenon
<1>8. /\ SizeSpan \in Nat \ {0} /\ MaxEvents \in Nat /\ SizeSpan > MaxEvents
      /\ kMaxSizePendingWriteEventsQueue \in Nat
      /\ Len(left) \in Nat /\ Len(PendingEvents) \in Nat
  <2>1. Len(left) \in Nat /\ Len(PendingEvents) \in Nat
    BY <1>1
  <2>. QED BY <2>1, QueueAssumption
<1>9. mSizePendingWriteEventsQueue' \in 0..SizeSpan - 1
  <2>1. \A x \in Int : x % SizeSpan \in 0..SizeSpan - 1
    BY <1>8, ModLaws
  <2>2. mSizePendingWriteEventsQueue + Len(left) \in Int
    BY <1>1, <1>8
  <2>. QED BY <1>4, <2>1, <2>2, Zenon
<1>10. mMostEventsObservedPendingWriteEventsQueue' \in Nat
  BY <1>1, <1>4, <1>9 DEF Greatest
<1>11. mPendingWriteEventsQueue' \in Seq(Batch) /\ mPendingWriteEventsQueue' # <<>>
       /\ (mPendingWriteEventsQueue # <<>> => FrontBatch' = FrontBatch)
  <2>1. \A q \in Seq(Batch) : \A x \in Batch :
          /\ Append(q, x) \in Seq(Batch) /\ Append(q, x) # <<>>
          /\ q # <<>> => Head(Append(q, x)) = Head(q)
    OBVIOUS
  <2>. QED BY <1>1, <1>3, <1>4, <2>1, Zenon DEF FrontBatch
<1>12. Len(PendingEvents) <= posted /\ unsized <= posted
  BY DEF QueueInv, WaitingWerePosted
<1>13. Len(PendingEvents') <= posted' /\ unsized' <= posted'
  BY <1>1, <1>4, <1>7, <1>8, <1>12
<1>14. ASSUME binder' # "resetting"
       PROVE  /\ mSizePendingWriteEventsQueue' = (Len(PendingEvents') - unsized') % SizeSpan
              /\ Len(PendingEvents') <= kMaxSizePendingWriteEventsQueue + unsized'
  <2>1. mSizePendingWriteEventsQueue = (Len(PendingEvents) - unsized) % SizeSpan
    BY <1>14 DEF QueueInv, PendingSizeExact
  <2>2. PICK a : a = Len(PendingEvents) - unsized
    OBVIOUS
  <2>3. /\ a \in Int /\ Len(left) \in Int /\ -SizeSpan < a /\ a < SizeSpan
        /\ -SizeSpan < a + Len(left) /\ a + Len(left) < SizeSpan
        /\ a + Len(left) = Len(PendingEvents') - unsized' /\ a + Len(left) \in Int
    <3>1. a + Len(left) = Len(PendingEvents') - unsized'
      BY <1>1, <1>4, <1>7, <1>8, <2>2
    <3>2. posted <= MaxEvents /\ posted' <= MaxEvents /\ posted' \in Nat
      BY <1>8 DEF QueueInv, QueueTypeOK
    <3>. QED BY ONLY <1>1, <1>4, <1>8, <1>7, <1>12, <1>13, <2>2, <3>1, <3>2
  <2>4. ((a % SizeSpan) + Len(left)) % SizeSpan = (a + Len(left)) % SizeSpan
    BY <1>8, <2>3, ModShift
  <2>5. mSizePendingWriteEventsQueue' = (a + Len(left)) % SizeSpan
    BY <1>4, <2>1, <2>2, <2>4, Zenon
  <2>6. mSizePendingWriteEventsQueue' <= kMaxSizePendingWriteEventsQueue
    <3>1. (mSizePendingWriteEventsQueue + Len(left)) % SizeSpan \in 0..SizeSpan - 1
      BY <1>4, <1>9, Zenon
    <3>2. PICK x : x = (mSizePendingWriteEventsQueue + Len(left)) % SizeSpan
      OBVIOUS
    <3>3. x \in 0..SizeSpan - 1 /\ mSizePendingWriteEventsQueue' = x
          /\ ~(x > kMaxSizePendingWriteEventsQueue)
      BY <1>4, <3>1, <3>2, Zenon DEF Overflows
    <3>. QED BY ONLY <1>8, <3>3
  <2>7. a + Len(left) <= kMaxSizePendingWriteEventsQueue
    <3>1. CASE a + Len(left) < 0
      BY ONLY <1>8, <2>3, <3>1
    <3>2. CASE ~(a + Len(left) < 0)
      <4>1. a + Len(left) \in 0..SizeSpan - 1
        BY ONLY <1>8, <2>3, <3>2
      <4>2. (a + Len(left)) % SizeSpan = a + Len(left)
        <5>1. \A x \in Int : x \in 0..SizeSpan - 1 => x % SizeSpan = x
          BY <1>8, ModLaws
        <5>. QED BY <2>3, <4>1, <5>1, Zenon
      <4>. QED BY <2>5, <2>6, <4>2, Zenon
    <3>. QED BY <3>1, <3>2
  <2>8. Len(PendingEvents') <= kMaxSizePendingWriteEventsQueue + unsized'
    BY ONLY <1>1, <1>4, <1>7, <1>8, <2>2, <2>7
  <2>. QED BY <2>3, <2>5, <2>8, Zenon
<1>15. PendingSizeExact' /\ WaitingWerePosted'
  BY <1>13, <1>14, Zenon DEF PendingSizeExact, WaitingWerePosted
<1>. QED BY <1>9, <1>10, <1>11, <1>15

LEMMA PostKeepsInv ==
  ASSUME QueueInv, NEW wakes \in Seq(BOOLEAN), Len(wakes) \in 1..MaxBatch, NEW direct,
         PostEventsToMessageQueue(wakes, direct)
  PROVE  QueueInv'
<1> USE QueueAssumption
<1>1. PICK events, left : events = NewEvents(wakes) /\ left = Drop(events, direct)
  OBVIOUS
<1>2. posted + Len(wakes) <= MaxEvents
  BY DEF PostEventsToMessageQueue
<1>3. events \in Seq(Event) /\ Len(events) = Len(wakes)
  BY <1>1, <1>2, NewEventsLaws DEF QueueInv
<1>4. direct \in 0..Len(events) /\ direct <= QuantumCount - Len(mEventQueue)
  <2>1. direct \in {0, WrittenNow(events)}
    BY <1>1, Zenon DEF PostEventsToMessageQueue
  <2>. QED BY <1>3, <2>1, DirectLaws DEF QueueInv
<1>5. /\ left \in Seq(Event) /\ Len(left) = Len(events) - direct
      /\ SubSeq(events, 1, direct) \in Seq(Event) /\ Len(SubSeq(events, 1, direct)) = direct
  BY <1>1, <1>3, <1>4, CutLaws, Zenon
<1>6. /\ mEventQueue' = mEventQueue \o SubSeq(events, 1, direct)
      /\ IF left # <<>> /\ ~Overflows(Len(left)) THEN PushPending(left, WakeupEvents(events))
                                                 ELSE UNCHANGED <<pendingVars, asleep>>
      /\ posted' = posted + Len(wakes)
      /\ UNCHANGED <<threadVars, mThreadsRun, binder, inits, received>>
  BY <1>1, Zenon DEF PostEventsToMessageQueue, Left
<1>7. mEventQueue' \in Seq(Event) /\ Len(mEventQueue') <= QuantumCount
  <2>1. mEventQueue \in Seq(Event)
    BY DEF QueueInv, QueueTypeOK
  <2>2. mEventQueue' \in Seq(Event) /\ Len(mEventQueue') = Len(mEventQueue) + Len(SubSeq(events, 1, direct))
    BY <2>1, <1>5, <1>6, ConcatProperties, Zenon
  <2>. QED BY <2>1, <2>2, <1>3, <1>4, <1>5
<1>8. posted' \in 0..MaxEvents /\ posted \in Nat /\ posted <= posted'
  BY <1>2, <1>6 DEF QueueInv, QueueTypeOK
<1>9. /\ mPendingWriteEventsQueue' \in Seq(Batch) /\ unsized' \in Nat
      /\ mSizePendingWriteEventsQueue' \in 0..SizeSpan - 1
      /\ mMostEventsObservedPendingWriteEventsQueue' \in Nat
      /\ asleep' \subseteq {"writes", "wakelock"}
      /\ PendingSizeExact' /\ WaitingWerePosted'
      /\ mPendingWriteEventsQueue # <<>> =>
           mPendingWriteEventsQueue' # <<>> /\ FrontBatch' = FrontBatch
  <2>0. /\ mPendingWriteEventsQueue \in Seq(Batch) /\ mSizePendingWriteEventsQueue \in 0..SizeSpan - 1
        /\ mMostEventsObservedPendingWriteEventsQueue \in Nat /\ unsized \in Nat
        /\ asleep \subseteq {"writes", "wakelock"} /\ PendingEvents \in Seq(Event)
    <3>1. /\ mPendingWriteEventsQueue \in Seq(Batch) /\ mSizePendingWriteEventsQueue \in 0..SizeSpan - 1
          /\ mMostEventsObservedPendingWriteEventsQueue \in Nat /\ unsized \in Nat
          /\ asleep \subseteq {"writes", "wakelock"}
      BY DEF QueueInv, QueueTypeOK, Batch
    <3>. QED BY <3>1, EventsInType, PendingIsFlat
  <2>1. CASE ~(left # <<>> /\ ~Overflows(Len(left)))
    <3>1. UNCHANGED <<pendingVars, asleep>> /\ binder' = binder
      BY <1>6, <2>1
    <3>2. PendingEvents' = PendingEvents /\ unsized' = unsized
          /\ mSizePendingWriteEventsQueue' = mSizePendingWriteEventsQueue
      BY <3>1 DEF pendingVars, PendingEvents
    <3>3. PendingSizeExact'
      BY <3>1, <3>2 DEF PendingSizeExact, QueueInv
    <3>4. WaitingWerePosted'
      BY <1>8, <2>0, <3>2 DEF WaitingWerePosted, QueueInv
    <3>. QED BY <2>0, <3>1, <3>3, <3>4 DEF pendingVars, FrontBatch
  <2>2. CASE left # <<>> /\ ~Overflows(Len(left))
    <3>1. PushPending(left, WakeupEvents(events)) /\ binder' = binder
      BY <1>6, <2>2
    <3>2. asleep' \subseteq asleep /\ unsized' = unsized
      BY <3>1 DEF PushPending
    <3>3. Len(events) <= MaxBatch /\ Len(left) <= Len(events) /\ posted' = posted + Len(events)
      BY <1>3, <1>4, <1>5, <1>6
    <3>. QED BY <1>3, <1>5, <1>8, <2>0, <2>2, <3>1, <3>2, <3>3, PushKeepsSize
  <2>. QED BY <2>1, <2>2
<1>10. QueueTypeOK'
  BY <1>6, <1>7, <1>8, <1>9 DEF QueueInv, QueueTypeOK, threadVars, Batch
<1>11. SingleWriter' /\ WriterJoined'
  BY <1>6, <1>9 DEF QueueInv, SingleWriter, WriterJoined, threadVars
<1>. QED BY <1>9, <1>10, <1>11 DEF QueueInv

\* What is left in the queue when the written events are taken off.
LEMMA PopLaws ==
  ASSUME QueueInv, PopWritten
  PROVE  /\ mPendingWriteEventsQueue' \in Seq(Batch)
         /\ PendingEvents' = Drop(PendingEvents, numToWrite)
         /\ numToWrite \in 0..Len(PendingEvents) /\ PendingEvents \in Seq(Event)
<1> USE QueueAssumption
<1> DEFINE front == FrontBatch.events
           rest  == EventsIn(Batches)
<1>1. /\ pendingWritesThread = "written" /\ mPendingWriteEventsQueue # <<>>
      /\ mPendingWriteEventsQueue' =
           IF Len(front) > QuantumCount
             THEN <<[FrontBatch EXCEPT !.events = Drop(@, QuantumCount)]>> \o Batches
             ELSE Batches
  BY WriterLaws DEF PopWritten
<1>2. /\ FrontBatch \in Batch /\ front \in Seq(Event) /\ Batches \in Seq(Batch) /\ rest \in Seq(Event)
      /\ PendingEvents = front \o rest
  BY <1>1, FrontLaws
<1>3. /\ numToWrite \in 0..Len(front)
      /\ numToWrite = IF Len(front) > QuantumCount THEN QuantumCount ELSE Len(front)
  BY <1>1, WriterLaws
<1> HIDE DEF front, rest
<1>4. Drop(PendingEvents, numToWrite) = Drop(front, numToWrite) \o rest
  BY <1>2, <1>3, DropConcat, Zenon
<1>5. numToWrite \in 0..Len(PendingEvents) /\ PendingEvents \in Seq(Event)
  <2>1. PendingEvents \in Seq(Event) /\ Len(PendingEvents) = Len(front) + Len(rest)
    BY <1>2, ConcatProperties, Zenon
  <2>. QED BY <1>2, <1>3, <2>1
<1>6. PendingEvents' = EventsIn(mPendingWriteEventsQueue')
  BY DEF PendingEvents, EventsIn, EventsOf
<1>7. CASE Len(front) > QuantumCount
  <2>1. PICK kept : kept = [FrontBatch EXCEPT !.events = Drop(@, QuantumCount)]
    OBVIOUS
  <2>2. numToWrite = QuantumCount /\ QuantumCount \in 0..Len(front)
    BY <1>2, <1>3, <1>7
  <2>3. Drop(front, QuantumCount) \in Seq(Event)
    BY <1>2, <2>2, CutLaws, Zenon
  <2>4. kept \in Batch /\ kept.events = Drop(front, QuantumCount)
    BY <1>2, <2>1, <2>3 DEF Batch, front
  <2>5. mPendingWriteEventsQueue' = <<kept>> \o Batches
    BY <1>1, <1>7, <2>1, Zenon DEF front
  <2>6. /\ mPendingWriteEventsQueue' \in Seq(Batch) /\ mPendingWriteEventsQueue' # <<>>
        /\ Head(mPendingWriteEventsQueue') = kept /\ Tail(mPendingWriteEventsQueue') = Batches
    BY <1>2, <2>4, <2>5
  <2>7. EventsIn(mPendingWriteEventsQueue') = kept.events \o EventsIn(Batches)
    BY <2>6, EventsInHead, Zenon
  <2>. QED BY <1>4, <1>5, <1>6, <2>2, <2>4, <2>6, <2>7, Zenon DEF rest
<1>8. CASE ~(Len(front) > QuantumCount)
  <2>1. mPendingWriteEventsQueue' = Batches /\ numToWrite = Len(front)
    BY <1>1, <1>3, <1>8, Zenon DEF front
  <2>2. Drop(front, Len(front)) = <<>>
    BY <1>2 DEF Drop
  <2>3. <<>> \o rest = rest
    BY <1>2, ConcatLaws
  <2>. QED BY <1>2, <1>4, <1>5, <1>6, <2>1, <2>2, <2>3, Zenon DEF rest
<1>. QED BY <1>7, <1>8

LEMMA PopKeepsInv ==
  ASSUME QueueInv, PopWritten
  PROVE  QueueInv'
<1> USE QueueAssumption
<1>1. /\ mSizePendingWriteEventsQueue' = (mSizePendingWriteEventsQueue - numToWrite) % SizeSpan
      /\ pendingWritesThread' = "waiting" /\ numToWrite' = 0 /\ pendingWritesThread = "written"
      /\ UNCHANGED <<mMostEventsObservedPendingWriteEventsQueue, unsized, mEventQueue, runVars,
                     posted, received>>
  BY DEF PopWritten, SizePopped
<1>2. /\ mPendingWriteEventsQueue' \in Seq(Batch)
      /\ PendingEvents' = Drop(PendingEvents, numToWrite)
      /\ numToWrite \in 0..Len(PendingEvents) /\ PendingEvents \in Seq(Event)
  BY PopLaws
<1>3. Len(PendingEvents') = Len(PendingEvents) - numToWrite
  BY <1>2, CutLaws, Zenon
<1>4. /\ binder # "resetting" /\ binder' = binder
      /\ mSizePendingWriteEventsQueue = (Len(PendingEvents) - unsized) % SizeSpan
      /\ Len(PendingEvents) <= kMaxSizePendingWriteEventsQueue + unsized
      /\ Len(PendingEvents) <= posted /\ unsized <= posted /\ unsized \in Nat /\ posted \in 0..MaxEvents
      /\ mSizePendingWriteEventsQueue \in 0..SizeSpan - 1
  <2>1. binder # "resetting"
    BY <1>1 DEF QueueInv, WriterJoined
  <2>. QED BY <1>1, <2>1 DEF QueueInv, PendingSizeExact, WaitingWerePosted, QueueTypeOK, runVars
<1>5. /\ SizeSpan \in Nat \ {0} /\ MaxEvents \in Nat /\ SizeSpan > MaxEvents
      /\ Len(PendingEvents) \in Nat
  <2>1. Len(PendingEvents) \in Nat
    BY <1>2
  <2>. QED BY <2>1, QueueAssumption
<1>6. PICK a, m : a = Len(PendingEvents) - unsized /\ m = -numToWrite
  OBVIOUS
<1>7. /\ a \in Int /\ m \in Int /\ -SizeSpan < a /\ a < SizeSpan /\ -SizeSpan < a + m /\ a + m < SizeSpan
      /\ a + m = Len(PendingEvents') - unsized' /\ Len(PendingEvents') - unsized' \in Int
  <2>1. unsized' = unsized
    BY <1>1
  <2>2. PICK k, n, n2 : k = Len(PendingEvents) /\ n = numToWrite /\ n2 = Len(PendingEvents')
    OBVIOUS
  <2>3. k \in Nat /\ n \in 0..k /\ n2 = k - n /\ a = k - unsized /\ m = -n
        /\ unsized \in Nat /\ k <= posted /\ unsized <= posted /\ posted \in 0..MaxEvents
    BY <1>2, <1>3, <1>4, <1>5, <1>6, <2>2, Zenon
  <2>4. /\ a \in Int /\ m \in Int /\ -SizeSpan < a /\ a < SizeSpan /\ -SizeSpan < a + m /\ a + m < SizeSpan
        /\ a + m = n2 - unsized /\ n2 - unsized \in Int
    BY ONLY <1>5, <2>3
  <2>. QED BY <2>1, <2>2, <2>4, Zenon
<1>8. ((a % SizeSpan) + m) % SizeSpan = (a + m) % SizeSpan
  BY <1>5, <1>7, ModShift
<1>9. mSizePendingWriteEventsQueue - numToWrite = (a % SizeSpan) + m
  BY <1>2, <1>4, <1>6
<1>10. mSizePendingWriteEventsQueue' = (Len(PendingEvents') - unsized') % SizeSpan
  BY <1>1, <1>7, <1>8, <1>9, Zenon
<1>11. Len(PendingEvents') <= kMaxSizePendingWriteEventsQueue + unsized'
  BY <1>1, <1>2, <1>3, <1>4, <1>5
<1>12. PendingSizeExact'
  BY <1>10, <1>11, Zenon DEF PendingSizeExact
<1>13. WaitingWerePosted'
  BY <1>1, <1>2, <1>3, <1>4, <1>5 DEF WaitingWerePosted
<1>14. mSizePendingWriteEventsQueue' \in 0..SizeSpan - 1
  <2>1. \A x \in Int : x % SizeSpan \in 0..SizeSpan - 1
    BY <1>5, ModLaws
  <2>2. Len(PendingEvents') - unsized' \in Int
    BY <1>7, Zenon
  <2>. QED BY <1>10, <2>1, <2>2, Zenon
<1>15. QueueTypeOK'
  BY <1>1, <1>2, <1>14 DEF QueueInv, QueueTypeOK, Batch, runVars
<1>16. SingleWriter' /\ WriterJoined'
  BY <1>1 DEF QueueInv, SingleWriter, WriterJoined, runVars
<1>. QED BY <1>12, <1>13, <1>15, <1>16 DEF QueueInv

LEMMA WriterKeepsInv ==
  ASSUME QueueInv, PendingWritesThread
  PROVE  QueueInv'
<1> USE QueueAssumption
<1> USE DEF QueueInv
<1>1. CASE TakeFrontBatch
  <2>1. numToWrite' = Least(Len(FrontBatch.events), QuantumCount)
    BY <1>1 DEF TakeFrontBatch
  <2>2. Len(FrontBatch.events) \in Nat
    BY <1>1, FrontLaws DEF TakeFrontBatch
  <2>3. numToWrite' \in 0..QuantumCount
    BY <2>1, <2>2 DEF Least
  <2>4. UNCHANGED <<mEventQueue, pendingVars, runVars, posted, received>> /\ pendingWritesThread' = "writing"
        /\ mPendingWriteEventsQueue # <<>>
    BY <1>1 DEF TakeFrontBatch
  <2>5. QueueTypeOK'
    BY <2>3, <2>4 DEF QueueTypeOK, pendingVars, runVars
  <2>6. PendingSizeExact' /\ SingleWriter' /\ WaitingWerePosted'
    BY <2>1, <2>4 DEF PendingSizeExact, PendingEvents, SingleWriter, FrontBatch, WaitingWerePosted,
                      pendingVars, runVars
  <2>7. WriterJoined'
    BY <1>1, <2>4 DEF TakeFrontBatch, WriterJoined, runVars
  <2>. QED BY <2>5, <2>6, <2>7
<1>2. CASE WritePending
  <2>1. UNCHANGED <<pendingVars, numToWrite, runVars, posted, received>> /\ pendingWritesThread' = "written"
        /\ mEventQueue' = mEventQueue \o SubSeq(FrontBatch.events, 1, numToWrite)
        /\ pendingWritesThread = "writing" /\ Room
    BY <1>2 DEF WritePending
  <2>2. mEventQueue' \in Seq(Event) /\ Len(mEventQueue') <= QuantumCount
    <3>1. mPendingWriteEventsQueue # <<>> /\ numToWrite \in 0..Len(FrontBatch.events)
      BY <2>1, WriterLaws
    <3>2. FrontBatch.events \in Seq(Event)
      BY <3>1, FrontLaws
    <3>3. /\ SubSeq(FrontBatch.events, 1, numToWrite) \in Seq(Event)
          /\ Len(SubSeq(FrontBatch.events, 1, numToWrite)) = numToWrite
      BY <3>1, <3>2, CutLaws, Zenon
    <3>4. mEventQueue \in Seq(Event)
      BY DEF QueueTypeOK
    <3>5. mEventQueue' \in Seq(Event) /\ Len(mEventQueue') = Len(mEventQueue) + numToWrite
      BY <2>1, <3>3, <3>4, ConcatProperties, Zenon
    <3>. QED BY <2>1, <3>1, <3>4, <3>5 DEF Room
  <2>3. QueueTypeOK'
    BY <2>1, <2>2 DEF QueueTypeOK, pendingVars, runVars
  <2>4. PendingSizeExact' /\ SingleWriter' /\ WaitingWerePosted'
    BY <2>1 DEF PendingSizeExact, PendingEvents, SingleWriter, FrontBatch, WaitingWerePosted,
                pendingVars, runVars
  <2>5. WriterJoined'
    BY <2>1 DEF WriterJoined, runVars
  <2>. QED BY <2>3, <2>4, <2>5
<1>3. CASE WriteFails \/ DropFailed
  <2>1. UNCHANGED <<mEventQueue, pendingVars, numToWrite, runVars, posted, received>>
        /\ pendingWritesThread' \in {"failed", "written"}
        /\ pendingWritesThread \in {"writing", "failed"}
    BY <1>3 DEF WriteFails, DropFailed, AfterFailedWrite
  <2>2. QueueTypeOK'
    BY <2>1 DEF QueueTypeOK, pendingVars, runVars
  <2>3. PendingSizeExact' /\ SingleWriter' /\ WaitingWerePosted'
    BY <2>1 DEF PendingSizeExact, PendingEvents, SingleWriter, FrontBatch, WaitingWerePosted,
                pendingVars, runVars
  <2>4. WriterJoined'
    BY <2>1 DEF WriterJoined, runVars
  <2>. QED BY <2>2, <2>3, <2>4
<1>5. CASE PendingWritesExit
  <2>1. UNCHANGED <<mEventQueue, pendingVars, numToWrite, runVars, posted, received>>
        /\ pendingWritesThread' = "off"
    BY <1>5 DEF PendingWritesExit
  <2>2. QueueTypeOK'
    BY <2>1 DEF QueueTypeOK, pendingVars, runVars
  <2>3. PendingSizeExact' /\ SingleWriter' /\ WriterJoined' /\ WaitingWerePosted'
    BY <2>1 DEF PendingSizeExact, PendingEvents, SingleWriter, WriterJoined, WaitingWerePosted,
                pendingVars, runVars
  <2>. QED BY <2>2, <2>3
<1>. QED BY <1>1, <1>2, <1>3, <1>5, PopKeepsInv DEF PendingWritesThread

LEMMA ReadLaws ==
  ASSUME QueueInv, NEW n \in 0..Len(mEventQueue), FrameworkRead(n)
  PROVE  /\ mEventQueue' \in Seq(Event) /\ Len(mEventQueue') = Len(mEventQueue) - n
         /\ [i \in 1..n |-> mEventQueue[i].id] \in Seq(1..MaxEvents)
         /\ received' = received \o [i \in 1..n |-> mEventQueue[i].id]
<1>1. mEventQueue \in Seq(Event) /\ mEventQueue' = Drop(mEventQueue, n)
      /\ received' = received \o [i \in 1..n |-> mEventQueue[i].id]
  BY DEF QueueInv, QueueTypeOK, FrameworkRead
<1>2. mEventQueue' \in Seq(Event) /\ Len(mEventQueue') = Len(mEventQueue) - n
  BY <1>1, CutLaws, Zenon
<1>3. \A event \in Event : event.id \in 1..MaxEvents
  BY DEF Event
<1>4. n \in Nat /\ \A i \in 1..n : mEventQueue[i].id \in 1..MaxEvents
  BY <1>1, <1>3
<1>5. [i \in 1..n |-> mEventQueue[i].id] \in Seq(1..MaxEvents)
  BY <1>4, IsASeq
<1>. QED BY <1>1, <1>2, <1>5

LEMMA ReadKeepsInv ==
  ASSUME QueueInv, NEW n \in 1..QuantumCount, FrameworkRead(n)
  PROVE  QueueInv'
<1>1. n \in 0..Len(mEventQueue) /\ UNCHANGED <<pendingVars, threadVars, runVars, posted>>
  BY QueueAssumption DEF FrameworkRead, QueueInv, QueueTypeOK
<1>2. /\ mEventQueue' \in Seq(Event) /\ Len(mEventQueue') = Len(mEventQueue) - n
      /\ [i \in 1..n |-> mEventQueue[i].id] \in Seq(1..MaxEvents)
      /\ received' = received \o [i \in 1..n |-> mEventQueue[i].id]
  BY <1>1, ReadLaws
<1>3. received' \in Seq(1..MaxEvents)
  BY <1>2, ConcatProperties, Zenon DEF QueueInv, QueueTypeOK
<1>4. Len(mEventQueue') <= QuantumCount
  BY <1>1, <1>2, QueueAssumption DEF QueueInv, QueueTypeOK
<1>5. QueueTypeOK'
  BY <1>1, <1>2, <1>3, <1>4 DEF QueueInv, QueueTypeOK, pendingVars, threadVars, runVars
<1>6. PendingSizeExact' /\ SingleWriter' /\ WriterJoined' /\ WaitingWerePosted'
  BY <1>1 DEF QueueInv, PendingSizeExact, PendingEvents, SingleWriter, FrontBatch, WriterJoined,
              WaitingWerePosted, pendingVars, threadVars, runVars
<1>. QED BY <1>5, <1>6 DEF QueueInv

LEMMA RestartKeepsInv ==
  ASSUME QueueInv, StopThreads \/ WakelockThreadNotified \/ InitializeSteps
  PROVE  QueueInv'
<1>0. <<>> \in Seq(Event) /\ Len(<<>>) = 0 /\ <<>> \in Seq(Batch)
  OBVIOUS
<1> USE QueueAssumption
<1>1. CASE StopThreads
  <2>1. mEventQueue' \in Seq(Event) /\ Len(mEventQueue') <= QuantumCount /\ mThreadsRun' \in BOOLEAN
    <3>1. mEventQueue' = <<>> /\ 0 <= QuantumCount /\ mThreadsRun' = FALSE
      BY <1>1 DEF StopThreads
    <3>2. mThreadsRun' \in BOOLEAN
      BY <3>1, Zenon
    <3>. QED BY <1>0, <3>1, <3>2, Zenon
  <2>2. asleep' \subseteq {"writes", "wakelock"}
    BY <1>1 DEF StopThreads, MayMissStop
  <2>3. /\ UNCHANGED <<pendingVars, threadVars, posted, received>>
        /\ binder = "idle" /\ binder' = "stopping" /\ inits' \in Nat
    BY <1>1 DEF StopThreads, QueueInv, QueueTypeOK
  <2>4. QueueTypeOK'
    BY <2>1, <2>2, <2>3 DEF QueueInv, QueueTypeOK, pendingVars, threadVars
  <2>. QED BY <2>3, <2>4 DEF QueueInv, PendingSizeExact, PendingEvents, SingleWriter,
                             FrontBatch, WriterJoined, WaitingWerePosted, pendingVars, threadVars
<1>2. CASE WakelockThreadNotified
  <2>1. /\ UNCHANGED <<mEventQueue, pendingVars, threadVars, mThreadsRun, binder, inits, posted, received>>
        /\ asleep' \subseteq asleep
    BY <1>2 DEF WakelockThreadNotified
  <2>2. QueueTypeOK'
    BY <2>1 DEF QueueInv, QueueTypeOK, pendingVars, threadVars
  <2>. QED BY <2>1, <2>2 DEF QueueInv, PendingSizeExact, PendingEvents, SingleWriter,
                             FrontBatch, WriterJoined, WaitingWerePosted, pendingVars, threadVars
<1>3. CASE JoinThreads
  <2>1. /\ UNCHANGED <<mEventQueue, pendingVars, threadVars, mThreadsRun, inits, asleep, posted, received>>
        /\ binder = "stopping" /\ binder' = "clearing" /\ pendingWritesThread = "off"
    BY <1>3 DEF JoinThreads, Joined
  <2>2. QueueTypeOK'
    BY <2>1 DEF QueueInv, QueueTypeOK, pendingVars, threadVars
  <2>. QED BY <2>1, <2>2 DEF QueueInv, PendingSizeExact, PendingEvents, SingleWriter,
                             FrontBatch, WriterJoined, WaitingWerePosted, pendingVars, threadVars
<1>4. CASE ClearPending
  <2>1. /\ mPendingWriteEventsQueue' = <<>> /\ binder' = "resetting" /\ pendingWritesThread = "off"
        /\ UNCHANGED <<mSizePendingWriteEventsQueue, mMostEventsObservedPendingWriteEventsQueue,
                       unsized, mEventQueue, threadVars, mThreadsRun, inits, asleep, posted, received>>
    BY <1>4 DEF ClearPending, QueueInv, WriterJoined
  <2>2. QueueTypeOK'
    <3>1. mPendingWriteEventsQueue' \in Seq(Batch)
      BY <1>0, <2>1, Zenon
    <3>. QED BY <2>1, <3>1 DEF QueueInv, QueueTypeOK, threadVars, Batch
  <2>3. PendingEvents' = <<>>
    <3>1. PendingEvents' = EventsIn(mPendingWriteEventsQueue')
      BY DEF PendingEvents, EventsIn, EventsOf
    <3>. QED BY <2>1, <3>1, EventsInEmpty, Zenon
  <2>4. WaitingWerePosted'
    BY <1>0, <2>1, <2>3 DEF QueueInv, QueueTypeOK, WaitingWerePosted
  <2>. QED BY <2>1, <2>2, <2>4 DEF QueueInv, PendingSizeExact, SingleWriter, WriterJoined, threadVars
<1>5. CASE ResetSize
  <2>1. /\ mSizePendingWriteEventsQueue' = 0 /\ unsized' = Len(PendingEvents)
        /\ binder = "resetting" /\ binder' = "replacing" /\ PendingEvents' = PendingEvents
        /\ UNCHANGED <<mPendingWriteEventsQueue, mMostEventsObservedPendingWriteEventsQueue,
                       mEventQueue, threadVars, mThreadsRun, inits, asleep, posted, received>>
    BY <1>5 DEF ResetSize, PendingEvents
  <2>2. Len(PendingEvents) \in Nat
    <3>1. mPendingWriteEventsQueue \in Seq(Batch)
      BY DEF QueueInv, QueueTypeOK, Batch
    <3>2. PendingEvents \in Seq(Event)
      BY <3>1, EventsInType, PendingIsFlat
    <3>. QED BY <3>2
  <2>3. QueueTypeOK'
    <3>1. mSizePendingWriteEventsQueue' \in 0..SizeSpan - 1
      BY <2>1
    <3>. QED BY <2>1, <2>2, <3>1 DEF QueueInv, QueueTypeOK, threadVars
  <2>4. PendingSizeExact'
    <3>1. Len(PendingEvents') - unsized' = 0 /\ 0 \in 0..SizeSpan - 1 /\ SizeSpan \in Nat \ {0}
      BY <2>1, <2>2
    <3>2. 0 % SizeSpan = 0
      BY <3>1, ModLaws
    <3>3. Len(PendingEvents') <= kMaxSizePendingWriteEventsQueue + unsized'
      BY <2>1, <2>2
    <3>. QED BY <2>1, <3>1, <3>2, <3>3, Zenon DEF PendingSizeExact
  <2>5. WaitingWerePosted'
    BY <2>1 DEF QueueInv, WaitingWerePosted
  <2>6. SingleWriter' /\ WriterJoined'
    BY <2>1 DEF QueueInv, SingleWriter, WriterJoined, FrontBatch, threadVars
  <2>. QED BY <2>3, <2>4, <2>5, <2>6 DEF QueueInv
<1>6. CASE ReplaceQueues
  <2>1. /\ mEventQueue' = <<>> /\ binder = "replacing" /\ binder' = "starting"
        /\ UNCHANGED <<pendingVars, threadVars, mThreadsRun, inits, asleep, posted, received>>
    BY <1>6 DEF ReplaceQueues
  <2>2. mEventQueue' \in Seq(Event) /\ Len(mEventQueue') <= QuantumCount
    <3>1. 0 <= QuantumCount
      OBVIOUS
    <3>. QED BY <1>0, <2>1, <3>1, Zenon
  <2>3. QueueTypeOK'
    BY <2>1, <2>2 DEF QueueInv, QueueTypeOK, pendingVars, threadVars
  <2>. QED BY <2>1, <2>3 DEF QueueInv, PendingSizeExact, PendingEvents, SingleWriter,
                             FrontBatch, WriterJoined, WaitingWerePosted, pendingVars, threadVars
<1>7. CASE StartThreads
  <2>1. /\ mThreadsRun' = TRUE /\ pendingWritesThread' = "waiting" /\ binder' = "idle" /\ binder = "starting"
        /\ UNCHANGED <<mEventQueue, pendingVars, numToWrite, inits, asleep, posted, received>>
    BY <1>7 DEF StartThreads
  <2>2. QueueTypeOK'
    <3>1. mThreadsRun' \in BOOLEAN
      BY <2>1, Zenon
    <3>. QED BY <2>1, <3>1 DEF QueueInv, QueueTypeOK, pendingVars
  <2>. QED BY <2>1, <2>2 DEF QueueInv, PendingSizeExact, PendingEvents, SingleWriter,
                             WriterJoined, WaitingWerePosted, pendingVars
<1>. QED BY <1>1, <1>2, <1>3, <1>4, <1>5, <1>6, <1>7 DEF InitializeSteps

LEMMA QueueInvInit == QueueInit => QueueInv
<1> SUFFICES ASSUME QueueInit PROVE QueueInv
  OBVIOUS
<1>0. <<>> \in Seq(Event) /\ Len(<<>>) = 0 /\ <<>> \in Seq(Batch) /\ <<>> \in Seq(1..MaxEvents)
  OBVIOUS
<1>1. QueueTypeOK
  <2>1. mEventQueue \in Seq(Event) /\ mPendingWriteEventsQueue \in Seq(Batch) /\ received \in Seq(1..MaxEvents)
    BY <1>0, Zenon DEF QueueInit
  <2>2. Len(mEventQueue) = 0 /\ mThreadsRun \in BOOLEAN
    BY <1>0, Zenon DEF QueueInit
  <2>3. asleep \subseteq {"writes", "wakelock"}
    BY DEF QueueInit
  <2>. QED BY <2>1, <2>2, <2>3, QueueAssumption DEF QueueInit, QueueTypeOK, Batch
<1>2. PendingEvents = <<>>
  BY PendingIsFlat, EventsInEmpty, Zenon DEF QueueInit
<1>3. PendingSizeExact /\ WaitingWerePosted
  <2>1. 0 \in 0..SizeSpan - 1 /\ SizeSpan \in Nat \ {0}
    BY QueueAssumption
  <2>2. 0 % SizeSpan = 0
    BY <2>1, ModLaws
  <2>. QED BY <1>0, <1>2, <2>2, QueueAssumption DEF QueueInit, PendingSizeExact, WaitingWerePosted
<1>. QED BY <1>1, <1>3 DEF QueueInit, QueueInv, SingleWriter, WriterJoined

LEMMA QueueInvStep == QueueInv /\ [QueueNext]_queueVars => QueueInv'
<1> SUFFICES ASSUME QueueInv, [QueueNext]_queueVars PROVE QueueInv'
  OBVIOUS
<1>1. ASSUME NEW n \in 1..MaxBatch, NEW direct \in 0..n,
             PostEventsToMessageQueue([i \in 1..n |-> FALSE], direct)
      PROVE  QueueInv'
  <2>1. [i \in 1..n |-> FALSE] \in Seq(BOOLEAN) /\ Len([i \in 1..n |-> FALSE]) = n
    BY QueueAssumption, IsASeq
  <2>. QED BY <1>1, <2>1, PostKeepsInv
<1>2. CASE UNCHANGED queueVars
  <2>1. QueueTypeOK'
    BY <1>2 DEF queueVars, QueueInv, QueueTypeOK, pendingVars, threadVars, runVars
  <2>. QED BY <1>2, <2>1 DEF queueVars, QueueInv, PendingSizeExact, PendingEvents, SingleWriter,
                             FrontBatch, WriterJoined, WaitingWerePosted, pendingVars, threadVars,
                             runVars
<1>. QED BY <1>1, <1>2, WriterKeepsInv, ReadKeepsInv, RestartKeepsInv DEF QueueNext, Post
-----------------------------------------------------------------------------
(***************************************************************************)
(* The promise of EventStream.                                             *)
(***************************************************************************)
Ids(events) == [i \in 1..Len(events) |-> events[i].id]

\* What waits, without what was already written.
Waiting == IF pendingWritesThread = "written" THEN Drop(PendingEvents, numToWrite) ELSE PendingEvents

OnTheWay == mEventQueue \o Waiting

LEMMA InTransitIsOnTheWay == InTransit = Ids(OnTheWay)
BY DEF InTransit, Ids, OnTheWay, Waiting

LEMMA IdsLaws ==
  ASSUME NEW s \in Seq(Event)
  PROVE  /\ Ids(s) \in Seq(1..MaxEvents) /\ Len(Ids(s)) = Len(s)
         /\ \A i \in 1..Len(s) : Ids(s)[i] = s[i].id
<1>1. \A event \in Event : event.id \in 1..MaxEvents
  BY DEF Event
<1>2. Len(s) \in Nat /\ \A i \in 1..Len(s) : s[i].id \in 1..MaxEvents
  BY <1>1
<1>. QED BY <1>2, IsASeq DEF Ids

LEMMA IdsConcat ==
  ASSUME NEW s \in Seq(Event), NEW t \in Seq(Event)
  PROVE  Ids(s \o t) = Ids(s) \o Ids(t)
<1>1. PICK st : st = s \o t
  OBVIOUS
<1>2. /\ st \in Seq(Event) /\ Len(st) = Len(s) + Len(t)
      /\ \A i \in 1..Len(s) + Len(t) : st[i] = IF i <= Len(s) THEN s[i] ELSE t[i - Len(s)]
  BY <1>1, ConcatProperties, Zenon
<1>3. PICK a, b, c : a = Ids(st) /\ b = Ids(s) /\ c = Ids(t)
  OBVIOUS
<1>4. /\ a \in Seq(1..MaxEvents) /\ Len(a) = Len(st) /\ \A i \in 1..Len(st) : a[i] = st[i].id
      /\ b \in Seq(1..MaxEvents) /\ Len(b) = Len(s) /\ \A i \in 1..Len(s) : b[i] = s[i].id
      /\ c \in Seq(1..MaxEvents) /\ Len(c) = Len(t) /\ \A i \in 1..Len(t) : c[i] = t[i].id
  BY <1>2, <1>3, IdsLaws
<1>5. PICK bc, S : bc = b \o c /\ S = 1..MaxEvents
  OBVIOUS
<1>6. /\ bc \in Seq(1..MaxEvents) /\ Len(bc) = Len(b) + Len(c)
      /\ \A i \in 1..Len(b) + Len(c) : bc[i] = IF i <= Len(b) THEN b[i] ELSE c[i - Len(b)]
  <2>1. b \in Seq(S) /\ c \in Seq(S)
    BY <1>4, <1>5, Zenon
  <2>2. /\ b \o c \in Seq(S) /\ Len(b \o c) = Len(b) + Len(c)
        /\ \A i \in 1..Len(b) + Len(c) : (b \o c)[i] = IF i <= Len(b) THEN b[i] ELSE c[i - Len(b)]
    BY <2>1, ConcatProperties, Zenon
  <2>. QED BY <1>5, <2>2, Zenon
<1>7. Len(s) \in Nat /\ Len(t) \in Nat
  OBVIOUS
<1>8. ASSUME NEW i \in 1..Len(a) PROVE a[i] = bc[i]
  <2>1. i \in 1..Len(s) + Len(t) /\ i \in 1..Len(b) + Len(c) /\ a[i] = st[i].id
    BY <1>2, <1>4
  <2>2. CASE i <= Len(s)
    <3>1. st[i] = s[i] /\ bc[i] = b[i] /\ b[i] = s[i].id
      BY <1>2, <1>4, <1>6, <1>7, <2>1, <2>2
    <3>. QED BY <2>1, <3>1
  <2>3. CASE ~(i <= Len(s))
    <3>1. i - Len(s) \in 1..Len(t) /\ Len(b) = Len(s)
      BY <1>4, <1>7, <2>1, <2>3
    <3>2. st[i] = t[i - Len(s)] /\ bc[i] = c[i - Len(s)]
      BY <1>2, <1>6, <2>1, <2>3, <3>1, Zenon
    <3>3. c[i - Len(s)] = t[i - Len(s)].id
      BY <1>4, <3>1
    <3>. QED BY <2>1, <3>2, <3>3, Zenon
  <2>. QED BY <2>2, <2>3
<1>9. a = bc
  <2>1. Len(a) = Len(bc)
    BY <1>2, <1>4, <1>6
  <2>. QED BY <1>4, <1>6, <1>8, <2>1, SeqEqual
<1>. QED BY <1>1, <1>3, <1>5, <1>9, Zenon

LEMMA IdsCut ==
  ASSUME NEW s \in Seq(Event), NEW n \in 0..Len(s)
  PROVE  Ids(SubSeq(s, 1, n)) = SubSeq(Ids(s), 1, n) /\ Ids(Drop(s, n)) = Drop(Ids(s), n)
<1>1. PICK a, b, ids : a = SubSeq(s, 1, n) /\ b = Drop(s, n) /\ ids = Ids(s)
  OBVIOUS
<1>2. /\ a \in Seq(Event) /\ Len(a) = n /\ \A i \in 1..n : a[i] = s[i]
      /\ b \in Seq(Event) /\ Len(b) = Len(s) - n /\ \A i \in 1..Len(s) - n : b[i] = s[i + n]
  BY <1>1, CutLaws, Zenon
<1>3. /\ ids \in Seq(1..MaxEvents) /\ Len(ids) = Len(s) /\ \A i \in 1..Len(s) : ids[i] = s[i].id
  BY <1>1, IdsLaws
<1>4. PICK ida, idb : ida = Ids(a) /\ idb = Ids(b)
  OBVIOUS
<1>5. /\ ida \in Seq(1..MaxEvents) /\ Len(ida) = n /\ \A i \in 1..n : ida[i] = a[i].id
      /\ idb \in Seq(1..MaxEvents) /\ Len(idb) = Len(s) - n /\ \A i \in 1..Len(s) - n : idb[i] = b[i].id
  <2>1. \A r \in Seq(Event) : /\ Ids(r) \in Seq(1..MaxEvents) /\ Len(Ids(r)) = Len(r)
                              /\ \A i \in 1..Len(r) : Ids(r)[i] = r[i].id
    BY ONLY IdsLaws, Zenon
  <2>. QED BY <1>2, <1>4, <2>1, Zenon
<1>6. PICK cut, rest : cut = SubSeq(ids, 1, n) /\ rest = Drop(ids, n)
  OBVIOUS
<1>7. /\ cut \in Seq(1..MaxEvents) /\ Len(cut) = n /\ \A i \in 1..n : cut[i] = ids[i]
      /\ rest \in Seq(1..MaxEvents) /\ Len(rest) = Len(s) - n /\ \A i \in 1..Len(s) - n : rest[i] = ids[i + n]
  <2>1. \A r \in Seq(1..MaxEvents) : \A m \in 0..Len(r) :
          /\ SubSeq(r, 1, m) \in Seq(1..MaxEvents) /\ Len(SubSeq(r, 1, m)) = m
          /\ \A i \in 1..m : SubSeq(r, 1, m)[i] = r[i]
          /\ Drop(r, m) \in Seq(1..MaxEvents) /\ Len(Drop(r, m)) = Len(r) - m
          /\ \A i \in 1..Len(r) - m : Drop(r, m)[i] = r[i + m]
    BY ONLY CutLaws, Zenon
  <2>2. n \in 0..Len(ids)
    BY <1>3
  <2>3. /\ cut \in Seq(1..MaxEvents) /\ Len(cut) = n /\ \A i \in 1..n : cut[i] = ids[i]
        /\ rest \in Seq(1..MaxEvents) /\ Len(rest) = Len(ids) - n
        /\ \A i \in 1..Len(ids) - n : rest[i] = ids[i + n]
    BY <1>3, <1>6, <2>1, <2>2, Zenon
  <2>. QED BY <1>3, <2>3
<1>8. Len(s) \in Nat /\ n \in Nat /\ n <= Len(s)
  OBVIOUS
<1>9. ida = cut
  <2>1. ASSUME NEW i \in 1..n PROVE ida[i] = cut[i]
    <3>1. ida[i] = a[i].id /\ a[i] = s[i] /\ cut[i] = ids[i] /\ i \in 1..Len(s)
      BY <1>2, <1>5, <1>7, <1>8
    <3>. QED BY <1>3, <3>1
  <2>. QED BY <1>5, <1>7, <2>1, SeqEqual
<1>10. idb = rest
  <2>1. ASSUME NEW i \in 1..Len(s) - n PROVE idb[i] = rest[i]
    <3>1. idb[i] = b[i].id /\ b[i] = s[i + n] /\ rest[i] = ids[i + n] /\ i + n \in 1..Len(s)
      BY <1>2, <1>5, <1>7, <1>8
    <3>. QED BY <1>3, <3>1
  <2>. QED BY <1>5, <1>7, <2>1, SeqEqual
<1>. QED BY <1>1, <1>4, <1>6, <1>9, <1>10, Zenon

LEMMA OnTheWayType ==
  ASSUME QueueInv
  PROVE  /\ mEventQueue \in Seq(Event) /\ PendingEvents \in Seq(Event)
         /\ Waiting \in Seq(Event) /\ OnTheWay \in Seq(Event)
         /\ Len(OnTheWay) = Len(mEventQueue) + Len(Waiting)
         /\ pendingWritesThread = "written" => numToWrite \in 0..Len(PendingEvents)
<1>1. mEventQueue \in Seq(Event) /\ PendingEvents \in Seq(Event)
  <2>1. mEventQueue \in Seq(Event) /\ mPendingWriteEventsQueue \in Seq(Batch)
    BY DEF QueueInv, QueueTypeOK, Batch
  <2>. QED BY <2>1, EventsInType, PendingIsFlat, Zenon
<1>2. ASSUME pendingWritesThread \in {"writing", "written"} PROVE numToWrite \in 0..Len(PendingEvents)
  <2>1. mPendingWriteEventsQueue # <<>> /\ numToWrite \in 0..Len(FrontBatch.events)
    BY <1>2, WriterLaws
  <2>2. /\ FrontBatch.events \in Seq(Event) /\ EventsIn(Batches) \in Seq(Event)
        /\ PendingEvents = FrontBatch.events \o EventsIn(Batches)
    BY <2>1, FrontLaws
  <2>3. Len(PendingEvents) = Len(FrontBatch.events) + Len(EventsIn(Batches))
    BY <2>2, ConcatProperties, Zenon
  <2>. QED BY <2>1, <2>2, <2>3
<1>3. Waiting \in Seq(Event)
  <2>1. CASE pendingWritesThread = "written"
    <3>1. numToWrite \in 0..Len(PendingEvents) /\ Waiting = Drop(PendingEvents, numToWrite)
      BY <1>2, <2>1 DEF Waiting
    <3>. QED BY <1>1, <3>1, CutLaws, Zenon
  <2>2. CASE pendingWritesThread # "written"
    BY <1>1, <2>2 DEF Waiting
  <2>. QED BY <2>1, <2>2
<1>4. OnTheWay \in Seq(Event) /\ Len(OnTheWay) = Len(mEventQueue) + Len(Waiting)
  BY <1>1, <1>3, ConcatProperties, Zenon DEF OnTheWay
<1>. QED BY <1>1, <1>2, <1>3, <1>4

\* How many events of a batch there is room for.
Kept(events, direct) ==
  IF Overflows(Len(Drop(events, direct))) THEN direct ELSE Len(events)

\* A post adds the events of its batch, or the first of them, at the end.
LEMMA PostExtendsTheWay ==
  ASSUME QueueInv, NEW wakes \in Seq(BOOLEAN), Len(wakes) \in 1..MaxBatch, NEW direct,
         PostEventsToMessageQueue(wakes, direct)
  PROVE  /\ Kept(NewEvents(wakes), direct) \in 0..Len(wakes)
         /\ OnTheWay' = OnTheWay \o SubSeq(NewEvents(wakes), 1, Kept(NewEvents(wakes), direct))
<1>1. PICK events, left, written :
        /\ events = NewEvents(wakes) /\ left = Drop(events, direct)
        /\ written = SubSeq(events, 1, direct)
  OBVIOUS
<1>2. events \in Seq(Event) /\ Len(events) = Len(wakes)
  <2>1. posted + Len(wakes) <= MaxEvents /\ QueueTypeOK
    BY DEF PostEventsToMessageQueue, QueueInv
  <2>. QED BY <1>1, <2>1, NewEventsLaws
<1>3. direct \in 0..Len(events) /\ (mPendingWriteEventsQueue # <<>> => direct = 0)
  <2>1. direct \in {0, WrittenNow(events)}
    BY <1>1, Zenon DEF PostEventsToMessageQueue
  <2>. QED BY <1>2, <2>1, DirectLaws DEF QueueInv
<1>4. written \in Seq(Event) /\ Len(written) = direct /\ left \in Seq(Event) /\ written \o left = events
  BY <1>1, <1>2, <1>3, CutLaws, Zenon
<1>5. /\ mEventQueue' = mEventQueue \o written
      /\ IF left # <<>> /\ ~Overflows(Len(left)) THEN PushPending(left, WakeupEvents(events))
                                                 ELSE UNCHANGED <<pendingVars, asleep>>
      /\ UNCHANGED threadVars
  BY <1>1, Zenon DEF PostEventsToMessageQueue, Left
<1>6. /\ mEventQueue \in Seq(Event) /\ PendingEvents \in Seq(Event) /\ Waiting \in Seq(Event)
      /\ pendingWritesThread = "written" => numToWrite \in 0..Len(PendingEvents)
      /\ mPendingWriteEventsQueue \in Seq(Batch)
      /\ pendingWritesThread' = pendingWritesThread /\ numToWrite' = numToWrite
  <2>1. mPendingWriteEventsQueue \in Seq(Batch)
    BY DEF QueueInv, QueueTypeOK, Batch
  <2>. QED BY <1>5, <2>1, OnTheWayType DEF threadVars
\* Either nothing waited, or nothing was written at once.
<1>7. (mEventQueue \o written) \o Waiting = (mEventQueue \o Waiting) \o written
  <2>1. CASE mPendingWriteEventsQueue = <<>>
    <3>1. PendingEvents = <<>>
      BY <2>1, PendingIsFlat, EventsInEmpty, Zenon
    <3>2. pendingWritesThread # "written"
      BY <2>1 DEF QueueInv, SingleWriter
    <3>3. Waiting = <<>>
      BY <3>1, <3>2 DEF Waiting
    <3>4. mEventQueue \o written \in Seq(Event) /\ mEventQueue \o <<>> = mEventQueue
          /\ (mEventQueue \o written) \o <<>> = mEventQueue \o written
      BY <1>4, <1>6
    <3>. QED BY <3>3, <3>4, Zenon
  <2>2. CASE mPendingWriteEventsQueue # <<>>
    <3>1. Len(written) = 0
      BY <1>3, <1>4, <2>2
    <3>2. written = <<>>
      BY <1>4, <3>1
    <3>3. mEventQueue \o Waiting \in Seq(Event) /\ mEventQueue \o <<>> = mEventQueue
          /\ (mEventQueue \o Waiting) \o <<>> = mEventQueue \o Waiting
      BY <1>4, <1>6
    <3>. QED BY <3>2, <3>3, Zenon
  <2>. QED BY <2>1, <2>2
<1>8. CASE ~(left # <<>> /\ ~Overflows(Len(left)))
  <2>1. UNCHANGED pendingVars
    BY <1>5, <1>8
  <2>2. Waiting' = Waiting
    BY <1>6, <2>1 DEF Waiting, PendingEvents, pendingVars
  <2>3. OnTheWay' = OnTheWay \o written
    BY <1>5, <1>7, <2>2, Zenon DEF OnTheWay
  <2>4. Kept(events, direct) = direct
    <3>1. left = <<>> => direct = Len(events)
      BY <1>2, <1>3, <1>4
    <3>. QED BY <1>1, <1>8, <3>1, Zenon DEF Kept
  <2>. QED BY <1>1, <1>2, <1>3, <2>3, <2>4, Zenon
<1>9. CASE left # <<>> /\ ~Overflows(Len(left))
  <2>1. PICK new : new = [events |-> left, numWakeupEvents |-> WakeupEvents(events)]
    OBVIOUS
  <2>2. new \in Batch /\ new.events = left
    <3>1. WakeupEvents(events) \in 0..Len(events) /\ Len(events) \in 1..MaxBatch
      BY <1>2, WakeupEventsBounded
    <3>. QED BY <1>4, <2>1, <3>1, QueueAssumption DEF Batch
  <2>3. mPendingWriteEventsQueue' = Append(mPendingWriteEventsQueue, new)
    BY <1>5, <1>9, <2>1 DEF PushPending
  <2>4. PendingEvents' = PendingEvents \o left
    <3>1. PendingEvents' = EventsIn(mPendingWriteEventsQueue')
      BY DEF PendingEvents, EventsIn, EventsOf
    <3>2. EventsIn(Append(mPendingWriteEventsQueue, new)) = EventsIn(mPendingWriteEventsQueue) \o new.events
      BY <1>6, <2>2, EventsInAppend, Zenon
    <3>. QED BY <2>2, <2>3, <3>1, <3>2, PendingIsFlat, Zenon
  <2>5. Waiting' = Waiting \o left
    <3>1. CASE pendingWritesThread = "written"
      <4>1. Drop(PendingEvents \o left, numToWrite) = Drop(PendingEvents, numToWrite) \o left
        BY <1>4, <1>6, <3>1, DropConcat, ZenonT(30)
      <4>. QED BY <1>6, <2>4, <3>1, <4>1, Zenon DEF Waiting
    <3>2. CASE pendingWritesThread # "written"
      BY <1>6, <2>4, <3>2, Zenon DEF Waiting
    <3>. QED BY <3>1, <3>2
  <2>6. OnTheWay' = (mEventQueue \o written) \o (Waiting \o left)
    BY <1>5, <2>5, Zenon DEF OnTheWay
  <2>7. OnTheWay' = OnTheWay \o events
    <3>1. \A x, y, z \in Seq(Event) : (x \o y) \o z = x \o (y \o z) /\ x \o y \in Seq(Event)
      BY ONLY ConcatLaws, SMTT(30)
    <3>2. /\ (mEventQueue \o written) \o (Waiting \o left) = ((mEventQueue \o written) \o Waiting) \o left
          /\ ((mEventQueue \o Waiting) \o written) \o left = (mEventQueue \o Waiting) \o (written \o left)
      <4>1. mEventQueue \o written \in Seq(Event) /\ mEventQueue \o Waiting \in Seq(Event)
        BY <1>4, <1>6, <3>1, Zenon
      <4>2. (mEventQueue \o written) \o (Waiting \o left) = ((mEventQueue \o written) \o Waiting) \o left
        <5>1. Waiting \in Seq(Event) /\ left \in Seq(Event)
          BY <1>4, <1>6
        <5>. QED BY ONLY <3>1, <4>1, <5>1, Zenon
      <4>3. ((mEventQueue \o Waiting) \o written) \o left = (mEventQueue \o Waiting) \o (written \o left)
        <5>1. written \in Seq(Event) /\ left \in Seq(Event)
          BY <1>4
        <5>. QED BY ONLY <3>1, <4>1, <5>1, Zenon
      <4>. QED BY <4>2, <4>3
    <3>. QED BY <1>4, <1>7, <2>6, <3>2, Zenon DEF OnTheWay
  <2>8. SubSeq(events, 1, Len(events)) = events /\ Len(events) \in 0..Len(wakes)
    BY <1>2
  <2>9. Kept(events, direct) = Len(events)
    BY <1>1, <1>9, Zenon DEF Kept
  <2>. QED BY <1>1, <1>2, <2>7, <2>8, <2>9, Zenon
<1>. QED BY <1>8, <1>9

\* Of the writer's steps only a write that fails changes what is on the way.
LEMMA WriterKeepsTheWay ==
  ASSUME QueueInv,
         TakeFrontBatch \/ WritePending \/ WriteFails \/ PopWritten \/ PendingWritesExit
  PROVE  OnTheWay' = OnTheWay /\ UNCHANGED <<posted, received>>
<1>1. CASE TakeFrontBatch
  BY <1>1 DEF TakeFrontBatch, OnTheWay, Waiting, PendingEvents, pendingVars
<1>2. CASE WritePending
  <2>1. /\ pendingWritesThread = "writing" /\ pendingWritesThread' = "written"
        /\ mEventQueue' = mEventQueue \o SubSeq(FrontBatch.events, 1, numToWrite)
        /\ numToWrite' = numToWrite /\ PendingEvents' = PendingEvents /\ UNCHANGED <<posted, received>>
    BY <1>2 DEF WritePending, PendingEvents, pendingVars
  <2>2. PICK front, rest : front = FrontBatch.events /\ rest = EventsIn(Batches)
    OBVIOUS
  <2>3. numToWrite \in 0..Len(front) /\ front \in Seq(Event) /\ rest \in Seq(Event) /\ PendingEvents = front \o rest
    BY <2>1, <2>2, WriterLaws, FrontLaws
  <2>4. PICK first, last : first = SubSeq(front, 1, numToWrite) /\ last = Drop(front, numToWrite)
    OBVIOUS
  <2>5. first \in Seq(Event) /\ last \in Seq(Event) /\ first \o last = front
    BY <2>3, <2>4, CutLaws, Zenon
  <2>6. Drop(PendingEvents, numToWrite) = last \o rest
    BY <2>3, <2>4, DropConcat, Zenon
  <2>7. (mEventQueue \o first) \o (last \o rest) = mEventQueue \o ((first \o last) \o rest)
    <3>1. \A x, y, z \in Seq(Event) : (x \o y) \o z = x \o (y \o z) /\ y \o z \in Seq(Event)
      BY ONLY ConcatLaws, SMTT(30)
    <3>2. mEventQueue \in Seq(Event)
      BY OnTheWayType
    <3>3. last \o rest \in Seq(Event) /\ (first \o last) \o rest = first \o (last \o rest)
      <4>1. first \in Seq(Event) /\ last \in Seq(Event) /\ rest \in Seq(Event)
        BY <2>3, <2>5
      <4>. QED BY ONLY <3>1, <4>1, Zenon
    <3>4. (mEventQueue \o first) \o (last \o rest) = mEventQueue \o (first \o (last \o rest))
      BY ONLY <2>5, <3>1, <3>2, <3>3, Zenon
    <3>. QED BY <3>3, <3>4, Zenon
  <2>8. OnTheWay' = (mEventQueue \o first) \o (last \o rest)
    BY <2>1, <2>2, <2>4, <2>6, Zenon DEF OnTheWay, Waiting
  <2>9. OnTheWay = mEventQueue \o (front \o rest)
    BY <2>1, <2>3 DEF OnTheWay, Waiting
  <2>. QED BY <2>1, <2>5, <2>7, <2>8, <2>9, Zenon
<1>3. CASE PopWritten
  <2>1. PendingEvents' = Drop(PendingEvents, numToWrite)
    BY <1>3, PopLaws
  <2>2. /\ pendingWritesThread = "written" /\ pendingWritesThread' = "waiting"
        /\ mEventQueue' = mEventQueue /\ UNCHANGED <<posted, received>>
    BY <1>3 DEF PopWritten
  <2>. QED BY <2>1, <2>2 DEF OnTheWay, Waiting
<1>4. CASE WriteFails \/ PendingWritesExit
  BY <1>4 DEF WriteFails, PendingWritesExit, OnTheWay, Waiting, PendingEvents, pendingVars
<1>. QED BY <1>1, <1>2, <1>3, <1>4

\* The events of a failed write are lost when their references are given back.
LEMMA FailedWriteLoses ==
  ASSUME QueueInv, DropFailed
  PROVE  /\ numToWrite \in 0..Len(PendingEvents) /\ OnTheWay = mEventQueue \o PendingEvents
         /\ OnTheWay' = mEventQueue \o Drop(PendingEvents, numToWrite)
         /\ UNCHANGED <<posted, received>>
<1>1. /\ pendingWritesThread = "failed" /\ pendingWritesThread' = "written"
      /\ UNCHANGED <<mEventQueue, numToWrite, posted, received>> /\ PendingEvents' = PendingEvents
  BY DEF DropFailed, AfterFailedWrite, PendingEvents, pendingVars
<1>2. numToWrite \in 0..Len(PendingEvents)
  <2>1. mPendingWriteEventsQueue # <<>> /\ numToWrite \in 0..Len(FrontBatch.events)
    BY <1>1, WriterLaws
  <2>2. /\ FrontBatch.events \in Seq(Event) /\ EventsIn(Batches) \in Seq(Event)
        /\ Len(PendingEvents) = Len(FrontBatch.events) + Len(EventsIn(Batches))
    BY <2>1, FrontLaws
  <2>. QED BY <2>1, <2>2
<1>3. OnTheWay = mEventQueue \o PendingEvents /\ OnTheWay' = mEventQueue \o Drop(PendingEvents, numToWrite)
  BY <1>1 DEF OnTheWay, Waiting
<1>. QED BY <1>1, <1>2, <1>3

\* The framework reads the oldest events on the way.
LEMMA ReadTakesTheOldest ==
  ASSUME QueueInv, NEW n \in 1..QuantumCount, FrameworkRead(n)
  PROVE  /\ n \in 1..Len(OnTheWay) /\ OnTheWay' = Drop(OnTheWay, n)
         /\ received' = received \o Ids(SubSeq(OnTheWay, 1, n)) /\ UNCHANGED posted
<1>1. /\ mEventQueue' = Drop(mEventQueue, n) /\ n \in 1..Len(mEventQueue) /\ Waiting' = Waiting
      /\ received' = received \o [i \in 1..n |-> mEventQueue[i].id] /\ posted' = posted
  BY QueueAssumption DEF FrameworkRead, QueueInv, QueueTypeOK, Waiting, PendingEvents, pendingVars, threadVars
<1>2. /\ mEventQueue \in Seq(Event) /\ Waiting \in Seq(Event) /\ OnTheWay \in Seq(Event)
      /\ Len(OnTheWay) = Len(mEventQueue) + Len(Waiting)
  BY OnTheWayType
<1>3. n \in 1..Len(OnTheWay) /\ n \in 0..Len(mEventQueue) /\ n \in 0..Len(OnTheWay)
  BY <1>1, <1>2
<1>4. OnTheWay' = Drop(OnTheWay, n)
  BY <1>1, <1>2, <1>3, DropConcat, Zenon DEF OnTheWay
<1>5. Ids(SubSeq(OnTheWay, 1, n)) = [i \in 1..n |-> mEventQueue[i].id]
  <2>1. PICK way : way = OnTheWay
    OBVIOUS
  <2>2. \A i \in 1..n : way[i] = mEventQueue[i]
    BY <1>1, <1>2, <2>1 DEF OnTheWay
  <2>3. PICK read : read = SubSeq(way, 1, n)
    OBVIOUS
  <2>4. Len(read) = n /\ \A i \in 1..n : read[i] = way[i]
    BY <1>2, <1>3, <2>1, <2>3, CutLaws, Zenon
  <2>5. Ids(read) = [i \in 1..n |-> mEventQueue[i].id]
    BY <2>2, <2>4 DEF Ids
  <2>. QED BY <2>1, <2>3, <2>5, Zenon
<1>. QED BY <1>1, <1>3, <1>4, <1>5

\* A restart loses the FMQ, what waits, or nothing, at each of its steps.
LEMMA RestartLoses ==
  ASSUME QueueInv, StopThreads \/ WakelockThreadNotified \/ InitializeSteps
  PROVE  /\ UNCHANGED <<posted, received>>
         /\ \E i \in 0..Len(OnTheWay) : \E n \in 0..Len(OnTheWay) - i :
              OnTheWay' = SubSeq(OnTheWay, 1, i) \o Drop(OnTheWay, i + n)
<1>0. /\ mEventQueue \in Seq(Event) /\ Waiting \in Seq(Event) /\ OnTheWay \in Seq(Event)
      /\ Len(OnTheWay) = Len(mEventQueue) + Len(Waiting)
  BY OnTheWayType
<1>1. CASE StopThreads \/ ReplaceQueues
  <2>1. mEventQueue' = <<>> /\ Waiting' = Waiting /\ UNCHANGED <<posted, received>>
    BY <1>1 DEF StopThreads, ReplaceQueues, Waiting, PendingEvents, pendingVars, threadVars
  <2>2. PICK n : n = Len(mEventQueue)
    OBVIOUS
  <2>3. Drop(OnTheWay, n) = Waiting
    BY <1>0, <2>2, PrefixConcat, Zenon DEF OnTheWay
  <2>4. SubSeq(OnTheWay, 1, 0) = <<>>
    BY <1>0
  <2>5. OnTheWay' = SubSeq(OnTheWay, 1, 0) \o Drop(OnTheWay, 0 + n)
    <3>1. 0 + n = n
      BY <1>0, <2>2
    <3>. QED BY <2>1, <2>3, <2>4, <3>1, Zenon DEF OnTheWay
  <2>6. 0 \in 0..Len(OnTheWay) /\ n \in 0..Len(OnTheWay) - 0
    BY <1>0, <2>2
  <2>. QED BY <2>1, <2>5, <2>6
<1>2. CASE WakelockThreadNotified \/ JoinThreads \/ ResetSize \/ StartThreads
  <2>1. OnTheWay' = OnTheWay /\ UNCHANGED <<posted, received>>
    BY <1>2 DEF WakelockThreadNotified, JoinThreads, ResetSize, StartThreads, QueueInv, WriterJoined,
                OnTheWay, Waiting, PendingEvents, pendingVars, threadVars
  <2>2. 0 \in 0..Len(OnTheWay) /\ 0 \in 0..Len(OnTheWay) - 0 /\ 0 + 0 = 0
    BY <1>0
  <2>3. SubSeq(OnTheWay, 1, 0) \o Drop(OnTheWay, 0) = OnTheWay
    BY <1>0, <2>2, CutLaws, Zenon
  <2>. QED BY <2>1, <2>2, <2>3
<1>3. CASE ClearPending
  <2>1. /\ mPendingWriteEventsQueue' = <<>> /\ UNCHANGED <<mEventQueue, posted, received>>
        /\ pendingWritesThread' = "off"
    BY <1>3 DEF ClearPending, QueueInv, WriterJoined, threadVars
  <2>2. PendingEvents' = EventsIn(mPendingWriteEventsQueue')
    BY DEF PendingEvents, EventsIn, EventsOf
  <2>3. Waiting' = <<>>
    BY <2>1, <2>2, EventsInEmpty DEF Waiting
  <2>4. PICK i, n : i = Len(mEventQueue) /\ n = Len(Waiting)
    OBVIOUS
  <2>5. i \in 0..Len(OnTheWay) /\ n \in 0..Len(OnTheWay) - i /\ i + n = Len(OnTheWay)
    BY <1>0, <2>4
  <2>6. SubSeq(OnTheWay, 1, i) = mEventQueue
    BY <1>0, <2>4, PrefixConcat, Zenon DEF OnTheWay
  <2>7. Drop(OnTheWay, Len(OnTheWay)) = <<>>
    BY <1>0 DEF Drop
  <2>8. OnTheWay' = SubSeq(OnTheWay, 1, i) \o Drop(OnTheWay, i + n)
    BY <2>1, <2>3, <2>5, <2>6, <2>7, Zenon DEF OnTheWay
  <2>. QED BY <2>1, <2>5, <2>8
<1>. QED BY <1>1, <1>2, <1>3 DEF InitializeSteps

LEMMA TransitLaws ==
  ASSUME QueueInv
  PROVE  InTransit \in Seq(1..MaxEvents) /\ Len(InTransit) = Len(OnTheWay)
<1>1. OnTheWay \in Seq(Event)
  BY OnTheWayType
<1>. QED BY <1>1, InTransitIsOnTheWay, IdsLaws

LEMMA TransitNext == InTransit' = Ids(OnTheWay')
BY DEF InTransit, Ids, OnTheWay, Waiting

LEMMA SendStep ==
  ASSUME QueueInv, NEW wakes \in Seq(BOOLEAN), Len(wakes) \in 1..MaxBatch, NEW direct,
         PostEventsToMessageQueue(wakes, direct)
  PROVE  Stream!Send
<1>1. PICK m \in 0..Len(wakes) : OnTheWay' = OnTheWay \o SubSeq(NewEvents(wakes), 1, m)
  BY PostExtendsTheWay, Zenon
<1>2. /\ posted' = posted + Len(wakes) /\ received' = received /\ posted + Len(wakes) <= MaxEvents
      /\ posted \in Nat /\ Len(wakes) \in Nat /\ Len(wakes) >= 1
  BY DEF PostEventsToMessageQueue, QueueInv, QueueTypeOK
<1>3. PICK events, sent : events = NewEvents(wakes) /\ sent = SubSeq(events, 1, m)
  OBVIOUS
<1>4. /\ events \in Seq(Event) /\ Len(events) = Len(wakes)
      /\ \A i \in 1..Len(wakes) : events[i].id = posted + i
  BY <1>2, <1>3, NewEventsLaws DEF QueueInv
<1>5. sent \in Seq(Event) /\ Len(sent) = m /\ \A i \in 1..m : sent[i] = events[i]
  <2>1. m \in 0..Len(events)
    BY <1>4
  <2>. QED BY <1>3, <1>4, <2>1, CutLaws, Zenon
<1>6. PICK T, U, added : T = InTransit /\ U = InTransit' /\ added = Ids(sent)
  OBVIOUS
<1>7. T \in Seq(1..MaxEvents)
  BY <1>6, TransitLaws
<1>8. /\ added \in Seq(1..MaxEvents) /\ Len(added) = m
      /\ \A i \in 1..m : added[i] = posted + i
  <2>1. /\ added \in Seq(1..MaxEvents) /\ Len(added) = m /\ \A i \in 1..m : added[i] = sent[i].id
    BY <1>5, <1>6, IdsLaws
  <2>2. ASSUME NEW i \in 1..m PROVE added[i] = posted + i
    <3>1. added[i] = sent[i].id /\ sent[i] = events[i] /\ i \in 1..Len(wakes)
      BY <1>2, <1>5, <2>1
    <3>. QED BY <1>4, <3>1
  <2>. QED BY <2>1, <2>2
<1>9. U = T \o added
  <2>1. OnTheWay \in Seq(Event)
    BY OnTheWayType
  <2>2. Ids(OnTheWay \o sent) = Ids(OnTheWay) \o Ids(sent)
    BY <1>5, <2>1, IdsConcat, Zenon
  <2>. QED BY <1>1, <1>3, <1>6, <2>2, InTransitIsOnTheWay, TransitNext, Zenon
<1>10. /\ U \in Seq(1..MaxEvents) /\ Len(U) = Len(T) + m
       /\ SubSeq(U, 1, Len(T)) = T /\ SubSeq(U, Len(T) + 1, Len(U)) = added
  <2>1. Len(U) = Len(T) + m /\ U \in Seq(1..MaxEvents)
    BY <1>7, <1>8, <1>9, ConcatProperties
  <2>2. SubSeq(U, 1, Len(T)) = T /\ Drop(U, Len(T)) = added
    BY <1>7, <1>8, <1>9, PrefixConcat
  <2>. QED BY <2>1, <2>2 DEF Drop
<1>11. Stream!Increasing(added)
  BY <1>2, <1>8 DEF Stream!Increasing
<1>12. \A i \in 1..Len(added) : added[i] \in posted + 1..posted'
  BY <1>2, <1>8
<1>13. posted' > posted /\ Len(U) >= Len(T)
  BY <1>2, <1>7, <1>10
<1>. QED BY <1>2, <1>6, <1>10, <1>11, <1>12, <1>13, Zenon DEF Stream!Send

\* A run of what is on the way is lost, or none.
LEMMA LoseStep ==
  ASSUME QueueInv, NEW i \in 0..Len(OnTheWay), NEW n \in 0..Len(OnTheWay) - i,
         OnTheWay' = SubSeq(OnTheWay, 1, i) \o Drop(OnTheWay, i + n),
         UNCHANGED <<posted, received>>
  PROVE  [Stream!Lose]_(Stream!streamVars)
<1>1. PICK T, U, j : T = InTransit /\ U = InTransit' /\ j = i + n
  OBVIOUS
<1>2. OnTheWay \in Seq(Event) /\ T \in Seq(1..MaxEvents) /\ Len(T) = Len(OnTheWay)
  BY <1>1, TransitLaws, OnTheWayType
<1>3. i \in 0..Len(T) /\ j \in 0..Len(T) /\ j \in 0..Len(OnTheWay)
  BY <1>1, <1>2
<1>4. U = SubSeq(T, 1, i) \o Drop(T, j)
  <2>1. SubSeq(OnTheWay, 1, i) \in Seq(Event) /\ Drop(OnTheWay, j) \in Seq(Event)
    BY <1>2, <1>3, CutLaws, Zenon
  <2>2. Ids(SubSeq(OnTheWay, 1, i) \o Drop(OnTheWay, j)) = Ids(SubSeq(OnTheWay, 1, i)) \o Ids(Drop(OnTheWay, j))
    BY <2>1, IdsConcat, Zenon
  <2>3. Ids(SubSeq(OnTheWay, 1, i)) = SubSeq(Ids(OnTheWay), 1, i) /\ Ids(Drop(OnTheWay, j)) = Drop(Ids(OnTheWay), j)
    BY <1>2, <1>3, IdsCut, Zenon
  <2>. QED BY <1>1, <2>2, <2>3, InTransitIsOnTheWay, TransitNext, Zenon
<1>5. CASE n = 0
  <2>1. j = i
    BY <1>1, <1>5
  <2>2. SubSeq(T, 1, i) \o Drop(T, i) = T
    BY <1>2, <1>3, CutLaws, Zenon
  <2>3. InTransit' = InTransit
    BY <1>1, <1>4, <2>1, <2>2, Zenon
  <2>. QED BY <2>3 DEF Stream!streamVars
<1>6. CASE n # 0
  <2>1. i < j
    BY <1>1, <1>6
  <2>2. Stream!Lose
    BY <1>1, <1>3, <1>4, <2>1, Zenon DEF Stream!Lose, Drop
  <2>. QED BY <2>2
<1>. QED BY <1>5, <1>6

LEMMA DeliverStep ==
  ASSUME QueueInv, NEW n \in 1..QuantumCount, FrameworkRead(n)
  PROVE  Stream!Deliver
<1>1. /\ n \in 1..Len(OnTheWay) /\ OnTheWay' = Drop(OnTheWay, n)
      /\ received' = received \o Ids(SubSeq(OnTheWay, 1, n)) /\ UNCHANGED posted
  BY ReadTakesTheOldest
<1>2. PICK T, U : T = InTransit /\ U = InTransit'
  OBVIOUS
<1>3. OnTheWay \in Seq(Event) /\ Len(T) = Len(OnTheWay) /\ n \in 0..Len(OnTheWay)
  BY <1>1, <1>2, TransitLaws, OnTheWayType
<1>4. Ids(SubSeq(OnTheWay, 1, n)) = SubSeq(Ids(OnTheWay), 1, n) /\ Ids(Drop(OnTheWay, n)) = Drop(Ids(OnTheWay), n)
  BY <1>3, IdsCut, Zenon
<1>5. n \in 1..Len(T) /\ received' = received \o SubSeq(T, 1, n) /\ U = Drop(T, n)
  BY <1>1, <1>2, <1>3, <1>4, InTransitIsOnTheWay, TransitNext, Zenon
<1>. QED BY <1>1, <1>2, <1>5, Zenon DEF Stream!Deliver, Drop

LEMMA StreamInitially == QueueInit => Stream!StreamInit
<1> SUFFICES ASSUME QueueInit PROVE Stream!StreamInit
  OBVIOUS
<1>1. PendingEvents = <<>>
  BY PendingIsFlat, EventsInEmpty, Zenon DEF QueueInit
<1>2. Waiting = <<>>
  BY <1>1 DEF QueueInit, Waiting
<1>3. OnTheWay = <<>>
  <2>1. <<>> \o <<>> = <<>>
    BY ConcatLaws
  <2>. QED BY <1>2, <2>1, Zenon DEF QueueInit, OnTheWay
<1>4. Ids(<<>>) = <<>>
  BY DEF Ids
<1>. QED BY <1>3, <1>4, InTransitIsOnTheWay DEF QueueInit, Stream!StreamInit

LEMMA StreamStep == QueueInv /\ [QueueNext]_queueVars => [Stream!StreamNext]_(Stream!streamVars)
<1> SUFFICES ASSUME QueueInv, [QueueNext]_queueVars
             PROVE  [Stream!StreamNext]_(Stream!streamVars)
  OBVIOUS
<1>0. OnTheWay \in Seq(Event) /\ InTransit' = Ids(OnTheWay') /\ InTransit = Ids(OnTheWay)
  BY OnTheWayType, TransitNext, InTransitIsOnTheWay
<1>1. ASSUME NEW n \in 1..MaxBatch, NEW direct \in 0..n,
             PostEventsToMessageQueue([i \in 1..n |-> FALSE], direct)
      PROVE  Stream!Send
  <2>1. [i \in 1..n |-> FALSE] \in Seq(BOOLEAN) /\ Len([i \in 1..n |-> FALSE]) = n
    BY QueueAssumption, IsASeq
  <2>. QED BY <1>1, <2>1, SendStep
<1>2. CASE TakeFrontBatch \/ WritePending \/ WriteFails \/ PopWritten \/ PendingWritesExit
  <2>1. OnTheWay' = OnTheWay /\ UNCHANGED <<posted, received>>
    BY <1>2, WriterKeepsTheWay
  <2>. QED BY <1>0, <2>1, Zenon DEF Stream!streamVars
<1>3. CASE DropFailed
  <2>1. /\ numToWrite \in 0..Len(PendingEvents) /\ OnTheWay = mEventQueue \o PendingEvents
        /\ OnTheWay' = mEventQueue \o Drop(PendingEvents, numToWrite)
        /\ UNCHANGED <<posted, received>>
    BY <1>3, FailedWriteLoses
  <2>2. mEventQueue \in Seq(Event) /\ PendingEvents \in Seq(Event)
    BY OnTheWayType
  <2>3. PICK i : i = Len(mEventQueue)
    OBVIOUS
  <2>4. Len(OnTheWay) = i + Len(PendingEvents)
    BY <2>1, <2>2, <2>3, ConcatProperties, Zenon
  <2>5. /\ i \in 0..Len(OnTheWay) /\ numToWrite \in 0..Len(OnTheWay) - i
        /\ i \in Nat /\ numToWrite \in 0..Len(PendingEvents)
    BY <2>1, <2>2, <2>3, <2>4
  <2>6. SubSeq(OnTheWay, 1, i) = mEventQueue /\ Drop(OnTheWay, i) = PendingEvents
    BY <2>1, <2>2, <2>3, PrefixConcat, Zenon
  <2>7. Drop(OnTheWay, i + numToWrite) = Drop(Drop(OnTheWay, i), numToWrite)
    BY <1>0, <2>5, DropDrop
  <2>8. OnTheWay' = SubSeq(OnTheWay, 1, i) \o Drop(OnTheWay, i + numToWrite)
    BY <2>1, <2>6, <2>7, Zenon
  <2>. QED BY <2>1, <2>5, <2>8, LoseStep, Zenon DEF Stream!StreamNext
<1>4. ASSUME NEW n \in 1..QuantumCount, FrameworkRead(n)
      PROVE  Stream!Deliver
  BY <1>4, DeliverStep
<1>5. CASE StopThreads \/ WakelockThreadNotified \/ InitializeSteps
  <2>1. UNCHANGED <<posted, received>>
    BY <1>5, RestartLoses
  <2>2. PICK i \in 0..Len(OnTheWay) : \E n \in 0..Len(OnTheWay) - i :
          OnTheWay' = SubSeq(OnTheWay, 1, i) \o Drop(OnTheWay, i + n)
    BY <1>5, RestartLoses, Zenon
  <2>3. PICK n \in 0..Len(OnTheWay) - i : OnTheWay' = SubSeq(OnTheWay, 1, i) \o Drop(OnTheWay, i + n)
    BY <2>2, Zenon
  <2>. QED BY <2>1, <2>3, LoseStep, Zenon DEF Stream!StreamNext
<1>6. CASE UNCHANGED queueVars
  BY <1>6 DEF queueVars, pendingVars, threadVars, Stream!streamVars, InTransit, PendingEvents
<1>. QED BY <1>1, <1>2, <1>3, <1>4, <1>5, <1>6
         DEF QueueNext, Post, PendingWritesThread, Stream!StreamNext
-----------------------------------------------------------------------------
(***************************************************************************)
(* What the promise amounts to.                                            *)
(***************************************************************************)

\* What was read and what will be: in the order posted, and nothing else.
Path == received \o InTransit

Ascending(s) == \A i, j \in 1..Len(s) : i < j => s[i] < s[j]

\* Every element of s is one of t.
TakenFrom(s, t) == \A i \in 1..Len(s) : \E j \in 1..Len(t) : s[i] = t[j]

InOrder == Ascending(Path) /\ \A i \in 1..Len(Path) : Path[i] \in 1..posted

LEMMA SeqSubset ==
  ASSUME NEW S, NEW N, S \subseteq N, NEW s \in Seq(S)
  PROVE  s \in Seq(N)
OBVIOUS

PathTyped ==
  /\ received \in Seq(Nat) /\ InTransit \in Seq(Nat) /\ Path \in Seq(Nat)
  /\ Len(Path) = Len(received) + Len(InTransit) /\ posted \in Nat

LEMMA PathLaws == QueueInv => PathTyped
<1> SUFFICES ASSUME QueueInv PROVE PathTyped
  OBVIOUS
<1>1. PICK S, N : S = 1..MaxEvents /\ N = Nat
  OBVIOUS
<1>2. S \subseteq N /\ received \in Seq(S) /\ posted \in Nat /\ InTransit \in Seq(S)
  BY <1>1, TransitLaws DEF QueueInv, QueueTypeOK
<1>3. received \in Seq(N) /\ InTransit \in Seq(N)
  BY <1>2, SeqSubset
<1>4. Path \in Seq(N) /\ Len(Path) = Len(received) + Len(InTransit)
  BY <1>3, ConcatProperties, Zenon DEF Path
<1>. QED BY <1>1, <1>2, <1>3, <1>4 DEF PathTyped

\* Numbers that grow from each to the next grow from each to any later one.
LEMMA NeighboursAscend ==
  ASSUME NEW s \in Seq(Nat), Stream!Increasing(s)
  PROVE  Ascending(s)
<1> SUFFICES ASSUME NEW i \in 1..Len(s), NEW j \in 1..Len(s), i < j
             PROVE  s[i] < s[j]
  BY DEF Ascending
<1> DEFINE S == {k \in Nat : i + 1 + k <= Len(s) => s[i] < s[i + 1 + k]}
<1>1. \A n \in 1..Len(s) - 1 : s[n] < s[n + 1]
  BY DEF Stream!Increasing
<1>2. 0 \in S
  BY <1>1
<1>3. ASSUME NEW k \in S PROVE k + 1 \in S
  <2>1. CASE i + 1 + (k + 1) <= Len(s)
    <3>1. /\ i + 1 + k \in 1..Len(s) - 1 /\ (i + 1 + k) + 1 = i + 1 + (k + 1)
          /\ s[i] < s[i + 1 + k]
      BY <2>1
    <3>2. s[i + 1 + k] < s[i + 1 + (k + 1)]
      BY <1>1, <3>1
    <3>3. s[i] \in Nat /\ s[i + 1 + k] \in Nat /\ s[i + 1 + (k + 1)] \in Nat
      BY <2>1
    <3>4. s[i] < s[i + 1 + (k + 1)]
      BY <3>1, <3>2, <3>3
    <3>. QED BY <3>4
  <2>2. CASE ~(i + 1 + (k + 1) <= Len(s))
    BY <2>2
  <2>. QED BY <2>1, <2>2
<1>4. S = Nat
  <2>1. S \in SUBSET Nat
    OBVIOUS
  <2> HIDE DEF S
  <2>. QED BY <1>2, <1>3, <2>1, Induction
<1>5. j - i - 1 \in Nat /\ i + 1 + (j - i - 1) = j
  OBVIOUS
<1>6. j - i - 1 \in S
  BY <1>4, <1>5
<1>. QED BY <1>5, <1>6

\* A sequence stays ascending when a run of it is taken out,
LEMMA AscendingCut ==
  ASSUME NEW S, NEW s \in Seq(S), NEW i \in 0..Len(s), NEW j \in 0..Len(s), NEW t
  PROVE  Ascending(s) /\ i <= j /\ t = SubSeq(s, 1, i) \o Drop(s, j)
           => Ascending(t) /\ TakenFrom(t, s)
<1> SUFFICES ASSUME Ascending(s), i <= j, t = SubSeq(s, 1, i) \o Drop(s, j)
             PROVE  Ascending(t) /\ TakenFrom(t, s)
  OBVIOUS
<1>1. PICK a, b : a = SubSeq(s, 1, i) /\ b = Drop(s, j)
  OBVIOUS
<1>2. /\ a \in Seq(S) /\ Len(a) = i /\ \A k \in 1..i : a[k] = s[k]
      /\ b \in Seq(S) /\ Len(b) = Len(s) - j /\ \A k \in 1..Len(s) - j : b[k] = s[k + j]
  BY <1>1, CutLaws
<1>3. /\ t \in Seq(S) /\ Len(t) = i + (Len(s) - j)
      /\ \A k \in 1..i + (Len(s) - j) : t[k] = IF k <= i THEN a[k] ELSE b[k - i]
  <2>1. t = a \o b
    BY <1>1
  <2>2. /\ t \in Seq(S) /\ Len(t) = Len(a) + Len(b)
        /\ \A k \in 1..Len(a) + Len(b) : t[k] = IF k <= Len(a) THEN a[k] ELSE b[k - Len(a)]
    <3>1. a \in Seq(S) /\ b \in Seq(S)
      BY <1>2
    <3>. QED BY ONLY <2>1, <3>1, ConcatProperties, Zenon
  <2>. QED BY <1>2, <2>2, Zenon
<1>4. \A k \in 1..i + (Len(s) - j) :
        LET l == IF k <= i THEN k ELSE k + (j - i) IN l \in 1..Len(s) /\ t[k] = s[l]
  <2> SUFFICES ASSUME NEW k \in 1..i + (Len(s) - j)
               PROVE  LET l == IF k <= i THEN k ELSE k + (j - i) IN l \in 1..Len(s) /\ t[k] = s[l]
    OBVIOUS
  <2>1. CASE k <= i
    BY <1>2, <1>3, <2>1
  <2>2. CASE ~(k <= i)
    <3>1. k - i \in 1..Len(s) - j /\ (k - i) + j = k + (j - i) /\ k + (j - i) \in 1..Len(s)
      BY <2>2
    <3>2. t[k] = b[k - i] /\ b[k - i] = s[(k - i) + j]
      BY <1>2, <1>3, <2>2, <3>1
    <3>. QED BY <2>2, <3>1, <3>2
  <2>. QED BY <2>1, <2>2
<1>5. Ascending(t)
  <2> SUFFICES ASSUME NEW m \in 1..Len(t), NEW n \in 1..Len(t), m < n
               PROVE  t[m] < t[n]
    BY DEF Ascending
  <2>1. PICK k, l : /\ k = (IF m <= i THEN m ELSE m + (j - i))
                    /\ l = (IF n <= i THEN n ELSE n + (j - i))
    OBVIOUS
  <2>2. k \in 1..Len(s) /\ l \in 1..Len(s) /\ t[m] = s[k] /\ t[n] = s[l]
    BY <1>3, <1>4, <2>1
  <2>3. k < l
    BY <1>3, <2>1
  <2>. QED BY <2>2, <2>3 DEF Ascending
<1>6. TakenFrom(t, s)
  BY <1>3, <1>4 DEF TakenFrom
<1>. QED BY <1>5, <1>6

\* and when numbers that ascend from above it follow.
LEMMA AscendingConcat ==
  ASSUME NEW S, NEW s \in Seq(S), NEW t \in Seq(S), Ascending(s), Ascending(t),
         \A i \in 1..Len(s) : \A j \in 1..Len(t) : s[i] < t[j]
  PROVE  Ascending(s \o t)
<1>1. PICK st, m, n : st = s \o t /\ m = Len(s) /\ n = Len(t)
  OBVIOUS
<1>2. /\ Len(st) = m + n /\ m \in Nat /\ n \in Nat
      /\ \A i \in 1..m + n : st[i] = IF i <= m THEN s[i] ELSE t[i - m]
  BY <1>1, ConcatProperties
<1> SUFFICES ASSUME NEW i \in 1..m + n, NEW j \in 1..m + n, i < j
             PROVE  st[i] < st[j]
  BY <1>1, <1>2 DEF Ascending
<1>3. CASE j <= m
  BY <1>1, <1>2, <1>3 DEF Ascending
<1>4. CASE i <= m /\ ~(j <= m)
  <2>1. i \in 1..m /\ j - m \in 1..n
    BY <1>2, <1>4
  <2>2. s[i] < t[j - m]
    BY <1>1, <2>1
  <2>3. st[i] = s[i] /\ st[j] = t[j - m]
    BY <1>2, <1>4
  <2>. QED BY <2>2, <2>3
<1>5. CASE ~(i <= m)
  <2>1. i - m \in 1..n /\ j - m \in 1..n /\ i - m < j - m /\ ~(j <= m)
    BY <1>2, <1>5
  <2>. QED BY <1>1, <1>2, <1>5, <2>1 DEF Ascending
<1>. QED BY <1>3, <1>4, <1>5

\* A step of EventStream keeps the order.
LEMMA InOrderStep ==
  QueueInv /\ QueueInv' /\ InOrder /\ [Stream!StreamNext]_(Stream!streamVars) => InOrder'
<1> SUFFICES ASSUME QueueInv, QueueInv', InOrder, [Stream!StreamNext]_(Stream!streamVars)
             PROVE  InOrder'
  OBVIOUS
<1>0. PICK S : S = Nat
  OBVIOUS
<1>a. \A x, y, z \in Seq(S) : (x \o y) \o z = x \o (y \o z)
  BY ONLY ConcatLaws, SMTT(30)
<1>1. PICK R, T, P, RR, TT, PP :
        /\ R = received /\ T = InTransit /\ P = Path
        /\ RR = received' /\ TT = InTransit' /\ PP = Path'
  OBVIOUS
<1>2. /\ R \in Seq(S) /\ T \in Seq(S) /\ P \in Seq(S) /\ P = R \o T
      /\ Len(P) = Len(R) + Len(T) /\ posted \in Nat
      /\ RR \in Seq(S) /\ TT \in Seq(S) /\ PP \in Seq(S) /\ PP = RR \o TT
      /\ Len(PP) = Len(RR) + Len(TT) /\ posted' \in Nat
  <2>1. PathTyped'
    <3>1. QueueInv' => PathTyped'
      BY PathLaws, PTL
    <3>. QED BY <3>1
  <2>2. /\ received' \in Seq(Nat) /\ InTransit' \in Seq(Nat) /\ Path' \in Seq(Nat)
        /\ Len(Path') = Len(received') + Len(InTransit') /\ posted' \in Nat
    BY <2>1 DEF PathTyped
  <2>3. Path' = received' \o InTransit'
    BY Zenon DEF Path
  <2>. QED BY <1>0, <1>1, <2>2, <2>3, PathLaws DEF Path, PathTyped
<1>3. Ascending(P) /\ \A i \in 1..Len(P) : P[i] \in 1..posted
  BY <1>1 DEF InOrder
<1>4. SUFFICES Ascending(PP) /\ \A i \in 1..Len(PP) : PP[i] \in 1..posted'
  BY <1>1 DEF InOrder, Ascending
<1>5. CASE Stream!Send
  <2>1. PICK added : added = SubSeq(TT, Len(T) + 1, Len(TT))
    OBVIOUS
  <2>2. /\ posted' > posted /\ Len(TT) >= Len(T) /\ SubSeq(TT, 1, Len(T)) = T /\ RR = R
        /\ Stream!Increasing(added) /\ \A i \in 1..Len(added) : added[i] \in posted + 1..posted'
    BY <1>1, <1>5, <2>1 DEF Stream!Send
  <2>3. added \in Seq(S) /\ TT = T \o added
    <3>1. Len(T) \in 0..Len(TT) /\ added = Drop(TT, Len(T))
      BY <1>2, <2>1, <2>2 DEF Drop
    <3>. QED BY <1>2, <2>2, <3>1, CutLaws
  <2>4. PP = P \o added
    <3>1. (R \o T) \o added = R \o (T \o added)
      <4>1. R \in Seq(S) /\ T \in Seq(S) /\ added \in Seq(S)
        BY <1>2, <2>3
      <4>. QED BY ONLY <1>a, <4>1, Zenon
    <3>. QED BY <1>2, <2>2, <2>3, <3>1, Zenon
  <2>5. ASSUME NEW i \in 1..Len(P), NEW j \in 1..Len(added) PROVE P[i] < added[j]
    <3>1. PICK p, q : p = P[i] /\ q = added[j]
      OBVIOUS
    <3>2. p \in 1..posted /\ q \in posted + 1..posted'
      BY <1>3, <2>2, <3>1
    <3>3. p < q
      BY <1>2, <3>2
    <3>. QED BY <3>1, <3>3
  <2>6. Ascending(PP)
    BY <1>0, <1>2, <1>3, <2>2, <2>3, <2>4, <2>5, NeighboursAscend, AscendingConcat
  <2>7. ASSUME NEW i \in 1..Len(PP) PROVE PP[i] \in 1..posted'
    <3>1. /\ Len(PP) = Len(P) + Len(added)
          /\ PP[i] = IF i <= Len(P) THEN P[i] ELSE added[i - Len(P)]
      <4>1. /\ Len(PP) = Len(P) + Len(added)
            /\ \A k \in 1..Len(P) + Len(added) : PP[k] = IF k <= Len(P) THEN P[k] ELSE added[k - Len(P)]
        <5>1. P \in Seq(S) /\ added \in Seq(S)
          BY <1>2, <2>3
        <5>. QED BY ONLY <2>4, <5>1, ConcatProperties, Zenon
      <4>. QED BY <4>1, Zenon
    <3>2. CASE i <= Len(P)
      BY <1>2, <1>3, <2>2, <3>1, <3>2
    <3>3. CASE ~(i <= Len(P))
      <4>1. i - Len(P) \in 1..Len(added)
        BY <1>2, <2>3, <3>1, <3>3
      <4>. QED BY <1>2, <2>2, <3>1, <3>3, <4>1
    <3>. QED BY <3>2, <3>3
  <2>. QED BY <2>6, <2>7
<1>6. CASE Stream!Lose
  <2>1. PICK i \in 0..Len(T), j \in 0..Len(T) : i < j /\ TT = SubSeq(T, 1, i) \o Drop(T, j)
    BY <1>1, <1>6 DEF Stream!Lose, Drop
  <2>2. RR = R /\ posted' = posted
    BY <1>1, <1>6 DEF Stream!Lose
  <2>3. PICK k, l : k = Len(R) + i /\ l = Len(R) + j
    OBVIOUS
  <2>4. k \in 0..Len(P) /\ l \in 0..Len(P) /\ k <= l
    BY <1>2, <2>1, <2>3
  <2>5. PP = SubSeq(P, 1, k) \o Drop(P, l)
    <3>1. PICK t1, t2 : t1 = SubSeq(T, 1, i) /\ t2 = Drop(T, j)
      OBVIOUS
    <3>2. t1 \in Seq(S) /\ t2 \in Seq(S)
      BY <1>2, <3>1, CutLaws
    <3>3. PP = (R \o t1) \o t2
      <4>1. (R \o t1) \o t2 = R \o (t1 \o t2)
        <5>1. R \in Seq(S) /\ t1 \in Seq(S) /\ t2 \in Seq(S)
          BY <1>2, <3>2
        <5>. QED BY ONLY <1>a, <5>1, Zenon
      <4>. QED BY <1>2, <2>1, <2>2, <3>1, <4>1, Zenon
    <3>4. SubSeq(P, 1, k) = R \o t1
      BY <1>2, <2>1, <2>3, <3>1, PrefixOfConcat
    <3>5. Drop(P, l) = t2
      <4>1. Len(R) \in 0..Len(P) /\ j \in 0..Len(P) - Len(R)
        BY <1>2
      <4>2. Drop(P, l) = Drop(Drop(P, Len(R)), j)
        BY <1>2, <2>3, <4>1, DropDrop
      <4>3. Drop(P, Len(R)) = T
        BY <1>2, PrefixConcat
      <4>. QED BY <3>1, <4>2, <4>3
    <3>. QED BY <3>3, <3>4, <3>5
  <2>6. Ascending(PP) /\ TakenFrom(PP, P)
    <3>1. P \in Seq(S) /\ Ascending(P)
      BY <1>2, <1>3
    <3>2. Ascending(P) /\ k <= l /\ PP = SubSeq(P, 1, k) \o Drop(P, l)
            => Ascending(PP) /\ TakenFrom(PP, P)
      <4>1. k \in 0..Len(P) /\ l \in 0..Len(P)
        BY <2>4
      <4>. QED BY ONLY <3>1, <4>1, AscendingCut, Zenon
    <3>. QED BY ONLY <2>4, <2>5, <3>1, <3>2, Zenon
  <2>. QED BY <1>3, <2>2, <2>6 DEF TakenFrom
<1>7. CASE Stream!Deliver
  <2>1. PICK n \in 1..Len(T) : RR = R \o SubSeq(T, 1, n) /\ TT = Drop(T, n) /\ posted' = posted
    BY <1>1, <1>7 DEF Stream!Deliver, Drop
  <2>2. PICK t1, t2 : t1 = SubSeq(T, 1, n) /\ t2 = Drop(T, n)
    OBVIOUS
  <2>3. t1 \in Seq(S) /\ t2 \in Seq(S) /\ t1 \o t2 = T
    <3>1. n \in 0..Len(T)
      BY <1>2
    <3>. QED BY <1>2, <2>2, <3>1, CutLaws
  <2>4. PP = P
    <3>1. (R \o t1) \o t2 = R \o (t1 \o t2)
      <4>1. R \in Seq(S) /\ t1 \in Seq(S) /\ t2 \in Seq(S)
        BY <1>2, <2>3
      <4>. QED BY ONLY <1>a, <4>1, Zenon
    <3>. QED BY <1>2, <2>1, <2>2, <2>3, <3>1, Zenon
  <2>. QED BY <1>3, <2>1, <2>4
<1>8. CASE UNCHANGED Stream!streamVars
  <2>1. PP = P /\ posted' = posted
    BY <1>1, <1>2, <1>8 DEF Stream!streamVars
  <2>. QED BY <1>3, <2>1
<1>. QED BY <1>5, <1>6, <1>7, <1>8 DEF Stream!StreamNext

LEMMA InOrderInit == QueueInit => InOrder
<1> SUFFICES ASSUME QueueInit PROVE InOrder
  OBVIOUS
<1>1. InTransit = <<>> /\ received = <<>>
  BY StreamInitially DEF Stream!StreamInit
<1>2. Path = <<>>
  BY <1>1 DEF Path
<1>. QED BY <1>2 DEF InOrder, Ascending

LEMMA InOrderDelivers == QueueInv /\ InOrder => Stream!DeliveredInOrder
<1> SUFFICES ASSUME QueueInv, InOrder PROVE Stream!DeliveredInOrder
  OBVIOUS
<1>1. PICK R, T, P : R = received /\ T = InTransit /\ P = Path
  OBVIOUS
<1>2. /\ R \in Seq(Nat) /\ T \in Seq(Nat) /\ P \in Seq(Nat) /\ P = R \o T
      /\ Len(P) = Len(R) + Len(T)
      /\ Ascending(P) /\ \A i \in 1..Len(P) : P[i] \in 1..posted
  BY <1>1, PathLaws DEF Path, PathTyped, InOrder
<1>3. Stream!Increasing(P)
  <2>1. \A i \in 1..Len(P) - 1 : i \in 1..Len(P) /\ i + 1 \in 1..Len(P) /\ i < i + 1
    BY <1>2
  <2>. QED BY <1>2, <2>1 DEF Ascending, Stream!Increasing
<1>4. \A i \in 1..Len(R) : R[i] = P[i] /\ i \in 1..Len(P)
  BY <1>2
<1>. QED BY <1>1, <1>2, <1>3, <1>4 DEF Stream!DeliveredInOrder

-----------------------------------------------------------------------------
(***************************************************************************)
(* Theorems.                                                               *)
(***************************************************************************)

\* The inductive invariant holds in every reachable state.
THEOREM QueueInductive == QueueSpec => []QueueInv
BY QueueInvInit, QueueInvStep, PTL DEF QueueSpec

\* Every reachable state has the types of QueueTypeOK, and the FMQ holds no more
\* than its capacity, for any capacity, limit, batches and restarts.
THEOREM QueueTypeCorrect == QueueSpec => []QueueTypeOK
<1>1. QueueInv => QueueTypeOK
  BY DEF QueueInv
<1>. QED BY QueueInductive, <1>1, PTL

\* The size of the overflow test is that of the pending queue and within its
\* limit, through partial writes, failed writes and restarts, but for the events
\* posted between the statements that clear the queue and its size.
THEOREM SizeExact == QueueSpec => []PendingSizeExact
<1>1. QueueInv => PendingSizeExact
  BY DEF QueueInv
<1>. QED BY QueueInductive, <1>1, PTL

\* While the thread writes without the mutex its batch is still at the front, so
\* that no post writes to the FMQ.
THEOREM OneWriter == QueueSpec => []SingleWriter
<1>1. QueueInv => SingleWriter
  BY DEF QueueInv
<1>. QED BY QueueInductive, <1>1, PTL

\* The event path keeps the promise of EventStream: what is read was posted, is
\* read once, and in order, through any losses and restarts.
THEOREM StreamImplemented == QueueSpec => ImplementsEventStream
BY StreamInitially, StreamStep, QueueInductive, PTL DEF QueueSpec, ImplementsEventStream, Stream!StreamSpec

\* What the framework has read it reads once and in the order posted, and so it
\* will what is on its way; nothing is read that was not posted.
THEOREM ReadInOrder == QueueSpec => []Stream!DeliveredInOrder
<1>1. QueueInv /\ QueueInv' /\ InOrder /\ [QueueNext]_queueVars => InOrder'
  BY StreamStep, InOrderStep, Zenon
<1>2. QueueSpec => []InOrder
  BY <1>1, InOrderInit, QueueInductive, PTL DEF QueueSpec
<1>. QED BY <1>2, InOrderDelivers, QueueInductive, PTL
=============================================================================
