------------------------- MODULE EnergyModelProofs -------------------------
(***************************************************************************)
(* Theorems about EnergyModel, for every model the schema accepts and every *)
(* sequence of calls: what holds of the order in which components are       *)
(* mapped, and the invariant behind NothingEvaluatedInPart and              *)
(* RunsOnceMapped.                                                          *)
(***************************************************************************)
EXTENDS EnergyModel, Induction, SequenceTheorems

(***************************************************************************)
(* Lists.                                                                  *)
(***************************************************************************)
\* A list has what it has in every larger set.
LEMMA ListIn ==
  ASSUME NEW s, NEW A, IsList(s), ToSet(s) \subseteq A
  PROVE  s \in Seq(A)
  BY SeqMonotonic DEF IsList

LEMMA ListOf ==
  ASSUME NEW A, NEW s \in Seq(A)
  PROVE  IsList(s) /\ ToSet(s) \subseteq A /\ DOMAIN s = 1 .. Len(s) /\ Len(s) \in Nat
<1>1. Len(s) \in Nat /\ s \in [1 .. Len(s) -> A] /\ DOMAIN s = 1 .. Len(s)
  BY LenProperties
<1>2. s \in [1 .. Len(s) -> ToSet(s)]
  BY <1>1 DEF ToSet
<1>3. s \in Seq(ToSet(s))
  BY <1>1, <1>2, SeqDef
<1> QED
  BY <1>1, <1>3 DEF IsList, ToSet

LEMMA ListDomain ==
  ASSUME NEW s, IsList(s)
  PROVE  DOMAIN s = 1 .. Len(s) /\ Len(s) \in Nat /\ \A k \in 1 .. Len(s) : s[k] \in ToSet(s)
  BY LenProperties DEF IsList, ToSet

\* One list behind another.
LEMMA Joined ==
  ASSUME NEW s, NEW t, IsList(s), IsList(t)
  PROVE  /\ IsList(s \o t) /\ ToSet(s \o t) = ToSet(s) \cup ToSet(t)
         /\ Len(s \o t) = Len(s) + Len(t)
         /\ \A k \in 1 .. Len(s) : (s \o t)[k] = s[k]
         /\ \A k \in 1 .. Len(t) : (s \o t)[Len(s) + k] = t[k]
<1> DEFINE A == ToSet(s) \cup ToSet(t)
           m == Len(s)
           n == Len(t)
<1>1. s \in Seq(A) /\ t \in Seq(A)
  BY ListIn
<1>2. m \in Nat /\ n \in Nat /\ DOMAIN s = 1 .. m /\ DOMAIN t = 1 .. n
  BY ListDomain
<1> HIDE DEF m, n, A
<1>3. /\ s \o t \in Seq(A) /\ Len(s \o t) = m + n
      /\ \A k \in 1 .. m + n : (s \o t)[k] = IF k <= m THEN s[k] ELSE t[k - m]
  BY <1>1, ConcatProperties DEF m, n
<1>4. \A k \in 1 .. m : (s \o t)[k] = s[k]
  BY <1>2, <1>3
<1>5. \A k \in 1 .. n : (s \o t)[m + k] = t[k]
  <2> SUFFICES ASSUME NEW k \in 1 .. n PROVE (s \o t)[m + k] = t[k]
    OBVIOUS
  <2>1. m + k \in 1 .. m + n /\ ~(m + k <= m) /\ (m + k) - m = k
    BY <1>2
  <2> QED
    BY <1>3, <2>1
<1>6. IsList(s \o t) /\ ToSet(s \o t) \subseteq A /\ DOMAIN (s \o t) = 1 .. m + n
  BY <1>3, ListOf
<1>7. A \subseteq ToSet(s \o t)
  <2>1. ASSUME NEW k \in 1 .. m PROVE s[k] \in ToSet(s \o t)
    <3>1. k \in 1 .. m + n
      BY <1>2
    <3> QED
      BY <1>4, <1>6, <3>1 DEF ToSet
  <2>2. ASSUME NEW k \in 1 .. n PROVE t[k] \in ToSet(s \o t)
    <3>1. m + k \in 1 .. m + n
      BY <1>2
    <3> QED
      BY <1>5, <1>6, <3>1 DEF ToSet
  <2> QED
    BY <1>2, <2>1, <2>2 DEF A, ToSet
<1> QED
  BY <1>3, <1>4, <1>5, <1>6, <1>7 DEF A, m, n

LEMMA Single ==
  ASSUME NEW x
  PROVE  IsList(<<x>>) /\ ToSet(<<x>>) = {x} /\ Len(<<x>>) = 1 /\ <<x>>[1] = x
<1>1. <<x>> \in Seq({x}) /\ Len(<<x>>) = 1 /\ <<x>>[1] = x
  OBVIOUS
<1>2. IsList(<<x>>) /\ ToSet(<<x>>) \subseteq {x} /\ DOMAIN <<x>> = 1 .. 1
  BY <1>1, ListOf
<1>3. x \in ToSet(<<x>>)
  <2>1. 1 \in 1 .. 1
    OBVIOUS
  <2> QED
    BY <1>1, <1>2, <2>1 DEF ToSet
<1> QED
  BY <1>1, <1>2, <1>3

LEMMA NoneListed == IsList(<<>>) /\ ToSet(<<>>) = {} /\ Len(<<>>) = 0
  BY EmptySeq DEF IsList, ToSet

(***************************************************************************)
(* The order of the steps of the mapping: nested, a component after all     *)
(* that is below it.                                                        *)
(***************************************************************************)
ParentKind ==
  [electricity |-> "generator", generator |-> "installation", generator_fuel |-> "installation",
   fuel |-> "installation", emitter |-> "installation", installation |-> "asset"]

IsParent(p, s) == p.kind = ParentKind[s.kind] /\ p.part.id = s.parent

\* Every step of the list is followed by that of its parent, or its parent is the
\* one of the given kind and name.
Nested(steps, kind, id) ==
  /\ IsList(steps)
  /\ \A k \in 1 .. Len(steps) :
       /\ steps[k].kind \in DOMAIN ParentKind
       /\ \/ ParentKind[steps[k].kind] = kind /\ steps[k].parent = id
          \/ \E p \in (k + 1) .. Len(steps) : IsParent(steps[p], steps[k])

LEMMA NestedJoin ==
  ASSUME NEW s, NEW t, NEW kind, NEW id, Nested(s, kind, id), Nested(t, kind, id)
  PROVE  Nested(s \o t, kind, id)
<1>1. IsList(s) /\ IsList(t) /\ Len(s) \in Nat /\ Len(t) \in Nat
  BY ListDomain DEF Nested
<1>2. /\ IsList(s \o t) /\ Len(s \o t) = Len(s) + Len(t)
      /\ \A k \in 1 .. Len(s) : (s \o t)[k] = s[k]
      /\ \A k \in 1 .. Len(t) : (s \o t)[Len(s) + k] = t[k]
  BY <1>1, Joined
<1> DEFINE whole == s \o t
           Fine(k) == /\ whole[k].kind \in DOMAIN ParentKind
                      /\ \/ ParentKind[whole[k].kind] = kind /\ whole[k].parent = id
                         \/ \E p \in (k + 1) .. Len(whole) : IsParent(whole[p], whole[k])
<1>3. ASSUME NEW k \in 1 .. Len(s) PROVE Fine(k)
  <2>1. whole[k] = s[k]
    BY <1>2
  <2>2. ASSUME NEW p \in (k + 1) .. Len(s), IsParent(s[p], s[k])
        PROVE  \E q \in (k + 1) .. Len(whole) : IsParent(whole[q], whole[k])
    <3>1. p \in 1 .. Len(s) /\ p \in (k + 1) .. Len(whole)
      BY <1>1, <1>2
    <3>2. whole[p] = s[p]
      BY <1>2, <3>1
    <3> QED
      BY <2>1, <2>2, <3>1, <3>2
  <2> HIDE DEF whole
  <2> QED
    BY <2>1, <2>2 DEF Nested
<1>4. ASSUME NEW j \in 1 .. Len(t) PROVE Fine(Len(s) + j)
  <2>1. whole[Len(s) + j] = t[j]
    BY <1>2
  <2>2. ASSUME NEW p \in (j + 1) .. Len(t), IsParent(t[p], t[j])
        PROVE  \E q \in (Len(s) + j + 1) .. Len(whole) : IsParent(whole[q], whole[Len(s) + j])
    <3>1. p \in 1 .. Len(t) /\ Len(s) + p \in (Len(s) + j + 1) .. Len(whole)
      BY <1>1, <1>2
    <3>2. whole[Len(s) + p] = t[p]
      BY <1>2, <3>1
    <3> QED
      BY <2>1, <2>2, <3>1, <3>2
  <2> HIDE DEF whole
  <2> QED
    BY <2>1, <2>2 DEF Nested
<1>5. ASSUME NEW k \in 1 .. Len(whole) PROVE Fine(k)
  <2>1. CASE k <= Len(s)
    BY <1>1, <1>3, <2>1
  <2>2. CASE ~(k <= Len(s))
    <3>1. k - Len(s) \in 1 .. Len(t) /\ k = Len(s) + (k - Len(s))
      BY <1>1, <1>2, <2>2
    <3> HIDE DEF Fine
    <3> QED
      BY <1>4, <3>1
  <2> QED
    BY <2>1, <2>2
<1> QED
  BY <1>2, <1>5 DEF Nested

\* With the step of the parent behind it, a nested list is one of the parent's own
\* parent.
LEMMA NestedClose ==
  ASSUME NEW s, NEW kind, NEW id, Nested(s, kind, id),
         NEW top, top.kind = kind, top.part.id = id, kind \in DOMAIN ParentKind
  PROVE  Nested(s \o <<top>>, ParentKind[kind], top.parent)
<1> DEFINE whole == s \o <<top>>
<1>1. IsList(s) /\ Len(s) \in Nat
  BY ListDomain DEF Nested
<1>2. /\ IsList(whole) /\ Len(whole) = Len(s) + 1
      /\ \A k \in 1 .. Len(s) : whole[k] = s[k]
      /\ whole[Len(s) + 1] = top
  <2>1. IsList(<<top>>) /\ Len(<<top>>) = 1 /\ <<top>>[1] = top /\ 1 \in 1 .. 1
    BY Single
  <2> QED
    BY <1>1, <2>1, Joined
<1> HIDE DEF whole
<1>3. ASSUME NEW k \in 1 .. Len(s)
      PROVE  /\ whole[k].kind \in DOMAIN ParentKind
             /\ \E p \in (k + 1) .. Len(whole) : IsParent(whole[p], whole[k])
  <2>1. whole[k] = s[k] /\ Len(s) + 1 \in (k + 1) .. Len(whole)
    BY <1>1, <1>2
  <2>2. CASE ParentKind[s[k].kind] = kind /\ s[k].parent = id
    BY <1>2, <2>1, <2>2 DEF Nested, IsParent
  <2>3. ASSUME NEW p \in (k + 1) .. Len(s), IsParent(s[p], s[k])
        PROVE  \E q \in (k + 1) .. Len(whole) : IsParent(whole[q], whole[k])
    <3>1. p \in 1 .. Len(s) /\ p \in (k + 1) .. Len(whole)
      BY <1>1, <1>2
    <3>2. whole[p] = s[p]
      BY <1>2, <3>1
    <3> QED
      BY <2>1, <2>3, <3>1, <3>2
  <2> QED
    BY <2>1, <2>2, <2>3 DEF Nested
<1>4. whole[Len(s) + 1].kind \in DOMAIN ParentKind /\ ParentKind[whole[Len(s) + 1].kind] = ParentKind[kind]
      /\ whole[Len(s) + 1].parent = top.parent
  BY <1>2
<1>5. \A k \in 1 .. Len(whole) : k \in 1 .. Len(s) \/ k = Len(s) + 1
  BY <1>1, <1>2
<1> QED
  BY <1>2, <1>3, <1>4, <1>5 DEF Nested, whole

\* Steps with the same parent are nested.
LEMMA NestedSteps ==
  ASSUME NEW s, IsList(s), NEW kind, NEW id,
         \A k \in 1 .. Len(s) : s[k].kind \in DOMAIN ParentKind /\ ParentKind[s[k].kind] = kind /\ s[k].parent = id
  PROVE  Nested(s, kind, id)
  BY DEF Nested

(***************************************************************************)
(* FlattenSeq: a recursion, from the lemma that it has a solution and by    *)
(* induction.                                                               *)
(***************************************************************************)
Flattening(seqs, f) ==
  f = [i \in 1 .. Len(seqs) |-> IF i = 1 THEN seqs[i] ELSE f[i - 1] \o seqs[i]]

LEMMA FlattenSolved ==
  ASSUME NEW A, NEW seqs \in Seq(Seq(A)), Len(seqs) # 0
  PROVE  \E f : /\ FlattenSeq(seqs) = f[Len(seqs)]
                /\ f[1] = seqs[1]
                /\ \A i \in 1 .. Len(seqs) - 1 : f[i + 1] = f[i] \o seqs[i + 1]
<1> DEFINE n == Len(seqs)
           R == Seq(A)
           G == [x \in Seq(A) \X (1 .. n) |-> x[1] \o seqs[x[2]]]
           F == CHOOSE f : Flattening(seqs, f)
<1>1. n \in Nat /\ n # 0 /\ \A i \in 1 .. n : seqs[i] \in Seq(A)
  BY LenProperties, ElementOfSeq
<1>2. G \in [Seq(A) \X (1 .. n) -> Seq(A)]
  <2>1. ASSUME NEW x \in Seq(A) \X (1 .. n) PROVE x[1] \o seqs[x[2]] \in Seq(A)
    <3>1. x[1] \in Seq(A) /\ seqs[x[2]] \in Seq(A)
      BY <1>1
    <3> QED
      BY <3>1, ConcatProperties
  <2> QED
    BY <2>1
<1>3. <<>> \in Seq(A)
  BY EmptySeq
<1>4. \E g \in [0 .. n -> Seq(A)] : g[0] = <<>> /\ \A i \in 1 .. n : g[i] = G[<<g[i - 1], i>>]
  <2> DEFINE base == <<>>
  <2>1. n \in Nat /\ base \in R /\ G \in [R \X (1 .. n) -> R]
    BY <1>1, <1>2, <1>3
  <2> HIDE DEF G, n, R, F, base
  <2>2. \E f : Iterates(f, R, n, base, G)
    BY <2>1, Recursion
  <2> QED
    BY <2>2 DEF R, base, Iterates
<1>5. PICK g \in [0 .. n -> Seq(A)] : g[0] = <<>> /\ \A i \in 1 .. n : g[i] = G[<<g[i - 1], i>>]
  BY <1>4
<1>6. ASSUME NEW i \in 1 .. n PROVE g[i - 1] \in Seq(A) /\ g[i] = g[i - 1] \o seqs[i]
  <2>1. i - 1 \in 0 .. n /\ g[i - 1] \in Seq(A)
    <3>1. i - 1 \in 0 .. n
      BY <1>1
    <3> HIDE DEF n
    <3> QED
      BY <1>5, <3>1
  <2>2. <<g[i - 1], i>> \in Seq(A) \X (1 .. n)
    BY <2>1
  <2>3. G[<<g[i - 1], i>>] = g[i - 1] \o seqs[i]
    BY <2>2
  <2> HIDE DEF G
  <2> QED
    BY <1>5, <2>1, <2>3
<1>7. g[1] = seqs[1]
  <2>1. 1 \in 1 .. n /\ 1 - 1 = 0
    BY <1>1
  <2>2. g[1] = g[0] \o seqs[1]
    BY <1>6, <2>1
  <2> QED
    BY <1>1, <1>5, <2>1, <2>2, ConcatEmptySeq
<1> DEFINE h == [i \in 1 .. n |-> g[i]]
<1>8. Flattening(seqs, h)
  <2>1. ASSUME NEW i \in 1 .. n PROVE h[i] = IF i = 1 THEN seqs[i] ELSE h[i - 1] \o seqs[i]
    <3>1. CASE i = 1
      BY <1>7, <3>1
    <3>2. CASE i # 1
      <4>1. i - 1 \in 1 .. n
        BY <1>1, <3>2
      <4>2. h[i] = g[i] /\ h[i - 1] = g[i - 1]
        BY <4>1
      <4> HIDE DEF h
      <4> QED
        BY <1>6, <3>2, <4>2
    <3> QED
      BY <3>1, <3>2
  <2>2. h = [i \in 1 .. n |-> h[i]]
    OBVIOUS
  <2>3. [i \in 1 .. n |-> h[i]] = [i \in 1 .. n |-> IF i = 1 THEN seqs[i] ELSE h[i - 1] \o seqs[i]]
    <3> HIDE DEF h
    <3> QED
      BY <2>1
  <2> HIDE DEF h
  <2> QED
    BY <2>2, <2>3 DEF Flattening
<1>9. Flattening(seqs, F)
  <2> HIDE DEF h
  <2> QED
    BY <1>8
<1>10. F = [i \in 1 .. n |-> IF i = 1 THEN seqs[i] ELSE F[i - 1] \o seqs[i]]
  <2> HIDE DEF F
  <2> QED
    BY <1>9 DEF Flattening
<1>11. FlattenSeq(seqs) = F[n]
  BY <1>1, Zenon DEF FlattenSeq, Flattening
<1> HIDE DEF F, n
<1>12. \A i \in 1 .. n : F[i] = IF i = 1 THEN seqs[i] ELSE F[i - 1] \o seqs[i]
  BY <1>10
<1>13. F[1] = seqs[1]
  <2>1. 1 \in 1 .. n
    BY <1>1
  <2> QED
    BY <1>12, <2>1
<1>14. ASSUME NEW i \in 1 .. n - 1 PROVE F[i + 1] = F[i] \o seqs[i + 1]
  <2>1. i + 1 \in 1 .. n /\ i + 1 # 1 /\ (i + 1) - 1 = i
    BY <1>1
  <2> QED
    BY <1>12, <2>1
<1> QED
  BY <1>11, <1>13, <1>14 DEF n

\* Flattening a list of nested lists gives a nested list that has all they have.
LEMMA NestedFlatten ==
  ASSUME NEW seqs, IsList(seqs), NEW kind, NEW id,
         \A i \in 1 .. Len(seqs) : Nested(seqs[i], kind, id)
  PROVE  /\ Nested(FlattenSeq(seqs), kind, id)
         /\ \A i \in 1 .. Len(seqs) : ToSet(seqs[i]) \subseteq ToSet(FlattenSeq(seqs))
<1> DEFINE n == Len(seqs)
           A == UNION {ToSet(seqs[i]) : i \in 1 .. n}
<1>1. n \in Nat /\ DOMAIN seqs = 1 .. n
  BY ListDomain
<1>2. CASE n = 0
  <2>1. FlattenSeq(seqs) = seqs
    BY <1>2 DEF FlattenSeq
  <2> QED
    BY <1>2, <2>1 DEF Nested
<1>3. CASE n # 0
  <2>1. seqs \in Seq(Seq(A))
    <3>1. \A i \in 1 .. n : seqs[i] \in Seq(A)
      <4>1. ASSUME NEW i \in 1 .. n PROVE seqs[i] \in Seq(A)
        <5>1. IsList(seqs[i]) /\ ToSet(seqs[i]) \subseteq A
          BY DEF Nested
        <5> HIDE DEF A
        <5> QED
          BY <5>1, ListIn
      <4> QED
        BY <4>1
    <3>2. ToSet(seqs) \subseteq Seq(A)
      BY <1>1, <3>1 DEF ToSet
    <3> HIDE DEF A
    <3> QED
      BY <3>2, ListIn
  <2> HIDE DEF A
  <2>2. PICK f : /\ FlattenSeq(seqs) = f[n]
                 /\ f[1] = seqs[1]
                 /\ \A i \in 1 .. n - 1 : f[i + 1] = f[i] \o seqs[i + 1]
    BY <1>3, <2>1, FlattenSolved
  <2> DEFINE Good(k) == /\ Nested(f[k + 1], kind, id)
                        /\ \A i \in 1 .. k + 1 : ToSet(seqs[i]) \subseteq ToSet(f[k + 1])
             S == {k \in Nat : k + 1 <= n => Good(k)}
  <2>3. 0 \in S
    <3>1. Good(0)
      BY <1>1, <1>3, <2>2
    <3> QED
      BY <3>1
  <2>4. ASSUME NEW k \in Nat, k \in S PROVE k + 1 \in S
    <3> SUFFICES ASSUME (k + 1) + 1 <= n PROVE Good(k + 1)
      OBVIOUS
    <3>1. Good(k)
      BY <1>1, <2>4
    <3>2. k + 1 \in 1 .. n - 1 /\ (k + 1) + 1 \in 1 .. n
      BY <1>1
    <3>3. f[(k + 1) + 1] = f[k + 1] \o seqs[(k + 1) + 1]
      BY <2>2, <3>2
    <3>4. Nested(f[k + 1], kind, id) /\ Nested(seqs[(k + 1) + 1], kind, id)
      BY <3>1, <3>2
    <3>5. Nested(f[(k + 1) + 1], kind, id)
      BY <3>3, <3>4, NestedJoin
    <3>6. ToSet(f[(k + 1) + 1]) = ToSet(f[k + 1]) \cup ToSet(seqs[(k + 1) + 1])
      BY <3>3, <3>4, Joined DEF Nested
    <3>7. \A i \in 1 .. (k + 1) + 1 : ToSet(seqs[i]) \subseteq ToSet(f[(k + 1) + 1])
      <4>1. \A i \in 1 .. (k + 1) + 1 : i \in 1 .. k + 1 \/ i = (k + 1) + 1
        OBVIOUS
      <4> QED
        BY <3>1, <3>6, <4>1
    <3> QED
      BY <3>5, <3>7
  <2>5. \A k \in Nat : k \in S
    <3> HIDE DEF S
    <3> QED
      BY <2>3, <2>4, FromZero
  <2>6. Good(n - 1)
    <3>1. n - 1 \in Nat /\ (n - 1) + 1 <= n
      BY <1>1, <1>3
    <3> HIDE DEF Good
    <3> QED
      BY <2>5, <3>1
  <2>7. (n - 1) + 1 = n
    BY <1>1
  <2> QED
    BY <2>2, <2>6, <2>7
<1> QED
  BY <1>2, <1>3

(***************************************************************************)
(* The steps of the parts of a model.                                       *)
(***************************************************************************)
LEMMA Associative ==
  ASSUME NEW s, NEW t, NEW u, IsList(s), IsList(t), IsList(u)
  PROVE  (s \o t) \o u = s \o (t \o u)
<1> DEFINE A == ToSet(s) \cup ToSet(t) \cup ToSet(u)
<1>1. s \in Seq(A) /\ t \in Seq(A) /\ u \in Seq(A)
  <2>1. ToSet(s) \subseteq A /\ ToSet(t) \subseteq A /\ ToSet(u) \subseteq A
    OBVIOUS
  <2> HIDE DEF A
  <2> QED
    BY <2>1, ListIn
<1> HIDE DEF A
<1> QED
  BY <1>1, ConcatAssociative

\* Consumers and emitters are nested under what they belong to.
LEMMA ConsumersNested ==
  ASSUME NEW kind \in {"electricity", "fuel", "emitter"}, NEW consumers, IsList(consumers), NEW parent, NEW fuel
  PROVE  Nested(ConsumerSteps(kind, consumers, parent, fuel), ParentKind[kind], parent)
<1> DEFINE s == ConsumerSteps(kind, consumers, parent, fuel)
           A == {Step(kind, consumers[k], parent, fuel) : k \in DOMAIN consumers}
<1>1. DOMAIN consumers = 1 .. Len(consumers) /\ Len(consumers) \in Nat
  BY ListDomain
<1>2. s \in [1 .. Len(consumers) -> A]
  BY <1>1 DEF ConsumerSteps
<1>3. s \in Seq(A)
  <2> HIDE DEF s, A
  <2> QED
    BY <1>1, <1>2, SeqDef
<1>4. IsList(s) /\ DOMAIN s = 1 .. Len(s)
  <2> HIDE DEF s, A
  <2> QED
    BY <1>3, ListOf
<1>5. \A k \in 1 .. Len(s) : s[k].kind = kind /\ s[k].parent = parent
  BY <1>4 DEF ConsumerSteps, Step
<1>6. kind \in DOMAIN ParentKind
  BY DEF ParentKind
<1> HIDE DEF s
<1>7. Nested(s, ParentKind[kind], parent)
  BY <1>4, <1>5, <1>6, NestedSteps
<1> QED
  BY <1>7 DEF s

LEMMA GeneratorNested ==
  ASSUME NEW g, NEW x, IsList(g.consumers)
  PROVE  Nested(GeneratorSteps(g, x), "installation", x.id)
<1> DEFINE fuel == Step("generator_fuel", g, x.id, x.fuel)
           top  == Step("generator", g, x.id, x.fuel)
           used == ConsumerSteps("electricity", g.consumers, g.id, x.fuel)
<1>1. Nested(used, "generator", g.id)
  <2>1. ParentKind["electricity"] = "generator" /\ "electricity" \in {"electricity", "fuel", "emitter"}
    BY DEF ParentKind
  <2> QED
    BY <2>1, ConsumersNested
<1>2. /\ top.kind = "generator" /\ top.part.id = g.id /\ top.parent = x.id
      /\ fuel.kind = "generator_fuel" /\ fuel.parent = x.id
  BY DEF Step
<1>3. /\ "generator" \in DOMAIN ParentKind /\ ParentKind["generator"] = "installation"
      /\ "generator_fuel" \in DOMAIN ParentKind /\ ParentKind["generator_fuel"] = "installation"
  BY DEF ParentKind
<1> HIDE DEF fuel, top, used
<1>4. Nested(used \o <<top>>, "installation", x.id)
  <2>1. Nested(used \o <<top>>, ParentKind["generator"], top.parent)
    BY <1>1, <1>2, <1>3, NestedClose
  <2> QED
    BY <1>2, <1>3, <2>1
<1>5. Nested(<<fuel>>, "installation", x.id)
  <2>1. IsList(<<fuel>>) /\ Len(<<fuel>>) = 1 /\ <<fuel>>[1] = fuel
    BY Single
  <2> QED
    BY <1>2, <1>3, <2>1, NestedSteps
<1>6. Nested(<<fuel>> \o (used \o <<top>>), "installation", x.id)
  BY <1>4, <1>5, NestedJoin
<1>7. (<<fuel>> \o used) \o <<top>> = <<fuel>> \o (used \o <<top>>)
  <2>1. IsList(<<fuel>>) /\ IsList(<<top>>) /\ IsList(used)
    BY <1>1, Single DEF Nested
  <2> QED
    BY <2>1, Associative
<1> QED
  BY <1>6, <1>7 DEF GeneratorSteps, fuel, top, used

\* A function of the positions of a list is a list.
LEMMA ListAlong ==
  ASSUME NEW s, IsList(s), NEW f, f = [k \in DOMAIN s |-> f[k]]
  PROVE  IsList(f) /\ Len(f) = Len(s) /\ DOMAIN s = 1 .. Len(s)
<1> DEFINE A == {f[k] : k \in DOMAIN s}
<1>1. DOMAIN s = 1 .. Len(s) /\ Len(s) \in Nat
  BY ListDomain
<1>2. f \in [1 .. Len(s) -> A]
  BY <1>1
<1>3. f \in Seq(A) /\ DOMAIN f = 1 .. Len(s)
  <2> HIDE DEF A
  <2> QED
    BY <1>1, <1>2, SeqDef
<1> HIDE DEF A
<1>4. IsList(f) /\ DOMAIN f = 1 .. Len(f) /\ Len(f) \in Nat
  BY <1>3, ListOf
<1>5. Len(f) = Len(s)
  BY <1>1, <1>3, <1>4, LenProperties
<1> QED
  BY <1>1, <1>4, <1>5

HasLists(x) ==
  /\ IsList(x.generators) /\ IsList(x.consumers) /\ IsList(x.emitters)
  /\ \A g \in ToSet(x.generators) : IsList(g.consumers)

\* The step of an installation is the last of its steps.
LEMMA InstallationNested ==
  ASSUME NEW x, HasLists(x)
  PROVE  /\ Nested(InstallationSteps(x), "asset", Asset)
         /\ Step("installation", x, Asset, <<>>) \in ToSet(InstallationSteps(x))
<1> DEFINE each == [g \in DOMAIN x.generators |-> GeneratorSteps(x.generators[g], x)]
           sets == FlattenSeq(each)
           used == ConsumerSteps("fuel", x.consumers, x.id, x.fuel)
           vent == ConsumerSteps("emitter", x.emitters, x.id, x.fuel)
           top  == Step("installation", x, Asset, <<>>)
<1>1. IsList(each) /\ Len(each) = Len(x.generators) /\ DOMAIN x.generators = 1 .. Len(x.generators)
  <2>1. each = [k \in DOMAIN x.generators |-> each[k]]
    OBVIOUS
  <2> HIDE DEF each
  <2> QED
    BY <2>1, ListAlong DEF HasLists
<1>2. ASSUME NEW i \in 1 .. Len(each) PROVE Nested(each[i], "installation", x.id)
  <2>1. i \in DOMAIN x.generators
    BY <1>1
  <2>2. x.generators[i] \in ToSet(x.generators)
    BY <2>1 DEF ToSet
  <2>3. Nested(GeneratorSteps(x.generators[i], x), "installation", x.id)
    BY <2>2, GeneratorNested DEF HasLists
  <2> QED
    BY <2>1, <2>3
<1>3. Nested(sets, "installation", x.id)
  <2> HIDE DEF each
  <2> QED
    BY <1>1, <1>2, NestedFlatten
<1>4. Nested(used, "installation", x.id) /\ Nested(vent, "installation", x.id)
  <2>1. ParentKind["fuel"] = "installation" /\ ParentKind["emitter"] = "installation"
    BY DEF ParentKind
  <2>2. Nested(used, ParentKind["fuel"], x.id) /\ Nested(vent, ParentKind["emitter"], x.id)
    BY ConsumersNested DEF HasLists
  <2> HIDE DEF used, vent
  <2> QED
    BY <2>1, <2>2
<1>5. top.kind = "installation" /\ top.part.id = x.id /\ top.parent = Asset
  BY DEF Step
<1>6. "installation" \in DOMAIN ParentKind /\ ParentKind["installation"] = "asset"
  BY DEF ParentKind
<1> HIDE DEF each, sets, used, vent, top
<1>7. Nested((sets \o used) \o vent, "installation", x.id)
  BY <1>3, <1>4, NestedJoin
<1> DEFINE below == (sets \o used) \o vent
<1> HIDE DEF below
<1>8. Nested(below \o <<top>>, "asset", Asset)
  <2>1. Nested(below \o <<top>>, ParentKind["installation"], top.parent)
    BY <1>5, <1>6, <1>7, NestedClose DEF below
  <2> QED
    BY <1>5, <1>6, <2>1
<1>9. top \in ToSet(below \o <<top>>)
  <2>1. IsList(<<top>>) /\ ToSet(<<top>>) = {top}
    BY Single
  <2>2. IsList(below)
    BY <1>7 DEF Nested, below
  <2> QED
    BY <2>1, <2>2, Joined
<1>10. InstallationSteps(x) = below \o <<top>>
  BY DEF InstallationSteps, below, sets, each, used, vent, top
<1> QED
  BY <1>8, <1>9, <1>10 DEF top

\* The steps of a model, of which the schema holds: the asset is the last, every
\* other one is followed by that of its parent, and every installation has one.
InOrder(steps) ==
  /\ IsList(steps) /\ DOMAIN steps = 1 .. Len(steps) /\ Len(steps) \in Nat \ {0}
  /\ steps[Len(steps)].kind = "asset"
  /\ \A k \in 1 .. Len(steps) - 1 :
       /\ steps[k].kind \in DOMAIN ParentKind
       /\ \E p \in (k + 1) .. Len(steps) : IsParent(steps[p], steps[k])

LEMMA StepsInOrder ==
  ASSUME NEW model, IsWellFormed(model)
  PROVE  /\ InOrder(ModelSteps(model))
         /\ \A x \in ToSet(model.installations) :
              Step("installation", x, Asset, <<>>) \in ToSet(ModelSteps(model))
<1> DEFINE all  == model.installations
           each == [i \in DOMAIN all |-> InstallationSteps(all[i])]
           body == FlattenSeq(each)
           top  == Step("asset", [id |-> Asset], Asset, <<>>)
           steps == body \o <<top>>
<1>1. IsList(each) /\ Len(each) = Len(all) /\ DOMAIN all = 1 .. Len(all)
  <2>1. each = [k \in DOMAIN all |-> each[k]] /\ IsList(all)
    BY DEF IsWellFormed
  <2> HIDE DEF each, all
  <2> QED
    BY <2>1, ListAlong
<1>2. ASSUME NEW i \in 1 .. Len(each)
      PROVE  /\ Nested(each[i], "asset", Asset)
             /\ Step("installation", all[i], Asset, <<>>) \in ToSet(each[i])
  <2>1. i \in DOMAIN all
    BY <1>1
  <2>2. all[i] \in ToSet(all)
    BY <2>1 DEF ToSet
  <2>3. HasLists(all[i])
    BY <2>2 DEF HasLists, IsWellFormed
  <2>4. each[i] = InstallationSteps(all[i])
    BY <2>1
  <2> HIDE DEF all, each
  <2> QED
    BY <2>3, <2>4, InstallationNested
<1> HIDE DEF each, all
<1>3. Nested(body, "asset", Asset) /\ \A i \in 1 .. Len(each) : ToSet(each[i]) \subseteq ToSet(body)
  BY <1>1, <1>2, NestedFlatten
<1>4. top.kind = "asset" /\ top.part.id = Asset
  BY DEF Step
<1> HIDE DEF top, body
<1>5. IsList(body) /\ Len(body) \in Nat /\ IsList(<<top>>) /\ Len(<<top>>) = 1 /\ <<top>>[1] = top
  BY <1>3, Single, ListDomain DEF Nested
<1>6. /\ IsList(steps) /\ Len(steps) = Len(body) + 1 /\ ToSet(body) \subseteq ToSet(steps)
      /\ \A k \in 1 .. Len(body) : steps[k] = body[k]
      /\ steps[Len(body) + 1] = top
  <2>1. 1 \in 1 .. Len(<<top>>)
    BY <1>5
  <2> QED
    BY <1>5, <2>1, Joined
<1>7. DOMAIN steps = 1 .. Len(steps)
  <2> HIDE DEF steps
  <2> QED
    BY <1>6, ListDomain
<1> HIDE DEF steps
<1>8. ASSUME NEW k \in 1 .. Len(steps) - 1
      PROVE  /\ steps[k].kind \in DOMAIN ParentKind
             /\ \E p \in (k + 1) .. Len(steps) : IsParent(steps[p], steps[k])
  <2>1. k \in 1 .. Len(body)
    BY <1>5, <1>6
  <2>2. steps[k] = body[k] /\ Len(steps) \in (k + 1) .. Len(steps) /\ steps[Len(steps)] = top
    BY <1>5, <1>6, <2>1
  <2>3. body[k].kind \in DOMAIN ParentKind
    BY <1>3, <2>1 DEF Nested
  <2>4. CASE ParentKind[body[k].kind] = "asset" /\ body[k].parent = Asset
    <3>1. IsParent(steps[Len(steps)], steps[k])
      BY <1>4, <2>2, <2>4 DEF IsParent
    <3> QED
      BY <2>2, <2>3, <3>1
  <2>5. CASE \E p \in (k + 1) .. Len(body) : IsParent(body[p], body[k])
    <3>1. PICK p \in (k + 1) .. Len(body) : IsParent(body[p], body[k])
      BY <2>5
    <3>2. p \in 1 .. Len(body) /\ p \in (k + 1) .. Len(steps)
      BY <1>5, <1>6
    <3>3. steps[p] = body[p]
      BY <1>6, <3>2
    <3> QED
      BY <2>2, <2>3, <3>1, <3>2, <3>3
  <2> QED
    BY <1>3, <2>1, <2>4, <2>5 DEF Nested
<1>9. InOrder(steps)
  BY <1>4, <1>5, <1>6, <1>7, <1>8 DEF InOrder
<1>10. ASSUME NEW x \in ToSet(all) PROVE Step("installation", x, Asset, <<>>) \in ToSet(steps)
  <2>1. PICK i \in DOMAIN all : x = all[i]
    BY DEF ToSet
  <2>2. i \in 1 .. Len(each)
    BY <1>1
  <2> QED
    BY <1>2, <1>3, <1>6, <2>1, <2>2
<1>11. steps = ModelSteps(model)
  BY DEF ModelSteps, steps, body, each, all, top
<1> QED
  BY <1>9, <1>10, <1>11 DEF all

(***************************************************************************)
(* The invariant.                                                           *)
(***************************************************************************)
Steps == MappingSteps

\* The steps that register a component, but for those of the generator sets' fuel.
ComponentSteps == {k \in DOMAIN Steps : IsComponent(Steps[k])}

\* The node at place i is the component of step k.
Stands(i, k) == k \in ComponentSteps /\ Steps[k].part.id = nodes[i]

\* Exactly the components of the first m steps are registered, in their order, with
\* an edge from the parent each of them names.
RegisteredUpTo(m) ==
  /\ m \in 0 .. Len(Steps)
  /\ IsList(nodes)
  /\ \A i \in 1 .. Len(nodes) : \E k \in 1 .. m : Stands(i, k)
  /\ \A k \in ComponentSteps : k <= m => \E i \in 1 .. Len(nodes) : Stands(i, k)
  /\ \A i, j \in 1 .. Len(nodes), k, l \in 1 .. m : Stands(i, k) /\ Stands(j, l) /\ k < l => i < j
  /\ edges = {<<Steps[k].parent, Steps[k].part.id>> :
                k \in {c \in ComponentSteps : c <= m /\ Steps[c].kind # "asset"}}

Activities == {"idle", "checking", "variables", "mapping", "building", "simulating", "evaluating", "reporting"}

\* What a call is doing tells how far the model has come.
Stages ==
  /\ activity \in Activities
  /\ is_validated \in BOOLEAN /\ mapped \in BOOLEAN /\ built \in BOOLEAN /\ next \in Nat \ {0}
  /\ activity # "idle" => raised = NoError
  /\ activity \in {"checking", "variables"} => ~is_validated
  /\ activity \notin {"idle", "checking", "variables"} => is_validated
  /\ activity \in {"simulating", "evaluating", "reporting"} => built
  /\ activity = "mapping" => ~mapped /\ ~built
  /\ activity = "variables" \/ is_validated => IsWellFormed(yaml)
  /\ ~is_validated => /\ next = 1 /\ nodes = <<>> /\ edges = {} /\ simulated = {}
                      /\ ~mapped /\ ~built /\ DOMAIN results = {}

\* How much of a model is mapped: some of it for good when the mapping has raised.
MappedUpTo ==
  is_validated =>
    \E m \in Nat :
      /\ RegisteredUpTo(m)
      /\ activity = "mapping" => m = next - 1
      /\ mapped => m = Len(Steps)
      /\ ~mapped /\ activity # "mapping" => m < Len(Steps)

\* A train or a pump belongs to a component, unless the mapping has raised.
SimulatesComponents ==
  activity = "mapping" \/ mapped => simulated \subseteq ToSet(nodes)

\* A model mapped in part is only built when no component of it was registered.
BuiltWhole == ~mapped => DOMAIN results = {} /\ (built => nodes = <<>>)

\* The consumers before the component whose turn it is have been evaluated.
EvaluatedInOrder ==
  activity = "evaluating" =>
    \A i \in 1 .. Len(nodes), k \in ComponentSteps :
      i < next /\ Stands(i, k) /\ IsConsumer(Steps[k]) => nodes[i] \in DOMAIN results

EnergyInv ==
  Stages /\ MappedUpTo /\ SimulatesComponents /\ BuiltWhole /\ EvaluatedInOrder /\ RunsOnceMapped

(***************************************************************************)
(* What follows from the order of the steps.                                *)
(***************************************************************************)
LEMMA Greatest ==
  ASSUME NEW m \in Nat, NEW S \in SUBSET (0 .. m), S # {}
  PROVE  \E x \in S : \A y \in S : y <= x
<1> DEFINE T == {k \in 0 .. m : m - k \in S}
<1>1. T \in SUBSET Nat
  OBVIOUS
<1>2. T # {}
  <2>1. PICK x \in S : TRUE
    OBVIOUS
  <2>2. x \in 0 .. m /\ m - x \in 0 .. m /\ m - (m - x) = x
    OBVIOUS
  <2> QED
    BY <2>2
<1>3. PICK x \in T : \A y \in T : x <= y
  <2> HIDE DEF T
  <2> QED
    BY <1>1, <1>2, LeastMember
<1>4. ASSUME NEW y \in S PROVE y <= m - x
  <2>1. y \in 0 .. m /\ m - y \in 0 .. m /\ m - (m - y) = y
    OBVIOUS
  <2>2. m - y \in T
    BY <2>1
  <2>3. x <= m - y /\ x \in 0 .. m
    BY <1>3, <2>2
  <2> QED
    BY <2>1, <2>3
<1> QED
  BY <1>3, <1>4

\* The names of components tell their steps apart.
LEMMA OneStep ==
  ASSUME IsWellFormed(yaml), NEW j \in DOMAIN Steps, NEW k \in DOMAIN Steps,
         Steps[j].kind # "generator_fuel", Steps[k].kind # "generator_fuel", Steps[j].part.id = Steps[k].part.id
  PROVE  j = k
  BY DEF IsWellFormed, Steps, MappingSteps

LEMMA OrderOfSteps ==
  ASSUME IsWellFormed(yaml)
  PROVE  InOrder(Steps)
  BY StepsInOrder DEF Steps, MappingSteps

LEMMA Kinds ==
  ASSUME IsWellFormed(yaml), NEW k \in DOMAIN Steps
  PROVE  /\ Steps[k].kind \in {"electricity", "generator", "generator_fuel", "fuel", "emitter", "installation", "asset"}
         /\ k \in 1 .. Len(Steps) /\ Len(Steps) \in Nat \ {0}
         /\ Steps[k].kind = "asset" <=> k = Len(Steps)
<1>1. InOrder(Steps)
  BY OrderOfSteps
<1>2. DOMAIN ParentKind = {"electricity", "generator", "generator_fuel", "fuel", "emitter", "installation"}
  BY DEF ParentKind
<1>3. k \in 1 .. Len(Steps) /\ Len(Steps) \in Nat \ {0}
  BY <1>1 DEF InOrder
<1>4. CASE k = Len(Steps)
  BY <1>1, <1>3, <1>4 DEF InOrder
<1>5. CASE k # Len(Steps)
  <2>1. k \in 1 .. Len(Steps) - 1
    BY <1>3, <1>5
  <2> QED
    BY <1>1, <1>2, <1>3, <1>5, <2>1 DEF InOrder
<1> QED
  BY <1>4, <1>5

\* Every component but the asset is followed by its parent, which is one too.
LEMMA ParentFollows ==
  ASSUME IsWellFormed(yaml), NEW k \in ComponentSteps, Steps[k].kind # "asset"
  PROVE  \E p \in ComponentSteps : k < p /\ IsParent(Steps[p], Steps[k])
<1>1. InOrder(Steps)
  BY OrderOfSteps
<1>2. k \in DOMAIN Steps /\ Steps[k].kind # "generator_fuel"
  BY DEF ComponentSteps, IsComponent
<1>3. k \in 1 .. Len(Steps) - 1
  BY <1>2, Kinds
<1>4. PICK p \in (k + 1) .. Len(Steps) : IsParent(Steps[p], Steps[k])
  BY <1>1, <1>3 DEF InOrder
<1>5. p \in DOMAIN Steps /\ k < p
  BY <1>1, <1>3 DEF InOrder
<1>6. Steps[p].kind \in {"generator", "installation", "asset"}
  <2>1. Steps[k].kind \in {"electricity", "generator", "generator_fuel", "fuel", "emitter", "installation"}
    BY <1>2, Kinds
  <2> QED
    BY <1>4, <2>1 DEF IsParent, ParentKind
<1>7. IsComponent(Steps[p])
  BY <1>6 DEF IsComponent, IsFiltered, IsConsumer
<1> QED
  BY <1>4, <1>5, <1>7 DEF ComponentSteps

\* A name stands for one step.
LEMMA StandsForOne ==
  ASSUME IsWellFormed(yaml), NEW i, NEW j, NEW k, NEW l, Stands(i, k), Stands(j, l)
  PROVE  nodes[i] = nodes[j] <=> k = l
<1>1. k \in DOMAIN Steps /\ l \in DOMAIN Steps /\ Steps[k].kind # "generator_fuel" /\ Steps[l].kind # "generator_fuel"
      /\ Steps[k].part.id = nodes[i] /\ Steps[l].part.id = nodes[j]
  BY DEF Stands, ComponentSteps, IsComponent
<1> QED
  BY <1>1, OneStep

\* StepOf finds the step of a node.
LEMMA StepFound ==
  ASSUME IsWellFormed(yaml), IsList(nodes), NEW i \in 1 .. Len(nodes), NEW k, Stands(i, k)
  PROVE  /\ StepOf(nodes[i]) = Steps[k]
         /\ \A kinds : Steps[k].kind \in kinds => Steps[k] \in StepsOf(kinds)
<1>1. k \in DOMAIN Steps /\ Steps[k].kind # "generator_fuel" /\ Steps[k].part.id = nodes[i]
  BY DEF Stands, ComponentSteps, IsComponent
<1>2. nodes[i] \in ToSet(nodes)
  BY ListDomain
<1>3. Steps[k] \in ToSet(MappingSteps)
  BY <1>1 DEF ToSet, Steps
<1>4. ASSUME NEW kinds, Steps[k].kind \in kinds PROVE Steps[k] \in StepsOf(kinds)
  BY <1>1, <1>2, <1>3, <1>4 DEF StepsOf
<1> DEFINE K == {"electricity", "fuel", "generator", "emitter", "installation", "asset"}
<1>5. Steps[k] \in StepsOf(K)
  BY <1>1, <1>4, Kinds
<1>6. ASSUME NEW s \in StepsOf(K), s.part.id = nodes[i] PROVE s = Steps[k]
  <2>1. PICK j \in DOMAIN Steps : s = Steps[j]
    BY DEF StepsOf, ToSet, Steps
  <2>2. Steps[j].kind # "generator_fuel"
    BY <2>1 DEF StepsOf
  <2> QED
    BY <1>1, <1>6, <2>1, <2>2, OneStep
<1>7. StepOf(nodes[i]) = Steps[k]
  <2>1. \A s \in StepsOf(K) : s.part.id = nodes[i] <=> s = Steps[k]
    BY <1>1, <1>6
  <2>2. StepOf(nodes[i]) = CHOOSE s \in StepsOf(K) : s.part.id = nodes[i]
    BY DEF StepOf
  <2>3. (CHOOSE s \in StepsOf(K) : s.part.id = nodes[i]) \in StepsOf(K)
        /\ (CHOOSE s \in StepsOf(K) : s.part.id = nodes[i]).part.id = nodes[i]
    <3> HIDE DEF K
    <3> QED
      BY <1>1, <1>5
  <2> HIDE DEF K
  <2> QED
    BY <2>1, <2>2, <2>3
<1> QED
  BY <1>4, <1>7

(***************************************************************************)
(* What a step that registers nothing keeps.                                *)
(***************************************************************************)
\* The schema has checked a model that can be read.
Schema == yaml.readable \subseteq BOOLEAN /\ (TRUE \in yaml.readable => IsWellFormed(yaml) /\ IsTyped(yaml))

LEMMA KeepsSteps ==
  ASSUME yaml' = yaml
  PROVE  Steps' = Steps /\ ComponentSteps' = ComponentSteps
<1>1. Steps' = Steps
  BY DEF Steps, MappingSteps
<1>2. \A s : IsComponent(s)' <=> IsComponent(s)
  BY DEF IsComponent, IsFiltered, IsConsumer, Kept, Target
<1> QED
  BY <1>1, <1>2 DEF ComponentSteps

LEMMA KeepsRegistered ==
  ASSUME yaml' = yaml, nodes' = nodes, edges' = edges, NEW m, RegisteredUpTo(m)
  PROVE  RegisteredUpTo(m)'
  BY KeepsSteps DEF RegisteredUpTo, Stands

LEMMA KeepsRuns ==
  ASSUME yaml' = yaml, nodes' = nodes, edges' = edges, mapped' = mapped, raised' \in {raised, NoError}, RunsOnceMapped
  PROVE  RunsOnceMapped'
<1>1. CASE raised' = NoError
  BY <1>1 DEF RunsOnceMapped, NoError
<1>2. CASE raised' = raised
  BY <1>2 DEF RunsOnceMapped, StepsOf, MappingSteps, Children
<1> QED
  BY <1>1, <1>2

\* What is mapped stays, whatever a step does that is not of the mapping.
LEMMA KeepsMapped ==
  ASSUME yaml' = yaml, nodes' = nodes, edges' = edges, mapped' = mapped, is_validated' = is_validated, simulated' = simulated,
         activity # "mapping", activity' # "mapping", MappedUpTo, SimulatesComponents
  PROVE  MappedUpTo' /\ SimulatesComponents'
<1>1. SimulatesComponents'
  BY DEF SimulatesComponents
<1>2. ASSUME is_validated PROVE MappedUpTo'
  <2>1. PICK m \in Nat : /\ RegisteredUpTo(m)
                         /\ mapped => m = Len(Steps)
                         /\ ~mapped => m < Len(Steps)
    BY <1>2 DEF MappedUpTo
  <2>2. RegisteredUpTo(m)' /\ Steps' = Steps
    BY <2>1, KeepsRegistered, KeepsSteps
  <2> QED
    BY <2>1, <2>2 DEF MappedUpTo
<1>3. ASSUME ~is_validated PROVE MappedUpTo'
  BY <1>3 DEF MappedUpTo
<1> QED
  BY <1>1, <1>2, <1>3

(***************************************************************************)
(* The steps of a call, one by one.                                         *)
(***************************************************************************)
LEMMA CallKeeps ==
  ASSUME Schema, EnergyInv, NEW c \in {VALIDATE, EVALUATE, REPORT}, Call(c)
  PROVE  EnergyInv'
<1> USE DEF Call, mapVars, resultVars
<1>1. activity = "idle" /\ activity' \in {"idle", "building", "checking"} /\ raised' = NoError
      /\ (activity' = "building" => is_validated) /\ (activity' = "checking" => ~is_validated)
  BY DEF AfterValidation, EnergyInv, Stages
<1>2. Stages'
  BY <1>1 DEF EnergyInv, Stages, Activities
<1>3. MappedUpTo' /\ SimulatesComponents'
  BY <1>1, KeepsMapped DEF EnergyInv
<1>4. BuiltWhole'
  BY DEF EnergyInv, BuiltWhole
<1>5. EvaluatedInOrder'
  BY <1>1 DEF EvaluatedInOrder
<1>6. RunsOnceMapped'
  BY <1>1, KeepsRuns DEF EnergyInv
<1> QED
  BY <1>2, <1>3, <1>4, <1>5, <1>6 DEF EnergyInv

LEMMA CheckKeeps ==
  ASSUME Schema, EnergyInv, Check
  PROVE  EnergyInv'
<1>1. /\ activity = "checking" /\ ~is_validated /\ ~mapped
      /\ UNCHANGED <<mapVars, resultVars, yaml, call, calls>>
      /\ \/ activity' = "variables" /\ raised' = raised /\ IsWellFormed(yaml)
         \/ activity' = "idle"
  BY DEF Check, EnergyInv, Stages, Schema, GoOn, Return
<1> USE <1>1 DEF mapVars, resultVars
<1>2. Stages'
  BY DEF EnergyInv, Stages, Activities
<1>3. MappedUpTo' /\ SimulatesComponents'
  BY KeepsMapped DEF EnergyInv
<1>4. BuiltWhole'
  BY DEF EnergyInv, BuiltWhole
<1>5. EvaluatedInOrder' /\ RunsOnceMapped'
  BY DEF EvaluatedInOrder, RunsOnceMapped
<1> QED
  BY <1>2, <1>3, <1>4, <1>5 DEF EnergyInv

LEMMA ResolveVariablesKeeps ==
  ASSUME EnergyInv, ResolveVariables
  PROVE  EnergyInv'
<1>1. activity = "variables" /\ UNCHANGED <<yaml, call, activity, calls, raised, mapVars, resultVars>>
  BY DEF ResolveVariables
<1> USE <1>1 DEF mapVars, resultVars
<1>2. Stages'
  BY DEF EnergyInv, Stages
<1>3. MappedUpTo' /\ SimulatesComponents'
  BY KeepsMapped DEF EnergyInv
<1>4. BuiltWhole'
  BY DEF EnergyInv, BuiltWhole
<1>5. EvaluatedInOrder'
  BY DEF EvaluatedInOrder
<1>6. RunsOnceMapped'
  BY KeepsRuns DEF EnergyInv
<1> QED
  BY <1>2, <1>3, <1>4, <1>5, <1>6 DEF EnergyInv

\* Nothing is registered when the mapping starts.
LEMMA EndVariablesKeeps ==
  ASSUME EnergyInv, EndVariables
  PROVE  EnergyInv'
<1>1. /\ activity = "variables" /\ ~is_validated /\ IsWellFormed(yaml) /\ ~mapped /\ raised = NoError
      /\ next = 1 /\ nodes = <<>> /\ edges = {} /\ simulated = {} /\ ~built /\ DOMAIN results = {}
      /\ UNCHANGED <<yaml, call, calls, mapped, next, nodes, edges, simulated, resultVars>>
      /\ \/ is_validated' = TRUE /\ activity' = "mapping" /\ raised' = raised
         \/ is_validated' = is_validated /\ activity' = "idle"
  BY DEF EndVariables, EnergyInv, Stages, GoOn, Return
<1> USE <1>1 DEF resultVars
<1>2. Stages'
  BY DEF EnergyInv, Stages, Activities
<1>3. MappedUpTo'
  <2>1. InOrder(Steps)
    BY OrderOfSteps
  <2>2. Steps' = Steps /\ ComponentSteps' = ComponentSteps
    BY KeepsSteps
  <2>3. \A k \in ComponentSteps : k \in 1 .. Len(Steps)
    BY <2>1 DEF ComponentSteps, InOrder
  <2>4. IsList(nodes) /\ Len(nodes) = 0
    BY NoneListed
  <2>5. RegisteredUpTo(0)
    <3>1. 0 \in 0 .. Len(Steps) /\ 1 .. 0 = {}
      BY <2>1 DEF InOrder
    <3>2. \A k \in ComponentSteps : ~(k <= 0)
      BY <2>3
    <3> HIDE <1>1
    <3>3. edges = {}
      BY <1>1
    <3> QED
      BY <2>4, <3>1, <3>2, <3>3 DEF RegisteredUpTo
  <2>6. RegisteredUpTo(0)'
    BY <2>5, KeepsRegistered
  <2>7. CASE activity' = "mapping"
    <3>1. 0 \in Nat /\ 0 = next' - 1 /\ ~mapped'
      OBVIOUS
    <3> QED
      BY <2>6, <2>7, <3>1 DEF MappedUpTo
  <2>8. CASE activity' # "mapping"
    BY <2>8 DEF MappedUpTo
  <2> QED
    BY <2>7, <2>8
<1>4. SimulatesComponents' /\ BuiltWhole'
  BY DEF SimulatesComponents, BuiltWhole
<1>5. EvaluatedInOrder' /\ RunsOnceMapped'
  BY DEF EvaluatedInOrder, RunsOnceMapped
<1> QED
  BY <1>2, <1>3, <1>4, <1>5 DEF EnergyInv

\* A step that registers nothing: its component, if any, is left out.
LEMMA NothingMore ==
  ASSUME IsWellFormed(yaml), NEW m \in Nat, RegisteredUpTo(m), m < Len(Steps), m + 1 \notin ComponentSteps,
         yaml' = yaml, nodes' = nodes, edges' = edges
  PROVE  RegisteredUpTo(m + 1)'
<1>1. Steps' = Steps /\ ComponentSteps' = ComponentSteps
  BY KeepsSteps
<1>2. InOrder(Steps)
  BY OrderOfSteps
<1>3. \A k \in ComponentSteps : k \in 1 .. Len(Steps) /\ (k <= m + 1 <=> k <= m)
  BY <1>2 DEF ComponentSteps, InOrder
<1>4. \A i, k : Stands(i, k)' <=> Stands(i, k)
  BY <1>1 DEF Stands
<1>5. \A i, k : k \in 1 .. m + 1 /\ Stands(i, k) => k \in 1 .. m
  BY <1>3 DEF Stands
<1>6. m + 1 \in 0 .. Len(Steps)' /\ IsList(nodes)'
  BY <1>1, <1>2 DEF RegisteredUpTo, InOrder
<1>7. \A i \in 1 .. Len(nodes)' : \E k \in 1 .. m + 1 : Stands(i, k)'
  <2>1. \A k \in 1 .. m : k \in 1 .. m + 1
    OBVIOUS
  <2> QED
    BY <1>4, <2>1 DEF RegisteredUpTo
<1>8. \A k \in ComponentSteps' : k <= m + 1 => \E i \in 1 .. Len(nodes)' : Stands(i, k)'
  BY <1>1, <1>3, <1>4 DEF RegisteredUpTo
<1>9. \A i, j \in 1 .. Len(nodes)', k, l \in 1 .. m + 1 : Stands(i, k)' /\ Stands(j, l)' /\ k < l => i < j
  BY <1>4, <1>5 DEF RegisteredUpTo
<1>10. edges' = {<<Steps[k].parent, Steps[k].part.id>> :
                   k \in {c \in ComponentSteps : c <= m + 1 /\ Steps[c].kind # "asset"}}
  <2>1. {c \in ComponentSteps : c <= m + 1 /\ Steps[c].kind # "asset"}
          = {c \in ComponentSteps : c <= m /\ Steps[c].kind # "asset"}
    BY <1>3
  <2> QED
    BY <2>1 DEF RegisteredUpTo
<1> QED
  BY <1>1, <1>6, <1>7, <1>8, <1>9, <1>10 DEF RegisteredUpTo

\* A step that registers its component puts it behind those before.
LEMMA OneMore ==
  ASSUME IsWellFormed(yaml), NEW m \in Nat, RegisteredUpTo(m), m + 1 \in ComponentSteps,
         yaml' = yaml, nodes' = Append(nodes, Steps[m + 1].part.id),
         edges' = IF Steps[m + 1].kind = "asset" THEN edges
                  ELSE edges \cup {<<Steps[m + 1].parent, Steps[m + 1].part.id>>}
  PROVE  RegisteredUpTo(m + 1)' /\ ToSet(nodes) \subseteq ToSet(nodes)' /\ Steps[m + 1].part.id \in ToSet(nodes)'
<1>n. PICK n \in Nat : n = Len(nodes)
  BY ListDomain DEF RegisteredUpTo
<1> DEFINE id == Steps[m + 1].part.id
           more == Append(nodes, id)
<1>1. Steps' = Steps /\ ComponentSteps' = ComponentSteps
  BY KeepsSteps
<1>2. InOrder(Steps)
  BY OrderOfSteps
<1>3. \A k \in ComponentSteps : k \in 1 .. Len(Steps) /\ (k <= m + 1 <=> k <= m \/ k = m + 1)
  BY <1>2 DEF ComponentSteps, InOrder
<1>4. /\ n \in Nat /\ IsList(more) /\ Len(more) = n + 1 /\ more[n + 1] = id
      /\ \A i \in 1 .. n : more[i] = nodes[i]
      /\ DOMAIN nodes = 1 .. n /\ DOMAIN more = 1 .. n + 1
  <2>1. IsList(nodes) /\ n \in Nat /\ DOMAIN nodes = 1 .. n
    BY <1>n, ListDomain DEF RegisteredUpTo
  <2> DEFINE A == ToSet(nodes) \cup {id}
  <2>2. nodes \in Seq(A)
    <3>1. ToSet(nodes) \subseteq A
      OBVIOUS
    <3> HIDE DEF A
    <3> QED
      BY <2>1, <3>1, ListIn
  <2>3. id \in A
    OBVIOUS
  <2> HIDE DEF A
  <2>4. /\ more \in Seq(A) /\ Len(more) = n + 1 /\ more[n + 1] = id
        /\ \A i \in 1 .. n : more[i] = nodes[i]
    <3> HIDE DEF id
    <3> QED
      BY <1>n, <2>2, <2>3, AppendProperties
  <2>5. IsList(more) /\ DOMAIN more = 1 .. Len(more)
    <3> HIDE DEF more
    <3> QED
      BY <2>4, ListOf
  <2> HIDE DEF more
  <2> QED
    BY <2>1, <2>4, <2>5
<1>5. nodes' = more
  OBVIOUS
<1> HIDE DEF more
<1>6. \A i \in 1 .. n : \A k : Stands(i, k)' <=> Stands(i, k)
  BY <1>1, <1>4, <1>5 DEF Stands
<1>7. Stands(n + 1, m + 1)'
  BY <1>1, <1>4, <1>5 DEF Stands
<1>8. \A i \in 1 .. n + 1, k \in 1 .. m + 1 :
        Stands(i, k)' => (i \in 1 .. n /\ k \in 1 .. m /\ Stands(i, k)) \/ (i = n + 1 /\ k = m + 1)
  <2> SUFFICES ASSUME NEW i \in 1 .. n + 1, NEW k \in 1 .. m + 1, Stands(i, k)'
               PROVE (i \in 1 .. n /\ k \in 1 .. m /\ Stands(i, k)) \/ (i = n + 1 /\ k = m + 1)
    OBVIOUS
  <2>1. CASE i \in 1 .. n
    <3>1. Stands(i, k)
      BY <1>6, <2>1
    <3>2. PICK l \in 1 .. m : Stands(i, l)
      BY <1>n, <2>1 DEF RegisteredUpTo
    <3>3. k = l
      BY <3>1, <3>2, StandsForOne
    <3> QED
      BY <2>1, <3>1, <3>2, <3>3
  <2>2. CASE i = n + 1
    <3>1. Steps[k].part.id = id /\ k \in ComponentSteps
      BY <1>1, <1>4, <1>5, <2>2 DEF Stands
    <3>2. k \in DOMAIN Steps /\ m + 1 \in DOMAIN Steps
          /\ Steps[k].kind # "generator_fuel" /\ Steps[m + 1].kind # "generator_fuel"
      BY <3>1 DEF ComponentSteps, IsComponent
    <3> QED
      BY <2>2, <3>1, <3>2, OneStep
  <2> QED
    BY <1>4, <2>1, <2>2
<1>9. m + 1 \in 0 .. Len(Steps)' /\ IsList(nodes)'
  BY <1>1, <1>3, <1>4, <1>5
<1>10. Len(nodes)' = n + 1
  BY <1>4, <1>5
<1>11. \A i \in 1 .. n + 1 : \E k \in 1 .. m + 1 : Stands(i, k)'
  <2> SUFFICES ASSUME NEW i \in 1 .. n + 1 PROVE \E k \in 1 .. m + 1 : Stands(i, k)'
    OBVIOUS
  <2>1. CASE i \in 1 .. n
    <3>1. PICK k \in 1 .. m : Stands(i, k)
      BY <1>n, <2>1 DEF RegisteredUpTo
    <3>2. k \in 1 .. m + 1
      OBVIOUS
    <3> QED
      BY <1>6, <2>1, <3>1, <3>2
  <2>2. CASE i = n + 1
    <3>1. m + 1 \in 1 .. m + 1
      OBVIOUS
    <3> QED
      BY <1>7, <2>2, <3>1
  <2> QED
    BY <1>4, <2>1, <2>2
<1>12. \A k \in ComponentSteps : k <= m + 1 => \E i \in 1 .. n + 1 : Stands(i, k)'
  <2> SUFFICES ASSUME NEW k \in ComponentSteps, k <= m + 1 PROVE \E i \in 1 .. n + 1 : Stands(i, k)'
    OBVIOUS
  <2>1. CASE k <= m
    <3>1. PICK i \in 1 .. n : Stands(i, k)
      BY <1>n, <2>1 DEF RegisteredUpTo
    <3>2. i \in 1 .. n + 1
      BY <1>4
    <3> QED
      BY <1>6, <3>1, <3>2
  <2>2. CASE k = m + 1
    <3>1. n + 1 \in 1 .. n + 1
      BY <1>4
    <3> QED
      BY <1>7, <2>2, <3>1
  <2> QED
    BY <1>3, <2>1, <2>2
<1>13. \A i, j \in 1 .. n + 1, k, l \in 1 .. m + 1 : Stands(i, k)' /\ Stands(j, l)' /\ k < l => i < j
  <2> SUFFICES ASSUME NEW i \in 1 .. n + 1, NEW j \in 1 .. n + 1, NEW k \in 1 .. m + 1, NEW l \in 1 .. m + 1,
                      Stands(i, k)', Stands(j, l)', k < l
               PROVE  i < j
    OBVIOUS
  <2>1. i \in 1 .. n /\ k \in 1 .. m /\ Stands(i, k)
    <3>1. k # m + 1
      OBVIOUS
    <3> QED
      BY <1>8, <3>1
  <2>2. CASE j \in 1 .. n /\ l \in 1 .. m /\ Stands(j, l)
    BY <1>n, <2>1, <2>2 DEF RegisteredUpTo
  <2>3. CASE j = n + 1
    BY <1>4, <2>1, <2>3
  <2> QED
    BY <1>8, <2>2, <2>3
<1>14. edges' = {<<Steps[k].parent, Steps[k].part.id>> :
                   k \in {c \in ComponentSteps : c <= m + 1 /\ Steps[c].kind # "asset"}}
  <2> DEFINE Upto(x) == {c \in ComponentSteps : c <= x /\ Steps[c].kind # "asset"}
  <2>1. CASE Steps[m + 1].kind = "asset"
    <3>1. Upto(m + 1) = Upto(m)
      BY <1>3, <2>1
    <3> QED
      BY <2>1, <3>1 DEF RegisteredUpTo
  <2>2. CASE Steps[m + 1].kind # "asset"
    <3>1. Upto(m + 1) = Upto(m) \cup {m + 1}
      BY <1>3, <2>2
    <3>2. edges' = edges \cup {<<Steps[m + 1].parent, Steps[m + 1].part.id>>}
      BY <2>2
    <3>3. edges = {<<Steps[k].parent, Steps[k].part.id>> : k \in Upto(m)}
      BY DEF RegisteredUpTo
    <3> HIDE DEF Upto
    <3>4. edges' = {<<Steps[k].parent, Steps[k].part.id>> : k \in Upto(m + 1)}
      BY <3>1, <3>2, <3>3
    <3> QED
      BY <3>4 DEF Upto
  <2> QED
    BY <2>1, <2>2
<1>15. RegisteredUpTo(m + 1)'
  BY <1>1, <1>9, <1>10, <1>11, <1>12, <1>13, <1>14 DEF RegisteredUpTo
<1>16. ToSet(nodes) \subseteq ToSet(nodes)' /\ id \in ToSet(nodes)'
  <2>1. \A i \in 1 .. n : i \in 1 .. n + 1
    BY <1>4
  <2>2. n + 1 \in 1 .. n + 1
    BY <1>4
  <2> QED
    BY <1>4, <1>5, <2>1, <2>2 DEF ToSet
<1> QED
  BY <1>15, <1>16

LEMMA MapStepKeeps ==
  ASSUME EnergyInv, MapStep
  PROVE  EnergyInv'
<1> DEFINE step == Steps[next]
<1>1. /\ activity = "mapping" /\ is_validated /\ ~mapped /\ ~built /\ raised = NoError /\ IsWellFormed(yaml)
      /\ next \in Nat \ {0} /\ next <= Len(Steps)
      /\ UNCHANGED <<yaml, call, calls, is_validated, mapped, built, results, report>>
      /\ next' = next + 1
      /\ simulated' = simulated \cup (IF RegistersModels(step) THEN {step.part.id} ELSE {})
  BY DEF MapStep, EnergyInv, Stages, GoOn, Return, resultVars, Steps
<1>2. \/ MappingError(step) = NoError /\ Register(step) /\ activity' = activity /\ raised' = raised
      \/ activity' = "idle" /\ nodes' = nodes /\ edges' = edges
  BY DEF MapStep, GoOn, Return, Steps
<1> HIDE DEF step
<1>3. PICK m \in Nat : RegisteredUpTo(m) /\ m = next - 1
  BY <1>1 DEF EnergyInv, MappedUpTo
<1>4. m + 1 = next /\ m < Len(Steps) /\ Len(Steps) \in Nat /\ next \in DOMAIN Steps
  <2>1. InOrder(Steps)
    BY <1>1, OrderOfSteps
  <2> QED
    BY <1>1, <1>3, <2>1 DEF InOrder
<1>5. Steps' = Steps
  BY <1>1, KeepsSteps
<1>6. Stages' /\ EvaluatedInOrder' /\ RunsOnceMapped' /\ BuiltWhole'
  <2>1. activity' \in {"mapping", "idle"} /\ (activity' = "mapping" => raised' = NoError)
    BY <1>1, <1>2
  <2>2. Stages'
    BY <1>1, <2>1 DEF EnergyInv, Stages, Activities
  <2>3. EvaluatedInOrder' /\ RunsOnceMapped'
    BY <1>1, <2>1 DEF EvaluatedInOrder, RunsOnceMapped
  <2>4. BuiltWhole'
    BY <1>1 DEF EnergyInv, BuiltWhole
  <2> QED
    BY <2>2, <2>3, <2>4
<1>7. CASE activity' = "idle" /\ nodes' = nodes /\ edges' = edges
  <2>1. RegisteredUpTo(m)'
    BY <1>1, <1>3, <1>7, KeepsRegistered
  <2>2. MappedUpTo'
    BY <1>1, <1>4, <1>5, <1>7, <2>1 DEF MappedUpTo
  <2>3. SimulatesComponents'
    BY <1>1, <1>7 DEF SimulatesComponents
  <2> QED
    BY <1>6, <2>2, <2>3 DEF EnergyInv
<1>8. CASE MappingError(step) = NoError /\ Register(step) /\ activity' = activity /\ raised' = raised
  <2>1. step = Steps[m + 1]
    BY <1>4 DEF step
  <2>2. RegistersModels(step) => IsComponent(step)
    <3>1. ASSUME RegistersModels(step) PROVE Kept(step.part.models) # <<>> /\ IsConsumer(step)
      <4>1. DOMAIN <<>> = {}
        OBVIOUS
      <4> QED
        BY <3>1, <4>1 DEF RegistersModels
    <3> QED
      BY <3>1 DEF IsComponent, IsFiltered, IsConsumer
  <2>3. simulated \subseteq ToSet(nodes)
    BY <1>1 DEF EnergyInv, SimulatesComponents
  <2>4. CASE IsComponent(step)
    <3>1. m + 1 \in ComponentSteps
      BY <1>4, <2>1, <2>4 DEF ComponentSteps
    <3>2. /\ nodes' = Append(nodes, Steps[m + 1].part.id)
          /\ edges' = IF Steps[m + 1].kind = "asset" THEN edges
                      ELSE edges \cup {<<Steps[m + 1].parent, Steps[m + 1].part.id>>}
      BY <1>8, <2>1, <2>4 DEF Register
    <3>3. RegisteredUpTo(m + 1)' /\ ToSet(nodes) \subseteq ToSet(nodes)' /\ step.part.id \in ToSet(nodes)'
      BY <1>1, <1>3, <2>1, <3>1, <3>2, OneMore
    <3>4. SimulatesComponents'
      BY <1>1, <2>3, <3>3 DEF SimulatesComponents
    <3>5. MappedUpTo'
      BY <1>1, <1>3, <1>4, <1>8, <3>3 DEF MappedUpTo
    <3> QED
      BY <1>6, <3>4, <3>5 DEF EnergyInv
  <2>5. CASE ~IsComponent(step)
    <3>1. m + 1 \notin ComponentSteps
      BY <2>1, <2>5 DEF ComponentSteps
    <3>2. nodes' = nodes /\ edges' = edges
      BY <1>8, <2>5 DEF Register
    <3>3. RegisteredUpTo(m + 1)'
      BY <1>1, <1>3, <1>4, <3>1, <3>2, NothingMore
    <3>4. SimulatesComponents'
      BY <1>1, <2>2, <2>3, <2>5, <3>2 DEF SimulatesComponents
    <3>5. MappedUpTo'
      BY <1>1, <1>3, <1>4, <1>8, <3>3 DEF MappedUpTo
    <3> QED
      BY <1>6, <3>4, <3>5 DEF EnergyInv
  <2> QED
    BY <2>4, <2>5
<1> QED
  BY <1>2, <1>7, <1>8

LEMMA EndMappingKeeps ==
  ASSUME EnergyInv, EndMapping
  PROVE  EnergyInv'
<1>1. /\ activity = "mapping" /\ is_validated /\ ~mapped /\ ~built /\ raised = NoError /\ IsWellFormed(yaml)
      /\ next \in Nat /\ next > Len(Steps) /\ mapped' = TRUE
      /\ activity' \in {"idle", "building"} /\ raised' = raised
      /\ UNCHANGED <<yaml, is_validated, next, nodes, edges, simulated, built, results>>
  BY DEF EndMapping, EnergyInv, Stages, GoOn, AfterValidation, resultVars, Steps
<1>2. PICK m \in Nat : RegisteredUpTo(m) /\ m = next - 1
  BY <1>1 DEF EnergyInv, MappedUpTo
<1>3. m = Len(Steps)
  <2>1. Len(Steps) \in Nat
    BY <1>1, OrderOfSteps DEF InOrder
  <2> QED
    BY <1>1, <1>2, <2>1 DEF RegisteredUpTo
<1>4. MappedUpTo'
  <2>1. RegisteredUpTo(m)' /\ Steps' = Steps
    BY <1>1, <1>2, KeepsRegistered, KeepsSteps
  <2> QED
    BY <1>1, <1>3, <2>1 DEF MappedUpTo
<1>5. Stages'
  BY <1>1 DEF EnergyInv, Stages, Activities
<1>6. SimulatesComponents' /\ BuiltWhole' /\ EvaluatedInOrder' /\ RunsOnceMapped'
  BY <1>1 DEF EnergyInv, SimulatesComponents, BuiltWhole, EvaluatedInOrder, RunsOnceMapped, NoError
<1> QED
  BY <1>4, <1>5, <1>6 DEF EnergyInv

\* All edges of a model that is mapped have both their ends.
LEMMA EdgesOfMapped ==
  ASSUME IsWellFormed(yaml), RegisteredUpTo(Len(Steps))
  PROVE  \A e \in edges : CanAddEdge(e)
<1> SUFFICES ASSUME NEW e \in edges PROVE CanAddEdge(e)
  OBVIOUS
<1>1. PICK k \in ComponentSteps : Steps[k].kind # "asset" /\ e = <<Steps[k].parent, Steps[k].part.id>>
  BY DEF RegisteredUpTo
<1>2. \A c \in ComponentSteps : Steps[c].part.id \in ToSet(nodes)
  <2> SUFFICES ASSUME NEW c \in ComponentSteps PROVE Steps[c].part.id \in ToSet(nodes)
    OBVIOUS
  <2>1. c <= Len(Steps)
    BY Kinds DEF ComponentSteps
  <2>2. PICK i \in 1 .. Len(nodes) : Stands(i, c)
    BY <2>1 DEF RegisteredUpTo
  <2>3. nodes[i] \in ToSet(nodes)
    BY ListDomain DEF RegisteredUpTo
  <2> QED
    BY <2>2, <2>3 DEF Stands
<1>3. PICK p \in ComponentSteps : IsParent(Steps[p], Steps[k])
  BY <1>1, ParentFollows
<1> QED
  BY <1>1, <1>2, <1>3 DEF CanAddEdge, IsParent

\* When the mapping has raised, the last component that was registered names a
\* parent that was not.
LEMMA PartHasNoParent ==
  ASSUME IsWellFormed(yaml), NEW m \in Nat, RegisteredUpTo(m), m < Len(Steps),
         \A e \in edges : CanAddEdge(e)
  PROVE  nodes = <<>>
<1> DEFINE S == {k \in ComponentSteps : k <= m}
<1>1. IsList(nodes) /\ Len(nodes) \in Nat /\ DOMAIN nodes = 1 .. Len(nodes)
  BY ListDomain DEF RegisteredUpTo
<1>2. \A k \in ComponentSteps : k \in 1 .. Len(Steps) /\ Len(Steps) \in Nat
  BY Kinds DEF ComponentSteps
<1>3. CASE S = {}
  <2>1. \A i \in 1 .. Len(nodes) : FALSE
    <3> SUFFICES ASSUME NEW i \in 1 .. Len(nodes) PROVE FALSE
      OBVIOUS
    <3>1. PICK k \in 1 .. m : Stands(i, k)
      BY DEF RegisteredUpTo
    <3> QED
      BY <1>3, <3>1 DEF Stands
  <2>2. Len(nodes) = 0
    BY <1>1, <2>1
  <2> QED
    BY <1>1, <2>2, EmptySeq DEF IsList
<1>4. CASE S # {}
  <2>1. S \in SUBSET (0 .. m)
    BY <1>2
  <2>2. PICK k \in S : \A c \in S : c <= k
    <3> HIDE DEF S
    <3> QED
      BY <1>4, <2>1, Greatest
  <2>3. k \in ComponentSteps /\ k <= m /\ Steps[k].kind # "asset"
    <3>1. k \in DOMAIN Steps /\ k # Len(Steps)
      BY <1>2 DEF ComponentSteps
    <3> QED
      BY <3>1, Kinds
  <2>4. PICK p \in ComponentSteps : k < p /\ IsParent(Steps[p], Steps[k])
    BY <2>3, ParentFollows
  <2>5. ~(p <= m)
    BY <1>2, <2>2, <2>4
  <2>6. <<Steps[k].parent, Steps[k].part.id>> \in edges
    BY <2>3 DEF RegisteredUpTo
  <2>7. Steps[p].part.id \in ToSet(nodes)
    BY <2>4, <2>6 DEF CanAddEdge, IsParent
  <2>8. PICK i \in 1 .. Len(nodes) : Steps[p].part.id = nodes[i]
    BY <1>1, <2>7 DEF ToSet
  <2>9. PICK l \in 1 .. m : Stands(i, l)
    BY DEF RegisteredUpTo
  <2>10. Stands(i, p)
    BY <2>4, <2>8 DEF Stands
  <2>11. p = l
    BY <2>9, <2>10, StandsForOne
  <2> QED
    BY <2>5, <2>9, <2>11
<1> QED
  BY <1>3, <1>4

LEMMA BuildKeeps ==
  ASSUME EnergyInv, Build
  PROVE  EnergyInv'
<1>1. /\ activity = "building" /\ is_validated /\ raised = NoError /\ IsWellFormed(yaml)
      /\ UNCHANGED <<yaml, mapVars, results, report>>
      /\ \/ /\ built \/ \A e \in edges : CanAddEdge(e)
            /\ built' = TRUE /\ activity' \in {"simulating", "reporting"} /\ raised' = raised
         \/ /\ ~ \A e \in edges : CanAddEdge(e)
            /\ built' = built /\ activity' = "idle" /\ raised' = "ValueError"
  BY DEF Build, EnergyInv, Stages, GoOn, Return
<1> USE DEF mapVars
<1>2. PICK m \in Nat : RegisteredUpTo(m) /\ (mapped => m = Len(Steps)) /\ (~mapped => m < Len(Steps))
  BY <1>1 DEF EnergyInv, MappedUpTo
<1>3. mapped => \A e \in edges : CanAddEdge(e)
  BY <1>1, <1>2, EdgesOfMapped
<1>4. Stages'
  BY <1>1 DEF EnergyInv, Stages, Activities
<1>5. MappedUpTo' /\ SimulatesComponents'
  BY <1>1, KeepsMapped DEF EnergyInv
<1>6. BuiltWhole'
  <2>1. ~mapped /\ (\A e \in edges : CanAddEdge(e)) => nodes = <<>>
    BY <1>1, <1>2, PartHasNoParent
  <2> QED
    BY <1>1, <2>1 DEF EnergyInv, BuiltWhole
<1>7. EvaluatedInOrder'
  BY <1>1 DEF EvaluatedInOrder
<1>8. RunsOnceMapped'
  <2>1. CASE mapped
    BY <1>1, <1>3, <2>1, KeepsRuns DEF EnergyInv
  <2>2. CASE ~mapped
    BY <1>1, <2>2 DEF RunsOnceMapped
  <2> QED
    BY <2>1, <2>2
<1> QED
  BY <1>4, <1>5, <1>6, <1>7, <1>8 DEF EnergyInv

LEMMA SimulateKeeps ==
  ASSUME EnergyInv, Simulate
  PROVE  EnergyInv'
<1>1. /\ activity = "simulating" /\ is_validated /\ built /\ raised = NoError
      /\ UNCHANGED <<yaml, is_validated, mapped, nodes, edges, simulated, built, results>>
      /\ next' \in Nat \ {0}
      /\ \/ activity' = "evaluating" /\ raised' = raised /\ next' = 1
         \/ activity' = "idle" /\ ~(simulated \subseteq ToSet(nodes))
  BY DEF Simulate, EnergyInv, Stages, GoOn, Return, resultVars
<1>2. Stages'
  BY <1>1 DEF EnergyInv, Stages, Activities
<1>3. MappedUpTo' /\ SimulatesComponents'
  BY <1>1, KeepsMapped DEF EnergyInv
<1>4. BuiltWhole'
  BY <1>1 DEF EnergyInv, BuiltWhole
<1>5. EvaluatedInOrder'
  BY <1>1 DEF EvaluatedInOrder
<1>6. RunsOnceMapped'
  <2>1. CASE mapped
    <3>1. raised' = raised
      BY <1>1, <2>1 DEF EnergyInv, SimulatesComponents
    <3> QED
      BY <1>1, <3>1, KeepsRuns DEF EnergyInv
  <2>2. CASE ~mapped
    BY <1>1, <2>2 DEF RunsOnceMapped
  <2> QED
    BY <2>1, <2>2
<1> QED
  BY <1>2, <1>3, <1>4, <1>5, <1>6 DEF EnergyInv

\* The component whose turn it is has one step, which StepOf finds.
LEMMA StepOfTurn ==
  ASSUME EnergyInv, activity = "evaluating", next <= Len(nodes)
  PROVE  /\ mapped /\ IsWellFormed(yaml) /\ next \in 1 .. Len(nodes)
         /\ RegisteredUpTo(Len(Steps))
         /\ \E k \in ComponentSteps : Stands(next, k)
         /\ \A k \in ComponentSteps :
              Stands(next, k) => /\ StepOf(nodes[next]) = Steps[k]
                                 /\ \A kinds : Steps[k].kind \in kinds => Steps[k] \in StepsOf(kinds)
<1>1. is_validated /\ built /\ IsWellFormed(yaml) /\ next \in Nat \ {0}
  BY DEF EnergyInv, Stages
<1>2. PICK m \in Nat : RegisteredUpTo(m) /\ (mapped => m = Len(Steps))
  BY <1>1 DEF EnergyInv, MappedUpTo
<1>3. Len(nodes) \in Nat /\ IsList(nodes)
  BY <1>2, ListDomain DEF RegisteredUpTo
<1>4. next \in 1 .. Len(nodes)
  BY <1>1, <1>3
<1>5. mapped
  <2>1. ASSUME ~mapped PROVE FALSE
    <3>1. nodes = <<>>
      BY <1>1, <2>1 DEF EnergyInv, BuiltWhole
    <3> QED
      BY <1>1, <3>1, NoneListed
  <2> QED
    BY <2>1 DEF EnergyInv, Stages
<1>6. PICK l \in 1 .. m : Stands(next, l)
  BY <1>2, <1>4 DEF RegisteredUpTo
<1>7. l \in ComponentSteps
  BY <1>6 DEF Stands
<1> QED
  BY <1>1, <1>2, <1>3, <1>4, <1>5, <1>6, <1>7, StepFound

\* Only the results of the component whose turn it is are added.
LEMMA StoreKeeps ==
  ASSUME EnergyInv, activity = "evaluating", next <= Len(nodes),
         UNCHANGED <<yaml, activity, raised, is_validated, mapped, nodes, edges, simulated, built>>, next' = next + 1,
         DOMAIN results \subseteq DOMAIN results',
         \A k \in ComponentSteps : Stands(next, k) /\ IsConsumer(Steps[k]) => nodes[next] \in DOMAIN results'
  PROVE  EnergyInv'
<1>1. mapped /\ next \in Nat \ {0} /\ IsWellFormed(yaml)
  BY StepOfTurn DEF EnergyInv, Stages
<1>2. Stages'
  BY <1>1 DEF EnergyInv, Stages
<1>3. MappedUpTo' /\ SimulatesComponents'
  BY KeepsMapped DEF EnergyInv
<1>4. BuiltWhole' /\ RunsOnceMapped'
  BY <1>1, KeepsRuns DEF EnergyInv, BuiltWhole
<1>5. EvaluatedInOrder'
  <2>1. Steps' = Steps /\ ComponentSteps' = ComponentSteps
    BY KeepsSteps
  <2> SUFFICES ASSUME NEW i \in 1 .. Len(nodes), NEW k \in ComponentSteps,
                      i < next', Stands(i, k), IsConsumer(Steps[k])
               PROVE  nodes[i] \in DOMAIN results'
    BY <2>1 DEF EvaluatedInOrder, Stands, IsConsumer
  <2>2. i < next \/ i = next
    BY <1>1
  <2> QED
    BY <2>2 DEF EnergyInv, EvaluatedInOrder
<1> QED
  BY <1>2, <1>3, <1>4, <1>5 DEF EnergyInv

LEMMA Stored ==
  ASSUME NEW id, NEW r, Store(id, r)
  PROVE  DOMAIN results' = DOMAIN results \cup {id}
  BY DEF Store

LEMMA EvaluateConsumerKeeps ==
  ASSUME EnergyInv, EvaluateConsumer
  PROVE  EnergyInv'
<1>1. DOMAIN results' = DOMAIN results \cup {nodes[next]}
  BY Stored DEF EvaluateConsumer
<1> QED
  BY <1>1, StoreKeeps DEF EvaluateConsumer

LEMMA PassOverKeeps ==
  ASSUME EnergyInv, PassOver
  PROVE  EnergyInv'
<1>1. \A k \in ComponentSteps : ~(Stands(next, k) /\ IsConsumer(Steps[k]))
  BY StepOfTurn DEF PassOver, IsConsumer
<1> QED
  BY <1>1, StoreKeeps DEF PassOver, resultVars

\* What a generator set supplies has been evaluated when its turn has come.
LEMMA ChildrenFirst ==
  ASSUME EnergyInv, activity = "evaluating", next <= Len(nodes), StepOf(nodes[next]).kind = "generator"
  PROVE  Children(nodes[next]) \subseteq DOMAIN results
<1>1. /\ mapped /\ IsWellFormed(yaml) /\ next \in 1 .. Len(nodes) /\ RegisteredUpTo(Len(Steps))
  BY StepOfTurn
<1>2. PICK g \in ComponentSteps : Stands(next, g) /\ Steps[g].kind = "generator"
  BY StepOfTurn
<1> SUFFICES ASSUME NEW c \in Children(nodes[next]) PROVE c \in DOMAIN results
  OBVIOUS
<1>3. <<nodes[next], c>> \in edges
  <2>1. PICK e \in edges : e[1] = nodes[next] /\ c = e[2]
    BY DEF Children
  <2>2. PICK k \in ComponentSteps : e = <<Steps[k].parent, Steps[k].part.id>>
    BY <1>1 DEF RegisteredUpTo
  <2> QED
    BY <2>1, <2>2
<1>4. PICK k \in ComponentSteps : /\ k <= Len(Steps) /\ Steps[k].kind # "asset"
                                  /\ Steps[k].parent = nodes[next] /\ Steps[k].part.id = c
  BY <1>1, <1>3 DEF RegisteredUpTo
<1>5. PICK p \in ComponentSteps : k < p /\ IsParent(Steps[p], Steps[k])
  BY <1>1, <1>4, ParentFollows
<1>6. p = g
  <2>1. Stands(next, p)
    BY <1>4, <1>5 DEF Stands, IsParent
  <2> QED
    BY <1>1, <1>2, <2>1, StandsForOne
<1>7. Steps[k].kind = "electricity"
  <2>1. ParentKind[Steps[k].kind] = "generator"
    BY <1>2, <1>5, <1>6 DEF IsParent
  <2>2. Steps[k].kind \in {"electricity", "generator", "generator_fuel", "fuel", "emitter", "installation"}
    BY <1>1, <1>4, Kinds DEF ComponentSteps
  <2> QED
    BY <2>1, <2>2 DEF ParentKind
<1>8. PICK i \in 1 .. Len(nodes) : Stands(i, k)
  BY <1>1, <1>4 DEF RegisteredUpTo
<1>9. i < next
  <2>1. k \in 1 .. Len(Steps) /\ g \in 1 .. Len(Steps)
    BY <1>1, Kinds DEF ComponentSteps
  <2> QED
    BY <1>1, <1>2, <1>5, <1>6, <1>8, <2>1 DEF RegisteredUpTo
<1>10. nodes[i] \in DOMAIN results
  BY <1>7, <1>8, <1>9 DEF EnergyInv, EvaluatedInOrder, IsConsumer
<1> QED
  BY <1>4, <1>8, <1>10 DEF Stands

\* A call that returns leaves what is mapped and built.
LEMMA ReturnKeeps ==
  ASSUME EnergyInv, activity \in {"evaluating", "reporting"}, activity' = "idle",
         UNCHANGED <<yaml, is_validated, mapped, nodes, edges, simulated, built>>, next' \in Nat \ {0}, results' = results,
         mapped => RunsOnceMapped'
  PROVE  EnergyInv'
<1>1. is_validated
  BY DEF EnergyInv, Stages
<1>2. Stages'
  BY <1>1 DEF EnergyInv, Stages, Activities
<1>3. MappedUpTo' /\ SimulatesComponents'
  BY KeepsMapped DEF EnergyInv
<1>4. BuiltWhole' /\ EvaluatedInOrder' /\ RunsOnceMapped'
  BY DEF EnergyInv, BuiltWhole, EvaluatedInOrder, RunsOnceMapped
<1> QED
  BY <1>2, <1>3, <1>4 DEF EnergyInv

LEMMA EvaluateGeneratorSetKeeps ==
  ASSUME EnergyInv, EvaluateGeneratorSet
  PROVE  EnergyInv'
<1> DEFINE id == nodes[next]
<1>1. /\ activity = "evaluating" /\ next <= Len(nodes) /\ StepOf(id).kind = "generator" /\ next' = next + 1
      /\ UNCHANGED <<yaml, call, calls, is_validated, mapped, nodes, edges, simulated, built, report>>
      /\ next \in Nat
  BY DEF EvaluateGeneratorSet, GoOn, Return, EnergyInv, Stages
<1>2. Children(id) \subseteq DOMAIN results
  BY <1>1, ChildrenFirst
<1>3. \/ Store(id, GeneratorResult(StepOf(id).part, PowerRequirement(id))) /\ activity' = activity /\ raised' = raised
      \/ Children(id) = {} /\ activity' = "idle" /\ raised' = "EcalcError" /\ results' = results
  BY <1>2 DEF EvaluateGeneratorSet, GoOn, Return, NoError
<1>4. CASE Store(id, GeneratorResult(StepOf(id).part, PowerRequirement(id))) /\ activity' = activity /\ raised' = raised
  <2>1. DOMAIN results' = DOMAIN results \cup {id}
    BY <1>4, Stored
  <2> QED
    BY <1>1, <1>4, <2>1, StoreKeeps
<1>5. CASE Children(id) = {} /\ activity' = "idle" /\ raised' = "EcalcError" /\ results' = results
  <2>1. PICK k \in ComponentSteps : Stands(next, k) /\ Steps[k] \in StepsOf({"generator"})
    BY <1>1, StepOfTurn
  <2>2. Steps[k].part.id = id
    BY <2>1 DEF Stands
  <2>3. \A kinds : StepsOf(kinds)' = StepsOf(kinds)
    BY <1>1 DEF StepsOf, MappingSteps
  <2>4. \A x : Children(x)' = Children(x)
    BY <1>1 DEF Children
  <2>5. \E s \in StepsOf({"generator"}) : Children(s.part.id) = {}
    BY <1>5, <2>1, <2>2
  <2>6. RunsOnceMapped'
    BY <1>1, <1>5, <2>5 DEF RunsOnceMapped, StepsOf, MappingSteps, Children
  <2> QED
    BY <1>1, <1>5, <2>6, ReturnKeeps
<1> QED
  BY <1>3, <1>4, <1>5

LEMMA EndEvaluationKeeps ==
  ASSUME EnergyInv, EndEvaluation
  PROVE  EnergyInv'
<1>1. /\ activity = "evaluating" /\ activity' = "idle" /\ raised' = NoError
      /\ UNCHANGED <<yaml, mapVars, resultVars>>
  BY DEF EndEvaluation, Return
<1>2. next' \in Nat \ {0} /\ RunsOnceMapped'
  BY <1>1, KeepsRuns DEF EnergyInv, Stages, mapVars
<1> QED
  BY <1>1, <1>2, ReturnKeeps DEF mapVars, resultVars

\* What the report of an installation may raise.
LEMMA FirstErrorOf ==
  ASSUME NEW errors, IsList(errors)
  PROVE  FirstError(errors) = NoError \/ \E i \in 1 .. Len(errors) : FirstError(errors) = errors[i]
<1> DEFINE I == {i \in 1 .. Len(errors) : errors[i] # NoError}
           first == IF I # {} THEN Min(I) ELSE 0
<1>1. Len(errors) \in Nat
  BY ListDomain
<1>2. I # {} => Min(I) \in I
  <2>1. I \in SUBSET Nat
    BY <1>1
  <2> HIDE DEF I
  <2>2. ASSUME I # {} PROVE \E x \in I : \A y \in I : x <= y
    BY <2>1, <2>2, LeastMember
  <2>3. ASSUME I # {} PROVE (CHOOSE x \in I : \A y \in I : x <= y) \in I
    BY <2>2, <2>3
  <2> QED
    BY <2>3 DEF Min
<1>3. FirstError(errors) = IF first = 0 THEN NoError ELSE errors[first]
  BY DEF FirstError, SelectInSeq
<1>4. first = 0 \/ first \in 1 .. Len(errors)
  BY <1>2
<1> HIDE DEF first
<1> QED
  BY <1>3, <1>4

LEMMA ReportKeeps ==
  ASSUME EnergyInv, Report
  PROVE  EnergyInv'
<1> DEFINE error == FirstError(ReportErrors)
<1>1. /\ activity = "reporting" /\ activity' = "idle" /\ raised' = error
      /\ UNCHANGED <<yaml, mapVars, built, results>>
  BY DEF Report, Return
<1>2. is_validated /\ IsWellFormed(yaml) /\ next' \in Nat \ {0}
  BY <1>1 DEF EnergyInv, Stages, mapVars
<1>3. ASSUME mapped PROVE RunsOnceMapped'
  <2> DEFINE all == yaml.installations
             errors == [i \in DOMAIN all |-> ReportError(all[i])]
  <2>1. RegisteredUpTo(Len(Steps))
    BY <1>2, <1>3 DEF EnergyInv, MappedUpTo
  <2>2. IsList(errors) /\ Len(errors) = Len(all) /\ DOMAIN all = 1 .. Len(all)
    <3>1. errors = [k \in DOMAIN all |-> errors[k]] /\ IsList(all)
      BY <1>2 DEF IsWellFormed
    <3> HIDE DEF errors, all
    <3> QED
      BY <3>1, ListAlong
  <2>3. error = FirstError(errors)
    BY <1>3 DEF ReportErrors
  <2>4. error = NoError \/ \E i \in DOMAIN all : error = ReportError(all[i])
    <3>1. FirstError(errors) = NoError \/ \E i \in 1 .. Len(errors) : FirstError(errors) = errors[i]
      <4> HIDE DEF errors, all
      <4> QED
        BY <2>2, FirstErrorOf
    <3>2. \A i \in DOMAIN all : errors[i] = ReportError(all[i])
      OBVIOUS
    <3> HIDE DEF errors, all, error
    <3> QED
      BY <2>2, <2>3, <3>1, <3>2
  <2> HIDE DEF error
  <2>5. CASE error = NoError
    BY <1>1, <2>5 DEF RunsOnceMapped, NoError
  <2>6. ASSUME NEW i \in DOMAIN all, error = ReportError(all[i]) PROVE RunsOnceMapped'
    <3>1. error \in {NoError, "AttributeError", "AssertionError"}
          /\ (error = "AssertionError" => Children(all[i].id) = {})
      BY <2>6 DEF ReportError, NoError
    <3>2. \E s \in StepsOf({"installation"}) : s.part.id = all[i].id
      <4>1. all[i] \in ToSet(yaml.installations)
        BY DEF ToSet
      <4>2. Step("installation", all[i], Asset, <<>>) \in ToSet(Steps)
        BY <1>2, <4>1, StepsInOrder DEF Steps, MappingSteps
      <4>3. PICK k \in DOMAIN Steps : Steps[k] = Step("installation", all[i], Asset, <<>>)
        BY <4>2 DEF ToSet
      <4>4. Steps[k].kind = "installation" /\ Steps[k].part.id = all[i].id
        BY <4>3 DEF Step
      <4>5. k \in ComponentSteps /\ k <= Len(Steps)
        BY <1>2, <4>4, Kinds DEF ComponentSteps, IsComponent, IsFiltered, IsConsumer
      <4>6. PICK n \in 1 .. Len(nodes) : Stands(n, k)
        BY <2>1, <4>5 DEF RegisteredUpTo
      <4>7. Steps[k] \in StepsOf({"installation"})
        BY <1>2, <2>1, <4>4, <4>6, StepFound DEF RegisteredUpTo
      <4> QED
        BY <4>4, <4>7
    <3>3. error = "AssertionError" => \E s \in StepsOf({"installation"}) : Children(s.part.id) = {}
      BY <3>1, <3>2
    <3>4. UNCHANGED <<yaml, nodes, edges, mapped>>
      BY <1>1 DEF mapVars
    <3> QED
      BY <1>1, <3>1, <3>3, <3>4 DEF RunsOnceMapped, StepsOf, MappingSteps, Children, NoError
  <2> QED
    BY <2>4, <2>5, <2>6
<1> QED
  BY <1>1, <1>2, <1>3, ReturnKeeps DEF mapVars

(***************************************************************************)
(* The invariant holds of a model that has not been called, and every call  *)
(* keeps it.                                                                *)
(***************************************************************************)
LEMMA EnergyStarts ==
  ASSUME InitEnergyModel
  PROVE  EnergyInv
<1>1. DOMAIN <<>> = {}
  OBVIOUS
<1>2. /\ activity = "idle" /\ raised = NoError /\ is_validated = FALSE /\ mapped = FALSE /\ next = 1
      /\ nodes = <<>> /\ edges = {} /\ simulated = {} /\ built = FALSE /\ DOMAIN results = {}
  BY <1>1 DEF InitEnergyModel
<1>3. Stages
  <2>1. next \in Nat \ {0} /\ is_validated \in BOOLEAN /\ mapped \in BOOLEAN /\ built \in BOOLEAN
    <3>1. next \in Nat \ {0}
      BY <1>2
    <3>2. is_validated \in BOOLEAN /\ mapped \in BOOLEAN /\ built \in BOOLEAN
      BY <1>2, Zenon
    <3> QED
      BY <3>1, <3>2
  <2>2. activity = "idle" /\ ~is_validated
    BY <1>2
  <2> QED
    BY <1>2, <2>1, <2>2 DEF Stages, Activities
<1>4. MappedUpTo /\ SimulatesComponents /\ BuiltWhole /\ EvaluatedInOrder /\ RunsOnceMapped
  BY <1>2 DEF MappedUpTo, SimulatesComponents, BuiltWhole, EvaluatedInOrder, RunsOnceMapped
<1> QED
  BY <1>3, <1>4 DEF EnergyInv

LEMMA EnergyKeeps ==
  ASSUME Schema, EnergyInv, NextEnergyModel
  PROVE  EnergyInv' /\ yaml' = yaml
<1>1. ASSUME NEW c \in {VALIDATE, EVALUATE, REPORT}, Call(c) PROVE EnergyInv' /\ yaml' = yaml
  BY <1>1, CallKeeps DEF Call
<1>2. CASE Check
  BY <1>2, CheckKeeps DEF Check, GoOn, Return
<1>3. CASE ResolveVariables
  BY <1>3, ResolveVariablesKeeps DEF ResolveVariables
<1>4. CASE EndVariables
  BY <1>4, EndVariablesKeeps DEF EndVariables, GoOn, Return
<1>5. CASE MapStep
  BY <1>5, MapStepKeeps DEF MapStep, GoOn, Return
<1>6. CASE EndMapping
  BY <1>6, EndMappingKeeps DEF EndMapping, GoOn
<1>7. CASE Build
  BY <1>7, BuildKeeps DEF Build, GoOn, Return
<1>8. CASE Simulate
  BY <1>8, SimulateKeeps DEF Simulate, GoOn, Return
<1>9. CASE EvaluateConsumer
  BY <1>9, EvaluateConsumerKeeps DEF EvaluateConsumer
<1>10. CASE EvaluateGeneratorSet
  BY <1>10, EvaluateGeneratorSetKeeps DEF EvaluateGeneratorSet, GoOn, Return
<1>11. CASE PassOver
  BY <1>11, PassOverKeeps DEF PassOver
<1>12. CASE EndEvaluation
  BY <1>12, EndEvaluationKeeps DEF EndEvaluation, Return
<1>13. CASE Report
  BY <1>13, ReportKeeps DEF Report, Return
<1> QED
  BY <1>1, <1>2, <1>3, <1>4, <1>5, <1>6, <1>7, <1>8, <1>9, <1>10, <1>11, <1>12, <1>13 DEF NextEnergyModel

=============================================================================
