------------------------- MODULE BlockContentProofs -------------------------
(***************************************************************************)
(* Proofs about BlockContent, for texts, edits and faults of any number.   *)
(***************************************************************************)
EXTENDS BlockContent, SequenceTheorems, WellFoundedInduction, TLAPS
-----------------------------------------------------------------------------
(* Numbers and sequences.                                                  *)

LEMMA Least ==
    ASSUME NEW T, T \subseteq Nat, T # {}
    PROVE  \E x \in T : \A y \in T : x <= y
  <1> DEFINE below == {ss \in Nat \X Nat : ss[1] < ss[2]}
  <1>1. IsWellFoundedOn(below, Nat)
    BY NatLessThanWellFounded, Zenon DEF OpToRel
  <1>2. \E x \in T : \A y \in T : ~ (<<y, x>> \in below)
    <2> HIDE DEF below
    <2> QED
      BY <1>1, WFMin
  <1>3. \A x, y \in Nat : y < x => <<y, x>> \in below
    OBVIOUS
  <1>4. \A x, y \in Nat : ~(y < x) => x <= y
    OBVIOUS
  <1> HIDE DEF below
  <1> QED
    BY <1>2, <1>3, <1>4

LEMMA MinIsLeast ==
    ASSUME NEW T, T \subseteq Nat, T # {}
    PROVE  Min(T) \in T /\ \A y \in T : Min(T) <= y
  BY Least DEF Min

LEMMA MaxIsLargest ==
    ASSUME NEW N \in Nat, NEW T \in SUBSET (0..N), T # {}
    PROVE  Max(T) \in T /\ \A y \in T : Max(T) >= y
  <1>1. PICK U : U = {N - k : k \in T}
    OBVIOUS
  <1>2. U \subseteq Nat /\ U # {}
    <2>1. \A k \in T : N - k \in Nat
      OBVIOUS
    <2>2. PICK k \in T : TRUE
      OBVIOUS
    <2>3. N - k \in U
      BY <1>1
    <2> QED
      BY <1>1, <2>1, <2>3
  <1>3. PICK u \in U : \A v \in U : u <= v
    BY <1>2, Least
  <1>4. PICK m \in T : u = N - m
    BY <1>1, <1>3
  <1>5. \A k \in T : m >= k
    <2> SUFFICES ASSUME NEW k \in T PROVE m >= k
      OBVIOUS
    <2>1. N - m <= N - k
      BY <1>1, <1>3, <1>4
    <2> QED
      BY <2>1
  <1> QED
    BY <1>5 DEF Max

\* What is flattened up to each of n sequences.
LEMMA FlattenDefined ==
    ASSUME NEW S, NEW seqs \in Seq(Seq(S)), NEW n \in Nat, n <= Len(seqs)
    PROVE  \E f : f = [i \in 1..n |-> IF i = 1 THEN seqs[i] ELSE f[i-1] \o seqs[i]]
  <1> DEFINE Good(m) == \E f : f = [i \in 1..m |-> IF i = 1 THEN seqs[i] ELSE f[i-1] \o seqs[i]]
             Bad == {m \in Nat : ~ Good(m)}
  <1>1. SUFFICES Bad = {}
    OBVIOUS
  <1>2. SUFFICES ASSUME Bad # {} PROVE FALSE
    OBVIOUS
  <1>3. PICK m \in Bad : \A k \in Bad : m <= k
    <2>1. Bad \subseteq Nat
      OBVIOUS
    <2> HIDE DEF Bad
    <2> QED
      BY <1>2, <2>1, Least
  <1>4. m # 0
    <2>1. Good(0)
      <3> DEFINE e == [i \in 1..0 |-> seqs[i]]
      <3>1. e = [i \in 1..0 |-> IF i = 1 THEN seqs[i] ELSE e[i-1] \o seqs[i]]
        OBVIOUS
      <3> QED
        BY <3>1
    <2> QED
      BY <2>1
  <1>5. Good(m - 1)
    <2>1. m - 1 \in Nat /\ ~ (m <= m - 1)
      BY <1>4
    <2> QED
      BY <1>3, <2>1
  <1>6. PICK f : f = [i \in 1..(m-1) |-> IF i = 1 THEN seqs[i] ELSE f[i-1] \o seqs[i]]
    BY <1>5
  <1> DEFINE h == [i \in 1..m |-> IF i = 1 THEN seqs[i] ELSE f[i-1] \o seqs[i]]
  <1>7. \A i \in 1..(m-1) : h[i] = f[i]
    <2> SUFFICES ASSUME NEW i \in 1..(m-1) PROVE h[i] = f[i]
      OBVIOUS
    <2>1. i \in 1..m /\ h[i] = IF i = 1 THEN seqs[i] ELSE f[i-1] \o seqs[i]
      OBVIOUS
    <2>2. f[i] = IF i = 1 THEN seqs[i] ELSE f[i-1] \o seqs[i]
      <3> HIDE DEF h
      <3> QED
        BY <1>6
    <2> QED
      BY <2>1, <2>2
  <1>8. h = [i \in 1..m |-> IF i = 1 THEN seqs[i] ELSE h[i-1] \o seqs[i]]
    <2>1. \A i \in 1..m : i # 1 => f[i-1] = h[i-1]
      <3> SUFFICES ASSUME NEW i \in 1..m, i # 1 PROVE f[i-1] = h[i-1]
        OBVIOUS
      <3>1. i - 1 \in 1..(m-1)
        OBVIOUS
      <3> HIDE DEF h
      <3> QED
        BY <1>7, <3>1
    <2>2. \A i \in 1..m : h[i] = IF i = 1 THEN seqs[i] ELSE h[i-1] \o seqs[i]
      <3> SUFFICES ASSUME NEW i \in 1..m PROVE h[i] = IF i = 1 THEN seqs[i] ELSE h[i-1] \o seqs[i]
        OBVIOUS
      <3>1. h[i] = IF i = 1 THEN seqs[i] ELSE f[i-1] \o seqs[i]
        OBVIOUS
      <3> HIDE DEF h
      <3> QED
        BY <2>1, <3>1
    <2>3. h = [i \in 1..m |-> h[i]]
      OBVIOUS
    <2> HIDE DEF h
    <2> QED
      BY <2>2, <2>3
  <1> QED
    <2> HIDE DEF h
    <2>1. Good(m)
      BY <1>8
    <2> QED
      BY <2>1

LEMMA FlattenSteps ==
    ASSUME NEW S, NEW seqs \in Seq(Seq(S)), Len(seqs) > 0
    PROVE  \E f : /\ FlattenSeq(seqs) = f[Len(seqs)]
                  /\ f[1] = seqs[1]
                  /\ \A i \in 2..Len(seqs) : f[i] = f[i-1] \o seqs[i]
  <1> DEFINE f0 == CHOOSE f : f = [i \in 1..Len(seqs) |-> IF i = 1 THEN seqs[i] ELSE f[i-1] \o seqs[i]]
  <1>1. f0 = [i \in 1..Len(seqs) |-> IF i = 1 THEN seqs[i] ELSE f0[i-1] \o seqs[i]]
    <2>1. \E f : f = [i \in 1..Len(seqs) |-> IF i = 1 THEN seqs[i] ELSE f[i-1] \o seqs[i]]
      <3>1. Len(seqs) \in Nat /\ Len(seqs) <= Len(seqs)
        OBVIOUS
      <3> QED
        BY <3>1, FlattenDefined, Zenon
    <2> QED
      BY <2>1, Zenon
  <1>2. FlattenSeq(seqs) = f0[Len(seqs)]
    BY DEF FlattenSeq
  <1>3. /\ f0[1] = seqs[1]
        /\ \A i \in 2..Len(seqs) : f0[i] = f0[i-1] \o seqs[i]
    <2> HIDE DEF f0
    <2>1. \A i \in 1..Len(seqs) : f0[i] = IF i = 1 THEN seqs[i] ELSE f0[i-1] \o seqs[i]
      BY <1>1, Zenon
    <2>2. 1 \in 1..Len(seqs) /\ \A i \in 2..Len(seqs) : i \in 1..Len(seqs) /\ i # 1
      OBVIOUS
    <2> QED
      BY <2>1, <2>2, Zenon
  <1> QED
    <2> HIDE DEF f0
    <2> QED
      BY <1>2, <1>3

\* The texts put together hold what each of them holds.
LEMMA FlattenHolds ==
    ASSUME NEW S, NEW seqs \in Seq(Seq(S))
    PROVE  /\ FlattenSeq(seqs) \in Seq(S)
           /\ Range(FlattenSeq(seqs)) = UNION {Range(seqs[i]) : i \in DOMAIN seqs}
  <1>1. CASE Len(seqs) = 0
    <2>1. seqs = <<>>
      BY <1>1, EmptySeq
    <2>2. FlattenSeq(seqs) = <<>>
      BY <1>1, <2>1 DEF FlattenSeq
    <2>3. DOMAIN <<>> = {} /\ <<>> \in Seq(S) /\ Range(<<>>) = {}
      BY DEF Range
    <2> QED
      BY <2>1, <2>2, <2>3
  <1>2. CASE Len(seqs) > 0
    <2>1. PICK f : /\ FlattenSeq(seqs) = f[Len(seqs)]
                   /\ f[1] = seqs[1]
                   /\ \A i \in 2..Len(seqs) : f[i] = f[i-1] \o seqs[i]
      BY <1>2, FlattenSteps
    <2> DEFINE Good(m) == f[m] \in Seq(S) /\ Range(f[m]) = UNION {Range(seqs[i]) : i \in 1..m}
               Bad == {m \in 1..Len(seqs) : ~ Good(m)}
    <2>2. Bad = {}
      <3> SUFFICES ASSUME Bad # {} PROVE FALSE
        OBVIOUS
      <3>1. Bad \subseteq Nat
        OBVIOUS
      <3>2. PICK m \in Bad : \A k \in Bad : m <= k
        <4> HIDE DEF Bad
        <4> QED
          BY <3>1, Least
      <3>3. m # 1
        <4>1. Range(seqs[1]) = UNION {Range(seqs[i]) : i \in 1..1}
          OBVIOUS
        <4>2. Good(1)
          BY <1>2, <2>1, <4>1
        <4> QED
          BY <4>2
      <3>4. Good(m - 1)
        <4>1. m - 1 \in 1..Len(seqs) /\ ~ (m <= m - 1)
          BY <3>3
        <4> QED
          BY <3>2, <4>1
      <3>5. f[m] = f[m-1] \o seqs[m] /\ seqs[m] \in Seq(S)
        <4>1. m \in 2..Len(seqs)
          BY <3>3
        <4>2. seqs[m] \in Seq(S)
          BY <4>1
        <4> QED
          BY <2>1, <4>1, <4>2
      <3>6. f[m] \in Seq(S) /\ Range(f[m]) = Range(f[m-1]) \cup Range(seqs[m])
        <4>1. f[m-1] \in Seq(S)
          BY <3>4
        <4> QED
          BY <4>1, <3>5, RangeConcatenation, ConcatProperties
      <3>7. UNION {Range(seqs[i]) : i \in 1..m} = (UNION {Range(seqs[i]) : i \in 1..(m-1)}) \cup Range(seqs[m])
        <4>1. m \in Nat /\ m # 0
          OBVIOUS
        <4>2. \A i : i \in 1..m <=> i \in 1..(m-1) \/ i = m
          BY <4>1
        <4> QED
          BY <4>2
      <3>8. Good(m)
        BY <3>4, <3>6, <3>7
      <3> QED
        BY <3>8
    <2>3. Good(Len(seqs))
      <3>1. Len(seqs) \in 1..Len(seqs)
        BY <1>2
      <3> QED
        BY <2>2, <3>1
    <2>4. DOMAIN seqs = 1..Len(seqs)
      OBVIOUS
    <2> QED
      BY <2>1, <2>3, <2>4
  <1> QED
    BY <1>1, <1>2

LEMMA ConcatInjective ==
    ASSUME NEW S, NEW s \in Seq(S), NEW t \in Seq(S),
           IsInjective(s), IsInjective(t), Range(s) \cap Range(t) = {}
    PROVE  IsInjective(s \o t)
  <1> SUFFICES ASSUME NEW a \in DOMAIN (s \o t), NEW b \in DOMAIN (s \o t), (s \o t)[a] = (s \o t)[b]
               PROVE  a = b
    BY DEF IsInjective
  <1>1. /\ Len(s) \in Nat /\ Len(t) \in Nat
        /\ DOMAIN s = 1..Len(s) /\ DOMAIN t = 1..Len(t)
        /\ a \in 1..(Len(s) + Len(t)) /\ b \in 1..(Len(s) + Len(t))
        /\ (s \o t)[a] = IF a <= Len(s) THEN s[a] ELSE t[a - Len(s)]
        /\ (s \o t)[b] = IF b <= Len(s) THEN s[b] ELSE t[b - Len(s)]
    <2>1. DOMAIN (s \o t) = 1..(Len(s) + Len(t))
      BY ConcatProperties, LenProperties
    <2> QED
      BY <2>1, ConcatProperties, LenProperties
  <1>2. /\ \A i \in 1..Len(s), j \in 1..Len(t) : s[i] # t[j]
        /\ \A i, j \in 1..Len(s) : s[i] = s[j] => i = j
        /\ \A i, j \in 1..Len(t) : t[i] = t[j] => i = j
    <2>1. DOMAIN s = 1..Len(s) /\ DOMAIN t = 1..Len(t)
      BY <1>1
    <2>2. \A i \in 1..Len(s), j \in 1..Len(t) : s[i] # t[j]
      <3>1. (\A i \in 1..Len(s) : s[i] \in Range(s)) /\ (\A j \in 1..Len(t) : t[j] \in Range(t))
        BY <2>1 DEF Range
      <3> QED
        BY <3>1
    <2> QED
      BY <2>1, <2>2, Zenon DEF IsInjective
  <1> DEFINE r == s \o t
  <1>3. r[a] = r[b]
    OBVIOUS
  <1>4. /\ r[a] = IF a <= Len(s) THEN s[a] ELSE t[a - Len(s)]
        /\ r[b] = IF b <= Len(s) THEN s[b] ELSE t[b - Len(s)]
    BY <1>1
  <1>5. PICK n \in Nat, m \in Nat : n = Len(s) /\ m = Len(t)
    BY <1>1
  <1>6. a \in 1..(n + m) /\ b \in 1..(n + m)
    BY <1>1, <1>5
  <1> HIDE DEF r
  <1>7. CASE a <= n /\ b <= n
    BY <1>2, <1>3, <1>4, <1>5, <1>6, <1>7
  <1>8. CASE a > n /\ b > n
    <2>1. a - n \in 1..m /\ b - n \in 1..m
      BY <1>6, <1>8
    <2>2. a - n = b - n
      BY <1>2, <1>3, <1>4, <1>5, <1>6, <1>8, <2>1
    <2> QED
      BY <1>6, <2>2
  <1>9. CASE a <= n /\ b > n
    <2>1. a \in 1..n /\ b - n \in 1..m
      BY <1>6, <1>9
    <2> QED
      BY <1>2, <1>3, <1>4, <1>5, <1>6, <1>9, <2>1
  <1>10. CASE a > n /\ b <= n
    <2>1. b \in 1..n /\ a - n \in 1..m
      BY <1>6, <1>10
    <2> QED
      BY <1>2, <1>3, <1>4, <1>5, <1>6, <1>10, <2>1
  <1> QED
    BY <1>6, <1>7, <1>8, <1>9, <1>10

LEMMA FlattenInjective ==
    ASSUME NEW S, NEW seqs \in Seq(Seq(S)),
           \A i \in DOMAIN seqs : IsInjective(seqs[i]),
           \A i, j \in DOMAIN seqs : i # j => Range(seqs[i]) \cap Range(seqs[j]) = {}
    PROVE  IsInjective(FlattenSeq(seqs))
  <1>1. CASE Len(seqs) = 0
    <2>1. seqs = <<>>
      BY <1>1, EmptySeq
    <2>2. FlattenSeq(seqs) = <<>>
      BY <1>1, <2>1 DEF FlattenSeq
    <2> QED
      BY <2>2 DEF IsInjective
  <1>2. CASE Len(seqs) > 0
    <2>1. PICK f : /\ FlattenSeq(seqs) = f[Len(seqs)]
                   /\ f[1] = seqs[1]
                   /\ \A i \in 2..Len(seqs) : f[i] = f[i-1] \o seqs[i]
      BY <1>2, FlattenSteps
    <2> DEFINE Good(m) == /\ f[m] \in Seq(S)
                          /\ Range(f[m]) = UNION {Range(seqs[i]) : i \in 1..m}
                          /\ IsInjective(f[m])
               Bad == {m \in 1..Len(seqs) : ~ Good(m)}
    <2>0. DOMAIN seqs = 1..Len(seqs) /\ \A i \in 1..Len(seqs) : seqs[i] \in Seq(S)
      OBVIOUS
    <2>2. Bad = {}
      <3> SUFFICES ASSUME Bad # {} PROVE FALSE
        OBVIOUS
      <3>1. Bad \subseteq Nat
        OBVIOUS
      <3>2. PICK m \in Bad : \A k \in Bad : m <= k
        <4> HIDE DEF Bad
        <4> QED
          BY <3>1, Least
      <3>3. m # 1
        <4>1. Range(seqs[1]) = UNION {Range(seqs[i]) : i \in 1..1}
          OBVIOUS
        <4>2. 1 \in 1..Len(seqs)
          BY <1>2
        <4>3. Good(1)
          BY <2>0, <2>1, <4>1, <4>2
        <4> QED
          BY <4>3
      <3>4. Good(m - 1)
        <4>1. m - 1 \in 1..Len(seqs) /\ ~ (m <= m - 1)
          BY <3>3
        <4> QED
          BY <3>2, <4>1
      <3>5. m \in 1..Len(seqs) /\ f[m] = f[m-1] \o seqs[m] /\ seqs[m] \in Seq(S)
        <4>1. m \in 2..Len(seqs) /\ m \in 1..Len(seqs)
          BY <3>3
        <4> QED
          BY <2>0, <2>1, <4>1
      <3>6. f[m] \in Seq(S) /\ Range(f[m]) = Range(f[m-1]) \cup Range(seqs[m])
        <4>1. f[m-1] \in Seq(S)
          BY <3>4
        <4> QED
          BY <4>1, <3>5, RangeConcatenation, ConcatProperties
      <3>7. UNION {Range(seqs[i]) : i \in 1..m} = (UNION {Range(seqs[i]) : i \in 1..(m-1)}) \cup Range(seqs[m])
        <4>1. m \in Nat /\ m # 0
          OBVIOUS
        <4>2. \A i : i \in 1..m <=> i \in 1..(m-1) \/ i = m
          BY <4>1
        <4> QED
          BY <4>2
      <3>8. Range(f[m-1]) \cap Range(seqs[m]) = {}
        <4>1. \A i \in 1..(m-1) : i \in DOMAIN seqs /\ m \in DOMAIN seqs /\ i # m
          BY <2>0, <3>5
        <4>2. \A i \in 1..(m-1) : Range(seqs[i]) \cap Range(seqs[m]) = {}
          BY <4>1
        <4> HIDE DEF Bad
        <4> QED
          BY <3>4, <4>2
      <3>9. IsInjective(f[m])
        <4>1. f[m-1] \in Seq(S) /\ IsInjective(f[m-1]) /\ IsInjective(seqs[m])
          BY <3>4, <3>5, <2>0
        <4> QED
          BY <4>1, <3>5, <3>8, ConcatInjective
      <3>10. Good(m)
        BY <3>4, <3>6, <3>7, <3>9
      <3> QED
        BY <3>10
    <2>3. Good(Len(seqs))
      <3>1. Len(seqs) \in 1..Len(seqs)
        BY <1>2
      <3> QED
        BY <2>2, <3>1
    <2> QED
      BY <2>1, <2>3
  <1> QED
    BY <1>1, <1>2

LEMMA SingleText == \A a \in Nat : <<a>> \in Texts /\ Range(<<a>>) = {a} /\ IsInjective(<<a>>)
  BY DEF Texts, Range, IsInjective

LEMMA NoText == <<>> \in Texts /\ Range(<<>>) = {} /\ IsInjective(<<>>)
  BY DEF Texts, Range, IsInjective

LEMMA TextRange == \A s \in Texts : Range(s) \in SUBSET Nat /\ Len(s) \in Nat /\ DOMAIN s = 1..Len(s)
                       /\ \A i \in DOMAIN s : s[i] \in Nat /\ s[i] \in Range(s)
  BY DEF Texts, Range

LEMMA WeaveHolds ==
    ASSUME NEW s \in Texts, NEW kept \in SUBSET DOMAIN s, NEW before \in [1..(Len(s) + 1) -> Texts]
    PROVE  /\ Weave(s, kept, before) \in Texts
           /\ Range(Weave(s, kept, before)) =
                  {s[i] : i \in kept} \cup UNION {Range(before[i]) : i \in 1..(Len(s) + 1)}
  <1> DEFINE own(i) == IF i \in kept THEN <<s[i]>> ELSE <<>>
             pieces == [i \in 1..(Len(s) + 1) |-> before[i] \o own(i)]
  <1>1. \A i \in 1..(Len(s) + 1) :
           own(i) \in Texts /\ Range(own(i)) = IF i \in kept THEN {s[i]} ELSE {}
    BY SingleText, NoText, TextRange
  <1>2. \A i \in 1..(Len(s) + 1) :
           pieces[i] \in Texts /\ Range(pieces[i]) = Range(before[i]) \cup Range(own(i))
    <2> SUFFICES ASSUME NEW i \in 1..(Len(s) + 1)
                 PROVE  pieces[i] \in Texts /\ Range(pieces[i]) = Range(before[i]) \cup Range(own(i))
      OBVIOUS
    <2> HIDE DEF own
    <2>1. before[i] \in Seq(Nat) /\ own(i) \in Seq(Nat) /\ pieces[i] = before[i] \o own(i)
      BY <1>1 DEF Texts
    <2> HIDE DEF pieces
    <2> QED
      BY <2>1, RangeConcatenation, ConcatProperties DEF Texts
  <1>3. pieces \in Seq(Seq(Nat)) /\ DOMAIN pieces = 1..(Len(s) + 1)
    <2>1. Len(s) + 1 \in Nat
      BY TextRange
    <2>2. DOMAIN pieces = 1..(Len(s) + 1) /\ pieces = [i \in 1..(Len(s) + 1) |-> pieces[i]]
      OBVIOUS
    <2> HIDE DEF pieces
    <2>3. pieces \in [1..(Len(s) + 1) -> Seq(Nat)]
      BY <1>2, <2>2, Zenon DEF Texts
    <2> QED
      BY <2>1, <2>2, <2>3, SeqDef
  <1>4. Weave(s, kept, before) = FlattenSeq(pieces)
    BY DEF Weave
  <1>5. UNION {Range(pieces[i]) : i \in DOMAIN pieces} =
            {s[i] : i \in kept} \cup UNION {Range(before[i]) : i \in 1..(Len(s) + 1)}
    <2>1. kept \subseteq 1..(Len(s) + 1)
      BY TextRange
    <2> HIDE DEF pieces, own
    <2>2. \A a : a \in UNION {Range(pieces[i]) : i \in DOMAIN pieces} <=>
                 \E i \in 1..(Len(s) + 1) : a \in Range(before[i]) \/ a \in Range(own(i))
      BY <1>2, <1>3
    <2>3. \A a : (\E i \in 1..(Len(s) + 1) : a \in Range(own(i))) <=> a \in {s[i] : i \in kept}
      BY <1>1, <2>1
    <2> QED
      BY <2>2, <2>3
  <1> HIDE DEF pieces, own
  <1> QED
    BY <1>3, <1>4, <1>5, FlattenHolds DEF Texts

LEMMA WeaveInjective ==
    ASSUME NEW s \in Texts, NEW kept \in SUBSET DOMAIN s, NEW before \in [1..(Len(s) + 1) -> Texts],
           IsInjective(s),
           \A i \in 1..(Len(s) + 1) : IsInjective(before[i]) /\ Range(before[i]) \cap {s[j] : j \in kept} = {},
           \A i, j \in 1..(Len(s) + 1) : i # j => Range(before[i]) \cap Range(before[j]) = {}
    PROVE  IsInjective(Weave(s, kept, before))
  <1> DEFINE own(i) == IF i \in kept THEN <<s[i]>> ELSE <<>>
             pieces == [i \in 1..(Len(s) + 1) |-> before[i] \o own(i)]
  <1>1. \A i \in 1..(Len(s) + 1) :
           /\ own(i) \in Texts /\ Range(own(i)) = (IF i \in kept THEN {s[i]} ELSE {})
           /\ IsInjective(own(i))
    BY SingleText, NoText, TextRange
  <1>2. \A i \in 1..(Len(s) + 1) :
           /\ pieces[i] \in Texts /\ Range(pieces[i]) = Range(before[i]) \cup Range(own(i))
           /\ IsInjective(pieces[i])
    <2> SUFFICES ASSUME NEW i \in 1..(Len(s) + 1)
                 PROVE  /\ pieces[i] \in Texts /\ Range(pieces[i]) = Range(before[i]) \cup Range(own(i))
                        /\ IsInjective(pieces[i])
      OBVIOUS
    <2> HIDE DEF own
    <2>1. before[i] \in Seq(Nat) /\ own(i) \in Seq(Nat) /\ pieces[i] = before[i] \o own(i)
      BY <1>1 DEF Texts
    <2>2. Range(before[i]) \cap Range(own(i)) = {} /\ IsInjective(before[i]) /\ IsInjective(own(i))
      BY <1>1
    <2> HIDE DEF pieces
    <2>3. IsInjective(before[i] \o own(i))
      BY <2>1, <2>2, ConcatInjective
    <2> QED
      BY <2>1, <2>3, RangeConcatenation, ConcatProperties DEF Texts
  <1>3. pieces \in Seq(Seq(Nat)) /\ DOMAIN pieces = 1..(Len(s) + 1)
    <2>1. Len(s) + 1 \in Nat
      BY TextRange
    <2>2. DOMAIN pieces = 1..(Len(s) + 1) /\ pieces = [i \in 1..(Len(s) + 1) |-> pieces[i]]
      OBVIOUS
    <2> HIDE DEF pieces
    <2>3. pieces \in [1..(Len(s) + 1) -> Seq(Nat)]
      BY <1>2, <2>2, Zenon DEF Texts
    <2> QED
      BY <2>1, <2>2, <2>3, SeqDef
  <1>4. Weave(s, kept, before) = FlattenSeq(pieces)
    BY DEF Weave
  <1>5. ASSUME NEW i \in DOMAIN pieces, NEW j \in DOMAIN pieces, i # j
        PROVE  Range(pieces[i]) \cap Range(pieces[j]) = {}
    <2> HIDE DEF pieces, own
    <2>1. i \in 1..(Len(s) + 1) /\ j \in 1..(Len(s) + 1)
      BY <1>3
    <2>2. Range(own(i)) \cap Range(own(j)) = {}
      BY <1>1, <1>5, <2>1 DEF IsInjective
    <2>3. Range(before[i]) \cap Range(own(j)) = {} /\ Range(before[j]) \cap Range(own(i)) = {}
      BY <1>1, <2>1
    <2>4. Range(before[i]) \cap Range(before[j]) = {}
      BY <1>5, <2>1
    <2> QED
      BY <1>2, <2>1, <2>2, <2>3, <2>4
  <1> HIDE DEF pieces, own
  <1>6. \A i \in DOMAIN pieces : IsInjective(pieces[i])
    BY <1>2, <1>3
  <1>7. IsInjective(FlattenSeq(pieces))
    BY <1>3, <1>5, <1>6, FlattenInjective
  <1> QED
    BY <1>4, <1>7
-----------------------------------------------------------------------------
(* Buffers.  What a buffer was written against, what it adds to that, and   *)
(* what it takes away.                                                      *)

Source(b) == IF b = Absent THEN {} ELSE Range(b.source)
New(b) == Visible(b) \ Source(b)
Cut(b) == Source(b) \ Visible(b)

LEMMA AbsentIsNoData ==
    /\ \A b \in Buffers : b # Absent
    /\ \A s \in Texts : s # Absent
    /\ \A r \in Records : r # Absent
  BY AbsentAssumption

LEMMA BufferHolds ==
    ASSUME NEW b \in Buffers
    PROVE  /\ b.source \in Texts /\ b.visible \in Texts
           /\ Source(b) = Range(b.source) /\ Visible(b) = Range(b.visible)
           /\ New(b) = Range(b.visible) \ Range(b.source)
           /\ Cut(b) = Range(b.source) \ Range(b.visible)
           /\ Cut(b) = {b.source[j] : j \in Deleted(b)}
  <1>1. b.source \in Texts /\ b.visible \in Texts
    BY DEF Buffers
  <1>2. b # Absent
    BY AbsentIsNoData
  <1>3. Range(b.source) \ Range(b.visible) = {b.source[j] : j \in Deleted(b)}
    BY DEF Deleted, Range
  <1> QED
    BY <1>1, <1>2, <1>3 DEF Source, Visible, New, Cut

LEMMA GapBound ==
    ASSUME NEW b \in Buffers, NEW a \in Range(b.visible)
    PROVE  Gap(b, a) \in 0..Len(b.source)
  <1> DEFINE at == Max({j \in DOMAIN b.visible : b.visible[j] = a})
             heres == {0} \cup {i \in DOMAIN b.source : \E j \in 1..at : b.visible[j] = b.source[i]}
  <1>1. Len(b.source) \in Nat /\ heres \subseteq 0..Len(b.source) /\ heres # {}
    <2>1. DOMAIN b.source = 1..Len(b.source) /\ Len(b.source) \in Nat
      BY BufferHolds, TextRange
    <2> QED
      BY <2>1
  <1>2. Gap(b, a) = Max(heres)
    BY DEF Gap
  <1> HIDE DEF heres, at
  <1> QED
    BY <1>1, <1>2, MaxIsLargest

LEMMA InsertedHolds ==
    ASSUME NEW b \in Buffers, NEW g
    PROVE  /\ Inserted(b, g) \in Texts
           /\ Range(Inserted(b, g)) = {a \in New(b) : Gap(b, a) = g}
           /\ IsInjective(b.visible) => IsInjective(Inserted(b, g))
  <1> DEFINE v == b.visible
             kept == {j \in DOMAIN v : v[j] \notin Range(b.source) /\ Gap(b, v[j]) = g}
             before == [j \in 1..(Len(v) + 1) |-> <<>>]
  <1>1. v \in Texts /\ kept \in SUBSET DOMAIN v /\ before \in [1..(Len(v) + 1) -> Texts]
    BY BufferHolds, NoText
  <1>2. Inserted(b, g) = Weave(v, kept, before)
    BY DEF Inserted
  <1>3. {v[i] : i \in kept} = {a \in New(b) : Gap(b, a) = g}
    <2>1. New(b) = Range(v) \ Range(b.source)
      BY BufferHolds
    <2>2. \A a : a \in {v[i] : i \in kept} <=> a \in Range(v) /\ a \notin Range(b.source) /\ Gap(b, a) = g
      BY DEF Range
    <2> QED
      BY <2>1, <2>2
  <1>4. UNION {Range(before[i]) : i \in 1..(Len(v) + 1)} = {}
    BY NoText
  <1>5. \A i \in 1..(Len(v) + 1) : Range(before[i]) = {} /\ IsInjective(before[i])
    BY NoText
  <1> HIDE DEF kept, before, v
  <1>6. Inserted(b, g) \in Texts /\ Range(Inserted(b, g)) = {v[i] : i \in kept}
    <2>1. /\ Weave(v, kept, before) \in Texts
          /\ Range(Weave(v, kept, before)) = {v[i] : i \in kept} \cup UNION {Range(before[i]) : i \in 1..(Len(v) + 1)}
      BY <1>1, WeaveHolds
    <2> QED
      BY <1>2, <1>4, <2>1
  <1>7. IsInjective(v) => IsInjective(Inserted(b, g))
    <2>1. /\ \A i \in 1..(Len(v) + 1) : IsInjective(before[i]) /\ Range(before[i]) \cap {v[j] : j \in kept} = {}
          /\ \A i, j \in 1..(Len(v) + 1) : i # j => Range(before[i]) \cap Range(before[j]) = {}
      BY <1>5
    <2> QED
      BY <1>1, <1>2, <2>1, WeaveInjective
  <1> QED
    BY <1>3, <1>6, <1>7 DEF v

\* The atoms a buffer puts before the i-th atom of another text.
LEMMA SplicesHold ==
    ASSUME NEW b \in Buffers, NEW s \in Texts
    PROVE  /\ bufferSplices(b, s) \in Texts
           /\ Range(bufferSplices(b, s)) =
                  {s[i] : i \in DOMAIN s \ Deleted(b)} \cup {a \in New(b) : Gap(b, a) <= Len(s)}
           /\ (IsInjective(s) /\ IsInjective(b.visible) /\ New(b) \cap Range(s) = {})
                  => IsInjective(bufferSplices(b, s))
  <1> DEFINE n == Len(b.source)
             kept == DOMAIN s \ Deleted(b)
             before == [i \in 1..(Len(s) + 1) |-> IF i - 1 <= n THEN Inserted(b, i - 1) ELSE <<>>]
  <1>0. n \in Nat /\ Len(s) \in Nat /\ DOMAIN s = 1..Len(s)
    BY BufferHolds, TextRange
  <1>1. kept \in SUBSET DOMAIN s
    OBVIOUS
  <1>2. before \in [1..(Len(s) + 1) -> Texts]
    BY InsertedHolds, NoText
  <1>3. bufferSplices(b, s) = Weave(s, kept, before)
    BY DEF bufferSplices
  <1>4. \A i \in 1..(Len(s) + 1) : Range(before[i]) = {a \in New(b) : i - 1 <= n /\ Gap(b, a) = i - 1}
    BY <1>0, InsertedHolds, NoText
  <1>5. \A a \in New(b) : Gap(b, a) \in 0..n
    BY BufferHolds, GapBound
  <1>6. UNION {Range(before[i]) : i \in 1..(Len(s) + 1)} = {a \in New(b) : Gap(b, a) <= Len(s)}
    <2> HIDE DEF before, n
    <2>1. ASSUME NEW a \in New(b), Gap(b, a) <= Len(s)
          PROVE  \E i \in 1..(Len(s) + 1) : a \in Range(before[i])
      <3>1. Gap(b, a) + 1 \in 1..(Len(s) + 1) /\ (Gap(b, a) + 1) - 1 = Gap(b, a) /\ Gap(b, a) <= n
        BY <1>0, <1>5, <2>1
      <3> QED
        BY <1>4, <3>1
    <2>2. ASSUME NEW i \in 1..(Len(s) + 1), NEW a \in Range(before[i])
          PROVE  a \in New(b) /\ Gap(b, a) <= Len(s)
      <3>1. i - 1 <= Len(s)
        BY <1>0
      <3> QED
        BY <1>4, <3>1
    <2> QED
      BY <2>1, <2>2
  <1>7. ASSUME IsInjective(s), IsInjective(b.visible), New(b) \cap Range(s) = {}
        PROVE  IsInjective(bufferSplices(b, s))
    <2>1. \A i \in 1..(Len(s) + 1) : IsInjective(before[i])
      BY <1>7, InsertedHolds, NoText
    <2> HIDE DEF before, n
    <2>2. \A i \in 1..(Len(s) + 1) : Range(before[i]) \cap {s[j] : j \in kept} = {}
      BY <1>4, <1>7 DEF Range
    <2>3. ASSUME NEW i \in 1..(Len(s) + 1), NEW j \in 1..(Len(s) + 1), i # j
          PROVE  Range(before[i]) \cap Range(before[j]) = {}
      <3>1. i - 1 # j - 1
        BY <1>0, <2>3
      <3> QED
        BY <1>4, <3>1
    <2> HIDE DEF kept
    <2> QED
      BY <1>1, <1>2, <1>3, <1>7, <2>1, <2>2, <2>3, WeaveInjective
  <1> HIDE DEF before, kept, n
  <1>8. /\ bufferSplices(b, s) \in Texts
        /\ Range(bufferSplices(b, s)) = {s[i] : i \in kept} \cup UNION {Range(before[i]) : i \in 1..(Len(s) + 1)}
    BY <1>1, <1>2, <1>3, WeaveHolds
  <1> QED
    BY <1>6, <1>7, <1>8 DEF kept

LEMMA SplicesOfSource ==
    ASSUME NEW b \in Buffers
    PROVE  /\ Fits(b, b.source)
           /\ bufferSplices(b, b.source) \in Texts
           /\ Range(bufferSplices(b, b.source)) = Range(b.visible)
           /\ IsInjective(b.source) /\ IsInjective(b.visible) => IsInjective(bufferSplices(b, b.source))
  <1>1. Len(b.source) \in Nat /\ DOMAIN b.source = 1..Len(b.source) /\ b.source \in Texts
    BY BufferHolds, TextRange
  <1>2. Fits(b, b.source)
    BY <1>1 DEF Fits, bufferChanges, Deleted
  <1>3. {a \in New(b) : Gap(b, a) <= Len(b.source)} = New(b)
    BY <1>1, GapBound, BufferHolds
  <1>4. {b.source[i] : i \in DOMAIN b.source \ Deleted(b)} = Range(b.source) \cap Range(b.visible)
    BY DEF Deleted, Range
  <1>5. New(b) = Range(b.visible) \ Range(b.source)
    BY BufferHolds
  <1> QED
    BY <1>1, <1>2, <1>3, <1>4, <1>5, SplicesHold

LEMMA PositionBound ==
    ASSUME NEW b \in Buffers, NEW s \in Texts, NEW g
    PROVE  mapContentPosition(b, g, s) \in 1..(Len(s) + 1)
  <1> DEFINE left == {i \in DOMAIN s : \E j \in DOMAIN b.source : j > g /\ b.source[j] = s[i]}
  <1>1. left \subseteq 1..Len(s) /\ Len(s) \in Nat
    BY TextRange
  <1>2. mapContentPosition(b, g, s) = IF left = {} THEN Len(s) + 1 ELSE Min(left)
    BY DEF mapContentPosition
  <1> HIDE DEF left
  <1>3. left \subseteq Nat
    BY <1>1
  <1>4. left # {} => Min(left) \in 1..Len(s)
    BY <1>1, <1>3, MinIsLeast
  <1> QED
    BY <1>1, <1>2, <1>4

\* Rebasing keeps what both sides left and what the buffer added, in the text it moves to.
LEMMA RebaseHolds ==
    ASSUME NEW b \in Buffers, NEW s \in Texts
    PROVE  /\ rebaseBuffer(b, s) \in Buffers
           /\ rebaseBuffer(b, s).source = s
           /\ Range(rebaseBuffer(b, s).visible) = (Range(s) \ Cut(b)) \cup New(b)
           /\ (IsInjective(s) /\ IsInjective(b.visible) /\ New(b) \cap Range(s) = {})
                  => IsInjective(rebaseBuffer(b, s).visible)
  <1> DEFINE n == Len(b.source)
             at(g) == mapContentPosition(b, g, s)
             kept == {i \in DOMAIN s : s[i] \notin {b.source[j] : j \in Deleted(b)}}
             parts(i) == [g \in 1..(n + 1) |-> IF at(g - 1) = i THEN Inserted(b, g - 1) ELSE <<>>]
             before == [i \in 1..(Len(s) + 1) |-> FlattenSeq(parts(i))]
  <1>0. n \in Nat /\ Len(s) \in Nat /\ DOMAIN s = 1..Len(s)
    BY BufferHolds, TextRange
  <1>1. kept \in SUBSET DOMAIN s
    OBVIOUS
  <1>2. \A i : /\ DOMAIN parts(i) = 1..(n + 1)
               /\ parts(i) \in Seq(Seq(Nat))
               /\ \A g \in 1..(n + 1) :
                     /\ Range(parts(i)[g]) = {a \in New(b) : at(g - 1) = i /\ Gap(b, a) = g - 1}
                     /\ IsInjective(b.visible) => IsInjective(parts(i)[g])
    <2> SUFFICES ASSUME NEW i
                 PROVE  /\ DOMAIN parts(i) = 1..(n + 1)
                        /\ parts(i) \in Seq(Seq(Nat))
                        /\ \A g \in 1..(n + 1) :
                              /\ Range(parts(i)[g]) = {a \in New(b) : at(g - 1) = i /\ Gap(b, a) = g - 1}
                              /\ IsInjective(b.visible) => IsInjective(parts(i)[g])
      OBVIOUS
    <2> HIDE DEF at
    <2>1. DOMAIN parts(i) = 1..(n + 1)
      OBVIOUS
    <2>2. \A g \in 1..(n + 1) : parts(i)[g] = IF at(g - 1) = i THEN Inserted(b, g - 1) ELSE <<>>
      OBVIOUS
    <2>3. \A g \in 1..(n + 1) :
              /\ parts(i)[g] \in Seq(Nat)
              /\ Range(parts(i)[g]) = {a \in New(b) : at(g - 1) = i /\ Gap(b, a) = g - 1}
              /\ IsInjective(b.visible) => IsInjective(parts(i)[g])
      <3> HIDE DEF parts
      <3> SUFFICES ASSUME NEW g \in 1..(n + 1)
                   PROVE  /\ parts(i)[g] \in Seq(Nat)
                          /\ Range(parts(i)[g]) = {a \in New(b) : at(g - 1) = i /\ Gap(b, a) = g - 1}
                          /\ IsInjective(b.visible) => IsInjective(parts(i)[g])
        OBVIOUS
      <3>1. CASE at(g - 1) = i
        <4>1. parts(i)[g] = Inserted(b, g - 1)
          BY <2>2, <3>1
        <4> QED
          BY <3>1, <4>1, InsertedHolds DEF Texts
      <3>2. CASE at(g - 1) # i
        <4>1. parts(i)[g] = <<>>
          BY <2>2, <3>2
        <4> QED
          BY <3>2, <4>1, NoText DEF Texts
      <3> QED
        BY <3>1, <3>2
    <2>4. parts(i) \in [1..(n + 1) -> Seq(Nat)]
      <3>1. parts(i) = [g \in 1..(n + 1) |-> parts(i)[g]]
        OBVIOUS
      <3> HIDE DEF parts
      <3> QED
        BY <2>3, <3>1, Zenon
    <2>5. parts(i) \in Seq(Seq(Nat))
      <3>1. n + 1 \in Nat
        BY <1>0
      <3> HIDE DEF parts
      <3> QED
        BY <2>4, <3>1, SeqDef
    <2> QED
      BY <2>1, <2>3, <2>5
  <1>3. \A i : FlattenSeq(parts(i)) \in Texts
                /\ Range(FlattenSeq(parts(i))) = {a \in New(b) : at(Gap(b, a)) = i}
    <2> SUFFICES ASSUME NEW i
                 PROVE  FlattenSeq(parts(i)) \in Texts
                        /\ Range(FlattenSeq(parts(i))) = {a \in New(b) : at(Gap(b, a)) = i}
      OBVIOUS
    <2> HIDE DEF parts, at
    <2>1. FlattenSeq(parts(i)) \in Texts
          /\ Range(FlattenSeq(parts(i))) = UNION {Range(parts(i)[g]) : g \in 1..(n + 1)}
      BY <1>2, FlattenHolds DEF Texts
    <2>2. ASSUME NEW a \in New(b), at(Gap(b, a)) = i
          PROVE  \E g \in 1..(n + 1) : a \in Range(parts(i)[g])
      <3>1. Gap(b, a) \in 0..n
        BY BufferHolds, GapBound
      <3>2. Gap(b, a) + 1 \in 1..(n + 1) /\ (Gap(b, a) + 1) - 1 = Gap(b, a)
        BY <1>0, <3>1
      <3> QED
        BY <1>2, <2>2, <3>2
    <2>3. ASSUME NEW g \in 1..(n + 1), NEW a \in Range(parts(i)[g])
          PROVE  a \in New(b) /\ at(Gap(b, a)) = i
      BY <1>2
    <2> QED
      BY <2>1, <2>2, <2>3
  <1>4. before \in [1..(Len(s) + 1) -> Texts]
        /\ \A i \in 1..(Len(s) + 1) : before[i] = FlattenSeq(parts(i))
    <2> HIDE DEF parts
    <2> QED
      BY <1>3
  <1>5. rebaseBuffer(b, s) = Buffer(s, Weave(s, kept, before))
    BY DEF rebaseBuffer
  <1>6. {s[i] : i \in kept} = Range(s) \ Cut(b)
    <2>1. Cut(b) = {b.source[j] : j \in Deleted(b)}
      BY BufferHolds
    <2> QED
      BY <2>1 DEF Range
  <1>7. UNION {Range(before[i]) : i \in 1..(Len(s) + 1)} = New(b)
    <2>1. \A a \in New(b) : at(Gap(b, a)) \in 1..(Len(s) + 1)
      BY PositionBound
    <2> HIDE DEF before, parts, at
    <2>2. \A i \in 1..(Len(s) + 1) : Range(before[i]) = {a \in New(b) : at(Gap(b, a)) = i}
      BY <1>3, <1>4
    <2> QED
      BY <2>1, <2>2
  <1>8. ASSUME IsInjective(s), IsInjective(b.visible), New(b) \cap Range(s) = {}
        PROVE  IsInjective(Weave(s, kept, before))
    <2> HIDE DEF before, parts, at
    <2>1. \A i \in 1..(Len(s) + 1) : Range(before[i]) = {a \in New(b) : at(Gap(b, a)) = i}
      BY <1>3, <1>4
    <2>2. ASSUME NEW i \in 1..(Len(s) + 1)
          PROVE  IsInjective(before[i])
      <3>1. \A g \in DOMAIN parts(i) : IsInjective(parts(i)[g])
        BY <1>2, <1>8
      <3>2. ASSUME NEW g \in DOMAIN parts(i), NEW h \in DOMAIN parts(i), g # h
            PROVE  Range(parts(i)[g]) \cap Range(parts(i)[h]) = {}
        <4>1. g \in 1..(n + 1) /\ h \in 1..(n + 1)
          BY <1>2
        <4>2. g - 1 # h - 1
          BY <1>0, <3>2, <4>1
        <4>3. \A a \in Range(parts(i)[g]) : Gap(b, a) = g - 1
          BY <1>2, <4>1
        <4>4. \A a \in Range(parts(i)[h]) : Gap(b, a) = h - 1
          BY <1>2, <4>1
        <4> HIDE DEF n
        <4> QED
          BY <4>2, <4>3, <4>4
      <3>3. parts(i) \in Seq(Seq(Nat))
        BY <1>2, Zenon
      <3>4. IsInjective(FlattenSeq(parts(i)))
        BY <3>1, <3>2, <3>3, FlattenInjective
      <3> QED
        BY <1>4, <3>4
    <2>3. \A i \in 1..(Len(s) + 1) : Range(before[i]) \cap {s[j] : j \in kept} = {}
      BY <1>6, <1>8, <2>1
    <2>4. \A i, j \in 1..(Len(s) + 1) : i # j => Range(before[i]) \cap Range(before[j]) = {}
      BY <2>1
    <2> HIDE DEF kept
    <2> QED
      BY <1>1, <1>4, <1>8, <2>2, <2>3, <2>4, WeaveInjective
  <1> HIDE DEF before, kept, parts, at
  <1>9. /\ Weave(s, kept, before) \in Texts
        /\ Range(Weave(s, kept, before)) = (Range(s) \ Cut(b)) \cup New(b)
    BY <1>1, <1>4, <1>6, <1>7, WeaveHolds
  <1> QED
    BY <1>5, <1>8, <1>9 DEF Buffer, Buffers

\* A refused submission gets the newer input back, on the source it was written against.
LEMMA RestoreHolds ==
    ASSUME NEW original \in Buffers, NEW newer \in Buffers, newer.source = original.visible
    PROVE  /\ restoreBuffer(original, newer) \in Buffers
           /\ restoreBuffer(original, newer).source = original.source
           /\ Range(restoreBuffer(original, newer).visible) = Range(newer.visible)
           /\ IsInjective(original.visible) /\ IsInjective(newer.visible)
                  => IsInjective(restoreBuffer(original, newer).visible)
  <1>1. Fits(newer, original.visible)
    BY SplicesOfSource
  <1>2. restoreBuffer(original, newer) = Buffer(original.source, bufferSplices(newer, original.visible))
    BY <1>1 DEF restoreBuffer
  <1>3. original.source \in Texts
    BY BufferHolds
  <1> QED
    BY <1>2, <1>3, SplicesOfSource DEF Buffer, Buffers

LEMMA SettledBuffer ==
    ASSUME NEW s \in Texts
    PROVE  /\ createContentBuffer(s) \in Buffers
           /\ createContentBuffer(s).source = s /\ createContentBuffer(s).visible = s
           /\ New(createContentBuffer(s)) = {} /\ Cut(createContentBuffer(s)) = {}
           /\ Source(createContentBuffer(s)) = Range(s) /\ Visible(createContentBuffer(s)) = Range(s)
  <1>1. createContentBuffer(s) \in Buffers /\ createContentBuffer(s).source = s /\ createContentBuffer(s).visible = s
    BY DEF createContentBuffer, Buffer, Buffers
  <1> QED
    BY <1>1, BufferHolds

LEMMA PartHolds ==
    ASSUME NEW s \in Texts, NEW m \in Nat, NEW n \in Nat, m >= 1, n <= Len(s)
    PROVE  /\ SubSeq(s, m, n) \in Texts
           /\ Range(SubSeq(s, m, n)) = {s[k] : k \in m..n}
           /\ IsInjective(s) => IsInjective(SubSeq(s, m, n))
  <1> DEFINE r == SubSeq(s, m, n)
  <1>0. Len(s) \in Nat /\ DOMAIN s = 1..Len(s)
    BY TextRange
  <1>1. /\ r \in Seq(Nat)
        /\ Len(r) = IF m <= n THEN n - m + 1 ELSE 0
        /\ \A i \in 1..(n - m + 1) : r[i] = s[m + i - 1]
    <2>1. \A i \in m..n : s[i] \in Nat
      BY <1>0, TextRange
    <2> QED
      BY <2>1, SubSeqProperties
  <1> HIDE DEF r
  <1>2. DOMAIN r = 1..(n - m + 1)
    <2>1. DOMAIN r = 1..Len(r)
      BY <1>1
    <2> QED
      BY <1>1, <2>1
  <1>3. Range(r) = {s[k] : k \in m..n}
    <2>1. \A k \in m..n : k - m + 1 \in 1..(n - m + 1) /\ m + (k - m + 1) - 1 = k
      OBVIOUS
    <2>2. \A i \in 1..(n - m + 1) : m + i - 1 \in m..n
      OBVIOUS
    <2>3. \A k \in m..n : r[k - m + 1] = s[k]
      BY <1>1, <2>1
    <2>4. \A i \in 1..(n - m + 1) : r[i] \in {s[k] : k \in m..n}
      BY <1>1, <2>2
    <2>5. \A k \in m..n : s[k] \in {r[i] : i \in 1..(n - m + 1)}
      BY <2>1, <2>3
    <2>6. Range(r) = {r[i] : i \in 1..(n - m + 1)}
      BY <1>2 DEF Range
    <2> QED
      BY <2>4, <2>5, <2>6
  <1>4. ASSUME IsInjective(s)
        PROVE  IsInjective(r)
    <2> SUFFICES ASSUME NEW i \in 1..(n - m + 1), NEW j \in 1..(n - m + 1), r[i] = r[j]
                 PROVE  i = j
      BY <1>2 DEF IsInjective
    <2>1. m + i - 1 \in DOMAIN s /\ m + j - 1 \in DOMAIN s /\ s[m + i - 1] = s[m + j - 1]
      BY <1>0, <1>1
    <2>2. m + i - 1 = m + j - 1
      BY <1>4, <2>1 DEF IsInjective
    <2> QED
      BY <2>2
  <1> QED
    BY <1>1, <1>3, <1>4 DEF r, Texts

LEMMA InsertedAtom ==
    ASSUME NEW s \in Texts, NEW i \in 1..(Len(s) + 1), NEW a \in Nat
    PROVE  /\ InsertAt(s, i, a) \in Texts
           /\ Range(InsertAt(s, i, a)) = Range(s) \cup {a}
           /\ IsInjective(s) /\ a \notin Range(s) => IsInjective(InsertAt(s, i, a))
  <1> DEFINE p == SubSeq(s, 1, i - 1)
             q == SubSeq(s, i, Len(s))
  <1>0. Len(s) \in Nat /\ DOMAIN s = 1..Len(s)
    BY TextRange
  <1>1. /\ p \in Texts /\ Range(p) = {s[k] : k \in 1..(i - 1)}
        /\ IsInjective(s) => IsInjective(p)
    <2>1. i - 1 \in Nat /\ i - 1 <= Len(s)
      BY <1>0
    <2> QED
      BY <2>1, PartHolds
  <1>2. /\ q \in Texts /\ Range(q) = {s[k] : k \in i..Len(s)}
        /\ IsInjective(s) => IsInjective(q)
    <2>1. i \in Nat /\ i >= 1 /\ Len(s) \in Nat /\ Len(s) <= Len(s)
      BY <1>0
    <2> QED
      BY <2>1, PartHolds
  <1>3. InsertAt(s, i, a) = (p \o <<a>>) \o q
    BY DEF InsertAt
  <1>4. Range(s) = Range(p) \cup Range(q)
    <2>1. \A k : k \in 1..Len(s) <=> k \in 1..(i - 1) \/ k \in i..Len(s)
      BY <1>0
    <2>2. \A x : x \in Range(s) <=> \E k \in 1..Len(s) : x = s[k]
      BY <1>0 DEF Range
    <2> QED
      BY <1>1, <1>2, <2>1, <2>2
  <1>5. IsInjective(s) => Range(p) \cap Range(q) = {}
    <2>1. \A k \in 1..(i - 1), l \in i..Len(s) : k \in DOMAIN s /\ l \in DOMAIN s /\ k # l
      BY <1>0
    <2> QED
      BY <1>1, <1>2, <2>1 DEF IsInjective
  <1> HIDE DEF p, q
  <1>6. /\ <<a>> \in Seq(Nat) /\ p \in Seq(Nat) /\ q \in Seq(Nat)
        /\ Range(<<a>>) = {a} /\ IsInjective(<<a>>)
    BY <1>1, <1>2, SingleText DEF Texts
  <1>7. p \o <<a>> \in Seq(Nat) /\ Range(p \o <<a>>) = Range(p) \cup {a}
    <2> DEFINE u == <<a>>
    <2>1. u \in Seq(Nat) /\ Range(u) = {a}
      BY <1>6
    <2> HIDE DEF u
    <2>2. p \o u \in Seq(Nat) /\ Range(p \o u) = Range(p) \cup Range(u)
      BY <1>6, <2>1, ConcatProperties, RangeConcatenation
    <2> QED
      BY <2>1, <2>2 DEF u
  <1>8. (p \o <<a>>) \o q \in Seq(Nat) /\ Range((p \o <<a>>) \o q) = (Range(p) \cup {a}) \cup Range(q)
    <2> DEFINE u == p \o <<a>>
    <2> HIDE DEF u
    <2>1. u \in Seq(Nat) /\ Range(u) = Range(p) \cup {a}
      BY <1>7 DEF u
    <2>2. u \o q \in Seq(Nat) /\ Range(u \o q) = Range(u) \cup Range(q)
      BY <1>6, <2>1, ConcatProperties, RangeConcatenation
    <2> QED
      BY <2>1, <2>2 DEF u
  <1>9. ASSUME IsInjective(s), a \notin Range(s)
        PROVE  IsInjective((p \o <<a>>) \o q)
    <2>1. IsInjective(p \o <<a>>)
      BY <1>1, <1>4, <1>6, <1>9, ConcatInjective
    <2>2. Range(p \o <<a>>) \cap Range(q) = {}
      BY <1>4, <1>5, <1>7, <1>9
    <2> QED
      BY <1>2, <1>6, <1>7, <1>9, <2>1, <2>2, ConcatInjective
  <1> QED
    BY <1>3, <1>4, <1>8, <1>9 DEF Texts

LEMMA RemovedAtom ==
    ASSUME NEW s \in Texts, NEW i \in DOMAIN s
    PROVE  /\ RemoveAt(s, i) \in Texts
           /\ Range(s) \ {s[i]} \subseteq Range(RemoveAt(s, i))
           /\ Range(RemoveAt(s, i)) \subseteq Range(s)
           /\ IsInjective(s) => IsInjective(RemoveAt(s, i))
  <1> DEFINE p == SubSeq(s, 1, i - 1)
             q == SubSeq(s, i + 1, Len(s))
  <1>0. Len(s) \in Nat /\ DOMAIN s = 1..Len(s) /\ i \in 1..Len(s)
    BY TextRange
  <1>1. /\ p \in Texts /\ Range(p) = {s[k] : k \in 1..(i - 1)}
        /\ IsInjective(s) => IsInjective(p)
    <2>1. i - 1 \in Nat /\ i - 1 <= Len(s)
      BY <1>0
    <2> QED
      BY <2>1, PartHolds
  <1>2. /\ q \in Texts /\ Range(q) = {s[k] : k \in (i + 1)..Len(s)}
        /\ IsInjective(s) => IsInjective(q)
    <2>1. i + 1 \in Nat /\ i + 1 >= 1 /\ Len(s) \in Nat /\ Len(s) <= Len(s)
      BY <1>0
    <2> QED
      BY <2>1, PartHolds
  <1>3. RemoveAt(s, i) = p \o q
    BY DEF RemoveAt
  <1>4. Range(s) = Range(p) \cup Range(q) \cup {s[i]}
    <2>1. \A k : k \in 1..Len(s) <=> k \in 1..(i - 1) \/ k \in (i + 1)..Len(s) \/ k = i
      BY <1>0
    <2>2. \A x : x \in Range(s) <=> \E k \in 1..Len(s) : x = s[k]
      BY <1>0 DEF Range
    <2> QED
      BY <1>1, <1>2, <2>1, <2>2
  <1>5. IsInjective(s) => Range(p) \cap Range(q) = {}
    <2>1. \A k \in 1..(i - 1), l \in (i + 1)..Len(s) : k \in DOMAIN s /\ l \in DOMAIN s /\ k # l
      BY <1>0
    <2> QED
      BY <1>1, <1>2, <2>1 DEF IsInjective
  <1> HIDE DEF p, q
  <1>6. p \o q \in Texts /\ Range(p \o q) = Range(p) \cup Range(q)
    BY <1>1, <1>2, ConcatProperties, RangeConcatenation DEF Texts
  <1>7. IsInjective(s) => IsInjective(p \o q)
    BY <1>1, <1>2, <1>5, ConcatInjective DEF Texts
  <1> QED
    BY <1>3, <1>4, <1>6, <1>7
-----------------------------------------------------------------------------
(* The types, and the lane as a sequence of jobs.                          *)

Kinds == {"submit", "picked", "prefix", "word", "fill", "resume", "insert", "delete", "remove",
          "recover", "save", "local"}
Payloads == BOOLEAN \cup Buffers \cup Texts \cup Records \cup Nat \cup {"remove", "undo", Absent}
Jobs == {j \in [kind : Kinds, payload : Payloads] :
            /\ j.kind = "submit" => j.payload \in BOOLEAN
            /\ j.kind \in EarlyKind => j.payload \in Buffers
            /\ j.kind = "fill" => j.payload \in Texts
            /\ j.kind = "resume" => j.payload \in Records
            /\ j.kind = "insert" => j.payload \in Nat
            /\ j.kind = "local" => j.payload \in {"remove", "undo"}}
Docs == [block : Texts \cup {Absent}, heir : Texts \cup {Absent}, removed : Texts \cup {Absent}, acted : Nat]
Actions == {"idle", "queued", "sent", "retry", "applied", "dropped"}

TypeOK ==
    /\ core \in Docs /\ disk \in Docs
    /\ seen \in Texts \cup {Absent} /\ stale \in BOOLEAN
    /\ lane \in Seq(Jobs)
    /\ buf \in Buffers \cup {Absent} /\ inflight \in Buffers \cup {Absent}
    /\ staged \in Buffers \cup {Absent}
    /\ action \in Actions
    /\ unavailable \in BOOLEAN /\ orphan \in BOOLEAN
    /\ compose \in [on : BOOLEAN, live : BOOLEAN, content : Texts \cup {Absent}]
    /\ view \in [observed : BOOLEAN, timer : BOOLEAN, menu : BOOLEAN]
    /\ page \in [shown : BOOLEAN, kept : Records \cup {Absent}, unsavedKept : BOOLEAN, dropped : SUBSET Nat]
    /\ told \in BOOLEAN
    /\ gone \in SUBSET Nat /\ landed \in SUBSET Nat
    /\ budget \in [typed : Nat, foreign : Nat, deletes : Nat, closes : Nat, faults : Nat]

\* The atoms typed or inserted next.
LEMMA NextAtoms ==
    ASSUME TypeOK
    PROVE  Size + budget.typed + 1 \in Nat /\ Size + MaxTyped + budget.foreign + 1 \in Nat
  <1>1. budget.typed \in Nat /\ budget.foreign \in Nat
    BY DEF TypeOK
  <1>2. Size \in Nat /\ MaxTyped \in Nat
    BY BoundAssumption
  <1> QED
    BY <1>1, <1>2

LEMMA JobHolds ==
    ASSUME NEW j \in Jobs
    PROVE  /\ j.kind \in Kinds
           /\ j.kind = "submit" => j.payload \in BOOLEAN
           /\ j.kind \in EarlyKind => j.payload \in Buffers
           /\ j.kind = "fill" => j.payload \in Texts
           /\ j.kind = "resume" => j.payload \in Records
           /\ j.kind = "insert" => j.payload \in Nat
           /\ j.kind = "local" => j.payload \in {"remove", "undo"}
  BY DEF Jobs

LEMMA JobMade ==
    /\ \A p \in BOOLEAN : Job("submit", p) \in Jobs
    /\ \A k \in EarlyKind, p \in Buffers : Job(k, p) \in Jobs
    /\ \A p \in Texts : Job("fill", p) \in Jobs
    /\ \A p \in Records : Job("resume", p) \in Jobs
    /\ \A p \in Nat : Job("insert", p) \in Jobs
    /\ \A k \in {"delete", "remove", "recover", "save"} : Job(k, Absent) \in Jobs
    /\ \A p \in {"remove", "undo"} : Job("local", p) \in Jobs
  BY DEF Job, Jobs, Kinds, Payloads, EarlyKind

LEMMA JobIs == \A k, p : Job(k, p).kind = k /\ Job(k, p).payload = p
  BY DEF Job

LEMMA LaneIs ==
    ASSUME lane \in Seq(Jobs)
    PROVE  /\ Len(lane) \in Nat /\ DOMAIN lane = 1..Len(lane)
           /\ \A i \in DOMAIN lane : lane[i] \in Jobs
           /\ lane # <<>> => 1 \in DOMAIN lane /\ Head1 = lane[1] /\ Head1 \in Jobs
  BY DEF Head1

\* A job is put behind the others.
LEMMA Appended ==
    ASSUME NEW l \in Seq(Jobs), NEW j \in Jobs, NEW r, r = Append(l, j)
    PROVE  /\ r \in Seq(Jobs) /\ r # <<>>
           /\ DOMAIN r = DOMAIN l \cup {Len(l) + 1}
           /\ Len(l) + 1 \notin DOMAIN l
           /\ \A i \in DOMAIN l : r[i] = l[i] /\ i < Len(l) + 1
           /\ r[Len(l) + 1] = j
           /\ l # <<>> => r[1] = l[1]
  <1>1. Len(l) \in Nat /\ DOMAIN l = 1..Len(l) /\ (l # <<>> => 1 \in DOMAIN l)
    BY LenProperties, EmptySeq
  <1>2. /\ r \in Seq(Jobs) /\ r # <<>> /\ Len(r) = Len(l) + 1
        /\ \A i \in 1..Len(l) : r[i] = l[i]
        /\ r[Len(l) + 1] = j
    BY AppendProperties
  <1>3. DOMAIN r = 1..(Len(l) + 1)
    BY <1>2, LenProperties
  <1> QED
    BY <1>1, <1>2, <1>3

GrownBy(j) ==
    /\ lane' \in Seq(Jobs) /\ DOMAIN lane' = DOMAIN lane \cup {Len(lane) + 1}
    /\ \A i \in DOMAIN lane : lane'[i] = lane[i]
    /\ lane'[Len(lane) + 1] = j

LEMMA AppendedLane ==
    ASSUME lane \in Seq(Jobs), NEW j \in Jobs, lane' = Append(lane, j)
    PROVE  GrownBy(j)
  BY Appended DEF GrownBy

\* The running job leaves, and what it brings forth goes behind the others.
Taken(l, e, r) ==
    /\ r \in Seq(Jobs)
    /\ \A i \in DOMAIN r : \/ i + 1 \in DOMAIN l /\ r[i] = l[i + 1]
                           \/ e # <<>> /\ i = Len(l) /\ r[i] = e[1]
    /\ \A i \in DOMAIN l : i # 1 => i - 1 \in DOMAIN r /\ r[i - 1] = l[i]
    /\ e # <<>> => Len(l) \in DOMAIN r /\ r[Len(l)] = e[1]
    /\ Len(l) \in Nat /\ Len(l) >= 1 /\ DOMAIN l = 1..Len(l) /\ Head(l) = l[1]
    /\ DOMAIN r \subseteq 1..Len(l)

LEMMA TailTaken ==
    ASSUME NEW l \in Seq(Jobs), l # <<>>, NEW e, e = <<>> \/ \E j \in Jobs : e = <<j>>,
           NEW r, r = Tail(l) \o e
    PROVE  Taken(l, e, r)
  <1>1. Len(l) \in Nat /\ DOMAIN l = 1..Len(l) /\ Len(l) >= 1 /\ Head(l) = l[1]
    BY LenProperties, EmptySeq
  <1>2. /\ Tail(l) \in Seq(Jobs) /\ Len(Tail(l)) = Len(l) - 1
        /\ \A i \in 1..(Len(l) - 1) : Tail(l)[i] = l[i + 1]
    BY HeadTailProperties
  <1> DEFINE q == Tail(l)
  <1>3. /\ q \in Seq(Jobs) /\ Len(q) = Len(l) - 1 /\ DOMAIN q = 1..(Len(l) - 1)
        /\ \A i \in 1..(Len(l) - 1) : q[i] = l[i + 1]
    BY <1>1, <1>2, LenProperties
  <1>4. /\ \A i \in 1..(Len(l) - 1) : i + 1 \in 1..Len(l)
        /\ \A i \in 1..Len(l) : i # 1 => i - 1 \in 1..(Len(l) - 1) /\ (i - 1) + 1 = i
    BY <1>1
  <1>5. r = q \o e
    OBVIOUS
  <1> HIDE DEF q
  <1>6. CASE e = <<>>
    <2>1. r = q
      BY <1>3, <1>5, <1>6, ConcatEmptySeq
    <2>2. /\ \A i \in DOMAIN r : i + 1 \in DOMAIN l /\ r[i] = l[i + 1]
          /\ DOMAIN r \subseteq 1..Len(l)
      BY <1>1, <1>3, <1>4, <2>1
    <2>3. \A i \in DOMAIN l : i # 1 => i - 1 \in DOMAIN r /\ r[i - 1] = l[i]
      BY <1>1, <1>3, <1>4, <2>1
    <2> QED
      BY <1>1, <1>3, <1>6, <2>1, <2>2, <2>3 DEF Taken
  <1>7. CASE \E j \in Jobs : e = <<j>>
    <2>1. PICK j \in Jobs : e = <<j>>
      BY <1>7
    <2>2. e # <<>> /\ e[1] = j
      BY <2>1
    <2>3. r = Append(q, j)
      BY <1>3, <1>5, <2>1, AppendIsConcat
    <2>4. /\ r \in Seq(Jobs)
          /\ DOMAIN r = DOMAIN q \cup {Len(q) + 1}
          /\ \A i \in DOMAIN q : r[i] = q[i]
          /\ r[Len(q) + 1] = j
      BY <1>3, <2>3, Appended
    <2>5. Len(q) + 1 = Len(l)
      BY <1>1, <1>3
    <2>6. \A i \in DOMAIN r : (i + 1 \in DOMAIN l /\ r[i] = l[i + 1]) \/ (i = Len(l) /\ r[i] = j)
      BY <1>1, <1>3, <1>4, <2>4, <2>5
    <2>7. \A i \in DOMAIN l : i # 1 => i - 1 \in DOMAIN r /\ r[i - 1] = l[i]
      BY <1>1, <1>3, <1>4, <2>4
    <2>8. DOMAIN r \subseteq 1..Len(l)
      BY <1>1, <1>3, <2>4, <2>5
    <2> QED
      BY <1>1, <2>2, <2>4, <2>5, <2>6, <2>7, <2>8 DEF Taken
  <1> QED
    BY <1>6, <1>7
-----------------------------------------------------------------------------
(* The control part of the invariant.                                      *)

Kindly(kinds) == {i \in DOMAIN lane : lane[i].kind \in kinds}

\* A submission at the Worker: the running job, on a document nothing else moves.
Pending == inflight # Absent =>
    /\ lane # <<>> /\ lane[1].kind = "submit" /\ ~stale
    /\ buf # Absent /\ buf.source = inflight.visible /\ ~compose.on
    /\ core.block # Absent => inflight.source = core.block

\* What is published is the document, unless a publication failed.
Current == (~stale => seen = core.block) /\ orphan = FALSE

\* A removal that may be undone left no block, and was published.
Removal ==
    /\ core.block # Absent => core.removed = Absent
    /\ disk.block # Absent => disk.removed = Absent
    /\ stale /\ core.block = Absent /\ seen # Absent => core.removed = Absent

\* A draft is recovered once, from a block that does not come back.
Lost == core.block = Absent /\ core.removed = Absent /\ seen = Absent
Heirs == Kindly({"recover", "fill"})
Succession ==
    /\ Heirs # {} => Lost /\ (core.heir = Absent \/ core.heir = <<>>)
    /\ \A i, j \in Heirs : i = j
    /\ core.heir # Absent => Lost
    /\ disk.heir # Absent => disk.block = Absent /\ disk.removed = Absent
    /\ core.heir = Absent => disk.heir = Absent
    /\ seen = Absent => ~compose.live /\ ~view.observed

\* An edit lowered early runs before anything that moves the text it was lowered against.
InTurn == \A i \in Kindly(EarlyKind) :
    /\ \A j \in DOMAIN lane : j < i => lane[j].kind = "save"
    /\ core.block # Absent /\ lane[i].payload.source = core.block
    /\ ~stale /\ inflight = Absent

\* A staged edit has the lane to itself.
StagedAlone == staged # Absent =>
    /\ \A i \in DOMAIN lane : \/ lane[i].kind = "save"
                              \/ lane[i].kind = "picked" /\ lane[i].payload = staged
    /\ core.block # Absent /\ staged.source = core.block
    /\ ~stale /\ inflight = Absent
    /\ buf # Absent /\ bufferIsClean(buf) /\ action # "retry"
    /\ ~view.menu /\ ~compose.on

\* A composition holds what is published, and nothing is submitted beside it.
Composing ==
    /\ compose.on => Kindly({"submit"}) = {} /\ ~view.timer
    /\ ~compose.on => compose = NotComposing
    /\ compose.live => buf # Absent /\ seen # Absent
    /\ compose.live /\ compose.content # Absent => compose.content = seen

\* With nothing under way the draft is based on what is published.
Based ==
    ~stale /\ inflight = Absent /\ compose.content = Absent /\ staged = Absent
        /\ Kindly(EarlyKind) = {} /\ buf # Absent /\ seen # Absent => buf.source = seen

\* What a closed page kept is the first thing the lane does.
Resumed == \A i \in Kindly({"resume"}) : i = 1 /\ ~stale /\ inflight = Absent /\ staged = Absent

Control ==
    /\ Resumed
    /\ Pending /\ Current /\ Removal /\ Succession /\ InTurn /\ StagedAlone /\ Composing /\ Based
ControlInv == TypeOK /\ Control
-----------------------------------------------------------------------------
(* What a publication leaves of the draft.                                 *)

Observes(text, own, d) ==
    /\ d.buf \in Buffers \cup {Absent} /\ d.unavailable \in BOOLEAN /\ d.orphan = FALSE
    /\ d.compose \in [on : BOOLEAN, live : BOOLEAN, content : Texts \cup {Absent}]
    /\ d.recover \in BOOLEAN
    /\ d.recover => text = Absent /\ ~own /\ seen # Absent /\ buf # Absent /\ d.buf = buf
    /\ d.compose # compose => /\ compose.on /\ buf # Absent /\ text # Absent
                              /\ d.compose = [compose EXCEPT !.content = text]
    /\ d.buf # Absent /\ text # Absent /\ compose.on => d.compose = [compose EXCEPT !.content = text]
    /\ d.buf # Absent /\ text # Absent /\ ~compose.on => d.buf.source = text
    /\ buf = Absent => d.buf = Absent
    /\ buf # Absent /\ d.buf = Absent => text = Absent
    /\ New(d.buf) \subseteq New(buf)
    /\ Cut(d.buf) \subseteq Cut(buf)
    /\ Visible(buf) \subseteq Visible(d.buf) \cup Source(buf)
    /\ Visible(d.buf) \subseteq Visible(buf) \cup Text(text)
    /\ Source(d.buf) \subseteq Source(buf) \cup Text(text)

LEMMA Observing ==
    ASSUME buf \in Buffers \cup {Absent}, inflight = Absent, orphan = FALSE, unavailable \in BOOLEAN,
           compose \in [on : BOOLEAN, live : BOOLEAN, content : Texts \cup {Absent}],
           NEW text \in Texts \cup {Absent}, NEW own \in BOOLEAN,
           NEW d, d = Observed(text, own, buf, inflight)
    PROVE  Observes(text, own, d)
  <1>1. CASE buf = Absent
    <2>1. d = Draft(Absent, unavailable, orphan, compose, FALSE)
      BY <1>1 DEF Observed, Unchanged
    <2>2. d.buf = Absent /\ d.unavailable = unavailable /\ d.orphan = FALSE /\ d.compose = compose /\ d.recover = FALSE
      BY <2>1 DEF Draft
    <2> QED
      BY <1>1, <2>2 DEF Observes
  <1>2. CASE buf # Absent /\ text = Absent
    <2>1. CASE bufferIsClean(buf)
      <3>1. d = Draft(Absent, unavailable, orphan, compose, FALSE)
        BY <1>2, <2>1 DEF Observed, Unchanged
      <3>2. Visible(buf) = Source(buf) /\ Visible(Absent) = {} /\ Source(Absent) = {}
        BY <2>1, <1>2 DEF bufferIsClean, Visible, Source
      <3>3. d.buf = Absent /\ d.unavailable = unavailable /\ d.orphan = FALSE /\ d.compose = compose /\ d.recover = FALSE
        BY <3>1 DEF Draft
      <3>4. New(Absent) = {} /\ Cut(Absent) = {}
        BY <3>2 DEF New, Cut
      <3> QED
        BY <1>2, <3>2, <3>3, <3>4 DEF Observes
    <2>2. CASE ~bufferIsClean(buf)
      <3>1. d = IF own \/ seen = Absent THEN Draft(buf, TRUE, orphan, compose, FALSE)
                ELSE Draft(buf, unavailable, FALSE, compose, TRUE)
        BY <1>2, <2>2 DEF Observed
      <3>2. /\ d.buf = buf /\ d.unavailable \in BOOLEAN /\ d.orphan = FALSE /\ d.compose = compose
            /\ d.recover \in BOOLEAN /\ (d.recover => ~own /\ seen # Absent)
        <4>1. CASE own \/ seen = Absent
          <5>1. d = Draft(buf, TRUE, orphan, compose, FALSE)
            BY <3>1, <4>1
          <5> QED
            BY <5>1 DEF Draft
        <4>2. CASE ~own /\ seen # Absent
          <5>1. d = Draft(buf, unavailable, FALSE, compose, TRUE)
            BY <3>1, <4>2
          <5> QED
            BY <4>2, <5>1 DEF Draft
        <4> QED
          BY <4>1, <4>2
      <3> QED
        BY <1>2, <3>2 DEF Observes
    <2> QED
      BY <2>1, <2>2
  <1>3. CASE buf # Absent /\ text # Absent
    <2>1. CASE compose.on
      <3>1. d = Draft(buf, unavailable, orphan, [compose EXCEPT !.content = text], FALSE)
        BY <1>3, <2>1 DEF Observed
      <3> QED
        BY <1>3, <2>1, <3>1 DEF Draft, Observes
    <2>2. CASE ~compose.on /\ buf.source = text
      <3>1. d = Draft(buf, FALSE, orphan, compose, FALSE)
        BY <1>3, <2>2 DEF Observed
      <3> QED
        BY <1>3, <2>2, <3>1 DEF Draft, Observes
    <2>3. CASE ~compose.on /\ buf.source # text
      <3>1. d = Draft(rebaseBuffer(buf, text), FALSE, orphan, compose, FALSE)
        BY <1>3, <2>3 DEF Observed
      <3>2. buf \in Buffers /\ text \in Texts
        BY <1>3
      <3> DEFINE r == rebaseBuffer(buf, text)
      <3>3. /\ r \in Buffers /\ r.source = text
            /\ Range(r.visible) = (Range(text) \ Cut(buf)) \cup New(buf)
        BY <3>2, RebaseHolds
      <3>4. d.buf = r /\ d.unavailable = FALSE /\ d.orphan = orphan /\ d.compose = compose /\ d.recover = FALSE
        BY <3>1 DEF Draft
      <3> HIDE DEF r
      <3>5. r # Absent /\ Text(text) = Range(text)
        BY <1>3, <3>3, AbsentIsNoData DEF Text
      <3>6. /\ Source(r) = Range(text) /\ Visible(r) = (Range(text) \ Cut(buf)) \cup New(buf)
            /\ New(r) = Visible(r) \ Source(r) /\ Cut(r) = Source(r) \ Visible(r)
        BY <3>3, <3>5, BufferHolds DEF New, Cut
      <3>7. /\ New(buf) = Visible(buf) \ Source(buf) /\ Cut(buf) = Source(buf) \ Visible(buf)
        BY DEF New, Cut
      <3>8. /\ New(r) \subseteq New(buf) /\ Cut(r) \subseteq Cut(buf)
            /\ Visible(buf) \subseteq Visible(r) \cup Source(buf)
            /\ Visible(r) \subseteq Visible(buf) \cup Text(text)
            /\ Source(r) \subseteq Source(buf) \cup Text(text)
        BY <3>5, <3>6, <3>7
      <3> QED
        BY <1>3, <2>3, <3>3, <3>4, <3>5, <3>8 DEF Observes
    <2> QED
      BY <2>1, <2>2, <2>3
  <1> QED
    BY <1>1, <1>2, <1>3
-----------------------------------------------------------------------------
(* Steps of the lane, seen from the control part.                          *)

\* Nothing lowered early waits behind a job that is not a save.
LEMMA Turn ==
    ASSUME ControlInv, lane # <<>>, lane[1].kind # "save"
    PROVE  /\ 1 \in DOMAIN lane /\ lane[1] \in Jobs /\ Head1 = lane[1]
           /\ \A i \in Kindly(EarlyKind) : i = 1
           /\ lane[1].kind # "picked" => staged = Absent
           /\ \A i \in Kindly({"resume"}) : i = 1
  <1>1. lane \in Seq(Jobs) /\ InTurn /\ StagedAlone /\ Resumed
    BY DEF ControlInv, Control, TypeOK
  <1>2. 1 \in DOMAIN lane /\ lane[1] \in Jobs /\ Head1 = lane[1] /\ DOMAIN lane = 1..Len(lane) /\ Len(lane) \in Nat
    BY <1>1, LaneIs
  <1>3. ASSUME NEW i \in Kindly(EarlyKind), i # 1
        PROVE  FALSE
    <2>1. i \in DOMAIN lane /\ 1 < i
      BY <1>2, <1>3 DEF Kindly
    <2> QED
      BY <1>1, <1>2, <2>1 DEF InTurn
  <1>4. ASSUME lane[1].kind # "picked", staged # Absent
        PROVE  FALSE
    BY <1>1, <1>2, <1>4 DEF StagedAlone
  <1> QED
    BY <1>1, <1>2, <1>3, <1>4 DEF Resumed

\* The lane after the running job, with what that job brings forth.
Follows(e) == e = <<>> \/ \E j \in Jobs : e = <<j>> /\ j.kind \in {"recover", "fill"}

LEMMA TailLane ==
    ASSUME lane \in Seq(Jobs), lane # <<>>, NEW e, Follows(e), lane' = Tail(lane) \o e
    PROVE  /\ lane' \in Seq(Jobs)
           /\ \A i \in DOMAIN lane' : \/ i + 1 \in DOMAIN lane /\ lane'[i] = lane[i + 1]
                                      \/ e # <<>> /\ i = Len(lane) /\ lane'[i] = e[1]
           /\ \A i \in DOMAIN lane : i # 1 => i - 1 \in DOMAIN lane' /\ lane'[i - 1] = lane[i]
           /\ e # <<>> => Len(lane) \in DOMAIN lane' /\ lane'[Len(lane)] = e[1]
           /\ Len(lane) \in Nat /\ Len(lane) >= 1 /\ DOMAIN lane = 1..Len(lane)
           /\ DOMAIN lane' \subseteq 1..Len(lane)
           /\ e # <<>> => e[1] \in Jobs /\ e[1].kind \in {"recover", "fill"}
  <1>1. e = <<>> \/ \E j \in Jobs : e = <<j>>
    BY DEF Follows
  <1>2. e # <<>> => e[1] \in Jobs /\ e[1].kind \in {"recover", "fill"}
    BY DEF Follows
  <1>3. Taken(lane, e, lane')
    BY <1>1, TailTaken
  <1> QED
    BY <1>2, <1>3 DEF Taken

\* A job that is not a save ran: nothing lowered early and nothing to resume is left.
LEMMA TurnPasses ==
    ASSUME ControlInv, lane # <<>>, lane[1].kind # "save", NEW e, Follows(e), lane' = Tail(lane) \o e
    PROVE  /\ lane' \in Seq(Jobs)
           /\ \A i \in DOMAIN lane' : lane'[i].kind \notin EarlyKind \cup {"resume"}
           /\ \A i \in DOMAIN lane' : lane'[i].kind = "submit" => i + 1 \in DOMAIN lane /\ lane[i + 1].kind = "submit"
  <1>1. lane \in Seq(Jobs)
    BY DEF ControlInv, TypeOK
  <1>2. ASSUME NEW i \in DOMAIN lane', lane'[i].kind \in EarlyKind \cup {"resume"}
        PROVE  FALSE
    <2>1. i \in Nat /\ i >= 1
      BY <1>1, TailLane
    <2>2. i + 1 \in DOMAIN lane /\ lane'[i] = lane[i + 1]
      <3>1. ~ (e # <<>> /\ lane'[i] = e[1])
        BY <1>1, <1>2, TailLane DEF EarlyKind
      <3> QED
        BY <1>1, <3>1, TailLane
    <2>3. i + 1 = 1
      BY <1>2, <2>2, Turn DEF Kindly
    <2> QED
      BY <2>1, <2>3
  <1>3. ASSUME NEW i \in DOMAIN lane', lane'[i].kind = "submit"
        PROVE  i + 1 \in DOMAIN lane /\ lane[i + 1].kind = "submit"
    <2>1. ~ (e # <<>> /\ lane'[i] = e[1])
      BY <1>1, <1>3, TailLane
    <2> QED
      BY <1>1, <1>3, <2>1, TailLane
  <1> QED
    BY <1>1, <1>2, <1>3, TailLane

\* A document is reached and published.
LEMMA PublishedControl ==
    ASSUME ControlInv, inflight = Absent, inflight' = Absent, lane # <<>>, lane[1].kind # "save",
           NEW document \in Docs, core' = document, disk' \in {disk, document},
           document.block # Absent => document.removed = Absent,
           NEW own \in BOOLEAN, NEW d, d = Observed(document.block, own, buf, inflight),
           publish(document.block, d),
           buf' = d.buf \/ (buf' = Absent /\ document.block = Absent),
           staged' = Absent, NEW e, Follows(e), lane' = Tail(lane) \o e,
           Succession'
    PROVE  Control'
  <1> DEFINE text == document.block
  <1>1. /\ buf \in Buffers \cup {Absent} /\ orphan = FALSE /\ unavailable \in BOOLEAN
        /\ compose \in [on : BOOLEAN, live : BOOLEAN, content : Texts \cup {Absent}]
        /\ text \in Texts \cup {Absent}
        /\ Composing /\ Removal
    BY DEF ControlInv, Control, TypeOK, Docs, Current
  <1>2. /\ d.orphan = FALSE
        /\ d.compose # compose => compose.on /\ text # Absent /\ d.compose = [compose EXCEPT !.content = text]
        /\ d.buf # Absent /\ text # Absent /\ compose.on => d.compose = [compose EXCEPT !.content = text]
        /\ d.buf # Absent /\ text # Absent /\ ~compose.on => d.buf.source = text
        /\ buf # Absent /\ d.buf = Absent => text = Absent
    <2>1. d = Observed(text, own, buf, inflight)
      OBVIOUS
    <2> HIDE DEF text
    <2>2. Observes(text, own, d)
      BY <1>1, <2>1, Observing
    <2> QED
      BY <2>2 DEF Observes
  <1>3. /\ seen' = text /\ stale' = FALSE /\ orphan' = d.orphan
        /\ compose' = [d.compose EXCEPT !.live = @ /\ text # Absent]
        /\ view' = Row(text)
    BY DEF publish
  <1>4. /\ \A i \in DOMAIN lane' : lane'[i].kind \notin EarlyKind \cup {"resume"}
        /\ \A i \in DOMAIN lane' : lane'[i].kind = "submit" => i + 1 \in DOMAIN lane /\ lane[i + 1].kind = "submit"
    BY TurnPasses
  <1>5. view'.timer = view.timer
    BY <1>3 DEF Row, ControlInv, TypeOK
  <1>6. /\ compose'.on = compose.on /\ (compose'.live <=> compose.live /\ text # Absent)
        /\ compose'.content = d.compose.content
    BY <1>1, <1>2, <1>3
  <1> HIDE DEF text
  <1>7. Pending' /\ Current' /\ StagedAlone'
    BY <1>2, <1>3 DEF Pending, Current, StagedAlone, text
  <1>8. Removal'
    BY <1>1, <1>3 DEF Removal
  <1>9. InTurn' /\ Resumed'
    BY <1>4 DEF InTurn, Resumed, Kindly
  <1>10. Composing'
    <2>1. compose'.on => Kindly({"submit"})' = {} /\ ~view'.timer
      BY <1>1, <1>4, <1>5, <1>6 DEF Composing, Kindly
    <2>2. ASSUME ~compose'.on
          PROVE  compose' = NotComposing
      <3>1. d.compose = compose /\ compose = NotComposing
        BY <1>1, <1>2, <1>6, <2>2 DEF Composing
      <3>2. compose' = [NotComposing EXCEPT !.live = @ /\ text # Absent]
        BY <1>3, <3>1
      <3> QED
        BY <3>2 DEF NotComposing
    <2>3. ASSUME compose'.live
          PROVE  /\ buf' # Absent /\ seen' # Absent
                 /\ compose'.content # Absent => compose'.content = seen'
      <3>1. compose.live /\ text # Absent /\ compose.on /\ buf # Absent
        BY <1>1, <1>6, <2>3 DEF Composing, NotComposing
      <3>2. d.buf # Absent /\ buf' = d.buf
        BY <1>2, <3>1 DEF text
      <3>3. d.compose.content = text
        BY <1>1, <1>2, <3>1, <3>2
      <3> QED
        BY <1>3, <1>6, <3>1, <3>2, <3>3
    <2> QED
      BY <2>1, <2>2, <2>3 DEF Composing
  <1>11. Based'
    <2> SUFFICES ASSUME compose'.content = Absent, buf' # Absent, seen' # Absent
                 PROVE  buf'.source = seen'
      BY DEF Based
    <2>1. text # Absent /\ buf' = d.buf /\ d.buf # Absent
      BY <1>3 DEF text
    <2>2. ~compose.on
      <3>1. compose.on => d.compose.content = text
        BY <1>1, <1>2, <2>1
      <3> QED
        BY <1>6, <2>1, <3>1
    <2> QED
      BY <1>2, <1>3, <2>1, <2>2
  <1> QED
    BY <1>7, <1>8, <1>9, <1>10, <1>11 DEF Control

\* A document is reached and its publication fails.
LEMMA WithheldControl ==
    ASSUME ControlInv, inflight = Absent, inflight' = Absent, lane # <<>>,
           lane[1].kind \notin EarlyKind \cup {"save"},
           NEW document \in Docs, core' = document, disk' \in {disk, document},
           document.block # Absent \/ seen # Absent => document.removed = Absent,
           stale' = TRUE, UNCHANGED <<seen, orphan, compose, view, buf, staged>>,
           lane' = Tail(lane), Succession'
    PROVE  Control'
  <1>1. Follows(<<>>) /\ lane' = Tail(lane) \o <<>>
    <2>1. Tail(lane) \in Seq(Jobs)
      BY HeadTailProperties DEF ControlInv, TypeOK
    <2> QED
      BY <2>1, ConcatEmptySeq DEF Follows
  <1>2. /\ \A i \in DOMAIN lane' : lane'[i].kind \notin EarlyKind \cup {"resume"}
        /\ \A i \in DOMAIN lane' : lane'[i].kind = "submit" => i + 1 \in DOMAIN lane /\ lane[i + 1].kind = "submit"
    BY <1>1, TurnPasses
  <1>3. staged = Absent
    BY Turn DEF EarlyKind
  <1>4. Current /\ Composing /\ Removal
    BY DEF ControlInv, Control
  <1>5. Pending' /\ StagedAlone' /\ Based' /\ Current'
    BY <1>3, <1>4 DEF Pending, StagedAlone, Based, Current
  <1>6. Removal'
    BY <1>4 DEF Removal
  <1>7. InTurn' /\ Resumed'
    BY <1>2 DEF InTurn, Resumed, Kindly
  <1>8. Composing'
    BY <1>2, <1>4 DEF Composing, Kindly
  <1> QED
    BY <1>5, <1>6, <1>7, <1>8 DEF Control
-----------------------------------------------------------------------------
(* Steps beside the lane, seen from the types and the control part.        *)

\* The lane keeps its jobs, and gets at most ones that are neither early nor a draft's recovery.
LaneKeeps ==
    /\ lane' \in Seq(Jobs) /\ DOMAIN lane \subseteq DOMAIN lane'
    /\ \A i \in DOMAIN lane : lane'[i] = lane[i]
    /\ \A i \in DOMAIN lane' : i \notin DOMAIN lane =>
          lane'[i].kind \notin EarlyKind \cup {"resume", "recover", "fill"}
    /\ lane # <<>> => lane' # <<>> /\ lane'[1] = lane[1]

LEMMA LaneStays == ASSUME lane \in Seq(Jobs), UNCHANGED lane PROVE LaneKeeps
  <1>1. lane # <<>> => 1 \in DOMAIN lane
    BY LaneIs
  <1> QED
    BY <1>1 DEF LaneKeeps

LEMMA LaneGrows ==
    ASSUME lane \in Seq(Jobs), NEW j \in Jobs, lane' = Append(lane, j),
           j.kind \notin EarlyKind \cup {"resume", "recover", "fill"}
    PROVE  /\ LaneKeeps
           /\ \A i \in DOMAIN lane' : i \notin DOMAIN lane => lane'[i] = j
  <1>1. /\ lane' \in Seq(Jobs) /\ lane' # <<>>
        /\ DOMAIN lane' = DOMAIN lane \cup {Len(lane) + 1}
        /\ \A i \in DOMAIN lane : lane'[i] = lane[i]
        /\ lane'[Len(lane) + 1] = j
        /\ lane # <<>> => lane'[1] = lane[1]
    BY Appended
  <1> QED
    BY <1>1 DEF LaneKeeps

\* flush submits at most the buffer as it is.
LEMMA Flushes ==
    ASSUME lane \in Seq(Jobs), flush
    PROVE  /\ LaneKeeps
           /\ \A i \in DOMAIN lane' : i \notin DOMAIN lane => Unsent /\ lane'[i] = Job("submit", FALSE)
  <1>1. CASE UNCHANGED lane
    BY <1>1, LaneStays
  <1>2. CASE Unsent /\ lane' = Append(lane, Job("submit", FALSE))
    <2>1. /\ Job("submit", FALSE) \in Jobs
          /\ Job("submit", FALSE).kind \notin EarlyKind \cup {"resume", "recover", "fill"}
      <3>1. Job("submit", FALSE) \in Jobs
        BY JobMade, Zenon
      <3>2. Job("submit", FALSE).kind = "submit"
        BY JobIs, Zenon
      <3> QED
        BY <3>1, <3>2 DEF EarlyKind
    <2> QED
      BY <1>2, <2>1, LaneGrows
  <1> QED
    BY <1>1, <1>2 DEF flush, Enqueue

LEMMA QuietControl ==
    ASSUME ControlInv, LaneKeeps, UNCHANGED <<core, disk, seen, stale, inflight, orphan>>,
           staged' \in {staged, Absent} \/ lane' = <<>>,
           inflight # Absent => buf' # Absent /\ buf'.source = buf.source /\ ~compose'.on,
           compose'.live \/ view'.observed => seen # Absent
    PROVE  Pending' /\ Current' /\ Removal' /\ Succession' /\ InTurn' /\ Resumed'
  <1>1. Pending /\ Current /\ Removal /\ Succession /\ InTurn /\ Resumed
    BY DEF ControlInv, Control
  <1>2. Pending'
    BY <1>1 DEF Pending, LaneKeeps
  <1>3. Current' /\ Removal'
    BY <1>1 DEF Current, Removal
  <1>4. Heirs' = Heirs
    BY DEF LaneKeeps, Heirs, Kindly
  <1>5. Succession'
    BY <1>1, <1>4 DEF Succession, Lost
  <1>6. \A i \in Kindly(EarlyKind)' : i \in Kindly(EarlyKind) /\ lane'[i] = lane[i]
    BY DEF LaneKeeps, Kindly
  <1>7. InTurn'
    <2> SUFFICES ASSUME NEW i \in Kindly(EarlyKind)'
                 PROVE  /\ \A j \in DOMAIN lane' : j < i => lane'[j].kind = "save"
                        /\ core'.block # Absent /\ lane'[i].payload.source = core'.block
                        /\ ~stale' /\ inflight' = Absent
      BY DEF InTurn
    <2>1. i \in Kindly(EarlyKind) /\ lane'[i] = lane[i]
      BY <1>6
    <2>2. ASSUME NEW j \in DOMAIN lane', j < i
          PROVE  j \in DOMAIN lane
      <3>1. DOMAIN lane = 1..Len(lane) /\ DOMAIN lane' = 1..Len(lane') /\ Len(lane) \in Nat /\ Len(lane') \in Nat
        <4>1. lane \in Seq(Jobs) /\ lane' \in Seq(Jobs)
          BY DEF ControlInv, TypeOK, LaneKeeps
        <4> QED
          BY <4>1
      <3> QED
        BY <2>1, <2>2, <3>1 DEF Kindly
    <2> QED
      BY <1>1, <2>1, <2>2 DEF InTurn, LaneKeeps
  <1>8. Resumed'
    BY <1>1 DEF Resumed, Kindly, LaneKeeps
  <1> QED
    BY <1>2, <1>3, <1>5, <1>7, <1>8

LEMMA TargetHolds ==
    ASSUME TypeOK, buf # Absent \/ seen # Absent
    PROVE  /\ target \in Buffers
           /\ buf # Absent => target = buf
           /\ buf = Absent => target.source = seen /\ target.visible = seen
  <1>1. CASE buf # Absent
    BY <1>1 DEF target, TypeOK
  <1>2. CASE buf = Absent
    <2>1. seen \in Texts /\ target = createContentBuffer(seen)
      BY <1>2 DEF target, TypeOK
    <2> QED
      BY <1>2, <2>1, SettledBuffer
  <1> QED
    BY <1>1, <1>2

\* What the text of a buffer is changed to.
LEMMA EditHolds ==
    ASSUME NEW b \in Buffers, NEW text \in Texts, NEW r, r = [b EXCEPT !.visible = text]
    PROVE  r \in Buffers /\ r # Absent /\ r.source = b.source /\ r.visible = text
  BY AbsentIsNoData DEF Buffers

LEMMA ControlParts ==
    ASSUME ControlInv
    PROVE  /\ TypeOK /\ lane \in Seq(Jobs)
           /\ Resumed /\ Pending /\ Current /\ Removal /\ Succession /\ InTurn /\ StagedAlone
           /\ Composing /\ Based
  BY DEF ControlInv, Control, TypeOK

LEMMA observeControl ==
    ASSUME ControlInv, observe
    PROVE  ControlInv'
  <1>1. /\ seen # Absent /\ target \in Buffers
        /\ buf # Absent => target = buf
        /\ buf = Absent => target.source = seen
    BY ControlParts, TargetHolds DEF observe
  <1>2. TypeOK'
    <2>1. buf' \in Buffers /\ TypeOK
      BY <1>1, ControlParts DEF observe
    <2>2. view' \in [observed : BOOLEAN, timer : BOOLEAN, menu : BOOLEAN]
      BY <2>1 DEF observe, TypeOK
    <2>3. UNCHANGED <<core, disk, seen, stale, lane, inflight, action, unavailable, orphan, compose,
                      staged, page, told, gone, landed, budget>>
      BY DEF observe, graphVars, draftVars
    <2> QED
      BY <2>1, <2>2, <2>3 DEF TypeOK
  <1>3. buf' = target /\ buf' # Absent
    BY <1>1, AbsentIsNoData DEF observe
  <1>4. LaneKeeps
    BY ControlParts, LaneStays DEF observe
  <1>5. Pending' /\ Current' /\ Removal' /\ Succession' /\ InTurn' /\ Resumed'
    BY <1>1, <1>3, <1>4, ControlParts, QuietControl DEF observe, graphVars, draftVars, Pending
  <1>6. StagedAlone'
    BY <1>1, <1>3, ControlParts DEF observe, graphVars, draftVars, StagedAlone, bufferIsClean
  <1>7. Composing'
    BY <1>3, ControlParts DEF observe, graphVars, draftVars, Composing, Kindly, ControlInv, TypeOK
  <1>8. Based'
    BY <1>1, <1>3, ControlParts DEF observe, graphVars, draftVars, Based, Kindly
  <1> QED
    BY <1>2, <1>5, <1>6, <1>7, <1>8 DEF ControlInv, Control

\* The text of the draft changes under the caret, and the debounce starts over.
LEMMA InputControl ==
    ASSUME ControlInv, Editing, NEW text \in Texts, NEW menu \in BOOLEAN, onInput(text, menu),
           gone' \in SUBSET Nat, budget' \in [typed : Nat, foreign : Nat, deletes : Nat, closes : Nat, faults : Nat]
    PROVE  ControlInv'
  <1>1. buf \in Buffers /\ buf # Absent /\ seen # Absent /\ staged = Absent
    BY ControlParts DEF Editing, TypeOK
  <1>2. buf' \in Buffers /\ buf' # Absent /\ buf'.source = buf.source
    <2>1. buf' = [buf EXCEPT !.visible = text]
      BY DEF onInput
    <2> QED
      BY <1>1, <2>1, EditHolds
  <1>3. view' \in [observed : BOOLEAN, timer : BOOLEAN, menu : BOOLEAN] /\ (compose.on => view'.timer = view.timer)
        /\ view'.observed = view.observed
    BY DEF ControlInv, TypeOK, onInput
  <1>4. TypeOK'
    <2>1. /\ TypeOK /\ told' \in BOOLEAN
          /\ UNCHANGED <<core, disk, seen, stale, lane, inflight, action, unavailable, orphan, compose, staged, page, landed>>
      BY DEF ControlInv, onInput, graphVars, draftVars
    <2> QED
      BY <1>2, <1>3, <2>1 DEF TypeOK
  <1>5. LaneKeeps
    BY ControlParts, LaneStays DEF onInput
  <1>6. Pending' /\ Current' /\ Removal' /\ Succession' /\ InTurn' /\ Resumed'
    BY <1>1, <1>2, <1>5, ControlParts, QuietControl DEF onInput, graphVars, draftVars, Pending
  <1>7. StagedAlone' /\ Composing' /\ Based'
    BY <1>1, <1>2, <1>3, ControlParts DEF onInput, graphVars, draftVars, StagedAlone, Composing, Based, Kindly
  <1> QED
    BY <1>4, <1>6, <1>7 DEF ControlInv, Control

LEMMA Spent ==
    ASSUME TypeOK, NEW what \in {"typed", "foreign", "deletes", "closes", "faults"}, NEW max, Spend(what, max)
    PROVE  budget' \in [typed : Nat, foreign : Nat, deletes : Nat, closes : Nat, faults : Nat]
  <1>1. budget[what] + 1 \in Nat
    BY DEF TypeOK
  <1> QED
    BY <1>1 DEF Spend, TypeOK

LEMMA TypeControl ==
    ASSUME ControlInv, Type
    PROVE  ControlInv'
  <1>1. PICK at \in 1..(Len(buf.visible) + 1), menu \in BOOLEAN :
            /\ Spend("typed", MaxTyped)
            /\ onInput(InsertAt(buf.visible, at, Size + budget.typed + 1), menu)
            /\ UNCHANGED gone
    BY DEF Type
  <1>2. Editing /\ TypeOK
    BY DEF Type, ControlInv
  <1>3. buf \in Buffers /\ buf.visible \in Texts
    BY <1>2, BufferHolds DEF TypeOK, Editing
  <1>4. Size + budget.typed + 1 \in Nat
    BY <1>2, NextAtoms
  <1>5. InsertAt(buf.visible, at, Size + budget.typed + 1) \in Texts
    BY <1>3, <1>4, InsertedAtom
  <1>6. budget' \in [typed : Nat, foreign : Nat, deletes : Nat, closes : Nat, faults : Nat] /\ gone' \in SUBSET Nat
    BY <1>1, <1>2, Spent DEF TypeOK
  <1> QED
    BY <1>1, <1>2, <1>5, <1>6, InputControl

LEMMA EraseControl ==
    ASSUME ControlInv, Erase
    PROVE  ControlInv'
  <1>1. PICK at \in DOMAIN buf.visible :
            /\ Spend("deletes", MaxDeletes)
            /\ onInput(RemoveAt(buf.visible, at), FALSE)
            /\ gone' = gone \cup {buf.visible[at]}
    BY DEF Erase
  <1>2. Editing /\ TypeOK
    BY DEF Erase, ControlInv
  <1>3. buf \in Buffers /\ buf.visible \in Texts
    BY <1>2, BufferHolds DEF TypeOK, Editing
  <1>4. RemoveAt(buf.visible, at) \in Texts /\ buf.visible[at] \in Nat
    BY <1>3, RemovedAtom, TextRange
  <1>5. budget' \in [typed : Nat, foreign : Nat, deletes : Nat, closes : Nat, faults : Nat] /\ gone' \in SUBSET Nat
    BY <1>1, <1>2, <1>4, Spent DEF TypeOK
  <1> QED
    BY <1>1, <1>2, <1>4, <1>5, InputControl

LEMMA closeMenuControl ==
    ASSUME ControlInv, ~Races, closeMenu
    PROVE  ControlInv'
  <1>1. ~compose.on /\ view.menu /\ staged = Absent
    BY ControlParts DEF closeMenu, StagedAlone
  <1>3. LaneKeeps
    BY ControlParts, LaneStays DEF closeMenu
  <1>4. view'.observed = view.observed /\ view' \in [observed : BOOLEAN, timer : BOOLEAN, menu : BOOLEAN]
    BY DEF ControlInv, TypeOK, closeMenu
  <1>2. TypeOK'
    <2>1. /\ TypeOK
          /\ UNCHANGED <<core, disk, seen, stale, lane, buf, inflight, action, unavailable, orphan, compose,
                         staged, page, told, gone, landed, budget>>
      BY DEF ControlInv, closeMenu, graphVars, draftVars
    <2> QED
      BY <1>4, <2>1 DEF TypeOK
  <1>5. Pending' /\ Current' /\ Removal' /\ Succession' /\ InTurn' /\ Resumed'
    BY <1>3, <1>4, ControlParts, QuietControl DEF closeMenu, graphVars, draftVars, Pending, Succession
  <1>6. StagedAlone' /\ Composing' /\ Based'
    BY <1>1, ControlParts DEF closeMenu, graphVars, draftVars, StagedAlone, Composing, Based, Kindly, NotComposing
  <1> QED
    BY <1>2, <1>5, <1>6 DEF ControlInv, Control

LEMMA ViewHolds ==
    ASSUME view \in [observed : BOOLEAN, timer : BOOLEAN, menu : BOOLEAN], NEW t \in BOOLEAN, NEW m \in BOOLEAN
    PROVE  /\ [view EXCEPT !.timer = t] \in [observed : BOOLEAN, timer : BOOLEAN, menu : BOOLEAN]
           /\ [view EXCEPT !.timer = t].observed = view.observed
           /\ [view EXCEPT !.timer = t].menu = view.menu
           /\ [view EXCEPT !.timer = t].timer = t
           /\ [view EXCEPT !.timer = t, !.menu = m] \in [observed : BOOLEAN, timer : BOOLEAN, menu : BOOLEAN]
           /\ [view EXCEPT !.timer = t, !.menu = m].observed = view.observed
           /\ [view EXCEPT !.menu = m, !.timer = t] = [view EXCEPT !.timer = t, !.menu = m]
           /\ [view EXCEPT !.timer = t, !.menu = m].timer = t
           /\ [view EXCEPT !.timer = t, !.menu = m].menu = m
  OBVIOUS

LEMMA commitDraftWithControl ==
    ASSUME ControlInv, ~Races, commitDraftWith
    PROVE  ControlInv'
  <1>1. ~compose.on /\ buf # Absent /\ seen # Absent /\ staged = Absent
    BY DEF commitDraftWith, Editing
  <1>2. view' = [view EXCEPT !.menu = FALSE, !.timer = TRUE]
    BY DEF commitDraftWith
  <1>3. view'.observed = view.observed /\ view' \in [observed : BOOLEAN, timer : BOOLEAN, menu : BOOLEAN]
    BY <1>2, ViewHolds DEF ControlInv, TypeOK
  <1>4. /\ Job("submit", TRUE) \in Jobs
        /\ Job("submit", TRUE).kind \notin EarlyKind \cup {"resume", "recover", "fill"}
    <2>1. Job("submit", TRUE) \in Jobs
      BY JobMade, Zenon
    <2>2. Job("submit", TRUE).kind = "submit"
      BY JobIs, Zenon
    <2> QED
      BY <2>1, <2>2 DEF EarlyKind
  <1>5. LaneKeeps
    <2>1. lane' = Append(lane, Job("submit", TRUE))
      BY DEF commitDraftWith, Enqueue
    <2> QED
      BY <1>4, <2>1, ControlParts, LaneGrows
  <1>6. TypeOK'
    <2>1. /\ TypeOK /\ action' \in Actions /\ lane' \in Seq(Jobs)
          /\ UNCHANGED <<core, disk, seen, stale, buf, inflight, unavailable, orphan, compose,
                         staged, page, told, gone, landed, budget>>
      BY <1>5 DEF ControlInv, commitDraftWith, graphVars, Actions, LaneKeeps
    <2> QED
      BY <1>3, <2>1 DEF TypeOK
  <1>7. Pending' /\ Current' /\ Removal' /\ Succession' /\ InTurn' /\ Resumed'
    BY <1>1, <1>3, <1>5, ControlParts, QuietControl DEF commitDraftWith, graphVars, Pending, Succession
  <1>8. StagedAlone' /\ Composing'
    BY <1>1, ControlParts DEF commitDraftWith, graphVars, StagedAlone, Composing, NotComposing
  <1>9. Based'
    BY <1>5, ControlParts DEF commitDraftWith, graphVars, Based, Kindly, LaneKeeps
  <1> QED
    BY <1>6, <1>7, <1>8, <1>9 DEF ControlInv, Control

LEMMA Released == \A b, o, c, a : release(b, o, c, a) \in {b, Absent} /\ (o \/ c => release(b, o, c, a) = b)
  BY DEF release

\* An empty composition, or none.
LEMMA NotComposed ==
    ASSUME ControlInv, ~compose.on
    PROVE  ~compose.live /\ compose.content = Absent
  BY ControlParts DEF Composing, NotComposing

LEMMA leaveControl ==
    ASSUME ControlInv, ~Races, leave
    PROVE  ControlInv'
  <1>1. ~compose.on /\ ~compose.live /\ staged = Absent /\ staged' = Absent /\ compose' = compose
    BY NotComposed DEF leave
  <1>2. buf' \in {buf, Absent} /\ (inflight # Absent => buf' = buf)
    <2>1. buf' = release(buf, FALSE, inflight # Absent, action)
      BY DEF leave
    <2> QED
      BY <2>1, Released
  <1>3. /\ LaneKeeps
    <2>1. lane \in Seq(Jobs)
      BY ControlParts
    <2>2. flush
      BY DEF leave
    <2> QED
      BY <2>1, <2>2, Flushes
  <1>4. view' \in [observed : BOOLEAN, timer : BOOLEAN, menu : BOOLEAN] /\ ~view'.observed
    BY DEF leave, NoView
  <1>5. TypeOK'
    <2>1. /\ TypeOK /\ lane' \in Seq(Jobs)
          /\ UNCHANGED <<core, disk, seen, stale, inflight, action, unavailable, orphan, compose,
                         page, told, gone, landed, budget>>
      BY <1>3 DEF ControlInv, leave, graphVars, draftVars, LaneKeeps
    <2> QED
      BY <1>1, <1>2, <1>4, <2>1 DEF TypeOK
  <1>6. Pending' /\ Current' /\ Removal' /\ Succession' /\ InTurn' /\ Resumed'
    BY <1>1, <1>2, <1>3, <1>4, ControlParts, QuietControl DEF leave, graphVars, draftVars, Pending
  <1>7. StagedAlone' /\ Composing'
    BY <1>1, ControlParts DEF StagedAlone, Composing, NotComposing
  <1>8. Based'
    BY <1>1, <1>2, <1>3, ControlParts DEF leave, graphVars, draftVars, Based, Kindly, LaneKeeps
  <1> QED
    BY <1>5, <1>6, <1>7, <1>8 DEF ControlInv, Control

LEMMA compositionStartControl ==
    ASSUME ControlInv, ~Races, compositionStart
    PROVE  ControlInv'
  <1>1. ~compose.on /\ buf # Absent /\ seen # Absent /\ staged = Absent /\ Kindly({"submit"}) = {}
    BY DEF compositionStart, Editing, Waiting, Kindly
  <1>2. compose' = [on |-> TRUE, live |-> TRUE, content |-> Absent]
    BY DEF compositionStart
  <1>3. /\ view' \in [observed : BOOLEAN, timer : BOOLEAN, menu : BOOLEAN]
        /\ view'.observed = view.observed /\ view'.timer = FALSE
    BY ViewHolds DEF compositionStart, ControlInv, TypeOK
  <1>4. LaneKeeps
    BY ControlParts, LaneStays DEF compositionStart
  <1>5. inflight = Absent
    <2>1. lane # <<>> => 1 \in DOMAIN lane
      BY ControlParts, LaneIs
    <2> QED
      BY <1>1, <2>1, ControlParts DEF Pending, Kindly
  <1>6. /\ TypeOK
        /\ UNCHANGED <<core, disk, seen, stale, lane, buf, inflight, action, unavailable, orphan,
                       staged, page, told, gone, landed, budget>>
    BY DEF ControlInv, compositionStart, graphVars, draftVars
  <1>7. TypeOK'
    BY <1>2, <1>3, <1>6 DEF TypeOK
  <1>8. Pending' /\ Current' /\ Removal' /\ Succession' /\ InTurn' /\ Resumed'
    BY <1>1, <1>4, <1>5, <1>6, QuietControl
  <1>9. StagedAlone'
    BY <1>1, <1>6 DEF StagedAlone
  <1>10. Composing'
    BY <1>1, <1>2, <1>3, <1>6 DEF Composing, Kindly
  <1>11. Based'
    BY <1>1, <1>6, NotComposed, ControlParts DEF Based, Kindly
  <1> QED
    BY <1>7, <1>8, <1>9, <1>10, <1>11 DEF ControlInv, Control

LEMMA compositionEndControl ==
    ASSUME ControlInv, ~Races, compositionEnd
    PROVE  ControlInv'
  <1>1. /\ compose.live /\ compose.on /\ buf # Absent /\ seen # Absent /\ staged = Absent
        /\ Kindly({"submit"}) = {}
        /\ compose.content # Absent => compose.content = seen
    BY NotComposed, ControlParts DEF compositionEnd, Composing, StagedAlone
  <1>2. compose' = NotComposing /\ ~compose'.on /\ ~compose'.live
    BY DEF compositionEnd, NotComposing
  <1>3. view' \in [observed : BOOLEAN, timer : BOOLEAN, menu : BOOLEAN] /\ view'.observed = view.observed
    <2>1. PICK menu \in BOOLEAN : view' = [view EXCEPT !.timer = ~menu, !.menu = menu]
      BY DEF compositionEnd
    <2> QED
      BY <2>1, ViewHolds DEF ControlInv, TypeOK
  <1>4. LaneKeeps
    BY ControlParts, LaneStays DEF compositionEnd
  <1>5. inflight = Absent
    <2>1. lane # <<>> => 1 \in DOMAIN lane
      BY ControlParts, LaneIs
    <2> QED
      BY <1>1, <2>1, ControlParts DEF Pending, Kindly
  <1>6. /\ TypeOK
        /\ UNCHANGED <<core, disk, seen, stale, lane, inflight, action, unavailable, orphan,
                       staged, page, told, gone, landed, budget>>
    BY DEF ControlInv, compositionEnd, graphVars, draftVars
  <1>7. CASE compose.content = Absent
    <2>1. buf' = buf
      BY <1>7 DEF compositionEnd
    <2>2. Based'
      BY <1>1, <1>6, <1>7, <2>1, ControlParts DEF Based, Kindly
    <2> QED
      <3>1. TypeOK'
        BY <1>2, <1>3, <1>6, <2>1 DEF TypeOK, NotComposing
      <3>2. Pending' /\ Current' /\ Removal' /\ Succession' /\ InTurn' /\ Resumed'
        BY <1>1, <1>4, <1>5, <1>6, QuietControl
      <3>3. StagedAlone' /\ Composing'
        BY <1>1, <1>2, <1>6 DEF StagedAlone, Composing
      <3> QED
        BY <2>2, <3>1, <3>2, <3>3 DEF ControlInv, Control
  <1>8. CASE compose.content # Absent
    <2>1. buf' = rebaseBuffer(buf, seen) /\ buf \in Buffers /\ seen \in Texts
      <3>1. buf' = rebaseBuffer(target, compose.content)
        BY <1>1, <1>8 DEF compositionEnd
      <3> QED
        BY <1>1, <1>6, <1>8, <3>1, TargetHolds DEF TypeOK
    <2>2. buf' \in Buffers /\ buf'.source = seen
      BY <2>1, RebaseHolds
    <2>3. TypeOK'
      BY <1>2, <1>3, <1>6, <2>2 DEF TypeOK, NotComposing
    <2>4. Pending' /\ Current' /\ Removal' /\ Succession' /\ InTurn' /\ Resumed'
      BY <1>1, <1>4, <1>5, <1>6, QuietControl
    <2>5. StagedAlone' /\ Composing' /\ Based'
      BY <1>1, <1>2, <1>6, <2>2 DEF StagedAlone, Composing, Based
    <2> QED
      BY <2>3, <2>4, <2>5 DEF ControlInv, Control
  <1> QED
    BY <1>7, <1>8

\* An edit lowered now gets in line behind saves only.
LEMMA EarlyControl ==
    ASSUME ControlInv, NEW j \in Jobs, j.kind \in EarlyKind, lane' = Append(lane, j),
           \A i \in DOMAIN lane : lane[i].kind = "save",
           core.block # Absent, j.payload.source = core.block, ~stale, inflight = Absent,
           UNCHANGED <<core, disk, seen, stale, inflight, orphan, compose>>,
           view'.observed = view.observed
    PROVE  Pending' /\ Current' /\ Removal' /\ Succession' /\ InTurn' /\ Resumed'
  <1>1. Pending /\ Current /\ Removal /\ Succession /\ InTurn /\ Resumed /\ lane \in Seq(Jobs)
    BY ControlParts
  <1>2. /\ lane' \in Seq(Jobs) /\ lane' # <<>>
        /\ DOMAIN lane' = DOMAIN lane \cup {Len(lane) + 1}
        /\ Len(lane) + 1 \notin DOMAIN lane
        /\ \A i \in DOMAIN lane : lane'[i] = lane[i] /\ i < Len(lane) + 1
        /\ lane'[Len(lane) + 1] = j
    BY <1>1, Appended
  <1>3. Pending' /\ Current' /\ Removal'
    BY <1>1 DEF Pending, Current, Removal
  <1>4. \A i \in DOMAIN lane' : lane'[i].kind \in {"save"} \cup EarlyKind
    BY <1>2
  <1>5. Heirs' = {}
    BY <1>4 DEF Heirs, Kindly, EarlyKind
  <1>6. Succession'
    BY <1>1, <1>5 DEF Succession, Lost
  <1>7. Resumed'
    BY <1>4 DEF Resumed, Kindly, EarlyKind
  <1>8. InTurn'
    <2> SUFFICES ASSUME NEW i \in Kindly(EarlyKind)'
                 PROVE  /\ \A k \in DOMAIN lane' : k < i => lane'[k].kind = "save"
                        /\ core'.block # Absent /\ lane'[i].payload.source = core'.block
                        /\ ~stale' /\ inflight' = Absent
      BY DEF InTurn
    <2>1. i = Len(lane) + 1
      BY <1>2 DEF Kindly, EarlyKind
    <2>2. \A k \in DOMAIN lane' : k < i => k \in DOMAIN lane
      BY <1>2, <2>1
    <2> QED
      BY <1>2, <2>1, <2>2
  <1> QED
    BY <1>3, <1>6, <1>7, <1>8

LEMMA stageDraftSpliceControl ==
    ASSUME ControlInv, ~Races, stageDraftSplice
    PROVE  ControlInv'
  <1>1. /\ buf \in Buffers /\ seen # Absent /\ staged = Absent /\ ~compose.on /\ lane = <<>> /\ ~stale
        /\ action # "retry" /\ ~compose.live /\ compose.content = Absent
    BY NotComposed, ControlParts DEF stageDraftSplice, Editing, Settled, TypeOK
  <1>2. inflight = Absent /\ seen = core.block /\ buf.source = core.block
    <2>1. inflight = Absent /\ seen = core.block
      BY <1>1, ControlParts DEF Pending, Current
    <2>2. Kindly(EarlyKind) = {}
      BY <1>1 DEF Kindly
    <2> QED
      BY <1>1, <2>1, <2>2, ControlParts, AbsentIsNoData DEF Based
  <1>3. staged' = buf /\ buf' = createContentBuffer(buf.visible) /\ buf' \in Buffers /\ buf'.source = buf'.visible
    <2>1. buf.visible \in Texts
      BY <1>1, BufferHolds
    <2> QED
      BY <2>1, SettledBuffer DEF stageDraftSplice, settleBuffer
  <1>4. /\ TypeOK
        /\ UNCHANGED <<core, disk, seen, stale, lane, inflight, action, unavailable, orphan, compose,
                       page, told, gone, landed, budget>>
    BY DEF ControlInv, stageDraftSplice, graphVars, draftVars
  <1>5. /\ view' \in [observed : BOOLEAN, timer : BOOLEAN, menu : BOOLEAN]
        /\ view'.observed = view.observed /\ view'.menu = FALSE
    <2>1. view' = [view EXCEPT !.menu = FALSE, !.timer = TRUE]
      BY DEF stageDraftSplice
    <2> QED
      BY <1>4, <2>1, ViewHolds DEF TypeOK
  <1>6. TypeOK'
    BY <1>1, <1>3, <1>4, <1>5 DEF TypeOK
  <1>7. LaneKeeps
    BY <1>4, ControlParts, LaneStays
  <1>8. Pending' /\ Current' /\ Removal' /\ Succession' /\ InTurn' /\ Resumed'
    BY <1>1, <1>2, <1>4, <1>5, <1>7, ControlParts, QuietControl DEF Succession
  <1>9. StagedAlone'
    BY <1>1, <1>2, <1>3, <1>4, <1>5, AbsentIsNoData DEF StagedAlone, bufferIsClean
  <1>10. Composing'
    BY <1>1, <1>4, ControlParts DEF Composing, NotComposing
  <1>11. Based'
    BY <1>1, <1>3, AbsentIsNoData DEF Based
  <1> QED
    BY <1>6, <1>8, <1>9, <1>10, <1>11 DEF ControlInv, Control

LEMMA StagedJob ==
    ASSUME ControlInv, staged # Absent, ~Waiting({"picked"})
    PROVE  /\ \A i \in DOMAIN lane : lane[i].kind = "save"
           /\ core.block # Absent /\ staged.source = core.block /\ staged \in Buffers /\ ~stale /\ inflight = Absent
           /\ \A k \in {"picked", "prefix"} :
                 Job(k, staged) \in Jobs /\ Job(k, staged).kind = k /\ Job(k, staged).payload = staged
  <1>1. staged \in Buffers
    BY ControlParts DEF TypeOK
  <1>2. \A k \in {"picked", "prefix"} : Job(k, staged) \in Jobs
    BY <1>1, JobMade DEF EarlyKind
  <1> QED
    BY <1>1, <1>2, JobIs, ControlParts DEF StagedAlone, Waiting

LEMMA pickerRunControl ==
    ASSUME ControlInv, pickerRun
    PROVE  ControlInv'
  <1>1. /\ staged # Absent /\ ~Waiting({"picked"}) /\ lane' = Append(lane, Job("picked", staged))
        /\ UNCHANGED <<core, disk, seen, stale, buf, inflight, action, unavailable, orphan, compose, staged, view,
                       page, told, gone, landed, budget>>
    BY DEF pickerRun, Enqueue, graphVars, draftVars
  <1> DEFINE j == Job("picked", staged)
  <1>2. /\ j \in Jobs /\ j.kind = "picked" /\ j.payload = staged
        /\ \A i \in DOMAIN lane : lane[i].kind = "save"
        /\ core.block # Absent /\ staged.source = core.block /\ ~stale /\ inflight = Absent
    BY <1>1, StagedJob
  <1> HIDE DEF j
  <1>3. /\ lane' \in Seq(Jobs)
        /\ DOMAIN lane' = DOMAIN lane \cup {Len(lane) + 1}
        /\ \A i \in DOMAIN lane : lane'[i] = lane[i]
        /\ lane'[Len(lane) + 1] = j
    BY <1>1, <1>2, ControlParts, Appended DEF j
  <1>4. TypeOK'
    BY <1>1, <1>3, ControlParts DEF TypeOK
  <1>5. Pending' /\ Current' /\ Removal' /\ Succession' /\ InTurn' /\ Resumed'
    <2>1. lane' = Append(lane, j) /\ j.kind \in EarlyKind
      BY <1>1, <1>2 DEF j, EarlyKind
    <2> QED
      BY <1>1, <1>2, <2>1, EarlyControl
  <1>6. StagedAlone'
    BY <1>1, <1>2, <1>3, ControlParts DEF StagedAlone, bufferIsClean
  <1>7. Composing' /\ Based'
    BY <1>1, <1>2, <1>3, ControlParts DEF Composing, Based, Kindly, StagedAlone
  <1> QED
    BY <1>4, <1>5, <1>6, <1>7 DEF ControlInv, Control

LEMMA pickerCloseControl ==
    ASSUME ControlInv, pickerClose
    PROVE  ControlInv'
  <1>1. /\ staged # Absent /\ ~Waiting({"picked"}) /\ lane' = Append(lane, Job("prefix", staged)) /\ staged' = Absent
        /\ UNCHANGED <<core, disk, seen, stale, buf, inflight, action, unavailable, orphan, compose, view,
                       page, told, gone, landed, budget>>
    BY DEF pickerClose, Enqueue, graphVars, draftVars
  <1> DEFINE j == Job("prefix", staged)
  <1>2. /\ j \in Jobs /\ j.kind = "prefix" /\ j.payload = staged
        /\ \A i \in DOMAIN lane : lane[i].kind = "save"
        /\ core.block # Absent /\ staged.source = core.block /\ ~stale /\ inflight = Absent
    BY <1>1, StagedJob
  <1> HIDE DEF j
  <1>3. /\ lane' \in Seq(Jobs)
        /\ DOMAIN lane' = DOMAIN lane \cup {Len(lane) + 1}
        /\ \A i \in DOMAIN lane : lane'[i] = lane[i]
        /\ lane'[Len(lane) + 1] = j
    BY <1>1, <1>2, ControlParts, Appended DEF j
  <1>4. TypeOK'
    BY <1>1, <1>3, ControlParts DEF TypeOK
  <1>5. Pending' /\ Current' /\ Removal' /\ Succession' /\ InTurn' /\ Resumed'
    <2>1. lane' = Append(lane, j) /\ j.kind \in EarlyKind
      BY <1>1, <1>2 DEF j, EarlyKind
    <2> QED
      BY <1>1, <1>2, <2>1, EarlyControl
  <1>6. StagedAlone' /\ Composing'
    BY <1>1, ControlParts DEF StagedAlone, Composing
  <1>7. Based'
    <2>1. Len(lane) + 1 \in Kindly(EarlyKind)'
      BY <1>2, <1>3 DEF Kindly, EarlyKind
    <2> QED
      BY <2>1 DEF Based
  <1>8. Composing'
    BY <1>1, <1>2, <1>3, ControlParts DEF Composing, Kindly, StagedAlone
  <1> QED
    BY <1>4, <1>5, <1>6, <1>7, <1>8 DEF ControlInv, Control

\* In an idle lane a word motion is the only job.
LEMMA WordLane ==
    ASSUME ControlInv, ~Races, runVimWordMotion
    PROVE  /\ Editing /\ ~compose.on /\ lane = <<>> /\ ~stale /\ action # "retry"
           /\ buf \in Buffers /\ inflight = Absent /\ seen = core.block /\ buf.source = core.block
           /\ \E at \in DOMAIN buf.visible, edited \in Buffers, j \in Jobs :
                 /\ edited = [buf EXCEPT !.visible = RemoveAt(@, at)]
                 /\ edited.source = buf.source /\ edited.visible = RemoveAt(buf.visible, at)
                 /\ j = Job("word", edited) /\ j.kind = "word" /\ j.payload = edited
                 /\ lane' = Append(lane, j)
                 /\ buf' = createContentBuffer(edited.visible)
                 /\ gone' = gone \cup {buf.visible[at]} /\ buf.visible[at] \in Nat
                 /\ Spend("deletes", MaxDeletes)
  <1>1. Editing /\ ~compose.on /\ lane = <<>> /\ ~stale /\ action # "retry" /\ buf \in Buffers /\ seen # Absent
        /\ staged = Absent
    BY ControlParts DEF runVimWordMotion, Editing, Settled, TypeOK
  <1>2. inflight = Absent /\ seen = core.block /\ buf.source = core.block
    <2>1. inflight = Absent /\ seen = core.block
      BY <1>1, ControlParts DEF Pending, Current
    <2>2. Kindly(EarlyKind) = {}
      BY <1>1 DEF Kindly
    <2> QED
      BY <1>1, <2>1, <2>2, NotComposed, ControlParts, AbsentIsNoData DEF Based
  <1>3. PICK at \in DOMAIN buf.visible :
          LET edited == [buf EXCEPT !.visible = RemoveAt(@, at)] IN
          /\ Spend("deletes", MaxDeletes)
          /\ gone' = gone \cup {buf.visible[at]}
          /\ lane' = lane \o (IF Unsent /\ (lane # <<>> \/ action = "retry")
                           THEN <<Job("submit", FALSE)>> ELSE <<>>)
                          \o <<Job("word", edited)>>
          /\ buf' = settleBuffer(edited)
    BY DEF runVimWordMotion
  <1> DEFINE edited == [buf EXCEPT !.visible = RemoveAt(@, at)]
             j == Job("word", edited)
  <1>4. edited \in Buffers /\ edited.source = buf.source /\ edited.visible = RemoveAt(buf.visible, at)
        /\ buf.visible[at] \in Nat
    <2>1. buf.visible \in Texts /\ RemoveAt(buf.visible, at) \in Texts /\ buf.visible[at] \in Nat
      BY <1>1, BufferHolds, RemovedAtom, TextRange
    <2>2. edited = [buf EXCEPT !.visible = RemoveAt(buf.visible, at)]
      OBVIOUS
    <2> HIDE DEF edited
    <2> QED
      BY <1>1, <2>1, <2>2, EditHolds
  <1>5. j \in Jobs /\ j.kind = "word" /\ j.payload = edited
    <2> HIDE DEF edited
    <2> QED
      BY <1>4, JobMade, JobIs DEF EarlyKind
  <1>6. lane' = Append(lane, j)
    <2>1. lane' = (lane \o <<>>) \o <<j>>
      BY <1>1, <1>3
    <2> HIDE DEF j
    <2>2. <<>> \in Seq(Jobs) /\ lane \in Seq(Jobs)
      BY <1>1
    <2>3. lane \o <<>> = lane
      BY <2>2, ConcatEmptySeq
    <2> QED
      BY <1>5, <2>1, <2>2, <2>3, AppendIsConcat
  <1>7. buf' = createContentBuffer(edited.visible) /\ gone' = gone \cup {buf.visible[at]} /\ Spend("deletes", MaxDeletes)
    BY <1>3 DEF settleBuffer
  <1> HIDE DEF j
  <1>8. j = Job("word", edited)
    BY DEF j
  <1>9. edited = [buf EXCEPT !.visible = RemoveAt(@, at)]
    OBVIOUS
  <1> HIDE DEF edited
  <1> QED
    BY <1>1, <1>2, <1>4, <1>5, <1>6, <1>7, <1>8, <1>9

LEMMA runVimWordMotionControl ==
    ASSUME ControlInv, ~Races, runVimWordMotion
    PROVE  ControlInv'
  <1>1. /\ Editing /\ ~compose.on /\ lane = <<>> /\ ~stale /\ action # "retry"
        /\ buf \in Buffers /\ inflight = Absent /\ seen = core.block /\ buf.source = core.block
    BY WordLane
  <1>2. PICK at \in DOMAIN buf.visible, edited \in Buffers, j \in Jobs :
                 /\ edited.source = buf.source
                 /\ j.kind = "word" /\ j.payload = edited
                 /\ lane' = Append(lane, j)
                 /\ buf' = createContentBuffer(edited.visible)
                 /\ gone' = gone \cup {buf.visible[at]} /\ buf.visible[at] \in Nat
                 /\ Spend("deletes", MaxDeletes)
    BY WordLane
  <1>3. core.block # Absent /\ staged = Absent
    BY <1>1 DEF Editing
  <1>4. /\ TypeOK
        /\ UNCHANGED <<core, disk, seen, stale, inflight, action, unavailable, orphan, compose,
                       staged, page, told, landed>>
    BY DEF ControlInv, runVimWordMotion, graphVars, draftVars
  <1>5. /\ view' \in [observed : BOOLEAN, timer : BOOLEAN, menu : BOOLEAN]
        /\ view'.observed = view.observed
    BY <1>4, ViewHolds DEF runVimWordMotion, TypeOK
  <1>6. buf' \in Buffers
    BY <1>2, BufferHolds, SettledBuffer
  <1>7. /\ lane' \in Seq(Jobs)
        /\ DOMAIN lane' = DOMAIN lane \cup {Len(lane) + 1}
        /\ lane'[Len(lane) + 1] = j
    BY <1>2, ControlParts, Appended
  <1>8. gone' \in SUBSET Nat /\ budget' \in [typed : Nat, foreign : Nat, deletes : Nat, closes : Nat, faults : Nat]
    <2>1. gone \in SUBSET Nat
      BY <1>4 DEF TypeOK
    <2> QED
      BY <1>2, <1>4, <2>1, Spent
  <1>9. TypeOK'
    BY <1>4, <1>5, <1>6, <1>7, <1>8 DEF TypeOK
  <1>10. \A i \in DOMAIN lane : lane[i].kind = "save"
    BY <1>1
  <1>11. Pending' /\ Current' /\ Removal' /\ Succession' /\ InTurn' /\ Resumed'
    BY <1>1, <1>2, <1>3, <1>4, <1>5, <1>10, EarlyControl DEF EarlyKind
  <1>12. StagedAlone' /\ Composing'
    BY <1>1, <1>3, <1>4, ControlParts DEF StagedAlone, Composing, NotComposing
  <1>13. Based'
    <2>1. Len(lane) + 1 \in Kindly(EarlyKind)'
      BY <1>2, <1>7 DEF Kindly, EarlyKind
    <2> QED
      BY <2>1 DEF Based
  <1> QED
    BY <1>9, <1>11, <1>12, <1>13 DEF ControlInv, Control

\* A step that adds at most one ordinary job, and changes nothing the control part speaks of.
LEMMA LaneOnlyControl ==
    ASSUME ControlInv, LaneKeeps,
           UNCHANGED <<core, disk, seen, stale, buf, inflight, orphan, compose, staged>>,
           view'.observed = view.observed, view'.menu = view.menu, view'.timer => view.timer,
           action' = action,
           staged # Absent => \A i \in DOMAIN lane' : i \notin DOMAIN lane => lane'[i].kind = "save",
           compose.on => \A i \in DOMAIN lane' : i \notin DOMAIN lane => lane'[i].kind # "submit"
    PROVE  Control'
  <1>1. Pending' /\ Current' /\ Removal' /\ Succession' /\ InTurn' /\ Resumed'
    BY ControlParts, QuietControl DEF Pending, Succession
  <1>2. StagedAlone'
    <2>1. StagedAlone
      BY ControlParts
    <2> SUFFICES ASSUME staged # Absent PROVE StagedAlone'
      BY DEF StagedAlone
    <2>2. \A i \in DOMAIN lane' : \/ lane'[i].kind = "save"
                                  \/ lane'[i].kind = "picked" /\ lane'[i].payload = staged
      BY <2>1 DEF StagedAlone, LaneKeeps
    <2> QED
      BY <2>1, <2>2 DEF StagedAlone, bufferIsClean
  <1>3. Composing'
    BY ControlParts DEF Composing, Kindly, LaneKeeps
  <1>4. Based'
    BY ControlParts DEF Based, Kindly, LaneKeeps
  <1> QED
    BY <1>1, <1>2, <1>3, <1>4 DEF Control

\* The debounce, and a page that hides, submit nothing beside a staged edit.
LEMMA FlushBeside ==
    ASSUME ControlInv, flush
    PROVE  /\ LaneKeeps /\ lane' \in Seq(Jobs)
           /\ staged # Absent => \A i \in DOMAIN lane' : i \notin DOMAIN lane => lane'[i].kind = "save"
  <1>1. LaneKeeps /\ \A i \in DOMAIN lane' : i \notin DOMAIN lane => Unsent
    BY ControlParts, Flushes
  <1>2. staged # Absent => ~Unsent
    BY ControlParts DEF StagedAlone, Unsent
  <1> QED
    BY <1>1, <1>2 DEF LaneKeeps

LEMMA flushTimerControl ==
    ASSUME ControlInv, flushTimer
    PROVE  ControlInv'
  <1>1. view.timer /\ flush /\ view' = [view EXCEPT !.timer = FALSE]
    BY DEF flushTimer
  <1>2. /\ LaneKeeps /\ lane' \in Seq(Jobs)
        /\ staged # Absent => \A i \in DOMAIN lane' : i \notin DOMAIN lane => lane'[i].kind = "save"
    BY <1>1, FlushBeside
  <1>3. /\ TypeOK
        /\ UNCHANGED <<core, disk, seen, stale, buf, inflight, action, unavailable, orphan, compose,
                       staged, page, told, gone, landed, budget>>
    BY DEF ControlInv, flushTimer, graphVars, draftVars
  <1>4. /\ view' \in [observed : BOOLEAN, timer : BOOLEAN, menu : BOOLEAN]
        /\ view'.observed = view.observed /\ view'.menu = view.menu /\ view'.timer = FALSE
    BY <1>1, <1>3, ViewHolds DEF TypeOK
  <1>5. TypeOK'
    BY <1>2, <1>3, <1>4 DEF TypeOK
  <1>6. ~compose.on
    BY <1>1, ControlParts DEF Composing
  <1>7. Control'
    BY <1>2, <1>3, <1>4, <1>6, LaneOnlyControl
  <1> QED
    BY <1>5, <1>7 DEF ControlInv

LEMMA UnsavedHolds ==
    ASSUME TypeOK
    PROVE  /\ unsaved \in Records \cup {Absent}
           /\ unsaved = Absent => buf = Absent \/ (inflight = Absent /\ bufferIsClean(buf))
  <1>1. CASE buf = Absent \/ (inflight = Absent /\ bufferIsClean(buf))
    BY <1>1 DEF unsaved
  <1>2. CASE ~(buf = Absent \/ (inflight = Absent /\ bufferIsClean(buf)))
    <2>1. buf \in Buffers /\ inflight \in Buffers \cup {Absent}
      BY <1>2 DEF TypeOK
    <2>2. buf.source \in Texts /\ buf.visible \in Texts /\ (inflight # Absent => inflight.source \in Texts)
      BY <2>1, BufferHolds
    <2>3. unsaved = [bases |-> {buf.source} \cup (IF inflight = Absent THEN {} ELSE {inflight.source}),
                     content |-> buf.visible]
      BY <1>2 DEF unsaved
    <2>4. unsaved \in Records
      BY <2>2, <2>3 DEF Records
    <2> QED
      BY <2>4, AbsentIsNoData
  <1> QED
    BY <1>1, <1>2

LEMMA hideControl ==
    ASSUME ControlInv, hide
    PROVE  ControlInv'
  <1>1. /\ TypeOK
        /\ UNCHANGED <<core, disk, seen, stale, buf, inflight, action, unavailable, orphan, compose,
                       staged, told, gone, landed, budget>>
    BY DEF ControlInv, hide, graphVars, draftVars
  <1>2. page' \in [shown : BOOLEAN, kept : Records \cup {Absent}, unsavedKept : BOOLEAN, dropped : SUBSET Nat]
    <2>1. page' = [page EXCEPT !.shown = FALSE, !.kept = unsaved, !.unsavedKept = unsaved # Absent]
      BY DEF hide
    <2>2. unsaved \in Records \cup {Absent} /\ (unsaved # Absent) \in BOOLEAN
      BY <1>1, UnsavedHolds
    <2> HIDE DEF unsaved
    <2> QED
      BY <1>1, <2>1, <2>2 DEF TypeOK
  <1>3. /\ view' \in [observed : BOOLEAN, timer : BOOLEAN, menu : BOOLEAN]
        /\ view'.observed = view.observed /\ view'.menu = view.menu /\ (view'.timer => view.timer)
    <2>1. view' = view \/ view' = [view EXCEPT !.timer = FALSE]
      BY DEF hide
    <2>2. view \in [observed : BOOLEAN, timer : BOOLEAN, menu : BOOLEAN]
      BY <1>1 DEF TypeOK
    <2> QED
      BY <2>1, <2>2
  <1>4. /\ LaneKeeps /\ lane' \in Seq(Jobs)
        /\ staged # Absent => \A i \in DOMAIN lane' : i \notin DOMAIN lane => lane'[i].kind = "save"
        /\ compose.on => lane' = lane
    <2>1. CASE compose.on
      BY <2>1, <1>1, ControlParts, LaneStays DEF hide
    <2>2. CASE ~compose.on
      BY <2>2, FlushBeside DEF hide
    <2> QED
      BY <2>1, <2>2
  <1>5. TypeOK'
    BY <1>1, <1>2, <1>3, <1>4 DEF TypeOK
  <1>6. Control'
    BY <1>1, <1>3, <1>4, LaneOnlyControl
  <1> QED
    BY <1>5, <1>6 DEF ControlInv

LEMMA showControl ==
    ASSUME ControlInv, show
    PROVE  ControlInv'
  <1>1. /\ TypeOK
        /\ UNCHANGED <<core, disk, seen, stale, lane, buf, inflight, action, unavailable, orphan, compose,
                       staged, view, told, gone, landed, budget>>
    BY DEF ControlInv, show, graphVars, draftVars
  <1>2. page' \in [shown : BOOLEAN, kept : Records \cup {Absent}, unsavedKept : BOOLEAN, dropped : SUBSET Nat]
    BY <1>1 DEF show, TypeOK
  <1>3. TypeOK'
    BY <1>1, <1>2 DEF TypeOK
  <1>4. LaneKeeps
    BY <1>1, ControlParts, LaneStays
  <1>5. Control'
    BY <1>1, <1>4, LaneOnlyControl
  <1> QED
    BY <1>3, <1>5 DEF ControlInv

\* Another replica's change, a structural command or a save gets in line.
LEMMA ArrivalControl ==
    ASSUME ControlInv, NEW j \in Jobs, lane' = Append(lane, j),
           j.kind \in {"insert", "delete", "remove", "local", "save"},
           j.kind = "save" \/ staged = Absent,
           UNCHANGED <<core, disk, seen, stale, buf, inflight, action, unavailable, orphan, compose,
                       staged, view, page, told, gone, landed>>,
           budget' \in [typed : Nat, foreign : Nat, deletes : Nat, closes : Nat, faults : Nat]
    PROVE  ControlInv'
  <1>1. LaneKeeps /\ \A i \in DOMAIN lane' : i \notin DOMAIN lane => lane'[i] = j
    BY ControlParts, LaneGrows DEF EarlyKind
  <1>2. TypeOK'
    BY <1>1, ControlParts DEF TypeOK, LaneKeeps
  <1>3. Control'
    BY <1>1, LaneOnlyControl
  <1> QED
    BY <1>2, <1>3 DEF ControlInv

LEMMA remoteArrivesControl ==
    ASSUME ControlInv, ~Races, remoteArrives
    PROVE  ControlInv'
  <1>1. /\ staged = Absent /\ TypeOK
        /\ UNCHANGED <<core, disk, seen, stale, buf, inflight, action, unavailable, orphan, compose,
                       staged, view, page, told, gone, landed>>
    BY DEF ControlInv, remoteArrives, graphVars, draftVars
  <1>2. budget' \in [typed : Nat, foreign : Nat, deletes : Nat, closes : Nat, faults : Nat]
    BY <1>1, Spent DEF remoteArrives
  <1>3. CASE lane' = Append(lane, Job("insert", Size + MaxTyped + budget.foreign + 1))
    <2> DEFINE p == Size + MaxTyped + budget.foreign + 1
    <2>1. p \in Nat
      BY <1>1, NextAtoms
    <2> HIDE DEF p
    <2>2. Job("insert", p) \in Jobs /\ Job("insert", p).kind = "insert"
      BY <2>1, JobMade, JobIs
    <2> QED
      BY <1>1, <1>2, <1>3, <2>2, ArrivalControl DEF p
  <1>4. CASE \E kind \in {"delete", "remove"} : lane' = Append(lane, Job(kind, Absent))
    <2>1. PICK kind \in {"delete", "remove"} : lane' = Append(lane, Job(kind, Absent))
      BY <1>4
    <2>2. Job(kind, Absent) \in Jobs /\ Job(kind, Absent).kind = kind
      BY JobMade, JobIs
    <2> QED
      BY <1>1, <1>2, <2>1, <2>2, ArrivalControl
  <1> QED
    BY <1>3, <1>4 DEF remoteArrives, Enqueue

LEMMA localArrivesControl ==
    ASSUME ControlInv, localArrives
    PROVE  ControlInv'
  <1>1. PICK change \in {"remove", "undo"} : Spend("deletes", MaxDeletes) /\ lane' = Append(lane, Job("local", change))
    BY DEF localArrives, Enqueue
  <1>2. /\ staged = Absent /\ TypeOK
        /\ UNCHANGED <<core, disk, seen, stale, buf, inflight, action, unavailable, orphan, compose,
                       staged, view, page, told, gone, landed>>
    BY DEF ControlInv, localArrives, graphVars, draftVars
  <1>3. budget' \in [typed : Nat, foreign : Nat, deletes : Nat, closes : Nat, faults : Nat]
    BY <1>1, <1>2, Spent
  <1>4. Job("local", change) \in Jobs /\ Job("local", change).kind = "local"
    BY JobMade, JobIs
  <1> QED
    BY <1>1, <1>2, <1>3, <1>4, ArrivalControl

LEMMA retryControl ==
    ASSUME ControlInv, retry
    PROVE  ControlInv'
  <1>1. lane' = Append(lane, Job("save", Absent))
    BY DEF retry, Enqueue
  <1>2. /\ TypeOK
        /\ UNCHANGED <<core, disk, seen, stale, buf, inflight, action, unavailable, orphan, compose,
                       staged, view, page, told, gone, landed, budget>>
    BY DEF ControlInv, retry, graphVars, draftVars
  <1>3. budget' \in [typed : Nat, foreign : Nat, deletes : Nat, closes : Nat, faults : Nat]
    BY <1>2 DEF TypeOK
  <1>4. Job("save", Absent) \in Jobs /\ Job("save", Absent).kind = "save"
    BY JobMade, JobIs
  <1> QED
    BY <1>1, <1>2, <1>3, <1>4, ArrivalControl

\* What a submission at the Worker makes of the document.
LEMMA SubmittedHolds ==
    ASSUME ControlInv, inflight # Absent, Accepted
    PROVE  /\ Submitted \in Docs /\ Submitted.block \in Texts /\ core.block # Absent
           /\ Submitted.heir = core.heir /\ Submitted.removed = core.removed
           /\ Submitted.block = bufferSplices(inflight, inflight.source)
           /\ inflight \in Buffers /\ inflight.source = core.block
           /\ Range(Submitted.block) = Range(inflight.visible)
           /\ IsInjective(core.block) /\ IsInjective(inflight.visible) => IsInjective(Submitted.block)
           /\ Submitted.acted = IF action = "sent" THEN core.acted + 1 ELSE core.acted
  <1>1. core \in Docs /\ inflight \in Buffers /\ core.block # Absent /\ inflight.source = core.block
    BY ControlParts DEF TypeOK, Pending, Accepted
  <1>2. /\ bufferSplices(inflight, inflight.source) \in Texts
        /\ Range(bufferSplices(inflight, inflight.source)) = Range(inflight.visible)
        /\ IsInjective(inflight.source) /\ IsInjective(inflight.visible) =>
               IsInjective(bufferSplices(inflight, inflight.source))
    BY <1>1, SplicesOfSource
  <1> DEFINE text == bufferSplices(inflight, core.block)
             acted == IF action = "sent" THEN core.acted + 1 ELSE core.acted
  <1>3. Submitted = [core EXCEPT !.block = text, !.acted = acted]
    BY <1>1 DEF Submitted, Docs
  <1>4. text \in Texts /\ text = bufferSplices(inflight, inflight.source)
    BY <1>1, <1>2
  <1>5. acted \in Nat
    BY <1>1 DEF Docs
  <1> HIDE DEF text, acted
  <1>6. /\ Submitted \in Docs /\ Submitted.block = text /\ Submitted.acted = acted
        /\ Submitted.heir = core.heir /\ Submitted.removed = core.removed
    BY <1>1, <1>3, <1>4, <1>5 DEF Docs
  <1> QED
    BY <1>1, <1>2, <1>4, <1>6 DEF acted

LEMMA discardControl ==
    ASSUME ControlInv, ~Races, discard
    PROVE  ControlInv'
  <1>1. TypeOK /\ Removal /\ Succession
    BY ControlParts
  <1>2. /\ disk' \in Docs
        /\ disk'.block # Absent => disk'.removed = Absent
        /\ disk'.heir # Absent => disk'.block = Absent /\ disk'.removed = Absent
    <2>1. CASE disk' = disk
      BY <1>1, <2>1 DEF TypeOK, Removal, Succession
    <2>2. CASE inflight # Absent /\ Accepted /\ disk' = Submitted
      <3>1. core.block # Absent /\ core.removed = Absent /\ core.heir = Absent
        BY <1>1, <2>2, SubmittedHolds DEF Removal, Succession, Lost
      <3> QED
        BY <2>2, <3>1, SubmittedHolds
    <2> QED
      BY <2>1, <2>2 DEF discard
  <1>3. /\ core' = disk' /\ seen' = disk'.block /\ stale' = FALSE
        /\ lane' = IF page.kept = Absent THEN <<>> ELSE <<Job("resume", page.kept)>>
        /\ buf' = Absent /\ inflight' = Absent /\ unavailable' = FALSE /\ orphan' = FALSE
        /\ action' = IF action \in {"queued", "sent", "retry"} THEN "dropped" ELSE action
        /\ compose' = NotComposing /\ staged' = Absent /\ view' = NoView /\ told' = FALSE
        /\ page' = [page EXCEPT !.shown = TRUE, !.unsavedKept = FALSE]
        /\ gone' = gone \cup ((Text(core.block) \cup Text(core.heir))
                                \ (Text(disk'.block) \cup Text(disk'.heir)))
        /\ landed' = landed \cup Text(disk'.block)
        /\ Spend("closes", MaxCloses)
    BY DEF discard
  <1>4. /\ lane' \in Seq(Jobs)
        /\ \A i \in DOMAIN lane' : i = 1 /\ lane'[i].kind = "resume"
    <2>1. CASE page.kept = Absent
      BY <1>3, <2>1
    <2>2. CASE page.kept # Absent
      <3> DEFINE j == Job("resume", page.kept)
      <3>1. j \in Jobs /\ j.kind = "resume"
        BY <1>1, <2>2, JobMade, JobIs DEF TypeOK
      <3>2. lane' = <<j>>
        BY <1>3, <2>2
      <3> HIDE DEF j
      <3> QED
        BY <3>1, <3>2
    <2> QED
      BY <2>1, <2>2
  <1>5. \A t \in Texts \cup {Absent} : Text(t) \subseteq Nat
    BY TextRange DEF Text
  <1>6. core.block \in Texts \cup {Absent} /\ core.heir \in Texts \cup {Absent} /\ disk'.block \in Texts \cup {Absent}
    BY <1>1, <1>2 DEF TypeOK, Docs
  <1>7. budget' \in [typed : Nat, foreign : Nat, deletes : Nat, closes : Nat, faults : Nat]
    BY <1>1, <1>3, Spent
  <1>8. TypeOK'
    <2>1. gone' \in SUBSET Nat /\ landed' \in SUBSET Nat
      BY <1>1, <1>3, <1>5, <1>6 DEF TypeOK
    <2>2. action' \in Actions /\ page' \in [shown : BOOLEAN, kept : Records \cup {Absent}, unsavedKept : BOOLEAN, dropped : SUBSET Nat]
      BY <1>1, <1>3 DEF TypeOK, Actions
    <2>3. core' \in Docs /\ seen' \in Texts \cup {Absent}
      BY <1>2, <1>3, <1>6
    <2> QED
      BY <1>2, <1>3, <1>4, <1>7, <2>1, <2>2, <2>3 DEF TypeOK, NotComposing, NoView
  <1>9. Heirs' = {} /\ Kindly(EarlyKind)' = {} /\ Kindly({"submit"})' = {}
    BY <1>4 DEF Heirs, Kindly, EarlyKind
  <1>10. Pending' /\ Current' /\ Removal' /\ StagedAlone' /\ Based'
    BY <1>2, <1>3 DEF Pending, Current, Removal, StagedAlone, Based
  <1>11. Succession'
    BY <1>2, <1>3, <1>9 DEF Succession, Lost, NotComposing, NoView
  <1>12. InTurn' /\ Resumed' /\ Composing'
    BY <1>3, <1>4, <1>9 DEF InTurn, Resumed, Composing, Kindly, NotComposing
  <1> QED
    BY <1>8, <1>10, <1>11, <1>12 DEF ControlInv, Control
-----------------------------------------------------------------------------
(* Jobs of the lane, seen from the types and the control part.             *)

\* A draft's recovery is the only work a step of the lane brings forth.
LEMMA HeirsPass ==
    ASSUME lane \in Seq(Jobs), lane # <<>>, NEW e, Follows(e), lane' = Tail(lane) \o e
    PROVE  \A i \in Heirs' : \/ i + 1 \in Heirs /\ i + 1 # 1
                             \/ e # <<>> /\ i = Len(lane)
  <1> SUFFICES ASSUME NEW i \in Heirs'
               PROVE  \/ i + 1 \in Heirs /\ i + 1 # 1
                      \/ e # <<>> /\ i = Len(lane)
    OBVIOUS
  <1>1. i \in DOMAIN lane' /\ lane'[i].kind \in {"recover", "fill"}
    BY DEF Heirs, Kindly
  <1>2. \/ i + 1 \in DOMAIN lane /\ lane'[i] = lane[i + 1]
        \/ e # <<>> /\ i = Len(lane)
    BY <1>1, TailLane
  <1>3. i \in Nat /\ i # 0
    <2>1. DOMAIN lane' \subseteq 1..Len(lane) /\ Len(lane) \in Nat
      BY TailLane
    <2> QED
      BY <1>1, <2>1
  <1> QED
    BY <1>1, <1>2, <1>3 DEF Heirs, Kindly

LEMMA NothingFollows ==
    ASSUME lane \in Seq(Jobs), lane # <<>>, lane' = Tail(lane)
    PROVE  Follows(<<>>) /\ lane' = Tail(lane) \o <<>> /\ lane' \in Seq(Jobs)
  <1>1. Tail(lane) \in Seq(Jobs)
    BY HeadTailProperties
  <1> QED
    BY <1>1, ConcatEmptySeq DEF Follows

\* A job leaves the lane and the document, the draft and the surface as they are.
LEMMA PassedControl ==
    ASSUME ControlInv, inflight = Absent, inflight' = Absent, lane # <<>>,
           lane[1].kind \notin EarlyKind \cup {"save"}, lane' = Tail(lane),
           UNCHANGED <<core, disk, seen, stale, orphan, compose, staged, view, buf>>
    PROVE  Control'
  <1>1. Follows(<<>>) /\ lane' = Tail(lane) \o <<>> /\ lane \in Seq(Jobs)
    BY ControlParts, NothingFollows
  <1>2. /\ \A i \in DOMAIN lane' : lane'[i].kind \notin EarlyKind \cup {"resume"}
        /\ \A i \in DOMAIN lane' : lane'[i].kind = "submit" => i + 1 \in DOMAIN lane /\ lane[i + 1].kind = "submit"
    BY <1>1, TurnPasses
  <1>3. staged = Absent /\ \A i \in Kindly(EarlyKind) : i = 1
    BY Turn DEF EarlyKind
  <1>4. Current /\ Composing /\ Removal /\ Succession /\ Based
    BY ControlParts
  <1>5. Kindly(EarlyKind) = {}
    BY <1>3 DEF Kindly
  <1>6. Pending' /\ StagedAlone' /\ Current' /\ Removal'
    BY <1>3, <1>4 DEF Pending, StagedAlone, Current, Removal
  <1>7. Based'
    BY <1>4, <1>5 DEF Based
  <1>8. InTurn' /\ Resumed'
    BY <1>2 DEF InTurn, Resumed, Kindly
  <1>9. Composing'
    BY <1>2, <1>4 DEF Composing, Kindly
  <1>10. \A i \in Heirs' : i + 1 \in Heirs /\ i \in Nat
    <2>1. \A i \in Heirs' : i + 1 \in Heirs
      BY <1>1, HeirsPass
    <2>2. \A i \in Heirs' : i \in Nat
      BY <1>1, TailLane DEF Heirs, Kindly
    <2> QED
      BY <2>1, <2>2
  <1>11. \A i, j \in Heirs' : i = j
    <2> SUFFICES ASSUME NEW i \in Heirs', NEW j \in Heirs' PROVE i = j
      OBVIOUS
    <2>1. i + 1 = j + 1 /\ i \in Nat /\ j \in Nat
      BY <1>4, <1>10 DEF Succession
    <2> QED
      BY <2>1
  <1>12. Succession'
    BY <1>4, <1>10, <1>11 DEF Succession, Lost
  <1> QED
    BY <1>6, <1>7, <1>8, <1>9, <1>12 DEF Control

LEMMA FaultHolds ==
    ASSUME TypeOK, NEW happens \in BOOLEAN, Fault(happens)
    PROVE  budget' \in [typed : Nat, foreign : Nat, deletes : Nat, closes : Nat, faults : Nat]
  <1>1. CASE happens
    BY <1>1, Spent DEF Fault
  <1>2. CASE ~happens
    BY <1>2 DEF Fault, TypeOK
  <1> QED
    BY <1>1, <1>2

\* A command that fails before it applies takes nothing with it.
LEMMA FailedControl ==
    ASSUME ControlInv, inflight = Absent, lane # <<>>, lane[1].kind \notin EarlyKind \cup {"save"},
           JobFails, UNCHANGED stale,
           budget' \in [typed : Nat, foreign : Nat, deletes : Nat, closes : Nat, faults : Nat]
    PROVE  ControlInv' /\ UNCHANGED <<buf, gone, landed>>
  <1>1. Head1 = lane[1] /\ lane[1].kind # "word" /\ lane[1].kind # "prefix" /\ lane \in Seq(Jobs)
    BY Turn, ControlParts DEF EarlyKind
  <1>2. /\ lane' = Tail(lane) /\ buf' = buf /\ gone' = gone
        /\ UNCHANGED <<core, disk, seen, inflight, orphan, compose, staged, view, page, landed>>
    BY <1>1 DEF JobFails
  <1>3. told' \in BOOLEAN /\ action' \in Actions /\ unavailable' \in BOOLEAN
    BY ControlParts DEF JobFails, Actions, TypeOK
  <1>4. lane' \in Seq(Jobs)
    BY <1>1, <1>2, NothingFollows
  <1>5. TypeOK'
    BY <1>2, <1>3, <1>4, ControlParts DEF TypeOK
  <1>6. Control'
    BY <1>1, <1>2, PassedControl
  <1> QED
    BY <1>2, <1>5, <1>6 DEF ControlInv

\* Nothing recovers a draft while the block is there.
LEMMA NoHeirs ==
    ASSUME ControlInv, core.block # Absent \/ core.removed # Absent \/ seen # Absent
    PROVE  Heirs = {} /\ core.heir = Absent
  BY ControlParts DEF Succession, Lost

LEMMA RecoveryFollows ==
    ASSUME NEW d
    PROVE  /\ Follows(Recovery(d))
           /\ Recovery(d) # <<>> => d.recover
  <1>1. CASE d.recover
    <2>1. Job("recover", Absent) \in Jobs /\ Job("recover", Absent).kind = "recover"
      BY JobMade, JobIs
    <2> QED
      BY <1>1, <2>1 DEF Recovery, Follows
  <1>2. CASE ~d.recover
    BY <1>2 DEF Recovery, Follows
  <1> QED
    BY <1>1, <1>2

LEMMA ObservingNow ==
    ASSUME TypeOK, orphan = FALSE, inflight = Absent, NEW document \in Docs, NEW own \in BOOLEAN,
           NEW d, d = Observed(document.block, own, buf, inflight)
    PROVE  Observes(document.block, own, d)
  <1> DEFINE text == document.block
  <1>1. /\ buf \in Buffers \cup {Absent} /\ unavailable \in BOOLEAN /\ text \in Texts \cup {Absent}
        /\ compose \in [on : BOOLEAN, live : BOOLEAN, content : Texts \cup {Absent}]
    BY DEF TypeOK, Docs
  <1>2. d = Observed(text, own, buf, inflight)
    OBVIOUS
  <1> HIDE DEF text
  <1>3. Observes(text, own, d)
    BY <1>1, <1>2, Observing
  <1> QED
    BY <1>3 DEF text

\* The surface after a publication.
LEMMA PublishedView ==
    ASSUME TypeOK, NEW text, NEW d, publish(text, d),
           d.compose \in [on : BOOLEAN, live : BOOLEAN, content : Texts \cup {Absent}]
    PROVE  /\ view' \in [observed : BOOLEAN, timer : BOOLEAN, menu : BOOLEAN]
           /\ compose' \in [on : BOOLEAN, live : BOOLEAN, content : Texts \cup {Absent}]
           /\ text = Absent => ~compose'.live /\ ~view'.observed
           /\ compose'.content = d.compose.content /\ compose'.on = d.compose.on
           /\ view'.observed => view.observed
           /\ compose'.live => d.compose.live
  <1>1. view' = Row(text) /\ compose' = [d.compose EXCEPT !.live = @ /\ text # Absent]
    BY DEF publish
  <1>2. /\ view' \in [observed : BOOLEAN, timer : BOOLEAN, menu : BOOLEAN]
        /\ text = Absent => ~view'.observed
        /\ view'.observed => view.observed
    BY <1>1 DEF Row, TypeOK
  <1>3. PICK l \in BOOLEAN : l = (d.compose.live /\ text # Absent)
    OBVIOUS
  <1>4. compose' = [d.compose EXCEPT !.live = l]
    BY <1>1, <1>3
  <1> QED
    BY <1>2, <1>3, <1>4

\* A document that is published while nothing recovers.
LEMMA PublishedSuccession ==
    ASSUME ControlInv, Heirs = {}, core.heir = Absent, lane # <<>>,
           NEW document \in Docs, document.heir = Absent, core' = document, disk' \in {disk, document},
           NEW own \in BOOLEAN, inflight = Absent,
           NEW d, d = Observed(document.block, own, buf, inflight),
           publish(document.block, d), d.recover => document.removed = Absent,
           NEW e, e = Recovery(d), lane' = Tail(lane) \o e
    PROVE  Succession'
  <1>1. /\ lane \in Seq(Jobs) /\ Succession /\ TypeOK /\ orphan = FALSE
    BY ControlParts DEF Current
  <1>2. Observes(document.block, own, d)
    BY <1>1, ObservingNow
  <1>3. /\ seen' = document.block
        /\ seen' = Absent => ~compose'.live /\ ~view'.observed
    BY <1>1, <1>2, PublishedView DEF publish, Observes
  <1>4. Follows(e) /\ (e # <<>> => d.recover)
    BY RecoveryFollows
  <1>5. \A i \in Heirs' : d.recover /\ i = Len(lane)
    BY <1>1, <1>4, HeirsPass
  <1>6. d.recover => document.block = Absent /\ document.removed = Absent
    BY <1>2 DEF Observes
  <1>7. disk'.heir = Absent
    BY <1>1 DEF Succession
  <1> QED
    BY <1>3, <1>5, <1>6, <1>7 DEF Succession, Lost

\* Another document of the Worker, with the types of what a step leaves of it.
LEMMA ReachedHolds ==
    ASSUME TypeOK, NEW document \in Docs, NEW saved \in BOOLEAN, Reached(document, saved)
    PROVE  /\ core' = document /\ disk' \in {disk, document} /\ disk' \in Docs
           /\ landed' = landed \cup Text(document.block) /\ landed' \in SUBSET Nat
  <1>1. Text(document.block) \subseteq Nat
    BY TextRange DEF Text, Docs
  <1> QED
    BY <1>1 DEF Reached, TypeOK

\* What Execute did, beside what its caller makes of the draft.
Executed(document, own, e, saved, ok, d) ==
    /\ d = Observed(document.block, own, buf, inflight)
    /\ ok \/ ~Delicate
    /\ Fault(~saved \/ ~ok)
    /\ Reached(document, saved)
    /\ lane' = Tail(lane) \o e \o (IF ok THEN Recovery(d) ELSE <<>>)
    /\ ok => publish(document.block, d)
    /\ ~ok => stale' = TRUE /\ UNCHANGED <<seen, orphan, compose, view>>
    /\ UNCHANGED <<inflight, action>>

LEMMA PlainExecuted ==
    ASSUME ~Races, NEW document, NEW own, Execute(document, own, NoJobs, Plain)
    PROVE  \E saved, ok \in BOOLEAN : \E d :
              /\ Executed(document, own, <<>>, saved, ok, d)
              /\ buf' = IF ok THEN d.buf ELSE buf
              /\ unavailable' = IF ok THEN d.unavailable ELSE unavailable
  <1>1. PICK saved \in BOOLEAN, ok \in BOOLEAN :
            LET d == Observed(document.block, own, buf, inflight) IN
            /\ ok \/ Races \/ ~Delicate
            /\ Fault(~saved \/ ~ok)
            /\ Reached(document, saved)
            /\ lane' = Tail(lane) \o NoJobs(ok) \o (IF ok THEN Recovery(d) ELSE <<>>)
            /\ IF ok THEN publish(document.block, d) /\ Plain(ok, d)
               ELSE /\ stale' = TRUE
                    /\ Plain(ok, Unchanged(buf))
                    /\ UNCHANGED <<seen, orphan, compose, view>>
            /\ UNCHANGED <<inflight, action>>
    BY Zenon DEF Execute
  <1> DEFINE d == Observed(document.block, own, buf, inflight)
  <1>2. Unchanged(buf).buf = buf /\ Unchanged(buf).unavailable = unavailable
    BY DEF Unchanged, Draft
  <1>3. ok => buf' = d.buf /\ unavailable' = d.unavailable
    BY <1>1 DEF Plain
  <1>4. ~ok => buf' = buf /\ unavailable' = unavailable
    BY <1>1, <1>2 DEF Plain
  <1>5. NoJobs(ok) = <<>>
    BY DEF NoJobs
  <1>6. Executed(document, own, <<>>, saved, ok, d)
    BY <1>1, <1>5 DEF Executed
  <1> HIDE DEF d
  <1> QED
    BY <1>3, <1>4, <1>6

LEMMA ExecutedControl ==
    ASSUME ControlInv, inflight = Absent, lane # <<>>, lane[1].kind # "save",
           Heirs = {}, core.heir = Absent, staged' = Absent,
           NEW document \in Docs, document.heir = Absent, document.block # Absent => document.removed = Absent,
           NEW own \in BOOLEAN, NEW saved \in BOOLEAN, NEW ok \in BOOLEAN, NEW d,
           Executed(document, own, <<>>, saved, ok, d),
           ok => buf' = d.buf /\ unavailable' = d.unavailable,
           ~ok => buf' = buf /\ unavailable' = unavailable /\ lane[1].kind \notin EarlyKind,
           ~own \/ ~ok => document.block # Absent \/ document.removed = Absent,
           gone' \in SUBSET Nat, page' \in [shown : BOOLEAN, kept : Records \cup {Absent}, unsavedKept : BOOLEAN, dropped : SUBSET Nat],
           told' = told
    PROVE  ControlInv'
  <1>1. TypeOK /\ lane \in Seq(Jobs) /\ orphan = FALSE
    BY ControlParts DEF Current
  <1>2. /\ core' = document /\ disk' \in {disk, document} /\ disk' \in Docs
        /\ landed' = landed \cup Text(document.block) /\ landed' \in SUBSET Nat
    BY <1>1, ReachedHolds DEF Executed
  <1>3. budget' \in [typed : Nat, foreign : Nat, deletes : Nat, closes : Nat, faults : Nat]
    <2>1. Fault(~saved \/ ~ok) /\ (~saved \/ ~ok) \in BOOLEAN
      BY DEF Executed
    <2> QED
      BY <1>1, <2>1, FaultHolds
  <1>4. inflight' = Absent /\ action' = action
    BY DEF Executed
  <1>5. d = Observed(document.block, own, buf, inflight)
    BY DEF Executed
  <1>6. Observes(document.block, own, d)
    BY <1>1, <1>5, ObservingNow
  <1>7. Tail(lane) \in Seq(Jobs) /\ Tail(lane) \o <<>> = Tail(lane)
    BY <1>1, NothingFollows, HeadTailProperties, ConcatEmptySeq
  <1>8. CASE ok
    <2> DEFINE e == Recovery(d)
    <2>1. lane' = Tail(lane) \o e
      BY <1>7, <1>8 DEF Executed
    <2>2. Follows(e)
      BY RecoveryFollows
    <2>3. publish(document.block, d) /\ buf' = d.buf /\ unavailable' = d.unavailable
      BY <1>8 DEF Executed
    <2>4. d.recover => document.removed = Absent
      BY <1>6 DEF Observes
    <2>5. Succession'
      BY <1>2, <1>5, <2>1, <2>3, <2>4, PublishedSuccession
    <2> HIDE DEF e
    <2>6. Control'
      BY <1>2, <1>4, <1>5, <2>1, <2>2, <2>3, <2>5, PublishedControl
    <2>7. lane' \in Seq(Jobs)
      BY <1>1, <2>1, <2>2, TailLane
    <2>8. /\ view' \in [observed : BOOLEAN, timer : BOOLEAN, menu : BOOLEAN]
          /\ compose' \in [on : BOOLEAN, live : BOOLEAN, content : Texts \cup {Absent}]
      BY <1>1, <1>6, <2>3, PublishedView DEF Observes
    <2>9. /\ buf' \in Buffers \cup {Absent} /\ unavailable' \in BOOLEAN /\ orphan' \in BOOLEAN
          /\ seen' \in Texts \cup {Absent} /\ stale' \in BOOLEAN
      BY <1>6, <2>3 DEF Observes, publish, Docs
    <2>10. TypeOK'
      BY <1>1, <1>2, <1>3, <1>4, <2>7, <2>8, <2>9 DEF TypeOK
    <2> QED
      BY <2>6, <2>10 DEF ControlInv
  <1>9. CASE ~ok
    <2>1. /\ lane' = Tail(lane) /\ stale' = TRUE /\ UNCHANGED <<seen, orphan, compose, view, buf, unavailable>>
      BY <1>7, <1>9 DEF Executed
    <2>2. Follows(<<>>) /\ lane' = Tail(lane) \o <<>> /\ lane' \in Seq(Jobs)
      BY <1>1, <2>1, NothingFollows
    <2>3. Heirs' = {}
      BY <1>1, <2>2, HeirsPass
    <2>4. Succession'
      BY <1>2, <2>1, <2>3, ControlParts DEF Succession, Lost
    <2>5. staged = Absent
      BY <1>9, Turn DEF EarlyKind
    <2>6. document.block # Absent \/ seen # Absent => document.removed = Absent
      BY <1>9
    <2>7. Control'
      BY <1>2, <1>4, <1>9, <2>1, <2>4, <2>5, <2>6, WithheldControl
    <2>8. TypeOK'
      BY <1>1, <1>2, <1>3, <1>4, <2>1, <2>2 DEF TypeOK
    <2> QED
      BY <2>7, <2>8 DEF ControlInv
  <1> QED
    BY <1>8, <1>9

\* While a publication is outstanding nothing lowered early and nothing to resume waits.
LEMMA StaleLane ==
    ASSUME ControlInv, stale
    PROVE  Kindly(EarlyKind) = {} /\ Kindly({"resume"}) = {} /\ staged = Absent
  BY ControlParts DEF InTurn, Resumed, StagedAlone

LEMMA RepublishControl ==
    ASSUME ControlInv, stale, lane # <<>>, inflight = Absent,
           NEW d, d = Observed(core.block, FALSE, buf, inflight),
           publish(core.block, d), buf' = d.buf, unavailable' = d.unavailable, staged' = Absent,
           lane' = lane \o Recovery(d),
           UNCHANGED <<core, disk, inflight, action, page, told, gone, landed, budget>>
    PROVE  ControlInv'
  <1>1. TypeOK /\ lane \in Seq(Jobs) /\ orphan = FALSE /\ core \in Docs
    BY ControlParts DEF Current, TypeOK
  <1>2. Observes(core.block, FALSE, d)
    BY <1>1, ObservingNow
  <1>3. /\ seen' = core.block /\ stale' = FALSE /\ orphan' = FALSE
        /\ view' \in [observed : BOOLEAN, timer : BOOLEAN, menu : BOOLEAN]
        /\ compose' \in [on : BOOLEAN, live : BOOLEAN, content : Texts \cup {Absent}]
        /\ core.block = Absent => ~compose'.live /\ ~view'.observed
        /\ compose'.content = d.compose.content /\ compose'.on = d.compose.on
        /\ compose'.live => d.compose.live
    BY <1>1, <1>2, PublishedView DEF publish, Observes
  <1>4. /\ Kindly(EarlyKind) = {} /\ Kindly({"resume"}) = {} /\ staged = Absent
    BY StaleLane
  <1>5. /\ lane' \in Seq(Jobs) /\ DOMAIN lane \subseteq DOMAIN lane'
        /\ \A i \in DOMAIN lane : lane'[i] = lane[i]
        /\ \A i \in DOMAIN lane' : i \notin DOMAIN lane => d.recover /\ i = Len(lane) + 1 /\ lane'[i].kind = "recover"
    <2>1. CASE d.recover
      <3> DEFINE j == Job("recover", Absent)
      <3>1. j \in Jobs /\ j.kind = "recover"
        BY JobMade, JobIs
      <3>2. lane' = lane \o <<j>>
        BY <2>1 DEF Recovery
      <3> HIDE DEF j
      <3>3. lane' = Append(lane, j)
        BY <1>1, <3>1, <3>2, AppendIsConcat
      <3>4. /\ lane' \in Seq(Jobs) /\ DOMAIN lane' = DOMAIN lane \cup {Len(lane) + 1}
            /\ \A i \in DOMAIN lane : lane'[i] = lane[i]
            /\ lane'[Len(lane) + 1] = j
        <4>1. GrownBy(j)
          BY <1>1, <3>1, <3>3, AppendedLane, Zenon
        <4> QED
          BY <4>1 DEF GrownBy
      <3> QED
        BY <2>1, <3>1, <3>4
    <2>2. CASE ~d.recover
      <3>1. lane' = lane
        BY <1>1, <2>2, ConcatEmptySeq DEF Recovery
      <3> QED
        BY <1>1, <3>1
    <2> QED
      BY <1>2, <2>1, <2>2 DEF Observes
  <1>6. TypeOK'
    <2>1. buf' \in Buffers \cup {Absent} /\ unavailable' \in BOOLEAN /\ seen' \in Texts \cup {Absent}
      BY <1>1, <1>2, <1>3 DEF Observes, Docs
    <2> QED
      BY <1>1, <1>3, <1>5, <2>1 DEF TypeOK
  <1>7. Pending' /\ Current' /\ StagedAlone' /\ Removal'
    BY <1>3, ControlParts DEF Pending, Current, StagedAlone, Removal
  <1>8. InTurn' /\ Resumed'
    <2>1. \A i \in DOMAIN lane : lane[i].kind \notin EarlyKind \cup {"resume"}
      BY <1>4 DEF Kindly
    <2>2. "recover" \notin EarlyKind \cup {"resume"}
      BY DEF EarlyKind
    <2>3. \A i \in DOMAIN lane' : lane'[i].kind \notin EarlyKind \cup {"resume"}
      BY <1>5, <2>1, <2>2
    <2> QED
      BY <2>3 DEF InTurn, Resumed, Kindly
  <1>9. Succession'
    <2>1. CASE d.recover
      <3>1. core.block = Absent /\ seen # Absent
        BY <1>2, <2>1 DEF Observes
      <3>2. core.removed = Absent /\ Heirs = {} /\ core.heir = Absent
        BY <3>1, NoHeirs, ControlParts DEF Removal
      <3>3. \A i \in Heirs' : i = Len(lane) + 1
        <4>1. \A i \in DOMAIN lane : lane[i].kind \notin {"recover", "fill"}
          BY <3>2 DEF Heirs, Kindly
        <4> QED
          BY <1>5, <4>1 DEF Heirs, Kindly
      <3> QED
        BY <1>3, <3>1, <3>2, <3>3, ControlParts DEF Succession, Lost
    <2>2. CASE ~d.recover
      <3>1. Heirs' = Heirs
        BY <1>5, <2>2 DEF Heirs, Kindly
      <3> QED
        BY <1>3, <3>1, ControlParts DEF Succession, Lost
    <2> QED
      BY <2>1, <2>2
  <1>10. Composing'
    <2>1. compose'.on = compose.on /\ Composing
      BY <1>2, <1>3, ControlParts DEF Observes, TypeOK
    <2>2. compose'.on => Kindly({"submit"})' = {} /\ ~view'.timer
      <3>1. view'.timer = view.timer
        BY <1>1 DEF publish, Row, TypeOK
      <3>2. compose'.on => ~view.timer /\ \A i \in DOMAIN lane : lane[i].kind # "submit"
        BY <2>1 DEF Composing, Kindly
      <3>3. ASSUME compose'.on, NEW i \in DOMAIN lane'
            PROVE  lane'[i].kind # "submit"
        <4>1. CASE i \in DOMAIN lane
          BY <1>5, <3>2, <3>3, <4>1
        <4>2. CASE i \notin DOMAIN lane
          <5>1. lane'[i].kind = "recover"
            BY <1>5, <4>2
          <5> QED
            BY <5>1
        <4> QED
          BY <4>1, <4>2
      <3> QED
        BY <3>1, <3>2, <3>3 DEF Kindly
    <2>3. ASSUME ~compose'.on
          PROVE  compose' = NotComposing
      <3>1. d.compose = compose /\ compose = NotComposing
        BY <1>2, <2>1, <2>3 DEF Composing, Observes
      <3>2. compose' = [NotComposing EXCEPT !.live = @ /\ core.block # Absent]
        BY <3>1 DEF publish
      <3> QED
        BY <3>2 DEF NotComposing
    <2>4. ASSUME compose'.live
          PROVE  /\ buf' # Absent /\ seen' # Absent
                 /\ compose'.content # Absent => compose'.content = seen'
      <3>1. compose'.on
        BY <2>3, <2>4 DEF NotComposing
      <3>2. core.block # Absent /\ d.compose.live
        BY <1>3, <2>4
      <3>3. compose.live
        BY <1>1, <1>2, <3>2 DEF Observes, TypeOK
      <3>4. buf # Absent
        BY <2>1, <3>3 DEF Composing
      <3>5. d.buf # Absent /\ d.compose = [compose EXCEPT !.content = core.block]
        BY <1>2, <2>1, <3>1, <3>2, <3>4 DEF Observes
      <3>6. compose'.content = core.block
        BY <1>1, <1>3, <3>5 DEF TypeOK
      <3> QED
        BY <1>3, <3>2, <3>5, <3>6
    <2> QED
      BY <2>1, <2>2, <2>3, <2>4 DEF Composing
  <1>11. Based'
    <2> SUFFICES ASSUME compose'.content = Absent, buf' # Absent, core.block # Absent
                 PROVE  buf'.source = core.block
      BY <1>3 DEF Based
    <2>1. compose.on => d.compose.content = core.block
      BY <1>1, <1>2 DEF Observes, TypeOK
    <2>2. ~compose.on
      BY <1>3, <2>1
    <2> QED
      BY <1>2, <2>2 DEF Observes
  <1> QED
    BY <1>6, <1>7, <1>8, <1>9, <1>10, <1>11 DEF ControlInv, Control

\* ensureCurrent publishes again, or fails the job at the head.
LEMMA ensureCurrentCases ==
    ASSUME ControlInv, ~Races, ensureCurrent
    PROVE  /\ stale /\ lane # <<>> /\ inflight = Absent /\ lane[1].kind # "save" /\ staged = Absent
           /\ \/ \E d : /\ d = Observed(core.block, FALSE, buf, inflight)
                        /\ publish(core.block, d) /\ buf' = d.buf /\ unavailable' = d.unavailable
                        /\ staged' = Absent /\ lane' = lane \o Recovery(d)
                        /\ UNCHANGED <<core, disk, inflight, action, page, told, gone, landed, budget>>
              \/ /\ lane[1].kind \notin EarlyKind /\ JobFails /\ UNCHANGED stale
                 /\ budget' \in [typed : Nat, foreign : Nat, deletes : Nat, closes : Nat, faults : Nat]
  <1>1. stale /\ lane # <<>> /\ inflight = Absent /\ Head1 = lane[1] /\ lane[1].kind # "save" /\ staged = Absent
    BY StaleLane, ControlParts, LaneIs DEF ensureCurrent
  <1>2. CASE LET d == Observed(core.block, FALSE, buf, inflight) IN
          /\ publish(core.block, d)
          /\ buf' = d.buf /\ unavailable' = d.unavailable
          /\ staged' = IF core.block = Absent THEN Absent ELSE staged
          /\ lane' = lane \o Recovery(d)
          /\ UNCHANGED <<core, disk, inflight, action, page, told, gone, landed, budget>>
    <2> DEFINE d == Observed(core.block, FALSE, buf, inflight)
    <2>1. /\ publish(core.block, d) /\ buf' = d.buf /\ unavailable' = d.unavailable
          /\ staged' = Absent /\ lane' = lane \o Recovery(d)
          /\ UNCHANGED <<core, disk, inflight, action, page, told, gone, landed, budget>>
      BY <1>1, <1>2
    <2> HIDE DEF d
    <2>2. d = Observed(core.block, FALSE, buf, inflight)
      BY DEF d
    <2> QED
      BY <1>1, <2>1, <2>2
  <1>3. CASE Head1.kind \notin EarlyKind /\ Fault(TRUE) /\ JobFails /\ UNCHANGED stale
    <2>1. budget' \in [typed : Nat, foreign : Nat, deletes : Nat, closes : Nat, faults : Nat]
      BY <1>3, ControlParts, FaultHolds
    <2> QED
      BY <1>1, <1>3, <2>1
  <1> QED
    BY <1>2, <1>3 DEF ensureCurrent

LEMMA ensureCurrentControl ==
    ASSUME ControlInv, ~Races, ensureCurrent
    PROVE  ControlInv'
  <1>1. stale /\ lane # <<>> /\ inflight = Absent /\ lane[1].kind # "save" /\ staged = Absent
    BY ensureCurrentCases
  <1>2. CASE \E d : /\ d = Observed(core.block, FALSE, buf, inflight)
                    /\ publish(core.block, d) /\ buf' = d.buf /\ unavailable' = d.unavailable
                    /\ staged' = Absent /\ lane' = lane \o Recovery(d)
                    /\ UNCHANGED <<core, disk, inflight, action, page, told, gone, landed, budget>>
    BY <1>1, <1>2, RepublishControl
  <1>3. CASE /\ lane[1].kind \notin EarlyKind /\ JobFails /\ UNCHANGED stale
             /\ budget' \in [typed : Nat, foreign : Nat, deletes : Nat, closes : Nat, faults : Nat]
    BY <1>1, <1>3, FailedControl
  <1> QED
    BY <1>2, <1>3, ensureCurrentCases

\* A submission's turn: nothing is composed or staged, and the draft is based on the document.
LEMMA SubmitTurn ==
    ASSUME ControlInv, lane # <<>>, lane[1].kind = "submit"
    PROVE  /\ ~compose.on /\ compose.content = Absent /\ staged = Absent /\ Kindly(EarlyKind) = {}
           /\ ~stale /\ inflight = Absent => seen = core.block
           /\ ~stale /\ inflight = Absent /\ buf # Absent /\ core.block # Absent => buf.source = core.block
  <1>1. 1 \in DOMAIN lane
    BY ControlParts, LaneIs
  <1>2. 1 \in Kindly({"submit"})
    BY <1>1 DEF Kindly
  <1>3. ~compose.on
    BY <1>2, ControlParts DEF Composing
  <1>4. staged = Absent /\ Kindly(EarlyKind) = {}
    <2>1. staged = Absent /\ \A i \in Kindly(EarlyKind) : i = 1
      BY Turn
    <2> QED
      BY <2>1 DEF Kindly, EarlyKind
  <1> QED
    BY <1>3, <1>4, NotComposed, ControlParts DEF Based, Current

LEMMA submitPrepareCases ==
    ASSUME ControlInv, submitPrepare
    PROVE  /\ lane # <<>> /\ lane[1].kind = "submit" /\ Head1 = lane[1] /\ inflight = Absent /\ ~stale
           /\ UNCHANGED <<core, disk, seen, stale, orphan, compose, staged, view, page, landed, budget>>
           /\ \/ JobFails
              \/ /\ lane' = Tail(lane) /\ UNCHANGED <<buf, inflight, action, unavailable, told, gone>>
              \/ /\ target \in Buffers /\ (buf # Absent => target = buf)
                 /\ buf = Absent => seen # Absent /\ target.source = seen /\ target.visible = seen
                 /\ inflight' = target
                 /\ buf' = createContentBuffer(target.visible)
                 /\ action' = IF Head1.payload \/ action = "retry" THEN "sent" ELSE action
                 /\ UNCHANGED <<lane, unavailable, told, gone>>
  <1>1. /\ lane # <<>> /\ Head1.kind = "submit" /\ Head1 = lane[1] /\ inflight = Absent /\ ~stale
        /\ UNCHANGED <<core, disk, seen, stale, orphan, compose, staged, view, page, landed, budget>>
    BY ControlParts, LaneIs DEF submitPrepare, Running, graphVars
  <1>2. CASE unavailable \/ (buf = Absent /\ seen = Absent)
    BY <1>1, <1>2 DEF submitPrepare
  <1>3. CASE ~(unavailable \/ (buf = Absent /\ seen = Absent))
    <2>1. target \in Buffers /\ (buf # Absent => target = buf)
          /\ (buf = Absent => seen # Absent /\ target.source = seen /\ target.visible = seen)
      BY <1>3, ControlParts, TargetHolds
    <2>2. \/ /\ lane' = Tail(lane) /\ UNCHANGED <<buf, inflight, action, unavailable, told, gone>>
          \/ /\ inflight' = target
             /\ buf' = settleBuffer(target)
             /\ action' = IF Head1.payload \/ action = "retry" THEN "sent" ELSE action
             /\ UNCHANGED <<lane, unavailable, told, gone>>
      BY <1>3 DEF submitPrepare
    <2> HIDE DEF target
    <2> QED
      BY <1>1, <2>1, <2>2 DEF settleBuffer
  <1> QED
    BY <1>2, <1>3

LEMMA submitPrepareControl ==
    ASSUME ControlInv, submitPrepare
    PROVE  ControlInv'
  <1>1. /\ lane # <<>> /\ lane[1].kind = "submit" /\ Head1 = lane[1] /\ inflight = Absent /\ ~stale
        /\ UNCHANGED <<core, disk, seen, stale, orphan, compose, staged, view, page, landed, budget>>
    BY submitPrepareCases
  <1>2. lane[1].kind \notin EarlyKind \cup {"save"} /\ TypeOK /\ lane \in Seq(Jobs)
    BY <1>1, ControlParts DEF EarlyKind
  <1>3. budget' \in [typed : Nat, foreign : Nat, deletes : Nat, closes : Nat, faults : Nat]
    BY <1>1, <1>2 DEF TypeOK
  <1>4. CASE JobFails
    BY <1>1, <1>2, <1>3, <1>4, FailedControl
  <1>5. CASE lane' = Tail(lane) /\ UNCHANGED <<buf, inflight, action, unavailable, told, gone>>
    <2>1. Control'
      BY <1>1, <1>2, <1>5, PassedControl
    <2>2. TypeOK'
      BY <1>1, <1>2, <1>5, NothingFollows DEF TypeOK
    <2> QED
      BY <2>1, <2>2 DEF ControlInv
  <1>6. CASE /\ target \in Buffers /\ (buf # Absent => target = buf)
             /\ buf = Absent => seen # Absent /\ target.source = seen /\ target.visible = seen
             /\ inflight' = target
             /\ buf' = createContentBuffer(target.visible)
             /\ action' = IF Head1.payload \/ action = "retry" THEN "sent" ELSE action
             /\ UNCHANGED <<lane, unavailable, told, gone>>
    <2> HIDE DEF target
    <2>1. buf' \in Buffers /\ buf'.source = target.visible /\ target \in Buffers
      BY <1>6, BufferHolds, SettledBuffer
    <2>2. TypeOK'
      <3>1. action' \in Actions
        BY <1>2, <1>6 DEF TypeOK, Actions
      <3> QED
        BY <1>1, <1>2, <1>6, <2>1, <3>1 DEF TypeOK
    <2>3. /\ ~compose.on /\ compose.content = Absent /\ staged = Absent /\ Kindly(EarlyKind) = {}
          /\ seen = core.block /\ (buf # Absent /\ core.block # Absent => buf.source = core.block)
      BY <1>1, SubmitTurn
    <2>4. Pending'
      BY <1>1, <1>6, <2>1, <2>3, AbsentIsNoData DEF Pending
    <2>5. Current' /\ Removal' /\ StagedAlone' /\ Composing'
      BY <1>1, <1>6, <2>3, ControlParts DEF Current, Removal, StagedAlone, Composing, Kindly, NotComposing
    <2>6. Succession' /\ InTurn'
      BY <1>1, <1>6, <2>3, ControlParts DEF Succession, Heirs, Lost, Kindly, InTurn
    <2>7. Resumed'
      <3>1. \A i \in Kindly({"resume"}) : i = 1
        BY ControlParts DEF Resumed
      <3>2. Kindly({"resume"})' = {}
        BY <1>1, <1>6, <3>1 DEF Kindly
      <3> QED
        BY <3>2 DEF Resumed
    <2>8. Based'
      BY <1>6, <2>1, AbsentIsNoData DEF Based
    <2> QED
      BY <2>2, <2>4, <2>5, <2>6, <2>7, <2>8 DEF ControlInv, Control
  <1> QED
    BY <1>4, <1>5, <1>6, submitPrepareCases

\* With a submission at the Worker the draft is not composed, and what it adds came later.
LEMMA AtWorker ==
    ASSUME ControlInv, inflight # Absent
    PROVE  /\ lane # <<>> /\ lane[1].kind = "submit" /\ Head1 = lane[1] /\ ~stale /\ orphan = FALSE
           /\ inflight \in Buffers /\ buf \in Buffers /\ buf # Absent /\ buf.source = inflight.visible
           /\ ~compose.on /\ ~compose.live /\ compose.content = Absent /\ staged = Absent /\ Kindly(EarlyKind) = {}
           /\ seen = core.block /\ target = buf
           /\ core.block # Absent => inflight.source = core.block /\ core.removed = Absent /\ core.heir = Absent
                                       /\ Heirs = {}
  <1>1. /\ lane # <<>> /\ lane[1].kind = "submit" /\ ~stale /\ orphan = FALSE
        /\ inflight \in Buffers /\ buf \in Buffers /\ buf # Absent /\ buf.source = inflight.visible
        /\ seen = core.block
        /\ core.block # Absent => inflight.source = core.block /\ core.removed = Absent
    BY ControlParts DEF Pending, TypeOK, Current, Removal
  <1>2. Head1 = lane[1] /\ target = buf
    BY <1>1, ControlParts, LaneIs DEF target
  <1> QED
    BY <1>1, <1>2, SubmitTurn, NotComposed, NoHeirs

\* The submission leaves the Worker, applied or not.
LEMMA AnsweredControl ==
    ASSUME ControlInv, inflight # Absent, core.block # Absent,
           core' \in Docs, disk' \in {disk, core'}, core'.block # Absent,
           core'.removed = Absent, core'.heir = Absent,
           inflight' = Absent, orphan' = FALSE, lane' = Tail(lane), staged' = staged,
           stale' = FALSE => seen' = core'.block /\ (buf' # Absent => buf'.source = core'.block),
           stale' \in BOOLEAN, seen' # Absent,
           compose'.on = FALSE, compose'.live = FALSE, compose' = NotComposing
    PROVE  Control'
  <1>1. /\ lane # <<>> /\ lane[1].kind = "submit" /\ staged = Absent /\ Heirs = {} /\ lane \in Seq(Jobs)
        /\ Removal /\ Succession /\ core.heir = Absent
    BY AtWorker, ControlParts
  <1>2. Follows(<<>>) /\ lane' = Tail(lane) \o <<>>
    BY <1>1, NothingFollows
  <1>3. \A i \in DOMAIN lane' : lane'[i].kind \notin EarlyKind \cup {"resume"}
    BY <1>1, <1>2, TurnPasses
  <1>4. Heirs' = {}
    BY <1>1, <1>2, HeirsPass
  <1>5. Pending' /\ Current' /\ StagedAlone' /\ Composing' /\ Based'
    BY <1>1 DEF Pending, Current, StagedAlone, Composing, Based
  <1>6. Removal' /\ Succession'
    <2>1. Removal'
      BY <1>1 DEF Removal
    <2>2. disk'.heir = Absent
      BY <1>1 DEF Succession
    <2> QED
      BY <1>1, <1>4, <2>1, <2>2 DEF Succession
  <1>7. InTurn' /\ Resumed'
    BY <1>3 DEF InTurn, Resumed, Kindly
  <1> QED
    BY <1>5, <1>6, <1>7 DEF Control

\* Nothing moves the draft when a submission is published: it was the submission's.
LEMMA ObservedPending ==
    ASSUME ControlInv, inflight # Absent, NEW text \in Texts, NEW own \in BOOLEAN,
           NEW d, d = Observed(text, own, buf, inflight)
    PROVE  d.buf = buf /\ d.unavailable \in BOOLEAN /\ d.orphan = orphan /\ d.compose = compose
  <1>1. buf # Absent /\ text # Absent /\ ~compose.on /\ unavailable \in BOOLEAN /\ orphan = FALSE
    BY AtWorker, AbsentIsNoData, ControlParts DEF TypeOK
  <1>2. d = IF buf.source = text THEN Draft(buf, FALSE, orphan, compose, FALSE)
            ELSE Draft(buf, unavailable, orphan, compose, FALSE)
    BY <1>1 DEF Observed, Unchanged
  <1>3. CASE buf.source = text
    <2>1. d = Draft(buf, FALSE, orphan, compose, FALSE)
      BY <1>2, <1>3
    <2> QED
      BY <1>1, <2>1 DEF Draft
  <1>4. CASE buf.source # text
    <2>1. d = Draft(buf, unavailable, orphan, compose, FALSE)
      BY <1>2, <1>4
    <2> QED
      BY <1>1, <2>1 DEF Draft
  <1> QED
    BY <1>3, <1>4

LEMMA ContinuedHolds ==
    ASSUME ControlInv, inflight # Absent, NEW text \in Texts, NEW r, r = Continued(buf, text)
    PROVE  /\ r \in Buffers /\ r.source = text
           /\ buf.visible = inflight.visible => r.visible = text
           /\ buf.visible # inflight.visible =>
                 Range(r.visible) = (Range(text) \ Cut(buf)) \cup New(buf) \/ r = buf
           /\ buf.visible # inflight.visible =>
                 r = buf \/ r = rebaseBuffer(buf, text)
  <1>1. buf \in Buffers
    BY AtWorker
  <1>2. CASE buf.visible = inflight.visible
    <2>1. r = createContentBuffer(text)
      BY <1>2 DEF Continued
    <2> QED
      BY <1>2, <2>1, SettledBuffer
  <1>3. CASE buf.visible # inflight.visible
    BY <1>1, <1>3, RebaseHolds DEF Continued
  <1> QED
    BY <1>2, <1>3

LEMMA submitSavedCases ==
    ASSUME ControlInv, submitSaved
    PROVE  \E saved \in BOOLEAN, r \in Buffers : \E d :
              /\ inflight # Absent /\ Accepted /\ core.block # Absent
              /\ Fault(~saved) /\ Reached(Submitted, saved)
              /\ d.buf = buf /\ d.unavailable \in BOOLEAN /\ d.orphan = orphan /\ d.compose = compose
              /\ publish(Submitted.block, d) /\ unavailable' = d.unavailable
              /\ r = Continued(buf, Submitted.block) /\ r.source = Submitted.block
              /\ buf' \in {r, Absent}
              /\ buf' = release(r, view.observed, compose.on, action')
              /\ action' = IF action = "sent" THEN "applied" ELSE action
              /\ inflight' = Absent /\ lane' = Tail(lane)
              /\ UNCHANGED <<staged, page, told, gone>>
  <1>1. inflight # Absent /\ Accepted /\ core.block # Absent /\ Submitted.block \in Texts
    BY SubmittedHolds DEF submitSaved
  <1> DEFINE d == Observed(Submitted.block, TRUE, buf, inflight)
             c == IF d.buf = Absent THEN createContentBuffer(Submitted.block) ELSE d.buf
  <1>2. PICK saved \in BOOLEAN :
            /\ Fault(~saved) /\ Reached(Submitted, saved)
            /\ publish(Submitted.block, d) /\ unavailable' = d.unavailable
            /\ action' = IF action = "sent" THEN "applied" ELSE action
            /\ buf' = release(Continued(c, Submitted.block), view.observed, compose.on, action')
    BY DEF submitSaved
  <1>3. d.buf = buf /\ d.unavailable \in BOOLEAN /\ d.orphan = orphan /\ d.compose = compose
    <2>1. d = Observed(Submitted.block, TRUE, buf, inflight) /\ TRUE \in BOOLEAN
      OBVIOUS
    <2> HIDE DEF d
    <2> QED
      BY <1>1, <2>1, ObservedPending
  <1>4. c = buf
    BY <1>1, <1>3, AtWorker
  <1> HIDE DEF d, c
  <1>5. PICK r : r = Continued(buf, Submitted.block)
    OBVIOUS
  <1>6. r \in Buffers /\ r.source = Submitted.block
    BY <1>1, <1>5, ContinuedHolds
  <1>7. buf' = release(r, view.observed, compose.on, action') /\ buf' \in {r, Absent}
    BY <1>2, <1>4, <1>5, Released
  <1>8. inflight' = Absent /\ lane' = Tail(lane) /\ UNCHANGED <<staged, page, told, gone>>
    BY DEF submitSaved
  <1> QED
    BY <1>1, <1>2, <1>3, <1>5, <1>6, <1>7, <1>8

LEMMA submitSavedControl ==
    ASSUME ControlInv, submitSaved
    PROVE  ControlInv'
  <1>1. PICK saved \in BOOLEAN, r \in Buffers : \E d :
              /\ inflight # Absent /\ Accepted /\ core.block # Absent
              /\ Fault(~saved) /\ Reached(Submitted, saved)
              /\ d.buf = buf /\ d.unavailable \in BOOLEAN /\ d.orphan = orphan /\ d.compose = compose
              /\ publish(Submitted.block, d) /\ unavailable' = d.unavailable
              /\ r.source = Submitted.block
              /\ buf' \in {r, Absent}
              /\ action' = IF action = "sent" THEN "applied" ELSE action
              /\ inflight' = Absent /\ lane' = Tail(lane)
              /\ UNCHANGED <<staged, page, told, gone>>
    BY submitSavedCases
  <1>1a. PICK d :
              /\ inflight # Absent /\ Accepted /\ core.block # Absent
              /\ Fault(~saved) /\ Reached(Submitted, saved)
              /\ d.buf = buf /\ d.unavailable \in BOOLEAN /\ d.orphan = orphan /\ d.compose = compose
              /\ publish(Submitted.block, d) /\ unavailable' = d.unavailable
              /\ r.source = Submitted.block
              /\ buf' \in {r, Absent}
              /\ action' = IF action = "sent" THEN "applied" ELSE action
              /\ inflight' = Absent /\ lane' = Tail(lane)
              /\ UNCHANGED <<staged, page, told, gone>>
    BY <1>1
  <1>2. /\ lane # <<>> /\ lane \in Seq(Jobs) /\ TypeOK /\ ~compose.on /\ ~compose.live /\ compose.content = Absent
        /\ core.removed = Absent /\ core.heir = Absent /\ orphan = FALSE
    BY <1>1a, AtWorker, ControlParts
  <1>3. /\ Submitted \in Docs /\ Submitted.block \in Texts
        /\ Submitted.heir = Absent /\ Submitted.removed = Absent
    BY <1>1a, <1>2, SubmittedHolds
  <1>4. /\ core' = Submitted /\ disk' \in {disk, core'} /\ disk' \in Docs /\ landed' \in SUBSET Nat
    BY <1>1a, <1>2, <1>3, ReachedHolds
  <1>5. budget' \in [typed : Nat, foreign : Nat, deletes : Nat, closes : Nat, faults : Nat]
    <2>1. (~saved) \in BOOLEAN
      OBVIOUS
    <2> QED
      BY <1>1a, <1>2, <2>1, FaultHolds
  <1>6. /\ view' \in [observed : BOOLEAN, timer : BOOLEAN, menu : BOOLEAN]
        /\ compose' \in [on : BOOLEAN, live : BOOLEAN, content : Texts \cup {Absent}]
        /\ compose'.on = FALSE /\ compose'.live = FALSE /\ compose'.content = Absent
        /\ seen' = Submitted.block /\ stale' = FALSE /\ orphan' = FALSE
    <2>1. compose \in [on : BOOLEAN, live : BOOLEAN, content : Texts \cup {Absent}]
      BY <1>2 DEF TypeOK
    <2>2. /\ view' \in [observed : BOOLEAN, timer : BOOLEAN, menu : BOOLEAN]
          /\ compose' \in [on : BOOLEAN, live : BOOLEAN, content : Texts \cup {Absent}]
          /\ compose'.content = d.compose.content /\ compose'.on = d.compose.on
          /\ compose'.live => d.compose.live
      BY <1>1a, <1>2, <2>1, PublishedView
    <2>3. compose.on = FALSE /\ compose'.live = FALSE
      BY <1>1a, <1>2, <2>1, <2>2
    <2> QED
      BY <1>1a, <1>2, <2>2, <2>3 DEF publish
  <1>7. compose' = NotComposing
    BY <1>6 DEF NotComposing
  <1>8. lane' \in Seq(Jobs)
    BY <1>1a, <1>2, NothingFollows
  <1>9. TypeOK'
    <2>1. action' \in Actions
      BY <1>1a, <1>2 DEF TypeOK, Actions
    <2> QED
      BY <1>1a, <1>2, <1>3, <1>4, <1>5, <1>6, <1>8, <2>1 DEF TypeOK
  <1>10. Control'
    <2>1. core' \in Docs /\ core'.block # Absent /\ core'.removed = Absent /\ core'.heir = Absent
          /\ seen' = core'.block /\ (buf' # Absent => buf'.source = core'.block)
      BY <1>1a, <1>3, <1>4, <1>6, AbsentIsNoData
    <2> QED
      BY <1>1a, <1>4, <1>6, <1>7, <2>1, AnsweredControl
  <1> QED
    BY <1>9, <1>10 DEF ControlInv

LEMMA submitUnpublishedControl ==
    ASSUME ControlInv, submitUnpublished
    PROVE  ControlInv'
  <1>1. /\ inflight # Absent /\ Accepted /\ core.block # Absent /\ TypeOK /\ lane \in Seq(Jobs) /\ lane # <<>>
        /\ core.removed = Absent /\ core.heir = Absent /\ orphan = FALSE /\ ~compose.on /\ seen = core.block
    BY AtWorker, SubmittedHolds, ControlParts DEF submitUnpublished
  <1>2. /\ stale' = TRUE /\ inflight' = Absent /\ lane' = Tail(lane) /\ told' = TRUE
        /\ action' = IF action = "sent" THEN "applied" ELSE action
        /\ UNCHANGED <<seen, unavailable, orphan, compose, staged, view, page, gone>>
        /\ Reached(Submitted, TRUE) /\ Fault(TRUE)
        /\ buf' = release(buf, view.observed, compose.on, action')
    BY DEF submitUnpublished
  <1>3. Submitted \in Docs /\ Submitted.block \in Texts /\ Submitted.heir = Absent /\ Submitted.removed = Absent
    BY <1>1, SubmittedHolds
  <1>4. core' = Submitted /\ disk' \in {disk, core'} /\ disk' \in Docs /\ landed' \in SUBSET Nat
    BY <1>1, <1>2, <1>3, ReachedHolds
  <1>5. budget' \in [typed : Nat, foreign : Nat, deletes : Nat, closes : Nat, faults : Nat]
    BY <1>1, <1>2, FaultHolds
  <1>6. compose' = NotComposing
    BY <1>1, <1>2, ControlParts DEF Composing
  <1>7. buf' \in {buf, Absent} /\ lane' \in Seq(Jobs) /\ action' \in Actions
    <2>1. buf' \in {buf, Absent}
      BY <1>2, Released
    <2>2. lane' \in Seq(Jobs)
      BY <1>1, <1>2, NothingFollows
    <2>3. action' \in Actions
      BY <1>1, <1>2 DEF TypeOK, Actions
    <2> QED
      BY <2>1, <2>2, <2>3
  <1>8. TypeOK'
    BY <1>1, <1>2, <1>3, <1>4, <1>5, <1>7 DEF TypeOK
  <1>9. Control'
    <2>1. core' \in Docs /\ core'.block # Absent /\ core'.removed = Absent /\ core'.heir = Absent
      BY <1>3, <1>4, AbsentIsNoData
    <2>2. compose'.on = FALSE /\ compose'.live = FALSE /\ orphan' = FALSE /\ seen' # Absent
      BY <1>1, <1>2, <1>6 DEF NotComposing
    <2> QED
      BY <1>1, <1>2, <1>4, <1>6, <2>1, <2>2, AnsweredControl
  <1> QED
    BY <1>8, <1>9 DEF ControlInv

LEMMA submitRefusedCases ==
    ASSUME ControlInv, submitRefused
    PROVE  \E r \in Buffers :
              /\ inflight # Absent /\ r = restoreBuffer(inflight, buf)
              /\ r.source = inflight.source /\ Range(r.visible) = Range(buf.visible)
              /\ IsInjective(inflight.visible) /\ IsInjective(buf.visible) => IsInjective(r.visible)
              /\ buf' = release(r, view.observed, compose.on, action') /\ buf' \in {r, Absent}
              /\ inflight' = Absent /\ lane' = Tail(lane) /\ orphan' = FALSE
              /\ action' = IF action = "sent" THEN "retry" ELSE action
              /\ UNCHANGED <<core, disk, seen, stale, unavailable, compose, staged, view, page, gone, landed>>
              /\ told' \in BOOLEAN
              /\ budget' \in [typed : Nat, foreign : Nat, deletes : Nat, closes : Nat, faults : Nat]
              /\ budget'.typed = budget.typed /\ budget'.foreign = budget.foreign
  <1>1. /\ inflight # Absent /\ TypeOK /\ lane \in Seq(Jobs) /\ lane # <<>> /\ target = buf /\ orphan = FALSE
        /\ inflight \in Buffers /\ buf \in Buffers /\ buf.source = inflight.visible
    BY AtWorker, ControlParts DEF submitRefused
  <1>2. PICK r : r = restoreBuffer(inflight, buf)
    OBVIOUS
  <1>3. /\ r \in Buffers /\ r.source = inflight.source /\ Range(r.visible) = Range(buf.visible)
        /\ IsInjective(inflight.visible) /\ IsInjective(buf.visible) => IsInjective(r.visible)
    BY <1>1, <1>2, RestoreHolds
  <1>4. buf' = release(r, view.observed, compose.on, action') /\ buf' \in {r, Absent}
    BY <1>1, <1>2, Released DEF submitRefused
  <1>5. lane' = Tail(lane)
    <2>1. lane' = Tail(lane) \o <<>>
      BY <1>1 DEF submitRefused
    <2>2. Tail(lane) \in Seq(Jobs)
      BY <1>1, HeadTailProperties
    <2> QED
      BY <2>1, <2>2, ConcatEmptySeq
  <1>6. /\ budget' \in [typed : Nat, foreign : Nat, deletes : Nat, closes : Nat, faults : Nat]
        /\ budget'.typed = budget.typed /\ budget'.foreign = budget.foreign
    <2>1. CASE Fault(TRUE)
      <3>1. budget' \in [typed : Nat, foreign : Nat, deletes : Nat, closes : Nat, faults : Nat]
        BY <1>1, <2>1, FaultHolds
      <3>2. budget' = [budget EXCEPT !["faults"] = @ + 1]
        BY <2>1 DEF Fault, Spend
      <3> QED
        BY <1>1, <3>1, <3>2 DEF TypeOK
    <2>2. CASE UNCHANGED budget
      BY <1>1, <2>2 DEF TypeOK
    <2> QED
      BY <2>1, <2>2 DEF submitRefused
  <1>7. /\ inflight' = Absent /\ orphan' = FALSE
        /\ action' = IF action = "sent" THEN "retry" ELSE action
        /\ UNCHANGED <<core, disk, seen, stale, unavailable, compose, staged, view, page, gone, landed>>
        /\ told' \in BOOLEAN
    BY <1>1 DEF submitRefused, graphVars, TypeOK
  <1> QED
    BY <1>1, <1>2, <1>3, <1>4, <1>5, <1>6, <1>7

LEMMA submitRefusedControl ==
    ASSUME ControlInv, submitRefused
    PROVE  ControlInv'
  <1>1. PICK r \in Buffers :
              /\ inflight # Absent
              /\ r.source = inflight.source
              /\ buf' \in {r, Absent}
              /\ inflight' = Absent /\ lane' = Tail(lane) /\ orphan' = FALSE
              /\ action' = IF action = "sent" THEN "retry" ELSE action
              /\ UNCHANGED <<core, disk, seen, stale, unavailable, compose, staged, view, page, gone, landed>>
              /\ told' \in BOOLEAN
              /\ budget' \in [typed : Nat, foreign : Nat, deletes : Nat, closes : Nat, faults : Nat]
    BY submitRefusedCases
  <1>2. /\ TypeOK /\ lane \in Seq(Jobs) /\ lane # <<>> /\ lane[1].kind = "submit" /\ ~compose.on /\ staged = Absent
        /\ seen = core.block /\ (core.block # Absent => inflight.source = core.block)
        /\ Current /\ Removal /\ Succession /\ Composing
    BY <1>1, AtWorker, ControlParts
  <1>3. Follows(<<>>) /\ lane' = Tail(lane) \o <<>> /\ lane' \in Seq(Jobs)
    BY <1>1, <1>2, NothingFollows
  <1>4. TypeOK'
    <2>1. action' \in Actions /\ TypeOK /\ lane' \in Seq(Jobs)
      BY <1>1, <1>2, <1>3 DEF TypeOK, Actions
    <2>2. /\ buf' \in Buffers \cup {Absent} /\ inflight' \in Buffers \cup {Absent} /\ orphan' \in BOOLEAN
          /\ UNCHANGED <<core, disk, seen, stale, unavailable, compose, staged, view, page, gone, landed>>
          /\ told' \in BOOLEAN
          /\ budget' \in [typed : Nat, foreign : Nat, deletes : Nat, closes : Nat, faults : Nat]
      BY <1>1
    <2> QED
      BY <2>1, <2>2 DEF TypeOK
  <1>5. \A i \in DOMAIN lane' : lane'[i].kind \notin EarlyKind \cup {"resume"}
    BY <1>2, <1>3, TurnPasses
  <1>6. Pending' /\ StagedAlone' /\ Current' /\ Removal' /\ Based'
    BY <1>1, <1>2 DEF Pending, StagedAlone, Current, Removal, Based
  <1>7. InTurn' /\ Resumed'
    BY <1>5 DEF InTurn, Resumed, Kindly
  <1>8. Composing'
    BY <1>1, <1>2 DEF Composing, NotComposing
  <1>9. \A i \in Heirs' : i + 1 \in Heirs /\ i \in Nat
    <2>1. \A i \in Heirs' : i + 1 \in Heirs
      BY <1>2, <1>3, HeirsPass
    <2>2. \A i \in Heirs' : i \in Nat
      BY <1>2, <1>3, TailLane DEF Heirs, Kindly
    <2> QED
      BY <2>1, <2>2
  <1>10. \A i, j \in Heirs' : i = j
    <2> SUFFICES ASSUME NEW i \in Heirs', NEW j \in Heirs' PROVE i = j
      OBVIOUS
    <2>1. i + 1 = j + 1 /\ i \in Nat /\ j \in Nat
      BY <1>2, <1>9 DEF Succession
    <2> QED
      BY <2>1
  <1>11. Succession'
    BY <1>1, <1>2, <1>9, <1>10 DEF Succession, Lost
  <1> QED
    BY <1>4, <1>6, <1>7, <1>8, <1>11 DEF ControlInv, Control

\* Another replica's change, as it reaches a block that is there.
LEMMA ImportedHolds ==
    ASSUME TypeOK, core.block # Absent, Head1 \in Jobs, Head1.kind \in RemoteKind, NEW document \in Imported(Head1)
    PROVE  /\ document \in Docs /\ document.heir = core.heir /\ document.removed = core.removed
           /\ document.acted = core.acted
           /\ \/ document.block = Absent /\ Head1.kind = "remove"
              \/ /\ Head1.kind = "delete" /\ document.block \in Texts
                 /\ Range(document.block) \subseteq Range(core.block)
                 /\ IsInjective(core.block) => IsInjective(document.block)
              \/ /\ Head1.kind = "insert" /\ document.block \in Texts
                 /\ Range(document.block) = Range(core.block) \cup {Head1.payload}
                 /\ IsInjective(core.block) /\ Head1.payload \notin Range(core.block) => IsInjective(document.block)
  <1>1. core \in Docs /\ core.block \in Texts
    BY DEF TypeOK, Docs
  <1>2. \A t \in Texts \cup {Absent} : \A r : r = [core EXCEPT !.block = t] =>
            r \in Docs /\ r.block = t /\ r.heir = core.heir /\ r.removed = core.removed /\ r.acted = core.acted
    BY <1>1 DEF Docs
  <1>3. CASE Head1.kind = "remove"
    <2>1. document = [core EXCEPT !.block = Absent]
      BY <1>3 DEF Imported
    <2> QED
      BY <1>2, <1>3, <2>1
  <1>4. CASE Head1.kind = "delete"
    <2>1. PICK i \in DOMAIN core.block : document = [core EXCEPT !.block = RemoveAt(core.block, i)]
      BY <1>1, <1>4 DEF Imported, Docs
    <2>2. /\ RemoveAt(core.block, i) \in Texts /\ Range(RemoveAt(core.block, i)) \subseteq Range(core.block)
          /\ IsInjective(core.block) => IsInjective(RemoveAt(core.block, i))
      BY <1>1, RemovedAtom
    <2> QED
      BY <1>2, <1>4, <2>1, <2>2
  <1>5. CASE Head1.kind = "insert"
    <2>1. PICK i \in 1..(Len(core.block) + 1) : document = [core EXCEPT !.block = InsertAt(core.block, i, Head1.payload)]
      BY <1>1, <1>5 DEF Imported, Docs
    <2>2. Head1.payload \in Nat
      BY <1>5, JobHolds
    <2>3. /\ InsertAt(core.block, i, Head1.payload) \in Texts
          /\ Range(InsertAt(core.block, i, Head1.payload)) = Range(core.block) \cup {Head1.payload}
          /\ IsInjective(core.block) /\ Head1.payload \notin Range(core.block)
                => IsInjective(InsertAt(core.block, i, Head1.payload))
      BY <1>1, <2>2, InsertedAtom
    <2> QED
      BY <1>2, <1>5, <2>1, <2>3
  <1> QED
    BY <1>3, <1>4, <1>5 DEF RemoteKind

\* applyRemote finds nothing to change, or executes an imported document.
LEMMA applyRemoteCases ==
    ASSUME ControlInv, ~Races, applyRemote
    PROVE  /\ lane # <<>> /\ Head1 = lane[1] /\ Head1 \in Jobs /\ Head1.kind \in RemoteKind /\ inflight = Absent
           /\ staged = Absent /\ Kindly(EarlyKind) = {} /\ UNCHANGED <<page, told>>
           /\ \/ /\ lane' = Tail(lane)
                 /\ UNCHANGED <<core, disk, seen, stale, buf, inflight, action, unavailable, orphan, compose,
                                view, staged, gone, landed, budget>>
              \/ \E document \in Imported(Head1), saved, ok \in BOOLEAN : \E d :
                    /\ core.block # Absent
                    /\ Executed(document, FALSE, <<>>, saved, ok, d)
                    /\ buf' = IF ok THEN d.buf ELSE buf
                    /\ unavailable' = IF ok THEN d.unavailable ELSE unavailable
                    /\ staged' = Absent
                    /\ gone' = gone \cup (Text(core.block) \ Text(document.block))
  <1>1. lane # <<>> /\ Head1 = lane[1] /\ Head1 \in Jobs /\ Head1.kind \in RemoteKind /\ UNCHANGED <<page, told>>
    BY ControlParts, LaneIs DEF applyRemote
  <1>2. inflight = Absent
    BY <1>1, ControlParts DEF Pending, RemoteKind
  <1>3. staged = Absent /\ Kindly(EarlyKind) = {}
    <2>1. staged = Absent /\ \A i \in Kindly(EarlyKind) : i = 1
      BY <1>1, Turn DEF RemoteKind
    <2> QED
      BY <1>1, <2>1 DEF Kindly, EarlyKind, RemoteKind
  <1>4. CASE core.block = Absent \/ (Head1.kind = "delete" /\ core.block = <<>>)
    BY <1>1, <1>2, <1>3, <1>4 DEF applyRemote, graphVars, draftVars
  <1>5. CASE ~(core.block = Absent \/ (Head1.kind = "delete" /\ core.block = <<>>))
    <2>1. PICK document \in Imported(Head1) :
               /\ Execute(document, FALSE, NoJobs, Plain)
               /\ staged' = IF document.block = Absent THEN Absent ELSE staged
               /\ gone' = gone \cup (Text(core.block) \ Text(document.block))
      BY <1>5 DEF applyRemote
    <2>2. PICK saved, ok \in BOOLEAN : \E d :
              /\ Executed(document, FALSE, <<>>, saved, ok, d)
              /\ buf' = IF ok THEN d.buf ELSE buf
              /\ unavailable' = IF ok THEN d.unavailable ELSE unavailable
      BY <2>1, PlainExecuted
    <2>3. staged' = Absent
      BY <1>3, <2>1
    <2> QED
      BY <1>1, <1>2, <1>3, <1>5, <2>1, <2>2, <2>3
  <1> QED
    BY <1>4, <1>5

LEMMA applyRemoteControl ==
    ASSUME ControlInv, ~Races, applyRemote
    PROVE  ControlInv'
  <1>1. /\ lane # <<>> /\ Head1 = lane[1] /\ Head1 \in Jobs /\ Head1.kind \in RemoteKind /\ inflight = Absent
        /\ staged = Absent /\ page' = page /\ told' = told /\ TypeOK /\ lane \in Seq(Jobs)
    BY applyRemoteCases, ControlParts
  <1>2. lane[1].kind \notin EarlyKind \cup {"save"}
    BY <1>1 DEF EarlyKind, RemoteKind
  <1>3. CASE /\ lane' = Tail(lane)
             /\ UNCHANGED <<core, disk, seen, stale, buf, inflight, action, unavailable, orphan, compose,
                            view, staged, gone, landed, budget>>
    <2>1. Control'
      BY <1>1, <1>2, <1>3, PassedControl
    <2>2. lane' \in Seq(Jobs)
      BY <1>1, <1>3, NothingFollows
    <2>3. TypeOK'
      BY <1>1, <1>3, <2>2 DEF TypeOK
    <2> QED
      BY <2>1, <2>3 DEF ControlInv
  <1>4. ASSUME NEW document \in Imported(Head1), NEW saved \in BOOLEAN, NEW ok \in BOOLEAN, NEW d,
               core.block # Absent,
               Executed(document, FALSE, <<>>, saved, ok, d),
               buf' = IF ok THEN d.buf ELSE buf,
               unavailable' = IF ok THEN d.unavailable ELSE unavailable,
               staged' = Absent,
               gone' = gone \cup (Text(core.block) \ Text(document.block))
        PROVE  ControlInv'
    <2>1. document \in Docs /\ document.heir = core.heir /\ document.removed = core.removed
      BY <1>1, <1>4, ImportedHolds
    <2>2. Heirs = {} /\ core.heir = Absent /\ core.removed = Absent
      BY <1>4, NoHeirs, ControlParts DEF Removal
    <2>3. gone' \in SUBSET Nat
      <3>1. Text(core.block) \subseteq Nat
        BY <1>1, <1>4, TextRange DEF TypeOK, Docs, Text
      <3> QED
        BY <1>1, <1>4, <3>1 DEF TypeOK
    <2>4. page' \in [shown : BOOLEAN, kept : Records \cup {Absent}, unsavedKept : BOOLEAN, dropped : SUBSET Nat]
      BY <1>1 DEF TypeOK
    <2>5. /\ ok => buf' = d.buf /\ unavailable' = d.unavailable
          /\ ~ok => buf' = buf /\ unavailable' = unavailable /\ lane[1].kind \notin EarlyKind
      BY <1>2, <1>4
    <2>6. FALSE \in BOOLEAN /\ document.heir = Absent /\ document.removed = Absent /\ lane[1].kind # "save"
      BY <1>2, <2>1, <2>2
    <2> QED
      BY <1>1, <1>4, <2>1, <2>2, <2>3, <2>4, <2>5, <2>6, ExecutedControl
  <1> QED
    BY <1>3, <1>4, applyRemoteCases

\* A structural command that does not fail.
LocalDocument == IF Head1.payload = "remove"
                 THEN [core EXCEPT !.block = Absent, !.removed = core.block]
                 ELSE [core EXCEPT !.block = core.removed, !.removed = Absent]

LEMMA executeLocalCases ==
    ASSUME ControlInv, ~Races, executeLocal
    PROVE  /\ lane # <<>> /\ Head1 = lane[1] /\ Head1.kind = "local" /\ Head1.payload \in {"remove", "undo"}
           /\ inflight = Absent /\ ~stale /\ staged = Absent /\ Kindly(EarlyKind) = {}
           /\ \/ JobFails /\ UNCHANGED <<stale, budget>>
              \/ /\ LocalDocument \in Docs /\ LocalDocument.heir = core.heir /\ LocalDocument.acted = core.acted
                 /\ Head1.payload = "remove" => /\ core.block # Absent /\ LocalDocument.block = Absent
                                                /\ LocalDocument.removed = core.block
                 /\ Head1.payload = "undo" => /\ core.block = Absent /\ core.removed # Absent
                                              /\ LocalDocument.block = core.removed
                                              /\ LocalDocument.removed = Absent
                 /\ \E saved, ok \in BOOLEAN : \E d :
                       /\ Executed(LocalDocument, TRUE, <<>>, saved, ok, d)
                       /\ buf' = IF ok THEN d.buf ELSE buf
                       /\ unavailable' = IF ok THEN d.unavailable ELSE unavailable
                       /\ Head1.payload = "remove" => ok
                 /\ gone' = gone \cup (Text(core.block) \ Text(LocalDocument.block))
                 /\ UNCHANGED <<staged, page, told>>
  <1>1. /\ lane # <<>> /\ Head1 = lane[1] /\ Head1.kind = "local" /\ inflight = Absent /\ ~stale /\ Head1 \in Jobs
        /\ TypeOK /\ core \in Docs
    BY ControlParts, LaneIs DEF executeLocal, Running, TypeOK
  <1>2. Head1.payload \in {"remove", "undo"}
    BY <1>1, JobHolds
  <1>3. staged = Absent /\ Kindly(EarlyKind) = {}
    <2>1. staged = Absent /\ \A i \in Kindly(EarlyKind) : i = 1
      BY <1>1, Turn
    <2> QED
      BY <1>1, <2>1 DEF Kindly, EarlyKind
  <1>4. CASE JobFails /\ UNCHANGED <<stale, budget>>
    BY <1>1, <1>2, <1>3, <1>4
  <1>5. CASE /\ ~((Head1.payload = "remove") = (core.block = Absent) \/ (Head1.payload = "undo" /\ core.removed = Absent))
             /\ Execute(LocalDocument, TRUE, NoJobs, Plain)
             /\ gone' = gone \cup (Text(core.block) \ Text(LocalDocument.block))
             /\ UNCHANGED <<staged, page, told>>
    <2>1. PICK saved, ok \in BOOLEAN : \E d :
                       /\ Executed(LocalDocument, TRUE, <<>>, saved, ok, d)
                       /\ buf' = IF ok THEN d.buf ELSE buf
                       /\ unavailable' = IF ok THEN d.unavailable ELSE unavailable
      BY <1>5, PlainExecuted
    <2>2. PICK d :     /\ Executed(LocalDocument, TRUE, <<>>, saved, ok, d)
                       /\ buf' = IF ok THEN d.buf ELSE buf
                       /\ unavailable' = IF ok THEN d.unavailable ELSE unavailable
      BY <2>1
    <2>3. Head1.payload = "remove" => ok
      BY <1>1, <2>2 DEF Executed, Delicate
    <2>4. CASE Head1.payload = "remove"
      <3>1. core.block # Absent
        BY <1>5, <2>4
      <3>2. LocalDocument = [core EXCEPT !.block = Absent, !.removed = core.block]
        BY <2>4 DEF LocalDocument
      <3>3. /\ LocalDocument \in Docs /\ LocalDocument.heir = core.heir /\ LocalDocument.acted = core.acted
            /\ LocalDocument.block = Absent /\ LocalDocument.removed = core.block
        BY <1>1, <3>2 DEF Docs
      <3> HIDE DEF LocalDocument
      <3> QED
        BY <1>1, <1>2, <1>3, <1>5, <2>2, <2>3, <2>4, <3>1, <3>3
    <2>5. CASE Head1.payload = "undo"
      <3>1. core.block = Absent /\ core.removed # Absent
        BY <1>5, <2>5
      <3>2. LocalDocument = [core EXCEPT !.block = core.removed, !.removed = Absent]
        BY <2>5 DEF LocalDocument
      <3>3. /\ LocalDocument \in Docs /\ LocalDocument.heir = core.heir /\ LocalDocument.acted = core.acted
            /\ LocalDocument.block = core.removed /\ LocalDocument.removed = Absent
        BY <1>1, <3>2 DEF Docs
      <3> QED
        BY <1>1, <1>2, <1>3, <1>5, <2>2, <2>3, <2>5, <3>1, <3>3
    <2> QED
      BY <1>2, <2>4, <2>5
  <1> QED
    BY <1>4, <1>5, Zenon DEF executeLocal, LocalDocument

LEMMA executeLocalControl ==
    ASSUME ControlInv, ~Races, executeLocal
    PROVE  ControlInv'
  <1>1. /\ lane # <<>> /\ Head1 = lane[1] /\ lane[1].kind = "local" /\ Head1.payload \in {"remove", "undo"}
        /\ inflight = Absent /\ ~stale /\ staged = Absent /\ TypeOK
    BY executeLocalCases, ControlParts
  <1>2. lane[1].kind \notin EarlyKind \cup {"save"}
    BY <1>1 DEF EarlyKind
  <1>3. CASE JobFails /\ UNCHANGED <<stale, budget>>
    <2>1. budget' \in [typed : Nat, foreign : Nat, deletes : Nat, closes : Nat, faults : Nat]
      BY <1>1, <1>3 DEF TypeOK
    <2> QED
      BY <1>1, <1>2, <1>3, <2>1, FailedControl
  <1>4. ASSUME NEW saved \in BOOLEAN, NEW ok \in BOOLEAN, NEW d,
               /\ LocalDocument \in Docs /\ LocalDocument.heir = core.heir /\ LocalDocument.acted = core.acted,
               Head1.payload = "remove" => /\ core.block # Absent /\ LocalDocument.block = Absent
                                           /\ LocalDocument.removed = core.block,
               Head1.payload = "undo" => /\ core.block = Absent /\ core.removed # Absent
                                         /\ LocalDocument.block = core.removed
                                         /\ LocalDocument.removed = Absent,
               Executed(LocalDocument, TRUE, <<>>, saved, ok, d),
               buf' = IF ok THEN d.buf ELSE buf,
               unavailable' = IF ok THEN d.unavailable ELSE unavailable,
               Head1.payload = "remove" => ok,
               gone' = gone \cup (Text(core.block) \ Text(LocalDocument.block)),
               UNCHANGED <<staged, page, told>>
        PROVE  ControlInv'
    <2> DEFINE document == LocalDocument
    <2>1. Executed(document, TRUE, <<>>, saved, ok, d)
      BY <1>4
    <2>2. /\ document \in Docs /\ document.heir = core.heir
          /\ document.block # Absent => document.removed = Absent
          /\ ~ok => document.block # Absent \/ document.removed = Absent
          /\ core.block # Absent \/ core.removed # Absent
      BY <1>1, <1>4, <2>1
    <2>3. Heirs = {} /\ core.heir = Absent
      BY <2>2, NoHeirs
    <2>4. gone' \in SUBSET Nat
      <3>1. Text(core.block) \subseteq Nat
        BY <1>1, TextRange DEF TypeOK, Docs, Text
      <3> QED
        BY <1>1, <1>4, <3>1 DEF TypeOK
    <2>5. page' \in [shown : BOOLEAN, kept : Records \cup {Absent}, unsavedKept : BOOLEAN, dropped : SUBSET Nat]
      BY <1>1, <1>4 DEF TypeOK
    <2>6. /\ ok => buf' = d.buf /\ unavailable' = d.unavailable
          /\ ~ok => buf' = buf /\ unavailable' = unavailable /\ lane[1].kind \notin EarlyKind
          /\ staged' = Absent /\ told' = told
      BY <1>1, <1>2, <1>4, <2>1
    <2>7. TRUE \in BOOLEAN /\ document.heir = Absent /\ lane[1].kind # "save"
      BY <1>2, <2>2, <2>3
    <2> HIDE DEF document
    <2> QED
      BY <1>1, <2>1, <2>2, <2>3, <2>4, <2>5, <2>6, <2>7, ExecutedControl
  <1>5. JobFails /\ UNCHANGED <<stale, budget>> => ControlInv'
    BY <1>3
  <1> QED
    BY <1>4, <1>5, executeLocalCases

\* A splice lowered early meets the text it was lowered against.
EarlyDocument == [core EXCEPT !.block = bufferSplices(Head1.payload, @)]

LEMMA executeSplicesCases ==
    ASSUME ControlInv, ~Races, executeSplices
    PROVE  /\ lane # <<>> /\ Head1 = lane[1] /\ lane[1].kind \in EarlyKind /\ inflight = Absent /\ ~stale
           /\ lane[1].payload \in Buffers /\ core.block # Absent /\ lane[1].payload.source = core.block
           /\ EarlyDocument \in Docs /\ EarlyDocument.block \in Texts /\ EarlyDocument.heir = core.heir
           /\ EarlyDocument.removed = core.removed /\ EarlyDocument.acted = core.acted
           /\ Range(EarlyDocument.block) = Visible(lane[1].payload)
           /\ IsInjective(lane[1].payload.source) /\ IsInjective(lane[1].payload.visible)
                 => IsInjective(EarlyDocument.block)
           /\ \E saved \in BOOLEAN : \E d :
                 /\ Executed(EarlyDocument, TRUE, <<>>, saved, TRUE, d)
                 /\ buf' = d.buf /\ unavailable' = d.unavailable
           /\ staged' = Absent /\ UNCHANGED <<gone, page, told>>
  <1>1. /\ lane # <<>> /\ Head1 = lane[1] /\ Head1 \in Jobs /\ lane[1].kind \in EarlyKind /\ inflight = Absent /\ ~stale
        /\ 1 \in Kindly(EarlyKind) /\ core \in Docs
    BY ControlParts, LaneIs DEF executeSplices, Kindly, TypeOK
  <1>2. lane[1].payload \in Buffers /\ core.block # Absent /\ lane[1].payload.source = core.block
    BY <1>1, JobHolds, ControlParts DEF InTurn
  <1>3. /\ Fits(lane[1].payload, core.block) /\ bufferSplices(lane[1].payload, core.block) \in Texts
        /\ Range(bufferSplices(lane[1].payload, core.block)) = Range(lane[1].payload.visible)
        /\ IsInjective(lane[1].payload.source) /\ IsInjective(lane[1].payload.visible)
              => IsInjective(bufferSplices(lane[1].payload, core.block))
    BY <1>2, SplicesOfSource
  <1>4. /\ EarlyDocument \in Docs /\ EarlyDocument.heir = core.heir
        /\ EarlyDocument.block = bufferSplices(lane[1].payload, core.block)
        /\ EarlyDocument.removed = core.removed /\ EarlyDocument.acted = core.acted
    BY <1>1, <1>3 DEF EarlyDocument, Docs
  <1>5. /\ \E saved, ok \in BOOLEAN :
               LET d == Observed(EarlyDocument.block, TRUE, buf, inflight) IN
               /\ ok \/ Races \/ ~Delicate
               /\ Fault(~saved \/ ~ok)
               /\ Reached(EarlyDocument, saved)
               /\ lane' = Tail(lane) \o NoJobs(ok) \o (IF ok THEN Recovery(d) ELSE <<>>)
               /\ ok => /\ publish(EarlyDocument.block, d)
                        /\ buf' = d.buf /\ unavailable' = d.unavailable /\ gone' = gone
                        /\ staged' = IF Head1.kind = "picked" THEN Absent ELSE staged
               /\ UNCHANGED <<inflight, action>>
        /\ UNCHANGED <<page, told>>
    <2>1. ~(core.block = Absent \/ ~Fits(Head1.payload, core.block))
      BY <1>1, <1>2, <1>3
    <2>2. CASE Head1.kind = "word"
      BY <2>1, <2>2, Zenon DEF executeSplices, EarlyDocument, Execute, Plain
    <2>3. CASE Head1.kind = "picked"
      BY <2>1, <2>3, Zenon DEF executeSplices, EarlyDocument, Execute, Plain
    <2>4. CASE Head1.kind = "prefix"
      BY <2>1, <2>4, Zenon DEF executeSplices, EarlyDocument, Execute, Plain
    <2> QED
      BY <1>1, <2>2, <2>3, <2>4 DEF EarlyKind
  <1>6. PICK saved, ok \in BOOLEAN :
               LET d == Observed(EarlyDocument.block, TRUE, buf, inflight) IN
               /\ ok \/ Races \/ ~Delicate
               /\ Fault(~saved \/ ~ok)
               /\ Reached(EarlyDocument, saved)
               /\ lane' = Tail(lane) \o NoJobs(ok) \o (IF ok THEN Recovery(d) ELSE <<>>)
               /\ ok => /\ publish(EarlyDocument.block, d)
                        /\ buf' = d.buf /\ unavailable' = d.unavailable /\ gone' = gone
                        /\ staged' = IF Head1.kind = "picked" THEN Absent ELSE staged
               /\ UNCHANGED <<inflight, action>>
    BY <1>5
  <1>7. ok = TRUE
    BY <1>1, <1>6 DEF Delicate
  <1>8. staged' = Absent
    BY <1>1, <1>6, <1>7, Turn DEF EarlyKind
  <1> DEFINE d == Observed(EarlyDocument.block, TRUE, buf, inflight)
  <1>9. Executed(EarlyDocument, TRUE, <<>>, saved, TRUE, d)
    <2>1. NoJobs(ok) = <<>>
      BY DEF NoJobs
    <2> QED
      BY <1>6, <1>7, <2>1 DEF Executed
  <1>10. buf' = d.buf /\ unavailable' = d.unavailable /\ gone' = gone
    BY <1>6, <1>7
  <1> HIDE DEF d
  <1>11. lane[1].payload # Absent
    BY <1>2, AbsentIsNoData
  <1>12. /\ EarlyDocument.block \in Texts /\ Range(EarlyDocument.block) = Visible(lane[1].payload)
         /\ IsInjective(lane[1].payload.source) /\ IsInjective(lane[1].payload.visible)
               => IsInjective(EarlyDocument.block)
    BY <1>3, <1>4, <1>11 DEF Visible
  <1> QED
    BY <1>1, <1>2, <1>4, <1>5, <1>8, <1>9, <1>10, <1>12

LEMMA executeSplicesControl ==
    ASSUME ControlInv, ~Races, executeSplices
    PROVE  ControlInv'
  <1>1. /\ lane # <<>> /\ Head1 = lane[1] /\ lane[1].kind \in EarlyKind /\ inflight = Absent
        /\ core.block # Absent /\ EarlyDocument \in Docs /\ EarlyDocument.block \in Texts
        /\ EarlyDocument.heir = core.heir /\ EarlyDocument.removed = core.removed
        /\ staged' = Absent /\ UNCHANGED <<gone, page, told>> /\ TypeOK
    BY executeSplicesCases, ControlParts
  <1>2. PICK saved \in BOOLEAN : \E d :
                 /\ Executed(EarlyDocument, TRUE, <<>>, saved, TRUE, d)
                 /\ buf' = d.buf /\ unavailable' = d.unavailable
    BY executeSplicesCases
  <1>3. PICK d : /\ Executed(EarlyDocument, TRUE, <<>>, saved, TRUE, d)
                 /\ buf' = d.buf /\ unavailable' = d.unavailable
    BY <1>2
  <1>4. Heirs = {} /\ core.heir = Absent /\ core.removed = Absent
    BY <1>1, NoHeirs, ControlParts DEF Removal
  <1>5. gone' \in SUBSET Nat /\ told' = told
        /\ page' \in [shown : BOOLEAN, kept : Records \cup {Absent}, unsavedKept : BOOLEAN, dropped : SUBSET Nat]
    BY <1>1 DEF TypeOK
  <1>6. TRUE \in BOOLEAN /\ lane[1].kind # "save" /\ EarlyDocument.block # Absent
    BY <1>1, AbsentIsNoData DEF EarlyKind
  <1> QED
    BY <1>1, <1>3, <1>4, <1>5, <1>6, ExecutedControl

LEMMA refuseJobControl ==
    ASSUME ControlInv, ~Races, refuseJob
    PROVE  ControlInv'
  <1>1. lane # <<>> /\ inflight = Absent /\ Head1 = lane[1] /\ TypeOK
    BY ControlParts, LaneIs DEF refuseJob
  <1>2. lane[1].kind \notin EarlyKind \cup {"save"} /\ JobFails /\ UNCHANGED stale
    BY <1>1 DEF refuseJob
  <1>3. budget' \in [typed : Nat, foreign : Nat, deletes : Nat, closes : Nat, faults : Nat]
    BY <1>1, FaultHolds DEF refuseJob
  <1> QED
    BY <1>1, <1>2, <1>3, FailedControl

\* A kept record goes back into the block it was read from.
RestoredDocument == [core EXCEPT !.block = Head1.payload.content]

LEMMA restoreUnsavedCases ==
    ASSUME ControlInv, ~Races, restoreUnsaved
    PROVE  /\ lane # <<>> /\ Head1 = lane[1] /\ lane[1].kind = "resume" /\ lane[1].payload \in Records
           /\ inflight = Absent /\ ~stale /\ staged = Absent /\ Kindly(EarlyKind) = {}
           /\ page' \in [shown : BOOLEAN, kept : {Absent}, unsavedKept : BOOLEAN, dropped : SUBSET Nat]
           /\ page'.shown = page.shown /\ page.dropped \subseteq page'.dropped /\ UNCHANGED <<staged, told, gone>>
           /\ \/ /\ core.block # Absent /\ core.block \in lane[1].payload.bases
                 /\ \E saved, ok \in BOOLEAN : \E d :
                       /\ Executed(RestoredDocument, TRUE, <<>>, saved, ok, d)
                       /\ buf' = IF ok THEN d.buf ELSE buf
                       /\ unavailable' = IF ok THEN d.unavailable ELSE unavailable
              \/ /\ lane' = Tail(lane)
                 /\ Range(lane[1].payload.content) \subseteq page'.dropped
                 /\ UNCHANGED <<core, disk, seen, stale, buf, inflight, action, unavailable, orphan, compose,
                                view, landed, budget>>
  <1>1. /\ lane # <<>> /\ Head1 = lane[1] /\ Head1 \in Jobs /\ lane[1].kind = "resume" /\ inflight = Absent
        /\ 1 \in Kindly({"resume"})
    BY ControlParts, LaneIs DEF restoreUnsaved, Running, Kindly
  <1>2. lane[1].payload \in Records /\ ~stale /\ staged = Absent
    BY <1>1, JobHolds, ControlParts DEF Resumed
  <1>3. Kindly(EarlyKind) = {}
    <2>1. \A i \in Kindly(EarlyKind) : i = 1
      BY <1>1, Turn
    <2> QED
      BY <1>1, <2>1 DEF Kindly, EarlyKind
  <1>4. UNCHANGED <<staged, told, gone>>
    BY DEF restoreUnsaved
  <1>a. page \in [shown : BOOLEAN, kept : Records \cup {Absent}, unsavedKept : BOOLEAN, dropped : SUBSET Nat]
    BY ControlParts DEF TypeOK
  <1>5. CASE core.block # Absent /\ core.block \in Head1.payload.bases
    <2>1. Execute(RestoredDocument, TRUE, NoJobs, Plain) /\ page' = [page EXCEPT !.kept = Absent]
      BY <1>5, Zenon DEF restoreUnsaved, RestoredDocument
    <2>a. /\ page' \in [shown : BOOLEAN, kept : {Absent}, unsavedKept : BOOLEAN, dropped : SUBSET Nat]
          /\ page'.shown = page.shown /\ page.dropped \subseteq page'.dropped
      BY <1>a, <2>1
    <2>2. \E saved, ok \in BOOLEAN : \E d :
                       /\ Executed(RestoredDocument, TRUE, <<>>, saved, ok, d)
                       /\ buf' = IF ok THEN d.buf ELSE buf
                       /\ unavailable' = IF ok THEN d.unavailable ELSE unavailable
      BY <2>1, PlainExecuted
    <2> QED
      BY <1>1, <1>2, <1>3, <1>4, <1>5, <2>a, <2>2
  <1>6. CASE ~(core.block # Absent /\ core.block \in Head1.payload.bases)
    <2>1. /\ lane' = Tail(lane)
          /\ page' = [page EXCEPT !.kept = Absent, !.dropped = @ \cup Range(Head1.payload.content)]
          /\ UNCHANGED <<graphVars, buf, draftVars, compose, view, landed, budget>>
      BY <1>6 DEF restoreUnsaved
    <2>a. Range(lane[1].payload.content) \in SUBSET Nat
      BY <1>2, TextRange DEF Records
    <2>b. /\ page' \in [shown : BOOLEAN, kept : {Absent}, unsavedKept : BOOLEAN, dropped : SUBSET Nat]
          /\ page'.shown = page.shown /\ page.dropped \subseteq page'.dropped
          /\ Range(lane[1].payload.content) \subseteq page'.dropped
      BY <1>a, <1>1, <2>1, <2>a
    <2> QED
      BY <1>1, <1>2, <1>3, <1>4, <2>1, <2>b DEF graphVars, draftVars
  <1> QED
    BY <1>5, <1>6

LEMMA restoreUnsavedControl ==
    ASSUME ControlInv, ~Races, restoreUnsaved
    PROVE  ControlInv'
  <1>1. /\ lane # <<>> /\ Head1 = lane[1] /\ lane[1].kind = "resume" /\ lane[1].payload \in Records
        /\ inflight = Absent /\ staged = Absent /\ UNCHANGED <<staged, told, gone>> /\ TypeOK
        /\ lane \in Seq(Jobs)
    BY restoreUnsavedCases, ControlParts
  <1>2. lane[1].kind \notin EarlyKind \cup {"save"}
    BY <1>1 DEF EarlyKind
  <1>3. page' \in [shown : BOOLEAN, kept : Records \cup {Absent}, unsavedKept : BOOLEAN, dropped : SUBSET Nat]
    BY restoreUnsavedCases
  <1>4. lane[1].payload.content \in Texts
    BY <1>1 DEF Records
  <1>5. ASSUME NEW saved \in BOOLEAN, NEW ok \in BOOLEAN, NEW d, core.block # Absent,
               Executed(RestoredDocument, TRUE, <<>>, saved, ok, d),
               buf' = IF ok THEN d.buf ELSE buf,
               unavailable' = IF ok THEN d.unavailable ELSE unavailable
        PROVE  ControlInv'
    <2>1. Heirs = {} /\ core.heir = Absent /\ core.removed = Absent
      BY <1>5, NoHeirs, ControlParts DEF Removal
    <2>2. RestoredDocument = [core EXCEPT !.block = lane[1].payload.content]
      BY <1>1 DEF RestoredDocument
    <2>3. /\ RestoredDocument \in Docs /\ RestoredDocument.block = lane[1].payload.content
          /\ RestoredDocument.heir = core.heir /\ RestoredDocument.removed = core.removed
      BY <1>1, <1>4, <2>2 DEF Docs, TypeOK
    <2>4. /\ ok => buf' = d.buf /\ unavailable' = d.unavailable
          /\ ~ok => buf' = buf /\ unavailable' = unavailable /\ lane[1].kind \notin EarlyKind
          /\ staged' = Absent /\ told' = told /\ gone' \in SUBSET Nat
      BY <1>1, <1>2, <1>5 DEF TypeOK
    <2>5. /\ RestoredDocument.heir = Absent /\ RestoredDocument.removed = Absent
          /\ lane[1].kind # "save" /\ RestoredDocument.block # Absent
      BY <1>2, <1>4, <2>1, <2>3, AbsentIsNoData
    <2>6. PICK own \in BOOLEAN : own = TRUE
      OBVIOUS
    <2>7. Executed(RestoredDocument, own, <<>>, saved, ok, d)
      BY <1>5, <2>6
    <2> QED
      BY <1>1, <1>3, <2>1, <2>3, <2>4, <2>5, <2>7, ExecutedControl
  <1>6. CASE /\ lane' = Tail(lane)
             /\ UNCHANGED <<core, disk, seen, stale, buf, inflight, action, unavailable, orphan, compose,
                            view, landed, budget>>
    <2>1. Control'
      BY <1>1, <1>2, <1>6, PassedControl
    <2>2. lane' \in Seq(Jobs)
      BY <1>1, <1>6, NothingFollows
    <2>3. TypeOK'
      BY <1>1, <1>3, <1>6, <2>2 DEF TypeOK
    <2> QED
      BY <2>1, <2>3 DEF ControlInv
  <1> QED
    BY <1>5, <1>6, restoreUnsavedCases

LEMMA ShiftedLane ==
    ASSUME lane \in Seq(Jobs), lane # <<>>, lane' = Tail(lane)
    PROVE  /\ lane' \in Seq(Jobs)
           /\ \A i \in DOMAIN lane' : i \in Nat /\ i >= 1 /\ i + 1 \in DOMAIN lane /\ lane'[i] = lane[i + 1]
  <1>1. Follows(<<>>) /\ lane' = Tail(lane) \o <<>> /\ lane' \in Seq(Jobs)
    BY NothingFollows
  <1> QED
    BY <1>1, TailLane

LEMMA retryNowControl ==
    ASSUME ControlInv, retryNow
    PROVE  ControlInv'
  <1>1. /\ lane # <<>> /\ lane' = Tail(lane) /\ inflight = Absent /\ disk' = core /\ lane \in Seq(Jobs) /\ TypeOK
        /\ UNCHANGED <<core, seen, stale, buf, inflight, action, unavailable, orphan, compose, staged, view, page,
                       told, gone, landed, budget>>
    BY ControlParts DEF retryNow, Running, draftVars
  <1>2. /\ lane' \in Seq(Jobs)
        /\ \A i \in DOMAIN lane' : i \in Nat /\ i >= 1 /\ i + 1 \in DOMAIN lane /\ lane'[i] = lane[i + 1]
    BY <1>1, ShiftedLane
  <1>3. TypeOK'
    BY <1>1, <1>2 DEF TypeOK
  <1>4. /\ Current /\ Removal /\ Succession /\ InTurn /\ StagedAlone /\ Composing /\ Based /\ Resumed
    BY ControlParts
  <1>5. ASSUME NEW kinds, NEW i \in Kindly(kinds)'
        PROVE  i \in Nat /\ i >= 1 /\ i + 1 \in Kindly(kinds) /\ lane'[i] = lane[i + 1]
    BY <1>2, <1>5 DEF Kindly
  <1>6. Pending' /\ Current' /\ Removal'
    BY <1>1, <1>4 DEF Pending, Current, Removal
  <1>7. Succession'
    <2>1. ASSUME NEW i \in Heirs', NEW j \in Heirs'
          PROVE  i = j
      <3>1. i \in Nat /\ j \in Nat /\ i + 1 \in Heirs /\ j + 1 \in Heirs
        BY <1>5, <2>1 DEF Heirs
      <3>2. i + 1 = j + 1
        BY <1>4, <3>1 DEF Succession
      <3> QED
        BY <3>1, <3>2
    <2>2. Heirs' # {} => Heirs # {}
      BY <1>5 DEF Heirs
    <2> QED
      BY <1>1, <1>4, <2>1, <2>2 DEF Succession, Lost
  <1>8. InTurn'
    <2> SUFFICES ASSUME NEW i \in Kindly(EarlyKind)'
                 PROVE  /\ \A j \in DOMAIN lane' : j < i => lane'[j].kind = "save"
                        /\ core'.block # Absent /\ lane'[i].payload.source = core'.block
                        /\ ~stale' /\ inflight' = Absent
      BY DEF InTurn
    <2>1. i \in Nat /\ i + 1 \in Kindly(EarlyKind) /\ lane'[i] = lane[i + 1]
      BY <1>5
    <2>2. ASSUME NEW j \in DOMAIN lane', j < i
          PROVE  lane'[j].kind = "save"
      <3>1. j \in Nat /\ j + 1 \in DOMAIN lane /\ lane'[j] = lane[j + 1]
        BY <1>2
      <3>2. j + 1 < i + 1
        BY <2>1, <2>2, <3>1
      <3> QED
        BY <1>4, <2>1, <3>1, <3>2 DEF InTurn
    <2> QED
      BY <1>1, <1>4, <2>1, <2>2 DEF InTurn
  <1>9. Resumed'
    <2> SUFFICES ASSUME NEW i \in Kindly({"resume"})'
                 PROVE  FALSE
      BY DEF Resumed
    <2>1. i \in Nat /\ i >= 1 /\ i + 1 \in Kindly({"resume"})
      BY <1>5
    <2>2. i + 1 = 1
      BY <1>4, <2>1 DEF Resumed
    <2> QED
      BY <2>1, <2>2
  <1>10. StagedAlone'
    <2>1. \A i \in DOMAIN lane' : i + 1 \in DOMAIN lane /\ lane'[i] = lane[i + 1]
      BY <1>2
    <2> QED
      BY <1>1, <1>4, <2>1 DEF StagedAlone
  <1>11. Composing'
    <2>1. compose.on => Kindly({"submit"})' = {}
      BY <1>4, <1>5 DEF Composing
    <2> QED
      BY <1>1, <1>4, <2>1 DEF Composing
  <1>12. Based'
    <2>0. Kindly(EarlyKind)' = {} => Kindly(EarlyKind) = {} \/ 1 \in Kindly(EarlyKind)
      <3> SUFFICES ASSUME NEW i \in Kindly(EarlyKind), i # 1
                   PROVE  i - 1 \in Kindly(EarlyKind)'
        OBVIOUS
      <3>1. Follows(<<>>) /\ lane' = Tail(lane) \o <<>>
        BY <1>1, NothingFollows
      <3>2. i - 1 \in DOMAIN lane' /\ lane'[i - 1] = lane[i]
        BY <1>1, <3>1, TailLane DEF Kindly
      <3> QED
        BY <3>2 DEF Kindly
    <2>1. 1 \notin Kindly(EarlyKind)
      BY <1>1, LaneIs DEF retryNow, Running, Kindly, EarlyKind
    <2> QED
      BY <1>1, <1>4, <2>0, <2>1 DEF Based
  <1> QED
    BY <1>3, <1>6, <1>7, <1>8, <1>9, <1>10, <1>11, <1>12 DEF ControlInv, Control

\* A draft recovered into a new block: the block made, or its text put in.
HeirExecuted(document, e, saved, ok, d) ==
    /\ d = Observed(document.block, TRUE, buf, inflight)
    /\ Fault(~saved \/ ~ok)
    /\ Reached(document, saved)
    /\ lane' = Tail(lane) \o e
    /\ ok => publish(document.block, d) /\ buf' \in {d.buf, Absent}
    /\ ~ok => stale' = TRUE /\ e = <<>> /\ UNCHANGED <<seen, orphan, compose, view, buf>>
    /\ unavailable' \in BOOLEAN
    /\ UNCHANGED <<inflight, action>>

LEMMA HeirControl ==
    ASSUME ControlInv, inflight = Absent, lane # <<>>, lane[1].kind \in {"recover", "fill"},
           NEW document \in Docs, document.block = Absent, document.removed = Absent, document.heir # Absent,
           NEW e, Follows(e), e # <<>> => document.heir = <<>>,
           NEW saved \in BOOLEAN, NEW ok \in BOOLEAN, NEW d,
           HeirExecuted(document, e, saved, ok, d), UNCHANGED <<staged, page, told, gone>>
    PROVE  ControlInv'
  <1>1. TypeOK /\ lane \in Seq(Jobs) /\ orphan = FALSE /\ Succession
    BY ControlParts DEF Current
  <1>2. /\ core' = document /\ disk' \in {disk, document} /\ disk' \in Docs
        /\ landed' = landed \cup Text(document.block) /\ landed' \in SUBSET Nat
    BY <1>1, ReachedHolds DEF HeirExecuted
  <1>3. budget' \in [typed : Nat, foreign : Nat, deletes : Nat, closes : Nat, faults : Nat]
    <2>1. Fault(~saved \/ ~ok) /\ (~saved \/ ~ok) \in BOOLEAN
      BY DEF HeirExecuted
    <2> QED
      BY <1>1, <2>1, FaultHolds
  <1>4. inflight' = Absent /\ action' = action /\ unavailable' \in BOOLEAN
    BY DEF HeirExecuted
  <1>5. PICK own \in BOOLEAN : own = TRUE
    OBVIOUS
  <1>6. d = Observed(document.block, own, buf, inflight) /\ Observes(document.block, own, d)
    <2>1. d = Observed(document.block, own, buf, inflight)
      BY <1>5 DEF HeirExecuted
    <2> QED
      BY <1>1, <2>1, ObservingNow
  <1>7. lane' = Tail(lane) \o e /\ lane' \in Seq(Jobs)
    <2>1. lane' = Tail(lane) \o e
      BY DEF HeirExecuted
    <2> QED
      BY <1>1, <2>1, TailLane
  <1>8. 1 \in Heirs /\ (\A i \in Heirs : i = 1) /\ Lost
    <2>1. 1 \in Heirs
      BY <1>1, LaneIs DEF Heirs, Kindly
    <2> QED
      BY <1>1, <2>1 DEF Succession
  <1>9. \A i \in Heirs' : e # <<>> /\ i = Len(lane)
    BY <1>1, <1>7, <1>8, HeirsPass
  <1>10. disk'.heir # Absent => disk'.block = Absent /\ disk'.removed = Absent
    BY <1>1, <1>2 DEF Succession
  <1>11. staged = Absent /\ staged' = Absent /\ lane[1].kind \notin EarlyKind \cup {"save"}
    <2>1. lane[1].kind \notin EarlyKind \cup {"save"}
      BY DEF EarlyKind
    <2> QED
      BY <2>1, Turn DEF EarlyKind
  <1>12. CASE ok
    <2>1. publish(document.block, d) /\ buf' \in {d.buf, Absent} /\ seen' = Absent /\ stale' = FALSE /\ orphan' = FALSE
      BY <1>6, <1>12 DEF HeirExecuted, publish, Observes
    <2>2. /\ view' \in [observed : BOOLEAN, timer : BOOLEAN, menu : BOOLEAN]
          /\ compose' \in [on : BOOLEAN, live : BOOLEAN, content : Texts \cup {Absent}]
          /\ ~compose'.live /\ ~view'.observed
      BY <1>1, <1>6, <2>1, PublishedView DEF Observes
    <2>3. Succession'
      BY <1>2, <1>9, <1>10, <2>1, <2>2 DEF Succession, Lost
    <2>4. document.block # Absent => document.removed = Absent
      OBVIOUS
    <2>5. buf' = d.buf \/ (buf' = Absent /\ document.block = Absent)
      BY <2>1
    <2>6. Control'
      BY <1>2, <1>4, <1>6, <1>7, <1>11, <2>1, <2>3, <2>4, <2>5, PublishedControl
    <2>7. buf' \in Buffers \cup {Absent}
      BY <1>6, <2>1 DEF Observes
    <2>8. TypeOK'
      BY <1>1, <1>2, <1>3, <1>4, <1>7, <2>1, <2>2, <2>7 DEF TypeOK
    <2> QED
      BY <2>6, <2>8 DEF ControlInv
  <1>13. CASE ~ok
    <2>1. stale' = TRUE /\ e = <<>> /\ UNCHANGED <<seen, orphan, compose, view, buf>>
      BY <1>13 DEF HeirExecuted
    <2>2. lane' = Tail(lane)
      <3>1. Tail(lane) \in Seq(Jobs)
        BY <1>1, HeadTailProperties
      <3> QED
        BY <1>7, <2>1, <3>1, ConcatEmptySeq
    <2>3. Succession'
      BY <1>1, <1>2, <1>8, <1>9, <1>10, <2>1 DEF Succession, Lost
    <2>4. document.block # Absent \/ seen # Absent => document.removed = Absent
      OBVIOUS
    <2>5. Control'
      BY <1>2, <1>4, <1>11, <2>1, <2>2, <2>3, <2>4, WithheldControl
    <2>6. TypeOK'
      BY <1>1, <1>2, <1>3, <1>4, <1>7, <2>1 DEF TypeOK
    <2> QED
      BY <2>5, <2>6 DEF ControlInv
  <1> QED
    BY <1>12, <1>13

LEMMA HeirTurn ==
    ASSUME ControlInv, lane # <<>>, Head1.kind \in {"recover", "fill"}
    PROVE  /\ Head1 = lane[1] /\ lane[1] \in Jobs /\ core \in Docs
           /\ core.block = Absent /\ core.removed = Absent /\ seen = Absent
  <1>1. Head1 = lane[1] /\ lane[1] \in Jobs /\ 1 \in DOMAIN lane
    BY ControlParts, LaneIs
  <1>2. Lost
    BY <1>1, ControlParts DEF Succession, Heirs, Kindly
  <1> QED
    BY <1>1, <1>2, ControlParts DEF Lost, TypeOK

\* Nothing else is recovered when a new block takes the draft.
LEMMA OwnRecovers ==
    ASSUME ControlInv, inflight = Absent, NEW document \in Docs, document.block = Absent
    PROVE  /\ Recovery(Observed(document.block, TRUE, buf, inflight)) = <<>>
           /\ Unchanged(buf).buf = buf
  <1>1. TypeOK /\ orphan = FALSE
    BY ControlParts DEF Current
  <1>2. PICK own \in BOOLEAN : own = TRUE
    OBVIOUS
  <1>3. PICK d : d = Observed(document.block, own, buf, inflight)
    OBVIOUS
  <1>4. Observes(document.block, own, d)
    BY <1>1, <1>3, ObservingNow
  <1>5. ~d.recover
    BY <1>2, <1>4 DEF Observes
  <1>6. Recovery(d) = <<>>
    BY <1>5 DEF Recovery
  <1>7. Unchanged(buf).buf = buf
    BY DEF Unchanged, Draft
  <1> QED
    BY <1>2, <1>3, <1>6, <1>7

NewBlock == [core EXCEPT !.heir = <<>>]
FillJob == IF buf.visible # <<>> THEN <<Job("fill", buf.visible)>> ELSE <<>>

LEMMA recoverCases ==
    ASSUME ControlInv, recover
    PROVE  /\ lane # <<>> /\ lane[1].kind = "recover" /\ inflight = Absent /\ UNCHANGED <<staged, page, told, gone>>
           /\ \/ /\ buf = Absent /\ lane' = Tail(lane)
                 /\ UNCHANGED <<core, disk, seen, stale, buf, inflight, action, unavailable, orphan, compose,
                                view, budget, landed>>
              \/ /\ buf # Absent
                 /\ \E saved, ok \in BOOLEAN : \E e, d :
                       /\ e = IF ok THEN FillJob ELSE <<>>
                       /\ HeirExecuted(NewBlock, e, saved, ok, d)
                       /\ buf' = IF ~ok THEN buf ELSE IF buf.visible = <<>> THEN Absent ELSE d.buf
  <1>1. /\ lane # <<>> /\ Head1.kind = "recover" /\ inflight = Absent /\ UNCHANGED <<staged, page, told, gone>>
    BY DEF recover, Running
  <1>2. Head1 = lane[1] /\ core \in Docs /\ core.block = Absent
    BY <1>1, HeirTurn
  <1>3. CASE buf = Absent
    <2>1. lane' = Tail(lane) /\ UNCHANGED <<graphVars, buf, draftVars, compose, view, budget, landed>>
      BY <1>3 DEF recover
    <2> QED
      BY <1>1, <1>2, <1>3, <2>1 DEF graphVars, draftVars
  <1>4. CASE buf # Absent
    <2>1. PICK saved, ok \in BOOLEAN :
             LET d == Observed(NewBlock.block, TRUE, buf, inflight) IN
             /\ Fault(~saved \/ ~ok)
             /\ Reached(NewBlock, saved)
             /\ lane' = Tail(lane) \o (IF ok /\ buf.visible # <<>> THEN <<Job("fill", buf.visible)>> ELSE <<>>)
                                   \o (IF ok THEN Recovery(d) ELSE <<>>)
             /\ IF ok THEN publish(NewBlock.block, d) /\ buf' = IF ok /\ buf.visible = <<>> THEN Absent ELSE d.buf
                ELSE /\ stale' = TRUE
                     /\ buf' = IF ok /\ buf.visible = <<>> THEN Absent ELSE Unchanged(buf).buf
                     /\ UNCHANGED <<seen, orphan, compose, view>>
             /\ unavailable' = ~ok
             /\ UNCHANGED <<inflight, action>>
      BY <1>4, Zenon DEF recover, NewBlock, Execute
    <2> DEFINE d == Observed(NewBlock.block, TRUE, buf, inflight)
               e == IF ok THEN FillJob ELSE <<>>
    <2>2. NewBlock \in Docs /\ NewBlock.block = Absent
      BY <1>2, NoText DEF NewBlock, Docs
    <2>3. Recovery(d) = <<>> /\ Unchanged(buf).buf = buf
      BY <1>1, <2>2, OwnRecovers
    <2>4. e = <<>> \/ \E j \in Jobs : e = <<j>>
      <3>1. buf.visible \in Texts
        BY <1>4, ControlParts, BufferHolds DEF TypeOK
      <3> QED
        BY <3>1, JobMade DEF FillJob
    <2>5. e = IF ok /\ buf.visible # <<>> THEN <<Job("fill", buf.visible)>> ELSE <<>>
      BY DEF FillJob
    <2> HIDE DEF d, e
    <2>6. lane' = Tail(lane) \o e \o <<>>
      BY <2>1, <2>3, <2>5 DEF d
    <2>7. Tail(lane) \in Seq(Jobs) /\ e \in Seq(Jobs)
      <3>1. Tail(lane) \in Seq(Jobs)
        BY <1>1, ControlParts, HeadTailProperties
      <3>2. \A j \in Jobs : <<j>> \in Seq(Jobs)
        OBVIOUS
      <3>3. <<>> \in Seq(Jobs)
        BY EmptySeq
      <3> QED
        BY <2>4, <3>1, <3>2, <3>3
    <2>8. lane' = Tail(lane) \o e
      <3>1. Tail(lane) \o e \in Seq(Jobs)
        BY <2>7, ConcatProperties
      <3> QED
        BY <2>6, <3>1, ConcatEmptySeq
    <2>9. buf' = IF ~ok THEN buf ELSE IF buf.visible = <<>> THEN Absent ELSE d.buf
      BY <2>1, <2>3 DEF d
    <2>10. ok => publish(NewBlock.block, d)
      BY <2>1 DEF d
    <2>11. ~ok => stale' = TRUE /\ e = <<>> /\ UNCHANGED <<seen, orphan, compose, view, buf>>
      BY <2>1, <2>9 DEF e
    <2>12. unavailable' \in BOOLEAN
      BY <2>1
    <2>13. HeirExecuted(NewBlock, e, saved, ok, d)
      BY <2>1, <2>8, <2>9, <2>10, <2>11, <2>12 DEF HeirExecuted, d
    <2> QED
      BY <1>1, <1>2, <1>4, <2>9, <2>13 DEF e
  <1> QED
    BY <1>3, <1>4

LEMMA recoverControl ==
    ASSUME ControlInv, recover
    PROVE  ControlInv'
  <1>1. /\ lane # <<>> /\ lane[1].kind = "recover" /\ inflight = Absent /\ UNCHANGED <<staged, page, told, gone>>
        /\ TypeOK /\ lane \in Seq(Jobs)
    BY recoverCases, ControlParts
  <1>2. Head1 = lane[1] /\ core \in Docs /\ core.block = Absent /\ core.removed = Absent
    <2>1. Head1 = lane[1]
      BY <1>1, LaneIs
    <2> QED
      BY <1>1, <2>1, HeirTurn
  <1>3. CASE /\ lane' = Tail(lane)
             /\ UNCHANGED <<core, disk, seen, stale, buf, inflight, action, unavailable, orphan, compose,
                            view, budget, landed>>
    <2>1. lane[1].kind \notin EarlyKind \cup {"save"}
      BY <1>1 DEF EarlyKind
    <2>2. Control'
      BY <1>1, <1>3, <2>1, PassedControl
    <2>3. lane' \in Seq(Jobs)
      BY <1>1, <1>3, NothingFollows
    <2>4. TypeOK'
      BY <1>1, <1>3, <2>3 DEF TypeOK
    <2> QED
      BY <2>2, <2>4 DEF ControlInv
  <1>4. ASSUME NEW saved \in BOOLEAN, NEW ok \in BOOLEAN, NEW e, NEW d, buf # Absent,
               e = IF ok THEN FillJob ELSE <<>>, HeirExecuted(NewBlock, e, saved, ok, d)
        PROVE  ControlInv'
    <2>1. /\ NewBlock \in Docs /\ NewBlock.block = Absent /\ NewBlock.removed = Absent
          /\ NewBlock.heir = <<>> /\ NewBlock.heir # Absent
      BY <1>2, AbsentIsNoData, NoText DEF NewBlock, Docs
    <2>2. Follows(e)
      <3>1. buf.visible \in Texts
        BY <1>1, <1>4, BufferHolds DEF TypeOK
      <3>2. Job("fill", buf.visible) \in Jobs /\ Job("fill", buf.visible).kind = "fill"
        BY <3>1, JobMade, JobIs
      <3> QED
        BY <1>4, <3>2 DEF Follows, FillJob
    <2> QED
      BY <1>1, <1>4, <2>1, <2>2, HeirControl
  <1> QED
    BY <1>3, <1>4, recoverCases

FilledBlock == [core EXCEPT !.heir = Head1.payload]

LEMMA fillRecoveredCases ==
    ASSUME ControlInv, fillRecovered
    PROVE  /\ lane # <<>> /\ lane[1].kind = "fill" /\ Head1 = lane[1] /\ lane[1].payload \in Texts /\ inflight = Absent
           /\ UNCHANGED <<staged, page, told, gone>>
           /\ FilledBlock \in Docs /\ FilledBlock.block = core.block /\ FilledBlock.removed = core.removed
           /\ FilledBlock.heir = lane[1].payload /\ FilledBlock.acted = core.acted
           /\ \E saved, ok \in BOOLEAN : \E d :
                 /\ HeirExecuted(FilledBlock, <<>>, saved, ok, d)
                 /\ buf' = IF ok THEN Absent ELSE buf
  <1>1. /\ lane # <<>> /\ Head1.kind = "fill" /\ inflight = Absent /\ UNCHANGED <<staged, page, told, gone>>
    BY DEF fillRecovered, Running
  <1>2. Head1 = lane[1] /\ lane[1] \in Jobs /\ core \in Docs /\ core.block = Absent
    BY <1>1, HeirTurn
  <1>3. lane[1].payload \in Texts
    BY <1>1, <1>2, JobHolds
  <1>4. PICK saved, ok \in BOOLEAN :
             LET d == Observed(FilledBlock.block, TRUE, buf, inflight) IN
             /\ Fault(~saved \/ ~ok)
             /\ Reached(FilledBlock, saved)
             /\ lane' = Tail(lane) \o NoJobs(ok) \o (IF ok THEN Recovery(d) ELSE <<>>)
             /\ IF ok THEN publish(FilledBlock.block, d) /\ buf' = IF ok THEN Absent ELSE d.buf
                ELSE /\ stale' = TRUE
                     /\ buf' = IF ok THEN Absent ELSE Unchanged(buf).buf
                     /\ UNCHANGED <<seen, orphan, compose, view>>
             /\ unavailable' = ~ok
             /\ UNCHANGED <<inflight, action>>
    BY Zenon DEF fillRecovered, FilledBlock, Execute
  <1> DEFINE d == Observed(FilledBlock.block, TRUE, buf, inflight)
  <1>5. /\ FilledBlock \in Docs /\ FilledBlock.block = core.block /\ FilledBlock.removed = core.removed
        /\ FilledBlock.heir = lane[1].payload /\ FilledBlock.acted = core.acted
    BY <1>2, <1>3 DEF FilledBlock, Docs
  <1>6. Recovery(d) = <<>> /\ Unchanged(buf).buf = buf
    BY <1>1, <1>2, <1>5, OwnRecovers
  <1> HIDE DEF d
  <1>7. lane' = Tail(lane) \o <<>> \o <<>>
    BY <1>4, <1>6 DEF d, NoJobs
  <1>8. lane' = Tail(lane) \o <<>>
    <2>1. Tail(lane) \in Seq(Jobs) /\ Tail(lane) \o <<>> = Tail(lane)
      BY <1>1, ControlParts, HeadTailProperties, ConcatEmptySeq
    <2> QED
      BY <1>7, <2>1
  <1>9. buf' = IF ok THEN Absent ELSE buf
    BY <1>4, <1>6
  <1>10. HeirExecuted(FilledBlock, <<>>, saved, ok, d)
    <2>1. ok => publish(FilledBlock.block, d) /\ buf' \in {d.buf, Absent}
      BY <1>4, <1>9 DEF d
    <2>2. ~ok => stale' = TRUE /\ <<>> = <<>> /\ UNCHANGED <<seen, orphan, compose, view, buf>>
      BY <1>4, <1>9
    <2>3. unavailable' \in BOOLEAN
      BY <1>4
    <2> QED
      BY <1>4, <1>8, <2>1, <2>2, <2>3 DEF HeirExecuted, d
  <1> QED
    BY <1>1, <1>2, <1>3, <1>5, <1>9, <1>10

LEMMA fillRecoveredControl ==
    ASSUME ControlInv, fillRecovered
    PROVE  ControlInv'
  <1>1. /\ lane # <<>> /\ lane[1].kind = "fill" /\ Head1 = lane[1] /\ inflight = Absent
        /\ UNCHANGED <<staged, page, told, gone>> /\ FilledBlock \in Docs
        /\ FilledBlock.block = core.block /\ FilledBlock.removed = core.removed /\ FilledBlock.heir \in Texts
    BY fillRecoveredCases
  <1>2. PICK saved, ok \in BOOLEAN : \E d : HeirExecuted(FilledBlock, <<>>, saved, ok, d)
    BY fillRecoveredCases
  <1>3. PICK d : HeirExecuted(FilledBlock, <<>>, saved, ok, d)
    BY <1>2
  <1>4. core.block = Absent /\ core.removed = Absent
    BY <1>1, HeirTurn
  <1>5. FilledBlock.heir # Absent /\ Follows(<<>>)
    BY <1>1, AbsentIsNoData DEF Follows
  <1> QED
    BY <1>1, <1>3, <1>4, <1>5, HeirControl

LEMMA OriginalText ==
    /\ Original \in Texts /\ Range(Original) = 1..Size /\ IsInjective(Original)
    /\ Doc(Original) \in Docs /\ Original # Absent
  <1>1. Size \in Nat
    BY BoundAssumption
  <1>2. Original \in Seq(Nat) /\ DOMAIN Original = 1..Size
    <2>1. Original \in [1..Size -> Nat]
      BY <1>1 DEF Original
    <2>2. \E n \in Nat : Original \in [1..n -> Nat]
      BY <1>1, <2>1
    <2> QED
      BY <2>1, <2>2, SeqDef
  <1>3. \A i \in 1..Size : Original[i] = i
    BY DEF Original
  <1>4. Range(Original) = 1..Size /\ IsInjective(Original)
    BY <1>2, <1>3 DEF Range, IsInjective
  <1>5. Doc(Original) \in Docs
    BY <1>2 DEF Doc, Docs, Texts
  <1> QED
    BY <1>2, <1>4, <1>5, AbsentIsNoData DEF Texts

LEMMA InitControl ==
    ASSUME Init
    PROVE  ControlInv
  <1>1. /\ core = Doc(Original) /\ disk = Doc(Original) /\ seen = Original /\ stale = FALSE
        /\ lane = <<>> /\ buf = Absent /\ inflight = Absent /\ action = "idle" /\ unavailable = FALSE
        /\ orphan = FALSE /\ compose = NotComposing /\ staged = Absent /\ view = NoView /\ page = NoPage
        /\ told = FALSE /\ gone = {} /\ landed = Range(Original)
        /\ budget = [typed |-> 0, foreign |-> 0, deletes |-> 0, closes |-> 0, faults |-> 0]
    BY DEF Init
  <1>2. /\ core \in Docs /\ disk \in Docs /\ seen \in Texts /\ seen # Absent
        /\ core.block = seen /\ core.heir = Absent /\ core.removed = Absent
        /\ disk.heir = Absent /\ disk.removed = Absent
    BY <1>1, OriginalText DEF Doc
  <1>3. landed \in SUBSET Nat /\ lane \in Seq(Jobs) /\ DOMAIN lane = {}
    BY <1>1, OriginalText, EmptySeq
  <1>4. /\ compose \in [on : BOOLEAN, live : BOOLEAN, content : Texts \cup {Absent}]
        /\ view \in [observed : BOOLEAN, timer : BOOLEAN, menu : BOOLEAN]
        /\ page \in [shown : BOOLEAN, kept : Records \cup {Absent}, unsavedKept : BOOLEAN, dropped : SUBSET Nat]
        /\ compose.on = FALSE /\ compose.live = FALSE /\ view.observed = FALSE
    BY <1>1 DEF NotComposing, NoView, NoPage
  <1>5. TypeOK
    BY <1>1, <1>2, <1>3, <1>4 DEF TypeOK, Actions
  <1>6. \A kinds : Kindly(kinds) = {}
    BY <1>3 DEF Kindly
  <1>7. Resumed /\ InTurn /\ StagedAlone /\ Pending /\ Based
    BY <1>1, <1>6 DEF Resumed, InTurn, StagedAlone, Pending, Based
  <1>8. Current /\ Removal /\ Composing
    BY <1>1, <1>2, <1>4 DEF Current, Removal, Composing
  <1>9. Succession
    BY <1>2, <1>6 DEF Succession, Heirs
  <1> QED
    BY <1>5, <1>7, <1>8, <1>9 DEF ControlInv, Control

\* A step that changes nothing.
LEMMA IdleControl ==
    ASSUME ControlInv, UNCHANGED vars
    PROVE  ControlInv'
  <1>1. TypeOK'
    BY ControlParts DEF TypeOK, vars, graphVars, draftVars
  <1>2. /\ Resumed' /\ Pending' /\ Current' /\ Removal'
    BY ControlParts DEF vars, Resumed, Pending, Current, Removal, Kindly
  <1>3. /\ InTurn' /\ StagedAlone' /\ Composing' /\ Based'
    BY ControlParts DEF vars, InTurn, StagedAlone, Composing, Based, Kindly
  <1>4. Succession'
    BY ControlParts DEF vars, Succession, Lost, Heirs, Kindly
  <1> QED
    BY <1>1, <1>2, <1>3, <1>4 DEF ControlInv, Control

LEMMA NextControl ==
    ASSUME ControlInv, ~Races, Next
    PROVE  ControlInv'
  <1>1. CASE Surface
    BY <1>1, observeControl, TypeControl, EraseControl, closeMenuControl, commitDraftWithControl, leaveControl,
       compositionStartControl, compositionEndControl, stageDraftSpliceControl, pickerRunControl,
       pickerCloseControl, runVimWordMotionControl DEF Surface
  <1>2. CASE flushTimer
    BY <1>2, flushTimerControl
  <1>3. CASE Lane
    BY <1>3, ensureCurrentControl, submitPrepareControl, submitSavedControl, submitUnpublishedControl,
       submitRefusedControl, applyRemoteControl, executeLocalControl, executeSplicesControl, recoverControl,
       fillRecoveredControl, refuseJobControl, retryNowControl, restoreUnsavedControl DEF Lane
  <1>4. CASE World
    BY <1>4, remoteArrivesControl, localArrivesControl, retryControl, hideControl, showControl,
       discardControl DEF World
  <1> QED
    BY <1>1, <1>2, <1>3, <1>4 DEF Next

\* In every reachable state of an editor whose early edits nothing overtakes
\* (graph lane of session.ts, ContentSessions of content-session.ts) a
\* submission runs on the text it was written against, an early edit meets
\* the text it was lowered against, a staged edit has the lane to itself and
\* a draft is recovered at most once.
THEOREM ControlHolds == ~Races => (Spec => []ControlInv)
  <1> SUFFICES ASSUME ~Races PROVE Spec => []ControlInv
    OBVIOUS
  <1>1. Init => ControlInv
    BY InitControl
  <1>2. ControlInv /\ [Next]_vars => ControlInv'
    BY NextControl, IdleControl
  <1> QED
    BY <1>1, <1>2, PTL DEF Spec

\* With nothing under way the draft of the block is based on the text that is
\* published, which is the document's (ContentSessions.publish, needsReconcile).
THEOREM QuietCurrent == ~Races => (Spec => []QuietIsCurrent)
  <1> SUFFICES ASSUME ~Races PROVE Spec => []QuietIsCurrent
    OBVIOUS
  <1>1. ControlInv => QuietIsCurrent
    <2> SUFFICES ASSUME ControlInv, lane = <<>>, ~stale, ~compose.on, ~unavailable, staged = Absent,
                        buf # Absent, seen # Absent
                 PROVE  buf.source = seen /\ seen = core.block
      BY DEF QuietIsCurrent
    <2>1. inflight = Absent /\ compose.content = Absent /\ seen = core.block
      BY ControlParts DEF Pending, Composing, NotComposing, Current
    <2>2. Kindly(EarlyKind) = {}
      BY EmptySeq DEF Kindly
    <2> QED
      BY <2>1, <2>2, ControlParts DEF Based
  <1> QED
    BY <1>1, ControlHolds, PTL
-----------------------------------------------------------------------------
(* What the jobs of the lane hold.                                         *)

Of(kinds) == {j.payload : j \in {k \in Range(lane) : k.kind \in kinds}}
Early == Of(EarlyKind)
Fills == Of({"fill"})
Resumes == Of({"resume"})
Inserts == Of({"insert"})

\* Jobs that may run once: an insertion, and the submission an action rides on.
Single(j) == j.kind = "insert" \/ j = Job("submit", TRUE)
Unrepeated == \A i, j \in DOMAIN lane : lane[i] = lane[j] /\ Single(lane[i]) => i = j

\* The jobs in ran leave the lane and those of e come.
Flows(ran, e) ==
    /\ Range(lane') \subseteq Range(lane) \cup Range(e)
    /\ Range(e) \subseteq Range(lane')
    /\ Range(lane) \subseteq Range(lane') \cup ran
    /\ Unrepeated /\ (\A j \in Range(e) : ~Single(j))
          => Unrepeated' /\ \A j \in ran : Single(j) => j \notin Range(lane')

Joined(r, e, s) ==
    /\ Range(s) = Range(r) \cup Range(e)
    /\ \A i \in DOMAIN s : \/ i \in DOMAIN r /\ s[i] = r[i]
                           \/ s[i] \in Range(e)

LEMMA ConcatRange ==
    ASSUME NEW r \in Seq(Jobs), NEW e \in Seq(Jobs), NEW s, s = r \o e
    PROVE  Joined(r, e, s)
  <1>1. Len(r) \in Nat /\ Len(e) \in Nat /\ DOMAIN r = 1..Len(r) /\ DOMAIN e = 1..Len(e)
    OBVIOUS
  <1>2. /\ s \in Seq(Jobs) /\ Len(s) = Len(r) + Len(e)
        /\ \A i \in 1..(Len(r) + Len(e)) : s[i] = IF i <= Len(r) THEN r[i] ELSE e[i - Len(r)]
    BY ConcatProperties
  <1>3. DOMAIN s = 1..(Len(r) + Len(e))
    BY <1>2
  <1>4. ASSUME NEW i \in DOMAIN s
        PROVE  \/ i \in DOMAIN r /\ s[i] = r[i]
               \/ s[i] \in Range(e)
    <2>1. CASE i <= Len(r)
      BY <1>1, <1>2, <1>3, <2>1
    <2>2. CASE ~(i <= Len(r))
      <3>1. i - Len(r) \in DOMAIN e /\ s[i] = e[i - Len(r)]
        BY <1>1, <1>2, <1>3, <2>2
      <3> QED
        BY <3>1 DEF Range
    <2> QED
      BY <2>1, <2>2
  <1>5. \A i \in DOMAIN r : i \in DOMAIN s /\ s[i] = r[i]
    BY <1>1, <1>2, <1>3
  <1>6. ASSUME NEW k \in DOMAIN e
        PROVE  e[k] \in Range(s)
    <2>1. k + Len(r) \in DOMAIN s /\ ~(k + Len(r) <= Len(r)) /\ (k + Len(r)) - Len(r) = k
      BY <1>1, <1>3
    <2>2. s[k + Len(r)] = e[k]
      BY <1>2, <1>3, <2>1
    <2> QED
      BY <2>1, <2>2 DEF Range
  <1>7. Range(s) \subseteq Range(r) \cup Range(e)
    BY <1>4 DEF Range
  <1>8. Range(r) \subseteq Range(s)
    BY <1>5 DEF Range
  <1>9. Range(e) \subseteq Range(s)
    BY <1>6 DEF Range
  <1> QED
    BY <1>4, <1>7, <1>8, <1>9 DEF Joined

LEMMA LaneFlows ==
    ASSUME lane \in Seq(Jobs), NEW e \in Seq(Jobs), lane' = lane \o e
    PROVE  Flows({}, e)
  <1>0. Joined(lane, e, lane')
    BY ConcatRange
  <1>1. /\ Range(lane') = Range(lane) \cup Range(e)
        /\ \A i \in DOMAIN lane' : \/ i \in DOMAIN lane /\ lane'[i] = lane[i]
                                   \/ lane'[i] \in Range(e)
    BY <1>0 DEF Joined
  <1>2. ASSUME Unrepeated, \A j \in Range(e) : ~Single(j)
        PROVE  Unrepeated'
    <2>1. \A i \in DOMAIN lane' : Single(lane'[i]) => i \in DOMAIN lane /\ lane'[i] = lane[i]
      BY <1>1, <1>2
    <2>2. ASSUME NEW i \in DOMAIN lane', NEW j \in DOMAIN lane', lane'[i] = lane'[j], Single(lane'[i])
          PROVE  i = j
      <3>1. Single(lane'[j])
        BY <2>2
      <3> QED
        BY <1>2, <2>1, <2>2, <3>1 DEF Unrepeated
    <2> QED
      BY <2>2 DEF Unrepeated, Single
  <1> QED
    BY <1>1, <1>2 DEF Flows

LEMMA TailFlows ==
    ASSUME lane \in Seq(Jobs), lane # <<>>, NEW e \in Seq(Jobs), lane' = Tail(lane) \o e
    PROVE  Flows({lane[1]}, e)
  <1> DEFINE r == Tail(lane)
  <1>1. r \in Seq(Jobs) /\ Len(lane) \in Nat /\ Len(lane) >= 1 /\ DOMAIN lane = 1..Len(lane)
    BY HeadTailProperties, LenProperties, EmptySeq
  <1>2. /\ Len(r) = Len(lane) - 1 /\ DOMAIN r = 1..(Len(lane) - 1)
        /\ \A i \in 1..(Len(lane) - 1) : r[i] = lane[i + 1]
    BY <1>1, HeadTailProperties
  <1>3. \A i \in DOMAIN r : i \in Nat /\ i >= 1 /\ i + 1 \in DOMAIN lane /\ r[i] = lane[i + 1]
    BY <1>1, <1>2
  <1>4. \A i \in DOMAIN lane : i # 1 => i - 1 \in DOMAIN r /\ r[i - 1] = lane[i]
    BY <1>1, <1>2
  <1> HIDE DEF r
  <1>11. lane' = r \o e
    BY DEF r
  <1>12. Joined(r, e, lane')
    BY <1>1, <1>11, ConcatRange
  <1>5. /\ Range(lane') = Range(r) \cup Range(e)
        /\ \A i \in DOMAIN lane' : \/ i \in DOMAIN r /\ lane'[i] = r[i]
                                   \/ lane'[i] \in Range(e)
    BY <1>12 DEF Joined
  <1>6. Range(r) \subseteq Range(lane)
    BY <1>3 DEF Range
  <1>7. Range(lane) \subseteq Range(r) \cup {lane[1]}
    BY <1>4 DEF Range
  <1>8. ASSUME Unrepeated, \A j \in Range(e) : ~Single(j)
        PROVE  Unrepeated' /\ \A j \in {lane[1]} : Single(j) => j \notin Range(lane')
    <2>1. ASSUME NEW i \in DOMAIN lane', Single(lane'[i])
          PROVE  i \in Nat /\ i >= 1 /\ i + 1 \in DOMAIN lane /\ lane'[i] = lane[i + 1]
      BY <1>3, <1>5, <1>8, <2>1
    <2>2. ASSUME NEW i \in DOMAIN lane', NEW j \in DOMAIN lane', lane'[i] = lane'[j], Single(lane'[i])
          PROVE  i = j
      <3>1. Single(lane'[j])
        BY <2>2
      <3>2. /\ i \in Nat /\ i + 1 \in DOMAIN lane /\ lane'[i] = lane[i + 1]
            /\ j \in Nat /\ j + 1 \in DOMAIN lane /\ lane'[j] = lane[j + 1]
        BY <2>1, <2>2, <3>1
      <3>3. i + 1 = j + 1
        BY <1>8, <2>2, <3>2 DEF Unrepeated
      <3> QED
        BY <3>2, <3>3
    <2>3. ASSUME Single(lane[1]), lane[1] \in Range(lane')
          PROVE  FALSE
      <3>1. PICK i \in DOMAIN lane' : lane'[i] = lane[1]
        BY <2>3 DEF Range
      <3>2. i \in Nat /\ i >= 1 /\ i + 1 \in DOMAIN lane /\ lane'[i] = lane[i + 1]
        BY <2>1, <2>3, <3>1
      <3>3. i + 1 \in DOMAIN lane /\ 1 \in DOMAIN lane /\ lane[i + 1] = lane[1] /\ Single(lane[i + 1])
        BY <1>1, <2>3, <3>1, <3>2
      <3>4. i + 1 = 1
        BY <1>8, <3>3 DEF Unrepeated
      <3> QED
        BY <3>2, <3>4
    <2> QED
      BY <2>2, <2>3 DEF Unrepeated, Single
  <1> QED
    BY <1>5, <1>6, <1>7, <1>8 DEF Flows

\* Jobs without text come and go.
LaneSame == Early' = Early /\ Fills' = Fills /\ Resumes' = Resumes
TextKind == EarlyKind \cup {"fill", "resume"}

LEMMA SameFlow ==
    ASSUME NEW ran, NEW e, Flows(ran, e), \A j \in ran \cup Range(e) : j.kind \notin TextKind
    PROVE  LaneSame
  <1>1. ASSUME NEW kinds \in SUBSET TextKind
        PROVE  {k \in Range(lane') : k.kind \in kinds} = {k \in Range(lane) : k.kind \in kinds}
    BY <1>1 DEF Flows
  <1>2. EarlyKind \in SUBSET TextKind /\ {"fill"} \in SUBSET TextKind /\ {"resume"} \in SUBSET TextKind
    BY DEF TextKind
  <1> QED
    BY <1>1, <1>2 DEF LaneSame, Early, Fills, Resumes, Of

LEMMA StillFlows ==
    ASSUME UNCHANGED lane
    PROVE  Flows({}, <<>>) /\ LaneSame
  <1>1. Range(<<>>) = {}
    BY NoText
  <1>2. Flows({}, <<>>)
    BY <1>1 DEF Flows, Unrepeated
  <1> QED
    BY <1>2 DEF LaneSame, Early, Fills, Resumes, Of

LEMMA SingleRange == \A j : Range(<<j>>) = {j}
  BY DEF Range

LEMMA JobFlows ==
    ASSUME lane \in Seq(Jobs), NEW j \in Jobs, lane' = Append(lane, j)
    PROVE  /\ Flows({}, <<j>>)
           /\ j.kind \notin TextKind => LaneSame
  <1>1. lane' = lane \o <<j>> /\ <<j>> \in Seq(Jobs)
    <2>1. Append(lane, j) = lane \o <<j>>
      OBVIOUS
    <2> QED
      BY <2>1
  <1>2. Flows({}, <<j>>)
    BY <1>1, LaneFlows
  <1>3. ASSUME j.kind \notin TextKind
        PROVE  LaneSame
    <2>1. \A k \in {} \cup Range(<<j>>) : k.kind \notin TextKind
      BY <1>3, SingleRange
    <2> QED
      BY <1>2, <2>1, SameFlow
  <1> QED
    BY <1>2, <1>3

LEMMA RunFlows ==
    ASSUME lane \in Seq(Jobs), lane # <<>>, lane' = Tail(lane)
    PROVE  /\ Flows({lane[1]}, <<>>)
           /\ lane[1].kind \notin TextKind => LaneSame
  <1>1. lane' = Tail(lane) \o <<>> /\ <<>> \in Seq(Jobs)
    BY NothingFollows, EmptySeq
  <1>2. Flows({lane[1]}, <<>>)
    BY <1>1, TailFlows
  <1>3. ASSUME lane[1].kind \notin TextKind
        PROVE  LaneSame
    <2>1. \A k \in {lane[1]} \cup Range(<<>>) : k.kind \notin TextKind
      BY <1>3, NoText
    <2> QED
      BY <1>2, <2>1, SameFlow
  <1> QED
    BY <1>2, <1>3

\* A step beside the text: no draft, document or history changes.
Beside ==
    /\ UNCHANGED <<core, seen, landed, gone, buf, inflight, staged>> /\ disk' \in {disk, core}
    /\ Early' = Early /\ Resumes' = Resumes /\ Fills' \in {Fills, {}}
    /\ page' = page \/ (page'.shown /\ page'.kept \in {page.kept, Absent})

LEMMA QuietJob ==
    ASSUME ControlInv, NEW k \in {"submit", "insert", "delete", "remove", "local", "save"}, NEW p,
           Job(k, p) \in Jobs, Enqueue(Job(k, p))
    PROVE  LaneSame
  <1>1. PICK j \in Jobs : j = Job(k, p)
    OBVIOUS
  <1>2. j.kind = k
    BY <1>1, JobIs
  <1>3. lane \in Seq(Jobs) /\ lane' = Append(lane, j)
    BY <1>1, ControlParts DEF Enqueue
  <1>4. j.kind \notin TextKind
    BY <1>2 DEF TextKind, EarlyKind
  <1> QED
    BY <1>3, <1>4, JobFlows

LEMMA FlushSame ==
    ASSUME ControlInv, flush
    PROVE  LaneSame
  <1>1. CASE UNCHANGED lane
    BY <1>1, StillFlows
  <1>2. CASE Enqueue(Job("submit", FALSE))
    <2>1. Job("submit", FALSE) \in Jobs
      BY JobMade, Zenon
    <2> QED
      BY <1>2, <2>1, QuietJob
  <1> QED
    BY <1>1, <1>2 DEF flush

LEMMA FailedBeside ==
    ASSUME ControlInv, inflight = Absent, lane # <<>>, lane[1].kind \notin EarlyKind \cup {"save", "resume"},
           JobFails
    PROVE  Beside
  <1>1. Head1 = lane[1] /\ lane \in Seq(Jobs)
    BY ControlParts, LaneIs
  <1>2. /\ UNCHANGED <<core, seen, landed, gone, buf, inflight, staged, disk, page>> /\ lane' = Tail(lane)
    <2>1. Head1.kind \notin {"word", "prefix"}
      BY <1>1 DEF EarlyKind
    <2> QED
      BY <2>1 DEF JobFails
  <1>3. CASE lane[1].kind # "fill"
    <2>1. lane[1].kind \notin TextKind
      BY <1>3 DEF TextKind
    <2>2. LaneSame
      BY <1>1, <1>2, <2>1, RunFlows
    <2> QED
      BY <1>2, <2>2 DEF Beside, LaneSame
  <1>4. CASE lane[1].kind = "fill"
    <2>1. Follows(<<>>) /\ lane' = Tail(lane) \o <<>>
      BY <1>1, <1>2, NothingFollows
    <2>2. 1 \in Heirs /\ \A i \in Heirs : i = 1
      <3>1. 1 \in Heirs
        BY <1>1, <1>4, LaneIs DEF Heirs, Kindly
      <3> QED
        BY <3>1, ControlParts DEF Succession
    <2>3. Heirs' = {}
      BY <1>1, <2>1, <2>2, HeirsPass
    <2>4. Fills' = {}
      <3>1. \A j \in Range(lane') : j.kind # "fill"
        BY <2>3 DEF Heirs, Kindly, Range
      <3> QED
        BY <3>1 DEF Fills, Of
    <2>5. Flows({lane[1]}, <<>>)
      BY <1>1, <1>2, RunFlows
    <2>6. /\ {k \in Range(lane') : k.kind \in EarlyKind} = {k \in Range(lane) : k.kind \in EarlyKind}
          /\ {k \in Range(lane') : k.kind \in {"resume"}} = {k \in Range(lane) : k.kind \in {"resume"}}
      <3>1. Range(<<>>) = {}
        BY NoText
      <3> QED
        BY <1>4, <2>5, <3>1 DEF Flows, EarlyKind
    <2>7. Early' = Early /\ Resumes' = Resumes
      BY <2>6 DEF Early, Resumes, Of
    <2> QED
      BY <1>2, <2>4, <2>7 DEF Beside
  <1> QED
    BY <1>3, <1>4

LEMMA RunBeside ==
    ASSUME ControlInv, lane # <<>>, lane[1].kind \notin TextKind, lane' = Tail(lane),
           UNCHANGED <<core, seen, landed, gone, buf, inflight, staged, page>>, disk' \in {disk, core}
    PROVE  Beside
  <1>1. LaneSame
    BY ControlParts, RunFlows
  <1> QED
    BY <1>1 DEF Beside, LaneSame

LEMMA BesideSteps ==
    ASSUME ControlInv, ~Races,
           \/ closeMenu \/ commitDraftWith \/ compositionStart \/ flushTimer
           \/ remoteArrives \/ localArrives \/ retry \/ show \/ retryNow \/ refuseJob
    PROVE  Beside
  <1>1. CASE closeMenu
    BY <1>1, StillFlows DEF closeMenu, graphVars, draftVars, Beside, LaneSame
  <1>2. CASE compositionStart
    BY <1>2, StillFlows DEF compositionStart, graphVars, draftVars, Beside, LaneSame
  <1>3. CASE commitDraftWith
    <2>1. Job("submit", TRUE) \in Jobs
      BY JobMade, Zenon
    <2>2. LaneSame
      BY <1>3, <2>1, QuietJob DEF commitDraftWith
    <2> QED
      BY <1>3, <2>2 DEF commitDraftWith, graphVars, Beside, LaneSame
  <1>4. CASE flushTimer
    BY <1>4, FlushSame DEF flushTimer, graphVars, draftVars, Beside, LaneSame
  <1>5. CASE remoteArrives
    <2>1. \/ Enqueue(Job("insert", Size + MaxTyped + budget.foreign + 1))
          \/ \E kind \in {"delete", "remove"} : Enqueue(Job(kind, Absent))
      BY <1>5 DEF remoteArrives
    <2>2. Size + MaxTyped + budget.foreign + 1 \in Nat
      BY ControlParts, NextAtoms
    <2>3. LaneSame
      BY <2>1, <2>2, JobMade, QuietJob
    <2> QED
      BY <1>5, <2>3 DEF remoteArrives, graphVars, draftVars, Beside, LaneSame
  <1>6. CASE localArrives
    <2>1. PICK change \in {"remove", "undo"} : Enqueue(Job("local", change))
      BY <1>6 DEF localArrives
    <2>2. LaneSame
      BY <2>1, JobMade, QuietJob
    <2> QED
      BY <1>6, <2>2 DEF localArrives, graphVars, draftVars, Beside, LaneSame
  <1>7. CASE retry
    <2>1. LaneSame
      BY <1>7, JobMade, QuietJob DEF retry
    <2> QED
      BY <1>7, <2>1 DEF retry, graphVars, draftVars, Beside, LaneSame
  <1>8. CASE show
    <2>1. page'.shown /\ page'.kept \in {page.kept, Absent}
      BY <1>8 DEF show
    <2> QED
      BY <1>8, <2>1, StillFlows DEF show, graphVars, draftVars, Beside, LaneSame
  <1>9. CASE retryNow
    <2>1. lane # <<>> /\ Head1 = lane[1] /\ Head1.kind = "save" /\ lane' = Tail(lane) /\ disk' = core
          /\ UNCHANGED <<core, seen, landed, gone, buf, inflight, staged, page>>
      BY <1>9, ControlParts, LaneIs DEF retryNow, Running, draftVars
    <2>2. lane[1].kind \notin TextKind
      BY <2>1 DEF TextKind, EarlyKind
    <2> QED
      BY <2>1, <2>2, RunBeside
  <1>10. CASE refuseJob
    <2>1. lane # <<>> /\ inflight = Absent /\ Head1 = lane[1] /\ JobFails
      BY <1>10, ControlParts, LaneIs DEF refuseJob
    <2>2. lane[1].kind \notin EarlyKind \cup {"save", "resume"}
      BY <1>10, <2>1 DEF refuseJob
    <2> QED
      BY <2>1, <2>2, FailedBeside
  <1> QED
    BY <1>1, <1>2, <1>3, <1>4, <1>5, <1>6, <1>7, <1>8, <1>9, <1>10
-----------------------------------------------------------------------------
(* A save takes from the document only what its author deleted.            *)

Lowered == {buf, inflight, staged} \cup Early
Kept == (IF page.kept = Absent THEN {} ELSE {page.kept}) \cup Resumes

\* What a draft, a submission or an early edit leaves out of its source was deleted.
DeletedOnly == \A b \in Lowered : Cut(b) \subseteq gone
\* So was what a closed page's record leaves out of a text it may go back onto.
KeptCovers == \A k \in Kept : \A base \in k.bases : Range(base) \ Range(k.content) \subseteq gone
Ledger == landed \subseteq gone \cup Text(core.block)
Landing == Text(core.block) \cup Text(core.removed) \cup Text(disk.block) \cup Text(disk.removed)
              \cup Text(seen) \subseteq landed
TextInv == DeletedOnly /\ KeptCovers /\ Ledger /\ Landing

LEMMA NoText2 == Text(Absent) = {} /\ Source(Absent) = {} /\ Visible(Absent) = {} /\ Cut(Absent) = {} /\ New(Absent) = {}
  BY DEF Text, Source, Visible, Cut, New

\* Only drafts change.
LEMMA DraftText ==
    ASSUME TextInv, UNCHANGED <<core, seen, landed>>, disk' \in {disk, core}, gone \subseteq gone',
           \A b \in {buf', inflight', staged'} \cup Early' : b \in Lowered \/ Cut(b) \subseteq gone',
           page'.kept \in {page.kept, Absent}, Resumes' \subseteq Resumes
    PROVE  TextInv'
  <1>1. DeletedOnly'
    BY DEF TextInv, DeletedOnly, Lowered
  <1>2. KeptCovers'
    <2>1. Kept' \subseteq Kept
      BY DEF Kept
    <2> QED
      BY <2>1 DEF TextInv, KeptCovers
  <1>3. Ledger' /\ Landing'
    BY DEF TextInv, Ledger, Landing
  <1> QED
    BY <1>1, <1>2, <1>3 DEF TextInv

LEMMA BesideText ==
    ASSUME TextInv, Beside
    PROVE  TextInv'
  <1>1. \A b \in {buf', inflight', staged'} \cup Early' : b \in Lowered
    BY DEF Beside, Lowered
  <1>2. page'.kept \in {page.kept, Absent}
    BY DEF Beside
  <1> QED
    BY <1>1, <1>2, DraftText DEF Beside

\* A document is reached: what it lacks of the last one was deleted.
LEMMA DocumentText ==
    ASSUME TextInv, gone \subseteq gone', landed' = landed \cup Text(core'.block),
           disk' \in {disk, core'}, seen' \in {seen, core'.block},
           core'.removed \in {core.removed, core.block, Absent},
           Text(core.block) \ Text(core'.block) \subseteq gone',
           \A b \in {buf', inflight', staged'} \cup Early' : b \in Lowered \/ Cut(b) \subseteq gone',
           page'.kept \in {page.kept, Absent}, Resumes' \subseteq Resumes
    PROVE  TextInv'
  <1>1. DeletedOnly'
    BY DEF TextInv, DeletedOnly, Lowered
  <1>2. KeptCovers'
    <2>1. Kept' \subseteq Kept
      BY DEF Kept
    <2> QED
      BY <2>1 DEF TextInv, KeptCovers
  <1>3. Ledger'
    BY DEF TextInv, Ledger
  <1>4. Text(core.removed) \subseteq landed /\ Text(core.block) \subseteq landed /\ Text(seen) \subseteq landed
        /\ Text(disk.block) \subseteq landed /\ Text(disk.removed) \subseteq landed
    BY DEF TextInv, Landing
  <1>5. Text(core'.removed) \subseteq landed /\ Text(core'.block) \subseteq landed' /\ landed \subseteq landed'
    BY <1>4, NoText2
  <1>6. Text(seen') \subseteq landed'
    BY <1>4, <1>5
  <1>7. Text(disk'.block) \subseteq landed' /\ Text(disk'.removed) \subseteq landed'
    BY <1>4, <1>5
  <1>8. Landing'
    BY <1>5, <1>6, <1>7 DEF Landing
  <1> QED
    BY <1>1, <1>2, <1>3, <1>8 DEF TextInv

\* What a buffer holds once it is rebased.
LEMMA RebaseAtoms ==
    ASSUME NEW b \in Buffers, NEW s \in Texts, NEW r, r = rebaseBuffer(b, s)
    PROVE  /\ r \in Buffers /\ r # Absent /\ Source(r) = Range(s)
           /\ Visible(r) = (Range(s) \ Cut(b)) \cup New(b)
           /\ Cut(r) \subseteq Cut(b) /\ New(r) \subseteq New(b)
           /\ Visible(b) \subseteq Visible(r) \cup Source(b)
  <1>1. r \in Buffers /\ r.source = s /\ Range(r.visible) = (Range(s) \ Cut(b)) \cup New(b)
    BY RebaseHolds
  <1>2. r # Absent /\ Source(r) = Range(s) /\ Visible(r) = (Range(s) \ Cut(b)) \cup New(b)
    BY <1>1, BufferHolds, AbsentIsNoData
  <1>3. Visible(b) \subseteq New(b) \cup Source(b)
    BY DEF New
  <1> QED
    BY <1>1, <1>2, <1>3 DEF Cut, New

LEMMA SettledAtoms ==
    ASSUME NEW s \in Texts, NEW r, r = createContentBuffer(s)
    PROVE  /\ r \in Buffers /\ r # Absent /\ Source(r) = Range(s) /\ Visible(r) = Range(s) /\ Cut(r) = {} /\ New(r) = {}
           /\ r.source = s /\ r.visible = s
  BY SettledBuffer, AbsentIsNoData

LEMMA EditedAtoms ==
    ASSUME NEW b \in Buffers, NEW text \in Texts, NEW r, r = [b EXCEPT !.visible = text]
    PROVE  /\ r \in Buffers /\ r # Absent /\ Source(r) = Source(b) /\ Visible(r) = Range(text)
           /\ r.source = b.source /\ r.visible = text
  BY EditHolds, BufferHolds

\* The jobs with text while a job runs, and once it ran.
LEMMA TurnSets ==
    ASSUME ControlInv, lane # <<>>, lane[1].kind # "save"
    PROVE  /\ Early = IF lane[1].kind \in EarlyKind THEN {lane[1].payload} ELSE {}
           /\ Resumes = IF lane[1].kind = "resume" THEN {lane[1].payload} ELSE {}
  <1>1. 1 \in DOMAIN lane /\ (\A i \in Kindly(EarlyKind) : i = 1) /\ (\A i \in Kindly({"resume"}) : i = 1)
    BY Turn
  <1>2. \A j \in Range(lane) : j.kind \in EarlyKind => j = lane[1]
    BY <1>1 DEF Kindly, Range
  <1>3. \A j \in Range(lane) : j.kind = "resume" => j = lane[1]
    BY <1>1 DEF Kindly, Range
  <1>4. lane[1] \in Range(lane)
    BY <1>1 DEF Range
  <1> QED
    BY <1>2, <1>3, <1>4 DEF Early, Resumes, Of

LEMMA AfterTurn ==
    ASSUME ControlInv, lane # <<>>, lane[1].kind # "save", NEW e, Follows(e), lane' = Tail(lane) \o e
    PROVE  /\ Early' = {} /\ Resumes' = {}
           /\ Flows({lane[1]}, e)
  <1>1. lane \in Seq(Jobs) /\ e \in Seq(Jobs)
    <2>1. \A j \in Jobs : <<j>> \in Seq(Jobs)
      OBVIOUS
    <2>2. <<>> \in Seq(Jobs)
      BY EmptySeq
    <2> QED
      BY <2>1, <2>2, ControlParts DEF Follows
  <1>2. \A i \in DOMAIN lane' : lane'[i].kind \notin EarlyKind \cup {"resume"}
    BY TurnPasses
  <1>3. Early' = {} /\ Resumes' = {}
    BY <1>2 DEF Early, Resumes, Of, Range
  <1> QED
    BY <1>1, <1>3, TailFlows

LEMMA ObservedAtoms ==
    ASSUME ControlInv, inflight = Absent, NEW document \in Docs, NEW own \in BOOLEAN,
           NEW d, d = Observed(document.block, own, buf, inflight)
    PROVE  /\ d.buf \in Buffers \cup {Absent}
           /\ New(d.buf) \subseteq New(buf) /\ Cut(d.buf) \subseteq Cut(buf)
           /\ Visible(buf) \subseteq Visible(d.buf) \cup Source(buf)
           /\ Visible(d.buf) \subseteq Visible(buf) \cup Text(document.block)
           /\ Source(d.buf) \subseteq Source(buf) \cup Text(document.block)
  <1>1. TypeOK /\ orphan = FALSE
    BY ControlParts DEF Current
  <1>2. Observes(document.block, own, d)
    BY <1>1, ObservingNow
  <1> QED
    BY <1>2 DEF Observes

LEMMA ExecutedLane ==
    ASSUME ControlInv, lane # <<>>, NEW document, NEW own, NEW saved, NEW ok \in BOOLEAN, NEW d,
           Executed(document, own, <<>>, saved, ok, d)
    PROVE  \E e : /\ Follows(e) /\ lane' = Tail(lane) \o e
                  /\ \A j \in Range(e) : j.kind = "recover"
  <1>1. Tail(lane) \in Seq(Jobs) /\ Tail(lane) \o <<>> = Tail(lane)
    BY ControlParts, HeadTailProperties, ConcatEmptySeq
  <1>2. lane' = Tail(lane) \o (IF ok THEN Recovery(d) ELSE <<>>)
    BY <1>1 DEF Executed
  <1>3. Follows(<<>>) /\ Range(<<>>) = {}
    BY NoText DEF Follows
  <1>4. Follows(Recovery(d)) /\ \A j \in Range(Recovery(d)) : j.kind = "recover"
    <2>1. CASE d.recover
      <3>1. Recovery(d) = <<Job("recover", Absent)>>
        BY <2>1 DEF Recovery
      <3>2. Range(Recovery(d)) = {Job("recover", Absent)}
        BY <3>1, SingleRange
      <3> QED
        BY <3>2, RecoveryFollows, JobIs
    <2>2. CASE ~d.recover
      <3>1. Recovery(d) = <<>>
        BY <2>2 DEF Recovery
      <3> QED
        BY <1>3, <3>1
    <2> QED
      BY <2>1, <2>2
  <1> QED
    BY <1>2, <1>3, <1>4

LEMMA ExecutedText ==
    ASSUME ControlInv, TextInv, inflight = Absent, lane # <<>>, lane[1].kind # "save",
           NEW document \in Docs, NEW own \in BOOLEAN, NEW saved \in BOOLEAN, NEW ok \in BOOLEAN, NEW d,
           Executed(document, own, <<>>, saved, ok, d), buf' = IF ok THEN d.buf ELSE buf,
           staged' = Absent, gone \subseteq gone', document.removed \in {core.removed, core.block, Absent},
           Text(core.block) \ Text(document.block) \subseteq gone', page'.kept \in {page.kept, Absent}
    PROVE  TextInv'
  <1>1. PICK e : Follows(e) /\ lane' = Tail(lane) \o e
    BY ExecutedLane
  <1>2. Early' = {} /\ Resumes' = {}
    BY <1>1, AfterTurn
  <1>3. core' = document /\ landed' = landed \cup Text(document.block) /\ disk' \in {disk, document}
    BY DEF Executed, Reached
  <1>4. d = Observed(document.block, own, buf, inflight) /\ inflight' = inflight
    BY DEF Executed
  <1>5. seen' \in {seen, document.block}
    BY DEF Executed, publish
  <1>6. Cut(d.buf) \subseteq Cut(buf)
    BY <1>4, ObservedAtoms
  <1>7. Cut(buf) \subseteq gone'
    BY DEF TextInv, DeletedOnly, Lowered
  <1>8. \A b \in {buf', inflight', staged'} \cup Early' : b \in Lowered \/ Cut(b) \subseteq gone'
    <2>1. Cut(buf') \subseteq gone'
      BY <1>6, <1>7
    <2> QED
      BY <1>2, <1>4, <2>1, NoText2 DEF Lowered
  <1> QED
    BY <1>2, <1>3, <1>5, <1>8, DocumentText

LEMMA CutGone == TextInv => \A b \in {buf, inflight, staged} : Cut(b) \subseteq gone
  BY DEF TextInv, DeletedOnly, Lowered

\* The surface changes a draft.
LEMMA SurfaceText ==
    ASSUME TextInv, UNCHANGED <<core, disk, seen, landed, inflight, page>>, gone \subseteq gone',
           Cut(buf') \subseteq gone', staged' \in {staged, Absent, buf},
           LaneSame
    PROVE  TextInv'
  <1>1. \A b \in {buf', inflight', staged'} \cup Early' : b \in Lowered \/ Cut(b) \subseteq gone'
    BY NoText2 DEF Lowered, LaneSame
  <1> QED
    BY <1>1, DraftText DEF LaneSame

LEMMA targetText ==
    ASSUME ControlInv, TextInv, buf # Absent \/ seen # Absent
    PROVE  /\ target \in Buffers /\ target # Absent /\ Cut(target) \subseteq gone
           /\ buf # Absent => target = buf
           /\ buf = Absent => Source(target) = Range(seen) /\ Visible(target) = Range(seen)
                              /\ target = createContentBuffer(seen) /\ seen \in Texts
  <1>1. CASE buf # Absent
    BY <1>1, ControlParts, TargetHolds, AbsentIsNoData, CutGone
  <1>2. CASE buf = Absent
    <2>1. seen \in Texts /\ target = createContentBuffer(seen)
      BY <1>2, ControlParts DEF target, TypeOK
    <2> QED
      BY <1>2, <2>1, SettledAtoms
  <1> QED
    BY <1>1, <1>2

LEMMA observeText ==
    ASSUME ControlInv, TextInv, observe
    PROVE  TextInv'
  <1>1. buf' = target /\ UNCHANGED <<core, disk, seen, landed, inflight, staged, page, gone, lane>> /\ seen # Absent
    BY DEF observe, graphVars, draftVars
  <1> QED
    BY <1>1, targetText, StillFlows, SurfaceText

LEMMA TypeText ==
    ASSUME ControlInv, TextInv, Type
    PROVE  TextInv'
  <1>1. buf \in Buffers /\ buf.visible \in Texts
    BY ControlParts, BufferHolds DEF Type, Editing, TypeOK
  <1>2. PICK at \in 1..(Len(buf.visible) + 1), menu \in BOOLEAN :
            onInput(InsertAt(buf.visible, at, Size + budget.typed + 1), menu) /\ UNCHANGED gone
    BY DEF Type
  <1>3. Size + budget.typed + 1 \in Nat
    BY ControlParts, NextAtoms
  <1>4. PICK text : text = InsertAt(buf.visible, at, Size + budget.typed + 1)
    OBVIOUS
  <1>5. text \in Texts /\ Range(buf.visible) \subseteq Range(text)
    BY <1>1, <1>3, <1>4, InsertedAtom
  <1>6. buf' = [buf EXCEPT !.visible = text] /\ UNCHANGED <<core, disk, seen, landed, inflight, staged, page, gone, lane>>
    BY <1>2, <1>4 DEF onInput, graphVars, draftVars
  <1>7. Cut(buf') \subseteq Cut(buf)
    BY <1>1, <1>5, <1>6, EditedAtoms, BufferHolds DEF Cut
  <1>8. Cut(buf') \subseteq gone'
    BY <1>6, <1>7, CutGone
  <1> QED
    BY <1>6, <1>8, StillFlows, SurfaceText

LEMMA EraseText ==
    ASSUME ControlInv, TextInv, Erase
    PROVE  TextInv'
  <1>1. buf \in Buffers /\ buf.visible \in Texts
    BY ControlParts, BufferHolds DEF Erase, Editing, TypeOK
  <1>2. PICK at \in DOMAIN buf.visible :
            onInput(RemoveAt(buf.visible, at), FALSE) /\ gone' = gone \cup {buf.visible[at]}
    BY DEF Erase
  <1>4. PICK text : text = RemoveAt(buf.visible, at)
    OBVIOUS
  <1>5. text \in Texts /\ Range(buf.visible) \ {buf.visible[at]} \subseteq Range(text)
    BY <1>1, <1>4, RemovedAtom
  <1>6. buf' = [buf EXCEPT !.visible = text] /\ UNCHANGED <<core, disk, seen, landed, inflight, staged, page, lane>>
    BY <1>2, <1>4 DEF onInput, graphVars, draftVars
  <1>7. Cut(buf') \subseteq Cut(buf) \cup {buf.visible[at]}
    BY <1>1, <1>5, <1>6, EditedAtoms, BufferHolds DEF Cut
  <1>8. Cut(buf') \subseteq gone' /\ gone \subseteq gone'
    BY <1>2, <1>7, CutGone
  <1> QED
    BY <1>6, <1>8, StillFlows, SurfaceText

LEMMA leaveText ==
    ASSUME ControlInv, TextInv, leave
    PROVE  TextInv'
  <1>1. /\ UNCHANGED <<core, disk, seen, landed, inflight, page, gone>> /\ flush /\ staged' = Absent
        /\ buf' = release(buf, FALSE, inflight # Absent, action)
    BY DEF leave, graphVars, draftVars
  <1>2. buf' \in {buf, Absent}
    BY <1>1, Released
  <1>3. Cut(buf') \subseteq gone'
    BY <1>1, <1>2, CutGone, NoText2
  <1> QED
    BY <1>1, <1>3, FlushSame, SurfaceText

LEMMA compositionEndText ==
    ASSUME ControlInv, TextInv, compositionEnd
    PROVE  TextInv'
  <1>1. /\ UNCHANGED <<core, disk, seen, landed, inflight, staged, page, gone, lane>>
        /\ buf' = IF compose.content = Absent \/ (buf = Absent /\ seen = Absent) THEN buf
                  ELSE rebaseBuffer(target, compose.content)
    BY DEF compositionEnd, graphVars, draftVars
  <1>2. CASE buf' = buf
    BY <1>1, <1>2, CutGone, StillFlows, SurfaceText
  <1>3. CASE buf' # buf
    <2>1. compose.content \in Texts /\ buf' = rebaseBuffer(target, compose.content) /\ (buf # Absent \/ seen # Absent)
      BY <1>1, <1>3, ControlParts DEF TypeOK
    <2>2. target \in Buffers /\ Cut(target) \subseteq gone
      BY <2>1, targetText
    <2> HIDE DEF target
    <2>3. Cut(buf') \subseteq gone'
      BY <1>1, <2>1, <2>2, RebaseAtoms
    <2> QED
      BY <1>1, <2>3, StillFlows, SurfaceText
  <1> QED
    BY <1>2, <1>3

LEMMA stageDraftSpliceText ==
    ASSUME ControlInv, TextInv, stageDraftSplice
    PROVE  TextInv'
  <1>1. /\ UNCHANGED <<core, disk, seen, landed, inflight, page, gone, lane>> /\ staged' = buf
        /\ buf' = createContentBuffer(buf.visible) /\ buf \in Buffers
    BY ControlParts DEF stageDraftSplice, graphVars, draftVars, settleBuffer, Editing, TypeOK
  <1>2. buf.visible \in Texts
    BY <1>1, BufferHolds
  <1>3. Cut(buf') = {}
    BY <1>1, <1>2, SettledAtoms
  <1> QED
    BY <1>1, <1>3, StillFlows, SurfaceText

LEMMA EarlyFlows ==
    ASSUME ControlInv, NEW k \in EarlyKind, NEW p \in Buffers, lane' = Append(lane, Job(k, p))
    PROVE  Early' = Early \cup {p} /\ Fills' = Fills /\ Resumes' = Resumes
  <1>1. PICK j : j = Job(k, p)
    OBVIOUS
  <1>2. j \in Jobs /\ j.kind = k /\ j.payload = p
    BY <1>1, JobMade, JobIs
  <1>3. Flows({}, <<j>>) /\ Range(<<j>>) = {j}
    BY <1>1, <1>2, ControlParts, JobFlows, SingleRange
  <1>4. Range(lane') = Range(lane) \cup {j}
    BY <1>3 DEF Flows
  <1>5. /\ {i \in Range(lane') : i.kind \in EarlyKind} = {i \in Range(lane) : i.kind \in EarlyKind} \cup {j}
        /\ {i \in Range(lane') : i.kind \in {"fill"}} = {i \in Range(lane) : i.kind \in {"fill"}}
        /\ {i \in Range(lane') : i.kind \in {"resume"}} = {i \in Range(lane) : i.kind \in {"resume"}}
    BY <1>2, <1>4 DEF EarlyKind
  <1> QED
    BY <1>2, <1>5 DEF Early, Fills, Resumes, Of

LEMMA pickerText ==
    ASSUME ControlInv, TextInv, pickerRun \/ pickerClose
    PROVE  TextInv'
  <1>1. /\ UNCHANGED <<core, disk, seen, landed, inflight, page, gone, buf>> /\ staged' \in {staged, Absent}
        /\ staged \in Buffers /\ \E k \in EarlyKind : lane' = Append(lane, Job(k, staged))
    BY ControlParts DEF pickerRun, pickerClose, graphVars, draftVars, Enqueue, TypeOK, EarlyKind
  <1>2. Early' = Early \cup {staged} /\ Resumes' = Resumes
    BY <1>1, EarlyFlows
  <1>3. \A b \in {buf', inflight', staged'} \cup Early' : b \in Lowered \/ Cut(b) \subseteq gone'
    BY <1>1, <1>2, NoText2 DEF Lowered
  <1> QED
    BY <1>1, <1>2, <1>3, DraftText

LEMMA runVimWordMotionText ==
    ASSUME ControlInv, TextInv, ~Races, runVimWordMotion
    PROVE  TextInv'
  <1>1. PICK at \in DOMAIN buf.visible, edited \in Buffers, j \in Jobs :
                 /\ edited = [buf EXCEPT !.visible = RemoveAt(@, at)]
                 /\ edited.source = buf.source /\ edited.visible = RemoveAt(buf.visible, at)
                 /\ j = Job("word", edited) /\ j.kind = "word" /\ j.payload = edited
                 /\ lane' = Append(lane, j)
                 /\ buf' = createContentBuffer(edited.visible)
                 /\ gone' = gone \cup {buf.visible[at]}
    BY WordLane
  <1>2. buf \in Buffers /\ buf.visible \in Texts /\ edited.visible \in Texts
    BY <1>1, WordLane, BufferHolds
  <1>3. UNCHANGED <<core, disk, seen, landed, inflight, staged, page>>
    BY DEF runVimWordMotion, graphVars, draftVars
  <1>4. Range(buf.visible) \ {buf.visible[at]} \subseteq Range(edited.visible)
    BY <1>1, <1>2, RemovedAtom
  <1>5. Cut(edited) \subseteq Cut(buf) \cup {buf.visible[at]}
    BY <1>1, <1>2, <1>4, BufferHolds
  <1>6. Cut(edited) \subseteq gone' /\ gone \subseteq gone'
    BY <1>1, <1>5, CutGone
  <1>7. Cut(buf') = {}
    BY <1>1, <1>2, SettledAtoms
  <1>8. "word" \in EarlyKind /\ lane' = Append(lane, Job("word", edited))
    BY <1>1 DEF EarlyKind
  <1>9. Early' = Early \cup {edited} /\ Resumes' = Resumes
    BY <1>8, EarlyFlows
  <1>10. \A b \in {buf', inflight', staged'} \cup Early' : b \in Lowered \/ Cut(b) \subseteq gone'
    BY <1>3, <1>6, <1>7, <1>9 DEF Lowered
  <1> QED
    BY <1>3, <1>6, <1>9, <1>10, DraftText

LEMMA hideText ==
    ASSUME ControlInv, TextInv, hide
    PROVE  TextInv'
  <1>1. /\ UNCHANGED <<core, disk, seen, landed, inflight, staged, gone, buf>>
        /\ page'.kept = unsaved
    BY DEF hide, graphVars, draftVars
  <1>2. LaneSame
    BY FlushSame, StillFlows DEF hide
  <1>3. DeletedOnly' /\ Ledger' /\ Landing'
    BY <1>1, <1>2 DEF TextInv, DeletedOnly, Ledger, Landing, Lowered, LaneSame
  <1>4. ASSUME unsaved # Absent, NEW base \in unsaved.bases
        PROVE  Range(base) \ Range(unsaved.content) \subseteq gone
    <2>1. buf # Absent
      BY <1>4 DEF unsaved
    <2>2. unsaved = [bases |-> {buf.source} \cup (IF inflight = Absent THEN {} ELSE {inflight.source}),
                     content |-> buf.visible]
      BY <1>4 DEF unsaved
    <2>3. buf \in Buffers /\ Cut(buf) \subseteq gone /\ Cut(inflight) \subseteq gone
      BY <2>1, ControlParts, CutGone DEF TypeOK
    <2>4. unsaved.content = buf.visible /\ Range(buf.source) \ Range(buf.visible) \subseteq gone
      BY <2>2, <2>3, BufferHolds
    <2>5. CASE base = buf.source
      BY <2>4, <2>5
    <2>6. CASE inflight # Absent /\ base = inflight.source
      <3>1. inflight \in Buffers /\ buf.source = inflight.visible
        BY <2>6, AtWorker
      <3>2. Range(inflight.source) \ Range(inflight.visible) \subseteq gone
        BY <2>3, <3>1, BufferHolds
      <3> QED
        BY <2>4, <2>6, <3>1, <3>2
    <2> QED
      BY <1>4, <2>2, <2>5, <2>6
  <1>5. KeptCovers'
    <2>1. \A k \in Kept' : k \in Kept \/ (k = unsaved /\ unsaved # Absent)
      BY <1>1, <1>2 DEF Kept, LaneSame
    <2> QED
      BY <1>1, <1>4, <2>1 DEF TextInv, KeptCovers
  <1> QED
    BY <1>3, <1>5 DEF TextInv

LEMMA ensureCurrentText ==
    ASSUME ControlInv, TextInv, ~Races, ensureCurrent
    PROVE  TextInv'
  <1>1. /\ stale /\ lane # <<>> /\ inflight = Absent /\ lane[1].kind # "save" /\ staged = Absent
    BY ensureCurrentCases
  <1>2. ASSUME NEW d, d = Observed(core.block, FALSE, buf, inflight),
               publish(core.block, d), buf' = d.buf, staged' = Absent, lane' = lane \o Recovery(d),
               UNCHANGED <<core, disk, inflight, action, page, told, gone, landed, budget>>
        PROVE  TextInv'
    <2>1. core \in Docs /\ FALSE \in BOOLEAN /\ lane \in Seq(Jobs)
      BY ControlParts DEF TypeOK
    <2>2. Cut(d.buf) \subseteq Cut(buf)
      <3>1. PICK own \in BOOLEAN : own = FALSE
        OBVIOUS
      <3>2. d = Observed(core.block, own, buf, inflight)
        BY <1>2, <3>1
      <3> QED
        BY <1>1, <2>1, <3>2, ObservedAtoms
    <2>3. LaneSame
      <3>1. Recovery(d) \in Seq(Jobs) /\ \A j \in Range(Recovery(d)) : j.kind \notin TextKind
        <4>1. Job("recover", Absent) \in Jobs /\ Job("recover", Absent).kind = "recover"
          BY JobMade, JobIs
        <4>2. Recovery(d) = <<>> \/ Recovery(d) = <<Job("recover", Absent)>>
          BY DEF Recovery
        <4>3. \A j \in Jobs : <<j>> \in Seq(Jobs) /\ Range(<<j>>) = {j}
          BY SingleRange
        <4>4. <<>> \in Seq(Jobs) /\ Range(<<>>) = {}
          BY EmptySeq, NoText
        <4> QED
          BY <4>1, <4>2, <4>3, <4>4 DEF TextKind, EarlyKind
      <3>2. Flows({}, Recovery(d))
        BY <1>2, <2>1, <3>1, LaneFlows
      <3> QED
        BY <3>1, <3>2, SameFlow
    <2>4. seen' = core.block /\ Text(core.block) \subseteq landed
      BY <1>2 DEF publish, TextInv, Landing
    <2>5. \A b \in {buf', inflight', staged'} \cup Early' : b \in Lowered \/ Cut(b) \subseteq gone'
      <3>1. Cut(buf') \subseteq gone'
        BY <1>2, <2>2, CutGone
      <3> QED
        BY <1>1, <1>2, <2>3, <3>1 DEF Lowered, LaneSame
    <2> QED
      BY <1>2, <2>3, <2>4, <2>5, DocumentText DEF LaneSame
  <1>3. CASE lane[1].kind \notin EarlyKind /\ JobFails
    <2>1. lane[1].kind # "resume"
      <3>1. 1 \in DOMAIN lane
        BY <1>1, ControlParts, LaneIs
      <3> QED
        BY <1>1, <3>1, StaleLane DEF Kindly
    <2>2. Beside
      BY <1>1, <1>3, <2>1, FailedBeside
    <2> QED
      BY <2>2, BesideText
  <1> QED
    BY <1>2, <1>3, ensureCurrentCases

LEMMA submitPrepareText ==
    ASSUME ControlInv, TextInv, submitPrepare
    PROVE  TextInv'
  <1>1. /\ lane # <<>> /\ lane[1].kind = "submit" /\ inflight = Absent
        /\ UNCHANGED <<core, disk, seen, stale, orphan, compose, staged, view, page, landed, budget>>
    BY submitPrepareCases
  <1>2. CASE JobFails
    <2>1. Beside
      BY <1>1, <1>2, FailedBeside DEF EarlyKind
    <2> QED
      BY <2>1, BesideText
  <1>3. CASE lane' = Tail(lane) /\ UNCHANGED <<buf, inflight, action, unavailable, told, gone>>
    <2>1. lane[1].kind \notin TextKind
      BY <1>1 DEF TextKind, EarlyKind
    <2>2. Beside
      BY <1>1, <1>3, <2>1, RunBeside
    <2> QED
      BY <2>2, BesideText
  <1>4. CASE /\ target \in Buffers
             /\ buf = Absent => seen # Absent
             /\ inflight' = target /\ buf' = createContentBuffer(target.visible)
             /\ UNCHANGED <<lane, unavailable, told, gone>>
    <2>1. target \in Buffers /\ Cut(target) \subseteq gone
      BY <1>4, targetText
    <2> HIDE DEF target
    <2>2. Cut(buf') = {}
      BY <1>4, <2>1, BufferHolds, SettledAtoms
    <2>3. LaneSame
      BY <1>4, StillFlows
    <2>4. \A b \in {buf', inflight', staged'} \cup Early' : b \in Lowered \/ Cut(b) \subseteq gone'
      BY <1>1, <1>4, <2>1, <2>2, <2>3 DEF Lowered, LaneSame
    <2> QED
      BY <1>1, <1>4, <2>3, <2>4, DraftText DEF LaneSame
  <1> QED
    BY <1>2, <1>3, <1>4, submitPrepareCases

\* A submission reaches the document: what it lacks of the last text is what it left out.
LEMMA SubmittedText ==
    ASSUME ControlInv, TextInv, inflight # Absent, Accepted, NEW saved, Reached(Submitted, saved),
           seen' \in {seen, Submitted.block}, Cut(buf') \subseteq gone, inflight' = Absent, lane' = Tail(lane),
           UNCHANGED <<staged, page, gone>>
    PROVE  TextInv'
  <1>1. lane # <<>> /\ lane[1].kind = "submit" /\ staged = Absent /\ lane \in Seq(Jobs)
    BY AtWorker, ControlParts
  <1>2. Follows(<<>>) /\ lane' = Tail(lane) \o <<>>
    BY <1>1, NothingFollows
  <1>3. Early' = {} /\ Resumes' = {}
    BY <1>1, <1>2, AfterTurn
  <1>4. /\ Submitted.block \in Texts /\ Submitted.removed = core.removed /\ core.block # Absent
        /\ inflight \in Buffers /\ inflight.source = core.block /\ Range(Submitted.block) = Range(inflight.visible)
    BY SubmittedHolds
  <1>5. Text(core.block) \ Text(Submitted.block) = Cut(inflight)
    BY <1>4, BufferHolds, AbsentIsNoData DEF Text
  <1>6. core' = Submitted /\ disk' \in {disk, core'} /\ landed' = landed \cup Text(core'.block)
    BY DEF Reached
  <1>7. \A b \in {buf', inflight', staged'} \cup Early' : b \in Lowered \/ Cut(b) \subseteq gone'
    BY <1>1, <1>3, NoText2 DEF Lowered
  <1> QED
    BY <1>3, <1>4, <1>5, <1>6, <1>7, CutGone, DocumentText

LEMMA ContinuedAtoms ==
    ASSUME ControlInv, inflight # Absent, NEW text \in Texts, NEW r, r = Continued(buf, text)
    PROVE  /\ r \in Buffers /\ Cut(r) \subseteq Cut(buf) /\ New(r) \subseteq New(buf)
           /\ Source(r) = Range(text)
           /\ Visible(r) \subseteq Range(text) \cup New(buf)
           /\ Visible(buf) \subseteq Visible(r) \cup Visible(inflight)
           /\ (IsInjective(text) /\ IsInjective(buf.visible) /\ New(buf) \cap Range(text) = {})
                  => IsInjective(r.visible)
           /\ r.source = text
  <1>1. buf \in Buffers /\ inflight \in Buffers /\ buf.source = inflight.visible /\ r.source = text
        /\ Source(buf) = Visible(inflight)
    BY AtWorker, ContinuedHolds, BufferHolds
  <1>2. CASE buf.visible = inflight.visible
    <2>1. r = createContentBuffer(text)
      BY <1>2 DEF Continued
    <2>2. Visible(buf) = Visible(inflight)
      BY <1>1, <1>2, BufferHolds
    <2> QED
      BY <1>1, <2>1, <2>2, SettledAtoms
  <1>3. CASE buf.visible # inflight.visible /\ r = buf
    <2>1. Source(buf) = Range(text) /\ Visible(buf) \subseteq Source(buf) \cup New(buf)
      BY <1>1, <1>3, BufferHolds DEF New
    <2> QED
      BY <1>1, <1>3, <2>1
  <1>4. CASE r = rebaseBuffer(buf, text)
    BY <1>1, <1>4, RebaseAtoms, RebaseHolds
  <1> QED
    BY <1>2, <1>3, <1>4, ContinuedHolds

LEMMA submitSavedText ==
    ASSUME ControlInv, TextInv, submitSaved
    PROVE  TextInv'
  <1>1. PICK saved \in BOOLEAN, r \in Buffers : \E d :
              /\ inflight # Absent /\ Accepted /\ Reached(Submitted, saved)
              /\ publish(Submitted.block, d) /\ r = Continued(buf, Submitted.block)
              /\ buf' \in {r, Absent}
              /\ inflight' = Absent /\ lane' = Tail(lane)
              /\ UNCHANGED <<staged, page, told, gone>>
    BY submitSavedCases
  <1>2. seen' = Submitted.block
    BY <1>1 DEF publish
  <1>3. Submitted.block \in Texts
    BY <1>1, SubmittedHolds
  <1>4. Cut(r) \subseteq Cut(buf)
    BY <1>1, <1>3, ContinuedAtoms
  <1>5. Cut(buf') \subseteq gone
    BY <1>1, <1>4, CutGone, NoText2
  <1> QED
    BY <1>1, <1>2, <1>5, SubmittedText

LEMMA submitUnpublishedText ==
    ASSUME ControlInv, TextInv, submitUnpublished
    PROVE  TextInv'
  <1>1. /\ inflight # Absent /\ Accepted /\ Reached(Submitted, TRUE) /\ inflight' = Absent /\ lane' = Tail(lane)
        /\ UNCHANGED <<seen, staged, page, gone>> /\ buf' = release(buf, view.observed, compose.on, action')
    BY DEF submitUnpublished
  <1>2. Cut(buf') \subseteq gone
    BY <1>1, Released, CutGone, NoText2
  <1> QED
    BY <1>1, <1>2, SubmittedText

LEMMA submitRefusedText ==
    ASSUME ControlInv, TextInv, submitRefused
    PROVE  TextInv'
  <1>1. PICK r \in Buffers :
              /\ inflight # Absent
              /\ r.source = inflight.source /\ Range(r.visible) = Range(buf.visible)
              /\ buf' \in {r, Absent}
              /\ inflight' = Absent /\ lane' = Tail(lane)
              /\ UNCHANGED <<core, disk, seen, stale, unavailable, compose, staged, view, page, gone, landed>>
    BY submitRefusedCases
  <1>2. /\ inflight \in Buffers /\ buf \in Buffers /\ buf.source = inflight.visible /\ staged = Absent
        /\ lane # <<>> /\ lane[1].kind = "submit" /\ lane \in Seq(Jobs)
    BY <1>1, AtWorker, ControlParts
  <1>3. Cut(r) \subseteq Cut(inflight) \cup Cut(buf)
    BY <1>1, <1>2, BufferHolds
  <1>4. Cut(buf') \subseteq gone
    BY <1>1, <1>3, CutGone, NoText2
  <1>5. Follows(<<>>) /\ lane' = Tail(lane) \o <<>>
    BY <1>1, <1>2, NothingFollows
  <1>6. Early' = {} /\ Resumes' = {}
    BY <1>2, <1>5, AfterTurn
  <1>7. \A b \in {buf', inflight', staged'} \cup Early' : b \in Lowered \/ Cut(b) \subseteq gone'
    BY <1>1, <1>2, <1>4, <1>6, NoText2 DEF Lowered
  <1> QED
    BY <1>1, <1>6, <1>7, DraftText

LEMMA applyRemoteText ==
    ASSUME ControlInv, TextInv, ~Races, applyRemote
    PROVE  TextInv'
  <1>1. /\ lane # <<>> /\ Head1 = lane[1] /\ Head1 \in Jobs /\ Head1.kind \in RemoteKind /\ inflight = Absent
        /\ staged = Absent /\ page' = page
    BY applyRemoteCases
  <1>2. lane[1].kind \notin TextKind \cup {"save"}
    BY <1>1 DEF TextKind, EarlyKind, RemoteKind
  <1>3. CASE /\ lane' = Tail(lane)
             /\ UNCHANGED <<core, disk, seen, stale, buf, inflight, action, unavailable, orphan, compose,
                            view, staged, gone, landed, budget>>
    BY <1>1, <1>2, <1>3, RunBeside, BesideText
  <1>4. ASSUME NEW document \in Imported(Head1), NEW saved \in BOOLEAN, NEW ok \in BOOLEAN, NEW d,
               core.block # Absent,
               Executed(document, FALSE, <<>>, saved, ok, d),
               buf' = IF ok THEN d.buf ELSE buf, staged' = Absent,
               gone' = gone \cup (Text(core.block) \ Text(document.block))
        PROVE  TextInv'
    <2>1. document \in Docs /\ document.removed = core.removed
      BY <1>1, <1>4, ControlParts, ImportedHolds
    <2>2. lane[1].kind # "save" /\ FALSE \in BOOLEAN /\ page'.kept \in {page.kept, Absent}
      BY <1>1, <1>2
    <2>3. gone \subseteq gone' /\ Text(core.block) \ Text(document.block) \subseteq gone'
      BY <1>4
    <2> QED
      BY <1>1, <1>4, <2>1, <2>2, <2>3, ExecutedText
  <1> QED
    BY <1>3, <1>4, applyRemoteCases

LEMMA executeLocalText ==
    ASSUME ControlInv, TextInv, ~Races, executeLocal
    PROVE  TextInv'
  <1>1. /\ lane # <<>> /\ Head1 = lane[1] /\ Head1.kind = "local" /\ Head1.payload \in {"remove", "undo"}
        /\ inflight = Absent /\ staged = Absent
    BY executeLocalCases
  <1>2. lane[1].kind \notin EarlyKind \cup {"save", "resume"}
    BY <1>1 DEF EarlyKind
  <1>3. CASE JobFails
    BY <1>1, <1>2, <1>3, FailedBeside, BesideText
  <1>4. ASSUME LocalDocument \in Docs,
               Head1.payload = "remove" => LocalDocument.removed = core.block,
               Head1.payload = "undo" => LocalDocument.removed = Absent,
               NEW saved \in BOOLEAN, NEW ok \in BOOLEAN, NEW d,
               Executed(LocalDocument, TRUE, <<>>, saved, ok, d), buf' = IF ok THEN d.buf ELSE buf,
               gone' = gone \cup (Text(core.block) \ Text(LocalDocument.block)),
               UNCHANGED <<staged, page, told>>
        PROVE  TextInv'
    <2>1. /\ lane[1].kind # "save" /\ TRUE \in BOOLEAN /\ page'.kept \in {page.kept, Absent} /\ staged' = Absent
          /\ LocalDocument.removed \in {core.removed, core.block, Absent}
      BY <1>1, <1>2, <1>4
    <2>2. gone \subseteq gone' /\ Text(core.block) \ Text(LocalDocument.block) \subseteq gone'
      BY <1>4
    <2> QED
      BY <1>1, <1>4, <2>1, <2>2, ExecutedText
  <1> QED
    BY <1>3, <1>4, executeLocalCases

LEMMA executeSplicesText ==
    ASSUME ControlInv, TextInv, ~Races, executeSplices
    PROVE  TextInv'
  <1>1. /\ lane # <<>> /\ lane[1].kind \in EarlyKind /\ inflight = Absent
        /\ lane[1].payload \in Buffers /\ core.block # Absent /\ lane[1].payload.source = core.block
        /\ EarlyDocument \in Docs /\ EarlyDocument.block \in Texts /\ EarlyDocument.removed = core.removed
        /\ Range(EarlyDocument.block) = Visible(lane[1].payload)
        /\ staged' = Absent /\ UNCHANGED <<gone, page, told>>
    BY executeSplicesCases
  <1>2. PICK saved \in BOOLEAN : \E d :
                 /\ Executed(EarlyDocument, TRUE, <<>>, saved, TRUE, d)
                 /\ buf' = d.buf /\ unavailable' = d.unavailable
    BY executeSplicesCases
  <1>3. PICK d : Executed(EarlyDocument, TRUE, <<>>, saved, TRUE, d) /\ buf' = d.buf
    BY <1>2
  <1>4. lane[1].kind # "save" /\ page'.kept \in {page.kept, Absent} /\ gone \subseteq gone'
    BY <1>1 DEF EarlyKind
  <1>5. Cut(lane[1].payload) \subseteq gone
    <2>1. lane[1].payload \in Early
      BY <1>1, <1>4, TurnSets
    <2> QED
      BY <2>1 DEF TextInv, DeletedOnly, Lowered
  <1>6. Text(core.block) \ Text(EarlyDocument.block) \subseteq gone'
    BY <1>1, <1>5, BufferHolds, AbsentIsNoData DEF Text
  <1>7. PICK ok \in BOOLEAN : ok = TRUE
    OBVIOUS
  <1>8. Executed(EarlyDocument, ok, <<>>, saved, ok, d) /\ buf' = IF ok THEN d.buf ELSE buf
    BY <1>3, <1>7
  <1>9. EarlyDocument.removed \in {core.removed, core.block, Absent}
    BY <1>1
  <1> QED
    BY <1>1, <1>4, <1>6, <1>8, <1>9, ExecutedText

LEMMA restoreUnsavedText ==
    ASSUME ControlInv, TextInv, ~Races, restoreUnsaved
    PROVE  TextInv'
  <1>1. /\ lane # <<>> /\ Head1 = lane[1] /\ lane[1].kind = "resume" /\ lane[1].payload \in Records
        /\ inflight = Absent /\ staged = Absent /\ page'.kept = Absent /\ UNCHANGED <<staged, gone>>
    BY restoreUnsavedCases
  <1>2. lane[1].kind # "save" /\ page'.kept \in {page.kept, Absent}
    BY <1>1
  <1>3. Resumes = {lane[1].payload} /\ lane[1].payload.content \in Texts
    BY <1>1, <1>2, TurnSets DEF Records
  <1>4. ASSUME core.block # Absent, core.block \in lane[1].payload.bases,
               NEW saved \in BOOLEAN, NEW ok \in BOOLEAN, NEW d,
               Executed(RestoredDocument, TRUE, <<>>, saved, ok, d), buf' = IF ok THEN d.buf ELSE buf
        PROVE  TextInv'
    <2>1. RestoredDocument = [core EXCEPT !.block = lane[1].payload.content]
      BY <1>1 DEF RestoredDocument
    <2>2. /\ RestoredDocument \in Docs /\ RestoredDocument.block = lane[1].payload.content
          /\ RestoredDocument.removed = core.removed
      BY <1>3, <2>1, ControlParts DEF Docs, TypeOK
    <2>3. Text(core.block) \ Text(RestoredDocument.block) \subseteq gone'
      <3>1. Range(core.block) \ Range(lane[1].payload.content) \subseteq gone
        BY <1>3, <1>4 DEF TextInv, KeptCovers, Kept
      <3> QED
        BY <1>1, <1>3, <1>4, <2>2, <3>1, AbsentIsNoData DEF Text
    <2>4. /\ TRUE \in BOOLEAN /\ gone \subseteq gone' /\ staged' = Absent
          /\ RestoredDocument.removed \in {core.removed, core.block, Absent}
      BY <1>1, <1>4, <2>2
    <2> QED
      BY <1>1, <1>2, <1>4, <2>2, <2>3, <2>4, ExecutedText
  <1>5. CASE /\ lane' = Tail(lane)
             /\ UNCHANGED <<core, disk, seen, stale, buf, inflight, action, unavailable, orphan, compose,
                            view, landed, budget>>
    <2>1. Follows(<<>>) /\ lane' = Tail(lane) \o <<>>
      BY <1>1, <1>5, ControlParts, NothingFollows
    <2>2. Early' = {} /\ Resumes' = {}
      BY <1>1, <1>2, <2>1, AfterTurn
    <2>3. \A b \in {buf', inflight', staged'} \cup Early' : b \in Lowered \/ Cut(b) \subseteq gone'
      BY <1>1, <1>5, <2>2 DEF Lowered
    <2> QED
      BY <1>1, <1>2, <1>5, <2>2, <2>3, DraftText
  <1> QED
    BY <1>4, <1>5, restoreUnsavedCases

\* The removed block's draft goes into a new one beside it.
LEMMA HeirText ==
    ASSUME ControlInv, TextInv, inflight = Absent, lane # <<>>, lane[1].kind \in {"recover", "fill"},
           NEW document \in Docs, document.block = Absent, document.removed = Absent,
           NEW e, Follows(e), NEW saved \in BOOLEAN, NEW ok \in BOOLEAN, NEW d,
           HeirExecuted(document, e, saved, ok, d), UNCHANGED <<staged, page, told, gone>>
    PROVE  TextInv'
  <1>1. lane[1].kind # "save" /\ lane' = Tail(lane) \o e
    BY DEF HeirExecuted
  <1>2. Early' = {} /\ Resumes' = {}
    BY <1>1, AfterTurn
  <1>3. core' = document /\ landed' = landed \cup Text(document.block) /\ disk' \in {disk, document}
    BY DEF HeirExecuted, Reached
  <1>4. d = Observed(document.block, TRUE, buf, inflight) /\ inflight' = inflight
    BY DEF HeirExecuted
  <1>5. seen' \in {seen, document.block} /\ buf' \in {buf, d.buf, Absent}
    BY DEF HeirExecuted, publish
  <1>6. Cut(d.buf) \subseteq Cut(buf)
    <2>1. PICK own \in BOOLEAN : own = TRUE
      OBVIOUS
    <2>2. d = Observed(document.block, own, buf, inflight)
      BY <1>4, <2>1
    <2> QED
      BY <2>2, ObservedAtoms
  <1>7. Cut(buf') \subseteq gone'
    BY <1>5, <1>6, CutGone, NoText2
  <1>8. \A b \in {buf', inflight', staged'} \cup Early' : b \in Lowered \/ Cut(b) \subseteq gone'
    BY <1>2, <1>4, <1>7 DEF Lowered
  <1>9. core.block = Absent
    <2>1. Head1 = lane[1]
      BY ControlParts, LaneIs
    <2> QED
      BY <2>1, HeirTurn
  <1>10. Text(core.block) \ Text(core'.block) \subseteq gone' /\ gone \subseteq gone'
    BY <1>9, NoText2
  <1>11. page'.kept \in {page.kept, Absent} /\ core'.removed \in {core.removed, core.block, Absent}
    BY <1>3
  <1> QED
    BY <1>2, <1>3, <1>5, <1>8, <1>10, <1>11, DocumentText

LEMMA recoverText ==
    ASSUME ControlInv, TextInv, recover
    PROVE  TextInv'
  <1>1. lane # <<>> /\ lane[1].kind = "recover" /\ inflight = Absent /\ UNCHANGED <<staged, page, told, gone>>
    BY recoverCases
  <1>2. CASE /\ buf = Absent /\ lane' = Tail(lane)
             /\ UNCHANGED <<core, disk, seen, stale, buf, inflight, action, unavailable, orphan, compose,
                            view, budget, landed>>
    <2>1. lane[1].kind \notin TextKind
      BY <1>1 DEF TextKind, EarlyKind
    <2> QED
      BY <1>1, <1>2, <2>1, RunBeside, BesideText
  <1>3. ASSUME NEW saved \in BOOLEAN, NEW ok \in BOOLEAN, NEW e, NEW d, buf # Absent,
               e = IF ok THEN FillJob ELSE <<>>, HeirExecuted(NewBlock, e, saved, ok, d)
        PROVE  TextInv'
    <2>1. core \in Docs /\ core.block = Absent /\ core.removed = Absent /\ buf \in Buffers
      <3>1. Head1 = lane[1]
        BY <1>1, ControlParts, LaneIs
      <3> QED
        BY <1>1, <1>3, <3>1, HeirTurn, ControlParts DEF TypeOK
    <2>2. NewBlock \in Docs /\ NewBlock.block = Absent /\ NewBlock.removed = Absent
      BY <2>1, NoText DEF NewBlock, Docs
    <2>3. Follows(e)
      <3>1. buf.visible \in Texts
        BY <2>1, BufferHolds
      <3>2. Job("fill", buf.visible) \in Jobs /\ Job("fill", buf.visible).kind = "fill"
        BY <3>1, JobMade, JobIs
      <3>3. e = <<>> \/ e = <<Job("fill", buf.visible)>>
        BY <1>3 DEF FillJob
      <3> QED
        BY <3>2, <3>3 DEF Follows
    <2> QED
      BY <1>1, <1>3, <2>2, <2>3, HeirText
  <1> QED
    BY <1>2, <1>3, recoverCases

LEMMA fillRecoveredText ==
    ASSUME ControlInv, TextInv, fillRecovered
    PROVE  TextInv'
  <1>1. /\ lane # <<>> /\ lane[1].kind = "fill" /\ Head1 = lane[1] /\ inflight = Absent
        /\ UNCHANGED <<staged, page, told, gone>> /\ FilledBlock \in Docs
        /\ FilledBlock.block = core.block /\ FilledBlock.removed = core.removed
    BY fillRecoveredCases
  <1>2. PICK saved, ok \in BOOLEAN : \E d : HeirExecuted(FilledBlock, <<>>, saved, ok, d)
    BY fillRecoveredCases
  <1>3. PICK d : HeirExecuted(FilledBlock, <<>>, saved, ok, d)
    BY <1>2
  <1>4. core.block = Absent /\ core.removed = Absent /\ Follows(<<>>)
    BY <1>1, HeirTurn DEF Follows
  <1> QED
    BY <1>1, <1>3, <1>4, HeirText

LEMMA Discarded ==
    ASSUME ControlInv, ~Races, discard
    PROVE  /\ core' = disk' /\ seen' = disk'.block /\ buf' = Absent /\ inflight' = Absent /\ staged' = Absent
           /\ page' = [page EXCEPT !.shown = TRUE, !.unsavedKept = FALSE] /\ page.shown = FALSE
           /\ page'.kept = page.kept /\ page'.shown
           /\ Early = {} /\ Early' = {} /\ Fills' = {} /\ Inserts' = {} /\ staged = Absent
           /\ Resumes' = IF page.kept = Absent THEN {} ELSE {page.kept}
           /\ disk' = disk \/ (inflight # Absent /\ Accepted /\ disk' = Submitted)
           /\ gone' = gone \cup ((Text(core.block) \cup Text(core.heir))
                            \ (Text(disk'.block) \cup Text(disk'.heir)))
           /\ landed' = landed \cup Text(disk'.block)
           /\ action' = IF action \in {"queued", "sent", "retry"} THEN "dropped" ELSE action
           /\ lane' = IF page.kept = Absent THEN <<>> ELSE <<Job("resume", page.kept)>>
           /\ budget'.typed = budget.typed /\ budget'.foreign = budget.foreign
  <1>1. /\ core' = disk' /\ seen' = disk'.block /\ buf' = Absent /\ inflight' = Absent /\ staged' = Absent
        /\ page' = [page EXCEPT !.shown = TRUE, !.unsavedKept = FALSE] /\ ~page.shown
        /\ disk' \in {disk} \cup IF inflight # Absent /\ Accepted THEN {Submitted} ELSE {}
        /\ gone' = gone \cup ((Text(core.block) \cup Text(core.heir))
                            \ (Text(disk'.block) \cup Text(disk'.heir)))
        /\ landed' = landed \cup Text(disk'.block)
        /\ action' = IF action \in {"queued", "sent", "retry"} THEN "dropped" ELSE action
        /\ lane' = IF page.kept = Absent THEN <<>> ELSE <<Job("resume", page.kept)>>
        /\ ~LoweredEarly
    BY DEF discard
  <1>2. budget' = [budget EXCEPT !["closes"] = @ + 1]
    BY DEF discard, Spend
  <1>3. budget'.typed = budget.typed /\ budget'.foreign = budget.foreign
    BY <1>2, ControlParts DEF TypeOK
  <1>4. page.shown = FALSE /\ page'.kept = page.kept /\ page'.shown
    BY <1>1, ControlParts DEF TypeOK
  <1>5. disk' = disk \/ (inflight # Absent /\ Accepted /\ disk' = Submitted)
    BY <1>1
  <1>6. Early = {} /\ staged = Absent
    <2>1. staged = Absent /\ ~\E i \in DOMAIN lane : lane[i].kind \in EarlyKind
      BY <1>1 DEF LoweredEarly, Waiting
    <2>2. ~\E j \in Range(lane) : j.kind \in EarlyKind
      BY <2>1 DEF Range
    <2> QED
      BY <2>1, <2>2 DEF Early, Of
  <1>7. \/ page.kept = Absent /\ Range(lane') = {}
        \/ page.kept # Absent /\ Range(lane') = {Job("resume", page.kept)}
    BY <1>1, NoText, SingleRange
  <1>8. /\ Early' = {} /\ Fills' = {} /\ Inserts' = {}
        /\ Resumes' = IF page.kept = Absent THEN {} ELSE {page.kept}
    <2>1. PICK j : j = Job("resume", page.kept)
      OBVIOUS
    <2>2. j.kind = "resume" /\ j.payload = page.kept /\ (page.kept # Absent => Range(lane') = {j})
      BY <1>7, <2>1, JobIs
    <2>3. ASSUME NEW kinds \in SUBSET Kinds
          PROVE  {k \in Range(lane') : k.kind \in kinds} = IF page.kept # Absent /\ "resume" \in kinds THEN {j} ELSE {}
      BY <1>7, <2>2
    <2>4. /\ EarlyKind \in SUBSET Kinds /\ {"fill"} \in SUBSET Kinds /\ {"resume"} \in SUBSET Kinds
          /\ {"insert"} \in SUBSET Kinds /\ "resume" \notin EarlyKind
      BY DEF EarlyKind, Kinds
    <2>5. /\ {k \in Range(lane') : k.kind \in EarlyKind} = {} /\ {k \in Range(lane') : k.kind \in {"fill"}} = {}
          /\ {k \in Range(lane') : k.kind \in {"insert"}} = {}
          /\ {k \in Range(lane') : k.kind \in {"resume"}} = IF page.kept # Absent THEN {j} ELSE {}
      BY <2>3, <2>4
    <2> QED
      BY <2>2, <2>5 DEF Early, Fills, Inserts, Resumes, Of
  <1> QED
    BY <1>1, <1>3, <1>4, <1>5, <1>6, <1>8

LEMMA discardText ==
    ASSUME ControlInv, TextInv, ~Races, discard
    PROVE  TextInv'
  <1>1. /\ core' = disk' /\ seen' = disk'.block /\ buf' = Absent /\ inflight' = Absent /\ staged' = Absent
        /\ page'.kept = page.kept /\ Early' = {} /\ Resumes' = IF page.kept = Absent THEN {} ELSE {page.kept}
        /\ disk' = disk \/ (inflight # Absent /\ Accepted /\ disk' = Submitted)
        /\ gone' = gone \cup ((Text(core.block) \cup Text(core.heir))
                            \ (Text(disk'.block) \cup Text(disk'.heir)))
        /\ landed' = landed \cup Text(disk'.block)
    BY Discarded
  <1>2. DeletedOnly'
    BY <1>1, NoText2 DEF DeletedOnly, Lowered
  <1>3. KeptCovers'
    BY <1>1 DEF TextInv, KeptCovers, Kept
  <1>4. core.block # Absent => disk'.heir = Absent
    <2>1. core.block # Absent => core.heir = Absent /\ disk.heir = Absent
      BY ControlParts DEF Succession, Lost
    <2>2. inflight # Absent /\ Accepted => Submitted.heir = core.heir
      BY SubmittedHolds
    <2> QED
      BY <1>1, <2>1, <2>2
  <1>5. Text(core.block) \subseteq gone' \cup Text(core'.block)
    BY <1>1, <1>4, NoText2
  <1>6. Ledger'
    BY <1>1, <1>5 DEF TextInv, Ledger
  <1>7. disk'.removed \in {disk.removed, core.removed}
    BY <1>1, SubmittedHolds
  <1>8. Landing'
    BY <1>1, <1>7 DEF TextInv, Landing
  <1> QED
    BY <1>2, <1>3, <1>6, <1>8 DEF TextInv

LEMMA NoJobsYet == lane = <<>> => Early = {} /\ Fills = {} /\ Resumes = {} /\ Inserts = {}
  <1> SUFFICES ASSUME lane = <<>> PROVE Early = {} /\ Fills = {} /\ Resumes = {} /\ Inserts = {}
    OBVIOUS
  <1>1. Range(lane) = {}
    BY NoText
  <1> QED
    BY <1>1 DEF Early, Fills, Resumes, Inserts, Of

LEMMA InitText ==
    ASSUME Init
    PROVE  TextInv
  <1>1. /\ core = Doc(Original) /\ disk = Doc(Original) /\ seen = Original /\ lane = <<>>
        /\ buf = Absent /\ inflight = Absent /\ staged = Absent /\ page = NoPage
        /\ gone = {} /\ landed = Range(Original)
    BY DEF Init
  <1>2. core.block = Original /\ core.removed = Absent /\ disk.block = Original /\ disk.removed = Absent
        /\ page.kept = Absent
    BY <1>1 DEF Doc, NoPage
  <1>3. Text(Original) = Range(Original)
    BY OriginalText DEF Text
  <1>4. Early = {} /\ Resumes = {}
    BY <1>1, NoJobsYet
  <1>5. DeletedOnly /\ KeptCovers
    BY <1>1, <1>2, <1>4, NoText2 DEF DeletedOnly, Lowered, KeptCovers, Kept
  <1>6. Ledger /\ Landing
    BY <1>1, <1>2, <1>3, NoText2 DEF Ledger, Landing
  <1> QED
    BY <1>5, <1>6 DEF TextInv

LEMMA IdleText ==
    ASSUME TextInv, UNCHANGED vars
    PROVE  TextInv'
  <1>1. Beside
    BY StillFlows DEF vars, Beside, LaneSame
  <1> QED
    BY <1>1, BesideText

LEMMA NextText ==
    ASSUME ControlInv, TextInv, ~Races, Next
    PROVE  TextInv'
  <1>1. CASE Beside
    BY <1>1, BesideText
  <1>2. CASE Surface
    BY <1>1, <1>2, BesideSteps, observeText, TypeText, EraseText, leaveText, compositionEndText,
       stageDraftSpliceText, pickerText, runVimWordMotionText DEF Surface
  <1>3. CASE flushTimer
    BY <1>1, <1>3, BesideSteps
  <1>4. CASE Lane
    BY <1>1, <1>4, BesideSteps, ensureCurrentText, submitPrepareText, submitSavedText, submitUnpublishedText,
       submitRefusedText, applyRemoteText, executeLocalText, executeSplicesText, recoverText,
       fillRecoveredText, restoreUnsavedText DEF Lane
  <1>5. CASE World
    BY <1>1, <1>5, BesideSteps, hideText, discardText DEF World
  <1> QED
    BY <1>2, <1>3, <1>4, <1>5 DEF Next

LEMMA TextHolds == ~Races => (Spec => [](ControlInv /\ TextInv))
  <1> SUFFICES ASSUME ~Races PROVE Spec => [](ControlInv /\ TextInv)
    OBVIOUS
  <1>1. Init => ControlInv /\ TextInv
    BY InitControl, InitText
  <1>2. ControlInv /\ TextInv /\ [Next]_vars => (ControlInv /\ TextInv)'
    BY NextControl, IdleControl, NextText, IdleText
  <1> QED
    BY <1>1, <1>2, PTL DEF Spec

\* A save takes from the document only what its author deleted, or what the
\* user was told is lost: a change of another replica never redirects a
\* deletion (rebaseBuffer of content-buffer.ts, executePrepared of session.ts).
THEOREM OnlyDeleted == ~Races => (Spec => []OnlyDeletedIsGone)
  <1> SUFFICES ASSUME ~Races PROVE Spec => []OnlyDeletedIsGone
    OBVIOUS
  <1>1. TextInv => OnlyDeletedIsGone
    BY DEF TextInv, Ledger, OnlyDeletedIsGone
  <1> QED
    BY <1>1, TextHolds, PTL
-----------------------------------------------------------------------------
(* Input is not lost.                                                      *)

EarlyAtoms == UNION {Visible(b) : b \in Early}
FillAtoms == UNION {Range(p) : p \in Fills}
ResumeAtoms == UNION {Range(k.content) : k \in Resumes}
KeptAtoms == IF page.kept = Absent THEN {} ELSE Range(page.kept.content)

\* What needs no draft to survive: it is in the graph, on its way there or given up.
Backed == gone \cup Text(core.block) \cup Text(core.heir) \cup Visible(staged) \cup EarlyAtoms
Live == Backed \cup Visible(buf) \cup Visible(inflight) \cup FillAtoms \cup ResumeAtoms

\* The source of a draft may be dropped: the graph or the submission has it.
Sourced == Source(buf) \subseteq Backed \cup Visible(inflight) /\ Source(inflight) \subseteq Backed
\* A draft and the job that recovers it hold the same text.
Recovering == Fills # {} => Visible(buf) \subseteq Backed \cup FillAtoms /\ FillAtoms \subseteq Backed \cup Visible(buf)
\* A hidden page may be closed: its record has what only its drafts have.
Recorded == ~page.shown => /\ Visible(buf) \cup Visible(inflight) \cup FillAtoms \subseteq Backed \cup KeptAtoms
                           /\ Resumes = {}
Safe == Sourced /\ Recovering /\ Recorded
TypedLive == (Size + 1)..(Size + budget.typed) \subseteq Live \cup page.dropped

\* A step that carries every atom along, but for a record it does not put back.
Carries == Safe' /\ Live \subseteq Live' \cup page'.dropped

LEMMA StepCarries ==
    ASSUME Safe, Backed \subseteq Backed',
           Source(buf') \subseteq Backed' \cup Visible(inflight'), Source(inflight') \subseteq Backed',
           Visible(buf) \cup Visible(inflight) \cup FillAtoms \cup ResumeAtoms \subseteq Live' \cup page'.dropped,
           Fills' # {} => /\ Visible(buf') \subseteq Backed' \cup FillAtoms'
                          /\ FillAtoms' \subseteq Backed' \cup Visible(buf'),
           page'.shown \/ page' = page, Resumes' \subseteq Resumes,
           page.shown \/ Visible(buf') \cup Visible(inflight') \cup FillAtoms' \subseteq
                             Backed' \cup Visible(buf) \cup Visible(inflight) \cup FillAtoms
    PROVE  Carries
  <1>1. Sourced'
    BY DEF Sourced
  <1>2. Recovering'
    BY DEF Recovering
  <1>3. Recorded'
    <2> SUFFICES ASSUME ~page'.shown
                 PROVE  /\ Visible(buf') \cup Visible(inflight') \cup FillAtoms' \subseteq Backed' \cup KeptAtoms'
                        /\ Resumes' = {}
      BY DEF Recorded
    <2>1. page' = page /\ ~page.shown
      OBVIOUS
    <2>2. Visible(buf) \cup Visible(inflight) \cup FillAtoms \subseteq Backed \cup KeptAtoms /\ Resumes = {}
      BY <2>1 DEF Safe, Recorded
    <2>3. KeptAtoms' = KeptAtoms
      BY <2>1 DEF KeptAtoms
    <2> QED
      BY <2>1, <2>2, <2>3
  <1>4. Live \subseteq Live' \cup page'.dropped
    <2>1. Backed' \subseteq Live'
      BY DEF Live
    <2> QED
      BY <2>1 DEF Live
  <1> QED
    BY <1>1, <1>2, <1>3, <1>4 DEF Carries, Safe

LEMMA BesideCarries ==
    ASSUME Safe, Beside
    PROVE  Carries
  <1>1. /\ UNCHANGED <<core, seen, landed, gone, buf, inflight, staged>>
        /\ Early' = Early /\ Resumes' = Resumes /\ Fills' \in {Fills, {}}
        /\ page' = page \/ page'.shown
    BY DEF Beside
  <1>2. Backed' = Backed /\ ResumeAtoms' = ResumeAtoms
    BY <1>1 DEF Backed, EarlyAtoms, ResumeAtoms
  <1>3. FillAtoms' = FillAtoms \/ (Fills' = {} /\ FillAtoms' = {})
    BY <1>1 DEF FillAtoms
  <1>4. FillAtoms \subseteq Backed \cup Visible(buf)
    BY DEF Safe, Recovering, FillAtoms
  <1>5. Visible(buf) \cup Visible(inflight) \cup FillAtoms \cup ResumeAtoms \subseteq Live'
    BY <1>1, <1>2, <1>4 DEF Live
  <1>6. Fills' # {} => /\ Visible(buf') \subseteq Backed' \cup FillAtoms'
                       /\ FillAtoms' \subseteq Backed' \cup Visible(buf')
    BY <1>1, <1>2, <1>3 DEF Safe, Recovering
  <1>7. Sourced'
    BY <1>1, <1>2 DEF Safe, Sourced
  <1>8. Source(buf') \subseteq Backed' \cup Visible(inflight') /\ Source(inflight') \subseteq Backed'
    BY <1>7 DEF Sourced
  <1> QED
    BY <1>1, <1>2, <1>3, <1>5, <1>6, <1>8, StepCarries

LEMMA NoFills == Heirs = {} => Fills = {} /\ FillAtoms = {}
  <1> SUFFICES ASSUME Heirs = {} PROVE Fills = {} /\ FillAtoms = {}
    OBVIOUS
  <1>1. \A j \in Range(lane) : j.kind # "fill"
    BY DEF Heirs, Kindly, Range
  <1>2. Fills = {}
    BY <1>1 DEF Fills, Of
  <1> QED
    BY <1>2 DEF FillAtoms

LEMMA SeenNoFills ==
    ASSUME ControlInv, seen # Absent \/ core.block # Absent \/ core.removed # Absent
    PROVE  Fills = {} /\ FillAtoms = {}
  <1>1. Heirs = {}
    BY ControlParts DEF Succession, Lost
  <1> QED
    BY <1>1, NoFills

\* A change of the draft alone, while no draft is being recovered.
LEMMA SurfaceCarries ==
    ASSUME Safe, Fills = {}, Fills' = Fills, Resumes' = Resumes, UNCHANGED <<inflight, page>>,
           Backed \subseteq Backed', Source(buf') \subseteq Backed' \cup Visible(inflight),
           Visible(buf) \subseteq Backed' \cup Visible(buf') \cup Visible(inflight),
           page.shown \/ Visible(buf') \subseteq Backed' \cup Visible(buf) \cup Visible(inflight)
    PROVE  Carries
  <1>1. FillAtoms = {} /\ FillAtoms' = {} /\ ResumeAtoms' = ResumeAtoms
    BY DEF FillAtoms, ResumeAtoms
  <1>2. Source(inflight') \subseteq Backed'
    BY DEF Safe, Sourced
  <1>3. Visible(buf) \cup Visible(inflight) \cup FillAtoms \cup ResumeAtoms \subseteq Live'
    BY <1>1 DEF Live
  <1>4. Visible(inflight') = Visible(inflight)
    OBVIOUS
  <1> QED
    BY <1>1, <1>2, <1>3, <1>4, StepCarries

\* What was published is in the text or was deleted.
LEMMA SeenBacked == TextInv => Text(seen) \subseteq Backed /\ landed \subseteq Backed
  BY DEF TextInv, Landing, Ledger, Backed

LEMMA ReleasedClean ==
    ASSUME NEW b \in Buffers \cup {Absent}, NEW o, NEW c, NEW a, NEW r, r = release(b, o, c, a)
    PROVE  r = b \/ (r = Absent /\ b \in Buffers /\ Visible(b) = Source(b))
  BY DEF release, bufferIsClean, Visible, Source

LEMMA observeCarries ==
    ASSUME ControlInv, TextInv, Safe, observe
    PROVE  Carries
  <1>1. /\ buf' = target /\ UNCHANGED <<core, inflight, staged, page, gone, lane>> /\ seen # Absent /\ page.shown
    BY DEF observe, graphVars, draftVars
  <1>2. LaneSame /\ Fills = {}
    BY <1>1, StillFlows, SeenNoFills
  <1>3. Backed' = Backed
    BY <1>1, <1>2 DEF Backed, EarlyAtoms, LaneSame
  <1>4. CASE buf # Absent
    BY <1>1, <1>2, <1>3, <1>4, targetText, SurfaceCarries DEF LaneSame, Safe, Sourced
  <1>5. CASE buf = Absent
    <2>1. Source(buf') = Text(seen)
      BY <1>1, <1>5, targetText DEF Text
    <2> QED
      BY <1>1, <1>2, <1>3, <1>5, <2>1, NoText2, SeenBacked, SurfaceCarries DEF LaneSame
  <1> QED
    BY <1>4, <1>5

LEMMA TypeCarries ==
    ASSUME ControlInv, Safe, Type
    PROVE  /\ Carries /\ budget'.typed = budget.typed + 1
           /\ Size + budget.typed + 1 \in Visible(buf')
           /\ \E at \in 1..(Len(buf.visible) + 1) :
                 /\ buf' = [buf EXCEPT !.visible = InsertAt(buf.visible, at, Size + budget.typed + 1)]
                 /\ budget.typed < MaxTyped
  <1>1. /\ buf \in Buffers /\ buf.visible \in Texts /\ seen # Absent /\ page.shown
    BY ControlParts, BufferHolds DEF Type, Editing, TypeOK
  <1>2. PICK at \in 1..(Len(buf.visible) + 1), menu \in BOOLEAN :
            /\ onInput(InsertAt(buf.visible, at, Size + budget.typed + 1), menu) /\ UNCHANGED gone
            /\ budget.typed < MaxTyped /\ budget' = [budget EXCEPT !["typed"] = @ + 1]
    BY DEF Type, Spend
  <1>3. Size + budget.typed + 1 \in Nat
    BY ControlParts, NextAtoms
  <1>4. PICK text : text = InsertAt(buf.visible, at, Size + budget.typed + 1)
    OBVIOUS
  <1>5. text \in Texts /\ Range(text) = Range(buf.visible) \cup {Size + budget.typed + 1}
    BY <1>1, <1>3, <1>4, InsertedAtom
  <1>6. buf' = [buf EXCEPT !.visible = text] /\ UNCHANGED <<core, inflight, staged, page, gone, lane>>
    BY <1>2, <1>4 DEF onInput, graphVars, draftVars
  <1>7. Source(buf') = Source(buf) /\ Visible(buf') = Visible(buf) \cup {Size + budget.typed + 1}
    BY <1>1, <1>5, <1>6, EditedAtoms, BufferHolds
  <1>8. LaneSame /\ Fills = {}
    BY <1>1, <1>6, StillFlows, SeenNoFills
  <1>9. Backed' = Backed
    BY <1>6, <1>8 DEF Backed, EarlyAtoms, LaneSame
  <1>10. Carries
    BY <1>1, <1>6, <1>7, <1>8, <1>9, SurfaceCarries DEF LaneSame, Safe, Sourced
  <1>11. budget'.typed = budget.typed + 1
    BY <1>2, ControlParts DEF TypeOK
  <1> QED
    BY <1>2, <1>4, <1>6, <1>7, <1>10, <1>11

LEMMA EraseCarries ==
    ASSUME ControlInv, Safe, Erase
    PROVE  Carries
  <1>1. buf \in Buffers /\ buf.visible \in Texts /\ seen # Absent /\ page.shown
    BY ControlParts, BufferHolds DEF Erase, Editing, TypeOK
  <1>2. PICK at \in DOMAIN buf.visible :
            onInput(RemoveAt(buf.visible, at), FALSE) /\ gone' = gone \cup {buf.visible[at]}
    BY DEF Erase
  <1>4. PICK text : text = RemoveAt(buf.visible, at)
    OBVIOUS
  <1>5. text \in Texts /\ Range(buf.visible) \ {buf.visible[at]} \subseteq Range(text)
    BY <1>1, <1>4, RemovedAtom
  <1>6. buf' = [buf EXCEPT !.visible = text] /\ UNCHANGED <<core, inflight, staged, page, lane>>
    BY <1>2, <1>4 DEF onInput, graphVars, draftVars
  <1>7. Source(buf') = Source(buf) /\ Visible(buf') = Range(text) /\ Visible(buf) = Range(buf.visible)
    BY <1>1, <1>5, <1>6, EditedAtoms, BufferHolds
  <1>8. LaneSame /\ Fills = {}
    BY <1>1, <1>6, StillFlows, SeenNoFills
  <1>9. Backed' = Backed \cup {buf.visible[at]}
    BY <1>2, <1>6, <1>8 DEF Backed, EarlyAtoms, LaneSame
  <1>10. Source(buf') \subseteq Backed' \cup Visible(inflight)
    BY <1>7, <1>9 DEF Safe, Sourced
  <1>11. Visible(buf) \subseteq Backed' \cup Visible(buf') \cup Visible(inflight)
    BY <1>5, <1>7, <1>9
  <1> QED
    BY <1>1, <1>6, <1>8, <1>9, <1>10, <1>11, SurfaceCarries DEF LaneSame

LEMMA leaveCarries ==
    ASSUME ControlInv, ~Races, Safe, leave
    PROVE  Carries
  <1>1. /\ UNCHANGED <<core, inflight, page, gone>> /\ flush /\ staged' = Absent /\ staged = Absent
        /\ buf' = release(buf, FALSE, inflight # Absent, action) /\ view.observed
    BY DEF leave, graphVars, draftVars
  <1>2. seen # Absent
    BY <1>1, ControlParts DEF Succession
  <1>3. LaneSame /\ Fills = {}
    BY <1>1, <1>2, FlushSame, SeenNoFills
  <1>4. Backed' = Backed
    BY <1>1, <1>3 DEF Backed, EarlyAtoms, LaneSame
  <1>5. buf' = buf \/ (buf' = Absent /\ Visible(buf) = Source(buf))
    <2>1. TypeOK
      BY ControlParts
    <2>2. buf \in Buffers \cup {Absent}
      BY <2>1 DEF TypeOK
    <2> QED
      BY <1>1, <2>2, ReleasedClean
  <1>6. Source(buf') \subseteq Source(buf) /\ Visible(buf') \subseteq Visible(buf)
        /\ Visible(buf) \subseteq Visible(buf') \cup Source(buf)
    BY <1>5, NoText2
  <1> QED
    BY <1>1, <1>3, <1>4, <1>6, SurfaceCarries DEF LaneSame, Safe, Sourced

LEMMA compositionEndCarries ==
    ASSUME ControlInv, TextInv, Safe, compositionEnd
    PROVE  Carries
  <1>1. /\ UNCHANGED <<core, inflight, staged, page, gone, lane>> /\ compose.live
        /\ buf' = IF compose.content = Absent \/ (buf = Absent /\ seen = Absent) THEN buf
                  ELSE rebaseBuffer(target, compose.content)
    BY DEF compositionEnd, graphVars, draftVars
  <1>2. buf \in Buffers /\ seen \in Texts /\ target = buf /\ (compose.content = Absent \/ compose.content = seen)
    <2>1. /\ buf # Absent /\ seen # Absent /\ buf \in Buffers /\ seen \in Texts
          /\ (compose.content = Absent \/ compose.content = seen)
      BY <1>1, ControlParts DEF Composing, TypeOK
    <2> QED
      BY <2>1, targetText
  <1>3. LaneSame /\ Fills = {}
    BY <1>1, <1>2, AbsentIsNoData, StillFlows, SeenNoFills
  <1>4. Backed' = Backed
    BY <1>1, <1>3 DEF Backed, EarlyAtoms, LaneSame
  <1>5. CASE buf' = buf
    BY <1>1, <1>3, <1>4, <1>5, SurfaceCarries DEF LaneSame, Safe, Sourced
  <1>6. CASE buf' # buf
    <2>1. buf' = rebaseBuffer(buf, seen)
      BY <1>1, <1>2, <1>6
    <2>2. /\ Source(buf') = Range(seen) /\ Visible(buf') \subseteq Range(seen) \cup Visible(buf)
          /\ Visible(buf) \subseteq Visible(buf') \cup Source(buf)
      BY <1>2, <2>1, RebaseAtoms DEF New
    <2>3. Range(seen) \subseteq Backed
      BY <1>2, AbsentIsNoData, SeenBacked DEF Text
    <2> QED
      BY <1>1, <1>3, <1>4, <2>2, <2>3, SurfaceCarries DEF LaneSame, Safe, Sourced
  <1> QED
    BY <1>5, <1>6

LEMMA stageDraftSpliceCarries ==
    ASSUME ControlInv, Safe, stageDraftSplice
    PROVE  Carries
  <1>1. /\ UNCHANGED <<core, inflight, page, gone, lane>> /\ staged' = buf /\ staged = Absent
        /\ buf' = createContentBuffer(buf.visible) /\ buf \in Buffers /\ seen # Absent /\ page.shown
    BY ControlParts DEF stageDraftSplice, graphVars, draftVars, settleBuffer, Editing, TypeOK
  <1>2. Source(buf') = Visible(buf) /\ Visible(buf') = Visible(buf)
    BY <1>1, BufferHolds, SettledAtoms
  <1>3. LaneSame /\ Fills = {}
    BY <1>1, StillFlows, SeenNoFills
  <1>4. Backed' = Backed \cup Visible(buf)
    BY <1>1, <1>3, NoText2 DEF Backed, EarlyAtoms, LaneSame
  <1> QED
    BY <1>1, <1>2, <1>3, <1>4, SurfaceCarries DEF LaneSame, Safe, Sourced

LEMMA pickerCarries ==
    ASSUME ControlInv, Safe, pickerRun \/ pickerClose
    PROVE  Carries
  <1>1. /\ UNCHANGED <<core, inflight, page, gone, buf>> /\ staged' \in {staged, Absent}
        /\ staged \in Buffers /\ staged # Absent /\ \E k \in EarlyKind : lane' = Append(lane, Job(k, staged))
    BY ControlParts DEF pickerRun, pickerClose, graphVars, draftVars, Enqueue, TypeOK, EarlyKind
  <1>2. Early' = Early \cup {staged} /\ Resumes' = Resumes /\ Fills' = Fills
    BY <1>1, EarlyFlows
  <1>3. EarlyAtoms' = EarlyAtoms \cup Visible(staged)
    BY <1>2 DEF EarlyAtoms
  <1>4. Backed' = Backed
    BY <1>1, <1>3, NoText2 DEF Backed
  <1>5. Fills = {}
    BY <1>1, ControlParts, SeenNoFills DEF StagedAlone
  <1> QED
    BY <1>1, <1>2, <1>4, <1>5, SurfaceCarries DEF Safe, Sourced

LEMMA runVimWordMotionCarries ==
    ASSUME ControlInv, Safe, ~Races, runVimWordMotion
    PROVE  Carries
  <1>1. PICK at \in DOMAIN buf.visible, edited \in Buffers, j \in Jobs :
                 /\ edited.source = buf.source /\ edited.visible = RemoveAt(buf.visible, at)
                 /\ j = Job("word", edited)
                 /\ lane' = Append(lane, j)
                 /\ buf' = createContentBuffer(edited.visible)
                 /\ gone' = gone \cup {buf.visible[at]}
    BY WordLane
  <1>2. buf \in Buffers /\ buf.visible \in Texts /\ edited.visible \in Texts /\ page.shown /\ seen # Absent
    BY <1>1, WordLane, BufferHolds DEF Editing
  <1>3. UNCHANGED <<core, inflight, staged, page>>
    BY DEF runVimWordMotion, graphVars, draftVars
  <1>4. Range(buf.visible) \ {buf.visible[at]} \subseteq Range(edited.visible)
    BY <1>1, <1>2, RemovedAtom
  <1>5. "word" \in EarlyKind /\ lane' = Append(lane, Job("word", edited))
    BY <1>1 DEF EarlyKind
  <1>6. Early' = Early \cup {edited} /\ Resumes' = Resumes /\ Fills' = Fills /\ Fills = {}
    BY <1>2, <1>5, EarlyFlows, SeenNoFills
  <1>7. EarlyAtoms' = EarlyAtoms \cup Range(edited.visible)
    BY <1>6, BufferHolds DEF EarlyAtoms
  <1>8. Source(buf') = Range(edited.visible) /\ Visible(buf') = Range(edited.visible)
    BY <1>1, <1>2, SettledAtoms
  <1>9. Backed' = Backed \cup Range(edited.visible) \cup {buf.visible[at]}
    BY <1>1, <1>3, <1>7 DEF Backed
  <1>10. Visible(buf) = Range(buf.visible)
    BY <1>2, BufferHolds
  <1> QED
    BY <1>2, <1>3, <1>4, <1>6, <1>8, <1>9, <1>10, SurfaceCarries DEF Safe, Sourced

LEMMA hideCarries ==
    ASSUME ControlInv, TextInv, Safe, ~Races, hide
    PROVE  Carries
  <1>1. /\ UNCHANGED <<core, inflight, staged, gone, buf>> /\ page'.kept = unsaved /\ ~Waiting({"resume"})
    BY DEF hide, graphVars, draftVars
  <1>2. LaneSame
    BY FlushSame, StillFlows DEF hide
  <1>3. Backed' = Backed /\ FillAtoms' = FillAtoms /\ ResumeAtoms' = ResumeAtoms
    BY <1>1, <1>2 DEF Backed, EarlyAtoms, FillAtoms, ResumeAtoms, LaneSame
  <1>4. Sourced' /\ Recovering'
    BY <1>1, <1>2, <1>3 DEF Safe, Sourced, Recovering, LaneSame
  <1>5. Live' = Live
    BY <1>1, <1>3 DEF Live
  <1>6. Resumes = {}
    <2>1. \A j \in Range(lane) : j.kind # "resume"
      BY <1>1 DEF Waiting, Range
    <2> QED
      BY <2>1 DEF Resumes, Of
  <1>7. FillAtoms \subseteq Backed \cup Visible(buf)
    BY DEF Safe, Recovering, FillAtoms
  <1>8. Visible(buf) \cup Visible(inflight) \subseteq Backed \cup KeptAtoms'
    <2>1. CASE unsaved = Absent
      <3>0. buf = Absent \/ (inflight = Absent /\ bufferIsClean(buf))
        BY <2>1, ControlParts, UnsavedHolds
      <3>1. inflight = Absent
        BY <3>0, AtWorker
      <3>2. Visible(buf) \subseteq Source(buf)
        BY <3>0, NoText2 DEF bufferIsClean, Visible, Source
      <3> QED
        BY <3>1, <3>2, NoText2 DEF Safe, Sourced
    <2>2. CASE unsaved # Absent
      <3>1. buf # Absent /\ unsaved.content = buf.visible
        BY <2>2 DEF unsaved
      <3>2. KeptAtoms' = Visible(buf)
        BY <1>1, <2>2, <3>1 DEF KeptAtoms, Visible
      <3>3. Visible(inflight) \subseteq Source(buf)
        BY AtWorker, NoText2, BufferHolds
      <3>4. Source(buf) \subseteq Visible(buf) \cup gone
        BY CutGone DEF Cut
      <3> QED
        BY <3>2, <3>3, <3>4 DEF Backed
    <2> QED
      BY <2>1, <2>2
  <1>9. Recorded'
    BY <1>1, <1>2, <1>3, <1>6, <1>7, <1>8 DEF Recorded, LaneSame
  <1> QED
    BY <1>4, <1>5, <1>9 DEF Carries, Safe

LEMMA discardCarries ==
    ASSUME ControlInv, Safe, ~Races, discard
    PROVE  Carries
  <1>1. /\ core' = disk' /\ buf' = Absent /\ inflight' = Absent /\ staged' = Absent
        /\ page.shown = FALSE /\ page'.shown
        /\ Early = {} /\ Early' = {} /\ Fills' = {} /\ staged = Absent
        /\ Resumes' = IF page.kept = Absent THEN {} ELSE {page.kept}
        /\ gone' = gone \cup ((Text(core.block) \cup Text(core.heir))
                            \ (Text(disk'.block) \cup Text(disk'.heir)))
    BY Discarded
  <1>2. Visible(buf) \cup Visible(inflight) \cup FillAtoms \subseteq Backed \cup KeptAtoms /\ ResumeAtoms = {}
    BY <1>1 DEF Safe, Recorded, ResumeAtoms
  <1>3. ResumeAtoms' = KeptAtoms
    BY <1>1 DEF ResumeAtoms, KeptAtoms
  <1>4. EarlyAtoms = {} /\ EarlyAtoms' = {}
    BY <1>1 DEF EarlyAtoms
  <1>5. Backed \subseteq Backed'
    BY <1>1, <1>4, NoText2 DEF Backed
  <1>6. Sourced' /\ Recovering' /\ Recorded'
    BY <1>1, NoText2 DEF Sourced, Recovering, Recorded
  <1>7. Live \subseteq Live'
    BY <1>2, <1>3, <1>5 DEF Live
  <1> QED
    BY <1>6, <1>7 DEF Carries, Safe

LEMMA FillsPass ==
    ASSUME NEW ran, NEW e, Flows(ran, e), \A j \in Range(e) : j.kind # "fill"
    PROVE  Fills' \subseteq Fills
  <1>1. \A j \in Range(lane') : j.kind = "fill" => j \in Range(lane)
    BY DEF Flows
  <1> QED
    BY <1>1 DEF Fills, Of

LEMMA ExecutedCarries ==
    ASSUME ControlInv, TextInv, Safe, inflight = Absent, lane # <<>>, lane[1].kind # "save", Heirs = {},
           NEW document \in Docs, NEW own \in BOOLEAN, NEW saved \in BOOLEAN, NEW ok \in BOOLEAN, NEW d,
           Executed(document, own, <<>>, saved, ok, d), buf' = IF ok THEN d.buf ELSE buf,
           staged' = Absent, gone \subseteq gone', document.heir = core.heir,
           Text(core.block) \subseteq gone' \cup Text(document.block),
           Visible(staged) \cup EarlyAtoms \cup ResumeAtoms \subseteq gone' \cup Text(document.block),
           page' = page \/ (page.shown /\ page'.shown)
    PROVE  Carries
  <1>1. PICK e : Follows(e) /\ lane' = Tail(lane) \o e /\ \A j \in Range(e) : j.kind = "recover"
    BY ExecutedLane
  <1>2. Early' = {} /\ Resumes' = {} /\ Flows({lane[1]}, e)
    BY <1>1, AfterTurn
  <1>3. \A j \in Range(e) : j.kind # "fill"
    BY <1>1
  <1>4. Fills = {} /\ FillAtoms = {} /\ Fills' = {}
    BY <1>2, <1>3, NoFills, FillsPass
  <1>5. core' = document /\ inflight' = inflight
    BY DEF Executed, Reached
  <1>6. d = Observed(document.block, own, buf, inflight)
    BY DEF Executed
  <1>7. /\ Visible(buf) \subseteq Visible(d.buf) \cup Source(buf)
        /\ Visible(d.buf) \subseteq Visible(buf) \cup Text(document.block)
        /\ Source(d.buf) \subseteq Source(buf) \cup Text(document.block)
    BY <1>6, ObservedAtoms
  <1>8. /\ Visible(buf) \subseteq Visible(buf') \cup Source(buf)
        /\ Visible(buf') \subseteq Visible(buf) \cup Text(document.block)
        /\ Source(buf') \subseteq Source(buf) \cup Text(document.block)
    BY <1>7
  <1>9. EarlyAtoms' = {} /\ FillAtoms' = {}
    BY <1>2, <1>4 DEF EarlyAtoms, FillAtoms
  <1>10. Backed' = gone' \cup Text(document.block) \cup Text(core.heir)
    BY <1>5, <1>9, NoText2 DEF Backed
  <1>11. Backed \subseteq Backed'
    BY <1>10, NoText2 DEF Backed
  <1>12. Source(buf) \subseteq Backed
    BY NoText2 DEF Safe, Sourced
  <1>13. Visible(buf) \cup Visible(inflight) \cup FillAtoms \cup ResumeAtoms \subseteq Live'
    BY <1>4, <1>8, <1>10, <1>11, <1>12, NoText2 DEF Live
  <1>14. Source(buf') \subseteq Backed' \cup Visible(inflight') /\ Source(inflight') \subseteq Backed'
    BY <1>5, <1>8, <1>10, <1>11, <1>12, NoText2
  <1>15. Visible(buf') \cup Visible(inflight') \cup FillAtoms' \subseteq
                             Backed' \cup Visible(buf) \cup Visible(inflight) \cup FillAtoms
    BY <1>5, <1>8, <1>9, <1>10
  <1> QED
    BY <1>2, <1>4, <1>11, <1>13, <1>14, <1>15, StepCarries

LEMMA applyRemoteCarries ==
    ASSUME ControlInv, TextInv, Safe, ~Races, applyRemote
    PROVE  Carries
  <1>1. /\ lane # <<>> /\ Head1 = lane[1] /\ Head1 \in Jobs /\ Head1.kind \in RemoteKind /\ inflight = Absent
        /\ staged = Absent /\ page' = page
    BY applyRemoteCases
  <1>2. lane[1].kind \notin TextKind \cup {"save"}
    BY <1>1 DEF TextKind, EarlyKind, RemoteKind
  <1>3. CASE /\ lane' = Tail(lane)
             /\ UNCHANGED <<core, disk, seen, stale, buf, inflight, action, unavailable, orphan, compose,
                            view, staged, gone, landed, budget>>
    BY <1>1, <1>2, <1>3, RunBeside, BesideCarries
  <1>4. ASSUME NEW document \in Imported(Head1), NEW saved \in BOOLEAN, NEW ok \in BOOLEAN, NEW d,
               core.block # Absent,
               Executed(document, FALSE, <<>>, saved, ok, d),
               buf' = IF ok THEN d.buf ELSE buf, staged' = Absent,
               gone' = gone \cup (Text(core.block) \ Text(document.block))
        PROVE  Carries
    <2>1. document \in Docs /\ document.heir = core.heir
      BY <1>1, <1>4, ControlParts, ImportedHolds
    <2>2. lane[1].kind # "save" /\ FALSE \in BOOLEAN /\ Heirs = {}
      BY <1>1, <1>2, <1>4, NoHeirs
    <2>3. gone \subseteq gone' /\ Text(core.block) \subseteq gone' \cup Text(document.block)
      BY <1>4
    <2>4. EarlyAtoms = {} /\ ResumeAtoms = {}
      <3>1. Early = {} /\ Resumes = {}
        BY <1>1, <1>2, TurnSets DEF TextKind
      <3> QED
        BY <3>1 DEF EarlyAtoms, ResumeAtoms
    <2>5. Visible(staged) \cup EarlyAtoms \cup ResumeAtoms \subseteq gone' \cup Text(document.block)
      BY <1>1, <2>4, NoText2
    <2> QED
      BY <1>1, <1>4, <2>1, <2>2, <2>3, <2>5, ExecutedCarries
  <1> QED
    BY <1>3, <1>4, applyRemoteCases

LEMMA executeLocalCarries ==
    ASSUME ControlInv, TextInv, Safe, ~Races, executeLocal
    PROVE  Carries
  <1>1. /\ lane # <<>> /\ Head1 = lane[1] /\ Head1.kind = "local" /\ Head1.payload \in {"remove", "undo"}
        /\ inflight = Absent /\ staged = Absent
    BY executeLocalCases
  <1>2. lane[1].kind \notin EarlyKind \cup {"save", "resume"}
    BY <1>1 DEF EarlyKind
  <1>3. CASE JobFails
    BY <1>1, <1>2, <1>3, FailedBeside, BesideCarries
  <1>4. ASSUME LocalDocument \in Docs, LocalDocument.heir = core.heir,
               Head1.payload = "remove" => core.block # Absent,
               Head1.payload = "undo" => core.removed # Absent,
               NEW saved \in BOOLEAN, NEW ok \in BOOLEAN, NEW d,
               Executed(LocalDocument, TRUE, <<>>, saved, ok, d), buf' = IF ok THEN d.buf ELSE buf,
               gone' = gone \cup (Text(core.block) \ Text(LocalDocument.block)),
               UNCHANGED <<staged, page, told>>
        PROVE  Carries
    <2>1. Heirs = {}
      BY <1>1, <1>4, NoHeirs
    <2>2. lane[1].kind # "save" /\ TRUE \in BOOLEAN /\ page' = page /\ staged' = Absent
      BY <1>1, <1>2, <1>4
    <2>3. gone \subseteq gone' /\ Text(core.block) \subseteq gone' \cup Text(LocalDocument.block)
      BY <1>4
    <2>4. EarlyAtoms = {} /\ ResumeAtoms = {}
      <3>1. Early = {} /\ Resumes = {}
        BY <1>1, <1>2, TurnSets
      <3> QED
        BY <3>1 DEF EarlyAtoms, ResumeAtoms
    <2>5. Visible(staged) \cup EarlyAtoms \cup ResumeAtoms \subseteq gone' \cup Text(LocalDocument.block)
      BY <1>1, <2>4, NoText2
    <2> QED
      BY <1>1, <1>4, <2>1, <2>2, <2>3, <2>5, ExecutedCarries
  <1> QED
    BY <1>3, <1>4, executeLocalCases

LEMMA executeSplicesCarries ==
    ASSUME ControlInv, TextInv, Safe, ~Races, executeSplices
    PROVE  Carries
  <1>1. /\ lane # <<>> /\ lane[1].kind \in EarlyKind /\ inflight = Absent
        /\ lane[1].payload \in Buffers /\ core.block # Absent /\ lane[1].payload.source = core.block
        /\ EarlyDocument \in Docs /\ EarlyDocument.block \in Texts /\ EarlyDocument.heir = core.heir
        /\ Range(EarlyDocument.block) = Visible(lane[1].payload)
        /\ staged' = Absent /\ UNCHANGED <<gone, page, told>>
    BY executeSplicesCases
  <1>2. PICK saved \in BOOLEAN : \E d :
                 /\ Executed(EarlyDocument, TRUE, <<>>, saved, TRUE, d)
                 /\ buf' = d.buf /\ unavailable' = d.unavailable
    BY executeSplicesCases
  <1>3. PICK d : Executed(EarlyDocument, TRUE, <<>>, saved, TRUE, d) /\ buf' = d.buf
    BY <1>2
  <1>4. lane[1].kind # "save" /\ lane[1].kind # "resume" /\ gone \subseteq gone'
    BY <1>1 DEF EarlyKind
  <1>5. Early = {lane[1].payload} /\ Resumes = {}
    BY <1>1, <1>4, TurnSets
  <1>6. EarlyAtoms = Text(EarlyDocument.block) /\ ResumeAtoms = {}
    BY <1>1, <1>5, AbsentIsNoData DEF EarlyAtoms, ResumeAtoms, Text
  <1>7. Text(core.block) \subseteq gone' \cup Text(EarlyDocument.block)
    <2>1. Cut(lane[1].payload) \subseteq gone
      BY <1>5 DEF TextInv, DeletedOnly, Lowered
    <2> QED
      BY <1>1, <2>1, BufferHolds, AbsentIsNoData DEF Text
  <1>8. PICK ok \in BOOLEAN : ok = TRUE
    OBVIOUS
  <1>9. Executed(EarlyDocument, ok, <<>>, saved, ok, d) /\ buf' = IF ok THEN d.buf ELSE buf
    BY <1>3, <1>8
  <1>10. Heirs = {}
    BY <1>1, NoHeirs
  <1>11. Visible(staged) \subseteq Visible(lane[1].payload)
    <2>1. CASE staged = Absent
      BY <2>1, NoText2
    <2>2. CASE staged # Absent
      <3>1. 1 \in DOMAIN lane
        BY <1>1, ControlParts, LaneIs
      <3>2. lane[1].payload = staged
        BY <1>4, <2>2, <3>1, ControlParts DEF StagedAlone
      <3> QED
        BY <3>2
    <2> QED
      BY <2>1, <2>2
  <1>12. Visible(staged) \cup EarlyAtoms \cup ResumeAtoms \subseteq gone' \cup Text(EarlyDocument.block)
    BY <1>1, <1>6, <1>11, AbsentIsNoData DEF Text
  <1> QED
    BY <1>1, <1>4, <1>7, <1>9, <1>10, <1>12, ExecutedCarries

LEMMA restoreUnsavedCarries ==
    ASSUME ControlInv, TextInv, Safe, ~Races, restoreUnsaved
    PROVE  Carries
  <1>1. /\ lane # <<>> /\ Head1 = lane[1] /\ lane[1].kind = "resume" /\ lane[1].payload \in Records
        /\ inflight = Absent /\ staged = Absent /\ page'.shown = page.shown /\ UNCHANGED <<staged, gone>>
    BY restoreUnsavedCases
  <1>2. lane[1].kind # "save" /\ page'.shown = page.shown /\ lane[1].kind \notin EarlyKind
    BY <1>1 DEF EarlyKind
  <1>3. Resumes = {lane[1].payload} /\ Early = {} /\ lane[1].payload.content \in Texts
    BY <1>1, <1>2, TurnSets DEF Records
  <1>4. page.shown /\ page'.shown
    BY <1>2, <1>3 DEF Safe, Recorded
  <1>5. EarlyAtoms = {} /\ ResumeAtoms = Range(lane[1].payload.content)
    BY <1>3 DEF EarlyAtoms, ResumeAtoms
  <1>6. ASSUME core.block # Absent, core.block \in lane[1].payload.bases,
               NEW saved \in BOOLEAN, NEW ok \in BOOLEAN, NEW d,
               Executed(RestoredDocument, TRUE, <<>>, saved, ok, d), buf' = IF ok THEN d.buf ELSE buf
        PROVE  Carries
    <2>1. RestoredDocument = [core EXCEPT !.block = lane[1].payload.content]
      BY <1>1 DEF RestoredDocument
    <2>2. /\ RestoredDocument \in Docs /\ RestoredDocument.block = lane[1].payload.content
          /\ RestoredDocument.heir = core.heir
      BY <1>3, <2>1, ControlParts DEF Docs, TypeOK
    <2>3. Text(core.block) \subseteq gone' \cup Text(RestoredDocument.block)
      <3>1. Range(core.block) \ Range(lane[1].payload.content) \subseteq gone
        BY <1>3, <1>6 DEF TextInv, KeptCovers, Kept
      <3> QED
        BY <1>1, <1>3, <1>6, <2>2, <3>1, AbsentIsNoData DEF Text
    <2>4. Visible(staged) \cup EarlyAtoms \cup ResumeAtoms \subseteq gone' \cup Text(RestoredDocument.block)
      BY <1>1, <1>3, <1>5, <2>2, NoText2, AbsentIsNoData DEF Text
    <2>5. TRUE \in BOOLEAN /\ gone \subseteq gone' /\ staged' = Absent /\ Heirs = {}
      BY <1>1, <1>6, NoHeirs
    <2> QED
      BY <1>1, <1>2, <1>4, <1>6, <2>2, <2>3, <2>4, <2>5, ExecutedCarries
  <1>7. CASE /\ lane' = Tail(lane)
             /\ Range(lane[1].payload.content) \subseteq page'.dropped
             /\ UNCHANGED <<core, disk, seen, stale, buf, inflight, action, unavailable, orphan, compose,
                            view, landed, budget>>
    <2>1. Follows(<<>>) /\ lane' = Tail(lane) \o <<>>
      BY <1>1, <1>7, ControlParts, NothingFollows
    <2>2. Early' = {} /\ Resumes' = {} /\ Flows({lane[1]}, <<>>)
      BY <1>1, <1>2, <2>1, AfterTurn
    <2>3. Backed' = Backed /\ EarlyAtoms' = {}
      BY <1>1, <1>5, <1>7, <2>2 DEF Backed, EarlyAtoms
    <2>4. Fills' = Fills
      <3>1. {k \in Range(lane') : k.kind \in {"fill"}} = {k \in Range(lane) : k.kind \in {"fill"}}
        BY <1>1, <2>2, NoText DEF Flows
      <3> QED
        BY <3>1 DEF Fills, Of
    <2>5. FillAtoms' = FillAtoms
      BY <2>4 DEF FillAtoms
    <2>6. Visible(buf) \cup Visible(inflight) \cup FillAtoms \cup ResumeAtoms \subseteq Live' \cup page'.dropped
      BY <1>5, <1>7, <2>3, <2>5 DEF Live
    <2>7. Sourced' /\ Recovering'
      BY <1>7, <2>3, <2>4, <2>5 DEF Safe, Sourced, Recovering
    <2> QED
      BY <1>4, <1>7, <2>2, <2>3, <2>6, <2>7, StepCarries DEF Sourced, Recovering
  <1> QED
    BY <1>6, <1>7, restoreUnsavedCases

LEMMA RecoverySame ==
    ASSUME ControlInv, NEW d, lane' = lane \o Recovery(d)
    PROVE  LaneSame
  <1>1. Recovery(d) \in Seq(Jobs) /\ \A j \in Range(Recovery(d)) : j.kind \notin TextKind
    <2>1. Job("recover", Absent) \in Jobs /\ Job("recover", Absent).kind = "recover"
      BY JobMade, JobIs
    <2>2. Recovery(d) = <<>> \/ Recovery(d) = <<Job("recover", Absent)>>
      BY DEF Recovery
    <2>3. \A j \in Jobs : <<j>> \in Seq(Jobs) /\ Range(<<j>>) = {j}
      BY SingleRange
    <2>4. <<>> \in Seq(Jobs) /\ Range(<<>>) = {}
      BY EmptySeq, NoText
    <2> QED
      BY <2>1, <2>2, <2>3, <2>4 DEF TextKind, EarlyKind
  <1>2. Flows({}, Recovery(d))
    BY <1>1, ControlParts, LaneFlows
  <1> QED
    BY <1>1, <1>2, SameFlow

LEMMA ensureCurrentCarries ==
    ASSUME ControlInv, TextInv, Safe, ~Races, ensureCurrent
    PROVE  Carries
  <1>1. /\ stale /\ lane # <<>> /\ inflight = Absent /\ lane[1].kind # "save" /\ staged = Absent
    BY ensureCurrentCases
  <1>2. ASSUME NEW d, d = Observed(core.block, FALSE, buf, inflight),
               publish(core.block, d), buf' = d.buf, staged' = Absent, lane' = lane \o Recovery(d),
               UNCHANGED <<core, disk, inflight, action, page, told, gone, landed, budget>>
        PROVE  Carries
    <2>1. /\ Visible(buf) \subseteq Visible(buf') \cup Source(buf)
          /\ Visible(buf') \subseteq Visible(buf) \cup Text(core.block)
          /\ Source(buf') \subseteq Source(buf) \cup Text(core.block)
      <3>1. PICK own \in BOOLEAN : own = FALSE
        OBVIOUS
      <3>2. d = Observed(core.block, own, buf, inflight) /\ core \in Docs
        BY <1>2, <3>1, ControlParts DEF TypeOK
      <3> QED
        BY <1>1, <1>2, <3>2, ObservedAtoms
    <2>2. LaneSame
      BY <1>2, RecoverySame
    <2>3. Backed' = Backed /\ FillAtoms' = FillAtoms /\ ResumeAtoms' = ResumeAtoms
      BY <1>1, <1>2, <2>2 DEF Backed, EarlyAtoms, FillAtoms, ResumeAtoms, LaneSame
    <2>4. Source(buf) \subseteq Backed /\ Text(core.block) \subseteq Backed
      BY <1>1, NoText2 DEF Safe, Sourced, Backed
    <2>5. Visible(buf) \cup Visible(inflight) \cup FillAtoms \cup ResumeAtoms \subseteq Live'
      BY <1>2, <2>1, <2>3, <2>4 DEF Live
    <2>6. Fills' # {} => /\ Visible(buf') \subseteq Backed' \cup FillAtoms'
                         /\ FillAtoms' \subseteq Backed' \cup Visible(buf')
      BY <2>1, <2>2, <2>3, <2>4 DEF Safe, Recovering, LaneSame
    <2>7. Source(buf') \subseteq Backed' \cup Visible(inflight') /\ Source(inflight') \subseteq Backed'
      BY <1>1, <1>2, <2>1, <2>3, <2>4, NoText2
    <2>8. Visible(buf') \cup Visible(inflight') \cup FillAtoms' \subseteq
                             Backed' \cup Visible(buf) \cup Visible(inflight) \cup FillAtoms
      BY <1>2, <2>1, <2>3, <2>4
    <2> QED
      BY <1>2, <2>2, <2>3, <2>5, <2>6, <2>7, <2>8, StepCarries DEF LaneSame
  <1>3. CASE lane[1].kind \notin EarlyKind /\ JobFails
    <2>1. lane[1].kind # "resume"
      <3>1. 1 \in DOMAIN lane
        BY <1>1, ControlParts, LaneIs
      <3> QED
        BY <1>1, <3>1, StaleLane DEF Kindly
    <2>2. Beside
      BY <1>1, <1>3, <2>1, FailedBeside
    <2> QED
      BY <2>2, BesideCarries
  <1> QED
    BY <1>2, <1>3, ensureCurrentCases

LEMMA submitPrepareCarries ==
    ASSUME ControlInv, TextInv, Safe, submitPrepare
    PROVE  Carries
  <1>1. /\ lane # <<>> /\ lane[1].kind = "submit" /\ inflight = Absent
        /\ UNCHANGED <<core, disk, seen, stale, orphan, compose, staged, view, page, landed, budget>>
    BY submitPrepareCases
  <1>2. CASE JobFails
    <2>1. Beside
      BY <1>1, <1>2, FailedBeside DEF EarlyKind
    <2> QED
      BY <2>1, BesideCarries
  <1>3. CASE lane' = Tail(lane) /\ UNCHANGED <<buf, inflight, action, unavailable, told, gone>>
    <2>1. lane[1].kind \notin TextKind
      BY <1>1 DEF TextKind, EarlyKind
    <2>2. Beside
      BY <1>1, <1>3, <2>1, RunBeside
    <2> QED
      BY <2>2, BesideCarries
  <1>4. CASE /\ target \in Buffers
             /\ buf = Absent => seen # Absent
             /\ inflight' = target /\ buf' = createContentBuffer(target.visible)
             /\ UNCHANGED <<lane, unavailable, told, gone>>
    <2>1. /\ target \in Buffers /\ buf # Absent => target = buf
          /\ buf = Absent => Source(target) = Range(seen) /\ Visible(target) = Range(seen)
                              /\ seen \in Texts
      BY <1>4, targetText
    <2>2. CASE target \in Buffers
      <3> HIDE DEF target
      <3>1. Source(buf') = Visible(inflight') /\ Visible(buf') = Visible(inflight')
        BY <1>4, <2>2, BufferHolds, SettledAtoms
      <3>2. LaneSame
        BY <1>4, StillFlows
      <3>3. Backed' = Backed /\ FillAtoms' = FillAtoms /\ ResumeAtoms' = ResumeAtoms
        BY <1>1, <1>4, <3>2 DEF Backed, EarlyAtoms, FillAtoms, ResumeAtoms, LaneSame
      <3>4. /\ Source(inflight') \subseteq Backed /\ Visible(buf) \subseteq Visible(inflight')
            /\ Visible(inflight') \subseteq Backed \cup Visible(buf)
        <4>1. CASE buf # Absent
          BY <1>1, <1>4, <2>1, <4>1, NoText2 DEF Safe, Sourced
        <4>2. CASE buf = Absent
          BY <1>4, <2>1, <4>2, NoText2, SeenBacked, AbsentIsNoData DEF Text
        <4> QED
          BY <4>1, <4>2
      <3>5. Visible(buf) \cup Visible(inflight) \cup FillAtoms \cup ResumeAtoms \subseteq Live'
        BY <1>1, <3>3, <3>4, NoText2 DEF Live
      <3>6. Fills' # {} => /\ Visible(buf') \subseteq Backed' \cup FillAtoms'
                           /\ FillAtoms' \subseteq Backed' \cup Visible(buf')
        BY <3>1, <3>2, <3>3, <3>4 DEF Safe, Recovering, LaneSame
      <3>7. Visible(buf') \cup Visible(inflight') \cup FillAtoms' \subseteq
                             Backed' \cup Visible(buf) \cup Visible(inflight) \cup FillAtoms
        BY <3>1, <3>3, <3>4
      <3> QED
        BY <1>1, <3>1, <3>2, <3>3, <3>4, <3>5, <3>6, <3>7, StepCarries DEF LaneSame
    <2> QED
      BY <1>4, <2>2
  <1> QED
    BY <1>2, <1>3, <1>4, submitPrepareCases

\* A submission reaches the document.
LEMMA SubmittedCarries ==
    ASSUME ControlInv, TextInv, Safe, inflight # Absent, Accepted, NEW saved, Reached(Submitted, saved),
           inflight' = Absent, lane' = Tail(lane), UNCHANGED <<staged, page, gone>>,
           Source(buf') \subseteq Visible(inflight),
           Visible(buf) \subseteq Visible(buf') \cup Visible(inflight),
           Visible(buf') \subseteq Visible(buf) \cup Visible(inflight)
    PROVE  Carries
  <1>1. lane # <<>> /\ lane[1].kind = "submit" /\ staged = Absent /\ lane \in Seq(Jobs)
    BY AtWorker, ControlParts
  <1>2. Follows(<<>>) /\ lane' = Tail(lane) \o <<>>
    BY <1>1, NothingFollows
  <1>3. Early' = {} /\ Resumes' = {} /\ Flows({lane[1]}, <<>>)
    BY <1>1, <1>2, AfterTurn
  <1>4. Early = {} /\ Resumes = {}
    BY <1>1, TurnSets DEF EarlyKind
  <1>5. /\ Submitted.block \in Texts /\ Submitted.heir = core.heir /\ core.block # Absent
        /\ inflight \in Buffers /\ inflight.source = core.block /\ Range(Submitted.block) = Range(inflight.visible)
    BY SubmittedHolds
  <1>6. Fills = {} /\ FillAtoms = {} /\ Fills' = {}
    BY <1>3, <1>5, SeenNoFills, FillsPass, NoText
  <1>7. EarlyAtoms = {} /\ EarlyAtoms' = {} /\ ResumeAtoms = {} /\ FillAtoms' = {}
    BY <1>3, <1>4, <1>6 DEF EarlyAtoms, ResumeAtoms, FillAtoms
  <1>8. core' = Submitted /\ Text(core'.block) = Visible(inflight)
    BY <1>5, AbsentIsNoData, BufferHolds DEF Reached, Text
  <1>9. Backed' = gone \cup Visible(inflight) \cup Text(core.heir)
    BY <1>1, <1>5, <1>7, <1>8, NoText2 DEF Backed
  <1>10. Text(core.block) \subseteq Visible(inflight) \cup gone
    BY <1>5, CutGone, BufferHolds, AbsentIsNoData DEF Text, Cut
  <1>11. Backed \subseteq Backed'
    BY <1>1, <1>7, <1>9, <1>10, NoText2 DEF Backed
  <1>12. Visible(buf) \cup Visible(inflight) \cup FillAtoms \cup ResumeAtoms \subseteq Live'
    BY <1>6, <1>7, <1>9 DEF Live
  <1>13. Source(buf') \subseteq Backed' \cup Visible(inflight') /\ Source(inflight') \subseteq Backed'
    BY <1>9, NoText2
  <1>14. Visible(buf') \cup Visible(inflight') \cup FillAtoms' \subseteq
                             Backed' \cup Visible(buf) \cup Visible(inflight) \cup FillAtoms
    BY <1>7, NoText2
  <1> QED
    BY <1>3, <1>6, <1>11, <1>12, <1>13, <1>14, StepCarries

LEMMA submitSavedCarries ==
    ASSUME ControlInv, TextInv, Safe, submitSaved
    PROVE  Carries
  <1>1. PICK saved \in BOOLEAN, r \in Buffers : \E d :
              /\ inflight # Absent /\ Accepted /\ Reached(Submitted, saved)
              /\ r = Continued(buf, Submitted.block)
              /\ buf' = release(r, view.observed, compose.on, action')
              /\ inflight' = Absent /\ lane' = Tail(lane)
              /\ UNCHANGED <<staged, page, told, gone>>
    BY submitSavedCases
  <1>2. /\ Submitted.block \in Texts /\ Range(Submitted.block) = Visible(inflight)
    BY <1>1, SubmittedHolds, BufferHolds
  <1>3. /\ Source(r) = Range(Submitted.block)
        /\ Visible(r) \subseteq Range(Submitted.block) \cup New(buf)
        /\ Visible(buf) \subseteq Visible(r) \cup Visible(inflight)
    BY <1>1, <1>2, ContinuedAtoms
  <1>4. buf' = r \/ (buf' = Absent /\ Visible(r) = Source(r))
    BY <1>1, ReleasedClean
  <1>5. /\ Source(buf') \subseteq Visible(inflight)
        /\ Visible(buf) \subseteq Visible(buf') \cup Visible(inflight)
        /\ Visible(buf') \subseteq Visible(buf) \cup Visible(inflight)
    BY <1>2, <1>3, <1>4, NoText2 DEF New
  <1> QED
    BY <1>1, <1>5, SubmittedCarries

LEMMA submitUnpublishedCarries ==
    ASSUME ControlInv, TextInv, Safe, submitUnpublished
    PROVE  Carries
  <1>1. /\ inflight # Absent /\ Accepted /\ Reached(Submitted, TRUE) /\ inflight' = Absent /\ lane' = Tail(lane)
        /\ UNCHANGED <<seen, staged, page, gone>> /\ buf' = release(buf, view.observed, compose.on, action')
    BY DEF submitUnpublished
  <1>2. buf \in Buffers /\ Source(buf) = Visible(inflight)
    BY <1>1, AtWorker, BufferHolds
  <1>3. buf' = buf \/ (buf' = Absent /\ Visible(buf) = Source(buf))
    BY <1>1, <1>2, ReleasedClean
  <1>4. /\ Source(buf') \subseteq Visible(inflight)
        /\ Visible(buf) \subseteq Visible(buf') \cup Visible(inflight)
        /\ Visible(buf') \subseteq Visible(buf) \cup Visible(inflight)
    BY <1>2, <1>3, NoText2
  <1> QED
    BY <1>1, <1>4, SubmittedCarries

LEMMA submitRefusedCarries ==
    ASSUME ControlInv, TextInv, Safe, submitRefused
    PROVE  Carries
  <1>1. PICK r \in Buffers :
              /\ inflight # Absent
              /\ r.source = inflight.source /\ Range(r.visible) = Range(buf.visible)
              /\ buf' = release(r, view.observed, compose.on, action')
              /\ inflight' = Absent /\ lane' = Tail(lane)
              /\ UNCHANGED <<core, disk, seen, stale, unavailable, compose, staged, view, page, gone, landed>>
    BY submitRefusedCases
  <1>2. /\ inflight \in Buffers /\ buf \in Buffers /\ buf.source = inflight.visible /\ staged = Absent
        /\ lane # <<>> /\ lane[1].kind = "submit" /\ lane \in Seq(Jobs)
    BY <1>1, AtWorker, ControlParts
  <1>3. LaneSame
    BY <1>1, <1>2, RunFlows DEF TextKind, EarlyKind
  <1>4. Backed' = Backed /\ FillAtoms' = FillAtoms /\ ResumeAtoms' = ResumeAtoms
    BY <1>1, <1>3 DEF Backed, EarlyAtoms, FillAtoms, ResumeAtoms, LaneSame
  <1>5. Source(r) = Source(inflight) /\ Visible(r) = Visible(buf) /\ Source(buf) = Visible(inflight)
    BY <1>1, <1>2, BufferHolds
  <1>6. buf' = r \/ (buf' = Absent /\ Visible(r) = Source(r))
    BY <1>1, ReleasedClean
  <1>7. Source(inflight) \subseteq Backed /\ Visible(inflight) \subseteq Backed \cup Visible(buf)
    <2>1. Cut(buf) \subseteq Backed
      BY CutGone DEF Backed
    <2> QED
      BY <1>5, <2>1 DEF Safe, Sourced, Cut
  <1>8. /\ Source(buf') \subseteq Backed /\ Visible(buf') \subseteq Visible(buf)
        /\ Visible(buf) \subseteq Backed \cup Visible(buf')
    BY <1>5, <1>6, <1>7, NoText2
  <1>9. Visible(buf) \cup Visible(inflight) \cup FillAtoms \cup ResumeAtoms \subseteq Live'
    BY <1>4, <1>7, <1>8 DEF Live
  <1>10. Fills' # {} => /\ Visible(buf') \subseteq Backed' \cup FillAtoms'
                        /\ FillAtoms' \subseteq Backed' \cup Visible(buf')
    BY <1>3, <1>4, <1>8 DEF Safe, Recovering, LaneSame
  <1>11. Source(buf') \subseteq Backed' \cup Visible(inflight') /\ Source(inflight') \subseteq Backed'
    BY <1>1, <1>4, <1>8, NoText2
  <1>12. Visible(buf') \cup Visible(inflight') \cup FillAtoms' \subseteq
                             Backed' \cup Visible(buf) \cup Visible(inflight) \cup FillAtoms
    BY <1>1, <1>4, <1>8, NoText2
  <1> QED
    BY <1>1, <1>3, <1>4, <1>9, <1>10, <1>11, <1>12, StepCarries DEF LaneSame

LEMMA HeirAtTurn ==
    ASSUME ControlInv, lane # <<>>, lane[1].kind \in {"recover", "fill"}
    PROVE  /\ core \in Docs /\ core.block = Absent /\ core.removed = Absent /\ seen = Absent /\ staged = Absent
           /\ Text(core.heir) = {} /\ Early = {} /\ Resumes = {} /\ Head1 = lane[1]
           /\ Fills = IF lane[1].kind = "fill" THEN {lane[1].payload} ELSE {}
           /\ \A e : Follows(e) /\ lane' = Tail(lane) \o e => Fills' = {j.payload : j \in {k \in Range(e) : k.kind = "fill"}}
  <1>1. 1 \in DOMAIN lane /\ lane[1] \in Jobs /\ Head1 = lane[1] /\ lane[1].kind # "save" /\ lane[1].kind # "picked"
        /\ lane[1].kind \notin EarlyKind /\ lane \in Seq(Jobs)
    BY ControlParts, LaneIs DEF EarlyKind
  <1>2. core \in Docs /\ core.block = Absent /\ core.removed = Absent /\ seen = Absent /\ staged = Absent
    BY <1>1, HeirTurn, Turn
  <1>3. 1 \in Heirs /\ \A i \in Heirs : i = 1
    <2>1. 1 \in Heirs
      BY <1>1 DEF Heirs, Kindly
    <2> QED
      BY <2>1, ControlParts DEF Succession
  <1>4. Text(core.heir) = {}
    <2>1. core.heir = Absent \/ core.heir = <<>>
      BY <1>3, ControlParts DEF Succession
    <2> QED
      BY <2>1, NoText DEF Text
  <1>5. Early = {} /\ Resumes = {}
    BY <1>1, TurnSets
  <1>6. \A j \in Range(lane) : j.kind = "fill" => j = lane[1]
    BY <1>3 DEF Heirs, Kindly, Range
  <1>7. Fills = IF lane[1].kind = "fill" THEN {lane[1].payload} ELSE {}
    <2>1. lane[1] \in Range(lane)
      BY <1>1 DEF Range
    <2>2. {k \in Range(lane) : k.kind \in {"fill"}} = IF lane[1].kind = "fill" THEN {lane[1]} ELSE {}
      BY <1>6, <2>1
    <2> QED
      BY <2>2 DEF Fills, Of
  <1>8. ASSUME NEW e, Follows(e), lane' = Tail(lane) \o e
        PROVE  Fills' = {j.payload : j \in {k \in Range(e) : k.kind = "fill"}}
    <2>1. \A i \in Heirs' : e # <<>> /\ i = Len(lane) /\ lane'[i] = e[1]
      <3>1. \A i \in Heirs' : i \in DOMAIN lane' /\ (\/ i + 1 \in Heirs /\ i + 1 # 1
                                                     \/ e # <<>> /\ i = Len(lane))
        BY <1>1, <1>8, HeirsPass DEF Heirs, Kindly
      <3>2. e # <<>> => lane'[Len(lane)] = e[1]
        BY <1>1, <1>8, TailLane
      <3> QED
        BY <1>3, <3>1, <3>2
    <2>2. e # <<>> => e[1] \in Range(e)
      <3>1. ASSUME e # <<>> PROVE e[1] \in Range(e)
        <4>1. PICK j \in Jobs : e = <<j>>
          BY <1>8, <3>1 DEF Follows
        <4> QED
          BY <4>1, SingleRange
      <3> QED
        BY <3>1
    <2>3. \A j \in Range(lane') : j.kind = "fill" => j \in Range(e)
      BY <2>1, <2>2 DEF Heirs, Kindly, Range
    <2>4. Range(e) \subseteq Range(lane')
      BY <1>1, <1>8, AfterTurn DEF Flows
    <2>5. {k \in Range(lane') : k.kind \in {"fill"}} = {k \in Range(e) : k.kind = "fill"}
      BY <2>3, <2>4
    <2> QED
      BY <2>5 DEF Fills, Of
  <1> QED
    BY <1>1, <1>2, <1>4, <1>5, <1>7, <1>8

LEMMA HeirCarries ==
    ASSUME ControlInv, Safe, inflight = Absent, lane # <<>>, lane[1].kind \in {"recover", "fill"},
           NEW document, document.block = Absent, NEW e, Follows(e), NEW saved, NEW ok, NEW d,
           HeirExecuted(document, e, saved, ok, d), UNCHANGED <<staged, page, told, gone>>,
           FillAtoms \subseteq Text(document.heir),
           Source(buf') \subseteq Source(buf), Visible(buf') \subseteq Visible(buf),
           Visible(buf) \subseteq Backed \cup Text(document.heir) \cup Visible(buf'),
           Fills' # {} => Visible(buf') \subseteq FillAtoms',
           FillAtoms' \subseteq Visible(buf), FillAtoms' \subseteq Source(buf) \cup Visible(buf')
    PROVE  Carries
  <1>1. core' = document /\ inflight' = inflight /\ lane' = Tail(lane) \o e
    BY DEF HeirExecuted, Reached
  <1>2. lane[1].kind # "save"
    OBVIOUS
  <1>3. Early' = {} /\ Resumes' = {}
    BY <1>1, <1>2, AfterTurn
  <1>4. core.block = Absent /\ staged = Absent /\ Text(core.heir) = {} /\ Early = {} /\ Resumes = {}
    BY HeirAtTurn
  <1>5. EarlyAtoms = {} /\ EarlyAtoms' = {} /\ ResumeAtoms = {}
    BY <1>3, <1>4 DEF EarlyAtoms, ResumeAtoms
  <1>6. Backed' = gone \cup Text(document.heir) /\ Backed = gone
    BY <1>1, <1>4, <1>5, NoText2 DEF Backed
  <1>7. Source(buf) \subseteq Backed
    BY NoText2 DEF Safe, Sourced
  <1>8. Visible(buf) \cup Visible(inflight) \cup FillAtoms \cup ResumeAtoms \subseteq Live'
    BY <1>5, <1>6, NoText2 DEF Live
  <1>9. Source(buf') \subseteq Backed' \cup Visible(inflight') /\ Source(inflight') \subseteq Backed'
    BY <1>1, <1>6, <1>7, NoText2
  <1>10. Fills' # {} => /\ Visible(buf') \subseteq Backed' \cup FillAtoms'
                        /\ FillAtoms' \subseteq Backed' \cup Visible(buf')
    BY <1>6, <1>7
  <1>11. Visible(buf') \cup Visible(inflight') \cup FillAtoms' \subseteq
                             Backed' \cup Visible(buf) \cup Visible(inflight) \cup FillAtoms
    BY <1>1
  <1> QED
    BY <1>3, <1>6, <1>8, <1>9, <1>10, <1>11, StepCarries

LEMMA recoverCarries ==
    ASSUME ControlInv, Safe, recover
    PROVE  Carries
  <1>1. lane # <<>> /\ lane[1].kind = "recover" /\ inflight = Absent /\ UNCHANGED <<staged, page, told, gone>>
    BY recoverCases
  <1>2. CASE /\ buf = Absent /\ lane' = Tail(lane)
             /\ UNCHANGED <<core, disk, seen, stale, buf, inflight, action, unavailable, orphan, compose,
                            view, budget, landed>>
    <2>1. lane[1].kind \notin TextKind
      BY <1>1 DEF TextKind, EarlyKind
    <2> QED
      BY <1>1, <1>2, <2>1, RunBeside, BesideCarries
  <1>3. ASSUME NEW saved \in BOOLEAN, NEW ok \in BOOLEAN, NEW e, NEW d, buf # Absent,
               e = IF ok THEN FillJob ELSE <<>>, HeirExecuted(NewBlock, e, saved, ok, d),
               buf' = IF ~ok THEN buf ELSE IF buf.visible = <<>> THEN Absent ELSE d.buf
        PROVE  Carries
    <2>1. /\ core \in Docs /\ core.block = Absent /\ core.removed = Absent /\ Fills = {}
          /\ Follows(e) /\ lane' = Tail(lane) \o e
               => Fills' = {j.payload : j \in {k \in Range(e) : k.kind = "fill"}}
      BY <1>1, HeirAtTurn
    <2>2. NewBlock.block = Absent /\ NewBlock \in Docs /\ buf \in Buffers /\ buf.visible \in Texts
      BY <1>3, <2>1, NoText, BufferHolds, ControlParts DEF NewBlock, Docs, TypeOK
    <2>3. PICK j : j = Job("fill", buf.visible)
      OBVIOUS
    <2>4. j \in Jobs /\ j.kind = "fill" /\ j.payload = buf.visible
      BY <2>2, <2>3, JobMade, JobIs
    <2>5. e = <<>> \/ (e = <<j>> /\ ok /\ buf.visible # <<>>)
      BY <1>3, <2>3 DEF FillJob
    <2>6. Follows(e) /\ lane' = Tail(lane) \o e
      BY <1>3, <2>4, <2>5 DEF Follows, HeirExecuted
    <2>7. Fills' = {} \/ (ok /\ buf.visible # <<>> /\ Fills' = {buf.visible})
      <3>1. CASE e = <<>>
        BY <2>1, <2>6, <3>1, NoText
      <3>2. CASE e = <<j>> /\ ok /\ buf.visible # <<>>
        <4>1. {k \in Range(e) : k.kind = "fill"} = {j}
          BY <2>4, <3>2, SingleRange
        <4> QED
          BY <2>1, <2>4, <2>6, <3>2, <4>1
      <3> QED
        BY <2>5, <3>1, <3>2
    <2>8. FillAtoms = {} /\ (FillAtoms' = {} \/ FillAtoms' = Visible(buf))
          /\ (Fills' # {} => FillAtoms' = Visible(buf) /\ buf' = d.buf)
      BY <1>3, <2>1, <2>2, <2>7, BufferHolds DEF FillAtoms
    <2>9. /\ Visible(buf) \subseteq Visible(d.buf) \cup Source(buf)
          /\ Visible(d.buf) \subseteq Visible(buf)
          /\ Source(d.buf) \subseteq Source(buf)
      <3>1. PICK own \in BOOLEAN : own = TRUE
        OBVIOUS
      <3>2. d = Observed(NewBlock.block, own, buf, inflight)
        BY <1>3, <3>1 DEF HeirExecuted
      <3> QED
        BY <1>1, <2>2, <3>2, ObservedAtoms, NoText2
    <2>10. Source(buf) \subseteq Backed
      BY <1>1, NoText2 DEF Safe, Sourced
    <2>11. /\ Source(buf') \subseteq Source(buf) /\ Visible(buf') \subseteq Visible(buf)
           /\ Visible(buf) \subseteq Source(buf) \cup Visible(buf')
      <3>1. buf.visible = <<>> => Visible(buf) = {}
        BY <2>2, BufferHolds, NoText
      <3> QED
        BY <1>3, <2>9, <3>1, NoText2
    <2> QED
      BY <1>1, <1>3, <2>2, <2>6, <2>8, <2>9, <2>10, <2>11, HeirCarries
  <1> QED
    BY <1>2, <1>3, recoverCases

LEMMA fillRecoveredCarries ==
    ASSUME ControlInv, Safe, fillRecovered
    PROVE  Carries
  <1>1. /\ lane # <<>> /\ lane[1].kind = "fill" /\ Head1 = lane[1] /\ inflight = Absent
        /\ lane[1].payload \in Texts /\ UNCHANGED <<staged, page, told, gone>>
        /\ FilledBlock.block = core.block /\ FilledBlock.heir = lane[1].payload
    BY fillRecoveredCases
  <1>2. PICK saved, ok \in BOOLEAN : \E d : HeirExecuted(FilledBlock, <<>>, saved, ok, d) /\ buf' = IF ok THEN Absent ELSE buf
    BY fillRecoveredCases
  <1>3. PICK d : HeirExecuted(FilledBlock, <<>>, saved, ok, d)
    BY <1>2
  <1>4. Follows(<<>>) /\ lane' = Tail(lane) \o <<>>
    BY <1>3 DEF Follows, HeirExecuted
  <1>5. core.block = Absent /\ Fills = {lane[1].payload} /\ Fills' = {}
    BY <1>1, <1>4, HeirAtTurn, NoText
  <1>6. FillAtoms = Text(FilledBlock.heir) /\ FillAtoms' = {}
    BY <1>1, <1>5, AbsentIsNoData DEF FillAtoms, Text
  <1>7. Visible(buf) \subseteq Backed \cup FillAtoms
    BY <1>5 DEF Safe, Recovering
  <1>8. /\ Source(buf') \subseteq Source(buf) /\ Visible(buf') \subseteq Visible(buf)
        /\ Visible(buf) \subseteq Backed \cup Text(FilledBlock.heir) \cup Visible(buf')
    BY <1>2, <1>6, <1>7, NoText2
  <1> QED
    BY <1>1, <1>3, <1>4, <1>5, <1>6, <1>8, HeirCarries

LEMMA NextCarries ==
    ASSUME ControlInv, TextInv, Safe, ~Races, Next
    PROVE  Carries
  <1>1. CASE Beside
    BY <1>1, BesideCarries
  <1>2. CASE Surface
    BY <1>1, <1>2, BesideSteps, observeCarries, TypeCarries, EraseCarries, leaveCarries, compositionEndCarries,
       stageDraftSpliceCarries, pickerCarries, runVimWordMotionCarries DEF Surface
  <1>3. CASE flushTimer
    BY <1>1, <1>3, BesideSteps
  <1>4. CASE Lane
    BY <1>1, <1>4, BesideSteps, ensureCurrentCarries, submitPrepareCarries, submitSavedCarries,
       submitUnpublishedCarries, submitRefusedCarries, applyRemoteCarries, executeLocalCarries,
       executeSplicesCarries, recoverCarries, fillRecoveredCarries, restoreUnsavedCarries DEF Lane
  <1>5. CASE World
    BY <1>1, <1>5, BesideSteps, hideCarries, discardCarries DEF World
  <1> QED
    BY <1>2, <1>3, <1>4, <1>5 DEF Next

\* A step that is no typing and no insertion of another replica.
Thrifty == budget'.typed = budget.typed /\ budget'.foreign = budget.foreign

LEMMA SpendThrifty ==
    ASSUME ControlInv, NEW what \in {"deletes", "closes", "faults"}, NEW max, Spend(what, max)
    PROVE  Thrifty
  <1>1. budget' = [budget EXCEPT ![what] = @ + 1]
    BY DEF Spend
  <1> QED
    BY <1>1, ControlParts DEF TypeOK, Thrifty

LEMMA FaultThrifty ==
    ASSUME ControlInv, NEW happens, Fault(happens)
    PROVE  Thrifty
  <1>1. CASE UNCHANGED budget
    BY <1>1 DEF Thrifty
  <1>2. CASE Spend("faults", MaxFaults)
    BY <1>2, SpendThrifty
  <1> QED
    BY <1>1, <1>2 DEF Fault

LEMMA SurfaceThrifty ==
    ASSUME ControlInv, Surface \/ flushTimer
    PROVE  Type \/ Thrifty
  <1>1. CASE Erase \/ runVimWordMotion
    BY <1>1, SpendThrifty DEF Erase, runVimWordMotion
  <1>2. CASE observe \/ closeMenu \/ commitDraftWith \/ leave \/ compositionStart \/ compositionEnd
             \/ stageDraftSplice \/ pickerRun \/ pickerClose \/ flushTimer
    <2>1. budget' = budget
      BY <1>2 DEF observe, closeMenu, commitDraftWith, leave, compositionStart, compositionEnd,
         stageDraftSplice, pickerRun, pickerClose, flushTimer
    <2> QED
      BY <2>1 DEF Thrifty
  <1> QED
    BY <1>1, <1>2 DEF Surface

LEMMA LaneThrifty ==
    ASSUME ControlInv, ~Races, Lane
    PROVE  Thrifty
  <1>1. CASE submitPrepare \/ retryNow
    <2>1. budget' = budget
      BY <1>1 DEF submitPrepare, retryNow
    <2> QED
      BY <2>1 DEF Thrifty
  <1>2. CASE ensureCurrent
    BY <1>2, FaultThrifty DEF ensureCurrent, Thrifty
  <1>3. CASE submitSaved
    BY <1>3, submitSavedCases, FaultThrifty
  <1>4. CASE submitUnpublished \/ refuseJob
    BY <1>4, FaultThrifty DEF submitUnpublished, refuseJob
  <1>5. CASE submitRefused
    BY <1>5, submitRefusedCases DEF Thrifty
  <1>6. CASE applyRemote
    BY <1>6, applyRemoteCases, FaultThrifty DEF Executed, Thrifty
  <1>7. CASE executeLocal
    BY <1>7, executeLocalCases, FaultThrifty DEF Executed, Thrifty
  <1>8. CASE executeSplices
    BY <1>8, executeSplicesCases, FaultThrifty DEF Executed
  <1>9. CASE restoreUnsaved
    BY <1>9, restoreUnsavedCases, FaultThrifty DEF Executed, Thrifty
  <1>10. CASE recover
    BY <1>10, recoverCases, FaultThrifty DEF HeirExecuted, Thrifty
  <1>11. CASE fillRecovered
    BY <1>11, fillRecoveredCases, FaultThrifty DEF HeirExecuted
  <1> QED
    BY <1>1, <1>2, <1>3, <1>4, <1>5, <1>6, <1>7, <1>8, <1>9, <1>10, <1>11 DEF Lane

LEMMA WorldThrifty ==
    ASSUME ControlInv, World
    PROVE  remoteArrives \/ Thrifty
  <1>1. CASE localArrives \/ discard
    BY <1>1, SpendThrifty DEF localArrives, discard
  <1>2. CASE retry \/ hide \/ show
    <2>1. budget' = budget
      BY <1>2 DEF retry, hide, show
    <2> QED
      BY <2>1 DEF Thrifty
  <1> QED
    BY <1>1, <1>2 DEF World

LEMMA ArrivesThrifty ==
    ASSUME ControlInv, remoteArrives
    PROVE  /\ budget'.typed = budget.typed
           /\ \/ /\ budget'.foreign = budget.foreign + 1 /\ budget.foreign < MaxForeign
                 /\ Enqueue(Job("insert", Size + MaxTyped + budget.foreign + 1))
              \/ /\ budget'.foreign = budget.foreign
                 /\ \E kind \in {"delete", "remove"} : Enqueue(Job(kind, Absent))
  <1>1. CASE Spend("foreign", MaxForeign) /\ Enqueue(Job("insert", Size + MaxTyped + budget.foreign + 1))
    <2>1. budget' = [budget EXCEPT !["foreign"] = @ + 1] /\ budget["foreign"] < MaxForeign
      BY <1>1 DEF Spend
    <2> QED
      BY <1>1, <2>1, ControlParts DEF TypeOK
  <1>2. CASE Spend("deletes", MaxDeletes) /\ \E kind \in {"delete", "remove"} : Enqueue(Job(kind, Absent))
    BY <1>2, SpendThrifty DEF Thrifty
  <1> QED
    BY <1>1, <1>2 DEF remoteArrives

LEMMA NextTyped ==
    ASSUME ControlInv, ~Races, Next
    PROVE  Type \/ budget'.typed = budget.typed
  BY SurfaceThrifty, LaneThrifty, WorldThrifty, ArrivesThrifty DEF Next, Thrifty

\* What was not put back is not forgotten again.
LEMMA DroppedStays ==
    ASSUME ControlInv, ~Races, Next
    PROVE  page.dropped \subseteq page'.dropped
  <1>1. page \in [shown : BOOLEAN, kept : Records \cup {Absent}, unsavedKept : BOOLEAN, dropped : SUBSET Nat]
    BY ControlParts DEF TypeOK
  <1>2. CASE Surface \/ flushTimer \/ remoteArrives \/ localArrives \/ retry
    BY <1>2 DEF Surface, flushTimer, remoteArrives, localArrives, retry, observe, Type, Erase, onInput, closeMenu,
       commitDraftWith, leave, compositionStart, compositionEnd, stageDraftSplice, pickerRun, pickerClose,
       runVimWordMotion
  <1>3. CASE hide \/ show \/ discard
    BY <1>1, <1>3 DEF hide, show, discard
  <1>4. CASE restoreUnsaved
    BY <1>4, restoreUnsavedCases
  <1>5. CASE Lane /\ ~restoreUnsaved
    <2>1. page' = page
      BY <1>5 DEF Lane, ensureCurrent, submitPrepare, submitSaved, submitUnpublished, submitRefused, applyRemote,
         executeLocal, executeSplices, recover, fillRecovered, refuseJob, retryNow, JobFails
    <2> QED
      BY <2>1
  <1> QED
    BY <1>2, <1>3, <1>4, <1>5 DEF Next, World

LEMMA InitSafe ==
    ASSUME Init
    PROVE  Safe /\ TypedLive
  <1>1. /\ lane = <<>> /\ buf = Absent /\ inflight = Absent /\ page = NoPage /\ budget.typed = 0
    BY DEF Init
  <1>2. Fills = {} /\ page.shown
    BY <1>1, NoJobsYet DEF NoPage
  <1>3. Safe
    BY <1>1, <1>2, NoText2 DEF Safe, Sourced, Recovering, Recorded
  <1>4. (Size + 1)..(Size + budget.typed) = {}
    BY <1>1, BoundAssumption
  <1> QED
    BY <1>3, <1>4 DEF TypedLive

LEMMA IdleSafe ==
    ASSUME Safe, TypedLive, UNCHANGED vars
    PROVE  Safe' /\ TypedLive'
  <1>1. Beside /\ budget' = budget /\ page' = page
    BY StillFlows DEF vars, Beside, LaneSame
  <1> QED
    BY <1>1, BesideCarries DEF Carries, TypedLive

LEMMA NextSafe ==
    ASSUME ControlInv, TextInv, Safe, TypedLive, ~Races, Next
    PROVE  Safe' /\ TypedLive'
  <1>1. Safe' /\ Live \cup page.dropped \subseteq Live' \cup page'.dropped
    BY NextCarries, DroppedStays DEF Carries
  <1>2. CASE budget'.typed = budget.typed
    BY <1>1, <1>2 DEF TypedLive
  <1>3. CASE Type
    <2>1. budget'.typed = budget.typed + 1 /\ Size + budget.typed + 1 \in Visible(buf')
      BY <1>1, <1>3, TypeCarries
    <2>2. budget.typed \in Nat /\ Size \in Nat
      <3>1. TypeOK
        BY ControlParts
      <3> QED
        BY <3>1, BoundAssumption DEF TypeOK
    <2>a. (Size + 1)..(Size + (budget.typed + 1)) \subseteq (Size + 1)..(Size + budget.typed) \cup {Size + budget.typed + 1}
      BY <2>2
    <2>3. Visible(buf') \subseteq Live'
      BY DEF Live
    <2> QED
      BY <1>1, <2>1, <2>a, <2>3 DEF TypedLive
  <1> QED
    BY <1>1, <1>2, <1>3, NextTyped

LEMMA LiveEverywhere ==
    ASSUME ControlInv
    PROVE  Live \subseteq gone \cup Everywhere
  <1> DEFINE InLane == UNION {Carried(j) : j \in Range(lane)}
  <1>1. Everywhere = Visible(buf) \cup Visible(inflight) \cup Visible(staged) \cup Text(core.block)
                       \cup Text(core.heir) \cup InLane
                       \cup (IF page.kept = Absent THEN {} ELSE Range(page.kept.content))
    BY DEF Everywhere
  <1>2. \A j \in Range(lane) : j \in Jobs /\ Carried(j) \subseteq InLane
    BY ControlParts, LaneIs DEF Range
  <1> HIDE DEF InLane
  <1>3. ASSUME NEW j \in Range(lane), j.kind \in EarlyKind
        PROVE  Visible(j.payload) \subseteq InLane
    <2>1. j.kind # "fill" /\ j.kind # "resume"
      BY <1>3 DEF EarlyKind
    <2> QED
      BY <1>2, <1>3, <2>1 DEF Carried
  <1>4. ASSUME NEW j \in Range(lane), j.kind = "fill"
        PROVE  Range(j.payload) \subseteq InLane
    <2>1. j.kind \notin EarlyKind /\ j.payload # Absent
      BY <1>2, <1>4, JobHolds, AbsentIsNoData DEF EarlyKind
    <2>2. Carried(j) = Range(j.payload)
      BY <1>4, <2>1 DEF Carried, Text
    <2> QED
      BY <1>2, <2>2
  <1>5. ASSUME NEW j \in Range(lane), j.kind = "resume"
        PROVE  Range(j.payload.content) \subseteq InLane
    <2>1. j.payload.content \in Texts
      BY <1>2, <1>5, JobHolds DEF Records
    <2>2. j.kind \notin EarlyKind /\ j.payload.content # Absent
      BY <1>5, <2>1, AbsentIsNoData DEF EarlyKind
    <2>3. Carried(j) = Range(j.payload.content)
      BY <1>5, <2>2 DEF Carried, Text
    <2> QED
      BY <1>2, <2>3
  <1>6. EarlyAtoms \subseteq InLane
    <2>1. \A b \in Early : Visible(b) \subseteq InLane
      BY <1>3 DEF Early, Of
    <2> QED
      BY <2>1 DEF EarlyAtoms
  <1>7. FillAtoms \subseteq InLane
    <2>1. \A p \in Fills : Range(p) \subseteq InLane
      BY <1>4 DEF Fills, Of
    <2> QED
      BY <2>1 DEF FillAtoms
  <1>8. ResumeAtoms \subseteq InLane
    <2>1. \A k \in Resumes : Range(k.content) \subseteq InLane
      BY <1>5 DEF Resumes, Of
    <2> QED
      BY <2>1 DEF ResumeAtoms
  <1> QED
    BY <1>1, <1>6, <1>7, <1>8 DEF Live, Backed

LEMMA SafeHolds == ~Races => (Spec => [](ControlInv /\ TextInv /\ Safe /\ TypedLive))
  <1> SUFFICES ASSUME ~Races PROVE Spec => [](ControlInv /\ TextInv /\ Safe /\ TypedLive)
    OBVIOUS
  <1>1. Init => ControlInv /\ TextInv /\ Safe /\ TypedLive
    BY InitControl, InitText, InitSafe
  <1>2. ControlInv /\ TextInv /\ Safe /\ TypedLive /\ [Next]_vars => (ControlInv /\ TextInv /\ Safe /\ TypedLive)'
    BY NextControl, IdleControl, NextText, IdleText, NextSafe, IdleSafe
  <1> QED
    BY <1>1, <1>2, PTL DEF Spec

\* What the user typed and neither deleted nor was told is lost is in a draft,
\* a submission, the lane, the document or the record of a hidden page: no
\* path of ContentSessions (submit, restoreBuffer, release, recover) and of
\* unsaved.ts drops it.  The one exception, counted apart and not as told, is the
\* text of a record whose block is no longer as its editor knew it: resumeContent
\* passes it over and restoreUnsaved forgets it, without a word.
THEOREM InputIsSafe == ~Races => (Spec => []InputSurvives)
  <1> SUFFICES ASSUME ~Races PROVE Spec => []InputSurvives
    OBVIOUS
  <1>1. ControlInv /\ TypedLive => InputSurvives
    BY LiveEverywhere DEF TypedLive, InputSurvives
  <1> QED
    BY <1>1, SafeHolds, PTL
=============================================================================
