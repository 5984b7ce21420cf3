------------------------- MODULE ScriptFilesProofs -------------------------
(***************************************************************************)
(* What ScriptFiles says of a mount for any names, depths, sizes, scripts  *)
(* and operations: it stays a tree within its budget, an operation changes *)
(* it last, the index of a lone session is true, and an operation that is  *)
(* carried out alone is whole.  The proof goes from paths and sums over    *)
(* the trees they make to what one call does to a tree (Settled), then to  *)
(* what an operation asks for next (PerformGoesOn), the index (Keeps) and  *)
(* the steps; and for the last result from when a call is refused (Turns)  *)
(* to what every operation has learnt and done so far (Knows, TreeAt), and *)
(* what its next answer makes of that (Advances).                          *)
(***************************************************************************)
EXTENDS ScriptFiles, TLAPS, SequenceTheorems, FiniteSetTheorems, WellFoundedInduction

----------------------------------------------------------------------------
(* Paths *)

Paths == Seq(Name)

LEMMA SubSeqFacts ==
  ASSUME NEW s \in Paths, NEW m \in Int, NEW n \in Int, 1 <= m, n <= Len(s), m <= n + 1
  PROVE  /\ SubSeq(s, m, n) \in Paths /\ Len(SubSeq(s, m, n)) = n - m + 1
         /\ \A i \in 1 .. n - m + 1 : SubSeq(s, m, n)[i] = s[m + i - 1]
  BY DEF Paths

LEMMA PrefixFacts ==
  ASSUME NEW s \in Paths, NEW n \in Int, 0 <= n, n <= Len(s)
  PROVE  /\ SubSeq(s, 1, n) \in Paths /\ Len(SubSeq(s, 1, n)) = n
         /\ \A i \in 1 .. n : SubSeq(s, 1, n)[i] = s[i]
  BY DEF Paths

LEMMA ParentFacts ==
  ASSUME NEW p \in Paths, p # Root
  PROVE  /\ Len(p) \in Nat \ {0} /\ Parent(p) \in Paths /\ Len(Parent(p)) = Len(p) - 1
         /\ \A i \in 1 .. Len(p) - 1 : Parent(p)[i] = p[i]
         /\ p[Len(p)] \in Name
<1>1. Len(p) \in Nat \ {0} /\ \A i \in 1 .. Len(p) : p[i] \in Name
  BY EmptySeq, ElementOfSeq DEF Paths, Root
<1>2. Parent(p) = SubSeq(p, 1, Len(p) - 1)
  BY DEF Parent, Front
<1>3. /\ SubSeq(p, 1, Len(p) - 1) \in Paths
      /\ Len(SubSeq(p, 1, Len(p) - 1)) = Len(p) - 1
      /\ \A i \in 1 .. Len(p) - 1 : SubSeq(p, 1, Len(p) - 1)[i] = p[i]
  <2>1. Len(p) - 1 \in Int /\ 0 <= Len(p) - 1 /\ Len(p) - 1 <= Len(p)
    BY <1>1
  <2>2. QED
    BY <2>1, PrefixFacts
<1>4. QED
  BY <1>1, <1>2, <1>3

LEMMA RootPath == Root \in Paths /\ Len(Root) = 0 /\ Parent(Root) = Root
  BY EmptySeq DEF Paths, Root, Parent

LEMMA UnderMeaning ==
  ASSUME NEW p \in Paths, NEW q \in Paths
  PROVE  Under(q, p) <=> Len(p) <= Len(q) /\ \A i \in 1 .. Len(p) : q[i] = p[i]
  BY LenProperties DEF Under, IsPrefix, Paths

LEMMA SamePath ==
  ASSUME NEW p \in Paths, NEW q \in Paths, Len(p) = Len(q), \A i \in 1 .. Len(p) : p[i] = q[i]
  PROVE  p = q
  BY SeqEqual DEF Paths

\* What is under a path is it, or lies in a directory under it.
LEMMA UnderParent ==
  ASSUME NEW p \in Paths, NEW q \in Paths, q # Root
  PROVE  Under(q, p) <=> q = p \/ Under(Parent(q), p)
<1>1. /\ Len(q) \in Nat \ {0} /\ Parent(q) \in Paths /\ Len(Parent(q)) = Len(q) - 1
      /\ \A i \in 1 .. Len(q) - 1 : Parent(q)[i] = q[i]
  BY ParentFacts
<1>2. Len(p) \in Nat
  BY LenProperties DEF Paths
<1>3. ASSUME Under(q, p), q # p
      PROVE  Under(Parent(q), p)
  <2>1. Len(p) <= Len(q) /\ \A i \in 1 .. Len(p) : q[i] = p[i]
    BY <1>3, UnderMeaning
  <2>2. Len(p) # Len(q)
    BY <2>1, <1>3, SamePath
  <2>3. Len(p) <= Len(q) - 1
    BY <1>1, <1>2, <2>1, <2>2
  <2>4. \A i \in 1 .. Len(p) : i \in 1 .. Len(q) - 1
    BY <1>1, <1>2, <2>3
  <2>5. \A i \in 1 .. Len(p) : Parent(q)[i] = p[i]
    BY <1>1, <2>1, <2>4
  <2>6. QED
    BY <1>1, <2>3, <2>5, UnderMeaning
<1>4. ASSUME Under(Parent(q), p)
      PROVE  Under(q, p)
  <2>1. Len(p) <= Len(q) - 1 /\ \A i \in 1 .. Len(p) : Parent(q)[i] = p[i]
    BY <1>1, <1>4, UnderMeaning
  <2>2. \A i \in 1 .. Len(p) : i \in 1 .. Len(q) - 1
    BY <1>1, <1>2, <2>1
  <2>3. Len(p) <= Len(q) /\ \A i \in 1 .. Len(p) : q[i] = p[i]
    BY <1>1, <1>2, <2>1, <2>2
  <2>4. QED
    BY <2>3, UnderMeaning
<1>5. Under(p, p)
  BY <1>2, UnderMeaning
<1>6. QED
  BY <1>3, <1>4, <1>5

LEMMA UnderOrder ==
  ASSUME NEW p \in Paths, NEW q \in Paths, NEW r \in Paths
  PROVE  /\ Under(p, p) /\ Under(p, Root) /\ (Under(Root, p) => p = Root)
         /\ Under(q, p) /\ Under(p, q) => p = q
         /\ Under(r, q) /\ Under(q, p) => Under(r, p)
         /\ Under(r, q) /\ Under(r, p) => Under(q, p) \/ Under(p, q)
<1>1. Len(p) \in Nat /\ Len(q) \in Nat /\ Len(r) \in Nat
  BY LenProperties DEF Paths
<1>2. Under(p, p) /\ Under(p, Root)
  BY <1>1, UnderMeaning, RootPath
<1>3. Under(Root, p) => p = Root
  <2>1. Under(Root, p) => Len(p) = 0
    BY <1>1, UnderMeaning, RootPath
  <2>2. QED
    BY <2>1, EmptySeq DEF Paths, Root
<1>4. Under(q, p) /\ Under(p, q) => p = q
  BY <1>1, UnderMeaning, SamePath
<1>5. Under(r, q) /\ Under(q, p) => Under(r, p)
  BY <1>1, UnderMeaning
<1>6. Under(r, q) /\ Under(r, p) => Under(q, p) \/ Under(p, q)
  <2>1. SUFFICES ASSUME Under(r, q), Under(r, p)
                 PROVE  Under(q, p) \/ Under(p, q)
    OBVIOUS
  <2>2. (\A i \in 1 .. Len(q) : r[i] = q[i]) /\ (\A i \in 1 .. Len(p) : r[i] = p[i])
    BY <2>1, UnderMeaning
  <2>3. CASE Len(p) <= Len(q)
    <3>1. \A i \in 1 .. Len(p) : i \in 1 .. Len(q)
      BY <1>1, <2>3
    <3>2. QED
      BY <2>2, <2>3, <3>1, UnderMeaning
  <2>4. CASE Len(q) <= Len(p)
    <3>1. \A i \in 1 .. Len(q) : i \in 1 .. Len(p)
      BY <1>1, <2>4
    <3>2. QED
      BY <2>2, <2>4, <3>1, UnderMeaning
  <2>5. QED
    BY <1>1, <2>3, <2>4
<1>7. QED
  BY <1>2, <1>3, <1>4, <1>5, <1>6

\* The directories above a path, and it, are what it is under.
LEMMA UpwardsMeaning ==
  ASSUME NEW p \in Paths
  PROVE  /\ Upwards(p) \subseteq Paths \ {Root}
         /\ \A q \in Paths : q \in Upwards(p) <=> q # Root /\ Under(p, q)
<1>1. Len(p) \in Nat
  BY LenProperties DEF Paths
<1>2. ASSUME NEW i \in 1 .. Len(p)
      PROVE  /\ SubSeq(p, 1, i) \in Paths \ {Root} /\ Under(p, SubSeq(p, 1, i))
  <2>1. i \in Int /\ 0 <= i /\ i <= Len(p) /\ i # 0
    BY <1>1
  <2>2. /\ SubSeq(p, 1, i) \in Paths /\ Len(SubSeq(p, 1, i)) = i
        /\ \A j \in 1 .. i : SubSeq(p, 1, i)[j] = p[j]
    BY <2>1, PrefixFacts
  <2>3. QED
    BY <2>1, <2>2, UnderMeaning, RootPath
<1>3. ASSUME NEW q \in Paths, q # Root, Under(p, q)
      PROVE  q \in Upwards(p)
  <2>1. Len(q) \in Nat \ {0} /\ Len(q) <= Len(p) /\ \A i \in 1 .. Len(q) : p[i] = q[i]
    BY <1>3, ParentFacts, UnderMeaning
  <2>2. /\ SubSeq(p, 1, Len(q)) \in Paths /\ Len(SubSeq(p, 1, Len(q))) = Len(q)
        /\ \A j \in 1 .. Len(q) : SubSeq(p, 1, Len(q))[j] = p[j]
    BY <2>1, PrefixFacts
  <2>3. SubSeq(p, 1, Len(q)) = q
    BY <2>1, <2>2, SamePath
  <2>4. Len(q) \in 1 .. Len(p)
    BY <1>1, <2>1
  <2>5. QED
    BY <2>3, <2>4 DEF Upwards
<1>4. QED
  BY <1>2, <1>3 DEF Upwards

LEMMA ChildFacts ==
  ASSUME NEW p \in Paths, NEW name \in Name
  PROVE  /\ Append(p, name) \in Paths \ {Root} /\ Len(Append(p, name)) = Len(p) + 1
         /\ Parent(Append(p, name)) = p /\ Last(Append(p, name)) = name
<1>1. /\ Append(p, name) \in Paths /\ Append(p, name) # Root
      /\ Len(Append(p, name)) = Len(p) + 1 /\ Len(p) \in Nat
      /\ \A i \in 1 .. Len(p) : Append(p, name)[i] = p[i]
      /\ Append(p, name)[Len(p) + 1] = name
  BY AppendProperties, LenProperties DEF Paths, Root
<1>2. /\ Parent(Append(p, name)) \in Paths /\ Len(Parent(Append(p, name))) = Len(p)
      /\ \A i \in 1 .. Len(p) : Parent(Append(p, name))[i] = Append(p, name)[i]
  <2> DEFINE c == Append(p, name)
  <2>1. c \in Paths /\ c # Root /\ Len(c) - 1 = Len(p)
    BY <1>1
  <2> HIDE DEF c
  <2>2. Parent(c) \in Paths /\ Len(Parent(c)) = Len(p) /\ \A i \in 1 .. Len(p) : Parent(c)[i] = c[i]
    BY <2>1, ParentFacts
  <2>3. QED
    BY <2>2 DEF c
<1>3. Parent(Append(p, name)) = p
  BY <1>1, <1>2, SamePath
<1>4. QED
  BY <1>1, <1>3 DEF Last

LEMMA AsChild ==
  ASSUME NEW p \in Paths, p # Root
  PROVE  Last(p) \in Name /\ p = Append(Parent(p), Last(p))
<1>1. /\ Len(p) \in Nat \ {0} /\ Parent(p) \in Paths /\ Len(Parent(p)) = Len(p) - 1
      /\ \A i \in 1 .. Len(p) - 1 : Parent(p)[i] = p[i]
      /\ p[Len(p)] \in Name
  BY ParentFacts
<1>2. /\ Append(Parent(p), Last(p)) \in Paths /\ Len(Append(Parent(p), Last(p))) = Len(p)
      /\ \A i \in 1 .. Len(p) - 1 : Append(Parent(p), Last(p))[i] = p[i]
      /\ Append(Parent(p), Last(p))[Len(p)] = p[Len(p)]
  BY <1>1, AppendProperties DEF Last, Paths
<1>3. \A i \in 1 .. Len(p) : i \in 1 .. Len(p) - 1 \/ i = Len(p)
  BY <1>1
<1>4. QED
  BY <1>1, <1>2, <1>3, SamePath DEF Last

\* A path that is moved with the directory it is under, and moved back.
LEMMA RebasedMeaning ==
  ASSUME NEW p \in Paths, NEW q \in Paths, NEW target \in Paths, Under(q, p)
  PROVE  LET r == Rebased(q, p, target) IN
         /\ r \in Paths /\ Len(r) = Len(target) + (Len(q) - Len(p))
         /\ \A i \in 1 .. Len(target) : r[i] = target[i]
         /\ \A i \in 1 .. Len(q) - Len(p) : r[Len(target) + i] = q[Len(p) + i]
<1> DEFINE rest == SubSeq(q, Len(p) + 1, Len(q))
           r == Rebased(q, p, target)
<1>1. Len(p) \in Nat /\ Len(q) \in Nat /\ Len(target) \in Nat /\ Len(p) <= Len(q)
  BY LenProperties, UnderMeaning DEF Paths
<1>2. /\ rest \in Paths /\ Len(rest) = Len(q) - (Len(p) + 1) + 1
      /\ \A i \in 1 .. Len(q) - (Len(p) + 1) + 1 : rest[i] = q[(Len(p) + 1) + i - 1]
  <2>1. Len(p) + 1 \in Int /\ 1 <= Len(p) + 1 /\ Len(q) \in Int /\ Len(q) <= Len(q)
        /\ Len(p) + 1 <= Len(q) + 1
    BY <1>1
  <2>2. QED
    BY <2>1, SubSeqFacts
<1>3. /\ Len(rest) = Len(q) - Len(p)
      /\ \A i \in 1 .. Len(q) - Len(p) : rest[i] = q[Len(p) + i]
  BY <1>1, <1>2
<1> HIDE DEF rest
<1>4. r = target \o rest
  BY DEF Rebased, rest
<1>5. /\ target \o rest \in Paths /\ Len(target \o rest) = Len(target) + Len(rest)
      /\ \A i \in 1 .. Len(target) + Len(rest) :
           (target \o rest)[i] = IF i <= Len(target) THEN target[i] ELSE rest[i - Len(target)]
  BY <1>2, ConcatProperties DEF Paths
<1>6. \A i \in 1 .. Len(target) : (target \o rest)[i] = target[i]
  BY <1>1, <1>3, <1>5
<1>7. ASSUME NEW i \in 1 .. Len(q) - Len(p)
      PROVE  (target \o rest)[Len(target) + i] = q[Len(p) + i]
  <2>1. /\ Len(target) + i \in 1 .. Len(target) + Len(rest) /\ ~(Len(target) + i <= Len(target))
        /\ Len(target) + i - Len(target) = i
    BY <1>1, <1>3
  <2>2. (target \o rest)[Len(target) + i] = rest[i]
    BY <2>1, <1>5
  <2>3. QED
    BY <2>2, <1>3
<1>8. QED
  BY <1>3, <1>4, <1>5, <1>6, <1>7

LEMMA RebasedFacts ==
  ASSUME NEW p \in Paths, NEW q \in Paths, NEW target \in Paths, Under(q, p)
  PROVE  /\ Rebased(q, p, target) \in Paths /\ Under(Rebased(q, p, target), target)
         /\ Rebased(Rebased(q, p, target), target, p) = q
         /\ Rebased(p, p, target) = target
         /\ q # p => /\ q # Root /\ Rebased(q, p, target) \notin {Root, target}
                     /\ Under(Parent(q), p)
                     /\ Parent(Rebased(q, p, target)) = Rebased(Parent(q), p, target)
<1> DEFINE r == Rebased(q, p, target)
<1>1. /\ Len(p) \in Nat /\ Len(q) \in Nat /\ Len(target) \in Nat /\ Len(p) <= Len(q)
      /\ \A i \in 1 .. Len(p) : q[i] = p[i]
  BY LenProperties, UnderMeaning DEF Paths
<1>2. /\ r \in Paths /\ Len(r) = Len(target) + (Len(q) - Len(p))
      /\ \A i \in 1 .. Len(target) : r[i] = target[i]
      /\ \A i \in 1 .. Len(q) - Len(p) : r[Len(target) + i] = q[Len(p) + i]
  BY RebasedMeaning
<1> HIDE DEF r
<1>3. Under(r, target)
  BY <1>1, <1>2, UnderMeaning
<1>4. Rebased(r, target, p) = q
  <2> DEFINE b == Rebased(r, target, p)
  <2>1. /\ b \in Paths /\ Len(b) = Len(p) + (Len(r) - Len(target))
        /\ \A i \in 1 .. Len(p) : b[i] = p[i]
        /\ \A i \in 1 .. Len(r) - Len(target) : b[Len(p) + i] = r[Len(target) + i]
    BY <1>2, <1>3, RebasedMeaning
  <2> HIDE DEF b
  <2>2. Len(b) = Len(q) /\ Len(r) - Len(target) = Len(q) - Len(p)
    BY <1>1, <1>2, <2>1
  <2>3. ASSUME NEW i \in 1 .. Len(q)
        PROVE  b[i] = q[i]
    <3>1. CASE i \in 1 .. Len(p)
      BY <3>1, <1>1, <2>1
    <3>2. CASE i \notin 1 .. Len(p)
      <4>1. PICK j \in 1 .. Len(q) - Len(p) : i = Len(p) + j
        <5>1. i - Len(p) \in 1 .. Len(q) - Len(p) /\ i = Len(p) + (i - Len(p))
          BY <3>2, <1>1
        <5>2. QED
          BY <5>1
      <4>2. QED
        BY <4>1, <1>2, <2>1, <2>2
    <3>3. QED
      BY <3>1, <3>2
  <2>4. b = q
    BY <2>1, <2>2, <2>3, SamePath
  <2>5. QED
    BY <2>4 DEF b
<1>5. Rebased(p, p, target) = target
  <2>1. Under(p, p)
    BY UnderOrder
  <2>2. /\ Rebased(p, p, target) \in Paths /\ Len(Rebased(p, p, target)) = Len(target) + (Len(p) - Len(p))
        /\ \A i \in 1 .. Len(target) : Rebased(p, p, target)[i] = target[i]
    BY <2>1, RebasedMeaning
  <2>3. Len(Rebased(p, p, target)) = Len(target)
    BY <1>1, <2>2
  <2>4. QED
    BY <2>2, <2>3, SamePath
<1>6. ASSUME q # p
      PROVE  /\ q # Root /\ r \notin {Root, target} /\ Under(Parent(q), p)
             /\ Parent(r) = Rebased(Parent(q), p, target)
  <2>1. q # Root
    BY <1>6, UnderOrder
  <2>2. Under(Parent(q), p) /\ Parent(q) \in Paths
    BY <2>1, <1>6, UnderParent, ParentFacts
  <2>3. Len(p) # Len(q)
    BY <1>1, <1>6, SamePath
  <2>4. Len(r) > Len(target) /\ Len(r) > 0
    BY <1>1, <1>2, <2>3
  <2>5. r \notin {Root, target}
    BY <1>1, <2>4, RootPath
  <2>6. /\ Parent(r) \in Paths /\ Len(Parent(r)) = Len(r) - 1
        /\ \A i \in 1 .. Len(r) - 1 : Parent(r)[i] = r[i]
    BY <1>2, <2>5, ParentFacts
  <2>7. /\ Len(Parent(q)) = Len(q) - 1
        /\ \A i \in 1 .. Len(q) - 1 : Parent(q)[i] = q[i]
    BY <2>1, ParentFacts
  <2> DEFINE m == Rebased(Parent(q), p, target)
  <2>8. /\ m \in Paths /\ Len(m) = Len(target) + (Len(Parent(q)) - Len(p))
        /\ \A i \in 1 .. Len(target) : m[i] = target[i]
        /\ \A i \in 1 .. Len(Parent(q)) - Len(p) : m[Len(target) + i] = Parent(q)[Len(p) + i]
    BY <2>2, RebasedMeaning
  <2> HIDE DEF m
  <2>9. Len(m) = Len(r) - 1 /\ Len(Parent(q)) - Len(p) = Len(q) - 1 - Len(p)
    BY <1>1, <1>2, <2>7, <2>8
  <2>10. ASSUME NEW i \in 1 .. Len(r) - 1
         PROVE  m[i] = r[i]
    <3>1. CASE i \in 1 .. Len(target)
      BY <3>1, <1>2, <2>8
    <3>2. CASE i \notin 1 .. Len(target)
      <4>1. PICK j \in 1 .. Len(q) - 1 - Len(p) : i = Len(target) + j
        <5>1. i - Len(target) \in 1 .. Len(q) - 1 - Len(p) /\ i = Len(target) + (i - Len(target))
          BY <3>2, <1>1, <1>2
        <5>2. QED
          BY <5>1
      <4>2. /\ j \in 1 .. Len(q) - Len(p) /\ j \in 1 .. Len(Parent(q)) - Len(p)
            /\ Len(p) + j \in 1 .. Len(q) - 1
        BY <4>1, <1>1, <2>9
      <4>3. r[i] = q[Len(p) + j] /\ m[i] = Parent(q)[Len(p) + j]
        BY <4>1, <4>2, <1>2, <2>8
      <4>4. QED
        BY <4>2, <4>3, <2>7
    <3>3. QED
      BY <3>1, <3>2
  <2>11. m = Parent(r)
    BY <2>6, <2>8, <2>9, <2>10, SamePath
  <2>12. QED
    BY <2>1, <2>2, <2>5, <2>11 DEF m
<1>7. QED
  BY <1>2, <1>3, <1>4, <1>5, <1>6 DEF r

----------------------------------------------------------------------------
(* Sums *)

\* Induction over the numbers, as a statement about a set of them.
LEMMA NumberInduction ==
  ASSUME NEW S, 0 \in S, \A n \in Nat : n \in S => n + 1 \in S
  PROVE  Nat \subseteq S
<1> DEFINE T == Nat \ S
<1> SUFFICES ASSUME T # {} PROVE FALSE
  OBVIOUS
<1>1. PICK x \in T : \A y \in T : ~(<<y, x>> \in OpToRel(<, Nat))
  BY NatLessThanWellFounded, WFMin, T \subseteq Nat
<1>2. \A y \in T : ~(y < x)
  BY <1>1 DEF OpToRel
<1>3. x - 1 \in Nat /\ x = (x - 1) + 1
  OBVIOUS
<1>4. x - 1 \notin T
  BY <1>2, <1>3
<1>5. QED
  BY <1>3, <1>4

Some(s) == CHOOSE x \in s : TRUE

LEMMA SomeIn == ASSUME NEW s, s # {} PROVE Some(s) \in s
  BY Zenon DEF Some

\* g gives of every member of sets the sum of f over it.
Sums(g, f, sets) ==
  g = [s \in sets |-> IF s = {} THEN 0 ELSE f[Some(s)] + g[s \ {Some(s)}]]

UpTo(S, n) == {s \in SUBSET S : Cardinality(s) <= n}

LEMMA Smaller ==
  ASSUME NEW S, IsFiniteSet(S), NEW s \in SUBSET S, NEW x \in s
  PROVE  /\ IsFiniteSet(s) /\ Cardinality(s) \in Nat \ {0}
         /\ s \ {x} \in SUBSET S /\ IsFiniteSet(s \ {x})
         /\ Cardinality(s \ {x}) = Cardinality(s) - 1
<1>1. IsFiniteSet(s) /\ Cardinality(s) \in Nat
  BY FS_Subset, FS_CardinalityType
<1>2. Cardinality(s) # 0
  BY <1>1, FS_EmptySet
<1>3. IsFiniteSet(s \ {x}) /\ Cardinality(s \ {x}) = Cardinality(s) - 1
  BY <1>1, FS_RemoveElement
<1>4. QED
  BY <1>1, <1>2, <1>3

LEMMA EmptyIsSmallest ==
  ASSUME NEW S, IsFiniteSet(S), NEW s \in SUBSET S, Cardinality(s) <= 0
  PROVE  s = {}
<1>1. IsFiniteSet(s) /\ Cardinality(s) \in Nat
  BY FS_Subset, FS_CardinalityType
<1>2. Cardinality(s) = 0
  BY <1>1
<1>3. QED
  BY <1>1, <1>2, FS_EmptySet

LEMMA SumsExist ==
  ASSUME NEW f, NEW S, IsFiniteSet(S)
  PROVE  \E g : Sums(g, f, SUBSET S)
<1> DEFINE N == {n \in Nat : \E g : Sums(g, f, UpTo(S, n))}
<1>1. 0 \in N
  <2> DEFINE g == [s \in UpTo(S, 0) |-> 0]
  <2>1. \A s \in UpTo(S, 0) : s = {}
    BY EmptyIsSmallest DEF UpTo
  <2>2. Sums(g, f, UpTo(S, 0))
    BY <2>1 DEF Sums
  <2>3. QED
    BY <2>2
<1>2. ASSUME NEW n \in Nat, n \in N
      PROVE  n + 1 \in N
  <2>1. PICK g : Sums(g, f, UpTo(S, n))
    BY <1>2
  <2> DEFINE h == [s \in UpTo(S, n + 1) |-> IF s = {} THEN 0 ELSE f[Some(s)] + g[s \ {Some(s)}]]
  <2>2. ASSUME NEW s \in UpTo(S, n)
        PROVE  s \in UpTo(S, n + 1) /\ h[s] = g[s]
    <3>1. s \in UpTo(S, n + 1)
      <4>1. s \in SUBSET S /\ Cardinality(s) <= n /\ Cardinality(s) \in Nat
        BY FS_Subset, FS_CardinalityType DEF UpTo
      <4>2. QED
        BY <4>1 DEF UpTo
    <3>2. h[s] = IF s = {} THEN 0 ELSE f[Some(s)] + g[s \ {Some(s)}]
      BY <3>1
    <3>3. g[s] = IF s = {} THEN 0 ELSE f[Some(s)] + g[s \ {Some(s)}]
      BY <2>1, Zenon DEF Sums
    <3>4. QED
      BY <3>1, <3>2, <3>3
  <2>3. ASSUME NEW s \in UpTo(S, n + 1), s # {}
        PROVE  s \ {Some(s)} \in UpTo(S, n)
    <3>1. s \in SUBSET S /\ Cardinality(s) <= n + 1 /\ Some(s) \in s
      BY <2>3, SomeIn DEF UpTo
    <3>2. /\ Cardinality(s) \in Nat \ {0} /\ s \ {Some(s)} \in SUBSET S
          /\ Cardinality(s \ {Some(s)}) = Cardinality(s) - 1
      BY <3>1, Smaller
    <3>3. Cardinality(s \ {Some(s)}) <= n
      BY <3>1, <3>2
    <3>4. QED
      BY <3>2, <3>3 DEF UpTo
  <2>4. \A s \in UpTo(S, n + 1) : s # {} => h[s \ {Some(s)}] = g[s \ {Some(s)}]
    BY <2>2, <2>3
  <2>5. Sums(h, f, UpTo(S, n + 1))
    BY <2>4, Zenon DEF Sums
  <2>6. QED
    BY <2>5
<1>3. Cardinality(S) \in N
  <2> HIDE DEF N
  <2>1. Nat \subseteq N
    BY <1>1, <1>2, NumberInduction
  <2>2. QED
    BY <2>1, FS_CardinalityType
<1>4. UpTo(S, Cardinality(S)) = SUBSET S
  BY FS_Subset DEF UpTo
<1>5. QED
  BY <1>3, <1>4

\* Sums over the same values are the same.
LEMMA SumsUnique ==
  ASSUME NEW S, IsFiniteSet(S), NEW T, T \subseteq S, NEW f, NEW e, \A x \in T : f[x] = e[x],
         NEW g, NEW h, Sums(g, f, SUBSET S), Sums(h, e, SUBSET T)
  PROVE  g[T] = h[T]
<1>0. IsFiniteSet(T)
  BY FS_Subset
<1> DEFINE N == {n \in Nat : \A s \in SUBSET T : Cardinality(s) <= n => g[s] = h[s]}
<1>1. \A s \in SUBSET T : g[s] = IF s = {} THEN 0 ELSE f[Some(s)] + g[s \ {Some(s)}]
  <2>1. SUBSET T \subseteq SUBSET S
    OBVIOUS
  <2>2. QED
    BY <2>1, Zenon DEF Sums
<1>2. \A s \in SUBSET T : h[s] = IF s = {} THEN 0 ELSE e[Some(s)] + h[s \ {Some(s)}]
  BY Zenon DEF Sums
<1>3. 0 \in N
  <2>1. \A s \in SUBSET T : Cardinality(s) <= 0 => s = {}
    BY <1>0, EmptyIsSmallest
  <2>2. g[{}] = 0 /\ h[{}] = 0
    BY <1>1, <1>2
  <2>3. QED
    BY <2>1, <2>2
<1>4. ASSUME NEW n \in Nat, n \in N
      PROVE  n + 1 \in N
  <2>1. ASSUME NEW s \in SUBSET T, Cardinality(s) <= n + 1, s # {}
        PROVE  g[s] = h[s]
    <3>1. Some(s) \in s
      BY <2>1, SomeIn
    <3>2. s \ {Some(s)} \in SUBSET T /\ Cardinality(s \ {Some(s)}) <= n
      <4>1. /\ Cardinality(s) \in Nat \ {0} /\ s \ {Some(s)} \in SUBSET T
            /\ Cardinality(s \ {Some(s)}) = Cardinality(s) - 1
        BY <1>0, <3>1, Smaller
      <4>2. QED
        BY <2>1, <4>1
    <3>3. g[s \ {Some(s)}] = h[s \ {Some(s)}]
      BY <1>4, <3>2
    <3>4. f[Some(s)] = e[Some(s)]
      BY <3>1
    <3>5. QED
      BY <1>1, <1>2, <2>1, <3>3, <3>4
  <2>2. g[{}] = 0 /\ h[{}] = 0
    BY <1>1, <1>2
  <2>3. \A s \in SUBSET T : Cardinality(s) <= n + 1 => g[s] = h[s]
    BY <2>1, <2>2
  <2>4. QED
    BY <2>3
<1>5. Nat \subseteq N
  <2> HIDE DEF N
  <2>1. QED
    BY <1>3, <1>4, NumberInduction
<1>6. \A s \in SUBSET T : Cardinality(s) \in N
  BY <1>5, FS_Subset, FS_CardinalityType
<1>7. QED
  BY <1>6

LEMMA SumIsSums ==
  ASSUME NEW f, NEW S, IsFiniteSet(S)
  PROVE  \E g : Sums(g, f, SUBSET S) /\ SumFunctionOnSet(f, S) = g[S]
<1> DEFINE g == CHOOSE g : Sums(g, f, SUBSET S)
<1>1. Sums(g, f, SUBSET S)
  BY SumsExist, Zenon
<1>2. SumFunctionOnSet(f, S) = g[S]
  BY DEF SumFunctionOnSet, FoldFunctionOnSet, MapThenFoldSet, Sums, Some
<1>3. QED
  BY <1>1, <1>2

\* Sums depend on the values only, and a sum over a set is one over the rest and a value.
LEMMA SumOfSame ==
  ASSUME NEW S, IsFiniteSet(S), NEW f, NEW e, \A x \in S : f[x] = e[x]
  PROVE  SumFunctionOnSet(f, S) = SumFunctionOnSet(e, S)
<1>1. PICK g : Sums(g, f, SUBSET S) /\ SumFunctionOnSet(f, S) = g[S]
  BY SumIsSums
<1>2. PICK h : Sums(h, e, SUBSET S) /\ SumFunctionOnSet(e, S) = h[S]
  BY SumIsSums
<1>3. QED
  BY <1>1, <1>2, SumsUnique

LEMMA SumOfNone == ASSUME NEW f PROVE SumFunctionOnSet(f, {}) = 0
<1>1. PICK g : Sums(g, f, SUBSET {}) /\ SumFunctionOnSet(f, {}) = g[{}]
  BY SumIsSums, FS_EmptySet
<1>2. g[{}] = 0
  BY <1>1 DEF Sums
<1>3. QED
  BY <1>1, <1>2

LEMMA SumStep ==
  ASSUME NEW S, IsFiniteSet(S), NEW f, S # {}
  PROVE  SumFunctionOnSet(f, S) = f[Some(S)] + SumFunctionOnSet(f, S \ {Some(S)})
<1> DEFINE T == S \ {Some(S)}
<1>1. PICK g : Sums(g, f, SUBSET S) /\ SumFunctionOnSet(f, S) = g[S]
  BY SumIsSums
<1>2. T \in SUBSET S /\ IsFiniteSet(T)
  BY FS_Subset
<1>3. PICK h : Sums(h, f, SUBSET T) /\ SumFunctionOnSet(f, T) = h[T]
  BY <1>2, SumIsSums
<1>4. g[T] = h[T]
  <2>1. PICK e : e = f
    OBVIOUS
  <2>2. (\A x \in T : f[x] = e[x]) /\ Sums(h, e, SUBSET T)
    BY <1>3, <2>1
  <2> HIDE DEF T
  <2>3. QED
    BY <1>1, <1>2, <2>2, SumsUnique
<1>5. g[S] = f[Some(S)] + g[T]
  <2>1. S \in SUBSET S
    OBVIOUS
  <2>2. QED
    BY <1>1, <2>1, Zenon DEF Sums
<1>6. QED
  BY <1>1, <1>3, <1>4, <1>5

LEMMA SumIsNumber ==
  ASSUME NEW S, IsFiniteSet(S), NEW f, \A x \in S : f[x] \in Nat
  PROVE  SumFunctionOnSet(f, S) \in Nat
<1> DEFINE N == {n \in Nat : \A T \in SUBSET S : Cardinality(T) <= n => SumFunctionOnSet(f, T) \in Nat}
<1>1. 0 \in N
  BY EmptyIsSmallest, SumOfNone
<1>2. ASSUME NEW n \in Nat, n \in N
      PROVE  n + 1 \in N
  <2>1. ASSUME NEW T \in SUBSET S, Cardinality(T) <= n + 1, T # {}
        PROVE  SumFunctionOnSet(f, T) \in Nat
    <3>1. Some(T) \in T
      BY <2>1, SomeIn
    <3>2. /\ IsFiniteSet(T) /\ Cardinality(T) \in Nat \ {0} /\ T \ {Some(T)} \in SUBSET S
          /\ Cardinality(T \ {Some(T)}) = Cardinality(T) - 1
      BY <3>1, Smaller
    <3>3. Cardinality(T \ {Some(T)}) <= n
      BY <2>1, <3>2
    <3>4. SumFunctionOnSet(f, T \ {Some(T)}) \in Nat
      BY <1>2, <3>2, <3>3
    <3>5. SumFunctionOnSet(f, T) = f[Some(T)] + SumFunctionOnSet(f, T \ {Some(T)})
      BY <2>1, <3>2, SumStep
    <3>6. f[Some(T)] \in Nat
      BY <3>1
    <3>7. QED
      BY <3>4, <3>5, <3>6
  <2>2. SumFunctionOnSet(f, {}) \in Nat
    BY SumOfNone
  <2>3. \A T \in SUBSET S : Cardinality(T) <= n + 1 => SumFunctionOnSet(f, T) \in Nat
    BY <2>1, <2>2
  <2>4. QED
    BY <2>3
<1>3. Nat \subseteq N
  <2> HIDE DEF N
  <2>1. QED
    BY <1>1, <1>2, NumberInduction
<1>4. Cardinality(S) \in N
  BY <1>3, FS_CardinalityType
<1>5. QED
  BY <1>4, FS_CardinalityType

LEMMA SumWithout ==
  ASSUME NEW S, IsFiniteSet(S), NEW f, \A x \in S : f[x] \in Nat
  PROVE  \A x \in S : SumFunctionOnSet(f, S) = f[x] + SumFunctionOnSet(f, S \ {x})
<1> DEFINE Sum(T) == SumFunctionOnSet(f, T)
           N == {n \in Nat : \A T \in SUBSET S : Cardinality(T) <= n =>
                               \A x \in T : Sum(T) = f[x] + Sum(T \ {x})}
<1>0. \A T \in SUBSET S : IsFiniteSet(T) /\ Sum(T) \in Nat
  BY FS_Subset, SumIsNumber
<1>1. 0 \in N
  BY EmptyIsSmallest
<1>2. ASSUME NEW n \in Nat, n \in N
      PROVE  n + 1 \in N
  <2>1. ASSUME NEW T \in SUBSET S, Cardinality(T) <= n + 1, NEW x \in T
        PROVE  Sum(T) = f[x] + Sum(T \ {x})
    <3> DEFINE y == Some(T)
    <3>1. y \in T
      BY SomeIn
    <3>2. Sum(T) = f[y] + Sum(T \ {y})
      BY <1>0, SumStep
    <3>3. CASE x = y
      BY <3>2, <3>3
    <3>4. CASE x # y
      <4> HIDE DEF y
      <4>1. /\ Cardinality(T) \in Nat /\ T \ {y} \in SUBSET S /\ T \ {x} \in SUBSET S
            /\ Cardinality(T \ {y}) = Cardinality(T) - 1
            /\ Cardinality(T \ {x}) = Cardinality(T) - 1
        BY <3>1, Smaller
      <4>2. Cardinality(T \ {y}) <= n /\ Cardinality(T \ {x}) <= n
        BY <2>1, <4>1
      <4>3. x \in T \ {y} /\ y \in T \ {x} /\ (T \ {y}) \ {x} = (T \ {x}) \ {y}
        BY <3>1, <3>4
      <4>4. Sum(T \ {y}) = f[x] + Sum((T \ {y}) \ {x})
        BY <1>2, <4>1, <4>2, <4>3
      <4>5. Sum(T \ {x}) = f[y] + Sum((T \ {x}) \ {y})
        BY <1>2, <4>1, <4>2, <4>3
      <4>6. (T \ {x}) \ {y} \in SUBSET S /\ x \in S /\ y \in S
        BY <3>1
      <4>7. f[x] \in Nat /\ f[y] \in Nat /\ Sum((T \ {x}) \ {y}) \in Nat
        BY <1>0, <4>6
      <4>8. Sum((T \ {y}) \ {x}) = Sum((T \ {x}) \ {y})
        BY <4>3
      <4> HIDE DEF Sum
      <4>9. QED
        BY <3>2, <4>4, <4>5, <4>7, <4>8
    <3>5. QED
      BY <3>3, <3>4
  <2>2. QED
    BY <2>1
<1>3. Nat \subseteq N
  <2> HIDE DEF N
  <2>1. QED
    BY <1>1, <1>2, NumberInduction
<1>4. Cardinality(S) \in N
  BY <1>3, FS_CardinalityType
<1>5. QED
  BY <1>4, FS_CardinalityType

\* Induction over a finite set, as a statement about a set of its parts.
LEMMA PartInduction ==
  ASSUME NEW S, IsFiniteSet(S), NEW F, {} \in F,
         \A T \in SUBSET S : \A x \in S \ T : T \in F => T \cup {x} \in F
  PROVE  S \in F
<1> DEFINE N == {n \in Nat : \A T \in SUBSET S : Cardinality(T) <= n => T \in F}
<1>1. 0 \in N
  BY EmptyIsSmallest
<1>2. ASSUME NEW n \in Nat, n \in N
      PROVE  n + 1 \in N
  <2>1. ASSUME NEW T \in SUBSET S, Cardinality(T) <= n + 1, T # {}
        PROVE  T \in F
    <3>1. PICK x \in T : TRUE
      BY <2>1
    <3>2. /\ Cardinality(T) \in Nat \ {0} /\ T \ {x} \in SUBSET S
          /\ Cardinality(T \ {x}) = Cardinality(T) - 1
      BY Smaller
    <3>3. Cardinality(T \ {x}) <= n
      BY <2>1, <3>2
    <3>4. T \ {x} \in F
      BY <1>2, <3>2, <3>3
    <3>5. (T \ {x}) \cup {x} \in F
      BY <3>2, <3>4
    <3>6. (T \ {x}) \cup {x} = T
      OBVIOUS
    <3>7. QED
      BY <3>5, <3>6
  <2>2. QED
    BY <2>1
<1>3. Nat \subseteq N
  <2> HIDE DEF N
  <2>1. QED
    BY <1>1, <1>2, NumberInduction
<1>4. Cardinality(S) \in N
  BY <1>3, FS_CardinalityType
<1>5. QED
  BY <1>4, FS_CardinalityType

LEMMA SumOfUnion ==
  ASSUME NEW A, IsFiniteSet(A), NEW B, IsFiniteSet(B), A \cap B = {},
         NEW f, \A x \in A \cup B : f[x] \in Nat
  PROVE  SumFunctionOnSet(f, A \cup B) = SumFunctionOnSet(f, A) + SumFunctionOnSet(f, B)
<1> DEFINE Sum(T) == SumFunctionOnSet(f, T)
           F == {T \in SUBSET B : Sum(A \cup T) = Sum(A) + Sum(T)}
<1>1. Sum(A) \in Nat
  BY SumIsNumber
<1>2. {} \in F
  <2>1. A \cup {} = A /\ Sum({}) = 0
    BY SumOfNone
  <2>2. QED
    BY <1>1, <2>1
<1>3. ASSUME NEW T \in SUBSET B, NEW x \in B \ T, T \in F
      PROVE  T \cup {x} \in F
  <2>1. IsFiniteSet(T \cup {x}) /\ IsFiniteSet(A \cup T \cup {x}) /\ IsFiniteSet(T)
    BY FS_Subset, FS_Union
  <2>2. (T \cup {x}) \ {x} = T /\ (A \cup T \cup {x}) \ {x} = A \cup T
    OBVIOUS
  <2>3. Sum(T \cup {x}) = f[x] + Sum((T \cup {x}) \ {x})
    BY <2>1, SumWithout
  <2>4. Sum(A \cup T \cup {x}) = f[x] + Sum((A \cup T \cup {x}) \ {x})
    BY <2>1, SumWithout
  <2>5. f[x] \in Nat /\ Sum(T) \in Nat
    BY <2>1, SumIsNumber
  <2>6. Sum(A \cup T) = Sum(A) + Sum(T)
    BY <1>3
  <2>7. Sum((T \cup {x}) \ {x}) = Sum(T) /\ Sum((A \cup T \cup {x}) \ {x}) = Sum(A \cup T)
    BY <2>2
  <2>8. Sum(A \cup T \cup {x}) = Sum(A) + Sum(T \cup {x})
    <3> HIDE DEF Sum
    <3>1. QED
      BY <1>1, <2>3, <2>4, <2>5, <2>6, <2>7
  <2>9. A \cup (T \cup {x}) = A \cup T \cup {x}
    OBVIOUS
  <2>10. QED
    BY <2>8, <2>9
<1>4. B \in F
  <2> HIDE DEF F
  <2>1. QED
    BY <1>2, <1>3, PartInduction
<1>5. QED
  BY <1>4

LEMMA SumOfPart ==
  ASSUME NEW A, IsFiniteSet(A), NEW B, B \subseteq A, NEW f, \A x \in A : f[x] \in Nat
  PROVE  /\ SumFunctionOnSet(f, A) = SumFunctionOnSet(f, B) + SumFunctionOnSet(f, A \ B)
         /\ SumFunctionOnSet(f, B) \in Nat /\ SumFunctionOnSet(f, A \ B) \in Nat
<1>1. IsFiniteSet(B) /\ IsFiniteSet(A \ B)
  BY FS_Subset
<1>2. SumFunctionOnSet(f, B \cup (A \ B)) = SumFunctionOnSet(f, B) + SumFunctionOnSet(f, A \ B)
  BY <1>1, SumOfUnion
<1>3. B \cup (A \ B) = A
  OBVIOUS
<1>4. QED
  BY <1>1, <1>2, <1>3, SumIsNumber

LEMMA FiniteImage ==
  ASSUME NEW A, IsFiniteSet(A), NEW b
  PROVE  IsFiniteSet({b[x] : x \in A})
<1> DEFINE Image(T) == {b[x] : x \in T}
           F == {T \in SUBSET A : IsFiniteSet(Image(T))}
<1>1. {} \in F
  <2>1. Image({}) = {}
    OBVIOUS
  <2>2. QED
    BY <2>1, FS_EmptySet
<1>2. ASSUME NEW T \in SUBSET A, NEW x \in A \ T, T \in F
      PROVE  T \cup {x} \in F
  <2>1. Image(T \cup {x}) = Image(T) \cup {b[x]}
    OBVIOUS
  <2>2. IsFiniteSet(Image(T))
    BY <1>2
  <2>3. IsFiniteSet(Image(T) \cup {b[x]})
    <3> HIDE DEF Image
    <3>1. QED
      BY <2>2, FS_AddElement
  <2>4. QED
    BY <2>1, <2>3
<1>3. A \in F
  <2> HIDE DEF F
  <2>1. QED
    BY <1>1, <1>2, PartInduction
<1>4. QED
  BY <1>3

\* Values that go to other places keep their sum.
LEMMA SumOfMoved ==
  ASSUME NEW A, IsFiniteSet(A), NEW b, \A x, y \in A : b[x] = b[y] => x = y,
         NEW f, NEW g, \A x \in A : f[x] \in Nat /\ g[b[x]] = f[x]
  PROVE  /\ IsFiniteSet({b[x] : x \in A})
         /\ SumFunctionOnSet(g, {b[x] : x \in A}) = SumFunctionOnSet(f, A)
<1> DEFINE Image(T) == {b[x] : x \in T}
           F == {T \in SUBSET A : /\ IsFiniteSet(Image(T))
                                  /\ SumFunctionOnSet(g, Image(T)) = SumFunctionOnSet(f, T)}
<1>1. {} \in F
  <2>1. Image({}) = {}
    OBVIOUS
  <2>2. QED
    BY <2>1, SumOfNone, FS_EmptySet
<1>2. ASSUME NEW T \in SUBSET A, NEW x \in A \ T, T \in F
      PROVE  T \cup {x} \in F
  <2>1. Image(T \cup {x}) = Image(T) \cup {b[x]} /\ Image(T \cup {x}) \ {b[x]} = Image(T)
    OBVIOUS
  <2>2. IsFiniteSet(Image(T \cup {x})) /\ IsFiniteSet(T \cup {x})
    BY <1>2, <2>1, FS_AddElement, FS_Subset
  <2>3. \A z \in Image(T \cup {x}) : g[z] \in Nat
    OBVIOUS
  <2>4. b[x] \in Image(T \cup {x}) /\ x \in T \cup {x} /\ (T \cup {x}) \ {x} = T
    OBVIOUS
  <2> HIDE DEF Image
  <2>5. SumFunctionOnSet(g, Image(T \cup {x})) = g[b[x]] + SumFunctionOnSet(g, Image(T \cup {x}) \ {b[x]})
    BY <2>2, <2>3, <2>4, SumWithout
  <2>6. SumFunctionOnSet(f, T \cup {x}) = f[x] + SumFunctionOnSet(f, (T \cup {x}) \ {x})
    BY <2>2, <2>4, SumWithout
  <2>7. SumFunctionOnSet(g, Image(T)) = SumFunctionOnSet(f, T)
    BY <1>2
  <2>8. QED
    BY <2>1, <2>2, <2>4, <2>5, <2>6, <2>7
<1>3. A \in F
  <2> HIDE DEF F
  <2>1. QED
    BY <1>1, <1>2, PartInduction
<1>4. QED
  BY <1>3

----------------------------------------------------------------------------
(* Mounts *)

Nodes(t) == t.dirs \cup DOMAIN t.files

Whole(t) ==
  /\ IsTree(t) /\ IsFiniteSet(DOMAIN t.files)
  /\ \A p \in Nodes(t) : IsDir(t, Parent(p))
  /\ t.dirs \cap DOMAIN t.files = {}

LEMMA NodePaths ==
  ASSUME NEW t, IsTree(t)
  PROVE  Nodes(t) \subseteq Paths \ {Root}
  BY DEF IsTree, Nodes, Paths

LEMMA NodeParent ==
  ASSUME NEW t, Whole(t), NEW q \in Nodes(t)
  PROVE  /\ q \in Paths /\ q # Root /\ Parent(q) \in Paths /\ Len(Parent(q)) = Len(q) - 1
         /\ Len(q) \in Nat \ {0} /\ (Parent(q) = Root \/ Parent(q) \in Nodes(t))
<1>1. q \in Paths /\ q # Root
  BY NodePaths DEF Whole
<1>2. Parent(q) = Root \/ Parent(q) \in t.dirs
  BY DEF Whole, IsDir
<1>3. QED
  BY <1>1, <1>2, ParentFacts DEF Nodes

\* Above whatever there is are directories, and they list something.
LEMMA AboveIsDir ==
  ASSUME NEW t, Whole(t), NEW p \in Paths, NEW q \in Nodes(t), Under(q, p), q # p
  PROVE  IsDir(t, p) /\ \E r \in Nodes(t) : Parent(r) = p /\ Under(q, r)
<1> DEFINE N == {n \in Nat : \A r \in Nodes(t) : Len(r) <= n /\ Under(r, p) /\ r # p =>
                       IsDir(t, p) /\ \E a \in Nodes(t) : Parent(a) = p /\ Under(r, a)}
<1>1. 0 \in N
  BY NodeParent
<1>2. ASSUME NEW n \in Nat, n \in N
      PROVE  n + 1 \in N
  <2>1. ASSUME NEW r \in Nodes(t), Len(r) <= n + 1, Under(r, p), r # p
        PROVE  IsDir(t, p) /\ \E a \in Nodes(t) : Parent(a) = p /\ Under(r, a)
    <3>1. /\ r \in Paths /\ r # Root /\ Parent(r) \in Paths /\ Len(Parent(r)) = Len(r) - 1
          /\ Len(r) \in Nat \ {0} /\ (Parent(r) = Root \/ Parent(r) \in Nodes(t))
      BY NodeParent
    <3>2. Under(Parent(r), p)
      BY <2>1, <3>1, UnderParent
    <3>3. CASE Parent(r) = p
      <4>1. IsDir(t, p)
        BY <3>3 DEF Whole
      <4>2. Under(r, r)
        BY <3>1, UnderOrder
      <4>3. QED
        BY <3>3, <4>1, <4>2
    <3>4. CASE Parent(r) # p
      <4>1. Parent(r) # Root
        BY <3>1, <3>2, <3>4, UnderOrder
      <4>2. Parent(r) \in Nodes(t) /\ Len(Parent(r)) <= n
        BY <2>1, <3>1, <4>1
      <4>3. PICK a \in Nodes(t) : IsDir(t, p) /\ Parent(a) = p /\ Under(Parent(r), a)
        BY <1>2, <3>2, <3>4, <4>2
      <4>4. a \in Paths /\ Under(r, a)
        BY <3>1, <4>3, NodeParent, UnderParent
      <4>5. QED
        BY <4>3, <4>4
    <3>5. QED
      BY <3>3, <3>4
  <2>2. QED
    BY <2>1
<1>3. Nat \subseteq N
  <2> HIDE DEF N
  <2>1. QED
    BY <1>1, <1>2, NumberInduction
<1>4. Len(q) \in N
  BY <1>3, NodeParent
<1>5. QED
  BY <1>4, NodeParent

LEMMA ListedFacts ==
  ASSUME NEW t, Whole(t), NEW p \in Paths
  PROVE  /\ Listed(t, p) \subseteq Name
         /\ \A name \in Name : name \in Listed(t, p) <=> Append(p, name) \in Nodes(t)
         /\ Listed(t, p) = {} => \A q \in Nodes(t) : ~(Parent(q) = p) /\ (Under(q, p) => q = p)
<1>1. ASSUME NEW q \in Nodes(t), Parent(q) = p
      PROVE  Last(q) \in Name /\ q = Append(p, Last(q)) /\ Last(q) \in Listed(t, p)
  <2>1. q \in Paths /\ q # Root
    BY NodeParent
  <2>2. Last(q) \in Name /\ q = Append(p, Last(q))
    BY <1>1, <2>1, AsChild
  <2>3. Last(q) \in Listed(t, p)
    BY <1>1, <2>1 DEF Listed, Nodes
  <2>4. QED
    BY <2>2, <2>3
<1>2. \A name \in Listed(t, p) : \E q \in Nodes(t) : Parent(q) = p /\ name = Last(q)
  BY DEF Listed, Nodes
<1>3. \A name \in Name : Append(p, name) \in Nodes(t) => name \in Listed(t, p)
  <2>1. \A name \in Name : Parent(Append(p, name)) = p /\ Last(Append(p, name)) = name
    BY ChildFacts
  <2>2. QED
    BY <2>1, <1>1
<1>4. Listed(t, p) = {} => \A q \in Nodes(t) : ~(Parent(q) = p) /\ (Under(q, p) => q = p)
  BY <1>1, AboveIsDir
<1>5. QED
  BY <1>1, <1>2, <1>3, <1>4

\* A change of which the parts have the right types.
IsChange(c) ==
  /\ c.put \in [DOMAIN c.put -> Nat] /\ IsFiniteSet(DOMAIN c.put)
  /\ DOMAIN c.put \cup c.mkdirs \subseteq Paths \ {Root}

LEMMA OverFacts ==
  ASSUME NEW f, NEW g
  PROVE  /\ DOMAIN Over(f, g) = DOMAIN f \cup DOMAIN g
         /\ Over(f, g) = [p \in DOMAIN Over(f, g) |-> Over(f, g)[p]]
         /\ \A p \in DOMAIN f : Over(f, g)[p] = f[p]
         /\ \A p \in DOMAIN g : p \notin DOMAIN f => Over(f, g)[p] = g[p]
  BY DEF Over

LEMMA AtFacts == ASSUME NEW p, NEW x PROVE DOMAIN At(p, x) = {p} /\ At(p, x)[p] = x
  BY DEF At

LEMMA ApplyFacts ==
  ASSUME NEW t, IsTree(t), IsFiniteSet(DOMAIN t.files), NEW c, IsChange(c)
  PROVE  LET n == Apply(t, c) IN
         /\ IsTree(n) /\ IsFiniteSet(DOMAIN n.files)
         /\ n.dirs = (t.dirs \ c.rmdirs) \cup c.mkdirs
         /\ DOMAIN n.files = DOMAIN c.put \cup (DOMAIN t.files \ c.drop)
         /\ \A p \in DOMAIN c.put : n.files[p] = c.put[p]
         /\ \A p \in DOMAIN t.files \ c.drop : p \notin DOMAIN c.put => n.files[p] = t.files[p]
<1> DEFINE kept == Restrict(t.files, DOMAIN t.files \ c.drop)
           n == Apply(t, c)
<1>1. /\ DOMAIN kept = DOMAIN t.files \ c.drop
      /\ \A p \in DOMAIN t.files \ c.drop : kept[p] = t.files[p]
  BY DEF Restrict
<1>2. /\ n.files = Over(c.put, kept) /\ n.dirs = (t.dirs \ c.rmdirs) \cup c.mkdirs
      /\ n = [files |-> n.files, dirs |-> n.dirs]
  BY DEF Apply
<1> HIDE DEF kept, n
<1>3. /\ DOMAIN n.files = DOMAIN c.put \cup (DOMAIN t.files \ c.drop)
      /\ n.files = [p \in DOMAIN n.files |-> n.files[p]]
      /\ \A p \in DOMAIN c.put : n.files[p] = c.put[p]
      /\ \A p \in DOMAIN t.files \ c.drop : p \notin DOMAIN c.put => n.files[p] = t.files[p]
  <2> DEFINE g == c.put
             f == Over(g, kept)
  <2> HIDE DEF g
  <2>1. f = Over(g, kept)
    OBVIOUS
  <2> HIDE DEF f
  <2>2. /\ DOMAIN f = DOMAIN g \cup DOMAIN kept
        /\ f = [p \in DOMAIN f |-> f[p]]
        /\ \A p \in DOMAIN g : f[p] = g[p]
        /\ \A p \in DOMAIN kept : p \notin DOMAIN g => f[p] = kept[p]
    BY <2>1 DEF Over
  <2>3. /\ DOMAIN f = DOMAIN c.put \cup DOMAIN kept
        /\ f = [p \in DOMAIN f |-> f[p]]
        /\ \A p \in DOMAIN c.put : f[p] = c.put[p]
        /\ \A p \in DOMAIN kept : p \notin DOMAIN c.put => f[p] = kept[p]
    BY <2>2 DEF g
  <2>4. n.files = f
    BY <1>2 DEF f, g
  <2>5. \A p \in DOMAIN t.files \ c.drop : p \notin DOMAIN c.put => f[p] = t.files[p]
    BY <1>1, <2>3
  <2>6. DOMAIN f = DOMAIN c.put \cup (DOMAIN t.files \ c.drop)
    BY <1>1, <2>3
  <2>7. QED
    BY <2>3, <2>4, <2>5, <2>6
<1>4. /\ \A p \in DOMAIN c.put : c.put[p] \in Nat
      /\ \A p \in DOMAIN t.files : t.files[p] \in Nat
  BY DEF IsTree, IsChange
<1>5. \A p \in DOMAIN n.files : n.files[p] \in Nat
  BY <1>3, <1>4
<1>6. n.files \in [DOMAIN n.files -> Nat]
  BY <1>3, <1>5
<1>7. DOMAIN n.files \subseteq Paths \ {Root} /\ n.dirs \subseteq Paths \ {Root}
  BY <1>2, <1>3 DEF IsTree, IsChange, Paths
<1>8. IsTree(n)
  BY <1>2, <1>6, <1>7 DEF IsTree, Paths
<1>9. IsFiniteSet(DOMAIN n.files)
  BY <1>3, FS_Subset, FS_Union DEF IsChange
<1>10. QED
  BY <1>2, <1>3, <1>8, <1>9 DEF n

\* What is added and taken away, one after the other.
LEMMA SumOfApply ==
  ASSUME NEW t, IsTree(t), IsFiniteSet(DOMAIN t.files), NEW c, IsChange(c)
  PROVE  LET kept == (DOMAIN t.files \ c.drop) \ DOMAIN c.put IN
         /\ SumFunction(Apply(t, c).files) = SumFunction(c.put) + SumFunctionOnSet(t.files, kept)
         /\ SumFunction(t.files) = SumFunctionOnSet(t.files, kept)
                                    + SumFunctionOnSet(t.files, DOMAIN t.files \ kept)
         /\ SumFunctionOnSet(t.files, kept) \in Nat /\ SumFunction(c.put) \in Nat
         /\ SumFunctionOnSet(t.files, DOMAIN t.files \ kept) \in Nat
<1> DEFINE kept == (DOMAIN t.files \ c.drop) \ DOMAIN c.put
           n == Apply(t, c)
           put == DOMAIN c.put
<1>1. /\ IsTree(n) /\ IsFiniteSet(DOMAIN n.files)
      /\ DOMAIN n.files = put \cup kept
      /\ \A p \in put : n.files[p] = c.put[p]
      /\ \A p \in kept : n.files[p] = t.files[p]
  BY ApplyFacts
<1>2. put \cap kept = {} /\ kept \subseteq DOMAIN t.files
  OBVIOUS
<1>3. /\ IsFiniteSet(put) /\ IsFiniteSet(kept)
      /\ \A p \in DOMAIN t.files : t.files[p] \in Nat
      /\ \A p \in put : c.put[p] \in Nat
      /\ \A p \in put \cup kept : n.files[p] \in Nat
  BY <1>1, FS_Subset DEF IsChange, IsTree
<1> HIDE DEF put, kept, n
<1>4. SumFunction(n.files) = SumFunctionOnSet(n.files, put) + SumFunctionOnSet(n.files, kept)
  BY <1>1, <1>2, <1>3, SumOfUnion DEF SumFunction
<1>5. SumFunctionOnSet(n.files, put) = SumFunctionOnSet(c.put, put)
  BY <1>1, <1>3, SumOfSame
<1>6. SumFunctionOnSet(n.files, kept) = SumFunctionOnSet(t.files, kept)
  BY <1>1, <1>3, SumOfSame
<1>7. SumFunction(c.put) = SumFunctionOnSet(c.put, put) /\ SumFunction(c.put) \in Nat
  BY <1>3, SumIsNumber DEF SumFunction, put
<1>8. /\ SumFunction(t.files) = SumFunctionOnSet(t.files, kept)
                                + SumFunctionOnSet(t.files, DOMAIN t.files \ kept)
      /\ SumFunctionOnSet(t.files, kept) \in Nat
      /\ SumFunctionOnSet(t.files, DOMAIN t.files \ kept) \in Nat
  BY <1>2, <1>3, SumOfPart DEF SumFunction
<1>9. QED
  BY <1>4, <1>5, <1>6, <1>7, <1>8 DEF n, kept

----------------------------------------------------------------------------
(* What the operations of the backend do to a mount *)

SameFiles(t, n, files) == \A q \in files : n.files[q] = t.files[q]

Puts(t, n, p, size) ==
  /\ n.dirs = t.dirs /\ DOMAIN n.files = DOMAIN t.files \cup {p}
  /\ n.files[p] = size /\ SameFiles(t, n, DOMAIN t.files \ {p})

Makes(t, n, p) ==
  n.dirs = t.dirs \cup {p} /\ DOMAIN n.files = DOMAIN t.files /\ SameFiles(t, n, DOMAIN t.files)

Drops(t, n, p) ==
  /\ n.dirs = t.dirs \ {p} /\ DOMAIN n.files = DOMAIN t.files \ {p}
  /\ SameFiles(t, n, DOMAIN t.files \ {p})

Leaving(p, S) == {q \in S : Under(q, p)}
Staying(p, target, S) == {q \in S : ~Under(q, p) /\ q # target}
Landed(p, target, S) == {Rebased(q, p, target) : q \in Leaving(p, S)}

Moves(t, n, p, target) ==
  /\ n.dirs = Landed(p, target, t.dirs) \cup Staying(p, target, t.dirs)
  /\ DOMAIN n.files = Landed(p, target, DOMAIN t.files) \cup Staying(p, target, DOMAIN t.files)
  /\ \A q \in Leaving(p, DOMAIN t.files) : n.files[Rebased(q, p, target)] = t.files[q]
  /\ SameFiles(t, n, Staying(p, target, DOMAIN t.files))

CanMove(t, p, target) ==
  /\ p \in Nodes(t) /\ target \in Paths \ {Root} /\ IsDir(t, Parent(target))
  /\ ~Under(Parent(target), p)
  /\ \A q \in Nodes(t) : Under(q, target) => q = target

InBudget(t) == InMemory => SumFunction(t.files) <= MaxBytes

LEMMA PutsIsWhole ==
  ASSUME NEW t, Whole(t), NEW n, IsTree(n), IsFiniteSet(DOMAIN n.files), NEW p, NEW size,
         Puts(t, n, p, size), ~IsDir(t, p), IsDir(t, Parent(p))
  PROVE  Whole(n)
  BY DEF Whole, Puts, Nodes, IsDir

LEMMA MakesIsWhole ==
  ASSUME NEW t, Whole(t), NEW n, IsTree(n), IsFiniteSet(DOMAIN n.files), NEW p,
         Makes(t, n, p), ~IsFile(t, p), IsDir(t, Parent(p))
  PROVE  Whole(n)
  BY DEF Whole, Makes, Nodes, IsDir, IsFile

LEMMA DropsIsWhole ==
  ASSUME NEW t, Whole(t), NEW n, IsTree(n), IsFiniteSet(DOMAIN n.files), NEW p \in Nodes(t),
         Drops(t, n, p), \A q \in Nodes(t) : ~(Parent(q) = p)
  PROVE  Whole(n)
  BY DEF Whole, Drops, Nodes, IsDir

LEMMA LandedFacts ==
  ASSUME NEW p \in Paths, NEW target \in Paths, NEW S, S \subseteq Paths
  PROVE  /\ \A q \in Leaving(p, S) : /\ Rebased(q, p, target) \in Landed(p, target, S)
                                   /\ Rebased(q, p, target) \in Paths
                                   /\ Under(Rebased(q, p, target), target)
                                   /\ Rebased(Rebased(q, p, target), target, p) = q
         /\ \A r \in Landed(p, target, S) :
              /\ r \in Paths /\ Under(r, target) /\ Under(Rebased(r, target, p), p)
              /\ Rebased(r, target, p) \in S /\ r = Rebased(Rebased(r, target, p), p, target)
<1>1. ASSUME NEW q \in Leaving(p, S)
      PROVE  /\ Rebased(q, p, target) \in Landed(p, target, S)
             /\ Rebased(q, p, target) \in Paths
             /\ Under(Rebased(q, p, target), target)
             /\ Rebased(Rebased(q, p, target), target, p) = q
  BY RebasedFacts DEF Leaving, Landed
<1>2. ASSUME NEW r \in Landed(p, target, S)
      PROVE  /\ r \in Paths /\ Under(r, target) /\ Under(Rebased(r, target, p), p)
             /\ Rebased(r, target, p) \in S /\ r = Rebased(Rebased(r, target, p), p, target)
  <2>1. PICK q \in Leaving(p, S) : r = Rebased(q, p, target)
    BY DEF Landed
  <2>2. q \in S /\ Under(q, p)
    BY DEF Leaving
  <2>3. r \in Paths /\ Under(r, target) /\ Rebased(r, target, p) = q
    BY <1>1, <2>1
  <2>4. QED
    BY <2>1, <2>2, <2>3
<1>3. QED
  BY <1>1, <1>2

LEMMA MovesIsWhole ==
  ASSUME NEW t, Whole(t), NEW n, IsTree(n), IsFiniteSet(DOMAIN n.files), NEW p, NEW target,
         CanMove(t, p, target), Moves(t, n, p, target)
  PROVE  Whole(n)
<1>1. p \in Paths /\ p # Root /\ target \in Paths /\ target # Root
  BY NodeParent DEF CanMove
<1>2. t.dirs \subseteq Paths /\ DOMAIN t.files \subseteq Paths /\ t.dirs \cap DOMAIN t.files = {}
  BY DEF Whole, IsTree, Paths
<1>3. ASSUME NEW q \in t.dirs \cup {Root}, ~Under(q, p), q # target
      PROVE  IsDir(n, q)
  BY <1>3 DEF Moves, Staying, IsDir
<1>4. ASSUME NEW q \in t.dirs, Under(q, p)
      PROVE  IsDir(n, Rebased(q, p, target))
  <2>1. q \in Leaving(p, t.dirs)
    BY <1>4 DEF Leaving
  <2>2. Rebased(q, p, target) \in Landed(p, target, t.dirs)
    BY <2>1 DEF Landed
  <2>3. QED
    BY <2>2 DEF Moves, IsDir
<1>5. ASSUME NEW q \in Nodes(t), ~Under(q, p), q # target
      PROVE  IsDir(n, Parent(q))
  <2>1. q \in Paths /\ q # Root /\ Parent(q) \in Paths /\ Parent(q) \in t.dirs \cup {Root}
    BY NodeParent DEF Whole, IsDir
  <2>2. ~Under(Parent(q), p)
    BY <1>1, <1>5, <2>1, UnderParent
  <2>3. Parent(q) # target
    <3>1. Under(q, Parent(q))
      BY <2>1, UnderParent, UnderOrder
    <3>2. QED
      BY <3>1, <1>5 DEF CanMove
  <2>4. QED
    BY <1>3, <2>1, <2>2, <2>3
<1>6. ASSUME NEW q \in Nodes(t), Under(q, p)
      PROVE  IsDir(n, Parent(Rebased(q, p, target)))
  <2>1. q \in Paths /\ q # Root /\ Parent(q) \in Paths /\ Parent(q) \in t.dirs \cup {Root}
    BY NodeParent DEF Whole, IsDir
  <2>2. CASE q = p
    <3>1. Rebased(q, p, target) = target
      BY <1>1, <2>2, UnderOrder, RebasedFacts
    <3>2. Parent(target) \in t.dirs \cup {Root} /\ ~Under(Parent(target), p)
      BY DEF CanMove, IsDir
    <3>3. Parent(target) # target
      <4>1. Len(Parent(target)) = Len(target) - 1 /\ Len(target) \in Nat
        BY <1>1, ParentFacts
      <4>2. QED
        BY <4>1
    <3>4. QED
      BY <3>1, <3>2, <3>3, <1>3
  <2>3. CASE q # p
    <3>1. /\ Parent(Rebased(q, p, target)) = Rebased(Parent(q), p, target)
          /\ Under(Parent(q), p)
      BY <1>1, <1>6, <2>1, <2>3, RebasedFacts
    <3>2. Parent(q) # Root
      BY <1>1, <3>1, UnderOrder
    <3>3. QED
      BY <2>1, <3>1, <3>2, <1>4
  <2>4. QED
    BY <2>2, <2>3
<1>7. ASSUME NEW r \in Nodes(n)
      PROVE  IsDir(n, Parent(r))
  <2>1. CASE r \in Landed(p, target, t.dirs) \/ r \in Landed(p, target, DOMAIN t.files)
    <3>1. PICK q \in Nodes(t) : Under(q, p) /\ r = Rebased(q, p, target)
      BY <2>1 DEF Landed, Leaving, Nodes
    <3>2. QED
      BY <3>1, <1>6
  <2>2. CASE r \in Staying(p, target, t.dirs) \/ r \in Staying(p, target, DOMAIN t.files)
    <3>1. r \in Nodes(t) /\ ~Under(r, p) /\ r # target
      BY <2>2 DEF Staying, Nodes
    <3>2. QED
      BY <3>1, <1>5
  <2>3. QED
    BY <2>1, <2>2 DEF Moves, Nodes
<1>8. ASSUME NEW r \in n.dirs, r \in DOMAIN n.files
      PROVE  FALSE
  <2>1. \A S \in {t.dirs, DOMAIN t.files} : \A x \in Staying(p, target, S) :
           x \in S /\ x \in Nodes(t) /\ x # target
    BY DEF Staying, Nodes
  <2>2. \A S \in {t.dirs, DOMAIN t.files} : \A x \in Landed(p, target, S) :
           Under(x, target) /\ Rebased(x, target, p) \in S
    BY <1>1, <1>2, LandedFacts
  <2>3. \A x \in Nodes(t) : Under(x, target) => x = target
    BY DEF CanMove
  <2>4. CASE r \in Landed(p, target, t.dirs)
    <3>1. r \notin Staying(p, target, DOMAIN t.files)
      BY <2>1, <2>2, <2>3, <2>4
    <3>2. r \in Landed(p, target, DOMAIN t.files)
      BY <3>1, <1>8 DEF Moves
    <3>3. Rebased(r, target, p) \in t.dirs /\ Rebased(r, target, p) \in DOMAIN t.files
      BY <2>2, <2>4, <3>2
    <3>4. QED
      BY <3>3, <1>2
  <2>5. CASE r \in Staying(p, target, t.dirs)
    <3>1. r \notin Landed(p, target, DOMAIN t.files)
      BY <2>1, <2>2, <2>3, <2>5
    <3>2. r \in DOMAIN t.files /\ r \in t.dirs
      BY <3>1, <1>8, <2>1, <2>5 DEF Moves
    <3>3. QED
      BY <3>2, <1>2
  <2>6. QED
    BY <1>8, <2>4, <2>5 DEF Moves
<1>9. QED
  BY <1>7, <1>8 DEF Whole

\* A move takes no more room than there was: what is moved keeps its size.
LEMMA MovesInBudget ==
  ASSUME NEW t, Whole(t), NEW n, IsTree(n), IsFiniteSet(DOMAIN n.files), NEW p, NEW target,
         CanMove(t, p, target), Moves(t, n, p, target)
  PROVE  SumFunction(n.files) <= SumFunction(t.files)
<1> DEFINE files == DOMAIN t.files
           A == Leaving(p, files)
           K == Staying(p, target, files)
           L == Landed(p, target, files)
           b == [q \in A |-> Rebased(q, p, target)]
<1>1. p \in Paths /\ target \in Paths /\ files \subseteq Paths
  BY NodeParent DEF CanMove, Whole, IsTree, Paths
<1>2. /\ IsFiniteSet(files) /\ \A q \in files : t.files[q] \in Nat
      /\ \A q \in DOMAIN n.files : n.files[q] \in Nat
  BY DEF Whole, IsTree
<1>3. A \subseteq files /\ K \subseteq files \ A /\ IsFiniteSet(A) /\ IsFiniteSet(K)
      /\ IsFiniteSet(files \ A)
  <2>1. A \subseteq files /\ K \subseteq files \ A
    BY DEF Leaving, Staying
  <2>2. QED
    BY <1>2, <2>1, FS_Subset
<1>4. DOMAIN n.files = L \cup K /\ SameFiles(t, n, K)
      /\ \A q \in A : n.files[Rebased(q, p, target)] = t.files[q]
  BY DEF Moves
<1>5. L = {b[q] : q \in A}
  BY DEF Landed
<1>6. \A q \in A : n.files[b[q]] = t.files[q] /\ t.files[q] \in Nat
  BY <1>2, <1>3, <1>4
<1>7. \A q, r \in A : b[q] = b[r] => q = r
  BY <1>1, LandedFacts
<1>8. L \cap K = {}
  <2>1. \A x \in L : Under(x, target)
    BY <1>1, LandedFacts
  <2>2. \A x \in K : x \in Nodes(t) /\ x # target
    BY DEF Staying, Nodes
  <2>3. QED
    BY <2>1, <2>2 DEF CanMove
<1> HIDE DEF files, A, K, L, b
<1>9. IsFiniteSet(L) /\ SumFunctionOnSet(n.files, L) = SumFunctionOnSet(t.files, A)
  BY <1>3, <1>5, <1>6, <1>7, SumOfMoved
<1>10. SumFunctionOnSet(n.files, K) = SumFunctionOnSet(t.files, K)
  BY <1>3, <1>4, SumOfSame DEF SameFiles
<1>11. SumFunction(n.files) = SumFunctionOnSet(n.files, L) + SumFunctionOnSet(n.files, K)
  BY <1>2, <1>3, <1>4, <1>8, <1>9, SumOfUnion DEF SumFunction
<1>12. /\ SumFunction(t.files) = SumFunctionOnSet(t.files, A) + SumFunctionOnSet(t.files, files \ A)
       /\ SumFunctionOnSet(t.files, A) \in Nat /\ SumFunctionOnSet(t.files, files \ A) \in Nat
  BY <1>2, <1>3, SumOfPart DEF SumFunction, files
<1>13. /\ SumFunctionOnSet(t.files, files \ A)
            = SumFunctionOnSet(t.files, K) + SumFunctionOnSet(t.files, (files \ A) \ K)
       /\ SumFunctionOnSet(t.files, K) \in Nat /\ SumFunctionOnSet(t.files, (files \ A) \ K) \in Nat
  BY <1>2, <1>3, SumOfPart
<1>14. QED
  BY <1>9, <1>10, <1>11, <1>12, <1>13

LEMMA NoChangeFacts ==
  /\ NoChange.drop = {} /\ NoChange.rmdirs = {} /\ NoChange.mkdirs = {}
  /\ NoChange.put = <<>> /\ DOMAIN NoChange.put = {}
  /\ NoChange.put \in [DOMAIN NoChange.put -> Nat]
<1>1. NoChange.put = <<>> /\ DOMAIN <<>> = {}
  BY DEF NoChange
<1>2. <<>> \in [{} -> Nat]
  OBVIOUS
<1>3. QED
  BY <1>1, <1>2 DEF NoChange

LEMMA WriteFacts ==
  ASSUME NEW t, Whole(t), InBudget(t), NEW p \in Paths, NEW size \in Nat
  PROVE  LET done == Write(t, p, size) IN
         \/ /\ done = Done(t, [NoChange EXCEPT !.put = At(p, size)])
            /\ ~IsDir(t, p) /\ IsDir(t, Parent(p)) /\ ~OverBudget(t, At(p, size))
         \/ /\ \E e \in {"EISDIR", "ENOENT", "ENOSPC"} : done = Refuse(t, e)
            /\ IsDir(t, p) \/ ~IsDir(t, Parent(p)) \/ OverBudget(t, At(p, size))
  BY Zenon DEF Write

----------------------------------------------------------------------------
(* What a tool call does, and what it answers *)

Tools == {"stat", "read", "list", "write", "mkdir", "delete", "rename"}
IsCall(c) == c.tool \in Tools /\ {c.path, c.target} \subseteq Paths /\ c.size \in Nat
Answers == [kind : Kinds, size : Nat, names : SUBSET Name]
Sound(t) == Whole(t) /\ InBudget(t)

\* What a call that is answered shows: the mount is as the answer says, or was changed.
Shown(t, call, n, answer) ==
  LET p == call.path IN
  /\ call.tool = "stat" =>
       /\ n = t /\ answer.kind \in {"dir", "file", "none"}
       /\ answer.kind = "dir" => IsDir(t, p)
       /\ answer.kind = "file" => ~IsDir(t, p) /\ IsFile(t, p) /\ answer.size = t.files[p]
       /\ answer.kind = "none" => ~IsDir(t, p) /\ ~IsFile(t, p)
  /\ call.tool = "read" =>
       n = t /\ answer.kind = "data" /\ ~IsDir(t, p) /\ IsFile(t, p) /\ answer.size = t.files[p]
  /\ call.tool = "list" =>
       n = t /\ answer.kind = "names" /\ IsDir(t, p) /\ answer.names = Listed(t, p)
  /\ call.tool = "write" =>
       answer.kind = "ok" /\ Puts(t, n, p, call.size) /\ ~IsDir(t, p) /\ IsDir(t, Parent(p))
  /\ call.tool = "mkdir" =>
       answer.kind = "ok" /\ Makes(t, n, p) /\ ~IsDir(t, p) /\ ~IsFile(t, p) /\ IsDir(t, Parent(p))
  /\ call.tool = "delete" =>
       answer.kind = "ok" /\ Drops(t, n, p) /\ p \in Nodes(t) /\ \A q \in Nodes(t) : Under(q, p) => q = p
  /\ call.tool = "rename" =>
       answer.kind = "ok" /\ Moves(t, n, p, call.target) /\ CanMove(t, p, call.target)

\* The call was refused, and did nothing; or it did its work.
Settled(t, call, done) ==
  /\ done.answer \in Answers
  /\ \/ done.answer.kind \in Errno /\ done.tree = t
     \/ /\ done.answer.kind \notin Errno /\ Sound(done.tree)
        /\ Shown(t, call, done.tree, done.answer)

LEMMA ReplyFacts ==
  ASSUME NEW t, NEW kind, NEW size, NEW names
  PROVE  /\ Reply(t, Answer(kind, size, names)).tree = t
         /\ Reply(t, Answer(kind, size, names)).answer.kind = kind
         /\ Reply(t, Answer(kind, size, names)).answer.size = size
         /\ Reply(t, Answer(kind, size, names)).answer.names = names
         /\ Refuse(t, kind).tree = t /\ Refuse(t, kind).answer.kind = kind
         /\ Refuse(t, kind).answer.size = 0
         /\ Reply(t, Just(kind)).tree = t /\ Reply(t, Just(kind)).answer.kind = kind
         /\ Reply(t, Just(kind)).answer.size = 0
         /\ kind \in Kinds =>
              /\ Refuse(t, kind).answer \in Answers /\ Reply(t, Just(kind)).answer \in Answers
              /\ size \in Nat /\ names \subseteq Name =>
                   Reply(t, Answer(kind, size, names)).answer \in Answers
  BY DEF Reply, Refuse, Just, Answer, Answers

LEMMA DoneFacts ==
  ASSUME NEW t, NEW c
  PROVE  Done(t, c).tree = Apply(t, c) /\ Done(t, c).answer.kind = "ok" /\ Done(t, c).answer \in Answers
  BY DEF Done, Just, Answer, Answers, Kinds

LEMMA RefusalSettles ==
  ASSUME NEW t, NEW call, NEW e \in Errno
  PROVE  Settled(t, call, Refuse(t, e))
<1>1. e \in Kinds
  BY DEF Kinds
<1>2. Refuse(t, e).tree = t /\ Refuse(t, e).answer.kind = e /\ Refuse(t, e).answer \in Answers
  BY <1>1, ReplyFacts
<1>3. QED
  BY <1>2 DEF Settled

LEMMA SizeFacts ==
  ASSUME NEW t, Whole(t), NEW p \in DOMAIN t.files
  PROVE  p \in Paths /\ p # Root /\ t.files[p] \in Nat /\ ~IsDir(t, p)
<1>1. p \in Nodes(t) /\ t.files[p] \in Nat
  BY DEF Whole, IsTree, Nodes
<1>2. p \in Paths /\ p # Root
  BY <1>1, NodeParent
<1>3. QED
  BY <1>1, <1>2 DEF Whole, IsDir

LEMMA StatSettles ==
  ASSUME NEW t, Sound(t), NEW call, IsCall(call), call.tool = "stat"
  PROVE  Settled(t, call, Stat(t, call.path))
<1> DEFINE p == call.path
           done == Stat(t, p)
<1>1. CASE IsDir(t, p)
  <2>1. done = Reply(t, Just("dir"))
    BY <1>1, Zenon DEF Stat
  <2>2. QED
    BY <1>1, <2>1, ReplyFacts DEF Settled, Shown, Kinds, Errno
<1>2. CASE ~IsDir(t, p) /\ IsFile(t, p)
  <2>1. done = Reply(t, Answer("file", t.files[p], {}))
    BY <1>2, Zenon DEF Stat
  <2>2. t.files[p] \in Nat
    BY <1>2, SizeFacts DEF Sound, IsFile
  <2> HIDE DEF done
  <2>3. done.tree = t /\ done.answer.kind = "file" /\ done.answer.size = t.files[p]
        /\ done.answer \in Answers
    BY <2>1, <2>2, ReplyFacts DEF Kinds
  <2>4. QED
    BY <1>2, <2>2, <2>3 DEF Settled, Shown, Kinds, Errno, done
<1>3. CASE ~IsDir(t, p) /\ ~IsFile(t, p)
  <2>1. done = Reply(t, Just("none"))
    BY <1>3, Zenon DEF Stat
  <2>2. QED
    BY <1>3, <2>1, ReplyFacts DEF Settled, Shown, Kinds, Errno
<1>4. QED
  BY <1>1, <1>2, <1>3

LEMMA ReadSettles ==
  ASSUME NEW t, Sound(t), NEW call, IsCall(call), call.tool = "read"
  PROVE  Settled(t, call, Read(t, call.path))
<1> DEFINE p == call.path
           done == Read(t, p)
<1>1. CASE IsDir(t, p)
  <2>1. done = Refuse(t, "EISDIR")
    BY <1>1, Zenon DEF Read
  <2>2. QED
    BY <2>1, RefusalSettles DEF Errno
<1>2. CASE ~IsDir(t, p) /\ ~IsFile(t, p)
  <2>1. done = Refuse(t, "ENOENT")
    BY <1>2, Zenon DEF Read
  <2>2. QED
    BY <2>1, RefusalSettles DEF Errno
<1>3. CASE ~IsDir(t, p) /\ IsFile(t, p)
  <2>1. done = Reply(t, Answer("data", t.files[p], {}))
    BY <1>3, Zenon DEF Read
  <2>2. t.files[p] \in Nat
    BY <1>3, SizeFacts DEF Sound, IsFile
  <2> HIDE DEF done
  <2>3. done.tree = t /\ done.answer.kind = "data" /\ done.answer.size = t.files[p]
        /\ done.answer \in Answers
    BY <2>1, <2>2, ReplyFacts DEF Kinds
  <2>4. QED
    BY <1>3, <2>2, <2>3 DEF Settled, Shown, Kinds, Errno, done
<1>4. QED
  BY <1>1, <1>2, <1>3

LEMMA ListSettles ==
  ASSUME NEW t, Sound(t), NEW call, IsCall(call), call.tool = "list"
  PROVE  Settled(t, call, List(t, call.path))
<1> DEFINE p == call.path
           done == List(t, p)
<1>1. CASE ~IsDir(t, p)
  <2>1. done = Refuse(t, "ENOTDIR")
    BY <1>1, Zenon DEF List
  <2>2. QED
    BY <2>1, RefusalSettles DEF Errno
<1>2. CASE IsDir(t, p)
  <2>1. done = Reply(t, Answer("names", 0, Listed(t, p)))
    BY <1>2, Zenon DEF List
  <2> HIDE DEF done
  <2>2. Listed(t, p) \subseteq Name
    BY ListedFacts DEF IsCall, Sound
  <2>3. /\ done.tree = t /\ done.answer.kind = "names" /\ done.answer \in Answers
        /\ done.answer.names = Listed(t, p)
    BY <2>1, <2>2, ReplyFacts DEF Kinds
  <2>4. QED
    BY <1>2, <2>3 DEF Settled, Shown, Kinds, Errno, done
<1>3. QED
  BY <1>1, <1>2

LEMMA WriteSettles ==
  ASSUME MaxBytes \in Nat, NEW t, Sound(t), NEW call, IsCall(call), call.tool = "write"
  PROVE  Settled(t, call, Write(t, call.path, call.size))
<1> DEFINE p == call.path
           size == call.size
           put == At(p, size)
           c == [NoChange EXCEPT !.put = put]
           done == Write(t, p, size)
           n == Apply(t, c)
<1>1. CASE \E e \in {"EISDIR", "ENOENT", "ENOSPC"} : done = Refuse(t, e)
  <2>1. PICK e \in {"EISDIR", "ENOENT", "ENOSPC"} : done = Refuse(t, e)
    BY <1>1
  <2>2. QED
    BY <2>1, RefusalSettles DEF Errno
<1>2. CASE done = Done(t, c) /\ ~IsDir(t, p) /\ IsDir(t, Parent(p)) /\ ~OverBudget(t, put)
  <2>1. p \in Paths /\ size \in Nat /\ Whole(t) /\ InBudget(t) /\ p # Root
    BY <1>2 DEF IsCall, Sound, IsDir
  <2>2. DOMAIN put = {p} /\ put[p] = size /\ put \in [{p} -> Nat] /\ IsFiniteSet({p})
    BY <2>1, FS_Singleton DEF At
  <2>3. c.put = put /\ c.drop = {} /\ c.rmdirs = {} /\ c.mkdirs = {}
    BY DEF NoChange
  <2> HIDE DEF put, c, n, done
  <2>4. IsChange(c) /\ IsTree(t) /\ IsFiniteSet(DOMAIN t.files)
    BY <2>1, <2>2, <2>3 DEF IsChange, Whole
  <2>5. /\ IsTree(n) /\ IsFiniteSet(DOMAIN n.files) /\ n.dirs = t.dirs
        /\ DOMAIN n.files = DOMAIN t.files \cup {p} /\ n.files[p] = size
        /\ \A q \in DOMAIN t.files \ {p} : n.files[q] = t.files[q]
    <3>1. /\ IsTree(n) /\ IsFiniteSet(DOMAIN n.files)
          /\ n.dirs = (t.dirs \ c.rmdirs) \cup c.mkdirs
          /\ DOMAIN n.files = DOMAIN c.put \cup (DOMAIN t.files \ c.drop)
          /\ \A q \in DOMAIN c.put : n.files[q] = c.put[q]
          /\ \A q \in DOMAIN t.files \ c.drop : q \notin DOMAIN c.put => n.files[q] = t.files[q]
      BY <2>4, ApplyFacts DEF n
    <3>2. QED
      BY <3>1, <2>2, <2>3
  <2>6. Puts(t, n, p, size)
    BY <2>5 DEF Puts, SameFiles
  <2>7. Whole(n)
    BY <1>2, <2>1, <2>5, <2>6, PutsIsWhole
  <2>8. InBudget(n)
    <3> DEFINE files == DOMAIN t.files
               kept == (files \ c.drop) \ DOMAIN c.put
               K == SumFunctionOnSet(t.files, kept)
               R == SumFunctionOnSet(t.files, files \ kept)
    <3>1. /\ SumFunction(n.files) = SumFunction(c.put) + K /\ SumFunction(t.files) = K + R
          /\ K \in Nat /\ R \in Nat /\ SumFunction(c.put) \in Nat
      BY <2>4, SumOfApply DEF n
    <3>2. files \ kept = DOMAIN put \cap files
      BY <2>2, <2>3
    <3>3. R = SumFunctionOnSet(t.files, DOMAIN put \cap files)
      BY <3>2
    <3> HIDE DEF K, R, kept
    <3>4. InMemory => ~(SumFunction(t.files) + SumFunction(put)
                        > MaxBytes + SumFunctionOnSet(t.files, DOMAIN put \cap files))
      BY <1>2 DEF OverBudget, InMemory
    <3> HIDE DEF files
    <3>5. QED
      BY <3>1, <3>3, <3>4, <2>3 DEF InBudget
  <2>9. done.tree = n /\ done.answer.kind = "ok" /\ done.answer \in Answers
    BY <1>2, DoneFacts DEF n
  <2>10. QED
    BY <1>2, <2>6, <2>7, <2>8, <2>9 DEF Settled, Shown, Sound, Kinds, Errno, done
<1>3. QED
  <2>1. p \in Paths /\ size \in Nat /\ Whole(t) /\ InBudget(t)
    BY DEF IsCall, Sound
  <2>2. \/ done = Done(t, c) /\ ~IsDir(t, p) /\ IsDir(t, Parent(p)) /\ ~OverBudget(t, put)
        \/ \E e \in {"EISDIR", "ENOENT", "ENOSPC"} : done = Refuse(t, e)
    <3> HIDE DEF p, size
    <3>1. QED
      BY <2>1, WriteFacts
  <2>3. QED
    BY <2>2, <1>1, <1>2

\* As many files as before, and a directory more or less: the same sum.
LEMMA SameSum ==
  ASSUME NEW t, Whole(t), NEW n, DOMAIN n.files = DOMAIN t.files, SameFiles(t, n, DOMAIN t.files)
  PROVE  SumFunction(n.files) = SumFunction(t.files)
<1>1. IsFiniteSet(DOMAIN t.files)
  BY DEF Whole
<1>2. SumFunctionOnSet(n.files, DOMAIN t.files) = SumFunctionOnSet(t.files, DOMAIN t.files)
  BY <1>1, SumOfSame DEF SameFiles
<1>3. QED
  BY <1>2 DEF SumFunction

LEMMA MkdirSettles ==
  ASSUME NEW t, Sound(t), NEW call, IsCall(call), call.tool = "mkdir"
  PROVE  Settled(t, call, Mkdir(t, call.path))
<1> DEFINE p == call.path
           c == [NoChange EXCEPT !.mkdirs = {p}]
           done == Mkdir(t, p)
           n == Apply(t, c)
<1>1. CASE IsDir(t, p) \/ IsFile(t, p)
  <2>1. done = Refuse(t, "EEXIST")
    BY <1>1, Zenon DEF Mkdir
  <2>2. QED
    BY <2>1, RefusalSettles DEF Errno
<1>2. CASE ~(IsDir(t, p) \/ IsFile(t, p)) /\ ~IsDir(t, Parent(p))
  <2>1. done = Refuse(t, "ENOENT")
    BY <1>2, Zenon DEF Mkdir
  <2>2. QED
    BY <2>1, RefusalSettles DEF Errno
<1>3. CASE ~(IsDir(t, p) \/ IsFile(t, p)) /\ IsDir(t, Parent(p))
  <2>1. done = Done(t, c)
    BY <1>3, Zenon DEF Mkdir
  <2>2. p \in Paths /\ p # Root /\ Whole(t)
    BY <1>3 DEF IsCall, Sound, IsDir
  <2>3. /\ c.put = <<>> /\ c.drop = {} /\ c.rmdirs = {} /\ c.mkdirs = {p}
        /\ DOMAIN c.put = {} /\ c.put \in [DOMAIN c.put -> Nat]
    BY NoChangeFacts DEF NoChange
  <2> HIDE DEF c, n, done
  <2>4. IsChange(c) /\ IsTree(t) /\ IsFiniteSet(DOMAIN t.files)
    BY <2>2, <2>3, FS_EmptySet DEF IsChange, Whole
  <2>5. /\ IsTree(n) /\ IsFiniteSet(DOMAIN n.files)
        /\ n.dirs = (t.dirs \ c.rmdirs) \cup c.mkdirs
        /\ DOMAIN n.files = DOMAIN c.put \cup (DOMAIN t.files \ c.drop)
        /\ \A q \in DOMAIN t.files \ c.drop : q \notin DOMAIN c.put => n.files[q] = t.files[q]
    BY <2>4, ApplyFacts DEF n
  <2>6. Makes(t, n, p)
    BY <2>5, <2>3 DEF Makes, SameFiles
  <2>7. Whole(n)
    BY <1>3, <2>2, <2>5, <2>6, MakesIsWhole
  <2>8. InBudget(n)
    BY <2>2, <2>6, SameSum DEF Makes, InBudget, Sound
  <2>9. done.tree = n /\ done.answer.kind = "ok" /\ done.answer \in Answers
    BY <2>1, DoneFacts DEF n
  <2>10. QED
    BY <1>3, <2>6, <2>7, <2>8, <2>9 DEF Settled, Shown, Sound, Kinds, Errno, done
<1>4. QED
  BY <1>1, <1>2, <1>3

LEMMA DropsInBudget ==
  ASSUME NEW t, Sound(t), NEW n, NEW p, Drops(t, n, p)
  PROVE  InBudget(n)
<1> DEFINE files == DOMAIN t.files
<1>1. IsFiniteSet(files) /\ \A q \in files : t.files[q] \in Nat
  BY DEF Sound, Whole, IsTree
<1>2. IsFiniteSet(files \ {p}) /\ files \ {p} \subseteq files /\ DOMAIN n.files = files \ {p}
      /\ \A q \in files \ {p} : n.files[q] = t.files[q]
  BY <1>1, FS_Subset DEF Drops, SameFiles
<1> HIDE DEF files
<1> DEFINE K == SumFunctionOnSet(t.files, files \ {p})
           R == SumFunctionOnSet(t.files, files \ (files \ {p}))
<1>3. SumFunctionOnSet(t.files, files) = K + R /\ K \in Nat /\ R \in Nat
  BY <1>1, <1>2, SumOfPart
<1>4. SumFunctionOnSet(n.files, files \ {p}) = K
  BY <1>2, SumOfSame
<1>5. SumFunction(n.files) = K /\ SumFunction(t.files) = K + R
  BY <1>2, <1>3, <1>4 DEF SumFunction, files
<1> HIDE DEF K, R
<1>6. QED
  BY <1>3, <1>5, SceneAssumption DEF Sound, InBudget, SceneAssumption

LEMMA DeleteSettles ==
  ASSUME NEW t, Sound(t), NEW call, IsCall(call), call.tool = "delete"
  PROVE  Settled(t, call, Delete(t, call.path))
<1> DEFINE p == call.path
           d == [NoChange EXCEPT !.rmdirs = {p}]
           f == [NoChange EXCEPT !.drop = {p}]
           done == Delete(t, p)
<1>1. p \in Paths /\ Whole(t) /\ IsTree(t) /\ IsFiniteSet(DOMAIN t.files)
  BY DEF IsCall, Sound, Whole
<1>2. ASSUME NEW c \in {d, f}, done = Done(t, c), p \in Nodes(t), c = d => p \in t.dirs,
             c = f => p \in DOMAIN t.files, \A q \in Nodes(t) : Under(q, p) => q = p
      PROVE  Settled(t, call, done)
  <2> DEFINE n == Apply(t, c)
  <2>1. /\ c.put = <<>> /\ c.mkdirs = {} /\ DOMAIN c.put = {}
        /\ c.put \in [DOMAIN c.put -> Nat]
        /\ \/ c = d /\ c.drop = {} /\ c.rmdirs = {p}
           \/ c = f /\ c.drop = {p} /\ c.rmdirs = {}
    BY NoChangeFacts DEF NoChange
  <2> HIDE DEF n, done, d, f
  <2>2. IsChange(c)
    BY <2>1, FS_EmptySet DEF IsChange
  <2>3. /\ IsTree(n) /\ IsFiniteSet(DOMAIN n.files)
        /\ n.dirs = (t.dirs \ c.rmdirs) \cup c.mkdirs
        /\ DOMAIN n.files = DOMAIN c.put \cup (DOMAIN t.files \ c.drop)
        /\ \A q \in DOMAIN t.files \ c.drop : q \notin DOMAIN c.put => n.files[q] = t.files[q]
    BY <1>1, <2>2, ApplyFacts DEF n
  <2>4. t.dirs \cap DOMAIN t.files = {}
    BY <1>1 DEF Whole
  <2>5. Drops(t, n, p)
    <3>1. CASE c = d
      BY <3>1, <1>2, <2>1, <2>3, <2>4 DEF Drops, SameFiles
    <3>2. CASE c = f
      BY <3>2, <1>2, <2>1, <2>3, <2>4 DEF Drops, SameFiles
    <3>3. QED
      BY <2>1, <3>1, <3>2
  <2>6. \A q \in Nodes(t) : ~(Parent(q) = p)
    <3>1. \A q \in Nodes(t) : /\ q \in Paths /\ q # Root /\ Parent(q) \in Paths
                              /\ Len(Parent(q)) = Len(q) - 1 /\ Len(q) \in Nat \ {0}
      BY <1>1, NodeParent
    <3>2. \A q \in Nodes(t) : Under(q, Parent(q)) /\ q # Parent(q)
      BY <3>1, UnderParent, UnderOrder
    <3>3. QED
      BY <1>2, <3>2
  <2>7. Whole(n)
    BY <1>1, <1>2, <2>3, <2>5, <2>6, DropsIsWhole
  <2>8. InBudget(n)
    BY <2>5, DropsInBudget
  <2>9. done.tree = n /\ done.answer.kind = "ok" /\ done.answer \in Answers
    BY <1>2, DoneFacts DEF n
  <2>10. QED
    BY <1>2, <2>5, <2>7, <2>8, <2>9 DEF Settled, Shown, Sound, Kinds, Errno
<1>3. CASE IsFile(t, p)
  <2>1. done = Done(t, f)
    BY <1>3, Zenon DEF Delete
  <2>2. \A q \in Nodes(t) : Under(q, p) => q = p
    BY <1>1, <1>3, AboveIsDir, SizeFacts DEF IsFile
  <2>3. p \in Nodes(t) /\ p \in DOMAIN t.files /\ p \notin t.dirs
    BY <1>1, <1>3 DEF Whole, Nodes, IsFile
  <2>4. f # d
    BY DEF NoChange
  <2>5. Settled(t, call, done)
    <3> HIDE DEF f, d, done, p
    <3>1. QED
      BY <2>1, <2>2, <2>3, <2>4, <1>2
  <2>6. QED
    BY <2>5
<1>4. CASE ~IsFile(t, p) /\ p \notin t.dirs
  <2>1. done = Refuse(t, "ENOENT")
    BY <1>4, Zenon DEF Delete
  <2>2. QED
    BY <2>1, RefusalSettles DEF Errno
<1>5. CASE ~IsFile(t, p) /\ p \in t.dirs /\ Listed(t, p) # {}
  <2>1. done = Refuse(t, "ENOTEMPTY")
    BY <1>5, Zenon DEF Delete
  <2>2. QED
    BY <2>1, RefusalSettles DEF Errno
<1>6. CASE ~IsFile(t, p) /\ p \in t.dirs /\ Listed(t, p) = {}
  <2>1. done = Done(t, d)
    BY <1>6, Zenon DEF Delete
  <2>2. \A q \in Nodes(t) : Under(q, p) => q = p
    BY <1>1, <1>6, ListedFacts
  <2>3. p \in Nodes(t)
    BY <1>6 DEF Nodes
  <2>4. f # d
    BY DEF NoChange
  <2>5. Settled(t, call, done)
    <3> HIDE DEF f, d, done, p
    <3>1. QED
      BY <2>1, <2>2, <2>3, <2>4, <1>6, <1>2
  <2>6. QED
    BY <2>5
<1>7. QED
  BY <1>3, <1>4, <1>5, <1>6

\* A file takes its size along, on to whatever file there is.
LEMMA MoveFileSettles ==
  ASSUME NEW t, Sound(t), NEW p \in DOMAIN t.files, NEW target \in Paths, ~IsDir(t, target),
         IsDir(t, Parent(target))
  PROVE  LET n == Apply(t, [NoChange EXCEPT !.drop = {p}, !.put = At(target, t.files[p])]) IN
         Sound(n) /\ Moves(t, n, p, target) /\ CanMove(t, p, target)
<1> DEFINE put == At(target, t.files[p])
           c == [NoChange EXCEPT !.drop = {p}, !.put = put]
           n == Apply(t, c)
           files == DOMAIN t.files
<1>1. /\ Whole(t) /\ IsTree(t) /\ IsFiniteSet(files) /\ InBudget(t)
      /\ t.dirs \subseteq Paths /\ files \subseteq Paths
  BY DEF Sound, Whole, IsTree, Paths
<1>2. /\ p \in Paths /\ p # Root /\ t.files[p] \in Nat /\ ~IsDir(t, p) /\ p \in Nodes(t)
      /\ target # Root
  BY <1>1, SizeFacts DEF Nodes, IsDir
<1>3. Parent(target) \in Paths
  BY <1>2, ParentFacts
<1>4. (\A q \in Nodes(t) : Under(q, p) => q = p) /\ (\A q \in Nodes(t) : Under(q, target) => q = target)
  BY <1>1, <1>2, AboveIsDir
<1>5. ~Under(Parent(target), p)
  <2>1. Parent(target) = Root \/ Parent(target) \in Nodes(t)
    BY DEF IsDir, Nodes
  <2>2. Under(Root, p) => p = Root
    BY <1>2, UnderOrder
  <2>3. QED
    BY <1>2, <1>4, <2>1, <2>2
<1>6. CanMove(t, p, target)
  BY <1>2, <1>4, <1>5 DEF CanMove
<1>7. DOMAIN put = {target} /\ put[target] = t.files[p] /\ put \in [{target} -> Nat]
      /\ IsFiniteSet({target})
  BY <1>2, FS_Singleton DEF At
<1>8. c.put = put /\ c.drop = {p} /\ c.rmdirs = {} /\ c.mkdirs = {}
  BY DEF NoChange
<1> HIDE DEF put, c, n
<1>9. IsChange(c)
  BY <1>2, <1>7, <1>8 DEF IsChange
<1>10. /\ IsTree(n) /\ IsFiniteSet(DOMAIN n.files)
       /\ n.dirs = (t.dirs \ c.rmdirs) \cup c.mkdirs
       /\ DOMAIN n.files = DOMAIN c.put \cup (DOMAIN t.files \ c.drop)
       /\ \A q \in DOMAIN c.put : n.files[q] = c.put[q]
       /\ \A q \in DOMAIN t.files \ c.drop : q \notin DOMAIN c.put => n.files[q] = t.files[q]
  BY <1>1, <1>9, ApplyFacts DEF n
<1>11. Under(p, p) /\ Rebased(p, p, target) = target
  BY <1>2, UnderOrder, RebasedFacts
<1>12. /\ Leaving(p, files) = {p} /\ Leaving(p, t.dirs) = {}
       /\ Landed(p, target, files) = {target} /\ Landed(p, target, t.dirs) = {}
  <2>1. Leaving(p, files) = {p} /\ Leaving(p, t.dirs) = {}
    BY <1>2, <1>4, <1>11 DEF Leaving, Nodes, IsDir
  <2>2. QED
    BY <2>1, <1>11 DEF Landed
<1>13. /\ Staying(p, target, t.dirs) = t.dirs
       /\ Staying(p, target, files) = (files \ {p}) \ {target}
  BY <1>2, <1>4, <1>11 DEF Staying, Nodes, IsDir
<1>14. Moves(t, n, p, target)
  BY <1>7, <1>8, <1>10, <1>11, <1>12, <1>13 DEF Moves, SameFiles
<1>15. Whole(n)
  BY <1>1, <1>6, <1>10, <1>14, MovesIsWhole
<1>16. SumFunction(n.files) <= SumFunction(t.files)
  BY <1>1, <1>6, <1>10, <1>14, MovesInBudget
<1>17. SumFunction(n.files) \in Nat /\ SumFunction(t.files) \in Nat
  BY <1>1, <1>10, SumIsNumber DEF SumFunction, IsTree
<1>18. InBudget(n)
  BY <1>1, <1>16, <1>17, SceneAssumption DEF InBudget, SceneAssumption
<1>19. QED
  BY <1>6, <1>14, <1>15, <1>18 DEF Sound, n, c, put

\* A directory takes all that is under it along, and an empty one in its way is gone.
LEMMA MoveDirSettles ==
  ASSUME NEW t, Sound(t), NEW p \in t.dirs, NEW target \in Paths, ~IsFile(t, target),
         IsDir(t, target) => Listed(t, target) = {}, IsDir(t, Parent(target)), ~Under(target, p)
  PROVE  LET n == Apply(t, MoveOf(t, p, target)) IN
         Sound(n) /\ Moves(t, n, p, target) /\ CanMove(t, p, target)
<1> DEFINE c == MoveOf(t, p, target)
           n == Apply(t, c)
           files == DOMAIN t.files
           A == Leaving(p, files)
           L == Landed(p, target, files)
           b == [q \in A |-> Rebased(q, p, target)]
<1>1. /\ Whole(t) /\ IsTree(t) /\ IsFiniteSet(files) /\ InBudget(t) /\ t.dirs \subseteq Paths
      /\ files \subseteq Paths /\ \A q \in files : t.files[q] \in Nat
  BY DEF Sound, Whole, IsTree, Paths
<1>2. p \in Nodes(t) /\ p \in Paths /\ p # Root
  BY <1>1, NodeParent DEF Nodes
<1>3. target # Root
  <2>1. Under(p, Root) /\ Root \in Paths
    BY <1>2, UnderOrder, RootPath
  <2>2. Listed(t, Root) # {}
    BY <1>1, <1>2, <2>1, ListedFacts
  <2>3. QED
    BY <2>2 DEF IsDir
<1>4. \A q \in Nodes(t) : Under(q, target) => q = target
  <2>1. CASE IsDir(t, target)
    BY <1>1, <2>1, ListedFacts
  <2>2. CASE ~IsDir(t, target)
    BY <1>1, <2>2, AboveIsDir
  <2>3. QED
    BY <2>1, <2>2
<1>5. Parent(target) \in Paths /\ ~Under(Parent(target), p)
  <2>1. Parent(target) \in Paths
    BY <1>3, ParentFacts
  <2>2. Under(target, Parent(target))
    BY <1>3, <2>1, UnderParent, UnderOrder
  <2>3. QED
    BY <1>2, <2>1, <2>2, UnderOrder
<1>6. CanMove(t, p, target)
  BY <1>2, <1>3, <1>4, <1>5 DEF CanMove
<1>7. /\ \A q \in A : q \in files /\ b[q] \in L /\ b[q] \in Paths
                      /\ Under(b[q], target) /\ Rebased(b[q], target, p) = q
      /\ \A r \in L : r \in Paths /\ Under(r, target) /\ Rebased(r, target, p) \in files
                      /\ Under(Rebased(r, target, p), p)
      /\ \A r \in Landed(p, target, t.dirs) : r \in Paths /\ Under(r, target)
  <2>1. \A q \in A : q \in files /\ b[q] = Rebased(q, p, target)
    BY DEF Leaving
  <2>2. QED
    BY <1>1, <1>2, <2>1, LandedFacts
<1>8. Root \notin L /\ Root \notin Landed(p, target, t.dirs)
  <2>1. ~Under(Root, target)
    BY <1>3, UnderOrder
  <2>2. QED
    BY <1>7, <2>1
<1>9. /\ c.drop = A /\ c.rmdirs = Leaving(p, t.dirs) \cup (t.dirs \cap {target})
      /\ c.mkdirs = Landed(p, target, t.dirs)
      /\ c.put = [r \in L |-> t.files[Rebased(r, target, p)]]
  BY DEF MoveOf, Leaving, Landed
<1>10. IsFiniteSet(L)
  <2>1. IsFiniteSet(A)
    BY <1>1, FS_Subset DEF Leaving
  <2>2. L = {b[q] : q \in A}
    BY DEF Landed
  <2> HIDE DEF A, L, b
  <2>3. QED
    BY <2>1, <2>2, FiniteImage
<1> HIDE DEF c, n, L
<1>11. c.put \in [L -> Nat] /\ DOMAIN c.put = L
  BY <1>1, <1>7, <1>9
<1>12. IsChange(c)
  BY <1>7, <1>8, <1>9, <1>10, <1>11 DEF IsChange
<1>13. /\ IsTree(n) /\ IsFiniteSet(DOMAIN n.files)
       /\ n.dirs = (t.dirs \ c.rmdirs) \cup c.mkdirs
       /\ DOMAIN n.files = DOMAIN c.put \cup (DOMAIN t.files \ c.drop)
       /\ \A q \in DOMAIN c.put : n.files[q] = c.put[q]
       /\ \A q \in DOMAIN t.files \ c.drop : q \notin DOMAIN c.put => n.files[q] = t.files[q]
  BY <1>1, <1>12, ApplyFacts DEF n
<1>14. /\ Staying(p, target, t.dirs) = t.dirs \ c.rmdirs
       /\ Staying(p, target, files) = files \ A
  BY <1>9 DEF Staying, Leaving, IsFile
<1>15. \A q \in files \ A : q \notin L
  <2>1. \A q \in files \ A : q \in Nodes(t) /\ q # target
    BY DEF Nodes, IsFile
  <2>2. QED
    BY <2>1, <1>4, <1>7
<1>16. Moves(t, n, p, target)
  <2>1. \A q \in A : n.files[Rebased(q, p, target)] = t.files[q]
    BY <1>7, <1>9, <1>11, <1>13
  <2>2. n.dirs = Landed(p, target, t.dirs) \cup Staying(p, target, t.dirs)
    BY <1>9, <1>13, <1>14
  <2>3. DOMAIN n.files = L \cup Staying(p, target, files)
    BY <1>9, <1>11, <1>13, <1>14
  <2>4. SameFiles(t, n, Staying(p, target, files))
    BY <1>9, <1>11, <1>13, <1>14, <1>15 DEF SameFiles
  <2>5. QED
    BY <2>1, <2>2, <2>3, <2>4 DEF Moves, L
<1>17. Whole(n)
  BY <1>1, <1>6, <1>13, <1>16, MovesIsWhole
<1>18. SumFunction(n.files) <= SumFunction(t.files)
  BY <1>1, <1>6, <1>13, <1>16, MovesInBudget
<1>19. SumFunction(n.files) \in Nat /\ SumFunction(t.files) \in Nat
  BY <1>1, <1>13, SumIsNumber DEF SumFunction, IsTree
<1>20. InBudget(n)
  BY <1>1, <1>18, <1>19, SceneAssumption DEF InBudget, SceneAssumption
<1>21. QED
  BY <1>6, <1>16, <1>17, <1>20 DEF Sound, n, c

LEMMA RenameSettles ==
  ASSUME NEW t, Sound(t), NEW call, IsCall(call), call.tool = "rename"
  PROVE  Settled(t, call, Rename(t, call.path, call.target))
<1> DEFINE p == call.path
           target == call.target
           done == Rename(t, p, target)
<1>1. p \in Paths /\ target \in Paths
  BY DEF IsCall
<1>2. ASSUME NEW e \in {"ENOENT", "EISDIR", "EINVAL", "ENOTEMPTY"}, done = Refuse(t, e)
      PROVE  Settled(t, call, done)
  BY <1>2, RefusalSettles DEF Errno
<1>3. ASSUME NEW c, done = Done(t, c), Sound(Apply(t, c)), Moves(t, Apply(t, c), p, target),
             CanMove(t, p, target)
      PROVE  Settled(t, call, done)
  <2>1. done.tree = Apply(t, c) /\ done.answer.kind = "ok" /\ done.answer \in Answers
    BY <1>3, DoneFacts
  <2> HIDE DEF done
  <2>2. QED
    BY <1>3, <2>1 DEF Settled, Shown, Kinds, Errno
<1>4. CASE ~IsDir(t, Parent(target))
  <2>1. done = Refuse(t, "ENOENT")
    BY <1>4, Zenon DEF Rename
  <2>2. QED
    BY <2>1, <1>2
<1>5. CASE IsDir(t, Parent(target)) /\ IsFile(t, p) /\ IsDir(t, target)
  <2>1. done = Refuse(t, "EISDIR")
    BY <1>5, Zenon DEF Rename
  <2>2. QED
    BY <2>1, <1>2
<1>6. CASE IsDir(t, Parent(target)) /\ IsFile(t, p) /\ ~IsDir(t, target)
  <2> DEFINE c == [NoChange EXCEPT !.drop = {p}, !.put = At(target, t.files[p])]
  <2>1. done = Done(t, c)
    BY <1>6, Zenon DEF Rename
  <2>2. Sound(Apply(t, c)) /\ Moves(t, Apply(t, c), p, target) /\ CanMove(t, p, target)
    BY <1>1, <1>6, MoveFileSettles DEF IsFile
  <2> HIDE DEF c
  <2>3. QED
    BY <2>1, <2>2, <1>3
<1>7. CASE IsDir(t, Parent(target)) /\ ~IsFile(t, p) /\ p \notin t.dirs
  <2>1. done = Refuse(t, "ENOENT")
    BY <1>7, Zenon DEF Rename
  <2>2. QED
    BY <2>1, <1>2
<1>8. CASE IsDir(t, Parent(target)) /\ ~IsFile(t, p) /\ p \in t.dirs
  <2>1. CASE Under(target, p)
    <3>1. done = Refuse(t, "EINVAL")
      BY <1>8, <2>1, Zenon DEF Rename
    <3>2. QED
      BY <3>1, <1>2
  <2>2. CASE ~Under(target, p) /\ (IsFile(t, target) \/ (IsDir(t, target) /\ Listed(t, target) # {}))
    <3>1. done = Refuse(t, "ENOTEMPTY")
      BY <1>8, <2>2, Zenon DEF Rename
    <3>2. QED
      BY <3>1, <1>2
  <2>3. CASE ~Under(target, p) /\ ~(IsFile(t, target) \/ (IsDir(t, target) /\ Listed(t, target) # {}))
    <3> DEFINE c == MoveOf(t, p, target)
    <3>1. done = Done(t, c)
      BY <1>8, <2>3, Zenon DEF Rename
    <3>2. Sound(Apply(t, c)) /\ Moves(t, Apply(t, c), p, target) /\ CanMove(t, p, target)
      BY <1>1, <1>8, <2>3, MoveDirSettles
    <3> HIDE DEF c
    <3>3. QED
      BY <3>1, <3>2, <1>3
  <2>4. QED
    BY <2>1, <2>2, <2>3
<1>9. QED
  BY <1>4, <1>5, <1>6, <1>7, <1>8

LEMMA CallSettles ==
  ASSUME NEW t, Sound(t), NEW call, IsCall(call)
  PROVE  Settled(t, call, Call(t, call))
<1>1. CASE call.tool = "stat"
  <2>1. Call(t, call) = Stat(t, call.path)
    BY <1>1 DEF Call
  <2>2. QED
    BY <1>1, <2>1, StatSettles
<1>2. CASE call.tool = "read"
  <2>1. Call(t, call) = Read(t, call.path)
    BY <1>2 DEF Call
  <2>2. QED
    BY <1>2, <2>1, ReadSettles
<1>3. CASE call.tool = "list"
  <2>1. Call(t, call) = List(t, call.path)
    BY <1>3 DEF Call
  <2>2. QED
    BY <1>3, <2>1, ListSettles
<1>4. CASE call.tool = "write"
  <2>1. Call(t, call) = Write(t, call.path, call.size)
    BY <1>4 DEF Call
  <2>2. MaxBytes \in Nat
    BY SceneAssumption DEF SceneAssumption
  <2>3. QED
    BY <1>4, <2>1, <2>2, WriteSettles
<1>5. CASE call.tool = "mkdir"
  <2>1. Call(t, call) = Mkdir(t, call.path)
    BY <1>5 DEF Call
  <2>2. QED
    BY <1>5, <2>1, MkdirSettles
<1>6. CASE call.tool = "delete"
  <2>1. Call(t, call) = Delete(t, call.path)
    BY <1>6 DEF Call
  <2>2. QED
    BY <1>6, <2>1, DeleteSettles
<1>7. CASE call.tool = "rename"
  <2>1. Call(t, call) = Rename(t, call.path, call.target)
    BY <1>7 DEF Call
  <2>2. QED
    BY <1>7, <2>1, RenameSettles
<1>8. QED
  BY <1>1, <1>2, <1>3, <1>4, <1>5, <1>6, <1>7 DEF IsCall, Tools

----------------------------------------------------------------------------
(* What an operation does next *)

IsOp(op) ==
  /\ {op.path, op.target} \subseteq Paths /\ op.data \in Nat /\ op.name \in Operations
  /\ op.name = "open" => op.flags \in {{"r"}, {"w"}, {"a"}}

\* A call, or the end of the operation.
IsNext(call) == call.tool = "none" \/ IsCall(call)
Changing == {"write", "delete", "rename"}

LEMMA AskFacts ==
  ASSUME NEW tool, NEW p \in Paths
  PROVE  Ask(tool, p).tool = tool /\ (tool \in Tools => IsCall(Ask(tool, p)))
  BY RootPath DEF Ask, IsCall

LEMMA PutFacts ==
  ASSUME NEW p \in Paths, NEW size \in Nat
  PROVE  IsCall(Put(p, size)) /\ Put(p, size).tool = "write"
  BY RootPath DEF Put, Ask, IsCall, Tools

LEMMA MoveFacts ==
  ASSUME NEW p \in Paths, NEW target \in Paths
  PROVE  IsCall(Move(p, target)) /\ Move(p, target).tool = "rename"
  BY RootPath DEF Move, Ask, IsCall, Tools

LEMMA EndFacts == ASSUME NEW out PROVE End(out).tool = "none" /\ Return.tool = "none"
  BY DEF End, Ask, Return

LEMMA ExistingFacts ==
  ASSUME NEW op, IsOp(op), NEW seen, NEW wrong, NEW errno, NEW next
  PROVE  LET call == Existing(op, seen, wrong, errno, next) IN
         \/ seen = <<>> /\ call = Ask("stat", op.path)
         \/ seen # <<>> /\ seen[1].kind \in {"none", wrong} /\ call.tool = "none"
         \/ seen # <<>> /\ seen[1].kind \notin {"none", wrong} /\ call = next
  BY EndFacts, Zenon DEF Existing

LEMMA SeenFacts ==
  ASSUME NEW seen \in Seq(Answers), NEW a \in Answers
  PROVE  /\ Len(seen) \in Nat /\ (seen = <<>> <=> Len(seen) = 0)
         /\ \A i \in 1 .. Len(seen) : seen[i] \in Answers /\ seen[i].size \in Nat
         /\ Append(seen, a) \in Seq(Answers) /\ Append(seen, a) # <<>>
         /\ Len(Append(seen, a)) = Len(seen) + 1
         /\ seen # <<>> => Append(seen, a)[1] = seen[1] /\ Len(Append(seen, a)) # 1
         /\ Len(seen) = 2 => seen # <<>> /\ seen[2].size \in Nat /\ Len(Append(seen, a)) = 3
<1>1. /\ Len(seen) \in Nat /\ (seen = <<>> <=> Len(seen) = 0)
      /\ \A i \in 1 .. Len(seen) : seen[i] \in Answers
  BY EmptySeq, ElementOfSeq, LenProperties
<1>2. /\ Append(seen, a) \in Seq(Answers) /\ Append(seen, a) # <<>>
      /\ Len(Append(seen, a)) = Len(seen) + 1
      /\ \A i \in 1 .. Len(seen) : Append(seen, a)[i] = seen[i]
  BY AppendProperties
<1>3. seen # <<>> => 1 \in 1 .. Len(seen)
  BY <1>1
<1>4. \A x \in Answers : x.size \in Nat
  BY DEF Answers
<1>5. \A n \in Nat : n = 2 => 2 \in 1 .. n /\ n # 0 /\ n + 1 = 3
  OBVIOUS
<1>6. Len(seen) = 2 => seen[2] \in Answers
  BY <1>1, <1>5
<1>7. \A n \in Nat : n # 0 => n + 1 # 1
  OBVIOUS
<1>8. QED
  BY <1>1, <1>2, <1>3, <1>4, <1>5, <1>6, <1>7

\* The next call is one that its tool takes, and after a change there is none.
GoesOn(op, seen, a, now, after) ==
  /\ IsNext(now) /\ now.tool # "mkdir"
  /\ now.tool \in Changing => after.tool = "none"

LEMMA OpenGoesOn ==
  ASSUME NEW op, IsOp(op), NEW seen \in Seq(Answers), NEW a \in Answers
  PROVE  GoesOn(op, seen, a, Open(op, seen), Open(op, Append(seen, a)))
<1> DEFINE now == Open(op, seen)
           after == Open(op, Append(seen, a))
<1>1. op.path \in Paths
  BY DEF IsOp
<1>2. CASE seen = <<>>
  <2>1. now = Ask("stat", op.path)
    BY <1>2, Zenon DEF Open
  <2> HIDE DEF now, after
  <2>2. QED
    BY <1>1, <2>1, AskFacts DEF GoesOn, IsNext, Tools, Changing, now, after
<1>3. CASE seen # <<>>
  <2>1. \/ now.tool = "none"
        \/ Len(seen) = 1 /\ now = Put(op.path, 0)
    BY <1>3, EndFacts, Zenon DEF Open
  <2>2. Len(Append(seen, a)) # 1
    BY <1>3, SeenFacts
  <2>3. after.tool = "none"
    BY <2>2, SeenFacts, EndFacts, Zenon DEF Open
  <2>4. 0 \in Nat
    OBVIOUS
  <2> HIDE DEF now, after
  <2>5. QED
    BY <1>1, <2>1, <2>3, <2>4, PutFacts DEF GoesOn, IsNext, now, after
<1>4. QED
  BY <1>2, <1>3

LEMMA AppendGoesOn ==
  ASSUME NEW op, IsOp(op), NEW seen \in Seq(Answers), NEW a \in Answers
  PROVE  GoesOn(op, seen, a, AppendTo(op, seen), AppendTo(op, Append(seen, a)))
<1> DEFINE now == AppendTo(op, seen)
           after == AppendTo(op, Append(seen, a))
<1>1. op.path \in Paths /\ op.data \in Nat
  BY DEF IsOp
<1>2. CASE seen = <<>>
  <2>1. now = Ask("stat", op.path)
    BY <1>2, Zenon DEF AppendTo
  <2> HIDE DEF now, after
  <2>2. QED
    BY <1>1, <2>1, AskFacts DEF GoesOn, IsNext, Tools, Changing, now, after
<1>3. CASE seen # <<>> /\ seen[1].kind = "none"
  <2>1. \/ now.tool = "none"
        \/ Len(seen) = 1 /\ now = Put(op.path, op.data)
    BY <1>3, EndFacts, Zenon DEF AppendTo
  <2>2. /\ Len(Append(seen, a)) # 1 /\ Append(seen, a) # <<>>
        /\ Append(seen, a)[1].kind = "none"
    BY <1>3, SeenFacts
  <2>3. after.tool = "none"
    BY <2>2, EndFacts, Zenon DEF AppendTo
  <2> HIDE DEF now, after
  <2>4. QED
    BY <1>1, <2>1, <2>3, PutFacts DEF GoesOn, IsNext, now, after
<1>4. CASE seen # <<>> /\ seen[1].kind # "none"
  <2>1. \/ now.tool = "none"
        \/ now = Ask("read", op.path)
        \/ Len(seen) = 2 /\ now = Put(op.path, seen[2].size + op.data)
    BY <1>4, EndFacts, Zenon DEF AppendTo
  <2>2. Len(seen) = 2 => seen[2].size + op.data \in Nat
    <3>1. Len(seen) = 2 => seen[2].size \in Nat
      BY SeenFacts
    <3>2. QED
      BY <1>1, <3>1
  <2>3. /\ Append(seen, a) # <<>> /\ Append(seen, a)[1].kind # "none"
        /\ Len(seen) = 2 => Len(Append(seen, a)) # 1 /\ Len(Append(seen, a)) # 2
    <3>1. /\ Append(seen, a) # <<>> /\ Append(seen, a)[1].kind # "none"
          /\ Len(seen) = 2 => Len(Append(seen, a)) = 3
      BY <1>4, SeenFacts
    <3>2. QED
      BY <3>1
  <2>4. Len(seen) = 2 => after.tool = "none"
    BY <2>3, EndFacts, Zenon DEF AppendTo
  <2> HIDE DEF now, after
  <2>5. CASE Len(seen) = 2 /\ now = Put(op.path, seen[2].size + op.data)
    BY <1>1, <2>2, <2>4, <2>5, PutFacts DEF GoesOn, IsNext, now, after
  <2>6. CASE now.tool = "none" \/ now = Ask("read", op.path)
    BY <1>1, <2>6, AskFacts DEF GoesOn, IsNext, Tools, Changing, now, after
  <2>7. QED
    BY <2>1, <2>5, <2>6
<1>5. QED
  BY <1>2, <1>3, <1>4

LEMMA RemoveGoesOn ==
  ASSUME NEW op, IsOp(op), NEW seen \in Seq(Answers), NEW a \in Answers
  PROVE  GoesOn(op, seen, a, RemoveDir(op, seen), RemoveDir(op, Append(seen, a)))
<1> DEFINE now == RemoveDir(op, seen)
           after == RemoveDir(op, Append(seen, a))
           Then(s) == IF Len(s) = 1 THEN Ask("list", op.path)
                      ELSE IF s[2].names # {} THEN End("ENOTEMPTY")
                      ELSE IF Len(s) = 2 THEN Ask("delete", op.path)
                      ELSE Return
<1>1. op.path \in Paths
  BY DEF IsOp
<1>2. CASE op.path = Root
  <2>1. now = End("EACCES") /\ after = End("EACCES")
    BY <1>2, Zenon DEF RemoveDir
  <2> HIDE DEF now, after
  <2>2. QED
    BY <2>1, EndFacts DEF GoesOn, IsNext, now, after
<1>3. CASE op.path # Root
  <2>1. \A s : RemoveDir(op, s) = Existing(op, s, "file", "ENOTDIR", Then(s))
    BY <1>3, Zenon DEF RemoveDir
  <2>2. /\ \/ Then(seen).tool = "none" \/ Then(seen) = Ask("list", op.path)
           \/ Len(seen) = 2 /\ Then(seen) = Ask("delete", op.path)
        /\ Len(Append(seen, a)) # 1 /\ Len(Append(seen, a)) # 2 => Then(Append(seen, a)).tool = "none"
    BY EndFacts, Zenon
  <2> HIDE DEF Then
  <2>3. \/ now = Ask("stat", op.path) \/ now.tool = "none" \/ now = Ask("list", op.path)
        \/ Len(seen) = 2 /\ now = Ask("delete", op.path)
    BY <2>1, <2>2, ExistingFacts
  <2>4. Len(seen) = 2 => after.tool = "none"
    <3> DEFINE s == Append(seen, a)
               then == Then(s)
    <3>1. Len(seen) = 2 => Len(s) = 3 /\ s # <<>>
      BY SeenFacts
    <3>2. Len(seen) = 2 => then.tool = "none"
      BY <2>2, <3>1
    <3>3. after = Existing(op, s, "file", "ENOTDIR", then)
      BY <2>1
    <3> HIDE DEF s, then, after
    <3>4. QED
      BY <3>1, <3>2, <3>3, ExistingFacts
  <2> HIDE DEF now, after
  <2>5. QED
    BY <1>1, <2>3, <2>4, AskFacts DEF GoesOn, IsNext, Tools, Changing, now, after
<1>4. QED
  BY <1>2, <1>3

\* An operation of one call that follows a look.
LEMMA OnceGoesOn ==
  ASSUME NEW op, IsOp(op), NEW seen \in Seq(Answers), NEW a \in Answers, NEW wrong, NEW errno,
         NEW next, NEW last, next.tool = "none" \/ (IsCall(next) /\ next.tool # "mkdir"),
         Len(Append(seen, a)) # 1 => last.tool = "none"
  PROVE  GoesOn(op, seen, a, Existing(op, seen, wrong, errno, next),
                             Existing(op, Append(seen, a), wrong, errno, last))
<1> DEFINE now == Existing(op, seen, wrong, errno, next)
           s == Append(seen, a)
           after == Existing(op, s, wrong, errno, last)
<1>1. op.path \in Paths
  BY DEF IsOp
<1>2. \/ now = Ask("stat", op.path) \/ now.tool = "none"
      \/ seen # <<>> /\ now = next
  BY ExistingFacts
<1>3. seen # <<>> => Len(s) # 1 /\ s # <<>>
  BY SeenFacts
<1> HIDE DEF s
<1>4. seen # <<>> => after.tool = "none"
  BY <1>3, ExistingFacts
<1> HIDE DEF now, after
<1>5. GoesOn(op, seen, a, now, after)
  BY <1>1, <1>2, <1>4, AskFacts DEF GoesOn, IsNext, Tools, Changing
<1>6. QED
  BY <1>5 DEF now, after, s

\* The ancestors to be made, as a function over how far down they were looked up.
Climbs(f, op, seen, n) ==
  f = [i \in 0 .. n |->
         IF i = 0 THEN <<>>
         ELSE IF seen[i + 1].kind = "none" THEN Append(f[i - 1], SubSeq(op.path, 1, i))
         ELSE f[i - 1]]

LEMMA MissingExists ==
  ASSUME NEW op, NEW seen, NEW n \in Nat
  PROVE  \E f : Climbs(f, op, seen, n)
<1> DEFINE N == {m \in Nat : \E f : Climbs(f, op, seen, m)}
<1>1. 0 \in N
  <2> DEFINE f == [i \in 0 .. 0 |-> <<>>]
  <2>1. \A i \in 0 .. 0 : i = 0
    OBVIOUS
  <2>2. Climbs(f, op, seen, 0)
    BY <2>1 DEF Climbs
  <2>3. QED
    BY <2>2
<1>2. ASSUME NEW m \in Nat, m \in N
      PROVE  m + 1 \in N
  <2>1. PICK f : Climbs(f, op, seen, m)
    BY <1>2
  <2> DEFINE last == IF seen[(m + 1) + 1].kind = "none" THEN Append(f[m], SubSeq(op.path, 1, m + 1))
                     ELSE f[m]
             g == [i \in 0 .. m + 1 |-> IF i = m + 1 THEN last ELSE f[i]]
  <2>2. \A i \in 0 .. m + 1 : i # m + 1 => i \in 0 .. m
    OBVIOUS
  <2>3. \A i \in 0 .. m + 1 : i # 0 => i - 1 \in 0 .. m + 1 /\ i - 1 # m + 1
    OBVIOUS
  <2>4. g[m + 1] = last /\ \A i \in 0 .. m : g[i] = f[i] /\ i \in 0 .. m + 1
    OBVIOUS
  <2>5. ASSUME NEW i \in 0 .. m + 1
        PROVE  g[i] = IF i = 0 THEN <<>>
                      ELSE IF seen[i + 1].kind = "none" THEN Append(g[i - 1], SubSeq(op.path, 1, i))
                      ELSE g[i - 1]
    <3>1. CASE i = m + 1
      <4>1. (m + 1) - 1 = m /\ m \in 0 .. m /\ m + 1 # 0
        OBVIOUS
      <4>2. g[i - 1] = f[m]
        BY <3>1, <4>1, <2>4
      <4> HIDE DEF g
      <4>3. QED
        BY <3>1, <4>1, <4>2, <2>4
    <3>2. CASE i # m + 1
      <4>1. i \in 0 .. m /\ g[i] = f[i] /\ (i # 0 => g[i - 1] = f[i - 1])
        BY <3>2, <2>2, <2>3, <2>4
      <4>2. f[i] = IF i = 0 THEN <<>>
                   ELSE IF seen[i + 1].kind = "none" THEN Append(f[i - 1], SubSeq(op.path, 1, i))
                   ELSE f[i - 1]
        BY <2>1, <4>1 DEF Climbs
      <4> HIDE DEF g
      <4>3. QED
        BY <4>1, <4>2
    <3>3. QED
      BY <3>1, <3>2
  <2>6. Climbs(g, op, seen, m + 1)
    <3>1. g = [i \in 0 .. m + 1 |-> g[i]]
      OBVIOUS
    <3> HIDE DEF g
    <3>2. QED
      BY <3>1, <2>5 DEF Climbs
  <2>7. QED
    BY <2>6
<1>3. QED
  <2> HIDE DEF N
  <2>1. n \in N
    BY <1>1, <1>2, NumberInduction
  <2>2. QED
    BY <2>1 DEF N

LEMMA MissingTypes ==
  ASSUME NEW op, op.path \in Paths \ {Root}, NEW seen
  PROVE  Missing(op, seen) \in Seq(Paths)
<1> DEFINE n == Len(op.path) - 1
           f == CHOOSE f : Climbs(f, op, seen, n)
<1>1. n \in Nat /\ n < Len(op.path)
  BY ParentFacts
<1>2. Climbs(f, op, seen, n)
  <2> HIDE DEF n
  <2>1. QED
    BY <1>1, MissingExists
<1>3. Missing(op, seen) = f[n]
  BY Zenon DEF Missing, Climbs
<1> DEFINE N == {m \in Nat : m <= n => f[m] \in Seq(Paths)}
<1> HIDE DEF f, n
<1>4. 0 \in N
  <2>1. 0 \in 0 .. n /\ <<>> \in Seq(Paths)
    BY <1>1
  <2>2. QED
    BY <1>2, <2>1 DEF Climbs
<1>5. ASSUME NEW m \in Nat, m \in N
      PROVE  m + 1 \in N
  <2>1. CASE m + 1 <= n
    <3>1. m + 1 \in 0 .. n /\ (m + 1) - 1 = m /\ m + 1 # 0 /\ m <= n
      BY <1>1, <2>1
    <3>2. \/ f[m + 1] = f[m] \/ f[m + 1] = Append(f[m], SubSeq(op.path, 1, m + 1))
      BY <1>2, <3>1 DEF Climbs
    <3>3. SubSeq(op.path, 1, m + 1) \in Paths
      <4>1. m + 1 \in Int /\ 0 <= m + 1 /\ m + 1 <= Len(op.path)
        BY <1>1, <2>1, ParentFacts
      <4>2. QED
        BY <4>1, PrefixFacts
    <3>4. f[m] \in Seq(Paths)
      BY <1>5, <3>1
    <3>5. \A q \in Seq(Paths), r \in Paths : Append(q, r) \in Seq(Paths)
      BY AppendProperties
    <3>6. f[m + 1] \in Seq(Paths)
      BY <3>2, <3>3, <3>4, <3>5, Zenon
    <3>7. QED
      BY <3>6
  <2>2. QED
    BY <2>1
<1>6. n \in N
  <2> HIDE DEF N
  <2>1. QED
    BY <1>1, <1>4, <1>5, NumberInduction
<1>7. QED
  BY <1>1, <1>3, <1>6

\* Of a path that is there, or is the root's, nothing is made.
LEMMA MakeDirTypes ==
  ASSUME NEW op, IsOp(op), NEW seen \in Seq(Answers), op.path = Root => seen = <<>>
  PROVE  IsNext(MakeDir(op, seen))
<1> DEFINE n == Len(seen)
           k == Len(op.path) - 1
           ancestors == [i \in 1 .. k |-> SubSeq(op.path, 1, i)]
           todo == Append(Missing(op, seen), op.path)
           made == n - 1 - Len(ancestors)
           call == MakeDir(op, seen)
<1>1. op.path \in Paths /\ n \in Nat
  BY LenProperties DEF IsOp
<1>2. CASE n = 0
  <2>1. call = Ask("stat", op.path)
    BY <1>2, Zenon DEF MakeDir
  <2> HIDE DEF call
  <2>2. QED
    BY <1>1, <2>1, AskFacts DEF IsNext, Tools, call
<1>3. CASE n # 0
  <2>1. op.path # Root
    BY <1>3, EmptySeq
  <2>2. k \in Nat /\ k < Len(op.path) /\ op.path \in Paths \ {Root}
    BY <1>1, <2>1, ParentFacts
  <2>3. ancestors \in Seq(Paths) /\ Len(ancestors) = k /\ \A i \in 1 .. k : ancestors[i] \in Paths
    <3> HIDE DEF k
    <3>1. \A i \in 1 .. k : SubSeq(op.path, 1, i) \in Paths
      <4>1. \A i \in 1 .. k : i \in Int /\ 0 <= i /\ i <= Len(op.path)
        BY <2>2, LenProperties DEF Paths
      <4>2. QED
        BY <4>1, <1>1, PrefixFacts
    <3>2. QED
      BY <2>2, <3>1
  <2>4. todo \in Seq(Paths) /\ Len(todo) \in Nat
    <3>1. Missing(op, seen) \in Seq(Paths)
      BY <2>2, MissingTypes
    <3>2. QED
      BY <1>1, <3>1, AppendProperties, LenProperties
  <2>5. \/ call.tool = "none"
        \/ n - 1 < Len(ancestors) /\ call = Ask("stat", ancestors[n])
        \/ ~(n - 1 < Len(ancestors)) /\ made < Len(todo) /\ call = Ask("mkdir", todo[made + 1])
    BY <1>3, EndFacts, Zenon DEF MakeDir
  <2> HIDE DEF ancestors, todo, call, k
  <2>6. n - 1 < Len(ancestors) => ancestors[n] \in Paths
    BY <1>1, <1>3, <2>2, <2>3
  <2>7. ~(n - 1 < Len(ancestors)) /\ made < Len(todo) => todo[made + 1] \in Paths
    <3>1. ~(n - 1 < Len(ancestors)) /\ made < Len(todo) => made + 1 \in 1 .. Len(todo)
      BY <1>1, <2>2, <2>3, <2>4
    <3>2. QED
      BY <3>1, <2>4, ElementOfSeq
  <2> HIDE DEF n, made
  <2>8. IsNext(call)
    BY <2>5, <2>6, <2>7, AskFacts DEF IsNext, Tools
  <2>9. QED
    BY <2>8 DEF call
<1>4. QED
  BY <1>2, <1>3

LEMMA PerformGoesOn ==
  ASSUME NEW op, IsOp(op), op.name # "mkdir", NEW seen \in Seq(Answers), NEW a \in Answers
  PROVE  GoesOn(op, seen, a, Perform(op, seen), Perform(op, Append(seen, a)))
<1> DEFINE s == Append(seen, a)
           now == Perform(op, seen)
           after == Perform(op, s)
           Then(call, x) == IF Len(x) = 1 THEN call ELSE Return
<1>1. op.path \in Paths /\ op.target \in Paths /\ op.data \in Nat /\ s # <<>>
  BY SeenFacts DEF IsOp
<1>13. \A call, x : (Then(call, x) = call \/ Then(call, x).tool = "none")
                  /\ (Len(x) # 1 => Then(call, x).tool = "none")
  BY EndFacts, Zenon
<1>14. ASSUME NEW call, IsCall(call), call.tool # "mkdir", NEW wrong, NEW errno,
             \A x : Perform(op, x) = Existing(op, x, wrong, errno, Then(call, x))
      PROVE  GoesOn(op, seen, a, now, after)
  <2> DEFINE next == Then(call, seen)
             last == Then(call, s)
  <2>1. /\ next.tool = "none" \/ (IsCall(next) /\ next.tool # "mkdir")
        /\ Len(s) # 1 => last.tool = "none"
    <3> HIDE DEF Then
    <3>1. QED
      BY <1>13, <1>14
  <2>2. /\ now = Existing(op, seen, wrong, errno, next)
        /\ after = Existing(op, s, wrong, errno, last)
    BY <1>14
  <2> HIDE DEF next, last, now, after
  <2>3. QED
    BY <2>1, <2>2, OnceGoesOn
<1>2. CASE op.name = "exists"
  <2>1. now = (IF seen = <<>> THEN Ask("stat", op.path) ELSE Return) /\ after = Return
    BY <1>1, <1>2 DEF Perform
  <2> HIDE DEF now, after
  <2>2. QED
    BY <1>1, <2>1, AskFacts, EndFacts DEF GoesOn, IsNext, Tools, Changing, now, after
<1>3. CASE op.name = "stat"
  <2>1. now = Existing(op, seen, "nothing", "", Return) /\ after = Existing(op, s, "nothing", "", Return)
    BY <1>3 DEF Perform
  <2>2. Return.tool = "none"
    BY EndFacts
  <2> HIDE DEF now, after
  <2>3. GoesOn(op, seen, a, now, after)
    BY <2>1, <2>2, OnceGoesOn
  <2>4. QED
    BY <2>3 DEF now, after
<1>4. CASE op.name = "open"
  <2>1. now = Open(op, seen) /\ after = Open(op, s)
    BY <1>4 DEF Perform
  <2>2. QED
    BY <2>1, OpenGoesOn
<1>5. CASE op.name = "read"
  <2> DEFINE call == Ask("read", op.path)
  <2>1. \A x : Perform(op, x) = Existing(op, x, "dir", "EISDIR", Then(call, x))
    BY <1>5 DEF Perform
  <2>2. IsCall(call) /\ call.tool # "mkdir"
    BY <1>1, AskFacts DEF Tools
  <2>3. GoesOn(op, seen, a, now, after)
    <3> HIDE DEF call, Then, now, after
    <3>1. QED
      BY <2>1, <2>2, <1>14
  <2>4. QED
    BY <2>3
<1>6. CASE op.name = "write"
  <2>1. now = (IF seen = <<>> THEN Put(op.path, op.data) ELSE Return) /\ after = Return
    BY <1>1, <1>6 DEF Perform
  <2> HIDE DEF now, after
  <2>2. QED
    BY <1>1, <2>1, PutFacts, EndFacts DEF GoesOn, IsNext, now, after
<1>7. CASE op.name = "append"
  <2>1. now = AppendTo(op, seen) /\ after = AppendTo(op, s)
    BY <1>7 DEF Perform
  <2>2. QED
    BY <2>1, AppendGoesOn
<1>8. CASE op.name = "iterdir"
  <2> DEFINE call == Ask("list", op.path)
  <2>1. \A x : Perform(op, x) = Existing(op, x, "file", "ENOTDIR", Then(call, x))
    BY <1>8 DEF Perform
  <2>2. IsCall(call) /\ call.tool # "mkdir"
    BY <1>1, AskFacts DEF Tools
  <2>3. GoesOn(op, seen, a, now, after)
    <3> HIDE DEF call, Then, now, after
    <3>1. QED
      BY <2>1, <2>2, <1>14
  <2>4. QED
    BY <2>3
<1>9. CASE op.name = "unlink"
  <2> DEFINE call == Ask("delete", op.path)
  <2>1. \A x : Perform(op, x) = Existing(op, x, "dir", "EISDIR", Then(call, x))
    BY <1>9 DEF Perform
  <2>2. IsCall(call) /\ call.tool # "mkdir"
    BY <1>1, AskFacts DEF Tools
  <2>3. GoesOn(op, seen, a, now, after)
    <3> HIDE DEF call, Then, now, after
    <3>1. QED
      BY <2>1, <2>2, <1>14
  <2>4. QED
    BY <2>3
<1>10. CASE op.name = "rmdir"
  <2>1. now = RemoveDir(op, seen) /\ after = RemoveDir(op, s)
    BY <1>10 DEF Perform
  <2>2. QED
    BY <2>1, RemoveGoesOn
<1>11. CASE op.name = "rename"
  <2> DEFINE call == Move(op.path, op.target)
  <2>1. \A x : Perform(op, x) = Existing(op, x, "nothing", "", Then(call, x))
    BY <1>11 DEF Perform
  <2>2. IsCall(call) /\ call.tool # "mkdir"
    BY <1>1, MoveFacts
  <2>3. GoesOn(op, seen, a, now, after)
    <3> HIDE DEF call, Then, now, after
    <3>1. QED
      BY <2>1, <2>2, <1>14
  <2>4. QED
    BY <2>3
<1>12. QED
  BY <1>2, <1>3, <1>4, <1>5, <1>6, <1>7, <1>8, <1>9, <1>10, <1>11 DEF IsOp, Operations

LEMMA PerformTypes ==
  ASSUME NEW op, IsOp(op), NEW seen \in Seq(Answers),
         op.name = "mkdir" /\ op.path = Root => seen = <<>>
  PROVE  IsNext(Perform(op, seen))
<1>1. CASE op.name = "mkdir"
  <2>1. Perform(op, seen) = MakeDir(op, seen)
    BY <1>1 DEF Perform
  <2>2. QED
    BY <1>1, <2>1, MakeDirTypes
<1>2. CASE op.name # "mkdir"
  <2>1. PICK a : a = Just("ok")
    OBVIOUS
  <2>2. a \in Answers
    BY <2>1 DEF Just, Answer, Answers, Kinds
  <2>3. QED
    BY <1>2, <2>2, PerformGoesOn DEF GoesOn
<1>3. QED
  BY <1>1, <1>2

\* A mkdir of the root looks, and finds a directory.
LEMMA MkdirOfRoot ==
  ASSUME NEW op, op.name = "mkdir", op.path = Root
  PROVE  /\ Perform(op, <<>>) = Ask("stat", Root)
         /\ \A a \in Answers : a.kind = "dir" => Perform(op, Append(<<>>, a)).tool = "none"
<1>1. \A seen : Perform(op, seen) = MakeDir(op, seen)
  BY DEF Perform
<1>2. Len(<<>>) = 0 /\ <<>> \in Seq(Answers)
  BY EmptySeq
<1>3. MakeDir(op, <<>>) = Ask("stat", Root)
  BY <1>2, Zenon DEF MakeDir
<1>4. ASSUME NEW a \in Answers, a.kind = "dir"
      PROVE  MakeDir(op, Append(<<>>, a)).tool = "none"
  <2>1. Append(<<>>, a)[1] = a /\ Len(Append(<<>>, a)) = 1
    BY <1>2, AppendProperties
  <2>2. Append(<<>>, a)[1].kind = "dir" /\ Append(<<>>, a)[1].kind # "none" /\ Len(Append(<<>>, a)) # 0
    BY <1>4, <2>1
  <2>3. QED
    BY <2>2, EndFacts, Zenon DEF MakeDir
<1>5. QED
  BY <1>1, <1>3, <1>4

----------------------------------------------------------------------------
(* The inductive invariant *)

\* What the seed of a scene may be: no file of it lies below another, and where it is
\* loaded into memory there is one script. (Two scripts may load it one after the other,
\* and then what the first has done since is in the second one's way.)
SoundSeeds ==
  \A sc \in Scenes :
    /\ \A p, q \in DOMAIN sc.seed : Under(q, p) => q = p
    /\ sc.backend = "memory" /\ sc.seed # <<>> => \E s \in Script : sc.scripts = {s}

\* What an answer says of the call's paths, whatever happens to the mount after it.
Plausible(call, answer) ==
  /\ call.tool = "stat" =>
       /\ answer.kind \in {"dir", "file", "none"}
       /\ call.path = Root => answer.kind = "dir"
  /\ call.tool = "list" => answer.names \subseteq Name
  /\ call.tool \in {"read", "write", "mkdir", "delete", "rename"} => call.path # Root
  /\ call.tool = "rename" => call.target # Root

Calling == {"call", "sent", "run"}
IsScript(x, tries) ==
  /\ x = [stage |-> x.stage, op |-> x.op, seen |-> x.seen, reply |-> x.reply, tries |-> x.tries,
          out |-> x.out]
  /\ x.stage \in Stages /\ IsOp(x.op) /\ x.seen \in Seq(Answers) /\ x.reply \in Answers
  /\ x.tries \in 0 .. tries
  /\ x.stage \in Calling =>
       /\ Perform(x.op, x.seen).tool # "none"
       /\ x.op.name = "mkdir" /\ x.op.path = Root => x.seen = <<>>
  /\ x.stage = "run" /\ x.reply.kind \notin Errno => Plausible(Perform(x.op, x.seen), x.reply)

IsIndex(i) ==
  DOMAIN i \subseteq Paths \ {Root} /\ \A p \in DOMAIN i : i[p].kind \in {"dir", "file", "named"}

\* Nothing happens to a mount before it is seeded.
SeedInv ==
  /\ ~seeded => InMemory /\ scene.seed # <<>> /\ tree = Nothing
  /\ \A s \in Script : (script[s].stage \in {"seed", "seeding"} => ~seeded)
                       /\ (script[s].stage \in Calling => seeded)

Inv ==
  /\ scene \in Scenes /\ seeded \in BOOLEAN
  /\ Sound(tree) /\ IsTree(before) /\ IsIndex(index)
  /\ script = [s \in Script |-> script[s]]
  /\ \A s \in Script : IsScript(script[s], scene.tries)
                       /\ (s \notin scene.scripts => script[s].stage = "ready")
  /\ SeedInv

\* An index that says only what is so.
Says(e, p, t) ==
  /\ e.kind = "dir" => p \in t.dirs
  /\ e.kind = "file" => p \in DOMAIN t.files /\ t.files[p] = e.size
  /\ p \in Nodes(t)
Agrees(i, t) == IsIndex(i) /\ \A p \in DOMAIN i : Says(i[p], p, t)

\* The index of a lone session, with the result that is on its way to it.
Coming(s) ==
  IF script[s].stage = "run" /\ script[s].reply.kind \notin Errno
  THEN Recorded(index, NextCall(s), script[s].reply) ELSE index
IndexInv ==
  \A s \in Script :
    scene.scripts = {s} /\ ~scene.lossy /\ ~InMemory =>
      /\ Agrees(Coming(s), tree)
      /\ scene.seed = <<>> => DOMAIN Coming(s) = Nodes(tree)

----------------------------------------------------------------------------
(* The index *)

LEMMA PutDirFacts ==
  ASSUME NEW i, IsIndex(i), NEW p \in Paths
  PROVE  /\ IsIndex(PutDir(i, p)) /\ DOMAIN PutDir(i, p) = DOMAIN i \cup Upwards(p)
         /\ \A q \in Upwards(p) : PutDir(i, p)[q].kind = "dir"
         /\ \A q \in DOMAIN i : q \notin Upwards(p) => PutDir(i, p)[q] = i[q]
<1>1. Upwards(p) \subseteq Paths \ {Root}
  BY UpwardsMeaning
<1>2. Entry("dir", 0).kind = "dir"
  BY DEF Entry
<1>3. /\ DOMAIN PutDir(i, p) = DOMAIN i \cup Upwards(p)
      /\ \A q \in Upwards(p) : PutDir(i, p)[q] = Entry("dir", 0)
      /\ \A q \in DOMAIN i : q \notin Upwards(p) => PutDir(i, p)[q] = i[q]
  BY DEF PutDir
<1>4. QED
  BY <1>1, <1>2, <1>3 DEF IsIndex

LEMMA DropFacts ==
  ASSUME NEW i, IsIndex(i), NEW p
  PROVE  /\ IsIndex(Drop(i, p)) /\ DOMAIN Drop(i, p) = {q \in DOMAIN i : ~Under(q, p)}
         /\ \A q \in DOMAIN Drop(i, p) : Drop(i, p)[q] = i[q]
<1>1. /\ DOMAIN Drop(i, p) = {q \in DOMAIN i : ~Under(q, p)}
      /\ \A q \in DOMAIN Drop(i, p) : Drop(i, p)[q] = i[q]
  BY DEF Drop, Restrict
<1>2. QED
  BY <1>1 DEF IsIndex

HasFile(i, p, size, j) ==
  /\ IsIndex(j) /\ DOMAIN j = {p} \cup DOMAIN i \cup Upwards(Parent(p))
  /\ j[p].kind = "file" /\ j[p].size = size
  /\ \A q \in Upwards(Parent(p)) : q # p => j[q].kind = "dir"
  /\ \A q \in DOMAIN i : q # p /\ q \notin Upwards(Parent(p)) => j[q] = i[q]

LEMMA PutFileFacts ==
  ASSUME NEW i, IsIndex(i), NEW p \in Paths \ {Root}, NEW size
  PROVE  HasFile(i, p, size, PutFile(i, p, size))
<1> DEFINE d == PutDir(i, Parent(p))
           e == Entry("file", size)
           j == PutFile(i, p, size)
<1>1. /\ IsIndex(d) /\ DOMAIN d = DOMAIN i \cup Upwards(Parent(p))
      /\ \A q \in Upwards(Parent(p)) : d[q].kind = "dir"
      /\ \A q \in DOMAIN i : q \notin Upwards(Parent(p)) => d[q] = i[q]
  <2>1. Parent(p) \in Paths
    BY ParentFacts
  <2>2. QED
    BY <2>1, PutDirFacts
<1>2. e.kind = "file" /\ e.size = size
  BY DEF Entry
<1>3. j = Over(At(p, e), d)
  BY DEF PutFile
<1> HIDE DEF d, e, j
<1>4. /\ DOMAIN j = {p} \cup DOMAIN d /\ j[p] = e
      /\ \A q \in DOMAIN d : q # p => j[q] = d[q]
  <2> DEFINE f == At(p, e)
  <2>1. DOMAIN f = {p} /\ f[p] = e /\ j = Over(f, d)
    BY <1>3, AtFacts
  <2> HIDE DEF f
  <2>2. /\ DOMAIN Over(f, d) = DOMAIN f \cup DOMAIN d
        /\ \A q \in DOMAIN f : Over(f, d)[q] = f[q]
        /\ \A q \in DOMAIN d : q \notin DOMAIN f => Over(f, d)[q] = d[q]
    BY DEF Over
  <2>3. QED
    BY <2>1, <2>2
<1>5. IsIndex(j)
  BY <1>1, <1>2, <1>4 DEF IsIndex
<1>6. QED
  BY <1>1, <1>2, <1>4, <1>5 DEF HasFile, j

LEMMA SawListFacts ==
  ASSUME NEW i, IsIndex(i), NEW p \in Paths, NEW names, names \subseteq Name
  PROVE  LET listed == {Append(p, name) : name \in names}
             d == PutDir(i, p)
             j == SawList(i, p, names) IN
         /\ IsIndex(j) /\ listed \subseteq DOMAIN j /\ DOMAIN j \subseteq DOMAIN d \cup listed
         /\ \A q \in DOMAIN d :
              (Len(q) > Len(p) /\ Under(q, p) => SubSeq(q, 1, Len(p) + 1) \in listed) => q \in DOMAIN j
         /\ \A q \in DOMAIN j : \/ q \in DOMAIN d /\ j[q] = d[q]
                                \/ q \in listed /\ j[q].kind = "named"
<1> DEFINE listed == {Append(p, name) : name \in names}
           d == PutDir(i, p)
           kept == {q \in DOMAIN d :
                      Len(q) > Len(p) /\ Under(q, p) => SubSeq(q, 1, Len(p) + 1) \in listed}
           j == SawList(i, p, names)
<1>1. IsIndex(d)
  BY PutDirFacts
<1>2. listed \subseteq Paths \ {Root}
  BY ChildFacts
<1>3. Entry("named", 0).kind = "named"
  BY DEF Entry
<1>4. j = [q \in kept \cup listed |-> IF q \in kept THEN d[q] ELSE Entry("named", 0)]
  BY Zenon DEF SawList
<1>5. kept \subseteq DOMAIN d
  OBVIOUS
<1>6. \A q \in DOMAIN d :
        (Len(q) > Len(p) /\ Under(q, p) => SubSeq(q, 1, Len(p) + 1) \in listed) => q \in kept
  OBVIOUS
<1> HIDE DEF listed, d, kept, j
<1>7. /\ DOMAIN j = kept \cup listed
      /\ \A q \in kept : j[q] = d[q]
      /\ \A q \in listed : q \notin kept => j[q] = Entry("named", 0)
  BY <1>4
<1>8. IsIndex(j)
  BY <1>1, <1>2, <1>3, <1>5, <1>7 DEF IsIndex
<1>9. \A q \in DOMAIN j : (q \in DOMAIN d /\ j[q] = d[q]) \/ (q \in listed /\ j[q].kind = "named")
  BY <1>3, <1>5, <1>7
<1>10. listed \subseteq DOMAIN j /\ DOMAIN j \subseteq DOMAIN d \cup listed
  BY <1>5, <1>7
<1>11. \A q \in DOMAIN d :
         (Len(q) > Len(p) /\ Under(q, p) => SubSeq(q, 1, Len(p) + 1) \in listed) => q \in DOMAIN j
  BY <1>6, <1>7
<1>12. QED
  BY <1>8, <1>9, <1>10, <1>11, Zenon DEF listed, d, j

LEMMA MovedFacts ==
  ASSUME NEW i, IsIndex(i), NEW p \in Paths, NEW target \in Paths \ {Root}
  PROVE  LET j == Moved(i, p, target)
             landed == Landed(p, target, DOMAIN i)
             stay == {q \in DOMAIN i : ~Under(q, target) /\ ~Under(q, p)}
             above == Upwards(Parent(target)) IN
         /\ IsIndex(j) /\ DOMAIN j = landed \cup stay \cup above
         /\ \A r \in landed : j[r] = i[Rebased(r, target, p)]
         /\ \A r \in above : r \notin landed => j[r].kind = "dir"
         /\ \A r \in stay : r \notin landed \cup above => j[r] = i[r]
<1> DEFINE landed == Landed(p, target, DOMAIN i)
           stay == {q \in DOMAIN i : ~Under(q, target) /\ ~Under(q, p)}
           above == Upwards(Parent(target))
           moved == [r \in landed |-> i[Rebased(r, target, p)]]
           left == Drop(Drop(i, target), p)
           d == PutDir(left, Parent(target))
           j == Moved(i, p, target)
<1>1. DOMAIN i \subseteq Paths /\ Parent(target) \in Paths
  BY ParentFacts DEF IsIndex
<1>2. \A r \in landed : /\ r \in Paths /\ Under(r, target) /\ Rebased(r, target, p) \in DOMAIN i
  BY <1>1, LandedFacts
<1>3. \A r \in landed : r # Root
  BY <1>2, UnderOrder
<1>4. /\ IsIndex(left) /\ DOMAIN left = stay /\ \A q \in stay : left[q] = i[q]
  <2> DEFINE half == Drop(i, target)
  <2>1. /\ IsIndex(half) /\ DOMAIN half = {q \in DOMAIN i : ~Under(q, target)}
        /\ \A q \in DOMAIN half : half[q] = i[q]
    BY DropFacts
  <2>2. left = Drop(half, p)
    OBVIOUS
  <2> HIDE DEF half, left
  <2>3. /\ IsIndex(left) /\ DOMAIN left = {q \in DOMAIN half : ~Under(q, p)}
        /\ \A q \in DOMAIN left : left[q] = half[q]
    BY <2>1, <2>2, DropFacts
  <2>4. DOMAIN left = stay
    BY <2>1, <2>3
  <2>5. QED
    BY <2>1, <2>3, <2>4
<1>5. j = Over(moved, d)
  BY DEF Moved, Landed, Leaving
<1>6. DOMAIN moved = landed /\ \A r \in landed : moved[r] = i[Rebased(r, target, p)]
  OBVIOUS
<1> HIDE DEF landed, stay, moved, left, j
<1>7. /\ IsIndex(d) /\ DOMAIN d = stay \cup above /\ \A q \in above : d[q].kind = "dir"
      /\ \A q \in stay : q \notin above => d[q] = i[q]
  BY <1>1, <1>4, PutDirFacts
<1> HIDE DEF above, d
<1>8. /\ DOMAIN j = landed \cup (stay \cup above)
      /\ \A r \in landed : j[r] = i[Rebased(r, target, p)]
      /\ \A r \in stay \cup above : r \notin landed => j[r] = d[r]
  <2>1. /\ DOMAIN Over(moved, d) = DOMAIN moved \cup DOMAIN d
        /\ \A q \in DOMAIN moved : Over(moved, d)[q] = moved[q]
        /\ \A q \in DOMAIN d : q \notin DOMAIN moved => Over(moved, d)[q] = d[q]
    BY DEF Over
  <2>2. QED
    BY <1>5, <1>6, <1>7, <2>1
<1>9. IsIndex(j)
  <2>1. landed \subseteq Paths \ {Root}
    BY <1>2, <1>3
  <2>2. \A r \in landed : j[r].kind \in {"dir", "file", "named"}
    BY <1>2, <1>8 DEF IsIndex
  <2>3. \A r \in stay \cup above : r \notin landed => j[r].kind \in {"dir", "file", "named"}
    BY <1>7, <1>8 DEF IsIndex
  <2>4. QED
    BY <1>7, <1>8, <2>1, <2>2, <2>3 DEF IsIndex
<1>10. \A r \in above : r \notin landed => j[r].kind = "dir"
  BY <1>7, <1>8
<1>11. \A r \in stay : r \notin landed \cup above => j[r] = i[r]
  BY <1>7, <1>8
<1>12. DOMAIN j = landed \cup stay \cup above
  BY <1>8
<1>13. QED
  BY <1>8, <1>9, <1>10, <1>11, <1>12, Zenon DEF landed, stay, above, j

\* Whatever was answered, and whatever has happened since, the index stays one.
LEMMA RecordTypes ==
  ASSUME NEW i, IsIndex(i), NEW call, IsCall(call), NEW a \in Answers, Plausible(call, a)
  PROVE  IsIndex(Recorded(i, call, a))
<1> DEFINE p == call.path
           j == Recorded(i, call, a)
<1>1. p \in Paths /\ call.target \in Paths
  BY DEF IsCall
<1>2. CASE call.tool = "stat"
  <2>1. CASE a.kind = "none"
    <3>1. j = Drop(i, p)
      BY <1>2, <2>1 DEF Recorded
    <3> HIDE DEF p, j
    <3>2. IsIndex(j)
      BY <3>1, DropFacts
    <3>3. QED
      BY <3>2 DEF j
  <2>2. CASE a.kind = "dir"
    <3>1. j = PutDir(i, p)
      BY <1>2, <2>2 DEF Recorded
    <3>2. QED
      BY <1>1, <3>1, PutDirFacts
  <2>3. CASE a.kind = "file"
    <3>1. j = PutFile(i, p, a.size)
      BY <1>2, <2>3 DEF Recorded
    <3>2. p \in Paths \ {Root}
      BY <1>1, <1>2, <2>3 DEF Plausible
    <3> HIDE DEF p, j
    <3>3. IsIndex(j)
      BY <3>1, <3>2, PutFileFacts DEF HasFile
    <3>4. QED
      BY <3>3 DEF j
  <2>4. QED
    BY <1>2, <2>1, <2>2, <2>3 DEF Plausible
<1>3. CASE call.tool \in {"read", "write"}
  <2>1. p \in Paths \ {Root}
    BY <1>1, <1>3 DEF Plausible
  <2>2. PICK size : j = PutFile(i, p, size)
    BY <1>3 DEF Recorded
  <2> HIDE DEF p, j
  <2>3. IsIndex(j)
    BY <2>1, <2>2, PutFileFacts DEF HasFile
  <2>4. QED
    BY <2>3 DEF j
<1>4. CASE call.tool = "list"
  <2>1. j = SawList(i, p, a.names)
    BY <1>4 DEF Recorded
  <2>2. QED
    BY <1>1, <1>4, <2>1, SawListFacts DEF Plausible
<1>5. CASE call.tool = "mkdir"
  <2>1. j = PutDir(i, p)
    BY <1>5 DEF Recorded
  <2>2. QED
    BY <1>1, <2>1, PutDirFacts
<1>6. CASE call.tool = "delete"
  <2>1. j = Drop(i, p)
    BY <1>6 DEF Recorded
  <2> HIDE DEF p, j
  <2>2. IsIndex(j)
    BY <2>1, DropFacts
  <2>3. QED
    BY <2>2 DEF j
<1>7. CASE call.tool = "rename"
  <2>1. j = Moved(i, p, call.target)
    BY <1>7 DEF Recorded
  <2>2. call.target \in Paths \ {Root}
    BY <1>1, <1>7 DEF Plausible
  <2> DEFINE target == call.target
  <2> HIDE DEF p, j, target
  <2>3. IsIndex(j)
    BY <1>1, <2>1, <2>2, MovedFacts DEF target
  <2>4. QED
    BY <2>3 DEF j
<1>8. QED
  BY <1>2, <1>3, <1>4, <1>5, <1>6, <1>7 DEF IsCall, Tools

\* The index stays true, and stays whole where it was.
Keeps(i, t, j, n) == Agrees(j, n) /\ (DOMAIN i = Nodes(t) => DOMAIN j = Nodes(n))

LEMMA UpwardsDirs ==
  ASSUME NEW t, Whole(t), NEW p \in Paths, IsDir(t, p)
  PROVE  Upwards(p) \subseteq t.dirs
<1>1. ASSUME NEW q \in Upwards(p)
      PROVE  q \in t.dirs
  <2>1. q \in Paths /\ q # Root /\ Under(p, q)
    BY UpwardsMeaning
  <2>2. p # Root
    BY <2>1, UnderOrder
  <2>3. p \in t.dirs /\ p \in Nodes(t)
    BY <2>2 DEF IsDir, Nodes
  <2>4. q # p => IsDir(t, q)
    BY <2>1, <2>3, AboveIsDir
  <2>5. QED
    BY <2>1, <2>3, <2>4 DEF IsDir
<1>2. QED
  BY <1>1

LEMMA PutDirAgrees ==
  ASSUME NEW n, Whole(n), NEW i, IsIndex(i), NEW p \in Paths, IsDir(n, p),
         \A q \in DOMAIN i : q \notin Upwards(p) => Says(i[q], q, n)
  PROVE  Agrees(PutDir(i, p), n)
<1> DEFINE d == PutDir(i, p)
<1>1. /\ IsIndex(d) /\ DOMAIN d = DOMAIN i \cup Upwards(p)
      /\ \A q \in Upwards(p) : d[q].kind = "dir"
      /\ \A q \in DOMAIN i : q \notin Upwards(p) => d[q] = i[q]
  BY PutDirFacts
<1> HIDE DEF d
<1>2. Upwards(p) \subseteq n.dirs
  BY UpwardsDirs
<1>3. \A q \in Upwards(p) : Says(d[q], q, n)
  BY <1>1, <1>2 DEF Says, Nodes
<1>4. \A q \in DOMAIN i : q \notin Upwards(p) => Says(d[q], q, n)
  BY <1>1
<1>5. QED
  BY <1>1, <1>3, <1>4 DEF Agrees, d

LEMMA PutFileAgrees ==
  ASSUME NEW n, Whole(n), NEW i, IsIndex(i), NEW p \in DOMAIN n.files,
         \A q \in DOMAIN i : q # p => Says(i[q], q, n)
  PROVE  /\ Agrees(PutFile(i, p, n.files[p]), n)
         /\ DOMAIN i \subseteq DOMAIN PutFile(i, p, n.files[p]) /\ p \in DOMAIN PutFile(i, p, n.files[p])
<1>9. PICK size : size = n.files[p]
  OBVIOUS
<1> DEFINE j == PutFile(i, p, size)
<1>1. p \in Paths \ {Root} /\ p \in Nodes(n) /\ p \notin n.dirs
  BY SizeFacts DEF Nodes, IsDir
<1>2. Parent(p) \in Paths /\ IsDir(n, Parent(p))
  BY <1>1, ParentFacts DEF Whole
<1>3. /\ IsIndex(j) /\ DOMAIN j = {p} \cup DOMAIN i \cup Upwards(Parent(p))
      /\ j[p].kind = "file" /\ j[p].size = size
      /\ \A q \in Upwards(Parent(p)) : q # p => j[q].kind = "dir"
      /\ \A q \in DOMAIN i : q # p /\ q \notin Upwards(Parent(p)) => j[q] = i[q]
  <2>1. HasFile(i, p, size, j)
    BY <1>1, PutFileFacts
  <2> HIDE DEF j
  <2>2. QED
    BY <2>1 DEF HasFile
<1> HIDE DEF j
<1>4. Upwards(Parent(p)) \subseteq n.dirs
  BY <1>2, UpwardsDirs
<1>5. \A q \in Upwards(Parent(p)) : q # p => Says(j[q], q, n)
  BY <1>3, <1>4 DEF Says, Nodes
<1>6. \A q \in DOMAIN i : q # p /\ q \notin Upwards(Parent(p)) => Says(j[q], q, n)
  BY <1>3
<1>7. Says(j[p], p, n)
  BY <1>1, <1>3, <1>9 DEF Says
<1>8. QED
  BY <1>3, <1>5, <1>6, <1>7, <1>9 DEF Agrees, j

\* What a look, a read or a listing shows.
LEMMA LookKeeps ==
  ASSUME NEW t, Whole(t), NEW call, IsCall(call), NEW a \in Answers, call.tool \in {"stat", "read", "list"},
         Shown(t, call, t, a), NEW i, Agrees(i, t)
  PROVE  Keeps(i, t, Recorded(i, call, a), t)
<1> DEFINE p == call.path
           j == Recorded(i, call, a)
<1>1. /\ p \in Paths /\ IsIndex(i) /\ DOMAIN i \subseteq Nodes(t)
      /\ \A q \in DOMAIN i : Says(i[q], q, t)
  BY DEF IsCall, Agrees, Says
<1>2. ASSUME j = PutDir(i, p), IsDir(t, p)
      PROVE  Keeps(i, t, j, t)
  <2>1. Agrees(PutDir(i, p), t)
    BY <1>1, <1>2, PutDirAgrees
  <2>2. DOMAIN PutDir(i, p) = DOMAIN i \cup Upwards(p) /\ Upwards(p) \subseteq t.dirs
    BY <1>1, <1>2, PutDirFacts, UpwardsDirs
  <2> HIDE DEF j
  <2>3. QED
    BY <1>2, <2>1, <2>2 DEF Keeps, Nodes
<1>3. ASSUME j = PutFile(i, p, t.files[p]), p \in DOMAIN t.files
      PROVE  Keeps(i, t, j, t)
  <2>1. Agrees(PutFile(i, p, t.files[p]), t) /\ DOMAIN i \subseteq DOMAIN PutFile(i, p, t.files[p])
    BY <1>1, <1>3, PutFileAgrees
  <2> HIDE DEF j
  <2>2. Agrees(j, t) /\ DOMAIN i \subseteq DOMAIN j
    BY <1>3, <2>1
  <2>3. DOMAIN j \subseteq Nodes(t)
    BY <2>2 DEF Agrees, Says
  <2>4. QED
    BY <1>1, <2>2, <2>3 DEF Keeps
<1>4. CASE call.tool = "stat"
  <2>1. CASE a.kind = "none"
    <3>1. j = Drop(i, p)
      BY <1>4, <2>1 DEF Recorded
    <3>2. p # Root /\ p \notin Nodes(t)
      BY <1>4, <2>1 DEF Shown, IsDir, IsFile, Nodes
    <3>3. \A q \in Nodes(t) : ~Under(q, p)
      <4>1. ~IsDir(t, p)
        BY <1>4, <2>1 DEF Shown
      <4>2. QED
        BY <1>1, <3>2, <4>1, AboveIsDir
    <3> HIDE DEF p
    <3>4. /\ IsIndex(Drop(i, p)) /\ DOMAIN Drop(i, p) = {q \in DOMAIN i : ~Under(q, p)}
          /\ \A q \in DOMAIN Drop(i, p) : Drop(i, p)[q] = i[q]
      BY <1>1, DropFacts
    <3>5. DOMAIN Drop(i, p) = DOMAIN i
      BY <1>1, <3>3, <3>4
    <3>6. Agrees(Drop(i, p), t)
      BY <1>1, <3>4, <3>5 DEF Agrees
    <3> HIDE DEF j
    <3>7. QED
      BY <3>1, <3>5, <3>6 DEF Keeps, j, p
  <2>2. CASE a.kind = "dir"
    <3>1. j = PutDir(i, p) /\ IsDir(t, p)
      BY <1>4, <2>2 DEF Recorded, Shown
    <3>2. QED
      BY <3>1, <1>2
  <2>3. CASE a.kind = "file"
    <3>1. j = PutFile(i, p, a.size) /\ p \in DOMAIN t.files /\ a.size = t.files[p]
      BY <1>4, <2>3 DEF Recorded, Shown, IsFile
    <3>2. QED
      BY <3>1, <1>3
  <2>4. QED
    BY <1>4, <2>1, <2>2, <2>3 DEF Shown
<1>5. CASE call.tool = "read"
  <2>1. j = PutFile(i, p, a.size) /\ p \in DOMAIN t.files /\ a.size = t.files[p]
    BY <1>5 DEF Recorded, Shown, IsFile
  <2>2. QED
    BY <2>1, <1>3
<1>6. CASE call.tool = "list"
  <2> DEFINE names == Listed(t, p)
             listed == {Append(p, name) : name \in names}
             d == PutDir(i, p)
  <2>1. j = SawList(i, p, names) /\ IsDir(t, p)
    BY <1>6 DEF Recorded, Shown
  <2>2. names \subseteq Name /\ \A name \in Name : name \in names <=> Append(p, name) \in Nodes(t)
    BY <1>1, ListedFacts
  <2>3. listed \subseteq Nodes(t)
    BY <2>2
  <2>4. /\ IsIndex(j) /\ listed \subseteq DOMAIN j /\ DOMAIN j \subseteq DOMAIN d \cup listed
        /\ \A q \in DOMAIN d :
             (Len(q) > Len(p) /\ Under(q, p) => SubSeq(q, 1, Len(p) + 1) \in listed) => q \in DOMAIN j
        /\ \A q \in DOMAIN j : \/ q \in DOMAIN d /\ j[q] = d[q]
                               \/ q \in listed /\ j[q].kind = "named"
    <3> HIDE DEF names
    <3>1. SawList(i, p, names) = j
      BY <2>1
    <3> HIDE DEF j, p
    <3>2. QED
      BY <1>1, <2>2, <3>1, SawListFacts
  <2>5. Agrees(d, t) /\ DOMAIN d = DOMAIN i \cup Upwards(p)
    BY <1>1, <2>1, PutDirAgrees, PutDirFacts
  <2> HIDE DEF d, names, listed, j
  <2>6. \A q \in DOMAIN j : Says(j[q], q, t)
    <3>1. \A q \in listed : j[q].kind = "named" => Says(j[q], q, t)
      BY <2>3 DEF Says
    <3>2. QED
      BY <2>4, <2>5, <3>1 DEF Agrees
  <2>7. ASSUME NEW q \in DOMAIN i, Len(q) > Len(p), Under(q, p)
        PROVE  SubSeq(q, 1, Len(p) + 1) \in listed
    <3>1. q \in Nodes(t) /\ q # p /\ q \in Paths /\ Len(p) \in Nat /\ Len(q) \in Nat
      BY <1>1, <2>7, NodeParent, LenProperties DEF Paths
    <3>2. PICK r \in Nodes(t) : Parent(r) = p /\ Under(q, r)
      BY <1>1, <3>1, <2>7, AboveIsDir
    <3>3. /\ r \in Paths /\ r # Root /\ Len(r) = Len(p) + 1 /\ r = Append(p, Last(r))
          /\ Last(r) \in Name
      <4>1. r \in Paths /\ r # Root /\ Len(Parent(r)) = Len(r) - 1 /\ Len(r) \in Nat
        BY NodeParent
      <4>2. QED
        BY <3>1, <3>2, <4>1, AsChild
    <3>4. Last(r) \in names
      BY <2>2, <3>2, <3>3
    <3>5. r \in listed
      BY <3>3, <3>4 DEF listed
    <3>6. SubSeq(q, 1, Len(r)) = r
      <4>1. Len(r) \in Int /\ 0 <= Len(r) /\ Len(r) <= Len(q)
            /\ \A k \in 1 .. Len(r) : q[k] = r[k]
        BY <3>1, <3>2, <3>3, UnderMeaning
      <4>2. /\ SubSeq(q, 1, Len(r)) \in Paths /\ Len(SubSeq(q, 1, Len(r))) = Len(r)
            /\ \A k \in 1 .. Len(r) : SubSeq(q, 1, Len(r))[k] = q[k]
        BY <3>1, <4>1, PrefixFacts
      <4>3. QED
        BY <3>3, <4>1, <4>2, SamePath
    <3>7. QED
      BY <3>3, <3>5, <3>6
  <2>8. DOMAIN i \subseteq DOMAIN j
    BY <2>4, <2>5, <2>7
  <2>9. Keeps(i, t, j, t)
    <3>1. DOMAIN j \subseteq Nodes(t)
      BY <2>6 DEF Says
    <3>2. QED
      BY <2>4, <2>6, <2>8, <3>1 DEF Keeps, Agrees
  <2>10. QED
    BY <2>9 DEF j
<1>7. QED
  BY <1>4, <1>5, <1>6

LEMMA WriteKeeps ==
  ASSUME NEW t, Whole(t), NEW n, Whole(n), NEW call, IsCall(call), NEW a, call.tool = "write",
         Shown(t, call, n, a), NEW i, Agrees(i, t)
  PROVE  Keeps(i, t, Recorded(i, call, a), n)
<1> DEFINE p == call.path
           j == Recorded(i, call, a)
<1>1. /\ IsIndex(i) /\ DOMAIN i \subseteq Nodes(t) /\ \A q \in DOMAIN i : Says(i[q], q, t)
  BY DEF Agrees, Says
<1>2. /\ n.dirs = t.dirs /\ DOMAIN n.files = DOMAIN t.files \cup {p}
      /\ n.files[p] = call.size /\ \A q \in DOMAIN t.files \ {p} : n.files[q] = t.files[q]
  BY DEF Shown, Puts, SameFiles
<1>3. j = PutFile(i, p, n.files[p]) /\ p \in DOMAIN n.files
  BY <1>2 DEF Recorded
<1>4. \A q \in DOMAIN i : q # p => Says(i[q], q, n)
  BY <1>1, <1>2 DEF Says, Nodes
<1>5. /\ Agrees(PutFile(i, p, n.files[p]), n)
      /\ DOMAIN i \subseteq DOMAIN PutFile(i, p, n.files[p]) /\ p \in DOMAIN PutFile(i, p, n.files[p])
  BY <1>1, <1>3, <1>4, PutFileAgrees
<1> HIDE DEF j
<1>6. Agrees(j, n) /\ DOMAIN i \subseteq DOMAIN j /\ p \in DOMAIN j
  BY <1>3, <1>5
<1>7. DOMAIN j \subseteq Nodes(n)
  BY <1>6 DEF Agrees, Says
<1>8. Nodes(n) = Nodes(t) \cup {p}
  BY <1>2 DEF Nodes
<1>9. QED
  BY <1>1, <1>6, <1>7, <1>8 DEF Keeps, j

LEMMA MkdirKeeps ==
  ASSUME NEW t, Whole(t), NEW n, Whole(n), NEW call, IsCall(call), NEW a, call.tool = "mkdir",
         Shown(t, call, n, a), NEW i, Agrees(i, t)
  PROVE  Keeps(i, t, Recorded(i, call, a), n)
<1> DEFINE p == call.path
           j == Recorded(i, call, a)
<1>1. /\ IsIndex(i) /\ DOMAIN i \subseteq Nodes(t) /\ \A q \in DOMAIN i : Says(i[q], q, t)
      /\ p \in Paths
  BY DEF Agrees, Says, IsCall
<1>2. /\ n.dirs = t.dirs \cup {p} /\ DOMAIN n.files = DOMAIN t.files
      /\ \A q \in DOMAIN t.files : n.files[q] = t.files[q]
      /\ p # Root /\ IsDir(n, p)
  BY DEF Shown, Makes, SameFiles, IsDir
<1>3. j = PutDir(i, p)
  BY DEF Recorded
<1>4. \A q \in DOMAIN i : Says(i[q], q, n)
  BY <1>1, <1>2 DEF Says, Nodes
<1>5. Agrees(PutDir(i, p), n) /\ DOMAIN PutDir(i, p) = DOMAIN i \cup Upwards(p)
  BY <1>1, <1>2, <1>4, PutDirAgrees, PutDirFacts
<1>6. p \in Upwards(p)
  BY <1>1, <1>2, UpwardsMeaning, UnderOrder
<1> HIDE DEF j
<1>7. DOMAIN j \subseteq Nodes(n) /\ DOMAIN j = DOMAIN i \cup Upwards(p) /\ Agrees(j, n)
  BY <1>3, <1>5 DEF Agrees, Says
<1>8. Nodes(n) = Nodes(t) \cup {p}
  BY <1>2 DEF Nodes
<1>9. QED
  BY <1>6, <1>7, <1>8 DEF Keeps, j

LEMMA DeleteKeeps ==
  ASSUME NEW t, Whole(t), NEW n, Whole(n), NEW call, IsCall(call), NEW a, call.tool = "delete",
         Shown(t, call, n, a), NEW i, Agrees(i, t)
  PROVE  Keeps(i, t, Recorded(i, call, a), n)
<1> DEFINE p == call.path
           j == Recorded(i, call, a)
<1>1. /\ IsIndex(i) /\ DOMAIN i \subseteq Nodes(t) /\ \A q \in DOMAIN i : Says(i[q], q, t)
      /\ p \in Paths
  BY DEF Agrees, Says, IsCall
<1>2. /\ n.dirs = t.dirs \ {p} /\ DOMAIN n.files = DOMAIN t.files \ {p}
      /\ \A q \in DOMAIN t.files \ {p} : n.files[q] = t.files[q]
      /\ \A q \in Nodes(t) : Under(q, p) => q = p
  BY DEF Shown, Drops, SameFiles
<1>3. j = Drop(i, p)
  BY DEF Recorded
<1>4. Under(p, p)
  BY <1>1, UnderOrder
<1> HIDE DEF p, j
<1>5. /\ IsIndex(Drop(i, p)) /\ DOMAIN Drop(i, p) = {q \in DOMAIN i : ~Under(q, p)}
      /\ \A q \in DOMAIN Drop(i, p) : Drop(i, p)[q] = i[q]
  BY <1>1, DropFacts
<1>6. DOMAIN Drop(i, p) = DOMAIN i \ {p}
  BY <1>1, <1>2, <1>4, <1>5
<1>7. \A q \in DOMAIN Drop(i, p) : Says(Drop(i, p)[q], q, n)
  BY <1>1, <1>2, <1>5, <1>6 DEF Says, Nodes
<1>8. Nodes(n) = Nodes(t) \ {p}
  BY <1>2 DEF Nodes
<1>9. Keeps(i, t, j, n)
  BY <1>3, <1>5, <1>6, <1>7, <1>8 DEF Keeps, Agrees
<1>10. QED
  BY <1>9 DEF j

LEMMA RenameKeeps ==
  ASSUME NEW t, Whole(t), NEW n, Whole(n), NEW call, IsCall(call), NEW a, call.tool = "rename",
         Shown(t, call, n, a), NEW i, Agrees(i, t)
  PROVE  Keeps(i, t, Recorded(i, call, a), n)
<1> DEFINE p == call.path
           target == call.target
           j == Recorded(i, call, a)
           landed == Landed(p, target, DOMAIN i)
           stay == {q \in DOMAIN i : ~Under(q, target) /\ ~Under(q, p)}
           above == Upwards(Parent(target))
<1>1. /\ IsIndex(i) /\ DOMAIN i \subseteq Nodes(t) /\ \A q \in DOMAIN i : Says(i[q], q, t)
      /\ p \in Paths /\ target \in Paths \ {Root} /\ Moves(t, n, p, target) /\ CanMove(t, p, target)
  BY DEF Agrees, Says, IsCall, Shown, CanMove
<1>2. j = Moved(i, p, target)
  BY DEF Recorded
<1> HIDE DEF p, target
<1>3. /\ IsIndex(j) /\ DOMAIN j = landed \cup stay \cup above
      /\ \A r \in landed : j[r] = i[Rebased(r, target, p)]
      /\ \A r \in above : r \notin landed => j[r].kind = "dir"
      /\ \A r \in stay : r \notin landed \cup above => j[r] = i[r]
  <2> DEFINE m == Moved(i, p, target)
  <2>1. /\ IsIndex(m) /\ DOMAIN m = landed \cup stay \cup above
        /\ \A r \in landed : m[r] = i[Rebased(r, target, p)]
        /\ \A r \in above : r \notin landed => m[r].kind = "dir"
        /\ \A r \in stay : r \notin landed \cup above => m[r] = i[r]
    BY <1>1, MovedFacts
  <2> HIDE DEF m, landed, stay, above, j
  <2>2. j = m
    BY <1>2 DEF m
  <2>3. QED
    BY <2>1, <2>2
<1>4. /\ DOMAIN i \subseteq Paths /\ t.dirs \subseteq Paths /\ DOMAIN t.files \subseteq Paths
      /\ Nodes(t) \subseteq Paths
  BY NodePaths DEF IsIndex, Whole, IsTree, Paths, Agrees, Nodes
<1>5. /\ n.dirs = Landed(p, target, t.dirs) \cup Staying(p, target, t.dirs)
      /\ DOMAIN n.files = Landed(p, target, DOMAIN t.files) \cup Staying(p, target, DOMAIN t.files)
      /\ \A q \in Leaving(p, DOMAIN t.files) : n.files[Rebased(q, p, target)] = t.files[q]
      /\ \A q \in Staying(p, target, DOMAIN t.files) : n.files[q] = t.files[q]
  BY <1>1 DEF Moves, SameFiles
<1>6. Nodes(n) = Landed(p, target, Nodes(t)) \cup Staying(p, target, Nodes(t))
  BY <1>5 DEF Nodes, Landed, Leaving, Staying
<1>7. stay = Staying(p, target, DOMAIN i)
  <2>1. \A q \in DOMAIN i : Under(q, target) <=> q = target
    <3>1. Under(target, target)
      BY <1>1, UnderOrder
    <3>2. QED
      BY <1>1, <3>1 DEF CanMove
  <2>2. QED
    BY <2>1 DEF Staying
<1>8. above \subseteq n.dirs
  <2>1. Parent(target) \in Paths /\ Len(Parent(target)) = Len(target) - 1 /\ Len(target) \in Nat
    BY <1>1, ParentFacts
  <2>2. above \subseteq t.dirs
    BY <1>1, <2>1, UpwardsDirs DEF CanMove
  <2>3. ASSUME NEW r \in above
        PROVE  ~Under(r, p) /\ r # target
    <3>1. r \in Paths /\ Under(Parent(target), r)
      BY <2>1, UpwardsMeaning
    <3>2. ~Under(r, p)
      BY <1>1, <2>1, <3>1, UnderOrder DEF CanMove
    <3>3. Len(r) <= Len(Parent(target)) /\ Len(r) \in Nat
      BY <2>1, <3>1, UnderMeaning, LenProperties DEF Paths
    <3>4. r # target
      BY <2>1, <3>3
    <3>5. QED
      BY <3>2, <3>4
  <2> HIDE DEF above
  <2>4. QED
    BY <2>2, <2>3, <1>5 DEF Staying
<1>9. ASSUME NEW r \in landed
      PROVE  Says(j[r], r, n)
  <2>1. PICK q \in DOMAIN i : Under(q, p) /\ r = Rebased(q, p, target)
    BY DEF Landed, Leaving
  <2>2. Rebased(r, target, p) = q
    BY <1>1, <1>4, <2>1, RebasedFacts
  <2>3. j[r] = i[q] /\ Says(i[q], q, t)
    BY <1>1, <1>3, <2>2
  <2>4. q \in t.dirs => r \in n.dirs
    BY <1>5, <2>1 DEF Landed, Leaving
  <2>5. q \in DOMAIN t.files => r \in DOMAIN n.files /\ n.files[r] = t.files[q]
    BY <1>5, <2>1 DEF Landed, Leaving
  <2> HIDE DEF j, landed
  <2>6. QED
    BY <2>3, <2>4, <2>5 DEF Says, Nodes
<1>10. ASSUME NEW r \in stay, r \notin landed \cup above
       PROVE  Says(j[r], r, n)
  <2>1. r \in DOMAIN i /\ ~Under(r, p) /\ r # target /\ j[r] = i[r] /\ Says(i[r], r, t)
    BY <1>1, <1>3, <1>7, <1>10 DEF Staying
  <2>2. r \in t.dirs => r \in n.dirs
    BY <1>5, <2>1 DEF Staying
  <2>3. r \in DOMAIN t.files => r \in DOMAIN n.files /\ n.files[r] = t.files[r]
    BY <1>5, <2>1 DEF Staying
  <2> HIDE DEF j, landed, stay, above
  <2>4. QED
    BY <2>1, <2>2, <2>3 DEF Says, Nodes
<1>11. ASSUME NEW r \in above, r \notin landed
       PROVE  Says(j[r], r, n)
  <2>1. r \in n.dirs /\ j[r].kind = "dir"
    BY <1>3, <1>8, <1>11
  <2> HIDE DEF j, landed, above
  <2>2. QED
    BY <2>1 DEF Says, Nodes
<1>12. Agrees(j, n)
  <2> HIDE DEF j, landed, stay, above
  <2>1. QED
    BY <1>3, <1>9, <1>10, <1>11 DEF Agrees
<1>13. DOMAIN i = Nodes(t) => DOMAIN j = Nodes(n)
  <2>1. DOMAIN j \subseteq Nodes(n)
    <3> HIDE DEF j
    <3>1. QED
      BY <1>12 DEF Agrees, Says
  <2>2. DOMAIN i = Nodes(t) => landed \cup stay = Nodes(n)
    BY <1>6, <1>7
  <2> HIDE DEF j, landed, stay, above
  <2>3. QED
    BY <1>3, <2>1, <2>2
<1>14. QED
  BY <1>12, <1>13 DEF Keeps

\* A call on a mount nobody else works on: the index, brought up to date, is as true as
\* it was.
LEMMA RecordKeeps ==
  ASSUME NEW t, Whole(t), NEW n, Whole(n), NEW call, IsCall(call), NEW a \in Answers,
         Shown(t, call, n, a), NEW i, Agrees(i, t)
  PROVE  Keeps(i, t, Recorded(i, call, a), n)
<1>1. CASE call.tool \in {"stat", "read", "list"}
  <2>1. n = t
    BY <1>1 DEF Shown
  <2>2. QED
    BY <1>1, <2>1, LookKeeps
<1>2. CASE call.tool = "write"
  BY <1>2, WriteKeeps
<1>3. CASE call.tool = "mkdir"
  BY <1>3, MkdirKeeps
<1>4. CASE call.tool = "delete"
  BY <1>4, DeleteKeeps
<1>5. CASE call.tool = "rename"
  BY <1>5, RenameKeeps
<1>6. QED
  BY <1>1, <1>2, <1>3, <1>4, <1>5 DEF IsCall, Tools

----------------------------------------------------------------------------
(* The steps *)

LEMMA ShownIsPlausible ==
  ASSUME NEW t, Sound(t), NEW call, IsCall(call), NEW done, Settled(t, call, done)
  PROVE  done.answer.kind \in Errno \/ Plausible(call, done.answer)
<1> DEFINE p == call.path
           a == done.answer
           n == done.tree
<1>1. SUFFICES ASSUME a.kind \notin Errno
               PROVE  Plausible(call, a)
  OBVIOUS
<1>2. Shown(t, call, n, a) /\ Whole(t)
  BY <1>1 DEF Settled, Sound
<1> HIDE DEF a, n, p
<1>3. IsDir(t, Root)
  BY DEF IsDir
<1>4. call.tool = "stat" => a.kind \in {"dir", "file", "none"} /\ (call.path = Root => a.kind = "dir")
  BY <1>2, <1>3 DEF Shown
<1>5. call.tool = "list" => a.names \subseteq Name
  BY <1>2, ListedFacts DEF Shown, IsCall
<1>6. call.tool \in {"read", "write", "mkdir"} => call.path # Root
  BY <1>2, <1>3 DEF Shown
<1>7. call.tool = "delete" => call.path # Root
  BY <1>2, NodeParent DEF Shown
<1>8. call.tool = "rename" => call.path # Root /\ call.target # Root
  BY <1>2, NodeParent DEF Shown, CanMove
<1>9. QED
  BY <1>4, <1>5, <1>6, <1>7, <1>8 DEF Plausible

Resting(op, out) == [Idle EXCEPT !.op = op, !.out = out]

LEMMA RestingIsScript ==
  ASSUME NEW op, IsOp(op), NEW out, NEW tries \in Nat
  PROVE  IsScript(Resting(op, out), tries) /\ Resting(op, out).stage = "ready"
<1>1. Just("none") \in Answers /\ <<>> \in Seq(Answers)
  BY DEF Just, Answer, Answers, Kinds
<1> DEFINE y == Resting(op, out)
<1>2. y = [Idle EXCEPT !.op = op, !.out = out]
  BY DEF Resting
<1> HIDE DEF y
<1>3. y = [stage |-> "ready", op |-> op, seen |-> <<>>, reply |-> Just("none"), tries |-> 0, out |-> out]
  BY <1>2 DEF Idle
<1>4. IsScript(y, tries) /\ y.stage = "ready"
  BY <1>1, <1>3 DEF IsScript, Stages, Calling
<1>5. QED
  BY <1>4 DEF y

LEMMA GoingIsScript ==
  ASSUME NEW op, IsOp(op), NEW seen \in Seq(Answers), NEW tries \in Nat,
         op.name = "mkdir" /\ op.path = Root => seen = <<>> \/ Perform(op, seen).tool = "none"
  PROVE  LET y == Going(op, seen) IN
         /\ IsScript(y, tries) /\ y.stage \in {"ready", "call"}
         /\ Perform(op, seen).tool = "none" => y.stage = "ready"
<1> DEFINE next == Perform(op, seen)
           y == Going(op, seen)
<1>1. CASE next.tool = "none"
  <2>1. y = Resting(op, next.out)
    BY <1>1, Zenon DEF Going, Resting
  <2>2. QED
    BY <2>1, RestingIsScript
<1>2. CASE next.tool # "none"
  <2>1. y = [Idle EXCEPT !.stage = "call", !.op = op, !.seen = seen]
    BY <1>2, Zenon DEF Going
  <2>2. Just("none") \in Answers
    BY DEF Just, Answer, Answers, Kinds
  <2>3. y = [stage |-> "call", op |-> op, seen |-> seen, reply |-> Just("none"), tries |-> 0, out |-> "none"]
    BY <2>1 DEF Idle
  <2> HIDE DEF y, next
  <2>4. IsScript(y, tries) /\ y.stage = "call"
    BY <1>2, <2>2, <2>3 DEF IsScript, Stages, Calling, next
  <2>5. QED
    BY <1>2, <2>4 DEF y, next
<1>3. QED
  BY <1>1, <1>2

\* Where a script goes with an answer.
After(x, answer) ==
  IF answer.kind \in Errno THEN Resting(x.op, answer.kind) ELSE Going(x.op, Append(x.seen, answer))

LEMMA AfterIsScript ==
  ASSUME NEW tries \in Nat, NEW x, IsScript(x, tries), x.stage \in Calling, NEW answer \in Answers,
         answer.kind \in Errno \/ Plausible(Perform(x.op, x.seen), answer)
  PROVE  IsScript(After(x, answer), tries) /\ After(x, answer).stage \in {"ready", "call"}
<1>1. IsOp(x.op) /\ x.seen \in Seq(Answers)
  BY DEF IsScript
<1>2. CASE answer.kind \in Errno
  <2>1. After(x, answer) = Resting(x.op, answer.kind)
    BY <1>2, Zenon DEF After
  <2>2. QED
    BY <1>1, <2>1, RestingIsScript
<1>3. CASE answer.kind \notin Errno
  <2>1. After(x, answer) = Going(x.op, Append(x.seen, answer))
    BY <1>3, Zenon DEF After
  <2>2. Append(x.seen, answer) \in Seq(Answers)
    BY <1>1, AppendProperties
  <2>3. CASE x.op.name = "mkdir" /\ x.op.path = Root
    <3>1. x.seen = <<>>
      BY <2>3 DEF IsScript
    <3>2. Perform(x.op, <<>>) = Ask("stat", Root)
      BY <2>3, MkdirOfRoot
    <3>3. Ask("stat", Root).tool = "stat" /\ Ask("stat", Root).path = Root
      BY DEF Ask
    <3>4. answer.kind = "dir"
      BY <1>3, <3>1, <3>2, <3>3 DEF Plausible
    <3>5. Perform(x.op, Append(x.seen, answer)).tool = "none"
      BY <2>3, <3>1, <3>4, MkdirOfRoot
    <3>6. QED
      BY <1>1, <2>1, <2>2, <3>5, GoingIsScript
  <2>4. CASE ~(x.op.name = "mkdir" /\ x.op.path = Root)
    BY <1>1, <2>1, <2>2, <2>4, GoingIsScript
  <2>5. QED
    BY <2>3, <2>4
<1>4. QED
  BY <1>2, <1>3

\* A script whose operation is still the same, one stage further.
LEMMA StageIsScript ==
  ASSUME NEW tries \in Nat, NEW x, IsScript(x, tries), NEW y, NEW stage \in Stages,
         NEW reply \in Answers, NEW n \in 0 .. tries,
         y = [stage |-> stage, op |-> x.op, seen |-> x.seen, reply |-> reply, tries |-> n, out |-> x.out],
         stage \in Calling => x.stage \in Calling,
         stage = "run" => reply.kind \in Errno \/ Plausible(Perform(x.op, x.seen), reply)
  PROVE  IsScript(y, tries) /\ y.stage = stage
  BY DEF IsScript

\* In one step of one script only its own state changes.
LEMMA ScriptStep ==
  ASSUME Inv, UNCHANGED scene, NEW s \in scene.scripts, NEW y, script' = [script EXCEPT ![s] = y],
         IsScript(y, scene.tries)
  PROVE  /\ s \in Script /\ script' = [u \in Script |-> script'[u]] /\ script'[s] = y
         /\ \A u \in Script : /\ u # s => script'[u] = script[u]
                              /\ IsScript(script'[u], scene'.tries)
                              /\ u \notin scene'.scripts => script'[u].stage = "ready"
<1>1. s \in Script
  BY SceneAssumption DEF SceneAssumption, Inv
<1>2. script = [u \in Script |-> script[u]]
  BY DEF Inv
<1>3. /\ script' = [u \in Script |-> script'[u]] /\ script'[s] = y
      /\ \A u \in Script : u # s => script'[u] = script[u]
  BY <1>1, <1>2
<1>4. \A u \in Script : IsScript(script[u], scene.tries) /\ (u \notin scene.scripts => script[u].stage = "ready")
  BY DEF Inv
<1>5. QED
  BY <1>1, <1>3, <1>4

LEMMA ScriptFacts ==
  ASSUME Inv, NEW s \in scene.scripts
  PROVE  /\ s \in Script /\ scene \in Scenes /\ scene.tries \in Nat \ {0}
         /\ IsScript(script[s], scene.tries) /\ IsOp(script[s].op) /\ script[s].seen \in Seq(Answers)
         /\ script[s].reply \in Answers /\ script[s].tries \in 0 .. scene.tries
         /\ script[s].stage \in Calling => IsCall(NextCall(s))
<1>1. s \in Script /\ scene \in Scenes /\ scene.tries \in Nat \ {0}
  BY SceneAssumption DEF SceneAssumption, Inv
<1>2. IsScript(script[s], scene.tries)
  BY <1>1 DEF Inv
<1>3. /\ IsOp(script[s].op) /\ script[s].seen \in Seq(Answers)
      /\ script[s].reply \in Answers /\ script[s].tries \in 0 .. scene.tries
  BY <1>2 DEF IsScript
<1>4. script[s].stage \in Calling => IsCall(NextCall(s))
  <2>1. SUFFICES ASSUME script[s].stage \in Calling
                 PROVE  IsCall(NextCall(s))
    OBVIOUS
  <2>2. /\ Perform(script[s].op, script[s].seen).tool # "none"
        /\ script[s].op.name = "mkdir" /\ script[s].op.path = Root => script[s].seen = <<>>
    BY <1>2, <2>1 DEF IsScript
  <2>3. IsNext(Perform(script[s].op, script[s].seen))
    BY <1>3, <2>2, PerformTypes
  <2>4. QED
    BY <2>2, <2>3 DEF IsNext, NextCall
<1>5. QED
  BY <1>1, <1>2, <1>3, <1>4

\* What the call of a script does now.
LEMMA CallNow ==
  ASSUME Inv, NEW s \in scene.scripts, script[s].stage \in Calling
  PROVE  LET done == Call(tree, NextCall(s)) IN
         /\ Settled(tree, NextCall(s), done) /\ done.answer \in Answers /\ Sound(done.tree)
         /\ done.answer.kind \in Errno \/ Plausible(NextCall(s), done.answer)
<1> DEFINE call == NextCall(s)
           done == Call(tree, call)
<1>1. IsCall(call) /\ Sound(tree)
  BY ScriptFacts DEF Inv
<1> HIDE DEF call
<1>2. Settled(tree, call, done)
  BY <1>1, CallSettles
<1>3. done.answer \in Answers /\ (done.tree = tree \/ Sound(done.tree))
  <2> HIDE DEF done
  <2>1. QED
    BY <1>2 DEF Settled
<1>4. done.answer.kind \in Errno \/ Plausible(call, done.answer)
  BY <1>1, <1>2, ShownIsPlausible
<1>5. QED
  BY <1>1, <1>2, <1>3, <1>4 DEF call

\* A step that leaves the mount, its seed and its index alone.
LEMMA QuietStep ==
  ASSUME Inv, UNCHANGED <<scene, tree, seeded, index>>, NEW s \in scene.scripts, NEW y,
         script' = [script EXCEPT ![s] = y], IsScript(y, scene.tries), IsTree(before'),
         y.stage \in {"seed", "seeding"} => ~seeded, y.stage \in Calling => seeded
  PROVE  Inv'
<1>1. /\ s \in Script /\ script' = [u \in Script |-> script'[u]] /\ script'[s] = y
      /\ \A u \in Script : /\ u # s => script'[u] = script[u]
                           /\ IsScript(script'[u], scene'.tries)
                           /\ u \notin scene'.scripts => script'[u].stage = "ready"
  BY ScriptStep
<1>2. /\ scene' \in Scenes /\ seeded' \in BOOLEAN /\ Sound(tree)' /\ IsIndex(index)'
  BY DEF Inv, Sound, InBudget, InMemory
<1>3. IsTree(before)'
  BY DEF IsTree
<1>4. SeedInv'
  <2>1. ~seeded => InMemory /\ scene.seed # <<>> /\ tree = Nothing
    BY DEF Inv, SeedInv
  <2>2. \A u \in Script : (script'[u].stage \in {"seed", "seeding"} => ~seeded)
                          /\ (script'[u].stage \in Calling => seeded)
    BY <1>1 DEF Inv, SeedInv
  <2>3. QED
    BY <2>1, <2>2 DEF SeedInv, InMemory, Nothing
<1>5. QED
  BY <1>1, <1>2, <1>3, <1>4 DEF Inv

LEMMA BeginStep ==
  ASSUME Inv, NEW s \in scene.scripts, Begin(s)
  PROVE  Inv'
<1>1. /\ s \in Script /\ scene \in Scenes /\ scene.tries \in Nat \ {0}
      /\ UNCHANGED <<scene, tree, seeded, index>>
  BY ScriptFacts DEF Begin
<1>2. PICK op \in scene.ops :
        script' = [script EXCEPT ![s] =
                     IF seeded THEN Going(op, <<>>) ELSE [Idle EXCEPT !.stage = "seed", !.op = op]]
  BY DEF Begin
<1>3. IsOp(op)
  BY <1>1, SceneAssumption DEF SceneAssumption, IsOp, Paths
<1>4. IsTree(before')
  BY DEF Begin, Inv, Sound, Whole
<1>5. CASE seeded
  <2> DEFINE y == Going(op, <<>>)
  <2>1. <<>> \in Seq(Answers)
    OBVIOUS
  <2>2. IsScript(y, scene.tries) /\ y.stage \in {"ready", "call"}
    BY <1>1, <1>3, <2>1, GoingIsScript
  <2>3. script' = [script EXCEPT ![s] = y]
    BY <1>2, <1>5
  <2> HIDE DEF y
  <2>4. QED
    BY <1>1, <1>4, <1>5, <2>2, <2>3, QuietStep DEF Calling
<1>6. CASE ~seeded
  <2> DEFINE y == [Idle EXCEPT !.stage = "seed", !.op = op]
  <2>1. y = [Idle EXCEPT !.stage = "seed", !.op = op]
    OBVIOUS
  <2>2. script' = [script EXCEPT ![s] = y]
    BY <1>2, <1>6
  <2>3. Just("none") \in Answers /\ <<>> \in Seq(Answers)
    BY DEF Just, Answer, Answers, Kinds
  <2> HIDE DEF y
  <2>4. y = [stage |-> "seed", op |-> op, seen |-> <<>>, reply |-> Just("none"), tries |-> 0, out |-> "none"]
    BY <2>1 DEF Idle
  <2>5. IsScript(y, scene.tries) /\ y.stage = "seed"
    BY <1>1, <1>3, <2>3, <2>4 DEF IsScript, Stages, Calling
  <2>6. QED
    BY <1>1, <1>4, <1>6, <2>2, <2>5, QuietStep DEF Calling
<1>7. QED
  BY <1>5, <1>6

LEMMA EndedStep ==
  ASSUME Inv, NEW s \in scene.scripts, NEW out, script' = Ended(s, out),
         UNCHANGED <<scene, tree, seeded, index, before>>
  PROVE  Inv'
<1> DEFINE y == Resting(script[s].op, out)
<1>1. IsScript(y, scene.tries) /\ y.stage = "ready"
  BY ScriptFacts, RestingIsScript
<1>2. script' = [script EXCEPT ![s] = y]
  BY DEF Ended, Resting
<1>3. IsTree(before')
  BY DEF Inv
<1> HIDE DEF y
<1>4. QED
  BY <1>1, <1>2, <1>3, QuietStep DEF Calling

LEMMA RunSeedStep ==
  ASSUME Inv, NEW s \in scene.scripts, RunSeed(s)
  PROVE  Inv'
<1> DEFINE x == script[s]
           y == [x EXCEPT !.stage = "seeding"]
<1>1. /\ IsScript(x, scene.tries) /\ x.stage = "seed" /\ script' = [script EXCEPT ![s] = y]
      /\ UNCHANGED <<scene, tree, seeded, index, before>> /\ ~seeded
  BY ScriptFacts DEF RunSeed, Inv, SeedInv
<1>2. y = [stage |-> "seeding", op |-> x.op, seen |-> x.seen, reply |-> x.reply, tries |-> x.tries,
           out |-> x.out]
  BY <1>1 DEF IsScript
<1>3. IsTree(before')
  BY <1>1 DEF Inv
<1> HIDE DEF x, y
<1>4. IsScript(y, scene.tries) /\ y.stage = "seeding"
  BY <1>1, <1>2 DEF IsScript, Stages, Calling
<1>5. QED
  BY <1>1, <1>3, <1>4, QuietStep DEF Calling

LEMMA SendStep ==
  ASSUME Inv, NEW s \in scene.scripts, Send(s)
  PROVE  Inv'
<1> DEFINE x == script[s]
           y == [x EXCEPT !.stage = "sent", !.tries = 1]
<1>1. /\ IsScript(x, scene.tries) /\ x.stage = "call" /\ script' = [script EXCEPT ![s] = y]
      /\ UNCHANGED <<scene, tree, seeded, index, before>> /\ seeded /\ scene.tries \in Nat \ {0}
  BY ScriptFacts DEF Send, Inv, SeedInv, Calling
<1>2. y = [stage |-> "sent", op |-> x.op, seen |-> x.seen, reply |-> x.reply, tries |-> 1, out |-> x.out]
  <2>1. y = [x EXCEPT !.stage = "sent", !.tries = 1]
    OBVIOUS
  <2>2. x = [stage |-> x.stage, op |-> x.op, seen |-> x.seen, reply |-> x.reply, tries |-> x.tries,
             out |-> x.out]
    BY <1>1 DEF IsScript
  <2> HIDE DEF x, y
  <2>3. QED
    BY <2>1, <2>2
<1>3. IsTree(before') /\ x.reply \in Answers
  BY <1>1 DEF Inv, IsScript
<1> HIDE DEF x, y
<1>4. IsScript(y, scene.tries) /\ y.stage = "sent"
  BY <1>1, <1>2, <1>3, StageIsScript DEF Stages, Calling
<1>5. QED
  BY <1>1, <1>3, <1>4, QuietStep DEF Calling

LEMMA LoseStep ==
  ASSUME Inv, NEW s \in scene.scripts, Lose(s)
  PROVE  Inv'
<1> DEFINE x == script[s]
           y == [x EXCEPT !.stage = "sent", !.tries = @ + 1, !.reply = Just("none")]
<1>1. /\ IsScript(x, scene.tries) /\ x.stage = "run"
      /\ UNCHANGED <<scene, tree, seeded, index, before>> /\ seeded /\ scene.tries \in Nat \ {0}
  BY ScriptFacts DEF Lose, Inv, SeedInv, Calling
<1>2. CASE script[s].tries = scene.tries
  <2>1. script' = Ended(s, "lost")
    BY <1>2 DEF Lose
  <2>2. QED
    BY <1>1, <2>1, EndedStep
<1>3. CASE script[s].tries # scene.tries
  <2>1. script' = [script EXCEPT ![s] = y]
    BY <1>3 DEF Lose
  <2>2. y = [stage |-> "sent", op |-> x.op, seen |-> x.seen, reply |-> Just("none"),
             tries |-> x.tries + 1, out |-> x.out]
    <3>1. y = [x EXCEPT !.stage = "sent", !.tries = x.tries + 1, !.reply = Just("none")]
      OBVIOUS
    <3>2. x = [stage |-> x.stage, op |-> x.op, seen |-> x.seen, reply |-> x.reply, tries |-> x.tries,
               out |-> x.out]
      BY <1>1 DEF IsScript
    <3> HIDE DEF x, y
    <3>3. QED
      BY <3>1, <3>2
  <2>3. IsTree(before') /\ x.tries + 1 \in 0 .. scene.tries
    BY <1>1, <1>3 DEF Inv, IsScript
  <2>4. Just("none") \in Answers
    BY DEF Just, Answer, Answers, Kinds
  <2> HIDE DEF x, y
  <2>5. IsScript(y, scene.tries) /\ y.stage = "sent"
    BY <1>1, <2>2, <2>3, <2>4, StageIsScript DEF Stages, Calling
  <2>6. QED
    BY <1>1, <2>1, <2>3, <2>5, QuietStep DEF Calling
<1>4. QED
  BY <1>2, <1>3
\* What a seed loads, with the directories it needs, is a tree.
LEMMA SeedIsWhole ==
  ASSUME SoundSeeds, scene \in Scenes
  PROVE  Whole(AsGiven)
<1> DEFINE seed == scene.seed
           dirs == UNION {Upwards(Parent(p)) : p \in DOMAIN seed}
           t == AsGiven
<1>1. /\ DOMAIN seed \subseteq Paths \ {Root} /\ IsFiniteSet(DOMAIN seed) /\ seed \in [DOMAIN seed -> Nat]
      /\ \A p, q \in DOMAIN seed : Under(q, p) => q = p
  BY SceneAssumption DEF SceneAssumption, SoundSeeds, Paths
<1>2. t.files = seed /\ t.dirs = dirs /\ t = [files |-> t.files, dirs |-> t.dirs]
  BY DEF AsGiven
<1>3. ASSUME NEW p \in DOMAIN seed
      PROVE  /\ p \in Paths /\ p # Root /\ Parent(p) \in Paths /\ Len(Parent(p)) < Len(p)
             /\ \A q \in Paths : q \in Upwards(Parent(p)) <=> q # Root /\ Under(Parent(p), q)
             /\ Upwards(Parent(p)) \subseteq Paths \ {Root}
             /\ Parent(p) = Root \/ Parent(p) \in Upwards(Parent(p))
  <2>1. p \in Paths /\ p # Root
    BY <1>1
  <2>2. Parent(p) \in Paths /\ Len(Parent(p)) < Len(p)
    BY <2>1, ParentFacts
  <2>3. Under(Parent(p), Parent(p))
    BY <2>2, UnderMeaning
  <2>4. QED
    BY <2>1, <2>2, <2>3, UpwardsMeaning
<1>4. \A q \in dirs : \E p \in DOMAIN seed : q \in Upwards(Parent(p))
  OBVIOUS
<1>5. dirs \subseteq Paths \ {Root}
  BY <1>3, <1>4
<1>6. \A p \in DOMAIN seed : Upwards(Parent(p)) \subseteq dirs
  OBVIOUS
<1> HIDE DEF seed, dirs, t
<1>7. IsTree(t) /\ IsFiniteSet(DOMAIN t.files)
  BY <1>1, <1>2, <1>5 DEF IsTree, Paths
<1>8. ASSUME NEW q \in DOMAIN seed
      PROVE  IsDir(t, Parent(q))
  BY <1>2, <1>3, <1>6 DEF IsDir
<1>9. ASSUME NEW q \in dirs
      PROVE  IsDir(t, Parent(q)) /\ q \notin DOMAIN seed
  <2>1. PICK p \in DOMAIN seed : q \in Upwards(Parent(p))
    BY <1>4
  <2>2. q \in Paths /\ q # Root /\ Parent(q) \in Paths /\ Under(Parent(p), q)
    BY <1>3, <1>5, <2>1, ParentFacts
  <2>3. Parent(p) \in Paths /\ p \in Paths /\ p # Root /\ Len(Parent(p)) < Len(p)
    BY <1>3
  <2>4. Under(q, Parent(q))
    <3>1. Under(Parent(q), Parent(q))
      BY <2>2, UnderMeaning
    <3>2. QED
      BY <2>2, <3>1, UnderParent
  <2>5. Under(Parent(p), Parent(q))
    BY <2>2, <2>3, <2>4, UnderOrder
  <2>6. Parent(q) = Root \/ Parent(q) \in Upwards(Parent(p))
    BY <1>3, <2>2, <2>5
  <2>7. IsDir(t, Parent(q))
    BY <1>2, <1>6, <2>6 DEF IsDir
  <2>8. Under(p, q)
    BY <2>2, <2>3, UnderParent
  <2>9. p # q
    <3>1. Len(q) <= Len(Parent(p)) /\ Len(q) \in Nat /\ Len(p) \in Nat /\ Len(Parent(p)) \in Nat
      BY <2>2, <2>3, UnderMeaning, LenProperties DEF Paths
    <3>2. QED
      BY <2>3, <3>1
  <2>10. QED
    BY <1>1, <2>7, <2>8, <2>9
<1>10. QED
  BY <1>2, <1>7, <1>8, <1>9 DEF Whole, Nodes, t

\* Loading it into an empty mount.
LEMMA LoadingIsSound ==
  ASSUME SoundSeeds, scene \in Scenes, ~OverBudget(Nothing, scene.seed)
  PROVE  Sound(Apply(Nothing, [NoChange EXCEPT !.mkdirs = AsGiven.dirs, !.put = scene.seed]))
<1> DEFINE seed == scene.seed
           c == [NoChange EXCEPT !.mkdirs = AsGiven.dirs, !.put = seed]
           n == Apply(Nothing, c)
           t == AsGiven
<1>1. Whole(t) /\ t.files = seed /\ t = [files |-> t.files, dirs |-> t.dirs]
  BY SeedIsWhole DEF AsGiven
<1>2. c.drop = {} /\ c.rmdirs = {} /\ c.mkdirs = t.dirs /\ c.put = seed
  BY DEF NoChange
<1>3. /\ IsFiniteSet(DOMAIN seed) /\ seed \in [DOMAIN seed -> Nat]
      /\ DOMAIN seed \cup t.dirs \subseteq Paths \ {Root}
  BY <1>1 DEF Whole, IsTree, Paths
<1>4. Nothing.files = <<>> /\ Nothing.dirs = {} /\ DOMAIN <<>> = {}
  BY DEF Nothing
<1>5. IsTree(Nothing) /\ IsFiniteSet(DOMAIN Nothing.files)
  <2>1. Nothing = [files |-> Nothing.files, dirs |-> Nothing.dirs] /\ <<>> \in [{} -> Nat]
    BY DEF Nothing
  <2>2. QED
    BY <1>4, <2>1, FS_EmptySet DEF IsTree
<1> HIDE DEF c, t, seed
<1>6. IsChange(c)
  BY <1>2, <1>3 DEF IsChange
<1>7. /\ IsTree(n) /\ n.dirs = t.dirs /\ DOMAIN n.files = DOMAIN seed
      /\ \A p \in DOMAIN seed : n.files[p] = seed[p]
  <2>1. /\ IsTree(n) /\ n.dirs = (Nothing.dirs \ c.rmdirs) \cup c.mkdirs
        /\ DOMAIN n.files = DOMAIN c.put \cup (DOMAIN Nothing.files \ c.drop)
        /\ \A p \in DOMAIN c.put : n.files[p] = c.put[p]
    BY <1>5, <1>6, ApplyFacts
  <2>2. DOMAIN Nothing.files = {}
    BY <1>4
  <2> HIDE DEF n
  <2>3. QED
    BY <1>2, <1>4, <2>1, <2>2
<1> HIDE DEF n
<1>8. n.files = seed
  BY <1>3, <1>7 DEF IsTree
<1>9. n = t
  BY <1>1, <1>7, <1>8 DEF IsTree
<1>10. InMemory => SumFunction(seed) <= MaxBytes
  <2>1. SumFunction(Nothing.files) = 0 /\ SumFunctionOnSet(Nothing.files, DOMAIN seed \cap {}) = 0
    <3>1. DOMAIN seed \cap {} = {}
      OBVIOUS
    <3>2. QED
      BY <1>4, <3>1, SumOfNone DEF SumFunction
  <2>2. SumFunction(seed) \in Nat
    BY <1>3, SumIsNumber DEF SumFunction
  <2>3. InMemory => ~(SumFunction(Nothing.files) + SumFunction(seed)
                        > MaxBytes + SumFunctionOnSet(Nothing.files, DOMAIN seed \cap {}))
    BY <1>4 DEF OverBudget, InMemory, seed
  <2>4. MaxBytes \in Nat
    BY SceneAssumption DEF SceneAssumption
  <2>5. QED
    BY <2>1, <2>2, <2>3, <2>4
<1>11. Sound(n)
  BY <1>1, <1>9, <1>10 DEF Sound, InBudget
<1>12. QED
  BY <1>11 DEF n, c, seed

\* A step of a script on a mount that is seeded by then.
LEMMA BusyStep ==
  ASSUME Inv, UNCHANGED scene, NEW s \in scene.scripts, NEW y,
         script' = [script EXCEPT ![s] = y], IsScript(y, scene.tries), IsTree(before'),
         Sound(tree'), IsIndex(index'), seeded' = TRUE, y.stage \in {"ready"} \cup Calling,
         seeded \/ scene.scripts = {s}
  PROVE  Inv'
<1>1. /\ s \in Script /\ script' = [u \in Script |-> script'[u]] /\ script'[s] = y
      /\ \A u \in Script : /\ u # s => script'[u] = script[u]
                           /\ IsScript(script'[u], scene'.tries)
                           /\ u \notin scene'.scripts => script'[u].stage = "ready"
  BY ScriptStep
<1>2. /\ scene' \in Scenes /\ seeded' \in BOOLEAN /\ Sound(tree)' /\ IsIndex(index)'
  BY DEF Inv, Sound, InBudget, InMemory
<1>3. IsTree(before)'
  BY DEF IsTree
<1>4. SeedInv'
  <2>1. \A u \in Script : script'[u].stage \notin {"seed", "seeding"}
    <3>1. y.stage \notin {"seed", "seeding"}
      BY DEF Calling
    <3>2. ASSUME NEW u \in Script, u # s
          PROVE  script[u].stage \notin {"seed", "seeding"}
      <4>1. CASE seeded
        BY <4>1 DEF Inv, SeedInv
      <4>2. CASE scene.scripts = {s}
        BY <3>2, <4>2 DEF Inv
      <4>3. QED
        BY <4>1, <4>2
    <3>3. QED
      BY <1>1, <3>1, <3>2
  <2>2. QED
    BY <2>1 DEF SeedInv
<1>5. QED
  BY <1>1, <1>2, <1>3, <1>4 DEF Inv

LEMMA EndedIs ==
  ASSUME NEW s, NEW out
  PROVE  Ended(s, out) = [script EXCEPT ![s] = Resting(script[s].op, out)]
  BY DEF Ended, Resting

LEMMA SeededStep ==
  ASSUME SoundSeeds, Inv, NEW s \in scene.scripts, Seeded(s)
  PROVE  Inv'
<1> DEFINE x == script[s]
           n == Apply(tree, [NoChange EXCEPT !.mkdirs = AsGiven.dirs, !.put = scene.seed])
<1>1. /\ x.stage = "seeding" /\ seeded' = TRUE /\ UNCHANGED <<scene, index>>
  BY DEF Seeded
<1>2. s \in Script /\ scene \in Scenes /\ scene.tries \in Nat /\ IsOp(x.op)
  BY ScriptFacts
<1>3. ~seeded /\ InMemory /\ scene.seed # <<>> /\ tree = Nothing
  BY <1>1, <1>2 DEF Inv, SeedInv
<1>4. scene.scripts = {s}
  BY <1>2, <1>3 DEF SoundSeeds, InMemory
<1>5. Sound(tree) /\ IsIndex(index') /\ IsTree(before)
  BY <1>1 DEF Inv
<1>6. CASE OverBudget(tree, scene.seed)
  <2> DEFINE y == Resting(x.op, "unseeded")
  <2>1. script' = [script EXCEPT ![s] = y] /\ UNCHANGED <<tree, before>>
    BY <1>6, EndedIs, Zenon DEF Seeded
  <2>2. IsScript(y, scene.tries) /\ y.stage = "ready"
    BY <1>2, RestingIsScript
  <2> HIDE DEF x, y, n
  <2>3. QED
    BY <1>1, <1>4, <1>5, <2>1, <2>2, BusyStep
<1>7. CASE ~OverBudget(tree, scene.seed)
  <2> DEFINE y == Going(x.op, <<>>)
  <2>1. /\ tree' = n /\ script' = [script EXCEPT ![s] = y]
        /\ before' = IF Lone THEN tree' ELSE before
    BY <1>7, Zenon DEF Seeded
  <2>2. Sound(n)
    BY <1>2, <1>3, <1>7, LoadingIsSound
  <2>3. IsScript(y, scene.tries) /\ y.stage \in {"ready", "call"}
    BY <1>2, GoingIsScript, EmptySeq
  <2> HIDE DEF x, y, n
  <2>4. Sound(tree') /\ IsTree(before')
    <3>1. Sound(tree') /\ IsTree(tree')
      BY <2>1, <2>2 DEF Sound, Whole
    <3>2. QED
      BY <1>5, <2>1, <3>1
  <2>5. y.stage \in {"ready"} \cup Calling
    BY <2>3 DEF Calling
  <2>6. QED
    BY <1>1, <1>4, <1>5, <2>1, <2>3, <2>4, <2>5, BusyStep
<1>8. QED
  BY <1>6, <1>7

LEMMA AnsweredIs ==
  ASSUME NEW s, NEW answer
  PROVE  Answered(s, answer) = [script EXCEPT ![s] = After(script[s], answer)]
<1>1. CASE answer.kind \in Errno
  <2>1. After(script[s], answer) = Resting(script[s].op, answer.kind)
    BY <1>1, Zenon DEF After
  <2>2. Answered(s, answer) = Ended(s, answer.kind)
    BY <1>1, Zenon DEF Answered
  <2>3. QED
    BY <2>1, <2>2, EndedIs
<1>2. CASE answer.kind \notin Errno
  BY <1>2, Zenon DEF After, Answered
<1>3. QED
  BY <1>1, <1>2

LEMMA CallMemoryStep ==
  ASSUME Inv, NEW s \in scene.scripts, CallMemory(s)
  PROVE  Inv'
<1> DEFINE x == script[s]
           call == NextCall(s)
           done == Call(tree, call)
           y == After(x, done.answer)
<1>1. x.stage = "call" /\ x.stage \in Calling /\ UNCHANGED <<scene, seeded, index, before>>
  BY DEF CallMemory, Calling
<1>2. tree' = done.tree /\ script' = [script EXCEPT ![s] = y]
  BY AnsweredIs DEF CallMemory
<1>3. IsScript(x, scene.tries) /\ scene.tries \in Nat /\ s \in Script
  BY ScriptFacts
<1>4. /\ done.answer \in Answers /\ Sound(done.tree)
      /\ done.answer.kind \in Errno \/ Plausible(call, done.answer)
  BY <1>1, CallNow
<1>5. call = Perform(x.op, x.seen)
  BY DEF NextCall
<1>6. seeded /\ IsTree(before') /\ IsIndex(index')
  BY <1>1, <1>3 DEF Inv, SeedInv
<1> HIDE DEF x, call, done
<1>7. IsScript(y, scene.tries) /\ y.stage \in {"ready", "call"}
  BY <1>1, <1>3, <1>4, <1>5, AfterIsScript
<1>8. y.stage \in {"ready"} \cup Calling
  BY <1>7 DEF Calling
<1> HIDE DEF y
<1>9. QED
  BY <1>1, <1>2, <1>4, <1>6, <1>7, <1>8, BusyStep

LEMMA AttemptStep ==
  ASSUME Inv, NEW s \in scene.scripts, Attempt(s)
  PROVE  Inv'
<1> DEFINE x == script[s]
           call == NextCall(s)
           done == Call(tree, call)
           y == [x EXCEPT !.stage = "run", !.reply = done.answer]
<1>1. x.stage = "sent" /\ x.stage \in Calling /\ UNCHANGED <<scene, seeded, index, before>>
  BY DEF Attempt, Calling
<1>2. tree' = done.tree /\ script' = [script EXCEPT ![s] = y]
  BY DEF Attempt
<1>3. IsScript(x, scene.tries) /\ x.tries \in 0 .. scene.tries /\ scene.tries \in Nat /\ s \in Script
  BY ScriptFacts
<1>4. /\ done.answer \in Answers /\ Sound(done.tree)
      /\ done.answer.kind \in Errno \/ Plausible(call, done.answer)
  BY <1>1, CallNow
<1>5. call = Perform(x.op, x.seen)
  BY DEF NextCall
<1>6. seeded /\ IsTree(before') /\ IsIndex(index')
  BY <1>1, <1>3 DEF Inv, SeedInv
<1>7. y = [x EXCEPT !.stage = "run", !.reply = done.answer]
  OBVIOUS
<1>8. x = [stage |-> x.stage, op |-> x.op, seen |-> x.seen, reply |-> x.reply, tries |-> x.tries,
           out |-> x.out]
  BY <1>3 DEF IsScript
<1> HIDE DEF x, call, done, y
<1>9. y = [stage |-> "run", op |-> x.op, seen |-> x.seen, reply |-> done.answer, tries |-> x.tries,
           out |-> x.out]
  BY <1>7, <1>8
<1>10. IsScript(y, scene.tries) /\ y.stage = "run"
  <2>1. "run" \in Stages
    BY DEF Stages
  <2>2. QED
    BY <1>1, <1>3, <1>4, <1>5, <1>9, <2>1, StageIsScript
<1>11. y.stage \in {"ready"} \cup Calling
  BY <1>10 DEF Calling
<1>12. QED
  BY <1>1, <1>2, <1>4, <1>6, <1>10, <1>11, BusyStep

LEMMA ReportStep ==
  ASSUME Inv, NEW s \in scene.scripts, Report(s)
  PROVE  Inv'
<1> DEFINE x == script[s]
           call == NextCall(s)
           y == After(x, x.reply)
<1>1. x.stage = "run" /\ x.stage \in Calling /\ UNCHANGED <<scene, seeded, tree, before>>
  BY DEF Report, Calling
<1>2. /\ index' = IF x.reply.kind \in Errno THEN index ELSE Recorded(index, call, x.reply)
      /\ script' = [script EXCEPT ![s] = y]
  BY AnsweredIs DEF Report
<1>3. IsScript(x, scene.tries) /\ scene.tries \in Nat /\ s \in Script /\ x.reply \in Answers
  BY ScriptFacts
<1>4. call = Perform(x.op, x.seen) /\ IsCall(call)
  BY <1>1, ScriptFacts DEF NextCall
<1>5. x.reply.kind \in Errno \/ Plausible(call, x.reply)
  BY <1>1, <1>3, <1>4 DEF IsScript
<1>6. seeded /\ IsTree(before') /\ IsIndex(index) /\ Sound(tree')
  BY <1>1, <1>3 DEF Inv, SeedInv
<1> HIDE DEF x, call
<1>7. IsScript(y, scene.tries) /\ y.stage \in {"ready", "call"}
  BY <1>1, <1>3, <1>4, <1>5, AfterIsScript
<1>8. y.stage \in {"ready"} \cup Calling
  BY <1>7 DEF Calling
<1>9. IsIndex(index')
  <2>1. CASE x.reply.kind \in Errno
    BY <1>2, <1>6, <2>1
  <2>2. CASE x.reply.kind \notin Errno
    <3>1. IsIndex(Recorded(index, call, x.reply))
      BY <1>3, <1>4, <1>5, <1>6, <2>2, RecordTypes
    <3>2. QED
      BY <1>2, <2>2, <3>1
  <2>3. QED
    BY <2>1, <2>2
<1> HIDE DEF y
<1>10. QED
  BY <1>1, <1>2, <1>6, <1>7, <1>8, <1>9, BusyStep

\* An empty mount.
LEMMA EmptyIsSound == Sound(Nothing)
<1>1. /\ Nothing.files = <<>> /\ Nothing.dirs = {} /\ DOMAIN <<>> = {}
      /\ Nothing = [files |-> Nothing.files, dirs |-> Nothing.dirs] /\ <<>> \in [{} -> Nat]
  BY DEF Nothing
<1>2. IsTree(Nothing)
  BY <1>1 DEF IsTree
<1>3. Whole(Nothing)
  BY <1>1, <1>2, FS_EmptySet DEF Whole, Nodes
<1>4. SumFunction(Nothing.files) = 0 /\ MaxBytes \in Nat
  BY <1>1, SumOfNone, SceneAssumption DEF SumFunction, SceneAssumption
<1>5. QED
  BY <1>3, <1>4 DEF Sound, InBudget

LEMMA InitInv ==
  ASSUME SoundSeeds, Init
  PROVE  Inv
<1>1. scene \in Scenes /\ scene.tries \in Nat \ {0}
  BY SceneAssumption DEF SceneAssumption, Init
<1>2. Sound(Nothing) /\ IsTree(Nothing)
  BY EmptyIsSound DEF Sound, Whole
<1>3. Sound(tree)
  <2>1. CASE InMemory
    <3>1. tree = Nothing
      BY <2>1 DEF Init
    <3>2. QED
      BY <1>2, <3>1
  <2>2. CASE ~InMemory
    <3>1. tree = AsGiven
      BY <2>2 DEF Init
    <3>2. QED
      BY <1>1, <2>2, <3>1, SeedIsWhole DEF Sound, InBudget
  <2>3. QED
    BY <2>1, <2>2
<1>4. IsIndex(index)
  BY DEF Init, IsIndex
<1>5. IsScript(Idle, scene.tries) /\ Idle.stage = "ready"
  <2>1. IsOp(Op("exists", Root, Root, 0, {})) /\ Just("none") \in Answers /\ <<>> \in Seq(Answers)
    BY RootPath DEF IsOp, Op, Operations, Just, Answer, Answers, Kinds
  <2>2. 0 \in 0 .. scene.tries
    BY <1>1
  <2>3. PICK op, none : op = Op("exists", Root, Root, 0, {}) /\ none = Just("none")
    OBVIOUS
  <2>4. Idle = [stage |-> "ready", op |-> op, seen |-> <<>>, reply |-> none, tries |-> 0, out |-> "none"]
    BY <2>3 DEF Idle
  <2>5. QED
    BY <2>1, <2>2, <2>3, <2>4 DEF IsScript, Stages, Calling
<1>6. /\ script = [s \in Script |-> script[s]]
      /\ \A s \in Script : script[s] = Idle
  BY DEF Init
<1>7. SeedInv
  <2>1. ~seeded => InMemory /\ scene.seed # <<>> /\ tree = Nothing
    BY DEF Init
  <2>2. QED
    BY <1>5, <1>6, <2>1 DEF SeedInv, Calling
<1>8. seeded \in BOOLEAN /\ before = Nothing
  BY DEF Init
<1>9. QED
  BY <1>1, <1>2, <1>3, <1>4, <1>5, <1>6, <1>7, <1>8 DEF Inv

LEMMA StepInv ==
  ASSUME SoundSeeds, Inv, [Next]_vars
  PROVE  Inv'
<1>1. ASSUME NEW s \in scene.scripts, Denied(s)
      PROVE  Inv'
  BY <1>1, EndedStep DEF Denied
<1>2. CASE UNCHANGED vars
  BY <1>2 DEF vars, Inv, Sound, InBudget, InMemory, SeedInv, Nothing, IsTree
<1>3. QED
  BY <1>1, <1>2, BeginStep, RunSeedStep, SeededStep, CallMemoryStep, SendStep, AttemptStep,
     LoseStep, ReportStep DEF Next
----------------------------------------------------------------------------
(* The mount is a tree *)

LEMMA InvSuffices ==
  ASSUME Inv
  PROVE  TreeIsWhole
<1>1. IsTree(tree) /\ IsTree(before) /\ IsIndex(index) /\ Sound(tree)
  BY DEF Inv, Sound, Whole
<1>2. ASSUME NEW s \in Script
      PROVE  /\ script[s].stage \in Stages /\ script[s].reply.kind \in Kinds
             /\ script[s].tries \in 0 .. scene.tries
             /\ script[s].stage \in {"call", "sent", "run"} => NextCall(s).tool # "none"
  BY DEF Inv, IsScript, Answers, Calling, NextCall
<1>3. TypeOK
  BY <1>1, <1>2 DEF TypeOK, Inv, IsIndex, Paths
<1>4. \A p \in tree.dirs \cup DOMAIN tree.files : p # Root /\ IsDir(tree, Parent(p))
  BY <1>1, NodePaths DEF Sound, Whole, Nodes
<1>5. QED
  BY <1>1, <1>3, <1>4 DEF TreeIsWhole, Sound, Whole, InBudget

\* Whatever any number of scripts do to a mount at once, and however often an attempt is
\* made again, the mount stays a tree: everything lies in a directory, no path is a file
\* and a directory, and the budget of a backend in memory is kept.  For every set of names,
\* paths of any length, files of any size and every scene whose seed is sound.
THEOREM TreeTheorem ==
  ASSUME SoundSeeds
  PROVE  Spec => []TreeIsWhole
<1>1. Init => Inv
  BY InitInv
<1>2. Inv /\ [Next]_vars => Inv'
  BY StepInv
<1>3. Inv => TreeIsWhole
  BY InvSuffices
<1>4. QED
  BY <1>1, <1>2, <1>3, PTL DEF Spec

----------------------------------------------------------------------------
(* A mount changes last *)

\* A step of one script leaves the others where they are, and of the calls a script has
\* at its gate only that of a backend in memory changes the mount.
LEMMA OwnStep ==
  ASSUME Inv, NEW u \in scene.scripts, NEW s \in scene.scripts,
         \/ Begin(u) \/ Denied(u) \/ RunSeed(u) \/ Seeded(u)
         \/ CallMemory(u) \/ Send(u) \/ Attempt(u) \/ Lose(u) \/ Report(u)
  PROVE  /\ s # u => script'[s] = script[s]
         /\ script[u].stage = "call" /\ tree' # tree => CallMemory(u)
<1>1. s \in Script /\ u \in Script /\ script = [v \in Script |-> script[v]]
  BY ScriptFacts DEF Inv
<1>2. \E y : script' = [script EXCEPT ![u] = y]
  BY EndedIs, AnsweredIs DEF Begin, Denied, RunSeed, Seeded, CallMemory, Send, Attempt, Lose, Report
<1>3. s # u => script'[s] = script[s]
  BY <1>1, <1>2
<1>4. script[u].stage = "call" /\ tree' # tree => CallMemory(u)
  BY DEF Begin, Denied, RunSeed, Seeded, Send, Attempt, Lose, Report
<1>5. QED
  BY <1>3, <1>4

LEMMA ChangeEnds ==
  ASSUME Inv, NEW s \in scene.scripts, CallMemory(s), tree' # tree, script[s].op.name # "mkdir"
  PROVE  script'[s].stage = "ready"
<1> DEFINE x == script[s]
           call == NextCall(s)
           done == Call(tree, call)
           seen == Append(x.seen, done.answer)
<1>1. /\ x.stage \in Calling /\ s \in Script /\ scene.tries \in Nat
      /\ IsOp(x.op) /\ x.seen \in Seq(Answers) /\ x.op.name # "mkdir"
  BY ScriptFacts DEF CallMemory, Calling
<1>2. tree' = done.tree /\ script' = [script EXCEPT ![s] = After(x, done.answer)]
  BY AnsweredIs DEF CallMemory
<1>3. Settled(tree, call, done) /\ done.answer \in Answers
  BY <1>1, CallNow
<1>4. IsCall(call) /\ call = Perform(x.op, x.seen)
  BY <1>1, ScriptFacts DEF NextCall
<1> HIDE DEF x, call, done
<1>5. done.answer.kind \notin Errno /\ Shown(tree, call, done.tree, done.answer)
  BY <1>2, <1>3 DEF Settled
<1>6. call.tool \notin {"stat", "read", "list"}
  BY <1>2, <1>5 DEF Shown
<1>7. GoesOn(x.op, x.seen, done.answer, call, Perform(x.op, seen))
  BY <1>1, <1>3, <1>4, PerformGoesOn
<1>8. Perform(x.op, seen).tool = "none"
  BY <1>4, <1>6, <1>7 DEF GoesOn, IsCall, Tools, Changing
<1>9. After(x, done.answer) = Going(x.op, seen)
  BY <1>5, Zenon DEF After
<1>10. seen \in Seq(Answers)
  BY <1>1, <1>3, AppendProperties
<1> HIDE DEF seen
<1>11. Going(x.op, seen).stage = "ready"
  BY <1>1, <1>8, <1>10, GoingIsScript
<1>12. script'[s] = After(x, done.answer)
  BY <1>1, <1>2 DEF Inv
<1>13. QED
  BY <1>9, <1>11, <1>12

\* An operation other than a mkdir changes its mount in its last call or not at all, so a
\* refusal, an error or another script never leaves one half done.  For every operation
\* and whatever its calls have answered.
THEOREM ChangesTheorem ==
  ASSUME SoundSeeds
  PROVE  Spec => ChangesLast
<1> DEFINE ChangeIsLast == \A s \in scene.scripts :
             script[s].stage = "call" /\ tree' # tree /\ script'[s] # script[s] =>
               script'[s].stage = "ready" \/ script[s].op.name = "mkdir"
<1>1. Init => Inv
  BY InitInv
<1>2. Inv /\ [Next]_vars => Inv'
  BY StepInv
<1>3. Inv /\ [Next]_vars => [ChangeIsLast]_vars
  <2>1. SUFFICES ASSUME Inv, Next, NEW s \in scene.scripts, script[s].stage = "call", tree' # tree,
                        script'[s] # script[s], script[s].op.name # "mkdir"
                 PROVE  script'[s].stage = "ready"
    OBVIOUS
  <2>2. PICK u \in scene.scripts :
          \/ Begin(u) \/ Denied(u) \/ RunSeed(u) \/ Seeded(u)
          \/ CallMemory(u) \/ Send(u) \/ Attempt(u) \/ Lose(u) \/ Report(u)
    BY <2>1 DEF Next
  <2>3. u = s /\ CallMemory(s)
    BY <2>1, <2>2, OwnStep
  <2>4. QED
    BY <2>1, <2>3, ChangeEnds
<1>4. QED
  BY <1>1, <1>2, <1>3, PTL DEF Spec, ChangesLast

----------------------------------------------------------------------------
(* The index is true *)

Right(i, t) == Agrees(i, t) /\ (scene.seed = <<>> => DOMAIN i = Nodes(t))

LEMMA InitIndex ==
  ASSUME SoundSeeds, Init
  PROVE  IndexInv
<1>1. Inv
  BY InitInv
<1>2. ASSUME NEW s \in Script, ~InMemory
      PROVE  Agrees(Coming(s), tree) /\ (scene.seed = <<>> => DOMAIN Coming(s) = Nodes(tree))
  <2>1. script[s].stage = "ready" /\ index = <<>>
    BY DEF Init, Idle
  <2>2. Coming(s) = <<>> /\ DOMAIN <<>> = {}
    BY <2>1 DEF Coming
  <2>3. Agrees(<<>>, tree)
    BY <2>2 DEF Agrees, IsIndex
  <2>4. scene.seed = <<>> => Nodes(tree) = {}
    <3>1. tree = AsGiven
      BY <1>2 DEF Init
    <3>2. scene.seed = <<>> => tree.files = <<>> /\ tree.dirs = {}
      BY <2>2, <3>1 DEF AsGiven
    <3>3. QED
      BY <2>2, <3>2 DEF Nodes
  <2>5. QED
    BY <2>2, <2>3, <2>4
<1>3. QED
  BY <1>2 DEF IndexInv

\* A step in which nothing of the mount is reported.
LEMMA StillRight ==
  ASSUME NEW s, Right(Coming(s), tree), UNCHANGED <<scene, tree, index>>,
         script[s].stage # "run", script'[s].stage # "run"
  PROVE  Right(Coming(s)', tree')
<1>1. Coming(s) = index /\ Coming(s)' = index
  BY DEF Coming
<1>2. QED
  BY <1>1

LEMMA IndexStep ==
  ASSUME Inv, NEW s \in scene.scripts, Right(Coming(s), tree), ~scene.lossy, ~InMemory,
         \/ Begin(s) \/ Denied(s) \/ RunSeed(s) \/ Seeded(s)
         \/ CallMemory(s) \/ Send(s) \/ Attempt(s) \/ Lose(s) \/ Report(s)
  PROVE  Right(Coming(s)', tree') /\ scene' = scene
<1> DEFINE x == script[s]
           call == NextCall(s)
           done == Call(tree, call)
<1>1. /\ s \in Script /\ script = [v \in Script |-> script[v]] /\ scene.tries \in Nat /\ IsOp(x.op)
      /\ x.stage \in Calling => IsScript(x, scene.tries) /\ IsCall(call) /\ x.seen \in Seq(Answers)
      /\ seeded /\ x.stage \notin {"seed", "seeding"} /\ Whole(tree) /\ x.reply \in Answers
  BY ScriptFacts DEF Inv, SeedInv, Sound
<1>2. CASE Begin(s)
  <2>1. PICK op \in scene.ops : script' = [script EXCEPT ![s] = Going(op, <<>>)]
    BY <1>1, <1>2 DEF Begin
  <2>2. IsOp(op) /\ <<>> \in Seq(Answers)
    <3>1. scene \in Scenes
      BY DEF Inv
    <3>2. IsOp(op)
      BY <3>1, SceneAssumption DEF SceneAssumption, IsOp, Paths
    <3>3. QED
      BY <3>2, EmptySeq
  <2>3. Going(op, <<>>).stage \in {"ready", "call"}
    BY <1>1, <2>2, GoingIsScript
  <2>4. script'[s].stage # "run"
    BY <1>1, <2>1, <2>3
  <2>5. QED
    BY <1>2, <2>4, StillRight DEF Begin
<1>3. CASE Denied(s)
  <2>1. script'[s].stage = "ready"
    BY <1>1, <1>3, EndedIs, RestingIsScript DEF Denied
  <2>2. QED
    BY <1>3, <2>1, StillRight DEF Denied
<1>4. ~RunSeed(s) /\ ~Seeded(s) /\ ~CallMemory(s) /\ ~Lose(s)
  BY <1>1 DEF RunSeed, Seeded, CallMemory, Lose
<1>5. CASE Send(s)
  <2>1. script'[s].stage = "sent"
    <3>1. x.stage = "call" /\ script' = [script EXCEPT ![s] = [x EXCEPT !.stage = "sent", !.tries = 1]]
      BY <1>5 DEF Send
    <3>2. x = [stage |-> x.stage, op |-> x.op, seen |-> x.seen, reply |-> x.reply, tries |-> x.tries,
               out |-> x.out]
      BY <1>1, <3>1 DEF IsScript, Calling
    <3>3. script'[s] = [x EXCEPT !.stage = "sent", !.tries = 1]
      BY <1>1, <3>1
    <3> HIDE DEF x
    <3>4. QED
      BY <3>2, <3>3
  <2>2. QED
    BY <1>5, <2>1, StillRight DEF Send
<1>6. CASE Attempt(s)
  <2> DEFINE y == [x EXCEPT !.stage = "run", !.reply = done.answer]
  <2>1. /\ x.stage = "sent" /\ x.stage \in Calling /\ scene' = scene /\ index' = index
        /\ tree' = done.tree /\ script' = [script EXCEPT ![s] = y]
    BY <1>6 DEF Attempt, Calling
  <2>2. /\ script'[s].stage = "run" /\ script'[s].reply = done.answer
        /\ script'[s].op = x.op /\ script'[s].seen = x.seen
    <3>1. script'[s] = y
      BY <1>1, <2>1
    <3>2. x = [stage |-> x.stage, op |-> x.op, seen |-> x.seen, reply |-> x.reply, tries |-> x.tries,
               out |-> x.out]
      BY <1>1, <2>1 DEF IsScript
    <3>3. y = [x EXCEPT !.stage = "run", !.reply = done.answer]
      OBVIOUS
    <3> HIDE DEF x, done, y
    <3>4. y.stage = "run" /\ y.reply = done.answer /\ y.op = x.op /\ y.seen = x.seen
      BY <3>2, <3>3
    <3>5. QED
      BY <3>1, <3>4
  <2>3. NextCall(s)' = call
    BY <2>2 DEF NextCall
  <2>4. Settled(tree, call, done)
    BY <2>1, CallNow
  <2>5. Coming(s) = index
    BY <2>1 DEF Coming
  <2>6. /\ done.answer.kind \in Errno => Coming(s)' = index
        /\ done.answer.kind \notin Errno => Coming(s)' = Recorded(index, call, done.answer)
    <3>1. Coming(s)' = IF script'[s].stage = "run" /\ script'[s].reply.kind \notin Errno
                       THEN Recorded(index', NextCall(s)', script'[s].reply) ELSE index'
      BY DEF Coming
    <3> HIDE DEF done, call
    <3>2. QED
      BY <2>1, <2>2, <2>3, <3>1, Zenon
  <2> HIDE DEF x, done, call, y
  <2>7. CASE done.answer.kind \in Errno
    <3>1. done.tree = tree
      BY <2>4, <2>7 DEF Settled
    <3>2. QED
      BY <2>1, <2>5, <2>6, <2>7, <3>1
  <2>8. CASE done.answer.kind \notin Errno
    <3>1. /\ done.answer \in Answers /\ Sound(done.tree)
          /\ Shown(tree, call, done.tree, done.answer)
      BY <2>4, <2>8 DEF Settled
    <3>2. Agrees(index, tree) /\ (scene.seed = <<>> => DOMAIN index = Nodes(tree))
      BY <2>5 DEF Right
    <3>3. Keeps(index, tree, Recorded(index, call, done.answer), done.tree)
      BY <1>1, <2>1, <3>1, <3>2, RecordKeeps DEF Sound
    <3>4. Right(Recorded(index, call, done.answer), done.tree)
      BY <3>2, <3>3 DEF Right, Keeps
    <3>5. QED
      BY <2>1, <2>6, <2>8, <3>4 DEF Right
  <2>9. QED
    BY <2>1, <2>7, <2>8
<1>7. CASE Report(s)
  <2> DEFINE y == After(x, x.reply)
  <2>1. /\ x.stage = "run" /\ x.stage \in Calling /\ UNCHANGED <<scene, tree>>
        /\ index' = Coming(s) /\ script' = [script EXCEPT ![s] = y]
    BY <1>7, AnsweredIs DEF Report, Calling, Coming
  <2>2. x.reply.kind \in Errno \/ Plausible(Perform(x.op, x.seen), x.reply)
    BY <1>1, <2>1 DEF IsScript
  <2>3. y.stage \in {"ready", "call"}
    BY <1>1, <2>1, <2>2, AfterIsScript
  <2>4. script'[s].stage # "run"
    BY <1>1, <2>1, <2>3
  <2>5. Coming(s)' = index'
    BY <2>4 DEF Coming
  <2>6. QED
    BY <2>1, <2>5 DEF Right
<1>8. QED
  BY <1>2, <1>3, <1>4, <1>5, <1>6, <1>7

LEMMA NextIndex ==
  ASSUME Inv, IndexInv, [Next]_vars
  PROVE  IndexInv'
<1>1. CASE UNCHANGED vars
  <2>1. UNCHANGED <<scene, tree, index, script>>
    BY <1>1 DEF vars
  <2>2. \A s : Coming(s)' = Coming(s)
    BY <2>1 DEF Coming, NextCall
  <2>3. QED
    BY <2>1, <2>2 DEF IndexInv, InMemory
<1>2. CASE Next
  <2>1. PICK s \in scene.scripts :
          \/ Begin(s) \/ Denied(s) \/ RunSeed(s) \/ Seeded(s)
          \/ CallMemory(s) \/ Send(s) \/ Attempt(s) \/ Lose(s) \/ Report(s)
    BY <1>2 DEF Next
  <2>2. scene' = scene /\ s \in Script
    BY <2>1, ScriptFacts
       DEF Begin, Denied, RunSeed, Seeded, CallMemory, Send, Attempt, Lose, Report
  <2>3. SUFFICES ASSUME NEW u \in Script, scene.scripts = {u}, ~scene.lossy, ~InMemory
                 PROVE  Right(Coming(u)', tree')
    BY <2>2 DEF IndexInv, InMemory, Right
  <2>4. u = s
    BY <2>1, <2>3
  <2>5. Right(Coming(s), tree)
    BY <2>2, <2>3, <2>4 DEF IndexInv, Right
  <2>6. Right(Coming(s)', tree')
    BY <2>1, <2>3, <2>5, IndexStep
  <2>7. QED
    BY <2>4, <2>6
<1>3. QED
  BY <1>1, <1>2

LEMMA IndexSuffices ==
  ASSUME Inv, IndexInv
  PROVE  IndexIsTrue
<1>1. SUFFICES ASSUME Lone, ~scene.lossy, ~InMemory, \A s \in scene.scripts : script[s].stage # "run"
               PROVE  /\ \A p \in DOMAIN index :
                           CASE index[p].kind = "dir" -> IsDir(tree, p)
                             [] index[p].kind = "file" -> IsFile(tree, p) /\ tree.files[p] = index[p].size
                             [] index[p].kind = "named" -> Exists(tree, p)
                      /\ scene.seed = <<>> => DOMAIN index = tree.dirs \cup DOMAIN tree.files
  BY DEF IndexIsTrue
<1>2. PICK s \in Script : scene.scripts = {s}
  BY <1>1 DEF Lone
<1>3. Coming(s) = index
  BY <1>1, <1>2 DEF Coming
<1>4. Agrees(index, tree) /\ (scene.seed = <<>> => DOMAIN index = Nodes(tree))
  BY <1>1, <1>2, <1>3 DEF IndexInv
<1>5. ASSUME NEW p \in DOMAIN index
      PROVE  CASE index[p].kind = "dir" -> IsDir(tree, p)
               [] index[p].kind = "file" -> IsFile(tree, p) /\ tree.files[p] = index[p].size
               [] index[p].kind = "named" -> Exists(tree, p)
  <2>1. Says(index[p], p, tree) /\ index[p].kind \in {"dir", "file", "named"}
    BY <1>4 DEF Agrees, IsIndex
  <2>2. QED
    BY <2>1 DEF Says, Nodes, Exists, IsDir, IsFile
<1>6. QED
  BY <1>4, <1>5 DEF Nodes

\* A lone session whose calls are all reported knows only what is so of a backend of
\* activities, and all of it when the mount was empty, whatever calls succeeded or failed
\* and in whatever order.
THEOREM IndexTheorem ==
  ASSUME SoundSeeds
  PROVE  Spec => []IndexIsTrue
<1>1. Init => Inv /\ IndexInv
  BY InitInv, InitIndex
<1>2. Inv /\ IndexInv /\ [Next]_vars => (Inv /\ IndexInv)'
  BY StepInv, NextIndex
<1>3. Inv /\ IndexInv => IndexIsTrue
  BY IndexSuffices
<1>4. QED
  BY <1>1, <1>2, <1>3, PTL DEF Spec

----------------------------------------------------------------------------
(* What an operation means *)

\* When a call is not refused.
Allowed(t, c) ==
  LET p == c.path IN
  /\ c.tool = "read" => IsFile(t, p)
  /\ c.tool = "list" => IsDir(t, p)
  /\ c.tool = "write" => CanHold(t, p, c.size)
  /\ c.tool = "mkdir" => ~Exists(t, p) /\ IsDir(t, Parent(p))
  /\ c.tool = "delete" => IsFile(t, p) \/ (p \in t.dirs /\ Listed(t, p) = {})
  /\ c.tool = "rename" =>
       /\ Exists(t, p) /\ p # Root /\ IsDir(t, Parent(c.target))
       /\ IF IsFile(t, p) THEN ~IsDir(t, c.target)
          ELSE /\ ~Under(c.target, p) /\ ~IsFile(t, c.target)
               /\ IsDir(t, c.target) => c.target # Root /\ Listed(t, c.target) = {}

Changers == {"write", "mkdir", "delete", "rename"}

\* A call does its work, or is refused and must be.
Turns(t, c, n, a) ==
  /\ a \in Answers
  /\ \/ a.kind \notin Errno /\ Sound(n) /\ Shown(t, c, n, a) /\ Allowed(t, c)
        /\ (c.tool \in Changers => a = Just("ok"))
     \/ a.kind \in Errno /\ n = t /\ ~Allowed(t, c)

\* The beginning of a path.
Upto(p, i) == SubSeq(p, 1, i)

\* How far down the path of a mkdir the directories are there.
Depth(t, p) ==
  CHOOSE d \in 0 .. Len(p) - 1 : \A i \in 1 .. Len(p) - 1 : Upto(p, i) \in t.dirs <=> i <= d

\* The mount while an operation is at work that began on t: only a mkdir has changed
\* it, and has made the directories on its path one by one.
TreeAt(op, seen, t) ==
  IF op.name # "mkdir" \/ Len(seen) <= Len(op.path) THEN t
  ELSE [t EXCEPT !.dirs = @ \cup {Upto(op.path, i) :
                                    i \in 1 .. Depth(t, op.path) + (Len(seen) - Len(op.path))}]

\* What an operation has been told of the mount it began on, and went on with.
StatOf(t, p, a) == Shown(t, Ask("stat", p), t, a)
Knows(op, seen, t) ==
  /\ seen # <<>> /\ op.name # "write" => StatOf(t, op.path, seen[1])
  /\ Len(seen) >= 2 /\ op.name = "append" => Shown(t, Ask("read", op.path), t, seen[2])
  /\ Len(seen) >= 2 /\ op.name = "rmdir" => Shown(t, Ask("list", op.path), t, seen[2])
  /\ op.name = "mkdir" =>
       /\ seen # <<>> => ~Exists(t, op.path)
       /\ \A i \in 1 .. Len(op.path) - 1 :
            i + 1 <= Len(seen) =>
              /\ StatOf(t, Upto(op.path, i), seen[i + 1])
              /\ ~IsFile(t, Upto(op.path, i))
              /\ "parents" \in op.flags \/ IsDir(t, Upto(op.path, i))
       /\ Len(seen) > Len(op.path) =>
            Len(seen) - Len(op.path) < Len(op.path) - Depth(t, op.path)

\* An operation that began on t and left n did all it means, or nothing where it must not.
Outcome(op, t, out, n) ==
  /\ out \in Errno \cup {"ok"}
  /\ out = "ok" => Succeeds(op, t) /\ n = Effect(op, t)
  /\ out \in Errno => ~Succeeds(op, t) /\ n = t

\* With what its next call does and answers, an operation ends as it should or goes on.
Advances(op, seen, t, n, a) ==
  IF a.kind \in Errno THEN ~Succeeds(op, t) /\ n = t
  ELSE IF Perform(op, Append(seen, a)).tool = "none"
       THEN Outcome(op, t, Perform(op, Append(seen, a)).out, n)
  ELSE Knows(op, Append(seen, a), t) /\ n = TreeAt(op, Append(seen, a), t)

\* Two mounts with the same directories and the same files are the same.
LEMMA SameTree ==
  ASSUME NEW t, IsTree(t), NEW n, IsTree(n), n.dirs = t.dirs, DOMAIN n.files = DOMAIN t.files,
         SameFiles(t, n, DOMAIN t.files)
  PROVE  n = t
<1>1. t.files \in [DOMAIN t.files -> Nat] /\ n.files \in [DOMAIN t.files -> Nat]
  BY DEF IsTree
<1>2. n.files = t.files
  BY <1>1 DEF SameFiles
<1>3. t = [files |-> t.files, dirs |-> t.dirs] /\ n = [files |-> n.files, dirs |-> n.dirs]
  BY DEF IsTree
<1>4. QED
  BY <1>2, <1>3

\* What each effect is, of a mount that is a tree.
LEMMA WithFacts ==
  ASSUME NEW t, IsTree(t), NEW p \in Paths \ {Root}, NEW size \in Nat
  PROVE  IsTree(With(t, p, size)) /\ Puts(t, With(t, p, size), p, size)
<1> DEFINE g == At(p, size)
           h == Over(g, t.files)
           n == With(t, p, size)
<1>1. t = [files |-> t.files, dirs |-> t.dirs] /\ n = [t EXCEPT !.files = h]
      /\ DOMAIN t.files \subseteq Paths \ {Root} /\ t.files \in [DOMAIN t.files -> Nat]
      /\ t.dirs \subseteq Paths \ {Root}
  BY DEF With, IsTree, Paths
<1>2. DOMAIN g = {p} /\ g[p] = size
  BY AtFacts
<1>3. h = Over(g, t.files)
  OBVIOUS
<1> HIDE DEF g, h, n
<1>4. n = [files |-> h, dirs |-> t.dirs]
  BY <1>1
<1>5. /\ DOMAIN h = {p} \cup DOMAIN t.files /\ h = [q \in DOMAIN h |-> h[q]]
      /\ h[p] = size /\ \A q \in DOMAIN t.files \ {p} : h[q] = t.files[q]
  <2>1. h = [q \in DOMAIN g \cup DOMAIN t.files |-> IF q \in DOMAIN g THEN g[q] ELSE t.files[q]]
    BY <1>3, Zenon DEF Over
  <2>2. QED
    BY <1>2, <2>1
<1>6. \A q \in DOMAIN h : h[q] \in Nat
  BY <1>1, <1>5
<1>7. n.files = h /\ n.dirs = t.dirs
  BY <1>4
<1>8. IsTree(n)
  BY <1>1, <1>4, <1>5, <1>6, <1>7 DEF IsTree, Paths
<1>9. Puts(t, n, p, size)
  BY <1>5, <1>7 DEF Puts, SameFiles
<1>10. QED
  BY <1>8, <1>9 DEF n

LEMMA PutsIsWith ==
  ASSUME NEW t, IsTree(t), NEW p \in Paths \ {Root}, NEW size \in Nat, NEW n, IsTree(n),
         Puts(t, n, p, size)
  PROVE  n = With(t, p, size)
<1> DEFINE w == With(t, p, size)
<1>1. IsTree(w) /\ Puts(t, w, p, size)
  BY WithFacts
<1> HIDE DEF w
<1>2. w.dirs = n.dirs /\ DOMAIN w.files = DOMAIN n.files /\ SameFiles(n, w, DOMAIN n.files)
  BY <1>1 DEF Puts, SameFiles
<1>3. w = n
  BY <1>1, <1>2, SameTree
<1>4. QED
  BY <1>3 DEF w

LEMMA WithDirs ==
  ASSUME NEW t, IsTree(t), NEW dirs, dirs \subseteq Paths \ {Root}
  PROVE  LET n == [t EXCEPT !.dirs = dirs] IN
         IsTree(n) /\ n.dirs = dirs /\ n.files = t.files
<1> DEFINE n == [t EXCEPT !.dirs = dirs]
<1>1. n = [t EXCEPT !.dirs = dirs] /\ t = [files |-> t.files, dirs |-> t.dirs]
  BY DEF IsTree
<1> HIDE DEF n
<1>2. n = [files |-> t.files, dirs |-> dirs]
  BY <1>1
<1>3. IsTree(n) /\ n.dirs = dirs /\ n.files = t.files
  BY <1>2 DEF IsTree, Paths
<1>4. QED
  BY <1>3 DEF n

LEMMA WithoutFile ==
  ASSUME NEW t, IsTree(t), NEW p
  PROVE  LET n == [t EXCEPT !.files = Restrict(@, DOMAIN @ \ {p})] IN
         /\ IsTree(n) /\ n.dirs = t.dirs /\ DOMAIN n.files = DOMAIN t.files \ {p}
         /\ SameFiles(t, n, DOMAIN t.files \ {p})
<1> DEFINE h == Restrict(t.files, DOMAIN t.files \ {p})
           n == [t EXCEPT !.files = Restrict(@, DOMAIN @ \ {p})]
<1>1. n = [t EXCEPT !.files = h] /\ t = [files |-> t.files, dirs |-> t.dirs]
      /\ t.files \in [DOMAIN t.files -> Nat]
  BY DEF IsTree
<1>2. h = [q \in DOMAIN t.files \ {p} |-> t.files[q]]
  BY DEF Restrict
<1> HIDE DEF n, h
<1>3. n = [files |-> h, dirs |-> t.dirs]
  BY <1>1
<1>4. /\ DOMAIN h = DOMAIN t.files \ {p} /\ h \in [DOMAIN h -> Nat]
      /\ \A q \in DOMAIN t.files \ {p} : h[q] = t.files[q]
  BY <1>1, <1>2
<1>5. n.files = h /\ n.dirs = t.dirs
  BY <1>3
<1>6. IsTree(n)
  BY <1>3, <1>4, <1>5 DEF IsTree
<1>7. DOMAIN n.files = DOMAIN t.files \ {p} /\ SameFiles(t, n, DOMAIN t.files \ {p})
  BY <1>4, <1>5 DEF SameFiles
<1>8. QED
  BY <1>5, <1>6, <1>7 DEF n

\* What an operation means, one by one.
LEMMA EffectIs ==
  ASSUME NEW op, IsOp(op), NEW t
  PROVE  /\ op.name \in {"exists", "stat", "read", "iterdir"} => Effect(op, t) = t
         /\ op.name = "open" /\ op.flags = {"r"} => Effect(op, t) = t
         /\ op.name \in {"write", "append"} => Effect(op, t) = With(t, op.path, Written(op, t))
         /\ op.name = "open" /\ op.flags # {"r"} => Effect(op, t) = With(t, op.path, Written(op, t))
         /\ op.name = "mkdir" => Effect(op, t) = [t EXCEPT !.dirs = @ \cup Upwards(op.path)]
         /\ op.name = "unlink" =>
              Effect(op, t) = [t EXCEPT !.files = Restrict(@, DOMAIN @ \ {op.path})]
         /\ op.name = "rmdir" => Effect(op, t) = [t EXCEPT !.dirs = @ \ {op.path}]
<1>1. op.name \in {"exists", "stat", "read", "iterdir"} => Effect(op, t) = t
  BY DEF Effect
<1>2. op.name = "open" /\ op.flags = {"r"} => Effect(op, t) = t
  BY DEF Effect
<1>3. op.name \in {"write", "append"} => Effect(op, t) = With(t, op.path, Written(op, t))
  BY DEF Effect
<1>4. op.name = "open" /\ op.flags # {"r"} => Effect(op, t) = With(t, op.path, Written(op, t))
  BY DEF Effect
<1>5. op.name = "mkdir" => Effect(op, t) = [t EXCEPT !.dirs = @ \cup Upwards(op.path)]
  BY DEF Effect
<1>6. op.name = "unlink" => Effect(op, t) = [t EXCEPT !.files = Restrict(@, DOMAIN @ \ {op.path})]
  BY DEF Effect
<1>7. op.name = "rmdir" => Effect(op, t) = [t EXCEPT !.dirs = @ \ {op.path}]
  BY DEF Effect
<1>8. QED
  BY <1>1, <1>2, <1>3, <1>4, <1>5, <1>6, <1>7

\* Where a rename leaves what was at a path, and the files it does not replace.
Carried(p, q, r) == IF Under(r, p) THEN Rebased(r, p, q) ELSE r
Surviving(t, p, q) == {r \in DOMAIN t.files : Under(r, p) \/ Carried(p, q, r) # q}
Renamed(t, p, q) ==
  [files |-> [n \in {Carried(p, q, r) : r \in Surviving(t, p, q)} |->
                t.files[CHOOSE r \in Surviving(t, p, q) : Carried(p, q, r) = n]],
   dirs |-> {Carried(p, q, r) : r \in t.dirs}]

LEMMA EffectOfRename ==
  ASSUME NEW op, op.name = "rename", NEW t
  PROVE  Effect(op, t) = Renamed(t, op.path, op.target)
  BY DEF Effect, Renamed, Surviving, Carried

\* A mount that everything under a path has moved in is what a rename means.
LEMMA MovesIsRenamed ==
  ASSUME NEW t, Whole(t), NEW n, IsTree(n), NEW p \in Paths, NEW target \in Paths,
         CanMove(t, p, target), Moves(t, n, p, target),
         IsFile(t, p) => ~IsDir(t, target)
  PROVE  n = Renamed(t, p, target)
<1> DEFINE F == DOMAIN t.files
           K == Surviving(t, p, target)
           m == Renamed(t, p, target)
           D == {Carried(p, target, r) : r \in K}
           g == [x \in D |-> t.files[CHOOSE r \in K : Carried(p, target, r) = x]]
<1>1. /\ F \subseteq Paths \ {Root} /\ t.dirs \subseteq Paths \ {Root}
      /\ t.dirs \cap F = {} /\ F \subseteq Nodes(t) /\ t.dirs \subseteq Nodes(t)
      /\ t.files \in [F -> Nat]
  BY DEF Whole, IsTree, Paths, Nodes
<1>2. \A q \in Nodes(t) : Under(q, target) => q = target
  BY DEF CanMove
<1>3. /\ \A q \in Leaving(p, F) : Under(Rebased(q, p, target), target)
                                  /\ Rebased(Rebased(q, p, target), target, p) = q
      /\ \A q \in Leaving(p, F) : Rebased(q, p, target) \in Landed(p, target, F)
  BY <1>1, LandedFacts
<1>4. K = Leaving(p, F) \cup Staying(p, target, F)
  BY DEF Surviving, Carried, Leaving, Staying
<1>5. /\ \A r \in Leaving(p, F) : Carried(p, target, r) = Rebased(r, p, target)
      /\ \A r \in Staying(p, target, F) : Carried(p, target, r) = r
  BY DEF Carried, Leaving, Staying
<1>6. D = Landed(p, target, F) \cup Staying(p, target, F)
  <2> HIDE DEF K
  <2>1. QED
    BY <1>4, <1>5 DEF Landed
<1>7. \A r, u \in K : Carried(p, target, r) = Carried(p, target, u) => r = u
  <2> SUFFICES ASSUME NEW r \in K, NEW u \in K, Carried(p, target, r) = Carried(p, target, u)
               PROVE  r = u
    OBVIOUS
  <2>1. CASE r \in Leaving(p, F) /\ u \in Leaving(p, F)
    BY <2>1, <1>3, <1>5
  <2>2. CASE r \in Staying(p, target, F) /\ u \in Staying(p, target, F)
    BY <2>2, <1>5
  <2>3. ASSUME NEW x \in Leaving(p, F), NEW y \in Staying(p, target, F)
        PROVE  Carried(p, target, x) # Carried(p, target, y)
    <3>1. Under(Carried(p, target, x), target) /\ Carried(p, target, y) = y
      BY <1>3, <1>5
    <3>2. y \in Nodes(t) /\ y # target
      BY <1>1 DEF Staying
    <3>3. QED
      BY <1>2, <3>1, <3>2
  <2>4. QED
    BY <1>4, <2>1, <2>2, <2>3
<1>8. m = [files |-> g, dirs |-> {Carried(p, target, r) : r \in t.dirs}]
  BY DEF Renamed
<1> DEFINE E == {Carried(p, target, r) : r \in t.dirs}
<1>9. E = Landed(p, target, t.dirs) \cup Staying(p, target, t.dirs)
  <2>1. /\ \A r \in t.dirs : Under(r, p) => r \in Leaving(p, t.dirs)
                                             /\ Carried(p, target, r) = Rebased(r, p, target)
        /\ \A r \in t.dirs : ~Under(r, p) => Carried(p, target, r) = r
    BY DEF Leaving, Carried
  <2>2. E = Landed(p, target, t.dirs) \cup {r \in t.dirs : ~Under(r, p)}
    BY <2>1 DEF Landed, Leaving
  <2>3. target \in t.dirs /\ ~Under(target, p) => target \in Landed(p, target, t.dirs)
    <3>1. SUFFICES ASSUME target \in t.dirs
                   PROVE  target \in Landed(p, target, t.dirs)
      OBVIOUS
    <3>2. p \in t.dirs
      BY <3>1 DEF CanMove, Nodes, IsFile, IsDir
    <3>3. p \in Leaving(p, t.dirs) /\ Rebased(p, p, target) = target
      BY <3>2, UnderOrder, RebasedFacts DEF Leaving
    <3>4. QED
      BY <3>3 DEF Landed
  <2>4. QED
    BY <2>2, <2>3 DEF Staying
<1> HIDE DEF m, g, K, D, E
<1>10. g = [x \in D |-> t.files[CHOOSE r \in K : Carried(p, target, r) = x]]
  BY DEF g
<1>11. \A r \in K : Carried(p, target, r) \in D /\ g[Carried(p, target, r)] = t.files[r]
  <2> TAKE r \in K
  <2>1. Carried(p, target, r) \in D
    BY DEF D
  <2> DEFINE u == CHOOSE u \in K : Carried(p, target, u) = Carried(p, target, r)
  <2>2. u \in K /\ Carried(p, target, u) = Carried(p, target, r)
    OBVIOUS
  <2>3. u = r
    BY <1>7, <2>2
  <2>4. g[Carried(p, target, r)] = t.files[u]
    BY <1>10, <2>1
  <2>5. QED
    BY <2>1, <2>3, <2>4
<1>12. m.files = g /\ m.dirs = E /\ m = [files |-> m.files, dirs |-> m.dirs] /\ DOMAIN g = D
  BY <1>8, <1>10 DEF E
<1>13. m.dirs = n.dirs /\ DOMAIN m.files = DOMAIN n.files
  BY <1>6, <1>9, <1>12 DEF Moves
<1>14. \A x \in D : g[x] = n.files[x]
  <2>1. \A r \in K : n.files[Carried(p, target, r)] = t.files[r]
    BY <1>4, <1>5 DEF Moves, SameFiles
  <2>2. \A x \in D : \E r \in K : x = Carried(p, target, r)
    BY DEF D
  <2>3. QED
    BY <1>11, <2>1, <2>2
<1>15. m.files = n.files
  <2>1. n.files = [x \in D |-> n.files[x]]
    BY <1>12, <1>13 DEF IsTree
  <2>2. g = [x \in D |-> g[x]]
    BY <1>10
  <2>3. QED
    BY <1>12, <1>14, <2>1, <2>2
<1>16. n = [files |-> n.files, dirs |-> n.dirs]
  BY DEF IsTree
<1>17. QED
  BY <1>12, <1>13, <1>15, <1>16 DEF m
----------------------------------------------------------------------------
(* What a call does, and when it is refused *)

LEMMA RefusalTurns ==
  ASSUME NEW t, NEW c, ~Allowed(t, c), NEW d, NEW e \in Errno, d = Refuse(t, e)
  PROVE  Turns(t, c, d.tree, d.answer)
<1>1. e \in Kinds
  BY DEF Kinds
<1>2. d.tree = t /\ d.answer.kind = e /\ d.answer \in Answers
  BY <1>1, ReplyFacts
<1>3. QED
  BY <1>2 DEF Turns

LEMMA AllowedTurns ==
  ASSUME NEW t, NEW c, Allowed(t, c), NEW d, Settled(t, c, d), d.answer.kind \notin Errno,
         c.tool \in Changers => d.answer = Just("ok")
  PROVE  Turns(t, c, d.tree, d.answer)
  BY DEF Turns, Settled

LEMMA LookTurns ==
  ASSUME NEW t, Sound(t), NEW c, IsCall(c), c.tool \in {"stat", "read", "list"}
  PROVE  LET d == Call(t, c) IN Turns(t, c, d.tree, d.answer)
<1> DEFINE p == c.path
           d == Call(t, c)
<1>1. Settled(t, c, d) /\ c.tool \notin Changers
  BY CallSettles DEF Changers
<1> SUFFICES Turns(t, c, d.tree, d.answer)
  OBVIOUS
<1> HIDE DEF d
<1>2. ASSUME NEW e \in {"EISDIR", "ENOENT", "ENOTDIR"}, d = Refuse(t, e), ~Allowed(t, c)
      PROVE  Turns(t, c, d.tree, d.answer)
  <2>1. e \in Errno
    BY DEF Errno
  <2>2. QED
    BY <1>2, <2>1, RefusalTurns
<1>3. ASSUME NEW kind \in {"dir", "file", "none", "data", "names"}, d.answer.kind = kind, Allowed(t, c)
      PROVE  Turns(t, c, d.tree, d.answer)
  <2>1. d.answer.kind \notin Errno
    BY <1>3 DEF Errno
  <2>2. QED
    BY <1>1, <1>3, <2>1, AllowedTurns
<1>4. CASE c.tool = "stat"
  <2>1. d = Stat(t, p) /\ Allowed(t, c)
    BY <1>4 DEF d, Call, Allowed
  <2>2. d.answer.kind \in {"dir", "file", "none"}
    <3>1. CASE IsDir(t, p)
      <4>1. d = Reply(t, Just("dir"))
        BY <2>1, <3>1, Zenon DEF Stat
      <4>2. Reply(t, Just("dir")).answer.kind = "dir"
        BY DEF Reply, Just, Answer
      <4>3. QED
        BY <4>1, <4>2
    <3>2. CASE ~IsDir(t, p) /\ IsFile(t, p)
      <4>1. d = Reply(t, Answer("file", t.files[p], {}))
        BY <2>1, <3>2, Zenon DEF Stat
      <4>2. Reply(t, Answer("file", t.files[p], {})).answer.kind = "file"
        BY ReplyFacts
      <4>3. QED
        BY <4>1, <4>2
    <3>3. CASE ~IsDir(t, p) /\ ~IsFile(t, p)
      <4>1. d = Reply(t, Just("none"))
        BY <2>1, <3>3, Zenon DEF Stat
      <4>2. Reply(t, Just("none")).answer.kind = "none"
        BY DEF Reply, Just, Answer
      <4>3. QED
        BY <4>1, <4>2
    <3>4. QED
      BY <3>1, <3>2, <3>3
  <2>3. QED
    BY <1>3, <2>1, <2>2
<1>5. CASE c.tool = "read"
  <2>1. d = Read(t, p) /\ (Allowed(t, c) <=> IsFile(t, p))
    BY <1>5 DEF d, Call, Allowed
  <2>2. IsFile(t, p) => ~IsDir(t, p)
    BY SizeFacts DEF Sound, IsFile
  <2>3. CASE IsDir(t, p)
    <3>1. d = Refuse(t, "EISDIR")
      BY <2>1, <2>3, Zenon DEF Read
    <3>2. QED
      BY <1>2, <2>1, <2>2, <2>3, <3>1
  <2>4. CASE ~IsDir(t, p) /\ ~IsFile(t, p)
    <3>1. d = Refuse(t, "ENOENT")
      BY <2>1, <2>4, Zenon DEF Read
    <3>2. QED
      BY <1>2, <2>1, <2>4, <3>1
  <2>5. CASE ~IsDir(t, p) /\ IsFile(t, p)
    <3>1. d = Reply(t, Answer("data", t.files[p], {}))
      BY <2>1, <2>5, Zenon DEF Read
    <3>2. d.answer.kind = "data"
      BY <3>1, ReplyFacts
    <3>3. QED
      BY <1>3, <2>1, <2>5, <3>2
  <2>6. QED
    BY <2>3, <2>4, <2>5
<1>6. CASE c.tool = "list"
  <2>1. d = List(t, p) /\ (Allowed(t, c) <=> IsDir(t, p))
    BY <1>6 DEF d, Call, Allowed
  <2>2. CASE ~IsDir(t, p)
    <3>1. d = Refuse(t, "ENOTDIR")
      BY <2>1, <2>2, Zenon DEF List
    <3>2. QED
      BY <1>2, <2>1, <2>2, <3>1
  <2>3. CASE IsDir(t, p)
    <3>1. d = Reply(t, Answer("names", 0, Listed(t, p)))
      BY <2>1, <2>3, Zenon DEF List
    <3>2. d.answer.kind = "names"
      BY <3>1, ReplyFacts
    <3>3. QED
      BY <1>3, <2>1, <2>3, <3>2
  <2>4. QED
    BY <2>2, <2>3
<1>7. QED
  BY <1>4, <1>5, <1>6

\* The budget that a write is checked against is that of the files it leaves.
LEMMA BudgetIs ==
  ASSUME NEW t, Whole(t), NEW p \in Paths \ {Root}, NEW size \in Nat
  PROVE  OverBudget(t, At(p, size)) <=> ~(InMemory => SumFunction(With(t, p, size).files) <= MaxBytes)
<1> DEFINE put == At(p, size)
           c == [NoChange EXCEPT !.put = put]
           n == Apply(t, c)
           files == DOMAIN t.files
           kept == (files \ c.drop) \ DOMAIN c.put
           K == SumFunctionOnSet(t.files, kept)
           R == SumFunctionOnSet(t.files, files \ kept)
<1>1. DOMAIN put = {p} /\ put[p] = size /\ put \in [{p} -> Nat] /\ IsFiniteSet({p})
  BY FS_Singleton DEF At
<1>2. c.put = put /\ c.drop = {} /\ c.rmdirs = {} /\ c.mkdirs = {}
  BY DEF NoChange
<1> HIDE DEF put, c, n
<1>3. IsChange(c) /\ IsTree(t) /\ IsFiniteSet(DOMAIN t.files)
  BY <1>1, <1>2 DEF IsChange, Whole
<1>4. /\ IsTree(n) /\ n.dirs = t.dirs
      /\ DOMAIN n.files = DOMAIN t.files \cup {p} /\ n.files[p] = size
      /\ \A q \in DOMAIN t.files \ {p} : n.files[q] = t.files[q]
  <2>1. /\ IsTree(n) /\ n.dirs = (t.dirs \ c.rmdirs) \cup c.mkdirs
        /\ DOMAIN n.files = DOMAIN c.put \cup (DOMAIN t.files \ c.drop)
        /\ \A q \in DOMAIN c.put : n.files[q] = c.put[q]
        /\ \A q \in DOMAIN t.files \ c.drop : q \notin DOMAIN c.put => n.files[q] = t.files[q]
    BY <1>3, ApplyFacts DEF n
  <2>2. QED
    BY <2>1, <1>1, <1>2
<1>5. n = With(t, p, size)
  BY <1>3, <1>4, PutsIsWith DEF Puts, SameFiles
<1>6. /\ SumFunction(n.files) = SumFunction(c.put) + K /\ SumFunction(t.files) = K + R
      /\ K \in Nat /\ R \in Nat /\ SumFunction(c.put) \in Nat
  BY <1>3, SumOfApply DEF n
<1>7. R = SumFunctionOnSet(t.files, DOMAIN put \cap files)
  <2>1. files \ kept = DOMAIN put \cap files
    BY <1>1, <1>2
  <2>2. QED
    BY <2>1
<1>8. OverBudget(t, put) <=> /\ InMemory
                             /\ SumFunction(t.files) + SumFunction(put)
                                  > MaxBytes + SumFunctionOnSet(t.files, DOMAIN put \cap files)
  BY DEF OverBudget, InMemory
<1>9. MaxBytes \in Nat
  BY SceneAssumption DEF SceneAssumption
<1> HIDE DEF K, R, kept, files
<1>10. OverBudget(t, put) <=> InMemory /\ ~(SumFunction(n.files) <= MaxBytes)
  BY <1>2, <1>6, <1>7, <1>8, <1>9
<1>11. QED
  BY <1>5, <1>10 DEF put

LEMMA WriteTurns ==
  ASSUME NEW t, Sound(t), NEW c, IsCall(c), c.tool = "write"
  PROVE  LET d == Call(t, c) IN Turns(t, c, d.tree, d.answer)
<1> DEFINE p == c.path
           size == c.size
           d == Call(t, c)
<1>1. Settled(t, c, d) /\ d = Write(t, p, size)
  BY CallSettles DEF Call
<1>2. p \in Paths /\ size \in Nat /\ Whole(t) /\ InBudget(t)
  BY DEF IsCall, Sound
<1>3. Allowed(t, c) <=> CanHold(t, p, size)
  BY DEF Allowed
<1>4. ASSUME p # Root
      PROVE  CanHold(t, p, size) <=> ~IsDir(t, p) /\ IsDir(t, Parent(p)) /\ ~OverBudget(t, At(p, size))
  BY <1>2, <1>4, BudgetIs DEF CanHold
<1>5. CanHold(t, p, size) => ~IsDir(t, p)
  BY DEF CanHold
<1>6. p = Root => IsDir(t, p)
  BY DEF IsDir
<1> SUFFICES Turns(t, c, d.tree, d.answer)
  OBVIOUS
<1> HIDE DEF d, p, size
<1>7. CASE /\ d = Done(t, [NoChange EXCEPT !.put = At(p, size)])
           /\ ~IsDir(t, p) /\ IsDir(t, Parent(p)) /\ ~OverBudget(t, At(p, size))
  <2>1. d.answer = Just("ok") /\ d.answer.kind = "ok"
    BY <1>7 DEF Done, Just, Answer
  <2>2. Allowed(t, c)
    BY <1>3, <1>4, <1>6, <1>7
  <2>3. QED
    BY <1>1, <2>1, <2>2, AllowedTurns DEF Errno
<1>8. CASE /\ \E e \in {"EISDIR", "ENOENT", "ENOSPC"} : d = Refuse(t, e)
           /\ IsDir(t, p) \/ ~IsDir(t, Parent(p)) \/ OverBudget(t, At(p, size))
  <2>1. PICK e \in Errno : d = Refuse(t, e)
    BY <1>8 DEF Errno
  <2>2. ~Allowed(t, c)
    BY <1>3, <1>4, <1>5, <1>6, <1>8
  <2>3. QED
    BY <2>1, <2>2, RefusalTurns
<1>9. QED
  <2>1. \/ /\ d = Done(t, [NoChange EXCEPT !.put = At(p, size)])
           /\ ~IsDir(t, p) /\ IsDir(t, Parent(p)) /\ ~OverBudget(t, At(p, size))
        \/ /\ \E e \in {"EISDIR", "ENOENT", "ENOSPC"} : d = Refuse(t, e)
           /\ IsDir(t, p) \/ ~IsDir(t, Parent(p)) \/ OverBudget(t, At(p, size))
    BY <1>1, <1>2, WriteFacts
  <2>2. QED
    BY <2>1, <1>7, <1>8

LEMMA MkdirTurns ==
  ASSUME NEW t, Sound(t), NEW c, IsCall(c), c.tool = "mkdir"
  PROVE  LET d == Call(t, c) IN Turns(t, c, d.tree, d.answer)
<1> DEFINE p == c.path
           d == Call(t, c)
<1>1. Settled(t, c, d) /\ d = Mkdir(t, p)
  BY CallSettles DEF Call
<1>2. Allowed(t, c) <=> ~IsDir(t, p) /\ ~IsFile(t, p) /\ IsDir(t, Parent(p))
  BY DEF Allowed, Exists
<1> HIDE DEF d
<1>3. ASSUME NEW e \in {"EEXIST", "ENOENT"}, d = Refuse(t, e), ~Allowed(t, c)
      PROVE  Turns(t, c, d.tree, d.answer)
  <2>1. e \in Errno
    BY DEF Errno
  <2>2. QED
    BY <1>3, <2>1, RefusalTurns
<1>4. CASE IsDir(t, p) \/ IsFile(t, p)
  <2>1. d = Refuse(t, "EEXIST")
    BY <1>1, <1>4, Zenon DEF Mkdir
  <2>2. QED
    BY <1>2, <1>3, <1>4, <2>1 DEF d
<1>5. CASE ~(IsDir(t, p) \/ IsFile(t, p)) /\ ~IsDir(t, Parent(p))
  <2>1. d = Refuse(t, "ENOENT")
    BY <1>1, <1>5, Zenon DEF Mkdir
  <2>2. QED
    BY <1>2, <1>3, <1>5, <2>1 DEF d
<1>6. CASE ~(IsDir(t, p) \/ IsFile(t, p)) /\ IsDir(t, Parent(p))
  <2>1. d = Done(t, [NoChange EXCEPT !.mkdirs = {p}])
    BY <1>1, <1>6, Zenon DEF Mkdir
  <2>2. d.answer = Just("ok") /\ d.answer.kind = "ok"
    BY <2>1 DEF Done, Just, Answer
  <2>3. d.answer.kind \notin Errno
    BY <2>2 DEF Errno
  <2>4. Turns(t, c, d.tree, d.answer)
    BY <1>1, <1>2, <1>6, <2>2, <2>3, AllowedTurns
  <2>5. QED
    BY <2>4 DEF d
<1>7. QED
  BY <1>4, <1>5, <1>6

LEMMA DeleteTurns ==
  ASSUME NEW t, Sound(t), NEW c, IsCall(c), c.tool = "delete"
  PROVE  LET d == Call(t, c) IN Turns(t, c, d.tree, d.answer)
<1> DEFINE p == c.path
           d == Call(t, c)
<1>1. Settled(t, c, d) /\ d = Delete(t, p)
  BY CallSettles DEF Call
<1>2. Allowed(t, c) <=> IsFile(t, p) \/ (p \in t.dirs /\ Listed(t, p) = {})
  BY DEF Allowed
<1> HIDE DEF d
<1>3. ASSUME NEW e \in {"ENOTEMPTY", "ENOENT"}, d = Refuse(t, e), ~Allowed(t, c)
      PROVE  Turns(t, c, d.tree, d.answer)
  <2>1. e \in Errno
    BY DEF Errno
  <2>2. QED
    BY <1>3, <2>1, RefusalTurns
<1>4. ASSUME NEW h, d = Done(t, h), Allowed(t, c)
      PROVE  Turns(t, c, d.tree, d.answer)
  <2>1. d.answer = Just("ok") /\ d.answer.kind = "ok"
    BY <1>4 DEF Done, Just, Answer
  <2>2. d.answer.kind \notin Errno
    BY <2>1 DEF Errno
  <2>3. QED
    BY <1>1, <1>4, <2>1, <2>2, AllowedTurns
<1>5. CASE IsFile(t, p)
  <2>1. d = Done(t, [NoChange EXCEPT !.drop = {p}])
    BY <1>1, <1>5, Zenon DEF Delete
  <2>2. Turns(t, c, d.tree, d.answer)
    BY <1>2, <1>4, <1>5, <2>1
  <2>3. QED
    BY <2>2 DEF d
<1>6. CASE ~IsFile(t, p) /\ p \notin t.dirs
  <2>1. d = Refuse(t, "ENOENT")
    BY <1>1, <1>6, Zenon DEF Delete
  <2>2. Turns(t, c, d.tree, d.answer)
    BY <1>2, <1>3, <1>6, <2>1
  <2>3. QED
    BY <2>2 DEF d
<1>7. CASE ~IsFile(t, p) /\ p \in t.dirs /\ Listed(t, p) # {}
  <2>1. d = Refuse(t, "ENOTEMPTY")
    BY <1>1, <1>7, Zenon DEF Delete
  <2>2. Turns(t, c, d.tree, d.answer)
    BY <1>2, <1>3, <1>7, <2>1
  <2>3. QED
    BY <2>2 DEF d
<1>8. CASE ~IsFile(t, p) /\ p \in t.dirs /\ Listed(t, p) = {}
  <2>1. d = Done(t, [NoChange EXCEPT !.rmdirs = {p}])
    BY <1>1, <1>8, Zenon DEF Delete
  <2>2. Turns(t, c, d.tree, d.answer)
    BY <1>2, <1>4, <1>8, <2>1
  <2>3. QED
    BY <2>2 DEF d
<1>9. QED
  BY <1>5, <1>6, <1>7, <1>8

LEMMA RenameTurns ==
  ASSUME NEW t, Sound(t), NEW c, IsCall(c), c.tool = "rename"
  PROVE  LET d == Call(t, c) IN Turns(t, c, d.tree, d.answer)
<1> DEFINE p == c.path
           target == c.target
           d == Call(t, c)
<1>1. Settled(t, c, d) /\ d = Rename(t, p, target)
  BY CallSettles DEF Call
<1>2. Allowed(t, c) <=>
        /\ Exists(t, p) /\ p # Root /\ IsDir(t, Parent(target))
        /\ IF IsFile(t, p) THEN ~IsDir(t, target)
           ELSE /\ ~Under(target, p) /\ ~IsFile(t, target)
                /\ IsDir(t, target) => target # Root /\ Listed(t, target) = {}
  BY DEF Allowed
<1>3. p \in Paths /\ target \in Paths /\ Whole(t)
  BY DEF IsCall, Sound
<1>4. /\ IsFile(t, p) => p # Root /\ Exists(t, p)
      /\ p \in t.dirs => p # Root /\ Exists(t, p)
      /\ ~IsFile(t, p) /\ p \notin t.dirs => p = Root \/ ~Exists(t, p)
  BY <1>3 DEF Whole, IsTree, Exists, IsFile, IsDir
<1> HIDE DEF d, p, target
<1>5. ASSUME NEW e \in {"EISDIR", "EINVAL", "ENOTEMPTY", "ENOENT"}, d = Refuse(t, e), ~Allowed(t, c)
      PROVE  Turns(t, c, d.tree, d.answer)
  <2>1. e \in Errno
    BY DEF Errno
  <2>2. QED
    BY <1>5, <2>1, RefusalTurns
<1>6. ASSUME NEW h, d = Done(t, h), Allowed(t, c)
      PROVE  Turns(t, c, d.tree, d.answer)
  <2>1. d.answer = Just("ok") /\ d.answer.kind = "ok"
    BY <1>6 DEF Done, Just, Answer
  <2>2. d.answer.kind \notin Errno
    BY <2>1 DEF Errno
  <2>3. QED
    BY <1>1, <1>6, <2>1, <2>2, AllowedTurns
<1>7. CASE ~IsDir(t, Parent(target))
  <2>1. d = Refuse(t, "ENOENT")
    BY <1>1, <1>7, Zenon DEF Rename
  <2>2. Turns(t, c, d.tree, d.answer)
    BY <1>2, <1>5, <1>7, <2>1
  <2>3. QED
    BY <2>2 DEF d
<1>8. CASE IsDir(t, Parent(target)) /\ IsFile(t, p) /\ IsDir(t, target)
  <2>1. d = Refuse(t, "EISDIR")
    BY <1>1, <1>8, Zenon DEF Rename
  <2>2. Turns(t, c, d.tree, d.answer)
    BY <1>2, <1>5, <1>8, <2>1
  <2>3. QED
    BY <2>2 DEF d
<1>9. CASE IsDir(t, Parent(target)) /\ IsFile(t, p) /\ ~IsDir(t, target)
  <2>1. d = Done(t, [NoChange EXCEPT !.drop = {p}, !.put = At(target, t.files[p])])
    BY <1>1, <1>9, Zenon DEF Rename
  <2>2. Turns(t, c, d.tree, d.answer)
    BY <1>2, <1>4, <1>6, <1>9, <2>1
  <2>3. QED
    BY <2>2 DEF d
<1>10. CASE IsDir(t, Parent(target)) /\ ~IsFile(t, p) /\ p \notin t.dirs
  <2>1. d = Refuse(t, "ENOENT")
    BY <1>1, <1>10, Zenon DEF Rename
  <2>2. Turns(t, c, d.tree, d.answer)
    BY <1>2, <1>4, <1>5, <1>10, <2>1
  <2>3. QED
    BY <2>2 DEF d
<1>11. CASE IsDir(t, Parent(target)) /\ ~IsFile(t, p) /\ p \in t.dirs
  <2>1. CASE Under(target, p)
    <3>1. d = Refuse(t, "EINVAL")
      BY <1>1, <1>11, <2>1, Zenon DEF Rename
    <3>2. Turns(t, c, d.tree, d.answer)
      BY <1>2, <1>5, <1>11, <2>1, <3>1
    <3>3. QED
      BY <3>2 DEF d
  <2>2. CASE ~Under(target, p) /\ (IsFile(t, target) \/ (IsDir(t, target) /\ Listed(t, target) # {}))
    <3>1. d = Refuse(t, "ENOTEMPTY")
      BY <1>1, <1>11, <2>2, Zenon DEF Rename
    <3>2. Turns(t, c, d.tree, d.answer)
      BY <1>2, <1>5, <1>11, <2>2, <3>1
    <3>3. QED
      BY <3>2 DEF d
  <2>3. CASE ~Under(target, p) /\ ~(IsFile(t, target) \/ (IsDir(t, target) /\ Listed(t, target) # {}))
    <3>1. d = Done(t, MoveOf(t, p, target))
      BY <1>1, <1>11, <2>3, Zenon DEF Rename
    <3>2. target # Root
      <4>1. d.answer.kind \notin Errno
        BY <3>1, DoneFacts DEF Errno
      <4>2. CanMove(t, p, target)
        BY <1>1, <4>1 DEF Settled, Shown, p, target
      <4>3. QED
        BY <4>2 DEF CanMove
    <3>3. Turns(t, c, d.tree, d.answer)
      BY <1>2, <1>4, <1>6, <1>11, <2>3, <3>1, <3>2
    <3>4. QED
      BY <3>3 DEF d
  <2>4. QED
    BY <2>1, <2>2, <2>3
<1>12. QED
  BY <1>7, <1>8, <1>9, <1>10, <1>11

\* On a sound mount a call is carried out exactly where it is allowed.
LEMMA CallTurns ==
  ASSUME NEW t, Sound(t), NEW c, IsCall(c)
  PROVE  LET d == Call(t, c) IN Turns(t, c, d.tree, d.answer)
<1>1. c.tool \in {"stat", "read", "list"} \/ c.tool \in {"write", "mkdir", "delete", "rename"}
  BY DEF IsCall, Tools
<1>2. QED
  BY <1>1, LookTurns, WriteTurns, MkdirTurns, DeleteTurns, RenameTurns

\* An attempt that is made again finds its work done: it changes nothing more.
LEMMA TwiceRefused ==
  ASSUME NEW n, Sound(n), NEW c, IsCall(c), ~Allowed(n, c)
  PROVE  LET e == Call(n, c) IN e.tree = n /\ e.answer.kind \in Errno
<1> DEFINE e == Call(n, c)
<1>1. Turns(n, c, e.tree, e.answer)
  BY CallTurns
<1> HIDE DEF e
<1>2. e.tree = n /\ e.answer.kind \in Errno
  BY <1>1 DEF Turns
<1>3. QED
  BY <1>2 DEF e

LEMMA TwiceWritten ==
  ASSUME NEW t, Sound(t), ~InMemory, NEW c, IsCall(c), c.tool = "write", NEW n, Sound(n),
         Shown(t, c, n, Just("ok"))
  PROVE  LET e == Call(n, c) IN e.tree = n /\ e.answer = Just("ok")
<1> DEFINE p == c.path
           e == Call(n, c)
<1>1. p \in Paths /\ c.size \in Nat /\ IsTree(n)
  BY DEF IsCall, Sound, Whole
<1>2. Puts(t, n, p, c.size) /\ ~IsDir(t, p) /\ IsDir(t, Parent(p))
  BY DEF Shown
<1>3. ~IsDir(n, p) /\ IsDir(n, Parent(p)) /\ p # Root
  BY <1>2 DEF Puts, IsDir
<1>4. Allowed(n, c)
  BY <1>3 DEF Allowed, CanHold
<1>5. Turns(n, c, e.tree, e.answer)
  BY CallTurns
<1> HIDE DEF e
<1>6. Sound(e.tree) /\ Shown(n, c, e.tree, e.answer) /\ e.answer = Just("ok")
  BY <1>4, <1>5 DEF Turns, Changers
<1>7. Puts(n, e.tree, p, c.size)
  BY <1>6 DEF Shown
<1>8. Puts(n, n, p, c.size)
  BY <1>2 DEF Puts, SameFiles
<1>9. e.tree = With(n, p, c.size) /\ n = With(n, p, c.size)
  BY <1>1, <1>3, <1>6, <1>7, <1>8, PutsIsWith DEF Sound, Whole
<1>10. QED
  BY <1>6, <1>9 DEF e

LEMMA TwiceMoved ==
  ASSUME NEW t, Sound(t), NEW c, IsCall(c), c.tool = "rename", NEW n, Sound(n),
         Shown(t, c, n, Just("ok")), Allowed(t, c)
  PROVE  n = t \/ ~Allowed(n, c)
<1> DEFINE p == c.path
           target == c.target
<1>1. p \in Paths /\ target \in Paths /\ Whole(t) /\ IsTree(t) /\ IsTree(n)
  BY DEF IsCall, Sound, Whole
<1>2. Moves(t, n, p, target) /\ CanMove(t, p, target)
  BY DEF Shown
<1>3. /\ t.dirs \subseteq Paths \ {Root} /\ DOMAIN t.files \subseteq Paths \ {Root}
      /\ t.dirs \cap DOMAIN t.files = {}
  BY <1>1 DEF Whole, IsTree, Paths
<1>4. p \in Nodes(t) /\ \A q \in Nodes(t) : Under(q, target) => q = target
  BY <1>2 DEF CanMove
<1>5. Under(p, p)
  BY <1>1, UnderOrder
<1>6. CASE p # target
  <2>1. ~Under(p, target)
    BY <1>4, <1>6
  <2>2. /\ \A q \in Landed(p, target, t.dirs) : Under(q, target)
        /\ \A q \in Landed(p, target, DOMAIN t.files) : Under(q, target)
    BY <1>1, <1>3, RebasedFacts DEF Landed, Leaving
  <2>3. p \notin n.dirs /\ p \notin DOMAIN n.files
    BY <1>2, <1>5, <2>1, <2>2 DEF Moves, Staying
  <2>4. QED
    BY <2>3 DEF Allowed, Exists, IsDir, IsFile
<1>7. CASE p = target
  <2>1. IsFile(t, p)
    BY <1>5, <1>7 DEF Allowed
  <2>2. p \in DOMAIN t.files /\ p \notin t.dirs
    BY <1>3, <2>1 DEF IsFile
  <2>3. \A q \in t.dirs : ~Under(q, p)
    BY <1>4, <1>7, <2>2 DEF Nodes
  <2>4. \A q \in DOMAIN t.files : Under(q, p) => q = p
    BY <1>4, <1>7 DEF Nodes
  <2>5. Rebased(p, p, p) = p
    BY <1>1, <1>5, RebasedFacts
  <2>6. Leaving(p, DOMAIN t.files) = {p} /\ Leaving(p, t.dirs) = {}
    BY <1>5, <2>2, <2>3, <2>4 DEF Leaving
  <2>7. Landed(p, p, DOMAIN t.files) = {p} /\ Landed(p, p, t.dirs) = {}
    BY <2>5, <2>6 DEF Landed
  <2>8. /\ Staying(p, p, t.dirs) = t.dirs
        /\ Staying(p, p, DOMAIN t.files) = DOMAIN t.files \ {p}
    BY <1>5, <2>2, <2>3, <2>4 DEF Staying
  <2>9. n.dirs = t.dirs /\ DOMAIN n.files = DOMAIN t.files
    BY <1>2, <1>7, <2>2, <2>7, <2>8 DEF Moves
  <2>10. SameFiles(t, n, DOMAIN t.files)
    BY <1>2, <1>7, <2>5, <2>6, <2>8 DEF Moves, SameFiles
  <2>11. QED
    BY <1>1, <2>9, <2>10, SameTree
<1>8. QED
  BY <1>6, <1>7

\* A call that is made a second time, its first answer lost, leaves what the first left.
LEMMA CallTwice ==
  ASSUME NEW t, Sound(t), ~InMemory, NEW c, IsCall(c)
  PROVE  LET d == Call(t, c)
             e == Call(d.tree, c) IN
         /\ e.tree = d.tree
         /\ e.answer = d.answer
            \/ (c.tool \in {"mkdir", "delete", "rename"} /\ e.answer.kind \in Errno)
<1> DEFINE d == Call(t, c)
           e == Call(d.tree, c)
<1> SUFFICES /\ e.tree = d.tree
             /\ e.answer = d.answer
                \/ (c.tool \in {"mkdir", "delete", "rename"} /\ e.answer.kind \in Errno)
  OBVIOUS
<1>1. Turns(t, c, d.tree, d.answer)
  BY CallTurns
<1>2. d.tree = t => e = d
  OBVIOUS
<1>3. ASSUME Sound(d.tree), ~Allowed(d.tree, c)
      PROVE  e.tree = d.tree /\ e.answer.kind \in Errno
  <2> HIDE DEF d
  <2>1. QED
    BY <1>3, TwiceRefused
<1>4. ASSUME c.tool = "write", Sound(d.tree), Shown(t, c, d.tree, Just("ok"))
      PROVE  e.tree = d.tree /\ e.answer = Just("ok")
  <2> HIDE DEF d
  <2>1. QED
    BY <1>4, TwiceWritten
<1> HIDE DEF d, e
<1>5. CASE d.answer.kind \in Errno
  BY <1>1, <1>2, <1>5 DEF Turns
<1>6. CASE d.answer.kind \notin Errno
  <2>1. /\ Sound(d.tree) /\ Shown(t, c, d.tree, d.answer) /\ Allowed(t, c)
        /\ c.tool \in Changers => d.answer = Just("ok")
    BY <1>1, <1>6 DEF Turns
  <2>2. CASE c.tool \in {"stat", "read", "list"}
    BY <1>2, <2>1, <2>2 DEF Shown
  <2>3. CASE c.tool = "write"
    BY <1>4, <2>1, <2>3 DEF Changers
  <2>4. CASE c.tool = "mkdir"
    <3>1. Makes(t, d.tree, c.path)
      BY <2>1, <2>4 DEF Shown
    <3>2. ~Allowed(d.tree, c)
      BY <2>4, <3>1 DEF Makes, Allowed, Exists, IsDir
    <3>3. QED
      BY <1>3, <2>1, <2>4, <3>2
  <2>5. CASE c.tool = "delete"
    <3>1. Drops(t, d.tree, c.path)
      BY <2>1, <2>5 DEF Shown
    <3>2. ~Allowed(d.tree, c)
      BY <2>5, <3>1 DEF Drops, Allowed, IsFile
    <3>3. QED
      BY <1>3, <2>1, <2>5, <3>2
  <2>6. CASE c.tool = "rename"
    <3>1. Shown(t, c, d.tree, Just("ok"))
      BY <2>1, <2>6 DEF Changers
    <3>2. d.tree = t \/ ~Allowed(d.tree, c)
      BY <2>1, <2>6, <3>1, TwiceMoved
    <3>3. QED
      BY <1>2, <1>3, <2>1, <2>6, <3>2
  <2>7. QED
    BY <2>2, <2>3, <2>4, <2>5, <2>6 DEF IsCall, Tools
<1>7. QED
  BY <1>5, <1>6
----------------------------------------------------------------------------
(* The last call of an operation, and what it means *)

Kind(t, p) == IF IsDir(t, p) THEN "dir" ELSE IF IsFile(t, p) THEN "file" ELSE "none"

\* A look says what there is, and changes nothing.
LEMMA StatTurns ==
  ASSUME NEW t, NEW p, NEW n, NEW a, Turns(t, Ask("stat", p), n, a)
  PROVE  /\ n = t /\ a \in Answers /\ a.kind = Kind(t, p) /\ a.kind \notin Errno
         /\ StatOf(t, p, a)
<1>1. Ask("stat", p).tool = "stat" /\ Ask("stat", p).path = p
  BY DEF Ask
<1>2. Allowed(t, Ask("stat", p))
  BY <1>1 DEF Allowed
<1>3. a \in Answers /\ a.kind \notin Errno /\ Shown(t, Ask("stat", p), n, a)
  BY <1>2 DEF Turns
<1>4. /\ n = t /\ a.kind \in {"dir", "file", "none"}
      /\ a.kind = "dir" => IsDir(t, p)
      /\ a.kind = "file" => ~IsDir(t, p) /\ IsFile(t, p)
      /\ a.kind = "none" => ~IsDir(t, p) /\ ~IsFile(t, p)
  BY <1>1, <1>3 DEF Shown
<1>5. a.kind = Kind(t, p)
  BY <1>4 DEF Kind
<1>6. QED
  BY <1>3, <1>4, <1>5 DEF StatOf

LEMMA StatOfKind ==
  ASSUME NEW t, NEW p, NEW a, StatOf(t, p, a)
  PROVE  a.kind = Kind(t, p)
  BY DEF StatOf, Shown, Ask, Kind

LEMMA KindFacts ==
  ASSUME NEW t, Sound(t), NEW p \in Paths
  PROVE  /\ Kind(t, p) \in {"dir", "file", "none"}
         /\ Kind(t, p) = "dir" <=> IsDir(t, p)
         /\ Kind(t, p) = "file" <=> IsFile(t, p)
         /\ Kind(t, p) = "none" <=> ~Exists(t, p)
<1>1. ~(IsFile(t, p) /\ IsDir(t, p))
  BY SizeFacts DEF Sound, IsFile
<1>2. QED
  BY <1>1 DEF Kind, Exists

\* What the last call of an operation settles.
Concludes(op, t, n, a) ==
  IF a.kind \in Errno THEN ~Succeeds(op, t) /\ n = t ELSE Succeeds(op, t) /\ n = Effect(op, t)

\* Where an operation must succeed, one by one.
LEMMA SucceedsIs ==
  ASSUME NEW op, IsOp(op), NEW t
  PROVE  LET p == op.path q == op.target IN
         /\ op.name = "exists" => Succeeds(op, t)
         /\ op.name = "stat" => (Succeeds(op, t) <=> Exists(t, p))
         /\ op.name = "read" \/ (op.name = "open" /\ op.flags = {"r"}) => (Succeeds(op, t) <=> IsFile(t, p))
         /\ op.name \in {"write", "append"} \/ (op.name = "open" /\ op.flags # {"r"}) =>
              (Succeeds(op, t) <=> CanHold(t, p, Written(op, t)))
         /\ op.name = "iterdir" => (Succeeds(op, t) <=> IsDir(t, p))
         /\ op.name = "mkdir" =>
              (Succeeds(op, t) <=>
                 IF Exists(t, p) THEN "exist_ok" \in op.flags /\ IsDir(t, p)
                 ELSE /\ \A r \in Upwards(p) : ~IsFile(t, r)
                      /\ "parents" \in op.flags \/ IsDir(t, Parent(p)))
         /\ op.name = "unlink" => (Succeeds(op, t) <=> IsFile(t, p))
         /\ op.name = "rmdir" => (Succeeds(op, t) <=> p \in t.dirs /\ Listed(t, p) = {})
         /\ op.name = "rename" => (Succeeds(op, t) <=> Allowed(t, Move(p, q)))
<1> DEFINE p == op.path q == op.target
<1>1. op.name = "exists" => Succeeds(op, t)
  BY DEF Succeeds
<1>2. op.name = "stat" => (Succeeds(op, t) <=> Exists(t, p))
  BY DEF Succeeds
<1>3. op.name = "read" \/ (op.name = "open" /\ op.flags = {"r"}) => (Succeeds(op, t) <=> IsFile(t, p))
  <2>1. op.name = "read" => (Succeeds(op, t) <=> IsFile(t, p))
    BY DEF Succeeds
  <2>2. op.name = "open" /\ op.flags = {"r"} => (Succeeds(op, t) <=> IsFile(t, p))
    BY DEF Succeeds
  <2>3. QED
    BY <2>1, <2>2
<1>4. op.name \in {"write", "append"} \/ (op.name = "open" /\ op.flags # {"r"}) =>
        (Succeeds(op, t) <=> CanHold(t, p, Written(op, t)))
  BY DEF Succeeds
<1>5. op.name = "iterdir" => (Succeeds(op, t) <=> IsDir(t, p))
  BY DEF Succeeds
<1>6. op.name = "mkdir" =>
        (Succeeds(op, t) <=>
           IF Exists(t, p) THEN "exist_ok" \in op.flags /\ IsDir(t, p)
           ELSE /\ \A r \in Upwards(p) : ~IsFile(t, r)
                /\ "parents" \in op.flags \/ IsDir(t, Parent(p)))
  BY DEF Succeeds
<1>7. op.name = "unlink" => (Succeeds(op, t) <=> IsFile(t, p))
  BY DEF Succeeds
<1>8. op.name = "rmdir" => (Succeeds(op, t) <=> p \in t.dirs /\ Listed(t, p) = {})
  BY DEF Succeeds
<1>9. op.name = "rename" => (Succeeds(op, t) <=> Allowed(t, Move(p, q)))
  BY DEF Succeeds, Allowed, Move, Ask
<1>10. QED
  BY <1>1, <1>2, <1>3, <1>4, <1>5, <1>6, <1>7, <1>8, <1>9

\* A call that is as allowed as its operation succeeds, and does what it means.
LEMMA ConcludesWhen ==
  ASSUME NEW op, NEW t, NEW c, NEW n, NEW a, Turns(t, c, n, a), Succeeds(op, t) <=> Allowed(t, c),
         a.kind \notin Errno /\ Sound(n) /\ Shown(t, c, n, a) => n = Effect(op, t)
  PROVE  Concludes(op, t, n, a)
  BY DEF Turns, Concludes

LEMMA ReadConcludes ==
  ASSUME NEW op, IsOp(op), op.name = "read", NEW t, NEW n, NEW a, Turns(t, Ask("read", op.path), n, a)
  PROVE  Concludes(op, t, n, a)
<1> DEFINE c == Ask("read", op.path)
<1>1. c.tool = "read" /\ c.path = op.path
  BY DEF Ask
<1> HIDE DEF c
<1>2. Succeeds(op, t) <=> Allowed(t, c)
  BY <1>1, SucceedsIs DEF Allowed
<1>3. Shown(t, c, n, a) => n = Effect(op, t)
  BY <1>1, EffectIs DEF Shown
<1>4. Turns(t, c, n, a)
  BY DEF c
<1>5. QED
  BY <1>2, <1>3, <1>4, ConcludesWhen

LEMMA ListConcludes ==
  ASSUME NEW op, IsOp(op), op.name = "iterdir", NEW t, NEW n, NEW a,
         Turns(t, Ask("list", op.path), n, a)
  PROVE  Concludes(op, t, n, a)
<1> DEFINE c == Ask("list", op.path)
<1>1. c.tool = "list" /\ c.path = op.path
  BY DEF Ask
<1> HIDE DEF c
<1>2. Succeeds(op, t) <=> Allowed(t, c)
  BY <1>1, SucceedsIs DEF Allowed
<1>3. Shown(t, c, n, a) => n = Effect(op, t)
  BY <1>1, EffectIs DEF Shown
<1>4. Turns(t, c, n, a)
  BY DEF c
<1>5. QED
  BY <1>2, <1>3, <1>4, ConcludesWhen

LEMMA UnlinkConcludes ==
  ASSUME NEW op, IsOp(op), op.name = "unlink", NEW t, Sound(t), ~IsDir(t, op.path), NEW n, NEW a,
         Turns(t, Ask("delete", op.path), n, a)
  PROVE  Concludes(op, t, n, a)
<1> DEFINE p == op.path
           c == Ask("delete", p)
           m == [t EXCEPT !.files = Restrict(@, DOMAIN @ \ {p})]
<1>1. c.tool = "delete" /\ c.path = p
  BY DEF Ask
<1>2. Succeeds(op, t) <=> Allowed(t, c)
  BY <1>1, SucceedsIs DEF Allowed, IsDir
<1>3. IsTree(t) /\ p \notin t.dirs
  BY DEF Sound, Whole, IsDir
<1>4. /\ IsTree(m) /\ m.dirs = t.dirs /\ DOMAIN m.files = DOMAIN t.files \ {p}
      /\ SameFiles(t, m, DOMAIN t.files \ {p})
  BY <1>3, WithoutFile
<1>5. m = Effect(op, t)
  BY EffectIs
<1> HIDE DEF c, m
<1>6. ASSUME Sound(n), Shown(t, c, n, a)
      PROVE  n = m
  <2>1. Drops(t, n, p) /\ IsTree(n)
    BY <1>1, <1>6 DEF Shown, Sound, Whole
  <2>2. m.dirs = n.dirs /\ DOMAIN m.files = DOMAIN n.files /\ SameFiles(n, m, DOMAIN n.files)
    BY <1>3, <1>4, <2>1 DEF Drops, SameFiles
  <2>3. QED
    BY <1>4, <2>1, <2>2, SameTree
<1>7. Turns(t, c, n, a)
  BY DEF c
<1>8. QED
  BY <1>2, <1>5, <1>6, <1>7, ConcludesWhen

LEMMA RmdirConcludes ==
  ASSUME NEW op, IsOp(op), op.name = "rmdir", NEW t, Sound(t), op.path \in t.dirs, NEW n, NEW a,
         Turns(t, Ask("delete", op.path), n, a)
  PROVE  Concludes(op, t, n, a)
<1> DEFINE p == op.path
           c == Ask("delete", p)
           m == [t EXCEPT !.dirs = t.dirs \ {p}]
<1>1. c.tool = "delete" /\ c.path = p
  BY DEF Ask
<1>2. IsTree(t) /\ p \notin DOMAIN t.files /\ t.dirs \subseteq Paths \ {Root}
  BY DEF Sound, Whole, IsTree, Paths
<1>3. Succeeds(op, t) <=> Allowed(t, c)
  BY <1>1, <1>2, SucceedsIs DEF Allowed, IsFile
<1>4. IsTree(m) /\ m.dirs = t.dirs \ {p} /\ m.files = t.files
  <2>1. t.dirs \ {p} \subseteq Paths \ {Root}
    BY <1>2
  <2>2. QED
    BY <1>2, <2>1, WithDirs
<1>5. m = Effect(op, t)
  BY EffectIs
<1> HIDE DEF c, m
<1>6. ASSUME Sound(n), Shown(t, c, n, a)
      PROVE  n = m
  <2>1. Drops(t, n, p) /\ IsTree(n)
    BY <1>1, <1>6 DEF Shown, Sound, Whole
  <2>2. m.dirs = n.dirs /\ DOMAIN m.files = DOMAIN n.files /\ SameFiles(n, m, DOMAIN n.files)
    BY <1>2, <1>4, <2>1 DEF Drops, SameFiles
  <2>3. QED
    BY <1>4, <2>1, <2>2, SameTree
<1>7. Turns(t, c, n, a)
  BY DEF c
<1>8. QED
  BY <1>3, <1>5, <1>6, <1>7, ConcludesWhen

LEMMA RenameConcludes ==
  ASSUME NEW op, IsOp(op), op.name = "rename", NEW t, Sound(t), NEW n, NEW a,
         Turns(t, Move(op.path, op.target), n, a)
  PROVE  Concludes(op, t, n, a)
<1> DEFINE p == op.path
           q == op.target
           c == Move(p, q)
<1>1. c.tool = "rename" /\ c.path = p /\ c.target = q
  BY DEF Move, Ask
<1>2. Succeeds(op, t) <=> Allowed(t, c)
  BY SucceedsIs
<1>3. Effect(op, t) = Renamed(t, p, q)
  BY EffectOfRename
<1> HIDE DEF c
<1>4. ASSUME Sound(n), Shown(t, c, n, a), Allowed(t, c)
      PROVE  n = Renamed(t, p, q)
  <2>1. Moves(t, n, p, q) /\ CanMove(t, p, q) /\ IsTree(n) /\ Whole(t)
    BY <1>1, <1>4 DEF Shown, Sound, Whole
  <2>2. IsFile(t, p) => ~IsDir(t, q)
    BY <1>1, <1>4 DEF Allowed
  <2>3. p \in Paths /\ q \in Paths
    BY DEF IsOp
  <2>4. QED
    BY <2>1, <2>2, <2>3, MovesIsRenamed
<1>5. Turns(t, c, n, a)
  BY DEF c
<1>6. a.kind \notin Errno => Allowed(t, c)
  BY <1>5 DEF Turns
<1>7. QED
  BY <1>2, <1>3, <1>4, <1>5, <1>6, ConcludesWhen

Writes(op) == op.name \in {"write", "append"} \/ (op.name = "open" /\ op.flags # {"r"})

LEMMA PutConcludes ==
  ASSUME NEW op, IsOp(op), Writes(op), NEW t, Sound(t), NEW size \in Nat, size = Written(op, t),
         NEW n, NEW a, Turns(t, Put(op.path, size), n, a)
  PROVE  Concludes(op, t, n, a)
<1> DEFINE p == op.path
           c == Put(p, size)
<1>1. c.tool = "write" /\ c.path = p /\ c.size = size
  BY DEF Put, Ask
<1> HIDE DEF c
<1>2. Succeeds(op, t) <=> CanHold(t, p, size)
  BY SucceedsIs DEF Writes
<1>3. Effect(op, t) = With(t, p, size)
  BY EffectIs DEF Writes
<1>4. Allowed(t, c) <=> CanHold(t, p, size)
  BY <1>1 DEF Allowed
<1>5. ASSUME Sound(n), Shown(t, c, n, a)
      PROVE  n = With(t, p, size)
  <2>1. Puts(t, n, p, size) /\ IsTree(n) /\ IsTree(t) /\ p # Root
    BY <1>1, <1>5 DEF Shown, Sound, Whole, IsDir
  <2>2. p \in Paths
    BY DEF IsOp
  <2>3. QED
    BY <2>1, <2>2, PutsIsWith
<1>6. Turns(t, c, n, a)
  BY DEF c
<1>7. QED
  BY <1>2, <1>3, <1>4, <1>5, <1>6, ConcludesWhen
----------------------------------------------------------------------------
(* How an operation goes on from what its calls have answered *)

LEMMA SeenNow ==
  ASSUME NEW seen \in Seq(Answers), NEW a \in Answers
  PROVE  LET s == Append(seen, a) IN
         /\ s \in Seq(Answers) /\ s # <<>> /\ Len(seen) \in Nat /\ Len(s) = Len(seen) + 1
         /\ seen = <<>> => s[1] = a /\ Len(s) = 1
         /\ seen # <<>> => s[1] = seen[1] /\ Len(s) # 1
         /\ Len(seen) = 1 => seen # <<>> /\ s[2] = a /\ Len(s) = 2
         /\ Len(seen) = 2 => seen # <<>> /\ s[2] = seen[2] /\ Len(s) = 3
         /\ \A i \in 1 .. Len(seen) : s[i] = seen[i]
         /\ s[Len(seen) + 1] = a
<1> DEFINE s == Append(seen, a)
<1>1. /\ Len(seen) \in Nat /\ (seen = <<>> <=> Len(seen) = 0)
  BY EmptySeq, LenProperties
<1>2. /\ s \in Seq(Answers) /\ s # <<>> /\ Len(s) = Len(seen) + 1
      /\ \A i \in 1 .. Len(seen) : s[i] = seen[i]
      /\ s[Len(seen) + 1] = a
  BY AppendProperties
<1> HIDE DEF s
<1>3. seen # <<>> => 1 \in 1 .. Len(seen) /\ Len(seen) + 1 # 1
  BY <1>1
<1>4. /\ Len(seen) = 1 => Len(seen) + 1 = 2 /\ Len(seen) # 0
      /\ Len(seen) = 2 => Len(seen) + 1 = 3 /\ Len(seen) # 0 /\ 2 \in 1 .. Len(seen)
      /\ Len(seen) = 0 => Len(seen) + 1 = 1
  <2>1. \A k \in Nat : /\ k = 1 => k + 1 = 2 /\ k # 0
                       /\ k = 2 => k + 1 = 3 /\ k # 0 /\ 2 \in 1 .. k
                       /\ k = 0 => k + 1 = 1
    OBVIOUS
  <2>2. QED
    BY <1>1, <2>1
<1>5. seen = <<>> => s[1] = a /\ Len(s) = 1
  BY <1>1, <1>2, <1>4
<1>6. seen # <<>> => s[1] = seen[1] /\ Len(s) # 1
  BY <1>2, <1>3
<1>7. Len(seen) = 1 => seen # <<>> /\ s[2] = a /\ Len(s) = 2
  BY <1>1, <1>2, <1>4
<1>8. Len(seen) = 2 => seen # <<>> /\ s[2] = seen[2] /\ Len(s) = 3
  BY <1>1, <1>2, <1>4
<1>9. QED
  BY <1>1, <1>2, <1>5, <1>6, <1>7, <1>8 DEF s

LEMMA EndIs ==
  ASSUME NEW e
  PROVE  End(e).tool = "none" /\ End(e).out = e /\ Return.tool = "none" /\ Return.out = "ok"
  BY DEF End, Ask, Return

LEMMA ExistingIs ==
  ASSUME NEW op, NEW seen, NEW wrong, NEW errno, NEW next
  PROVE  LET call == Existing(op, seen, wrong, errno, next) IN
         /\ seen = <<>> => call = Ask("stat", op.path)
         /\ seen # <<>> /\ seen[1].kind = "none" => call = End("ENOENT")
         /\ seen # <<>> /\ seen[1].kind # "none" /\ seen[1].kind = wrong => call = End(errno)
         /\ seen # <<>> /\ seen[1].kind # "none" /\ seen[1].kind # wrong => call = next
  BY Zenon DEF Existing

\* An operation ends in an error, or at last returns, or goes on with the mount as it was.
LEMMA EndsInError ==
  ASSUME NEW op, NEW seen, NEW t, NEW a, a.kind \notin Errno, NEW e \in Errno,
         Perform(op, Append(seen, a)) = End(e), ~Succeeds(op, t)
  PROVE  Advances(op, seen, t, t, a)
<1>1. End(e).tool = "none" /\ End(e).out = e /\ e # "ok"
  BY EndIs DEF Errno
<1>2. QED
  BY <1>1 DEF Advances, Outcome

LEMMA EndsWell ==
  ASSUME NEW op, NEW seen, NEW t, NEW n, NEW a,
         Concludes(op, t, n, a), a.kind \notin Errno => Perform(op, Append(seen, a)) = Return
  PROVE  Advances(op, seen, t, n, a)
<1>1. Return.tool = "none" /\ Return.out = "ok" /\ "ok" \notin Errno
  BY EndIs DEF Errno
<1>2. QED
  BY <1>1 DEF Advances, Outcome, Concludes

LEMMA WentOn ==
  ASSUME NEW op, op.name # "mkdir", NEW seen, NEW t, NEW a, a.kind \notin Errno,
         Perform(op, Append(seen, a)).tool # "none", Knows(op, Append(seen, a), t)
  PROVE  Advances(op, seen, t, t, a)
  BY DEF Advances, TreeAt

LEMMA KnowsFirst ==
  ASSUME NEW op, op.name # "mkdir", NEW s, Len(s) = 1, NEW t, StatOf(t, op.path, s[1])
  PROVE  Knows(op, s, t)
<1>1. ~(Len(s) >= 2)
  OBVIOUS
<1>2. QED
  BY <1>1 DEF Knows

\* An operation that looks its path up first, and then makes one call.
LEMMA OnceAdvances ==
  ASSUME NEW op, IsOp(op), op.name \in {"read", "iterdir", "unlink", "rename"},
         NEW wrong \in {"dir", "file", "nothing"}, NEW errno, wrong # "nothing" => errno \in Errno,
         NEW call, call.tool # "none",
         \A x : Perform(op, x) = Existing(op, x, wrong, errno, IF Len(x) = 1 THEN call ELSE Return),
         NEW t, Sound(t), Kind(t, op.path) \in {"none", wrong} => ~Succeeds(op, t),
         NEW seen \in Seq(Answers), Knows(op, seen, t), Perform(op, seen).tool # "none",
         NEW n, NEW a, Turns(t, Perform(op, seen), n, a),
         Kind(t, op.path) \notin {"none", wrong} /\ Turns(t, call, n, a) => Concludes(op, t, n, a)
  PROVE  Advances(op, seen, t, n, a)
<1> DEFINE s == Append(seen, a)
           next(x) == IF Len(x) = 1 THEN call ELSE Return
<1>1. a \in Answers /\ op.path \in Paths
  BY DEF Turns, IsOp
<1>2. /\ s # <<>> /\ Len(seen) \in Nat
      /\ seen = <<>> => s[1] = a /\ Len(s) = 1
      /\ seen # <<>> => s[1] = seen[1] /\ Len(s) # 1
  BY <1>1, SeenNow
<1>3. \A x : Perform(op, x) = Existing(op, x, wrong, errno, next(x))
  OBVIOUS
<1>4. Kind(t, op.path) \in {"dir", "file", "none"}
  BY <1>1, KindFacts
<1> HIDE DEF s
<1>5. CASE seen = <<>>
  <2>1. Perform(op, seen) = Ask("stat", op.path)
    BY <1>3, <1>5, ExistingIs
  <2>2. n = t /\ a.kind = Kind(t, op.path) /\ a.kind \notin Errno /\ StatOf(t, op.path, a)
    BY <2>1, StatTurns
  <2>3. CASE a.kind = "none"
    <3>1. Perform(op, s) = End("ENOENT")
      BY <1>2, <1>3, <1>5, <2>3, ExistingIs
    <3>2. "ENOENT" \in Errno
      BY DEF Errno
    <3>3. QED
      BY <2>2, <2>3, <3>1, <3>2, EndsInError DEF s
  <2>4. CASE a.kind # "none" /\ a.kind = wrong
    <3>1. Perform(op, s) = End(errno)
      BY <1>2, <1>3, <1>5, <2>4, ExistingIs
    <3>2. errno \in Errno
      BY <1>4, <2>2, <2>4
    <3>3. QED
      BY <2>2, <2>4, <3>1, <3>2, EndsInError DEF s
  <2>5. CASE a.kind # "none" /\ a.kind # wrong
    <3>1. Perform(op, s) = next(s)
      BY <1>2, <1>3, <1>5, <2>5, ExistingIs
    <3>2. next(s) = call
      BY <1>2, <1>5
    <3>3. Knows(op, s, t)
      BY <1>2, <1>5, <2>2, KnowsFirst
    <3>4. QED
      BY <2>2, <3>1, <3>2, <3>3, WentOn DEF s
  <2>6. QED
    BY <2>3, <2>4, <2>5
<1>6. CASE seen # <<>>
  <2>1. seen[1].kind = Kind(t, op.path)
    BY <1>6, StatOfKind DEF Knows
  <2>2. seen[1].kind # "none" /\ seen[1].kind # wrong
    BY <1>3, <1>6, ExistingIs, EndIs
  <2>3. Perform(op, seen) = next(seen)
    BY <1>3, <1>6, <2>2, ExistingIs
  <2>4. Perform(op, seen) = call
    BY <2>3, EndIs
  <2>5. Concludes(op, t, n, a)
    BY <2>1, <2>2, <2>4
  <2>6. Perform(op, s) = next(s) /\ next(s) = Return
    BY <1>2, <1>3, <1>6, <2>2, ExistingIs
  <2>7. QED
    BY <2>5, <2>6, EndsWell DEF s
<1>7. QED
  BY <1>5, <1>6

LEMMA ReadAdvances ==
  ASSUME NEW op, IsOp(op), op.name = "read", NEW t, Sound(t),
         NEW seen \in Seq(Answers), Knows(op, seen, t), Perform(op, seen).tool # "none",
         NEW n, NEW a, Turns(t, Perform(op, seen), n, a)
  PROVE  Advances(op, seen, t, n, a)
<1> DEFINE call == Ask("read", op.path)
<1>1. \A x : Perform(op, x) = Existing(op, x, "dir", "EISDIR", IF Len(x) = 1 THEN call ELSE Return)
  BY DEF Perform
<1>2. op.path \in Paths
  BY DEF IsOp
<1>3. Kind(t, op.path) \in {"none", "dir"} => ~Succeeds(op, t)
  BY <1>2, KindFacts, SucceedsIs
<1>4. Turns(t, call, n, a) => Concludes(op, t, n, a)
  BY ReadConcludes
<1>5. call.tool # "none" /\ "EISDIR" \in Errno
  BY DEF Ask, Errno
<1> HIDE DEF call
<1>6. QED
  BY <1>1, <1>3, <1>4, <1>5, OnceAdvances

LEMMA IterdirAdvances ==
  ASSUME NEW op, IsOp(op), op.name = "iterdir", NEW t, Sound(t),
         NEW seen \in Seq(Answers), Knows(op, seen, t), Perform(op, seen).tool # "none",
         NEW n, NEW a, Turns(t, Perform(op, seen), n, a)
  PROVE  Advances(op, seen, t, n, a)
<1> DEFINE call == Ask("list", op.path)
<1>1. \A x : Perform(op, x) = Existing(op, x, "file", "ENOTDIR", IF Len(x) = 1 THEN call ELSE Return)
  BY DEF Perform
<1>2. op.path \in Paths
  BY DEF IsOp
<1>3. Kind(t, op.path) \in {"none", "file"} => ~Succeeds(op, t)
  <2>1. Kind(t, op.path) = "dir" <=> IsDir(t, op.path)
    BY <1>2, KindFacts
  <2>2. QED
    BY <2>1, SucceedsIs
<1>4. Turns(t, call, n, a) => Concludes(op, t, n, a)
  BY ListConcludes
<1>5. call.tool # "none" /\ "ENOTDIR" \in Errno
  BY DEF Ask, Errno
<1> HIDE DEF call
<1>6. QED
  BY <1>1, <1>3, <1>4, <1>5, OnceAdvances

LEMMA UnlinkAdvances ==
  ASSUME NEW op, IsOp(op), op.name = "unlink", NEW t, Sound(t),
         NEW seen \in Seq(Answers), Knows(op, seen, t), Perform(op, seen).tool # "none",
         NEW n, NEW a, Turns(t, Perform(op, seen), n, a)
  PROVE  Advances(op, seen, t, n, a)
<1> DEFINE call == Ask("delete", op.path)
<1>1. \A x : Perform(op, x) = Existing(op, x, "dir", "EISDIR", IF Len(x) = 1 THEN call ELSE Return)
  BY DEF Perform
<1>2. op.path \in Paths
  BY DEF IsOp
<1>3. Kind(t, op.path) \in {"none", "dir"} => ~Succeeds(op, t)
  BY <1>2, KindFacts, SucceedsIs
<1>4. Kind(t, op.path) \notin {"none", "dir"} /\ Turns(t, call, n, a) => Concludes(op, t, n, a)
  <2>1. Kind(t, op.path) = "dir" <=> IsDir(t, op.path)
    BY <1>2, KindFacts
  <2>2. QED
    BY <2>1, UnlinkConcludes
<1>5. call.tool # "none" /\ "EISDIR" \in Errno
  BY DEF Ask, Errno
<1> HIDE DEF call
<1>6. QED
  BY <1>1, <1>3, <1>4, <1>5, OnceAdvances

LEMMA RenameAdvances ==
  ASSUME NEW op, IsOp(op), op.name = "rename", NEW t, Sound(t),
         NEW seen \in Seq(Answers), Knows(op, seen, t), Perform(op, seen).tool # "none",
         NEW n, NEW a, Turns(t, Perform(op, seen), n, a)
  PROVE  Advances(op, seen, t, n, a)
<1> DEFINE call == Move(op.path, op.target)
<1>1. \A x : Perform(op, x) = Existing(op, x, "nothing", "", IF Len(x) = 1 THEN call ELSE Return)
  BY DEF Perform
<1>2. op.path \in Paths
  BY DEF IsOp
<1>3. Kind(t, op.path) \in {"none", "nothing"} => ~Succeeds(op, t)
  <2>1. Kind(t, op.path) \in {"none", "nothing"} => ~Exists(t, op.path)
    BY <1>2, KindFacts
  <2>2. Succeeds(op, t) => Exists(t, op.path)
    BY SucceedsIs DEF Allowed, Move, Ask
  <2>3. QED
    BY <2>1, <2>2
<1>4. Turns(t, call, n, a) => Concludes(op, t, n, a)
  BY RenameConcludes
<1>5. call.tool # "none"
  BY DEF Move, Ask
<1> HIDE DEF call
<1>6. QED
  BY <1>1, <1>3, <1>4, <1>5, OnceAdvances

LEMMA LookAdvances ==
  ASSUME NEW op, IsOp(op), op.name \in {"exists", "stat"}, NEW t, Sound(t),
         NEW seen \in Seq(Answers), Knows(op, seen, t), Perform(op, seen).tool # "none",
         NEW n, NEW a, Turns(t, Perform(op, seen), n, a)
  PROVE  Advances(op, seen, t, n, a)
<1> DEFINE s == Append(seen, a)
<1>1. a \in Answers /\ op.path \in Paths
  BY DEF Turns, IsOp
<1>2. /\ op.name = "exists" =>
           \A x : Perform(op, x) = IF x = <<>> THEN Ask("stat", op.path) ELSE Return
      /\ op.name = "stat" => \A x : Perform(op, x) = Existing(op, x, "nothing", "", Return)
  BY DEF Perform
<1>3. seen = <<>> /\ Perform(op, seen) = Ask("stat", op.path)
  <2>1. CASE op.name = "exists"
    BY <1>2, <2>1, EndIs
  <2>2. CASE op.name = "stat"
    <3>1. Perform(op, seen) = Existing(op, seen, "nothing", "", Return)
      BY <1>2, <2>2
    <3>2. /\ seen = <<>> => Perform(op, seen) = Ask("stat", op.path)
          /\ seen # <<>> => Perform(op, seen) \in {End("ENOENT"), End(""), Return}
      BY <3>1, Zenon DEF Existing
    <3>3. QED
      BY <3>2, EndIs
  <2>3. QED
    BY <2>1, <2>2
<1>4. n = t /\ a.kind = Kind(t, op.path) /\ a.kind \notin Errno
  BY <1>3, StatTurns
<1>5. /\ Kind(t, op.path) \in {"dir", "file", "none"}
      /\ Kind(t, op.path) = "none" <=> ~Exists(t, op.path)
  BY <1>1, KindFacts
<1>6. s # <<>> /\ s[1] = a
  BY <1>1, <1>3, SeenNow
<1>7. Effect(op, t) = t
  BY EffectIs
<1> HIDE DEF s
<1>8. CASE op.name = "stat" /\ a.kind = "none"
  <2>1. Perform(op, s) = End("ENOENT")
    <3>1. Perform(op, s) = Existing(op, s, "nothing", "", Return)
      BY <1>2, <1>8
    <3>2. s[1].kind = "none"
      BY <1>6, <1>8
    <3>3. QED
      BY <1>6, <3>1, <3>2, Zenon DEF Existing
  <2>2. ~Succeeds(op, t)
    BY <1>4, <1>5, <1>8 DEF Succeeds
  <2>3. "ENOENT" \in Errno
    BY DEF Errno
  <2>4. QED
    BY <1>4, <2>1, <2>2, <2>3, EndsInError DEF s
<1>9. CASE op.name = "exists" \/ a.kind # "none"
  <2>1. Perform(op, s) = Return
    <3>1. op.name = "exists" => Perform(op, s) = Return
      BY <1>2, <1>6
    <3>2. CASE op.name = "stat"
      <4>1. Perform(op, s) = Existing(op, s, "nothing", "", Return)
        BY <1>2, <3>2
      <4>2. s[1].kind # "none" /\ s[1].kind # "nothing"
        BY <1>4, <1>5, <1>6, <1>9, <3>2
      <4>3. QED
        BY <1>6, <4>1, <4>2, Zenon DEF Existing
    <3>3. QED
      BY <3>1, <3>2
  <2>2. Succeeds(op, t)
    <3>1. op.name = "exists" => Succeeds(op, t)
      BY DEF Succeeds
    <3>2. op.name = "stat" => (Succeeds(op, t) <=> Exists(t, op.path))
      BY DEF Succeeds
    <3>3. QED
      BY <1>4, <1>5, <1>9, <3>1, <3>2
  <2>3. Concludes(op, t, n, a)
    BY <1>4, <1>7, <2>2 DEF Concludes
  <2>4. QED
    BY <2>1, <2>3, EndsWell DEF s
<1>10. QED
  BY <1>8, <1>9

LEMMA WriteAdvances ==
  ASSUME NEW op, IsOp(op), op.name = "write", NEW t, Sound(t),
         NEW seen \in Seq(Answers), Knows(op, seen, t), Perform(op, seen).tool # "none",
         NEW n, NEW a, Turns(t, Perform(op, seen), n, a)
  PROVE  Advances(op, seen, t, n, a)
<1> DEFINE s == Append(seen, a)
<1>1. a \in Answers /\ op.path \in Paths /\ op.data \in Nat
  BY DEF Turns, IsOp
<1>2. \A x : Perform(op, x) = IF x = <<>> THEN Put(op.path, op.data) ELSE Return
  BY DEF Perform
<1>3. Perform(op, seen) = Put(op.path, op.data) /\ s # <<>>
  BY <1>1, <1>2, SeenNow, EndIs
<1>4. Written(op, t) = op.data /\ Writes(op)
  BY DEF Written, Writes
<1>5. Concludes(op, t, n, a)
  BY <1>1, <1>3, <1>4, PutConcludes
<1>6. Perform(op, s) = Return
  BY <1>2, <1>3
<1>7. QED
  BY <1>5, <1>6, EndsWell

LEMMA RemoveIs ==
  ASSUME NEW op, NEW seen, op.path # Root
  PROVE  /\ seen = <<>> => RemoveDir(op, seen) = Ask("stat", op.path)
         /\ seen # <<>> /\ seen[1].kind = "none" => RemoveDir(op, seen) = End("ENOENT")
         /\ seen # <<>> /\ seen[1].kind = "file" => RemoveDir(op, seen) = End("ENOTDIR")
         /\ seen # <<>> /\ seen[1].kind = "dir" =>
              /\ Len(seen) = 1 => RemoveDir(op, seen) = Ask("list", op.path)
              /\ Len(seen) # 1 /\ seen[2].names # {} => RemoveDir(op, seen) = End("ENOTEMPTY")
              /\ Len(seen) # 1 /\ seen[2].names = {} =>
                   IF Len(seen) = 2 THEN RemoveDir(op, seen) = Ask("delete", op.path)
                   ELSE RemoveDir(op, seen) = Return
<1> DEFINE next == IF Len(seen) = 1 THEN Ask("list", op.path)
                   ELSE IF seen[2].names # {} THEN End("ENOTEMPTY")
                   ELSE IF Len(seen) = 2 THEN Ask("delete", op.path)
                   ELSE Return
           call == Existing(op, seen, "file", "ENOTDIR", next)
<1>1. RemoveDir(op, seen) = call
  BY Zenon DEF RemoveDir
<1>2. /\ seen = <<>> => call = Ask("stat", op.path)
      /\ seen # <<>> /\ seen[1].kind = "none" => call = End("ENOENT")
      /\ seen # <<>> /\ seen[1].kind # "none" /\ seen[1].kind = "file" => call = End("ENOTDIR")
      /\ seen # <<>> /\ seen[1].kind # "none" /\ seen[1].kind # "file" => call = next
  BY ExistingIs
<1>3. /\ Len(seen) = 1 => next = Ask("list", op.path)
      /\ Len(seen) # 1 /\ seen[2].names # {} => next = End("ENOTEMPTY")
      /\ Len(seen) # 1 /\ seen[2].names = {} =>
           IF Len(seen) = 2 THEN next = Ask("delete", op.path) ELSE next = Return
  BY Zenon
<1> HIDE DEF next, call
<1>4. QED
  BY <1>1, <1>2, <1>3

LEMMA RmdirAdvances ==
  ASSUME NEW op, IsOp(op), op.name = "rmdir", NEW t, Sound(t),
         NEW seen \in Seq(Answers), Knows(op, seen, t), Perform(op, seen).tool # "none",
         NEW n, NEW a, Turns(t, Perform(op, seen), n, a)
  PROVE  Advances(op, seen, t, n, a)
<1> DEFINE s == Append(seen, a)
           p == op.path
<1>1. a \in Answers /\ p \in Paths
  BY DEF Turns, IsOp
<1>2. \A x : Perform(op, x) = RemoveDir(op, x)
  BY DEF Perform
<1>3. p # Root
  <2>1. p = Root => Perform(op, seen) = End("EACCES")
    BY <1>2, Zenon DEF RemoveDir
  <2>2. QED
    BY <2>1, EndIs
<1>4. /\ s # <<>> /\ Len(seen) \in Nat
      /\ seen = <<>> => s[1] = a /\ Len(s) = 1
      /\ seen # <<>> => s[1] = seen[1] /\ Len(s) # 1
      /\ Len(seen) = 1 => seen # <<>> /\ s[2] = a /\ Len(s) = 2
      /\ Len(seen) = 2 => seen # <<>> /\ s[2] = seen[2] /\ Len(s) = 3
  BY <1>1, SeenNow
<1>5. /\ Kind(t, p) \in {"dir", "file", "none"}
      /\ Kind(t, p) = "dir" <=> p \in t.dirs
  BY <1>1, <1>3, KindFacts DEF IsDir
<1>6. Succeeds(op, t) <=> p \in t.dirs /\ Listed(t, p) = {}
  BY SucceedsIs
<1>7. {"ENOENT", "ENOTDIR", "ENOTEMPTY"} \subseteq Errno
  BY DEF Errno
<1> HIDE DEF s, p
<1>8. CASE seen = <<>>
  <2>1. Perform(op, seen) = Ask("stat", p)
    BY <1>2, <1>3, <1>8, RemoveIs DEF p
  <2>2. n = t /\ a.kind = Kind(t, p) /\ a.kind \notin Errno /\ StatOf(t, p, a)
    BY <2>1, StatTurns
  <2>3. CASE a.kind \in {"none", "file"}
    <3>1. Perform(op, s) = End("ENOENT") \/ Perform(op, s) = End("ENOTDIR")
      BY <1>2, <1>3, <1>4, <1>8, <2>3, RemoveIs DEF p
    <3>2. ~Succeeds(op, t)
      BY <1>5, <1>6, <2>2, <2>3
    <3>3. QED
      BY <1>7, <2>2, <3>1, <3>2, EndsInError DEF s
  <2>4. CASE a.kind = "dir"
    <3>1. Perform(op, s) = Ask("list", p)
      BY <1>2, <1>3, <1>4, <1>8, <2>4, RemoveIs DEF p
    <3>2. Perform(op, s).tool # "none"
      BY <3>1 DEF Ask
    <3>3. Knows(op, s, t)
      BY <1>4, <1>8, <2>2, KnowsFirst DEF p
    <3>4. QED
      BY <2>2, <3>2, <3>3, WentOn DEF s
  <2>5. QED
    BY <1>5, <2>2, <2>3, <2>4
<1>9. CASE seen # <<>>
  <2>1. seen[1].kind = Kind(t, p) /\ StatOf(t, p, seen[1])
    BY <1>9, StatOfKind DEF Knows, p
  <2>2. seen[1].kind = "dir"
    BY <1>2, <1>3, <1>5, <1>9, <2>1, RemoveIs, EndIs DEF p
  <2>3. p \in t.dirs /\ IsDir(t, p)
    BY <1>5, <2>1, <2>2 DEF IsDir
  <2>4. CASE Len(seen) = 1
    <3>1. Perform(op, seen) = Ask("list", p)
      BY <1>2, <1>3, <1>9, <2>2, <2>4, RemoveIs DEF p
    <3>2. Allowed(t, Ask("list", p))
      BY <2>3 DEF Allowed, Ask
    <3>3. a.kind \notin Errno /\ Shown(t, Ask("list", p), n, a)
      BY <3>1, <3>2 DEF Turns
    <3>4. n = t /\ a.names = Listed(t, p)
      BY <3>3 DEF Shown, Ask
    <3>5. CASE a.names # {}
      <4>1. Perform(op, s) = End("ENOTEMPTY")
        BY <1>2, <1>3, <1>4, <2>2, <2>4, <3>5, RemoveIs DEF p
      <4>2. ~Succeeds(op, t)
        BY <1>6, <3>4, <3>5
      <4>3. QED
        BY <1>7, <3>3, <3>4, <4>1, <4>2, EndsInError DEF s
    <3>6. CASE a.names = {}
      <4>1. Perform(op, s) = Ask("delete", p)
        BY <1>2, <1>3, <1>4, <2>2, <2>4, <3>6, RemoveIs DEF p
      <4>2. Perform(op, s).tool # "none"
        BY <4>1 DEF Ask
      <4>3. Knows(op, s, t)
        BY <1>4, <2>1, <2>4, <3>3, <3>4 DEF Knows, p
      <4>4. QED
        BY <3>3, <3>4, <4>2, <4>3, WentOn DEF s
    <3>7. QED
      BY <3>5, <3>6
  <2>5. CASE Len(seen) # 1
    <3>1. seen[2].names = {} /\ Len(seen) = 2 /\ Perform(op, seen) = Ask("delete", p)
      BY <1>2, <1>3, <1>9, <2>2, <2>5, RemoveIs, EndIs DEF p
    <3>2. Concludes(op, t, n, a)
      BY <2>3, <3>1, RmdirConcludes DEF p
    <3>3. Perform(op, s) = Return
      <4>1. Len(s) # 1 /\ Len(s) # 2 /\ s[2].names = {} /\ s[1].kind = "dir"
        BY <1>4, <2>2, <3>1
      <4>2. QED
        BY <1>2, <1>3, <1>4, <4>1, RemoveIs DEF p
    <3>4. QED
      BY <3>2, <3>3, EndsWell DEF s
  <2>6. QED
    BY <2>4, <2>5
<1>10. QED
  BY <1>8, <1>9

LEMMA OpenIs ==
  ASSUME NEW op, NEW seen
  PROVE  LET once == Len(seen) = 1 IN
         /\ seen = <<>> => Open(op, seen) = Ask("stat", op.path)
         /\ seen # <<>> /\ seen[1].kind = "dir" => Open(op, seen) = End("EISDIR")
         /\ seen # <<>> /\ seen[1].kind # "dir" /\ op.flags = {"r"} /\ seen[1].kind = "none" =>
              Open(op, seen) = End("ENOENT")
         /\ seen # <<>> /\ seen[1].kind # "dir" /\ ~(op.flags = {"r"} /\ seen[1].kind = "none") =>
              IF once /\ (op.flags = {"w"} \/ (op.flags = {"a"} /\ seen[1].kind = "none"))
              THEN Open(op, seen) = Put(op.path, 0) ELSE Open(op, seen) = Return
  BY Zenon DEF Open

\* A file that is there can always be opened to be added to.
LEMMA HeldAlready ==
  ASSUME NEW t, Sound(t), NEW p \in Paths, IsFile(t, p)
  PROVE  CanHold(t, p, t.files[p]) /\ With(t, p, t.files[p]) = t
<1>1. Whole(t) /\ IsTree(t) /\ InBudget(t)
  BY DEF Sound, Whole
<1>2. p # Root /\ t.files[p] \in Nat /\ ~IsDir(t, p)
  BY <1>1, SizeFacts DEF IsFile
<1>3. IsDir(t, Parent(p))
  BY <1>1 DEF Whole, Nodes, IsFile
<1>4. Puts(t, t, p, t.files[p])
  BY DEF Puts, SameFiles, IsFile
<1>5. t = With(t, p, t.files[p])
  BY <1>1, <1>2, <1>4, PutsIsWith
<1>6. InMemory => SumFunction(With(t, p, t.files[p]).files) <= MaxBytes
  BY <1>1, <1>5 DEF InBudget
<1>7. QED
  BY <1>2, <1>3, <1>5, <1>6 DEF CanHold

LEMMA OpenAdvances ==
  ASSUME NEW op, IsOp(op), op.name = "open", NEW t, Sound(t),
         NEW seen \in Seq(Answers), Knows(op, seen, t), Perform(op, seen).tool # "none",
         NEW n, NEW a, Turns(t, Perform(op, seen), n, a)
  PROVE  Advances(op, seen, t, n, a)
<1> DEFINE s == Append(seen, a)
           p == op.path
           w == Written(op, t)
<1>1. a \in Answers /\ p \in Paths /\ op.flags \in {{"r"}, {"w"}, {"a"}}
  BY DEF Turns, IsOp
<1>2. \A x : Perform(op, x) = Open(op, x)
  BY DEF Perform
<1>3. /\ s # <<>> /\ Len(seen) \in Nat
      /\ seen = <<>> => s[1] = a /\ Len(s) = 1
      /\ seen # <<>> => s[1] = seen[1] /\ Len(s) # 1
  BY <1>1, SeenNow
<1>4. /\ Kind(t, p) \in {"dir", "file", "none"}
      /\ Kind(t, p) = "dir" <=> IsDir(t, p)
      /\ Kind(t, p) = "file" <=> IsFile(t, p)
      /\ Kind(t, p) = "none" <=> ~Exists(t, p)
  BY <1>1, KindFacts
<1>5. /\ op.flags = {"r"} => (Succeeds(op, t) <=> IsFile(t, p)) /\ Effect(op, t) = t
      /\ op.flags # {"r"} => (Succeeds(op, t) <=> CanHold(t, p, w)) /\ Effect(op, t) = With(t, p, w)
  BY SucceedsIs, EffectIs
<1>6. w = IF op.flags = {"w"} THEN 0 ELSE SizeAt(t, p)
  BY DEF Written
<1>7. /\ IsFile(t, p) => SizeAt(t, p) = t.files[p]
      /\ ~IsFile(t, p) => SizeAt(t, p) = 0
  BY DEF SizeAt
<1>8. IsFile(t, p) => CanHold(t, p, t.files[p]) /\ With(t, p, t.files[p]) = t
  BY <1>1, HeldAlready
<1>9. IsDir(t, p) => \A z : ~CanHold(t, p, z)
  BY DEF CanHold
<1>10. {"ENOENT", "EISDIR"} \subseteq Errno
  BY DEF Errno
<1>11. {"r"} # {"w"} /\ {"r"} # {"a"} /\ {"a"} # {"w"}
  <2>1. "r" # "w" /\ "r" # "a" /\ "a" # "w"
    OBVIOUS
  <2>2. QED
    BY <2>1
<1> DEFINE puts(k) == op.flags = {"w"} \/ (op.flags = {"a"} /\ k = "none")
<1>12. \A x : Open(op, x) = Put(p, 0) => Open(op, x).tool # "none"
  BY DEF Put, Ask
<1> HIDE DEF s, p, w
<1>13. CASE seen = <<>>
  <2>1. Perform(op, seen) = Ask("stat", p)
    BY <1>2, <1>13, OpenIs DEF p
  <2>2. n = t /\ a.kind = Kind(t, p) /\ a.kind \notin Errno /\ StatOf(t, p, a)
    BY <2>1, StatTurns
  <2>3. CASE a.kind = "dir"
    <3>1. Perform(op, s) = End("EISDIR")
      BY <1>2, <1>3, <1>13, <2>3, OpenIs
    <3>2. ~Succeeds(op, t)
      BY <1>4, <1>5, <1>9, <2>2, <2>3
    <3>3. QED
      BY <1>10, <2>2, <3>1, <3>2, EndsInError DEF s
  <2>4. CASE a.kind = "none" /\ op.flags = {"r"}
    <3>1. Perform(op, s) = End("ENOENT")
      BY <1>2, <1>3, <1>13, <2>4, OpenIs
    <3>2. ~Succeeds(op, t)
      BY <1>4, <1>5, <2>2, <2>4
    <3>3. QED
      BY <1>10, <2>2, <3>1, <3>2, EndsInError DEF s
  <2>5. CASE a.kind # "dir" /\ ~(op.flags = {"r"} /\ a.kind = "none") /\ puts(a.kind)
    <3>1. Perform(op, s) = Put(p, 0)
      BY <1>2, <1>3, <1>13, <2>5, OpenIs DEF p
    <3>2. Perform(op, s).tool # "none"
      BY <3>1 DEF Put, Ask
    <3>3. Knows(op, s, t)
      BY <1>3, <1>13, <2>2, KnowsFirst DEF p
    <3>4. QED
      BY <2>2, <3>2, <3>3, WentOn DEF s
  <2>6. CASE a.kind # "dir" /\ ~(op.flags = {"r"} /\ a.kind = "none") /\ ~puts(a.kind)
    <3>1. Perform(op, s) = Return
      BY <1>2, <1>3, <1>13, <2>6, OpenIs DEF p
    <3>2. IsFile(t, p)
      BY <1>1, <1>4, <2>2, <2>6
    <3>3. Succeeds(op, t) /\ Effect(op, t) = t
      <4>1. CASE op.flags = {"r"}
        BY <1>5, <3>2, <4>1
      <4>2. CASE op.flags # {"r"}
        <5>1. w = t.files[p]
          BY <1>6, <1>7, <2>6, <3>2
        <5>2. QED
          BY <1>5, <1>8, <3>2, <4>2, <5>1
      <4>3. QED
        BY <4>1, <4>2
    <3>4. Concludes(op, t, n, a)
      BY <2>2, <3>3 DEF Concludes
    <3>5. QED
      BY <3>1, <3>4, EndsWell DEF s
  <2>7. QED
    BY <2>3, <2>4, <2>5, <2>6
<1>14. CASE seen # <<>>
  <2>1. seen[1].kind = Kind(t, p)
    BY <1>14, StatOfKind DEF Knows, p
  <2>2. /\ seen[1].kind # "dir" /\ ~(op.flags = {"r"} /\ seen[1].kind = "none")
        /\ puts(seen[1].kind) /\ Perform(op, seen) = Put(p, 0)
    BY <1>2, <1>14, OpenIs, EndIs DEF p
  <2>3. w = 0 /\ op.flags # {"r"}
    BY <1>4, <1>6, <1>7, <1>11, <2>1, <2>2 DEF Exists
  <2>4. Concludes(op, t, n, a)
    BY <2>2, <2>3, PutConcludes DEF Writes, p, w
  <2>5. Perform(op, s) = Return
    BY <1>2, <1>3, <1>14, <2>2, OpenIs
  <2>6. QED
    BY <2>4, <2>5, EndsWell DEF s
<1>15. QED
  BY <1>13, <1>14

LEMMA AppendIs ==
  ASSUME NEW op, NEW seen
  PROVE  /\ seen = <<>> => AppendTo(op, seen) = Ask("stat", op.path)
         /\ seen # <<>> /\ seen[1].kind = "dir" => AppendTo(op, seen) = End("EISDIR")
         /\ seen # <<>> /\ seen[1].kind # "dir" /\ seen[1].kind = "none" =>
              IF Len(seen) = 1 THEN AppendTo(op, seen) = Put(op.path, op.data)
              ELSE AppendTo(op, seen) = Return
         /\ seen # <<>> /\ seen[1].kind # "dir" /\ seen[1].kind # "none" =>
              /\ Len(seen) = 1 => AppendTo(op, seen) = Ask("read", op.path)
              /\ Len(seen) # 1 /\ Len(seen) = 2 =>
                   AppendTo(op, seen) = Put(op.path, seen[2].size + op.data)
              /\ Len(seen) # 1 /\ Len(seen) # 2 => AppendTo(op, seen) = Return
  BY Zenon DEF AppendTo

LEMMA AppendAdvances ==
  ASSUME NEW op, IsOp(op), op.name = "append", NEW t, Sound(t),
         NEW seen \in Seq(Answers), Knows(op, seen, t), Perform(op, seen).tool # "none",
         NEW n, NEW a, Turns(t, Perform(op, seen), n, a)
  PROVE  Advances(op, seen, t, n, a)
<1> DEFINE s == Append(seen, a)
           p == op.path
           w == Written(op, t)
<1>1. a \in Answers /\ p \in Paths /\ op.data \in Nat
  BY DEF Turns, IsOp
<1>2. \A x : Perform(op, x) = AppendTo(op, x)
  BY DEF Perform
<1>3. /\ s # <<>> /\ Len(seen) \in Nat
      /\ seen = <<>> => s[1] = a /\ Len(s) = 1
      /\ seen # <<>> => s[1] = seen[1] /\ Len(s) # 1
      /\ Len(seen) = 1 => seen # <<>> /\ s[2] = a /\ Len(s) = 2
      /\ Len(seen) = 2 => seen # <<>> /\ s[2] = seen[2] /\ Len(s) = 3
  BY <1>1, SeenNow
<1>4. /\ Kind(t, p) \in {"dir", "file", "none"}
      /\ Kind(t, p) = "dir" <=> IsDir(t, p)
      /\ Kind(t, p) = "file" <=> IsFile(t, p)
  BY <1>1, KindFacts
<1>5. Succeeds(op, t) <=> CanHold(t, p, w)
  BY SucceedsIs
<1>6. w = SizeAt(t, p) + op.data /\ Writes(op)
  BY DEF Written, Writes
<1>7. /\ IsFile(t, p) => SizeAt(t, p) = t.files[p] /\ t.files[p] \in Nat
      /\ ~IsFile(t, p) => SizeAt(t, p) = 0
  BY SizeFacts DEF SizeAt, IsFile, Sound
<1>8. {"ENOENT", "EISDIR"} \subseteq Errno
  BY DEF Errno
<1>9. w \in Nat /\ (~IsFile(t, p) => w = op.data)
  <2> HIDE DEF w
  <2>1. QED
    BY <1>1, <1>6, <1>7
<1> HIDE DEF s, p, w
<1>10. CASE seen = <<>>
  <2>1. Perform(op, seen) = Ask("stat", p)
    BY <1>2, <1>10, AppendIs DEF p
  <2>2. n = t /\ a.kind = Kind(t, p) /\ a.kind \notin Errno /\ StatOf(t, p, a)
    BY <2>1, StatTurns
  <2>3. CASE a.kind = "dir"
    <3>1. Perform(op, s) = End("EISDIR")
      BY <1>2, <1>3, <1>10, <2>3, AppendIs
    <3>2. ~Succeeds(op, t)
      BY <1>4, <1>5, <2>2, <2>3 DEF CanHold
    <3>3. QED
      BY <1>8, <2>2, <3>1, <3>2, EndsInError DEF s
  <2>4. CASE a.kind # "dir"
    <3>1. Perform(op, s) = Put(p, op.data) \/ Perform(op, s) = Ask("read", p)
      BY <1>2, <1>3, <1>10, <2>4, AppendIs DEF p
    <3>2. Perform(op, s).tool # "none"
      BY <3>1 DEF Put, Ask
    <3>3. Knows(op, s, t)
      BY <1>3, <1>10, <2>2, KnowsFirst DEF p
    <3>4. QED
      BY <2>2, <3>2, <3>3, WentOn DEF s
  <2>5. QED
    BY <2>3, <2>4
<1>11. CASE seen # <<>>
  <2>1. seen[1].kind = Kind(t, p) /\ StatOf(t, p, seen[1])
    BY <1>11, StatOfKind DEF Knows, p
  <2>2. seen[1].kind # "dir"
    BY <1>2, <1>11, AppendIs, EndIs
  <2>3. CASE seen[1].kind = "none"
    <3>1. Len(seen) = 1 /\ Perform(op, seen) = Put(p, op.data)
      BY <1>2, <1>11, <2>2, <2>3, AppendIs, EndIs DEF p
    <3>2. w = op.data
      BY <1>4, <1>9, <2>1, <2>3
    <3>3. Concludes(op, t, n, a)
      BY <1>1, <1>6, <3>1, <3>2, PutConcludes DEF p, w
    <3>4. Perform(op, s) = Return
      BY <1>2, <1>3, <1>11, <2>3, AppendIs
    <3>5. QED
      BY <3>3, <3>4, EndsWell DEF s
  <2>4. CASE seen[1].kind # "none"
    <3>1. IsFile(t, p)
      BY <1>4, <2>1, <2>2, <2>4
    <3>2. CASE Len(seen) = 1
      <4>1. Perform(op, seen) = Ask("read", p)
        BY <1>2, <1>11, <2>2, <2>4, <3>2, AppendIs DEF p
      <4>2. Allowed(t, Ask("read", p))
        BY <3>1 DEF Allowed, Ask
      <4>3. a.kind \notin Errno /\ Shown(t, Ask("read", p), n, a)
        BY <4>1, <4>2 DEF Turns
      <4>4. n = t
        BY <4>3 DEF Shown, Ask
      <4>5. Perform(op, s) = Put(p, s[2].size + op.data)
        <5>1. Len(s) # 1 /\ Len(s) = 2 /\ s # <<>> /\ s[1].kind # "dir" /\ s[1].kind # "none"
          BY <1>3, <1>11, <2>2, <2>4, <3>2
        <5>2. QED
          BY <1>2, <5>1, AppendIs DEF p
      <4>6. Perform(op, s).tool # "none"
        BY <4>5 DEF Put, Ask
      <4>7. Knows(op, s, t)
        BY <1>3, <2>1, <3>2, <4>3, <4>4 DEF Knows, p
      <4>8. QED
        BY <4>3, <4>4, <4>6, <4>7, WentOn DEF s
    <3>3. CASE Len(seen) # 1
      <4>1. Len(seen) = 2 /\ Perform(op, seen) = Put(p, seen[2].size + op.data)
        BY <1>2, <1>11, <2>2, <2>4, <3>3, AppendIs, EndIs DEF p
      <4>2. Shown(t, Ask("read", p), t, seen[2])
        BY <4>1 DEF Knows, p
      <4>3. seen[2].size = t.files[p]
        BY <4>2 DEF Shown, Ask
      <4>4. w = seen[2].size + op.data
        BY <1>6, <1>7, <3>1, <4>3
      <4>5. Concludes(op, t, n, a)
        BY <1>6, <1>9, <4>1, <4>4, PutConcludes DEF p, w
      <4>6. Perform(op, s) = Return
        <5>1. Len(s) = 3
          BY <1>3, <4>1
        <5>2. Len(s) # 1 /\ Len(s) # 2
          BY <5>1
        <5>3. s # <<>> /\ s[1].kind # "dir" /\ s[1].kind # "none"
          BY <1>3, <1>11, <2>2, <2>4
        <5>4. QED
          BY <1>2, <5>2, <5>3, AppendIs DEF p
      <4>7. QED
        BY <4>5, <4>6, EndsWell DEF s
    <3>4. QED
      BY <3>2, <3>3
  <2>5. QED
    BY <2>3, <2>4
<1>12. QED
  BY <1>10, <1>11
----------------------------------------------------------------------------
(* How a mkdir goes on *)

LEMMA UptoFacts ==
  ASSUME NEW p \in Paths
  PROVE  /\ \A i \in 0 .. Len(p) : Upto(p, i) \in Paths /\ Len(Upto(p, i)) = i
         /\ \A i \in 1 .. Len(p) : Upto(p, i) # Root /\ Parent(Upto(p, i)) = Upto(p, i - 1)
         /\ Upto(p, 0) = Root /\ Upto(p, Len(p)) = p
         /\ \A i, j \in 0 .. Len(p) : Upto(p, i) = Upto(p, j) => i = j
         /\ Upwards(p) = {Upto(p, i) : i \in 1 .. Len(p)}
<1>1. Len(p) \in Nat
  BY LenProperties DEF Paths
<1>2. ASSUME NEW i \in 0 .. Len(p)
      PROVE  /\ Upto(p, i) \in Paths /\ Len(Upto(p, i)) = i
             /\ \A k \in 1 .. i : Upto(p, i)[k] = p[k]
  <2>1. i \in Int /\ 0 <= i /\ i <= Len(p)
    BY <1>1
  <2>2. QED
    BY <2>1, PrefixFacts DEF Upto
<1>3. ASSUME NEW i \in 1 .. Len(p)
      PROVE  Upto(p, i) # Root /\ Parent(Upto(p, i)) = Upto(p, i - 1)
  <2> DEFINE q == Upto(p, i)
             r == Upto(p, i - 1)
  <2>1. i \in 0 .. Len(p) /\ i - 1 \in 0 .. Len(p) /\ i # 0 /\ \A k \in 1 .. i - 1 : k \in 1 .. i
    BY <1>1
  <2>2. /\ q \in Paths /\ Len(q) = i /\ \A k \in 1 .. i : q[k] = p[k]
        /\ r \in Paths /\ Len(r) = i - 1 /\ \A k \in 1 .. i - 1 : r[k] = p[k]
    BY <1>2, <2>1
  <2> HIDE DEF q, r
  <2>3. q # Root
    BY <2>1, <2>2, RootPath
  <2>4. /\ Parent(q) \in Paths /\ Len(Parent(q)) = i - 1
        /\ \A k \in 1 .. i - 1 : Parent(q)[k] = q[k]
    BY <2>2, <2>3, ParentFacts
  <2>5. \A k \in 1 .. i - 1 : Parent(q)[k] = r[k]
    BY <2>1, <2>2, <2>4
  <2>6. Parent(q) = r
    BY <2>2, <2>4, <2>5, SamePath
  <2>7. QED
    BY <2>3, <2>6 DEF q, r
<1>4. 0 \in 0 .. Len(p) /\ Len(p) \in 0 .. Len(p)
  BY <1>1
<1>5. Upto(p, 0) = Root
  BY <1>2, <1>4, EmptySeq DEF Paths, Root
<1>6. Upto(p, Len(p)) = p
  BY <1>2, <1>4, SamePath
<1>7. Upwards(p) = {Upto(p, i) : i \in 1 .. Len(p)}
  BY DEF Upwards, Upto
<1>8. \A i, j \in 0 .. Len(p) : Upto(p, i) = Upto(p, j) => i = j
  BY <1>2
<1>9. QED
  BY <1>2, <1>3, <1>5, <1>6, <1>7, <1>8

\* The directories on a path are those above some depth.
LEMMA DepthExists ==
  ASSUME NEW t, Whole(t), NEW p \in Paths \ {Root}
  PROVE  \E d \in 0 .. Len(p) - 1 : \A i \in 1 .. Len(p) - 1 : Upto(p, i) \in t.dirs <=> i <= d
<1> DEFINE L == Len(p)
           U(i) == Upto(p, i)
           N == {k \in Nat : k <= L - 1 =>
                   \E d \in 0 .. k : \A i \in 1 .. k : U(i) \in t.dirs <=> i <= d}
<1>1. L \in Nat /\ L # 0 /\ L - 1 \in Nat
  BY ParentFacts
<1>2. \A i \in 1 .. L : U(i) \in Paths /\ U(i) # Root /\ Parent(U(i)) = U(i - 1)
  <2>1. \A i \in 1 .. L : i \in 0 .. L
    BY <1>1
  <2>2. QED
    BY <2>1, UptoFacts
<1>3. ASSUME NEW i \in 2 .. L, U(i) \in t.dirs
      PROVE  U(i - 1) \in t.dirs
  <2>1. U(i) \in Nodes(t) /\ i \in 1 .. L /\ i - 1 \in 1 .. L
    BY <1>1, <1>3 DEF Nodes
  <2>2. IsDir(t, U(i - 1))
    BY <1>2, <2>1 DEF Whole
  <2>3. QED
    BY <1>2, <2>1, <2>2 DEF IsDir
<1> HIDE DEF L, U
<1>4. 0 \in N
  <2>1. 0 \in 0 .. 0 /\ \A i \in 1 .. 0 : U(i) \in t.dirs <=> i <= 0
    OBVIOUS
  <2>2. QED
    BY <2>1
<1>5. ASSUME NEW k \in Nat, k \in N
      PROVE  k + 1 \in N
  <2> SUFFICES ASSUME k + 1 <= L - 1
               PROVE  \E d \in 0 .. k + 1 : \A i \in 1 .. k + 1 : U(i) \in t.dirs <=> i <= d
    OBVIOUS
  <2>1. PICK d \in 0 .. k : \A i \in 1 .. k : U(i) \in t.dirs <=> i <= d
    BY <1>1, <1>5
  <2> HIDE DEF N
  <2>2. \A i \in 1 .. k + 1 : i \in 1 .. k \/ i = k + 1
    OBVIOUS
  <2>3. CASE d = k /\ U(k + 1) \in t.dirs
    <3>1. \A i \in 1 .. k + 1 : U(i) \in t.dirs /\ i <= k + 1
      BY <2>1, <2>2, <2>3
    <3>2. k + 1 \in 0 .. k + 1
      OBVIOUS
    <3>3. QED
      BY <3>1, <3>2
  <2>4. CASE U(k + 1) \notin t.dirs
    <3>1. ~(k + 1 <= d) /\ d \in 0 .. k + 1
      OBVIOUS
    <3>2. \A i \in 1 .. k + 1 : U(i) \in t.dirs <=> i <= d
      BY <2>1, <2>2, <2>4, <3>1
    <3>3. QED
      BY <3>1, <3>2
  <2>5. CASE d # k /\ U(k + 1) \in t.dirs
    <3>1. k \in 1 .. k /\ ~(k <= d) /\ k + 1 \in 2 .. L /\ (k + 1) - 1 = k
      BY <1>1, <2>5
    <3>2. U(k) \in t.dirs
      BY <1>3, <2>5, <3>1
    <3>3. QED
      BY <2>1, <3>1, <3>2
  <2>6. QED
    BY <2>3, <2>4, <2>5
<1>6. L - 1 \in N
  <2> HIDE DEF N
  <2>1. QED
    BY <1>1, <1>4, <1>5, NumberInduction
<1>7. QED
  BY <1>1, <1>6 DEF L, U

LEMMA DepthFacts ==
  ASSUME NEW t, Whole(t), NEW p \in Paths \ {Root}
  PROVE  /\ Depth(t, p) \in 0 .. Len(p) - 1
         /\ \A i \in 1 .. Len(p) - 1 : Upto(p, i) \in t.dirs <=> i <= Depth(t, p)
  BY DepthExists, Zenon DEF Depth

\* Of the directories on a path, those below some depth are made, outermost first.
LEMMA MissingIs ==
  ASSUME NEW op, op.path \in Paths \ {Root}, NEW seen, NEW d \in 0 .. Len(op.path) - 1,
         \A i \in 1 .. Len(op.path) - 1 : seen[i + 1].kind = "none" <=> ~(i <= d)
  PROVE  /\ Missing(op, seen) \in Seq(Paths) /\ Len(Missing(op, seen)) = Len(op.path) - 1 - d
         /\ \A k \in 1 .. Len(op.path) - 1 - d : Missing(op, seen)[k] = Upto(op.path, d + k)
<1> DEFINE n == Len(op.path) - 1
           f == CHOOSE f : Climbs(f, op, seen, n)
           U(i) == Upto(op.path, i)
           So(x, m) == /\ x \in Seq(Paths) /\ Len(x) = IF m <= d THEN 0 ELSE m - d
                       /\ \A k \in 1 .. Len(x) : x[k] = U(d + k)
           N == {m \in Nat : m <= n => So(f[m], m)}
<1>1. n \in Nat /\ Len(op.path) = n + 1
  BY ParentFacts
<1>2. Climbs(f, op, seen, n)
  <2> HIDE DEF n
  <2>1. QED
    BY <1>1, MissingExists
<1>3. Missing(op, seen) = f[n]
  BY Zenon DEF Missing, Climbs
<1>4. \A i \in 1 .. n : U(i) \in Paths
  <2>1. \A i \in 1 .. n : i \in 0 .. Len(op.path)
    BY <1>1
  <2>2. QED
    BY <2>1, UptoFacts
<1>5. d \in Nat /\ d <= n /\ \A i \in 1 .. n : seen[i + 1].kind = "none" <=> ~(i <= d)
  BY <1>1
<1>6. \A i \in 0 .. n : f[i] = IF i = 0 THEN <<>>
                               ELSE IF seen[i + 1].kind = "none" THEN Append(f[i - 1], U(i))
                               ELSE f[i - 1]
  BY <1>2 DEF Climbs, Upto
<1> HIDE DEF f, n, U
<1>7. 0 \in N
  <2>1. f[0] = <<>>
    BY <1>1, <1>6
  <2>2. <<>> \in Seq(Paths) /\ Len(<<>>) = 0
    BY EmptySeq
  <2>3. \A k \in 1 .. 0 : FALSE
    OBVIOUS
  <2>4. 0 <= d
    BY <1>5
  <2>5. So(f[0], 0)
    BY <2>1, <2>2, <2>3, <2>4
  <2>6. QED
    BY <2>5
<1>8. ASSUME NEW m \in Nat, m \in N
      PROVE  m + 1 \in N
  <2> SUFFICES ASSUME m + 1 <= n
               PROVE  So(f[m + 1], m + 1)
    OBVIOUS
  <2> DEFINE x == f[m]
             y == f[m + 1]
  <2>1. /\ x \in Seq(Paths) /\ Len(x) = IF m <= d THEN 0 ELSE m - d
        /\ \A k \in 1 .. Len(x) : x[k] = U(d + k)
    <3>1. m <= n
      BY <1>1
    <3>2. QED
      BY <1>8, <3>1
  <2>2. m + 1 \in 0 .. n /\ m + 1 \in 1 .. n /\ m + 1 # 0 /\ (m + 1) - 1 = m
    BY <1>1
  <2>3. y = IF seen[(m + 1) + 1].kind = "none" THEN Append(x, U(m + 1)) ELSE x
    BY <1>6, <2>2
  <2>4. seen[(m + 1) + 1].kind = "none" <=> ~(m + 1 <= d)
    BY <1>5, <2>2
  <2>5. U(m + 1) \in Paths
    BY <1>4, <2>2
  <2> HIDE DEF x, y, N
  <2>6. CASE m + 1 <= d
    <3>1. y = x /\ m <= d
      BY <1>5, <2>3, <2>4, <2>6
    <3>2. QED
      BY <2>1, <2>6, <3>1 DEF x, y
  <2>7. CASE ~(m + 1 <= d)
    <3>1. y = Append(x, U(m + 1))
      BY <2>3, <2>4, <2>7
    <3>2. Len(x) = m - d
      BY <1>5, <2>1, <2>7
    <3>3. /\ y \in Seq(Paths) /\ Len(y) = Len(x) + 1
          /\ \A k \in 1 .. Len(x) : y[k] = x[k]
          /\ y[Len(x) + 1] = U(m + 1)
      BY <2>1, <2>5, <3>1, AppendProperties
    <3>4. Len(y) = (m + 1) - d /\ m - d \in Nat /\ d + ((m - d) + 1) = m + 1
      BY <1>5, <2>7, <3>2, <3>3
    <3>5. ASSUME NEW k \in 1 .. Len(y)
          PROVE  y[k] = U(d + k)
      <4>1. k \in 1 .. Len(x) \/ k = (m - d) + 1
        BY <1>5, <3>2, <3>4
      <4>2. CASE k \in 1 .. Len(x)
        BY <2>1, <3>3, <4>2
      <4>3. CASE k = (m - d) + 1
        BY <3>2, <3>3, <3>4, <4>3
      <4>4. QED
        BY <4>1, <4>2, <4>3
    <3>6. QED
      BY <2>7, <3>3, <3>4, <3>5 DEF y
  <2>8. QED
    BY <2>6, <2>7
<1>9. n \in N
  <2> HIDE DEF N
  <2>1. QED
    BY <1>1, <1>7, <1>8, NumberInduction
<1>10. /\ f[n] \in Seq(Paths) /\ Len(f[n]) = n - d
       /\ \A k \in 1 .. n - d : f[n][k] = U(d + k)
  <2>1. So(f[n], n)
    BY <1>1, <1>9
  <2>2. n <= d => n - d = 0
    BY <1>1, <1>5
  <2>3. Len(f[n]) = n - d
    BY <2>1, <2>2
  <2>4. QED
    BY <2>1, <2>3
<1>11. QED
  BY <1>3, <1>10 DEF n, U

\* A mkdir of what is there is over after one look.
LEMMA MakeDirStarts ==
  ASSUME NEW op, NEW seen
  PROVE  /\ Len(seen) = 0 => MakeDir(op, seen) = Ask("stat", op.path)
         /\ Len(seen) # 0 /\ seen[1].kind # "none" =>
              IF "exist_ok" \in op.flags /\ seen[1].kind = "dir" THEN MakeDir(op, seen) = Return
              ELSE MakeDir(op, seen) = End("EEXIST")
  BY Zenon DEF MakeDir

\* A mkdir of what is not there, by how many answers it has.
LEMMA MakeDirGoes ==
  ASSUME NEW op, op.path \in Paths \ {Root}, NEW seen, Len(seen) \in Nat \ {0},
         seen[1].kind = "none"
  PROVE  LET n == Len(seen)
             L == Len(op.path)
             todo == Append(Missing(op, seen), op.path) IN
         /\ n - 1 \in 1 .. L - 1 /\ seen[n].kind = "none" /\ "parents" \notin op.flags =>
              MakeDir(op, seen) = End("ENOENT")
         /\ n - 1 \in 1 .. L - 1 /\ seen[n].kind = "file" => MakeDir(op, seen) = End("ENOTDIR")
         /\ ~(n - 1 \in 1 .. L - 1 /\ seen[n].kind = "none" /\ "parents" \notin op.flags)
            /\ ~(n - 1 \in 1 .. L - 1 /\ seen[n].kind = "file") =>
              /\ n < L => MakeDir(op, seen) = Ask("stat", Upto(op.path, n))
              /\ ~(n < L) => IF n - L < Len(todo) THEN MakeDir(op, seen) = Ask("mkdir", todo[n - L + 1])
                             ELSE MakeDir(op, seen) = Return
<1> DEFINE n == Len(seen)
           L == Len(op.path)
           ancestors == [i \in 1 .. L - 1 |-> SubSeq(op.path, 1, i)]
           todo == Append(Missing(op, seen), op.path)
           made == n - 1 - Len(ancestors)
           call == MakeDir(op, seen)
           lacks == n - 1 \in DOMAIN ancestors /\ seen[n].kind = "none" /\ "parents" \notin op.flags
           bars == n - 1 \in DOMAIN ancestors /\ seen[n].kind = "file"
<1>1. L \in Nat /\ L # 0 /\ L - 1 \in Nat /\ n \in Nat /\ n # 0
  BY ParentFacts
<1>2. /\ lacks => call = End("ENOENT")
      /\ ~lacks /\ bars => call = End("ENOTDIR")
      /\ ~lacks /\ ~bars /\ n - 1 < Len(ancestors) => call = Ask("stat", ancestors[n])
      /\ ~lacks /\ ~bars /\ ~(n - 1 < Len(ancestors)) /\ made < Len(todo) =>
           call = Ask("mkdir", todo[made + 1])
      /\ ~lacks /\ ~bars /\ ~(n - 1 < Len(ancestors)) /\ ~(made < Len(todo)) => call = Return
  BY Zenon DEF MakeDir
<1>3. DOMAIN ancestors = 1 .. L - 1 /\ Len(ancestors) = L - 1
      /\ \A i \in 1 .. L - 1 : ancestors[i] = Upto(op.path, i)
  <2> HIDE DEF L
  <2>1. ancestors = [i \in 1 .. L - 1 |-> Upto(op.path, i)]
    BY DEF Upto
  <2>2. QED
    BY <1>1, <2>1
<1>4. "none" # "file"
  OBVIOUS
<1>5. bars => ~lacks
  BY <1>4
<1> HIDE DEF ancestors, todo, call
<1>6. /\ n - 1 < Len(ancestors) <=> n < L
      /\ made = n - L
      /\ n < L => n \in 1 .. L - 1
  BY <1>1, <1>3
<1> HIDE DEF n, L, made
<1>7. /\ lacks => call = End("ENOENT")
      /\ bars => call = End("ENOTDIR")
      /\ ~lacks /\ ~bars => /\ n < L => call = Ask("stat", Upto(op.path, n))
                            /\ ~(n < L) => IF n - L < Len(todo) THEN call = Ask("mkdir", todo[n - L + 1])
                                           ELSE call = Return
  <2> HIDE DEF lacks, bars
  <2>1. QED
    BY <1>2, <1>3, <1>5, <1>6
<1>8. QED
  BY <1>3, <1>7 DEF n, L, call, todo

\* Its ancestors looked up, a mkdir makes what is missing, and the path itself.
LEMMA MkdirMakes ==
  ASSUME NEW op, op.name = "mkdir", op.path \in Paths \ {Root}, NEW t, Sound(t),
         NEW seen, Len(seen) \in Nat, Len(seen) >= Len(op.path), seen[1].kind = "none",
         \A i \in 1 .. Len(op.path) - 1 : /\ StatOf(t, Upto(op.path, i), seen[i + 1])
                                          /\ ~IsFile(t, Upto(op.path, i))
                                          /\ "parents" \in op.flags \/ IsDir(t, Upto(op.path, i))
  PROVE  LET made == Len(seen) - Len(op.path)
             d == Depth(t, op.path) IN
         IF made < Len(op.path) - d THEN Perform(op, seen) = Ask("mkdir", Upto(op.path, d + made + 1))
         ELSE Perform(op, seen) = Return
<1> DEFINE p == op.path
           n == Len(seen)
           L == Len(p)
           d == Depth(t, p)
           U(i) == Upto(p, i)
           todo == Append(Missing(op, seen), p)
<1>1. L \in Nat /\ L # 0 /\ n \in Nat /\ n >= L /\ n # 0
  BY ParentFacts
<1>2. d \in 0 .. L - 1 /\ \A i \in 1 .. L - 1 : U(i) \in t.dirs <=> i <= d
  BY DepthFacts DEF Sound
<1>3. \A i \in 1 .. L : U(i) \in Paths /\ U(i) # Root
  <2>1. \A i \in 1 .. L : i \in 0 .. L
    BY <1>1
  <2>2. QED
    BY <2>1, UptoFacts
<1>4. \A i \in 1 .. L - 1 : /\ seen[i + 1].kind = Kind(t, U(i)) /\ ~IsFile(t, U(i))
                            /\ "parents" \in op.flags \/ IsDir(t, U(i))
  BY StatOfKind
<1>5. ASSUME NEW i \in 1 .. L - 1
      PROVE  /\ seen[i + 1].kind = "none" <=> ~(i <= d)
             /\ seen[i + 1].kind # "file"
             /\ "parents" \in op.flags \/ seen[i + 1].kind # "none"
  <2>1. i \in 1 .. L
    BY <1>1
  <2>2. IsDir(t, U(i)) <=> i <= d
    BY <1>2, <1>3, <2>1 DEF IsDir
  <2>3. seen[i + 1].kind = IF IsDir(t, U(i)) THEN "dir" ELSE "none"
    BY <1>4 DEF Kind
  <2>4. QED
    BY <1>4, <2>2, <2>3
<1>6. /\ Missing(op, seen) \in Seq(Paths) /\ Len(Missing(op, seen)) = L - 1 - d
      /\ \A k \in 1 .. L - 1 - d : Missing(op, seen)[k] = U(d + k)
  <2>1. d \in 0 .. Len(op.path) - 1
    BY <1>2
  <2>2. \A i \in 1 .. Len(op.path) - 1 : seen[i + 1].kind = "none" <=> ~(i <= d)
    BY <1>5
  <2> HIDE DEF d
  <2>3. QED
    BY <2>1, <2>2, MissingIs
<1>7. U(L) = p
  BY UptoFacts
<1>8. Perform(op, seen) = MakeDir(op, seen)
  BY DEF Perform
<1> HIDE DEF U, d
<1>9. /\ Len(todo) = L - d /\ \A k \in 1 .. L - d : todo[k] = U(d + k)
  <2>1. /\ Len(todo) = (L - 1 - d) + 1
        /\ \A k \in 1 .. L - 1 - d : todo[k] = Missing(op, seen)[k]
        /\ todo[(L - 1 - d) + 1] = p
    BY <1>6, AppendProperties
  <2> HIDE DEF todo
  <2> HIDE DEF L
  <2>2. d \in Int /\ (L - 1 - d) + 1 = L - d /\ d + (L - d) = L
    BY <1>1, <1>2
  <2>3. \A k \in 1 .. L - d : k \in 1 .. L - 1 - d \/ k = L - d
    BY <1>1, <2>2
  <2>4. ASSUME NEW k \in 1 .. L - d
        PROVE  todo[k] = U(d + k)
    <3>1. CASE k \in 1 .. L - 1 - d
      BY <1>6, <2>1, <3>1
    <3>2. CASE k = L - d
      BY <1>7, <2>1, <2>2, <3>2
    <3>3. QED
      BY <2>3, <3>1, <3>2
  <2>5. Len(todo) = L - d
    BY <2>1, <2>2
  <2>6. QED
    BY <2>4, <2>5
<1> HIDE DEF todo
<1>10. /\ ~(n - 1 \in 1 .. L - 1 /\ seen[n].kind = "none" /\ "parents" \notin op.flags)
       /\ ~(n - 1 \in 1 .. L - 1 /\ seen[n].kind = "file")
  <2>1. (n - 1) + 1 = n
    BY <1>1
  <2>2. QED
    BY <1>5, <2>1
<1>11. ~(n < L)
  BY <1>1
<1>12. IF n - L < Len(todo) THEN MakeDir(op, seen) = Ask("mkdir", todo[n - L + 1])
       ELSE MakeDir(op, seen) = Return
  <2>1. Len(seen) \in Nat \ {0}
    BY <1>1
  <2>2. QED
    BY <1>10, <1>11, <2>1, MakeDirGoes DEF todo
<1>13. n - L < L - d => todo[n - L + 1] = U(d + (n - L) + 1)
  <2>1. n - L < L - d => n - L + 1 \in 1 .. L - d /\ d + (n - L + 1) = d + (n - L) + 1
    BY <1>1, <1>2
  <2>2. QED
    BY <1>9, <2>1
<1> HIDE DEF n, L, p
<1>14. IF n - L < L - d THEN Perform(op, seen) = Ask("mkdir", U(d + (n - L) + 1))
       ELSE Perform(op, seen) = Return
  BY <1>8, <1>9, <1>12, <1>13
<1>15. QED
  BY <1>14 DEF n, L, p, U, d

LEMMA MkdirStarts ==
  ASSUME NEW op, IsOp(op), op.name = "mkdir", NEW t, Sound(t),
         NEW n, NEW a, Turns(t, Perform(op, <<>>), n, a)
  PROVE  Advances(op, <<>>, t, n, a)
<1> DEFINE s == Append(<<>>, a)
           p == op.path
<1>1. p \in Paths /\ a \in Answers /\ <<>> \in Seq(Answers) /\ Len(<<>>) = 0 /\ Whole(t) /\ IsTree(t)
  BY EmptySeq DEF Turns, IsOp, Sound, Whole
<1>2. \A x : Perform(op, x) = MakeDir(op, x)
  BY DEF Perform
<1>3. Perform(op, <<>>) = Ask("stat", p)
  BY <1>1, <1>2, MakeDirStarts
<1>4. n = t /\ a.kind = Kind(t, p) /\ a.kind \notin Errno /\ StatOf(t, p, a)
  BY <1>3, StatTurns
<1>5. /\ Kind(t, p) \in {"dir", "file", "none"}
      /\ Kind(t, p) = "dir" <=> IsDir(t, p)
      /\ Kind(t, p) = "none" <=> ~Exists(t, p)
  BY <1>1, KindFacts
<1>6. s # <<>> /\ s[1] = a /\ Len(s) = 1
  BY <1>1, SeenNow
<1>7. Exists(t, p) => (Succeeds(op, t) <=> "exist_ok" \in op.flags /\ IsDir(t, p))
  BY SucceedsIs
<1> HIDE DEF s, p
<1>8. CASE a.kind # "none"
  <2>1. IF "exist_ok" \in op.flags /\ a.kind = "dir" THEN Perform(op, s) = Return
        ELSE Perform(op, s) = End("EEXIST")
    BY <1>2, <1>6, <1>8, MakeDirStarts
  <2>2. CASE "exist_ok" \in op.flags /\ a.kind = "dir"
    <3>1. IsDir(t, p) /\ Succeeds(op, t)
      BY <1>4, <1>5, <1>7, <2>2
    <3>2. Upwards(p) \subseteq t.dirs
      <4>1. CASE p = Root
        <5>1. Upwards(p) = {}
          BY <4>1, RootPath DEF Upwards
        <5>2. QED
          BY <5>1
      <4>2. CASE p # Root
        BY <1>1, <3>1, <4>2, UpwardsDirs DEF IsDir
      <4>3. QED
        BY <4>1, <4>2
    <3>3. Effect(op, t) = t
      <4> DEFINE m == [t EXCEPT !.dirs = t.dirs \cup Upwards(p)]
      <4>1. Effect(op, t) = m
        BY EffectIs DEF p
      <4>2. t.dirs \cup Upwards(p) = t.dirs /\ t.dirs \subseteq Paths \ {Root}
        BY <1>1, <3>2 DEF IsTree, Paths
      <4>3. IsTree(m) /\ m.dirs = t.dirs /\ m.files = t.files
        BY <1>1, <4>2, WithDirs
      <4> HIDE DEF m
      <4>4. m = t
        BY <1>1, <4>3, SameTree DEF SameFiles
      <4>5. QED
        BY <4>1, <4>4
    <3>4. Concludes(op, t, n, a)
      BY <1>4, <3>1, <3>3 DEF Concludes
    <3>5. QED
      BY <2>1, <2>2, <3>4, EndsWell DEF s
  <2>3. CASE ~("exist_ok" \in op.flags /\ a.kind = "dir")
    <3>1. ~Succeeds(op, t) /\ "EEXIST" \in Errno
      BY <1>4, <1>5, <1>7, <1>8, <2>3 DEF Errno
    <3>2. QED
      BY <1>4, <2>1, <2>3, <3>1, EndsInError DEF s
  <2>4. QED
    BY <2>2, <2>3
<1>9. CASE a.kind = "none"
  <2>1. ~Exists(t, p) /\ p # Root
    BY <1>4, <1>5, <1>9 DEF Exists, IsDir
  <2>2. Len(p) \in Nat /\ Len(p) >= 1
    BY <1>1, <2>1, ParentFacts
  <2>3. Len(Append(Missing(op, s), p)) \in Nat /\ Len(Append(Missing(op, s), p)) >= 1
    <3>1. Missing(op, s) \in Seq(Paths)
      BY <1>1, <2>1, MissingTypes DEF p
    <3>2. /\ Len(Append(Missing(op, s), p)) = Len(Missing(op, s)) + 1
          /\ Len(Missing(op, s)) \in Nat
      BY <1>1, <3>1, AppendProperties, LenProperties
    <3>3. QED
      BY <3>2
  <2>4. Perform(op, s).tool # "none"
    <3> DEFINE L == Len(p)
               k == Len(Append(Missing(op, s), p))
    <3>1. p \in Paths \ {Root} /\ Len(s) \in Nat \ {0} /\ s[1].kind = "none"
      BY <1>1, <1>6, <1>9, <2>1
    <3>2. /\ Len(s) - 1 \notin 1 .. Len(p) - 1
          /\ Len(s) - Len(p) < k \/ Len(s) < Len(p)
      BY <1>6, <2>2, <2>3
    <3>3. \E tool \in {"stat", "mkdir"} : \E q : MakeDir(op, s) = Ask(tool, q)
      BY <3>1, <3>2, MakeDirGoes DEF p
    <3>4. QED
      BY <1>2, <3>3 DEF Ask
  <2>5. ~(Len(s) > Len(p)) /\ \A i \in 1 .. Len(p) - 1 : ~(i + 1 <= Len(s))
    BY <1>6, <2>2
  <2>6. Knows(op, s, t)
    BY <1>4, <1>6, <2>1, <2>5 DEF Knows, p
  <2>7. TreeAt(op, s, t) = t
    <3>1. Len(s) <= Len(p)
      BY <1>6, <2>2
    <3>2. QED
      BY <3>1 DEF TreeAt, p
  <2>8. QED
    BY <1>4, <2>4, <2>6, <2>7 DEF Advances, s
<1>10. QED
  BY <1>8, <1>9

\* While the ancestors of a directory are looked up nothing has changed.
LEMMA MkdirLooks ==
  ASSUME NEW op, IsOp(op), op.name = "mkdir", NEW t, Sound(t),
         NEW seen \in Seq(Answers), seen # <<>>, Knows(op, seen, t), Len(seen) < Len(op.path),
         NEW n, NEW a, Turns(t, Perform(op, seen), n, a)
  PROVE  Advances(op, seen, t, n, a)
<1> DEFINE p == op.path
           m == Len(seen)
           L == Len(p)
           U(i) == Upto(p, i)
           s == Append(seen, a)
           d == Depth(t, p)
<1>1. /\ a \in Answers /\ p \in Paths \ {Root} /\ Whole(t)
      /\ StatOf(t, p, seen[1]) /\ ~Exists(t, p)
      /\ \A i \in 1 .. L - 1 :
           i + 1 <= m => /\ StatOf(t, U(i), seen[i + 1]) /\ ~IsFile(t, U(i))
                         /\ "parents" \in op.flags \/ IsDir(t, U(i))
  BY DEF Knows, Turns, Exists, IsDir, IsOp, Sound
<1>2. L \in Nat /\ m \in Nat /\ m # 0 /\ m < L /\ m \in 1 .. L - 1 /\ L - 1 \in 1 .. L - 1
  BY <1>1, ParentFacts, SeenNow, EmptySeq
<1>3. \A x : Perform(op, x) = MakeDir(op, x)
  BY DEF Perform
<1>4. /\ \A i \in 1 .. L - 1 : U(i) \in Paths /\ U(i) # Root /\ U(i) \in Upwards(p)
      /\ Parent(p) = U(L - 1)
  <2>1. \A i \in 1 .. L - 1 : i \in 0 .. L /\ i \in 1 .. L
    BY <1>2
  <2>2. L \in 1 .. L
    BY <1>2
  <2>3. /\ \A i \in 0 .. L : U(i) \in Paths
        /\ \A i \in 1 .. L : U(i) # Root /\ Parent(U(i)) = U(i - 1)
        /\ U(L) = p /\ Upwards(p) = {U(i) : i \in 1 .. L}
    BY <1>1, UptoFacts
  <2> HIDE DEF U, L
  <2>4. \A i \in 1 .. L : U(i) \in Upwards(p)
    BY <2>3
  <2>5. QED
    BY <2>1, <2>2, <2>3, <2>4
<1>5. seen[1].kind = "none"
  BY <1>1, StatOfKind, KindFacts
<1>6. /\ m \in Nat \ {0}
      /\ ~(m - 1 \in 1 .. L - 1 /\ seen[m].kind = "none" /\ "parents" \notin op.flags)
      /\ ~(m - 1 \in 1 .. L - 1 /\ seen[m].kind = "file")
  <2>1. ASSUME m - 1 \in 1 .. L - 1
        PROVE  seen[m].kind # "file" /\ ("parents" \in op.flags \/ seen[m].kind # "none")
    <3>1. (m - 1) + 1 = m /\ (m - 1) + 1 <= m
      BY <1>2
    <3>2. /\ StatOf(t, U(m - 1), seen[(m - 1) + 1]) /\ ~IsFile(t, U(m - 1))
          /\ "parents" \in op.flags \/ IsDir(t, U(m - 1))
      BY <1>1, <2>1, <3>1
    <3>3. StatOf(t, U(m - 1), seen[m])
      BY <3>1, <3>2
    <3>4. U(m - 1) \in Paths
      BY <1>4, <2>1
    <3>5. QED
      BY <3>2, <3>3, <3>4, StatOfKind, KindFacts DEF Exists
  <2>2. QED
    BY <1>2, <2>1
<1>7. Perform(op, seen) = Ask("stat", U(m))
  <2>1. MakeDir(op, seen) = Ask("stat", Upto(op.path, m))
    BY <1>1, <1>2, <1>5, <1>6, MakeDirGoes
  <2>2. QED
    BY <1>3, <2>1
<1>8. n = t /\ a.kind = Kind(t, U(m)) /\ a.kind \notin Errno /\ StatOf(t, U(m), a)
  BY <1>7, StatTurns
<1>9. /\ U(m) \in Paths /\ Kind(t, U(m)) \in {"dir", "file", "none"}
      /\ Kind(t, U(m)) = "dir" <=> IsDir(t, U(m))
      /\ Kind(t, U(m)) = "file" <=> IsFile(t, U(m))
  BY <1>2, <1>4, KindFacts
<1>10. /\ s # <<>> /\ Len(s) = m + 1 /\ s[1] = seen[1] /\ s[m + 1] = a
       /\ \A i \in 1 .. m : s[i] = seen[i]
  BY <1>1, SeenNow
<1>11. /\ Succeeds(op, t) => (\A r \in Upwards(p) : ~IsFile(t, r))
       /\ Succeeds(op, t) => "parents" \in op.flags \/ IsDir(t, Parent(p))
  BY <1>1, SucceedsIs
<1>12. /\ ~IsDir(t, U(m)) => ~IsDir(t, Parent(p))
  <2>1. d \in 0 .. L - 1 /\ \A i \in 1 .. L - 1 : U(i) \in t.dirs <=> i <= d
    BY <1>1, DepthFacts
  <2> HIDE DEF d, U
  <2>2. ~(m <= d) => ~(L - 1 <= d)
    BY <1>2, <2>1
  <2>3. QED
    BY <1>2, <1>4, <2>1, <2>2 DEF IsDir
<1>13. /\ Len(s) \in Nat \ {0} /\ Len(s) - 1 = m /\ Len(s) - 1 \in 1 .. L - 1
       /\ s[Len(s)] = a /\ s[1].kind = "none"
  BY <1>2, <1>5, <1>10
<1>14. /\ a.kind = "none" /\ "parents" \notin op.flags => Perform(op, s) = End("ENOENT")
       /\ a.kind = "file" => Perform(op, s) = End("ENOTDIR")
       /\ a.kind # "file" /\ ~(a.kind = "none" /\ "parents" \notin op.flags) =>
            /\ Len(s) < L => Perform(op, s) = Ask("stat", U(Len(s)))
            /\ ~(Len(s) < L) =>
                 IF Len(s) - L < Len(Append(Missing(op, s), p))
                 THEN Perform(op, s) = Ask("mkdir", Append(Missing(op, s), p)[Len(s) - L + 1])
                 ELSE Perform(op, s) = Return
  <2> HIDE DEF s, L
  <2>1. QED
    BY <1>1, <1>3, <1>13, MakeDirGoes DEF L
<1> HIDE DEF s
<1>15. CASE a.kind = "none" /\ "parents" \notin op.flags
  <2>1. "ENOENT" \in Errno /\ Perform(op, s) = End("ENOENT")
    BY <1>14, <1>15 DEF Errno
  <2>2. ~Succeeds(op, t)
    BY <1>8, <1>9, <1>11, <1>12, <1>15
  <2>3. QED
    BY <1>8, <2>1, <2>2, EndsInError DEF s
<1>16. CASE a.kind = "file"
  <2>1. "ENOTDIR" \in Errno /\ Perform(op, s) = End("ENOTDIR")
    BY <1>14, <1>16 DEF Errno
  <2>2. ~Succeeds(op, t)
    BY <1>2, <1>4, <1>8, <1>9, <1>11, <1>16
  <2>3. QED
    BY <1>8, <2>1, <2>2, EndsInError DEF s
<1>17. CASE a.kind # "file" /\ ~(a.kind = "none" /\ "parents" \notin op.flags)
  <2>1. Len(Append(Missing(op, s), p)) \in Nat /\ Len(Append(Missing(op, s), p)) >= 1
    <3>1. Missing(op, s) \in Seq(Paths)
      BY <1>1, MissingTypes
    <3>2. /\ Len(Append(Missing(op, s), p)) = Len(Missing(op, s)) + 1
          /\ Len(Missing(op, s)) \in Nat
      BY <1>1, <3>1, AppendProperties, LenProperties
    <3>3. QED
      BY <3>2
  <2>2. Perform(op, s).tool # "none"
    <3>1. \A x : Ask("stat", x).tool # "none" /\ Ask("mkdir", x).tool # "none"
      BY DEF Ask
    <3> HIDE DEF L
    <3>2. ~(Len(s) < L) => Len(s) - L = 0
      BY <1>2, <1>10
    <3>3. \A k \in Nat : k >= 1 => 0 < k
      OBVIOUS
    <3>4. ~(Len(s) < L) => Len(s) - L < Len(Append(Missing(op, s), p))
      BY <2>1, <3>2, <3>3
    <3>5. QED
      BY <1>14, <1>17, <3>1, <3>4, Zenon
  <2>3. ASSUME NEW i \in 1 .. L - 1, i + 1 <= Len(s)
        PROVE  /\ StatOf(t, U(i), s[i + 1]) /\ ~IsFile(t, U(i))
               /\ "parents" \in op.flags \/ IsDir(t, U(i))
    <3>1. CASE i = m
      BY <1>8, <1>9, <1>10, <1>17, <3>1
    <3>2. CASE i # m
      <4>1. i + 1 <= m /\ i + 1 \in 1 .. m
        BY <1>2, <1>10, <2>3, <3>2
      <4>2. s[i + 1] = seen[i + 1]
        BY <1>10, <4>1
      <4>3. QED
        BY <1>1, <4>1, <4>2
    <3>3. QED
      BY <3>1, <3>2
  <2>4. ~(Len(s) > L) /\ Len(s) <= L
    BY <1>2, <1>10
  <2>5. Knows(op, s, t)
    BY <1>1, <1>10, <2>3, <2>4 DEF Knows
  <2>6. TreeAt(op, s, t) = t
    BY <2>4 DEF TreeAt
  <2>7. QED
    BY <1>8, <2>2, <2>5, <2>6 DEF Advances, s
<1>18. QED
  BY <1>15, <1>16, <1>17

\* A mount that a mkdir has made the first directories on its path in.
Grown(t, p, k) == [t EXCEPT !.dirs = t.dirs \cup {Upto(p, i) : i \in 1 .. k}]

LEMMA GrownFacts ==
  ASSUME NEW t, IsTree(t), NEW p \in Paths, NEW k \in 0 .. Len(p)
  PROVE  LET g == Grown(t, p, k) IN
         /\ IsTree(g) /\ g.files = t.files /\ g.dirs = t.dirs \cup {Upto(p, i) : i \in 1 .. k}
         /\ \A n : IsTree(n) /\ n.dirs = g.dirs /\ DOMAIN n.files = DOMAIN t.files
                     /\ SameFiles(t, n, DOMAIN t.files) => n = g
<1> DEFINE dirs == t.dirs \cup {Upto(p, i) : i \in 1 .. k}
           g == Grown(t, p, k)
<1>1. \A i \in 1 .. k : Upto(p, i) \in Paths \ {Root}
  <2>1. \A i \in 1 .. k : i \in 0 .. Len(p) /\ i \in 1 .. Len(p)
    BY LenProperties DEF Paths
  <2>2. QED
    BY <2>1, UptoFacts
<1>2. dirs \subseteq Paths \ {Root}
  BY <1>1 DEF IsTree, Paths
<1>3. g = [t EXCEPT !.dirs = dirs]
  BY DEF Grown
<1> HIDE DEF dirs, g
<1>4. IsTree(g) /\ g.dirs = dirs /\ g.files = t.files
  BY <1>2, <1>3, WithDirs
<1>5. ASSUME NEW n, IsTree(n), n.dirs = g.dirs, DOMAIN n.files = DOMAIN t.files,
             SameFiles(t, n, DOMAIN t.files)
      PROVE  n = g
  <2>1. SameFiles(g, n, DOMAIN g.files)
    BY <1>4, <1>5 DEF SameFiles
  <2>2. QED
    BY <1>4, <1>5, <2>1, SameTree
<1>6. QED
  BY <1>4, <1>5 DEF g, dirs

\* The mount a mkdir has got to.
LEMMA TreeAtIs ==
  ASSUME NEW op, op.name = "mkdir", op.path \in Paths \ {Root}, NEW t, Sound(t), NEW seen,
         Len(seen) \in Nat, Len(seen) >= Len(op.path),
         Len(seen) - Len(op.path) < Len(op.path) - Depth(t, op.path)
  PROVE  TreeAt(op, seen, t) = Grown(t, op.path, Depth(t, op.path) + (Len(seen) - Len(op.path)))
<1> DEFINE p == op.path
           d == Depth(t, p)
           m == Len(seen)
           L == Len(p)
<1>1. L \in Nat /\ L # 0 /\ m \in Nat /\ m >= L /\ m - L < L - d
  BY ParentFacts
<1>2. d \in 0 .. L - 1 /\ \A i \in 1 .. L - 1 : Upto(p, i) \in t.dirs <=> i <= d
  BY DepthFacts DEF Sound
<1> HIDE DEF d, m, L
<1>3. CASE m = L
  <2>1. d + (m - L) = d /\ m <= L /\ d \in 0 .. L /\ \A i \in 1 .. d : i \in 1 .. L - 1 /\ i <= d
    BY <1>1, <1>2, <1>3
  <2>2. t.dirs \cup {Upto(p, i) : i \in 1 .. d} = t.dirs
    BY <1>2, <2>1
  <2>3. Grown(t, p, d).dirs = t.dirs \cup {Upto(p, i) : i \in 1 .. d}
        /\ \A n : IsTree(n) /\ n.dirs = Grown(t, p, d).dirs /\ DOMAIN n.files = DOMAIN t.files
                    /\ SameFiles(t, n, DOMAIN t.files) => n = Grown(t, p, d)
    BY <2>1, GrownFacts DEF Sound, Whole, L
  <2>4. t = Grown(t, p, d)
    BY <2>2, <2>3 DEF SameFiles, Sound, Whole
  <2>5. TreeAt(op, seen, t) = t
    BY <2>1 DEF TreeAt, m, L
  <2>6. QED
    BY <2>1, <2>4, <2>5 DEF d, m, L
<1>4. CASE m # L
  <2>1. ~(m <= L)
    BY <1>1, <1>4
  <2>2. QED
    BY <2>1 DEF TreeAt, Grown, d, m, L
<1>5. QED
  BY <1>3, <1>4

\* A directory that a mkdir has still to make is not there, and what it lies in is.
LEMMA NextIsMissing ==
  ASSUME NEW t, Sound(t), NEW p \in Paths \ {Root}, ~Exists(t, p),
         \A i \in 1 .. Len(p) - 1 : ~IsFile(t, Upto(p, i)),
         NEW k \in Nat, k >= Depth(t, p), k + 1 <= Len(p)
  PROVE  Allowed(Grown(t, p, k), Ask("mkdir", Upto(p, k + 1)))
<1> DEFINE L == Len(p)
           U(i) == Upto(p, i)
           d == Depth(t, p)
           T == Grown(t, p, k)
           q == U(k + 1)
<1>1. L \in Nat /\ L # 0
  BY ParentFacts
<1>2. d \in 0 .. L - 1 /\ \A i \in 1 .. L - 1 : U(i) \in t.dirs <=> i <= d
  BY DepthFacts DEF Sound
<1>3. /\ k \in 0 .. L /\ k + 1 \in 1 .. L /\ k + 1 \in 0 .. L /\ (k + 1) - 1 = k /\ ~(k + 1 <= d)
      /\ k + 1 = L \/ k + 1 \in 1 .. L - 1
      /\ k # 0 => k \in 1 .. k
      /\ \A i \in 1 .. k : i \in 0 .. L /\ i # k + 1
  BY <1>1, <1>2
<1>4. /\ \A i \in 0 .. L : U(i) \in Paths
      /\ \A i \in 1 .. L : U(i) # Root /\ Parent(U(i)) = U(i - 1)
      /\ U(0) = Root /\ U(L) = p
      /\ \A i, j \in 0 .. L : U(i) = U(j) => i = j
  BY UptoFacts
<1>5. T.files = t.files /\ T.dirs = t.dirs \cup {U(i) : i \in 1 .. k}
  BY <1>3, GrownFacts DEF Sound, Whole
<1> HIDE DEF T, d, L, U
<1>6. q \notin t.dirs /\ ~IsFile(t, q)
  <2>1. CASE k + 1 = L
    BY <1>4, <2>1 DEF Exists, IsDir
  <2>2. CASE k + 1 \in 1 .. L - 1
    BY <1>2, <1>3, <2>2 DEF L, U
  <2>3. QED
    BY <1>3, <2>1, <2>2
<1>7. q # Root /\ Parent(q) = U(k)
  BY <1>3, <1>4
<1>8. q \notin T.dirs
  BY <1>3, <1>4, <1>5, <1>6
<1>9. IsDir(T, Parent(q))
  BY <1>3, <1>4, <1>5, <1>7 DEF IsDir
<1>10. ~Exists(T, q)
  BY <1>5, <1>6, <1>7, <1>8 DEF Exists, IsDir, IsFile
<1> HIDE DEF q
<1>11. Ask("mkdir", q).tool = "mkdir" /\ Ask("mkdir", q).path = q
  BY DEF Ask
<1>12. Allowed(T, Ask("mkdir", q))
  BY <1>9, <1>10, <1>11 DEF Allowed
<1>13. QED
  BY <1>12 DEF q, T, U

\* With its last directory a mkdir is done, and has done what it means.
LEMMA MkdirMade ==
  ASSUME NEW op, IsOp(op), op.name = "mkdir", NEW t, Sound(t),
         NEW seen \in Seq(Answers), seen # <<>>, Knows(op, seen, t), Len(seen) >= Len(op.path),
         NEW n, NEW a, Turns(TreeAt(op, seen, t), Perform(op, seen), n, a)
  PROVE  Advances(op, seen, t, n, a)
<1> DEFINE p == op.path
           m == Len(seen)
           L == Len(p)
           U(i) == Upto(p, i)
           s == Append(seen, a)
           d == Depth(t, p)
           k == d + (m - L)
           T == Grown(t, p, k)
           N == Grown(t, p, k + 1)
           c == Ask("mkdir", U(k + 1))
<1>1. /\ a \in Answers /\ p \in Paths \ {Root} /\ Whole(t) /\ IsTree(t)
      /\ StatOf(t, p, seen[1]) /\ ~Exists(t, p)
  BY DEF Knows, Turns, Exists, IsDir, IsOp, Sound, Whole
<1>2. L \in Nat /\ L # 0 /\ m \in Nat /\ m >= L
  BY <1>1, ParentFacts, SeenNow
<1>3. d \in 0 .. L - 1 /\ m - L < L - d
  <2>1. d \in 0 .. L - 1
    BY <1>1, DepthFacts
  <2>2. m > L => m - L < L - d
    BY DEF Knows
  <2> HIDE DEF d, m, L
  <2>3. QED
    BY <1>2, <2>1, <2>2
<1>4. ASSUME NEW i \in 1 .. L - 1
      PROVE  /\ StatOf(t, U(i), seen[i + 1]) /\ ~IsFile(t, U(i))
             /\ "parents" \in op.flags \/ IsDir(t, U(i))
             /\ i + 1 \in 1 .. m
  <2>1. i + 1 <= Len(seen) /\ i + 1 \in 1 .. m
    BY <1>2
  <2>2. QED
    BY <2>1 DEF Knows
<1>5. seen[1].kind = "none"
  BY <1>1, StatOfKind, KindFacts
<1>6. Perform(op, seen) = c
  <2>1. \A i \in 1 .. Len(op.path) - 1 : /\ StatOf(t, Upto(op.path, i), seen[i + 1])
                                         /\ ~IsFile(t, Upto(op.path, i))
                                         /\ "parents" \in op.flags \/ IsDir(t, Upto(op.path, i))
    BY <1>4
  <2>2. IF m - L < L - d THEN Perform(op, seen) = Ask("mkdir", Upto(p, d + (m - L) + 1))
        ELSE Perform(op, seen) = Return
    BY <1>1, <1>2, <1>5, <2>1, MkdirMakes
  <2>3. QED
    BY <1>3, <2>2
<1>7. TreeAt(op, seen, t) = T
  BY <1>1, <1>2, <1>3, TreeAtIs
<1> HIDE DEF d, m, L
<1>8. /\ k \in Nat /\ k >= d /\ k + 1 <= L /\ k \in 0 .. L /\ k + 1 \in 0 .. L
      /\ (m + 1) - L = (m - L) + 1 /\ d + ((m - L) + 1) = k + 1
      /\ (m - L) + 1 < L - d \/ k + 1 = L
      /\ (m - L) + 1 < L - d => ~(k + 1 = L)
      /\ \A i \in 1 .. k + 1 : i \in 1 .. k \/ i = k + 1
      /\ \A i \in 1 .. k : i \in 1 .. k + 1
      /\ k + 1 \in 1 .. k + 1
  BY <1>2, <1>3
<1> HIDE DEF k
<1>9. Allowed(T, c)
  BY <1>1, <1>4, <1>8, NextIsMissing DEF d, L
<1>10. /\ IsTree(T) /\ T.files = t.files /\ T.dirs = t.dirs \cup {U(i) : i \in 1 .. k}
       /\ N.dirs = t.dirs \cup {U(i) : i \in 1 .. k + 1}
       /\ \A x : IsTree(x) /\ x.dirs = N.dirs /\ DOMAIN x.files = DOMAIN t.files
                   /\ SameFiles(t, x, DOMAIN t.files) => x = N
  BY <1>1, <1>8, GrownFacts DEF L
<1>11. c.tool = "mkdir" /\ c.path = U(k + 1)
  BY DEF Ask
<1>12. Turns(T, c, n, a)
  BY <1>6, <1>7
<1> HIDE DEF T, N, c, U
<1>13. a.kind \notin Errno /\ Sound(n) /\ Makes(T, n, U(k + 1))
  BY <1>9, <1>11, <1>12 DEF Turns, Shown
<1>14. n = N
  <2>1. n.dirs = N.dirs
    <3>1. n.dirs = T.dirs \cup {U(k + 1)}
      BY <1>13 DEF Makes
    <3>2. {U(i) : i \in 1 .. k + 1} = {U(i) : i \in 1 .. k} \cup {U(k + 1)}
      BY <1>8
    <3>3. QED
      BY <1>10, <3>1, <3>2
  <2>2. DOMAIN n.files = DOMAIN t.files /\ SameFiles(t, n, DOMAIN t.files) /\ IsTree(n)
    BY <1>10, <1>13 DEF Makes, SameFiles, Sound, Whole
  <2>3. QED
    BY <1>10, <2>1, <2>2
<1>15. /\ s # <<>> /\ Len(s) = m + 1 /\ s[1] = seen[1] /\ \A i \in 1 .. m : s[i] = seen[i]
       /\ Len(s) \in Nat /\ Len(s) >= L /\ Len(s) > L /\ Len(s) - L = (m - L) + 1
  <2>1. s # <<>> /\ Len(s) = m + 1 /\ s[1] = seen[1] /\ \A i \in 1 .. m : s[i] = seen[i]
    BY <1>1, SeenNow DEF m
  <2> HIDE DEF s
  <2>2. QED
    BY <1>2, <2>1
<1> HIDE DEF s
<1>16. \A i \in 1 .. L - 1 : /\ StatOf(t, U(i), s[i + 1]) /\ ~IsFile(t, U(i))
                             /\ "parents" \in op.flags \/ IsDir(t, U(i))
  <2>1. ASSUME NEW i \in 1 .. L - 1
        PROVE  /\ StatOf(t, U(i), s[i + 1]) /\ ~IsFile(t, U(i))
               /\ "parents" \in op.flags \/ IsDir(t, U(i))
    <3>1. s[i + 1] = seen[i + 1]
      BY <1>4, <1>15
    <3>2. QED
      BY <1>4, <3>1
  <2>2. QED
    BY <2>1
<1>17. IF (m - L) + 1 < L - d THEN Perform(op, s) = Ask("mkdir", U(d + ((m - L) + 1) + 1))
       ELSE Perform(op, s) = Return
  <2>1. IF Len(s) - L < L - d THEN Perform(op, s) = Ask("mkdir", U(d + (Len(s) - L) + 1))
        ELSE Perform(op, s) = Return
    BY <1>1, <1>5, <1>15, <1>16, MkdirMakes DEF L, d, U
  <2>2. QED
    BY <1>15, <2>1
<1>18. CASE (m - L) + 1 < L - d
  <2>1. Perform(op, s).tool # "none"
    <3>1. \A x : Ask("mkdir", x).tool # "none"
      BY DEF Ask
    <3>2. QED
      BY <1>17, <1>18, <3>1
  <2>2. Knows(op, s, t)
    BY <1>1, <1>15, <1>16, <1>18 DEF Knows, L, d, U
  <2>3. TreeAt(op, s, t) = N
    <3>1. TreeAt(op, s, t) = Grown(t, p, d + (Len(s) - L))
      BY <1>1, <1>15, <1>18, TreeAtIs DEF L, d
    <3>2. QED
      BY <1>8, <1>15, <3>1 DEF N
  <2>4. QED
    BY <1>13, <1>14, <2>1, <2>2, <2>3 DEF Advances, s
<1>19. CASE ~((m - L) + 1 < L - d)
  <2>1. Perform(op, s) = Return /\ k + 1 = L
    BY <1>8, <1>17, <1>19
  <2>2. /\ Upwards(p) = {U(i) : i \in 1 .. L} /\ U(L) = p
        /\ \A i \in 1 .. L : Parent(U(i)) = U(i - 1)
        /\ U(0) = Root
    BY <1>1, UptoFacts DEF U, L
  <2>3. \A r \in Upwards(p) : ~IsFile(t, r)
    <3>1. \A i \in 1 .. L : i \in 1 .. L - 1 \/ i = L
      BY <1>2
    <3>2. ~IsFile(t, U(L))
      BY <1>1, <2>2 DEF Exists
    <3>3. QED
      BY <1>16, <2>2, <3>1, <3>2
  <2>4. "parents" \in op.flags \/ IsDir(t, Parent(p))
    <3>1. Parent(p) = U(L - 1) /\ (L - 1 = 0 \/ L - 1 \in 1 .. L - 1)
      <4>1. L \in 1 .. L /\ (L - 1 = 0 \/ L - 1 \in 1 .. L - 1)
        BY <1>2
      <4>2. QED
        BY <2>2, <4>1
    <3>2. QED
      BY <1>16, <2>2, <3>1 DEF IsDir
  <2>5. Succeeds(op, t)
    BY <1>1, <2>3, <2>4, SucceedsIs
  <2>6. Effect(op, t) = [t EXCEPT !.dirs = t.dirs \cup Upwards(p)]
    BY EffectIs
  <2>7. n = Effect(op, t)
    BY <1>14, <2>1, <2>2, <2>6 DEF N, Grown, U
  <2>8. Concludes(op, t, n, a)
    BY <1>13, <2>5, <2>7 DEF Concludes
  <2>9. QED
    BY <2>1, <2>8, EndsWell DEF s
<1>20. QED
  BY <1>18, <1>19
----------------------------------------------------------------------------
(* Every operation advances *)

\* Whatever the operation, its next call takes it to its end or one answer further.
LEMMA OpAdvances ==
  ASSUME NEW op, IsOp(op), NEW t, Sound(t),
         NEW seen \in Seq(Answers), Knows(op, seen, t), Perform(op, seen).tool # "none",
         NEW n, NEW a, Turns(TreeAt(op, seen, t), Perform(op, seen), n, a)
  PROVE  Advances(op, seen, t, n, a)
<1>1. CASE op.name # "mkdir"
  <2>1. TreeAt(op, seen, t) = t
    BY <1>1 DEF TreeAt
  <2>2. Turns(t, Perform(op, seen), n, a)
    BY <2>1
  <2>3. op.name \in {"exists", "stat", "open", "read", "write", "append", "iterdir", "unlink", "rmdir",
                     "rename"}
    BY <1>1 DEF IsOp, Operations
  <2>4. QED
    BY <2>2, <2>3, ReadAdvances, IterdirAdvances, UnlinkAdvances, RenameAdvances, LookAdvances,
       WriteAdvances, RmdirAdvances, OpenAdvances, AppendAdvances
<1>2. CASE op.name = "mkdir"
  <2>1. Len(seen) \in Nat /\ Len(op.path) \in Nat
    BY LenProperties DEF IsOp, Paths
  <2>2. CASE seen = <<>>
    <3>1. Len(seen) = 0
      BY <2>2, EmptySeq
    <3>2. Len(seen) <= Len(op.path)
      BY <2>1, <3>1
    <3>3. TreeAt(op, seen, t) = t
      BY <3>2 DEF TreeAt
    <3>4. QED
      BY <1>2, <2>2, <3>3, MkdirStarts
  <2>3. CASE seen # <<>> /\ Len(seen) < Len(op.path)
    <3>1. Len(seen) <= Len(op.path)
      BY <2>1, <2>3
    <3>2. TreeAt(op, seen, t) = t
      BY <3>1 DEF TreeAt
    <3>3. QED
      BY <1>2, <2>3, <3>2, MkdirLooks
  <2>4. CASE seen # <<>> /\ Len(seen) >= Len(op.path)
    BY <1>2, <2>4, MkdirMade
  <2>5. QED
    BY <2>1, <2>2, <2>3, <2>4
<1>3. QED
  BY <1>1, <1>2

\* What an operation may carry out twice makes no call that is refused the second time.
LEMMA RepeatableCalls ==
  ASSUME NEW op, op.name \in Repeatable, NEW seen
  PROVE  Perform(op, seen).tool \notin {"mkdir", "delete", "rename"}
<1> DEFINE Gentle(call) == call.tool \in {"none", "stat", "read", "list", "write"}
           once(call) == IF Len(seen) = 1 THEN call ELSE Return
<1>1. /\ \A p : Gentle(Ask("stat", p)) /\ Gentle(Ask("read", p)) /\ Gentle(Ask("list", p))
      /\ \A p, size : Gentle(Put(p, size))
      /\ \A e : Gentle(End(e))
      /\ Gentle(Return)
  BY DEF Ask, Put, End, Return
<1> HIDE DEF Gentle
<1>2. \A wrong, errno, next : Gentle(next) => Gentle(Existing(op, seen, wrong, errno, next))
  BY <1>1 DEF Existing
<1>3. \A call : Gentle(call) => Gentle(once(call))
  BY <1>1
<1>4. Gentle(Open(op, seen))
  BY <1>1 DEF Open
<1>5. Gentle(AppendTo(op, seen))
  BY <1>1 DEF AppendTo
<1> HIDE DEF once
<1>6. /\ op.name = "exists" => Perform(op, seen) = IF seen = <<>> THEN Ask("stat", op.path) ELSE Return
      /\ op.name = "stat" => Perform(op, seen) = Existing(op, seen, "nothing", "", Return)
      /\ op.name = "open" => Perform(op, seen) = Open(op, seen)
      /\ op.name = "read" =>
           Perform(op, seen) = Existing(op, seen, "dir", "EISDIR", once(Ask("read", op.path)))
      /\ op.name = "write" =>
           Perform(op, seen) = IF seen = <<>> THEN Put(op.path, op.data) ELSE Return
      /\ op.name = "append" => Perform(op, seen) = AppendTo(op, seen)
      /\ op.name = "iterdir" =>
           Perform(op, seen) = Existing(op, seen, "file", "ENOTDIR", once(Ask("list", op.path)))
  BY DEF Perform, once
<1>7. op.name \in {"exists", "stat", "open", "read", "write", "append", "iterdir"}
  BY DEF Repeatable, Operations
<1>8. Gentle(Perform(op, seen))
  <2>1. CASE op.name \in {"exists", "write"}
    BY <1>1, <1>6, <2>1
  <2>2. CASE op.name \in {"stat", "read", "iterdir"}
    BY <1>1, <1>2, <1>3, <1>6, <2>2
  <2>3. CASE op.name \in {"open", "append"}
    BY <1>4, <1>5, <1>6, <2>3
  <2>4. QED
    BY <1>7, <2>1, <2>2, <2>3
<1>9. QED
  BY <1>8 DEF Gentle
----------------------------------------------------------------------------
(* An operation that is carried out alone *)

\* Where the operation of a lone script is that began on the mount b, when the mount is t.
Progress(x, b, t) ==
  LET T == TreeAt(x.op, x.seen, b)
      call == Perform(x.op, x.seen)
      done == Call(T, call) IN
  /\ Knows(x.op, x.seen, b) /\ Sound(T)
  /\ x.stage = "call" => t = T
  /\ x.stage = "sent" => ~InMemory /\ (t = T \/ (scene.lossy /\ t = done.tree))
  /\ x.stage = "run" =>
       /\ ~InMemory /\ t = done.tree
       /\ \/ x.reply = done.answer
          \/ scene.lossy /\ x.reply.kind \in Errno /\ call.tool \in {"mkdir", "delete", "rename"}

\* How it has ended.
Judged(op, out, b, t) ==
  /\ out = "ok" => Succeeds(op, b) /\ t = Effect(op, b)
  /\ out \in Errno /\ (scene.lossy => op.name \in Repeatable) => ~Succeeds(op, b) /\ t = b
  /\ out \in {"denied", "unseeded"} => op.name = "mkdir" \/ t = b
  /\ out = "lost" => op.name = "mkdir" \/ t \in {b, Effect(op, b)}

Fares(x, b, t) ==
  /\ x.stage \in {"seed", "seeding"} => b = t
  /\ x.stage \in Calling => Progress(x, b, t)
  /\ x.stage = "ready" /\ x.out # "none" => Judged(x.op, x.out, b, t)

WholeInv ==
  \A s \in Script : scene.scripts = {s} => Sound(before) /\ Fares(script[s], before, tree)

\* A judgement of given mounts does not depend on anything that changes.
LEMMA SameScene ==
  ASSUME scene' = scene
  PROVE  /\ \A t : Sound(t)' <=> Sound(t)
         /\ \A x, b, t : Fares(x, b, t)' <=> Fares(x, b, t)
<1>1. InMemory' <=> InMemory
  BY DEF InMemory
<1>2. \A t : Sound(t)' <=> Sound(t)
  BY <1>1 DEF Sound, InBudget
<1>3. \A t, put : OverBudget(t, put)' <=> OverBudget(t, put)
  BY DEF OverBudget
<1>4. \A t, p, size : Write(t, p, size)' = Write(t, p, size)
  BY <1>3 DEF Write
<1>5. \A t, c : Call(t, c)' = Call(t, c)
  BY <1>4 DEF Call
<1>6. \A t, p, size : CanHold(t, p, size)' <=> CanHold(t, p, size)
  BY <1>1 DEF CanHold
<1>7. \A op, t : Succeeds(op, t)' <=> Succeeds(op, t)
  BY <1>6 DEF Succeeds
<1>8. \A x, b, t : Progress(x, b, t)' <=> Progress(x, b, t)
  BY <1>1, <1>2, <1>5 DEF Progress
<1>9. \A op, out, b, t : Judged(op, out, b, t)' <=> Judged(op, out, b, t)
  BY <1>7 DEF Judged
<1>10. \A x, b, t : Fares(x, b, t)' <=> Fares(x, b, t)
  BY <1>8, <1>9 DEF Fares
<1>11. QED
  BY <1>2, <1>10

LEMMA RestingFares ==
  ASSUME NEW op, NEW out, NEW b, NEW t, out # "none" => Judged(op, out, b, t)
  PROVE  Fares(Resting(op, out), b, t)
<1> DEFINE y == Resting(op, out)
<1>1. y = [Idle EXCEPT !.op = op, !.out = out]
  BY DEF Resting
<1> HIDE DEF y
<1>2. y.stage = "ready" /\ y.op = op /\ y.out = out
  BY <1>1 DEF Idle
<1>3. Fares(y, b, t)
  BY <1>2 DEF Fares, Calling
<1>4. QED
  BY <1>3 DEF y

LEMMA GoingFares ==
  ASSUME NEW op, NEW seen, NEW b, NEW t, Sound(t),
         IF Perform(op, seen).tool = "none" THEN Outcome(op, b, Perform(op, seen).out, t)
         ELSE Knows(op, seen, b) /\ t = TreeAt(op, seen, b)
  PROVE  Fares(Going(op, seen), b, t)
<1> DEFINE next == Perform(op, seen)
           y == Going(op, seen)
<1>1. CASE next.tool = "none"
  <2>1. y = Resting(op, next.out)
    BY <1>1, Zenon DEF Going, Resting
  <2>2. /\ next.out \in Errno \cup {"ok"}
        /\ next.out = "ok" => Succeeds(op, b) /\ t = Effect(op, b)
        /\ next.out \in Errno => ~Succeeds(op, b) /\ t = b
    BY <1>1 DEF Outcome
  <2>3. next.out \notin {"denied", "unseeded", "lost"}
    BY <2>2 DEF Errno
  <2> HIDE DEF next
  <2>4. Judged(op, next.out, b, t)
    BY <2>2, <2>3 DEF Judged
  <2>5. QED
    BY <2>1, <2>4, RestingFares
<1>2. CASE next.tool # "none"
  <2>1. y = [Idle EXCEPT !.stage = "call", !.op = op, !.seen = seen]
    BY <1>2, Zenon DEF Going
  <2>2. Knows(op, seen, b) /\ t = TreeAt(op, seen, b)
    BY <1>2
  <2> HIDE DEF y, next
  <2>3. y.stage = "call" /\ y.op = op /\ y.seen = seen
    BY <2>1 DEF Idle
  <2>4. Progress(y, b, t)
    BY <2>2, <2>3 DEF Progress
  <2>5. Fares(y, b, t)
    BY <2>3, <2>4 DEF Fares
  <2>6. QED
    BY <2>5 DEF y
<1>3. QED
  BY <1>1, <1>2

\* An answer that advances an operation leaves it where it should be.
LEMMA AfterFares ==
  ASSUME NEW x, NEW b, NEW t, Sound(t), NEW a, Advances(x.op, x.seen, b, t, a)
  PROVE  Fares(After(x, a), b, t)
<1>1. CASE a.kind \in Errno
  <2>1. After(x, a) = Resting(x.op, a.kind)
    BY <1>1, Zenon DEF After
  <2>2. ~Succeeds(x.op, b) /\ t = b
    BY <1>1 DEF Advances
  <2>3. a.kind \notin {"ok", "denied", "unseeded", "lost"}
    BY <1>1 DEF Errno
  <2>4. Judged(x.op, a.kind, b, t)
    BY <2>2, <2>3 DEF Judged
  <2>5. QED
    BY <2>1, <2>4, RestingFares
<1>2. CASE a.kind \notin Errno
  <2>1. After(x, a) = Going(x.op, Append(x.seen, a))
    BY <1>2, Zenon DEF After
  <2>2. QED
    BY <1>2, <2>1, GoingFares DEF Advances
<1>3. QED
  BY <1>1, <1>2

\* An operation begins with a call, or is over at once: a rmdir of the root.
LEMMA StartFares ==
  ASSUME NEW op, IsOp(op), NEW b, Sound(b)
  PROVE  Fares(Going(op, <<>>), b, b)
<1>1. Len(<<>>) = 0 /\ Len(op.path) \in Nat
  BY EmptySeq, LenProperties DEF IsOp, Paths
<1>2. Knows(op, <<>>, b)
  <2>1. ~(Len(<<>>) >= 2) /\ ~(Len(<<>>) > Len(op.path))
    BY <1>1
  <2>2. \A i \in 1 .. Len(op.path) - 1 : ~(i + 1 <= Len(<<>>))
    BY <1>1
  <2>3. QED
    BY <2>1, <2>2 DEF Knows
<1>3. TreeAt(op, <<>>, b) = b
  <2>1. Len(<<>>) <= Len(op.path)
    BY <1>1
  <2>2. QED
    BY <2>1 DEF TreeAt
<1>4. CASE Perform(op, <<>>).tool # "none"
  BY <1>2, <1>3, <1>4, GoingFares
<1>5. CASE Perform(op, <<>>).tool = "none"
  <2>1. op.name = "rmdir" /\ op.path = Root
    <3>1. \A p, size, tool : /\ Ask("stat", p).tool # "none" /\ Put(p, size).tool # "none"
      BY DEF Ask, Put
    <3>2. \A wrong, errno, next : Existing(op, <<>>, wrong, errno, next) = Ask("stat", op.path)
      BY Zenon DEF Existing
    <3>3. /\ Open(op, <<>>) = Ask("stat", op.path) /\ AppendTo(op, <<>>) = Ask("stat", op.path)
      BY Zenon DEF Open, AppendTo
    <3>4. MakeDir(op, <<>>) = Ask("stat", op.path)
      BY <1>1, MakeDirStarts
    <3>5. op.path # Root => RemoveDir(op, <<>>) = Ask("stat", op.path)
      BY <3>2, Zenon DEF RemoveDir
    <3>6. op.name \in Operations
      BY DEF IsOp
    <3>7. op.name = "rmdir" \/ Perform(op, <<>>) \in {Ask("stat", op.path), Put(op.path, op.data)}
      BY <3>2, <3>3, <3>4, <3>6 DEF Perform, Operations
    <3>8. op.name = "rmdir" => Perform(op, <<>>) = RemoveDir(op, <<>>)
      BY DEF Perform
    <3>9. QED
      BY <1>5, <3>1, <3>5, <3>7, <3>8
  <2>2. Perform(op, <<>>) = End("EACCES")
    <3>1. Perform(op, <<>>) = RemoveDir(op, <<>>)
      BY <2>1 DEF Perform
    <3>2. QED
      BY <2>1, <3>1, Zenon DEF RemoveDir
  <2>3. ~Succeeds(op, b)
    <3>1. op.path \notin b.dirs
      BY <2>1 DEF Sound, Whole, IsTree
    <3>2. QED
      BY <2>1, <3>1, SucceedsIs
  <2>4. Outcome(op, b, Perform(op, <<>>).out, b)
    <3>1. Perform(op, <<>>).out = "EACCES"
      BY <2>2, EndIs
    <3>2. "EACCES" \in Errno /\ "EACCES" # "ok"
      BY DEF Errno
    <3>3. QED
      BY <2>3, <3>1, <3>2 DEF Outcome
  <2>5. QED
    BY <1>5, <2>4, GoingFares
<1>6. QED
  BY <1>4, <1>5

\* The call of an operation that is carried out alone: what it does and answers on the
\* mount the operation has got to.
LEMMA CallFares ==
  ASSUME NEW x, NEW tries, IsScript(x, tries), x.stage \in Calling, NEW b, Sound(b), NEW t, Progress(x, b, t)
  PROVE  LET T == TreeAt(x.op, x.seen, b)
             call == Perform(x.op, x.seen)
             done == Call(T, call) IN
         /\ IsCall(call) /\ Sound(T) /\ done.answer \in Answers /\ Sound(done.tree)
         /\ Advances(x.op, x.seen, b, done.tree, done.answer)
<1> DEFINE T == TreeAt(x.op, x.seen, b)
           call == Perform(x.op, x.seen)
           done == Call(T, call)
<1>1. /\ IsOp(x.op) /\ x.seen \in Seq(Answers) /\ call.tool # "none"
      /\ x.op.name = "mkdir" /\ x.op.path = Root => x.seen = <<>>
      /\ Knows(x.op, x.seen, b) /\ Sound(T)
  BY DEF IsScript, Progress
<1>2. IsNext(call)
  BY <1>1, PerformTypes
<1>3. IsCall(call)
  BY <1>1, <1>2 DEF IsNext
<1>4. Turns(T, call, done.tree, done.answer)
  <2> HIDE DEF T, call
  <2>1. QED
    BY <1>1, <1>3, CallTurns
<1>5. Advances(x.op, x.seen, b, done.tree, done.answer)
  <2> HIDE DEF done
  <2>1. QED
    BY <1>1, <1>4, OpAdvances
<1> HIDE DEF T, call, done
<1>6. done.answer \in Answers /\ Sound(done.tree)
  BY <1>1, <1>4 DEF Turns
<1>7. QED
  BY <1>1, <1>3, <1>5, <1>6 DEF T, call, done

\* What an operation whose last attempt was lost may have left.
LEMMA LostFares ==
  ASSUME NEW op, op.name # "mkdir", NEW seen, NEW b, NEW t, NEW a, Advances(op, seen, b, t, a)
  PROVE  t \in {b, Effect(op, b)}
<1>1. \A s : TreeAt(op, s, b) = b
  BY DEF TreeAt
<1>2. CASE a.kind \in Errno
  BY <1>2 DEF Advances
<1>3. CASE a.kind \notin Errno
  <2>1. CASE Perform(op, Append(seen, a)).tool = "none"
    <3>1. Outcome(op, b, Perform(op, Append(seen, a)).out, t)
      BY <1>3, <2>1 DEF Advances
    <3>2. QED
      BY <3>1 DEF Outcome
  <2>2. CASE Perform(op, Append(seen, a)).tool # "none"
    BY <1>1, <1>3, <2>2 DEF Advances
  <2>3. QED
    BY <2>1, <2>2
<1>4. QED
  BY <1>2, <1>3

LEMMA BeginFares ==
  ASSUME Inv, NEW s \in scene.scripts, Lone, Begin(s)
  PROVE  Sound(before') /\ Fares(script'[s], before', tree')
<1>1. s \in Script /\ scene \in Scenes /\ script = [v \in Script |-> script[v]] /\ Sound(tree)
  BY ScriptFacts DEF Inv
<1>2. PICK op \in scene.ops :
        script' = [script EXCEPT ![s] =
                     IF seeded THEN Going(op, <<>>) ELSE [Idle EXCEPT !.stage = "seed", !.op = op]]
  BY DEF Begin
<1>3. IsOp(op)
  BY <1>1, SceneAssumption DEF SceneAssumption, IsOp, Paths
<1>4. before' = tree /\ tree' = tree
  BY DEF Begin
<1>5. CASE seeded
  <2>1. script'[s] = Going(op, <<>>)
    BY <1>1, <1>2, <1>5
  <2>2. QED
    BY <1>1, <1>3, <1>4, <2>1, StartFares
<1>6. CASE ~seeded
  <2> DEFINE y == [Idle EXCEPT !.stage = "seed", !.op = op]
  <2>1. script'[s] = y
    BY <1>1, <1>2, <1>6
  <2>2. y.stage = "seed"
    BY DEF Idle
  <2> HIDE DEF y
  <2>3. Fares(y, tree, tree)
    BY <2>2 DEF Fares, Calling
  <2>4. QED
    BY <1>1, <1>4, <2>1, <2>3
<1>7. QED
  BY <1>5, <1>6

LEMMA DeniedFares ==
  ASSUME Inv, NEW s \in scene.scripts, Sound(before), Fares(script[s], before, tree), Denied(s)
  PROVE  Sound(before') /\ Fares(script'[s], before', tree')
<1> DEFINE x == script[s]
<1>1. s \in Script /\ script = [v \in Script |-> script[v]]
  BY ScriptFacts DEF Inv
<1>2. script'[s] = Resting(x.op, "denied") /\ UNCHANGED <<tree, before>>
  BY <1>1, EndedIs DEF Denied
<1>3. x.op.name = "mkdir" \/ tree = before
  <2>1. CASE x.stage = "seed"
    BY <2>1 DEF Fares
  <2>2. CASE x.stage = "call"
    <3>1. tree = TreeAt(x.op, x.seen, before)
      BY <2>2 DEF Fares, Calling, Progress
    <3>2. QED
      BY <3>1 DEF TreeAt
  <2>3. QED
    BY <2>1, <2>2 DEF Denied
<1>4. Judged(x.op, "denied", before, tree)
  BY <1>3 DEF Judged, Errno
<1>5. QED
  BY <1>2, <1>4, RestingFares

LEMMA RunSeedFares ==
  ASSUME Inv, NEW s \in scene.scripts, Sound(before), Fares(script[s], before, tree), RunSeed(s)
  PROVE  Sound(before') /\ Fares(script'[s], before', tree')
<1> DEFINE x == script[s]
           y == [x EXCEPT !.stage = "seeding"]
<1>1. s \in Script /\ script = [v \in Script |-> script[v]] /\ IsScript(x, scene.tries)
  BY ScriptFacts DEF Inv
<1>2. script'[s] = y /\ UNCHANGED <<tree, before>> /\ x.stage = "seed"
  BY <1>1 DEF RunSeed
<1>3. before = tree
  BY <1>2 DEF Fares
<1>4. x = [stage |-> x.stage, op |-> x.op, seen |-> x.seen, reply |-> x.reply, tries |-> x.tries,
           out |-> x.out]
  BY <1>1 DEF IsScript
<1>5. y = [x EXCEPT !.stage = "seeding"]
  OBVIOUS
<1> HIDE DEF x, y
<1>6. y.stage = "seeding"
  BY <1>4, <1>5
<1>7. Fares(y, before, tree)
  BY <1>3, <1>6 DEF Fares, Calling
<1>8. QED
  BY <1>2, <1>7

LEMMA SeededFares ==
  ASSUME SoundSeeds, Inv, NEW s \in scene.scripts, Lone, Sound(before),
         Fares(script[s], before, tree), Seeded(s)
  PROVE  Sound(before') /\ Fares(script'[s], before', tree')
<1> DEFINE x == script[s]
           n == Apply(tree, [NoChange EXCEPT !.mkdirs = AsGiven.dirs, !.put = scene.seed])
<1>1. /\ s \in Script /\ script = [v \in Script |-> script[v]] /\ IsOp(x.op) /\ scene \in Scenes
      /\ x.stage = "seeding"
  BY ScriptFacts DEF Inv, Seeded
<1>2. tree = Nothing
  BY <1>1 DEF Inv, SeedInv
<1>3. CASE OverBudget(tree, scene.seed)
  <2>1. script' = Ended(s, "unseeded") /\ UNCHANGED <<tree, before>>
    BY <1>3, Zenon DEF Seeded
  <2>2. script'[s] = Resting(x.op, "unseeded")
    BY <1>1, <2>1, EndedIs
  <2>3. before = tree
    BY <1>1 DEF Fares
  <2>4. Judged(x.op, "unseeded", before, tree)
    BY <2>3 DEF Judged, Errno
  <2>5. QED
    BY <2>1, <2>2, <2>4, RestingFares
<1>4. CASE ~OverBudget(tree, scene.seed)
  <2> DEFINE y == Going(x.op, <<>>)
  <2>1. /\ tree' = n /\ script' = [script EXCEPT ![s] = y]
        /\ before' = IF Lone THEN tree' ELSE before
    BY <1>4, Zenon DEF Seeded
  <2>2. Sound(n)
    BY <1>1, <1>2, <1>4, LoadingIsSound
  <2>3. Fares(y, n, n)
    <3> HIDE DEF n
    <3>1. QED
      BY <1>1, <2>2, StartFares
  <2> HIDE DEF x, y, n
  <2>4. script'[s] = y /\ before' = n
    BY <1>1, <2>1
  <2>5. QED
    BY <2>1, <2>2, <2>3, <2>4
<1>5. QED
  BY <1>3, <1>4

LEMMA CallMemoryFares ==
  ASSUME Inv, NEW s \in scene.scripts, Sound(before), Fares(script[s], before, tree), CallMemory(s)
  PROVE  Sound(before') /\ Fares(script'[s], before', tree')
<1> DEFINE x == script[s]
           T == TreeAt(x.op, x.seen, before)
           done == Call(T, Perform(x.op, x.seen))
<1>1. /\ s \in Script /\ script = [v \in Script |-> script[v]] /\ IsScript(x, scene.tries)
      /\ x.stage = "call" /\ x.stage \in Calling
  BY ScriptFacts DEF Inv, CallMemory, Calling
<1>2. Progress(x, before, tree) /\ tree = T
  BY <1>1 DEF Fares, Progress
<1>3. /\ Sound(done.tree) /\ Advances(x.op, x.seen, before, done.tree, done.answer)
  BY <1>1, <1>2, CallFares
<1>4. before' = before /\ tree' = done.tree /\ script' = [script EXCEPT ![s] = After(x, done.answer)]
  BY <1>2, AnsweredIs DEF CallMemory, NextCall
<1> HIDE DEF x, T, done
<1>5. script'[s] = After(x, done.answer)
  BY <1>1, <1>4
<1>6. Fares(After(x, done.answer), before, done.tree)
  BY <1>3, AfterFares
<1>7. QED
  BY <1>4, <1>5, <1>6

LEMMA SendFares ==
  ASSUME Inv, NEW s \in scene.scripts, Sound(before), Fares(script[s], before, tree), Send(s)
  PROVE  Sound(before') /\ Fares(script'[s], before', tree')
<1> DEFINE x == script[s]
           y == [x EXCEPT !.stage = "sent", !.tries = 1]
<1>1. /\ s \in Script /\ script = [v \in Script |-> script[v]] /\ IsScript(x, scene.tries)
      /\ x.stage = "call" /\ x.stage \in Calling
  BY ScriptFacts DEF Inv, Send, Calling
<1>2. Progress(x, before, tree)
  BY <1>1 DEF Fares
<1>3. script'[s] = y /\ UNCHANGED <<tree, before>> /\ ~InMemory
  BY <1>1 DEF Send
<1>4. x = [stage |-> x.stage, op |-> x.op, seen |-> x.seen, reply |-> x.reply, tries |-> x.tries,
           out |-> x.out]
  BY <1>1 DEF IsScript
<1>5. y = [x EXCEPT !.stage = "sent", !.tries = 1]
  OBVIOUS
<1> HIDE DEF x, y
<1>6. y.stage = "sent" /\ y.op = x.op /\ y.seen = x.seen
  BY <1>4, <1>5
<1>7. Progress(y, before, tree)
  BY <1>1, <1>2, <1>3, <1>6 DEF Progress
<1>8. Fares(y, before, tree)
  BY <1>6, <1>7 DEF Fares
<1>9. QED
  BY <1>3, <1>8

LEMMA AttemptFares ==
  ASSUME Inv, NEW s \in scene.scripts, Sound(before), Fares(script[s], before, tree), Attempt(s)
  PROVE  Sound(before') /\ Fares(script'[s], before', tree')
<1> DEFINE x == script[s]
           T == TreeAt(x.op, x.seen, before)
           call == Perform(x.op, x.seen)
           done == Call(T, call)
           now == Call(tree, call)
           y == [x EXCEPT !.stage = "run", !.reply = now.answer]
<1>1. /\ s \in Script /\ script = [v \in Script |-> script[v]] /\ IsScript(x, scene.tries)
      /\ x.stage = "sent" /\ x.stage \in Calling
  BY ScriptFacts DEF Inv, Attempt, Calling
<1>2. /\ Progress(x, before, tree) /\ Knows(x.op, x.seen, before) /\ Sound(T)
      /\ ~InMemory /\ (tree = T \/ (scene.lossy /\ tree = done.tree))
  BY <1>1 DEF Fares, Progress
<1>3. IsCall(call)
  BY <1>1, <1>2, CallFares
<1>4. before' = before /\ tree' = now.tree /\ script' = [script EXCEPT ![s] = y]
  BY DEF Attempt, NextCall
<1>5. x = [stage |-> x.stage, op |-> x.op, seen |-> x.seen, reply |-> x.reply, tries |-> x.tries,
           out |-> x.out]
  BY <1>1 DEF IsScript
<1>6. y = [x EXCEPT !.stage = "run", !.reply = now.answer]
  OBVIOUS
<1>7. /\ now.tree = done.tree
      /\ \/ now.answer = done.answer
         \/ scene.lossy /\ now.answer.kind \in Errno /\ call.tool \in {"mkdir", "delete", "rename"}
  <2>1. CASE tree = T
    BY <2>1
  <2>2. CASE scene.lossy /\ tree = done.tree
    <3>1. /\ Call(done.tree, call).tree = done.tree
          /\ \/ Call(done.tree, call).answer = done.answer
             \/ (call.tool \in {"mkdir", "delete", "rename"} /\ Call(done.tree, call).answer.kind \in Errno)
      <4> HIDE DEF T, call
      <4>1. QED
        BY <1>2, <1>3, CallTwice
    <3>2. now = Call(done.tree, call)
      BY <2>2
    <3> HIDE DEF now, done
    <3>3. QED
      BY <2>2, <3>1, <3>2
  <2>3. QED
    BY <1>2, <2>1, <2>2
<1>8. script'[s] = y
  BY <1>1, <1>4
<1> HIDE DEF x, y, now
<1>9. y.stage = "run" /\ y.op = x.op /\ y.seen = x.seen /\ y.reply = now.answer
  BY <1>5, <1>6
<1>10. Progress(y, before, now.tree)
  BY <1>2, <1>7, <1>9 DEF Progress
<1>11. Fares(y, before, now.tree)
  BY <1>9, <1>10 DEF Fares
<1>12. QED
  BY <1>4, <1>8, <1>11

LEMMA LoseFares ==
  ASSUME Inv, NEW s \in scene.scripts, Sound(before), Fares(script[s], before, tree), Lose(s)
  PROVE  Sound(before') /\ Fares(script'[s], before', tree')
<1> DEFINE x == script[s]
           T == TreeAt(x.op, x.seen, before)
           done == Call(T, Perform(x.op, x.seen))
           y == [x EXCEPT !.stage = "sent", !.tries = @ + 1, !.reply = Just("none")]
<1>1. /\ s \in Script /\ script = [v \in Script |-> script[v]] /\ IsScript(x, scene.tries)
      /\ x.stage = "run" /\ x.stage \in Calling /\ scene.lossy /\ UNCHANGED <<tree, before>>
  BY ScriptFacts DEF Inv, Lose, Calling
<1>2. Progress(x, before, tree) /\ ~InMemory /\ tree = done.tree
  BY <1>1 DEF Fares, Progress
<1>3. CASE x.tries = scene.tries
  <2>1. script'[s] = Resting(x.op, "lost")
    BY <1>1, <1>3, EndedIs DEF Lose
  <2>2. Advances(x.op, x.seen, before, done.tree, done.answer)
    BY <1>1, <1>2, CallFares
  <2> HIDE DEF x, done
  <2>3. x.op.name = "mkdir" \/ tree \in {before, Effect(x.op, before)}
    BY <1>2, <2>2, LostFares
  <2>4. Judged(x.op, "lost", before, tree)
    BY <2>3 DEF Judged, Errno
  <2>5. QED
    BY <1>1, <2>1, <2>4, RestingFares DEF x
<1>4. CASE x.tries # scene.tries
  <2>1. script'[s] = y
    BY <1>1, <1>4 DEF Lose
  <2>2. x = [stage |-> x.stage, op |-> x.op, seen |-> x.seen, reply |-> x.reply, tries |-> x.tries,
             out |-> x.out]
    BY <1>1 DEF IsScript
  <2>3. y = [x EXCEPT !.stage = "sent", !.tries = x.tries + 1, !.reply = Just("none")]
    OBVIOUS
  <2> HIDE DEF x, y
  <2>4. y.stage = "sent" /\ y.op = x.op /\ y.seen = x.seen
    BY <2>2, <2>3
  <2>5. Progress(y, before, tree)
    BY <1>1, <1>2, <2>4 DEF Progress, T, done
  <2>6. Fares(y, before, tree)
    BY <2>4, <2>5 DEF Fares
  <2>7. QED
    BY <1>1, <2>1, <2>6
<1>5. QED
  BY <1>3, <1>4

LEMMA ReportFares ==
  ASSUME Inv, NEW s \in scene.scripts, Sound(before), Fares(script[s], before, tree), Report(s)
  PROVE  Sound(before') /\ Fares(script'[s], before', tree')
<1> DEFINE x == script[s]
           T == TreeAt(x.op, x.seen, before)
           call == Perform(x.op, x.seen)
           done == Call(T, call)
<1>1. /\ s \in Script /\ script = [v \in Script |-> script[v]] /\ IsScript(x, scene.tries)
      /\ x.stage = "run" /\ x.stage \in Calling
  BY ScriptFacts DEF Inv, Report, Calling
<1>2. /\ Progress(x, before, tree) /\ tree = done.tree
      /\ \/ x.reply = done.answer
         \/ scene.lossy /\ x.reply.kind \in Errno /\ call.tool \in {"mkdir", "delete", "rename"}
  BY <1>1 DEF Fares, Progress
<1>3. Sound(done.tree) /\ Advances(x.op, x.seen, before, done.tree, done.answer)
  BY <1>1, <1>2, CallFares
<1>4. UNCHANGED <<before, tree>> /\ script' = [script EXCEPT ![s] = After(x, x.reply)]
  BY AnsweredIs DEF Report
<1>5. call.tool \in {"mkdir", "delete", "rename"} => x.op.name \notin Repeatable
  BY RepeatableCalls
<1> HIDE DEF x, T, call, done
<1>6. script'[s] = After(x, x.reply)
  BY <1>1, <1>4
<1>7. CASE x.reply = done.answer
  <2>1. Fares(After(x, done.answer), before, done.tree)
    BY <1>3, AfterFares
  <2>2. QED
    BY <1>2, <1>4, <1>6, <1>7, <2>1
<1>8. CASE scene.lossy /\ x.reply.kind \in Errno /\ call.tool \in {"mkdir", "delete", "rename"}
  <2>1. After(x, x.reply) = Resting(x.op, x.reply.kind)
    BY <1>8, Zenon DEF After
  <2>2. x.reply.kind \notin {"ok", "denied", "unseeded", "lost"}
    BY <1>8 DEF Errno
  <2>3. Judged(x.op, x.reply.kind, before, tree)
    BY <1>5, <1>8, <2>2 DEF Judged
  <2>4. QED
    BY <1>4, <1>6, <2>1, <2>3, RestingFares
<1>9. QED
  BY <1>2, <1>7, <1>8

LEMMA InitWhole ==
  ASSUME SoundSeeds, Init
  PROVE  WholeInv
<1>1. ASSUME NEW s \in Script
      PROVE  Fares(script[s], before, tree)
  <2>1. script[s].stage = "ready" /\ script[s].out = "none"
    BY DEF Init, Idle
  <2>2. QED
    BY <2>1 DEF Fares, Calling
<1>2. Sound(before)
  BY EmptyIsSound DEF Init
<1>3. QED
  BY <1>1, <1>2 DEF WholeInv

\* A step of the lone script keeps the judgement.
LEMMA NextWhole ==
  ASSUME SoundSeeds, Inv, WholeInv, [Next]_vars
  PROVE  WholeInv'
<1>1. CASE UNCHANGED vars
  <2>1. UNCHANGED <<scene, tree, script, before>>
    BY <1>1 DEF vars
  <2>2. QED
    BY <2>1, SameScene DEF WholeInv
<1>2. CASE Next
  <2>1. PICK s \in scene.scripts :
          \/ Begin(s) \/ Denied(s) \/ RunSeed(s) \/ Seeded(s)
          \/ CallMemory(s) \/ Send(s) \/ Attempt(s) \/ Lose(s) \/ Report(s)
    BY <1>2 DEF Next
  <2>2. scene' = scene /\ s \in Script
    BY <2>1, ScriptFacts
       DEF Begin, Denied, RunSeed, Seeded, CallMemory, Send, Attempt, Lose, Report
  <2>3. SUFFICES ASSUME NEW u \in Script, scene.scripts = {u}
                 PROVE  Sound(before)' /\ Fares(script[u], before, tree)'
    BY <2>2 DEF WholeInv
  <2>4. u = s /\ Lone
    BY <2>1, <2>3 DEF Lone
  <2>5. Sound(before) /\ Fares(script[s], before, tree)
    BY <2>2, <2>3, <2>4 DEF WholeInv
  <2>6. Sound(before') /\ Fares(script'[s], before', tree')
    BY <2>1, <2>4, <2>5, BeginFares, DeniedFares, RunSeedFares, SeededFares, CallMemoryFares,
       SendFares, AttemptFares, LoseFares, ReportFares
  <2>7. QED
    BY <2>2, <2>4, <2>6, SameScene
<1>3. QED
  BY <1>1, <1>2

LEMMA WholeSuffices ==
  ASSUME Inv, WholeInv
  PROVE  OperationIsWhole
<1>1. SUFFICES ASSUME NEW s \in scene.scripts, Lone, script[s].stage = "ready", script[s].out # "none"
               PROVE  Judged(script[s].op, script[s].out, before, tree)
  BY DEF OperationIsWhole, Judged
<1>2. s \in Script /\ scene.scripts = {s}
  BY <1>1, ScriptFacts DEF Lone
<1>3. Fares(script[s], before, tree)
  BY <1>2 DEF WholeInv
<1>4. QED
  BY <1>1, <1>3 DEF Fares

\* Alone on its mount an operation does what it means, whole, or raises where it must
\* and leaves the mount as it was, whatever it is made of: paths of any length, a mkdir of
\* any number of parents, files of any size, a backend in memory within any budget, and
\* activities whose attempts are lost and made again any number of times.
THEOREM WholeTheorem ==
  ASSUME SoundSeeds
  PROVE  Spec => []OperationIsWhole
<1>1. Init => Inv /\ WholeInv
  BY InitInv, InitWhole
<1>2. Inv /\ WholeInv /\ [Next]_vars => (Inv /\ WholeInv)'
  BY StepInv, NextWhole
<1>3. Inv /\ WholeInv => OperationIsWhole
  BY WholeSuffices
<1>4. QED
  BY <1>1, <1>2, <1>3, PTL DEF Spec
=============================================================================
