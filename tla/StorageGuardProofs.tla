------------------------- MODULE StorageGuardProofs -------------------------
(***************************************************************************)
(* Theorems about StorageGuard: the walk over a directory tree is exact    *)
(* while nothing changes, and bounded by what was there while it does.     *)
(*                                                                         *)
(* The argument: what a walk has before it, Ahead, is a set of separate    *)
(* subtrees.  A step takes from it either one entry, which is counted, or  *)
(* what is not there any more.  So the counts are those of what is behind  *)
(* the walk, each file with a size it had.                                 *)
(***************************************************************************)
EXTENDS StorageGuard, InductionLemmas

-----------------------------------------------------------------------------
(* Paths.                                                                  *)

Name == UNION {ToSet(p) : p \in Path}

LEMMA PathIsSequence ==
    ASSUME NEW p \in Path
    PROVE  /\ p \in Seq(Name) /\ Len(p) \in Nat /\ Len(p) > 0
           /\ p \in [1 .. Len(p) -> Name]
<1>1. p \in Seq(Name) /\ Len(p) > 0
  BY PathAssumption DEF Name
<1> QED
  BY <1>1

LEMMA PathExtensional ==
    ASSUME NEW p \in Path, NEW q \in Path, Len(p) = Len(q),
           \A i \in 1 .. Len(p) : p[i] = q[i]
    PROVE  p = q
<1>1. p \in [1 .. Len(p) -> Name] /\ q \in [1 .. Len(p) -> Name]
  BY PathIsSequence
<1> QED
  BY <1>1

\* A prefix, name by name.
LEMMA PrefixByName ==
    ASSUME NEW p \in Path, NEW q \in Path
    PROVE  IsPrefix(p, q) <=> /\ Len(p) <= Len(q)
                              /\ \A i \in 1 .. Len(p) : p[i] = q[i]
<1>1. p \in Seq(Name) /\ Len(p) \in Nat /\ q \in Seq(Name) /\ Len(q) \in Nat
  BY PathIsSequence
<1>2. SubSeq(p, 1, Len(p)) = p
  BY <1>1
<1>3. ASSUME Len(p) <= Len(q)
      PROVE  p = SubSeq(q, 1, Len(p)) <=> \A i \in 1 .. Len(p) : p[i] = q[i]
  <2> DEFINE r == SubSeq(q, 1, Len(p))
  <2>1. r \in Seq(Name) /\ Len(r) = Len(p) /\ \A i \in 1 .. Len(p) : r[i] = q[i]
    BY <1>1, <1>3
  <2> HIDE DEF r
  <2>2. (\A i \in 1 .. Len(p) : p[i] = r[i]) => p = r
    <3>1. p \in [1 .. Len(p) -> Name] /\ r \in [1 .. Len(p) -> Name]
      BY <1>1, <2>1
    <3> QED
      BY <3>1
  <2>3. p = r <=> \A i \in 1 .. Len(p) : p[i] = q[i]
    BY <2>1, <2>2
  <2> QED
    BY <2>3 DEF r
<1> QED
  BY <1>2, <1>3 DEF IsPrefix

LEMMA PrefixOrder ==
    ASSUME NEW p \in Path, NEW q \in Path
    PROVE  /\ IsPrefix(p, p)
           /\ IsPrefix(p, q) => Len(p) <= Len(q) /\ (Len(p) = Len(q) => p = q)
           /\ IsStrictPrefix(p, q) => Len(p) < Len(q)
           /\ IsPrefix(p, q) /\ Len(p) < Len(q) => IsStrictPrefix(p, q)
<1>1. Len(p) \in Nat /\ Len(q) \in Nat
  BY PathIsSequence
<1>2. IsPrefix(p, p)
  BY <1>1, PrefixByName
<1>3. IsPrefix(p, q) => Len(p) <= Len(q) /\ (Len(p) = Len(q) => p = q)
  BY PrefixByName, PathExtensional
<1> QED
  BY <1>1, <1>2, <1>3 DEF IsStrictPrefix

LEMMA PrefixTransitive ==
    ASSUME NEW p \in Path, NEW q \in Path, NEW r \in Path,
           IsPrefix(p, q), IsPrefix(q, r)
    PROVE  IsPrefix(p, r)
<1>1. /\ Len(p) \in Nat /\ Len(q) \in Nat /\ Len(r) \in Nat
      /\ Len(p) <= Len(q) /\ \A i \in 1 .. Len(p) : p[i] = q[i]
      /\ Len(q) <= Len(r) /\ \A i \in 1 .. Len(q) : q[i] = r[i]
  BY PrefixByName, PathIsSequence
<1>2. Len(p) <= Len(r) /\ \A i \in 1 .. Len(p) : p[i] = r[i]
  BY <1>1
<1> QED
  BY <1>2, PrefixByName

\* Of two ancestors of a path one is above the other.
LEMMA AncestorsInLine ==
    ASSUME NEW p \in Path, NEW q \in Path, NEW r \in Path,
           IsPrefix(p, r), IsPrefix(q, r), Len(p) <= Len(q)
    PROVE  IsPrefix(p, q)
<1>1. /\ Len(p) \in Nat /\ Len(q) \in Nat /\ Len(r) \in Nat
      /\ \A i \in 1 .. Len(p) : p[i] = r[i]
      /\ \A i \in 1 .. Len(q) : q[i] = r[i]
  BY PrefixByName, PathIsSequence
<1>2. \A i \in 1 .. Len(p) : p[i] = q[i]
  BY <1>1
<1> QED
  BY <1>2, PrefixByName

\* The ancestor of a path at a given length.
LEMMA AncestorIsDir ==
    ASSUME NEW p \in Path, NEW n \in 1 .. Len(p) - 1
    PROVE  /\ SubSeq(p, 1, n) \in Dir /\ SubSeq(p, 1, n) \in Path
           /\ Len(SubSeq(p, 1, n)) = n
           /\ IsPrefix(SubSeq(p, 1, n), p)
<1>1. SubSeq(p, 1, n) \in Dir /\ SubSeq(p, 1, n) \in Path
  BY PathAssumption, StorageGuardAssumption
<1>2. p \in Seq(Name) /\ Len(p) \in Nat
  BY PathIsSequence
<1> DEFINE e == SubSeq(p, 1, n)
<1>3. Len(e) = n /\ \A i \in 1 .. n : e[i] = p[i]
  BY <1>2
<1> HIDE DEF e
<1>4. e \in Path
  BY <1>1 DEF e
<1>5. IsPrefix(e, p)
  BY <1>2, <1>3, <1>4, PrefixByName
<1> QED
  BY <1>1, <1>3, <1>5 DEF e

LEMMA ParentIsAncestor ==
    ASSUME NEW p \in Path, Len(p) > 1
    PROVE  Parent(p) = SubSeq(p, 1, Len(p) - 1) /\ Len(p) - 1 \in 1 .. Len(p) - 1
BY PathIsSequence DEF Parent, Front

\* The entries of a directory are what is one name longer.
LEMMA EntryIsChild ==
    ASSUME NEW d \in Path, NEW p \in Path
    PROVE  Len(p) = Len(d) + 1 /\ Parent(p) = d <=> Len(p) = Len(d) + 1 /\ IsPrefix(d, p)
<1>1. Len(d) \in Nat /\ Len(d) > 0 /\ Len(p) \in Nat
  BY PathIsSequence
<1> SUFFICES ASSUME Len(p) = Len(d) + 1 PROVE Parent(p) = d <=> IsPrefix(d, p)
  OBVIOUS
<1> DEFINE e == SubSeq(p, 1, Len(p) - 1)
<1>2. Len(p) > 1
  BY <1>1
<1>3. Parent(p) = e /\ e \in Path /\ Len(e) = Len(d) /\ IsPrefix(e, p)
  BY <1>1, <1>2, ParentIsAncestor, AncestorIsDir
<1> HIDE DEF e
<1>4. IsPrefix(d, p) => d = e
  BY <1>1, <1>3, AncestorsInLine, PrefixOrder
<1> QED
  BY <1>3, <1>4

\* A path below d is an entry of d or below one that is a directory.
LEMMA BelowDirectory ==
    ASSUME NEW d \in Path, NEW p \in Path, IsStrictPrefix(d, p)
    PROVE  \/ Len(p) = Len(d) + 1
           \/ /\ Len(p) > Len(d) + 1
              /\ \E e \in Dir : /\ IsPrefix(d, e) /\ Len(e) = Len(d) + 1
                                /\ IsStrictPrefix(e, p)
<1>1. Len(d) \in Nat /\ Len(d) > 0 /\ Len(p) \in Nat /\ Len(d) < Len(p)
  BY PathIsSequence, PrefixOrder
<1> SUFFICES ASSUME Len(p) > Len(d) + 1
             PROVE  \E e \in Dir : /\ IsPrefix(d, e) /\ Len(e) = Len(d) + 1
                                   /\ IsStrictPrefix(e, p)
  BY <1>1
<1> DEFINE e == SubSeq(p, 1, Len(d) + 1)
<1>2. Len(d) + 1 \in 1 .. Len(p) - 1
  BY <1>1
<1>3. e \in Dir /\ e \in Path /\ Len(e) = Len(d) + 1 /\ IsPrefix(e, p)
  BY <1>2, AncestorIsDir
<1> HIDE DEF e
<1>4. IsPrefix(d, p)
  BY DEF IsStrictPrefix
<1>5. IsPrefix(d, e) /\ IsStrictPrefix(e, p)
  BY <1>1, <1>3, <1>4, AncestorsInLine, PrefixOrder
<1> QED
  BY <1>3, <1>5

\* Nothing is below a file.
LEMMA NothingBelowFiles ==
    ASSUME NEW d \in Path, NEW p \in Path, IsStrictPrefix(d, p)
    PROVE  d \in Dir
<1>1. Len(d) \in Nat /\ Len(d) > 0 /\ Len(p) \in Nat /\ Len(d) < Len(p)
  BY PathIsSequence, PrefixOrder
<1>2. Len(d) \in 1 .. Len(p) - 1
  BY <1>1
<1> DEFINE e == SubSeq(p, 1, Len(d))
<1>3. e \in Dir /\ e \in Path /\ Len(e) = Len(d) /\ IsPrefix(e, p)
  BY <1>2, AncestorIsDir
<1> HIDE DEF e
<1>4. IsPrefix(d, p)
  BY DEF IsStrictPrefix
<1>5. d = e
  BY <1>1, <1>3, <1>4, AncestorsInLine, PrefixOrder
<1> QED
  BY <1>3, <1>5

\* In a tree, everything above what is there is there.
LEMMA AboveIsThere ==
    ASSUME NEW f \in [Path -> Absent .. MaxSize], IsTree(f),
           NEW d \in Path, NEW p \in Path, IsPrefix(d, p), f[p] # Absent
    PROVE  f[d] # Absent
<1> DEFINE P == {n \in Nat : \A q \in Path :
                    Len(q) = Len(d) + n /\ IsPrefix(d, q) /\ f[q] # Absent
                        => f[d] # Absent}
<1>1. Len(d) \in Nat /\ Len(d) > 0
  BY PathIsSequence
<1>2. 0 \in P
  <2> SUFFICES ASSUME NEW q \in Path, Len(q) = Len(d) + 0, IsPrefix(d, q), f[q] # Absent
               PROVE  f[d] # Absent
    OBVIOUS
  <2> QED
    BY <1>1, PrefixOrder
<1>3. ASSUME NEW n \in Nat, n \in P PROVE n + 1 \in P
  <2> SUFFICES ASSUME NEW q \in Path, Len(q) = Len(d) + (n + 1), IsPrefix(d, q),
                      f[q] # Absent
               PROVE  f[d] # Absent
    OBVIOUS
  <2> DEFINE e == SubSeq(q, 1, Len(q) - 1)
  <2>1. Len(q) > 1
    BY <1>1
  <2>2. /\ Parent(q) = e /\ e \in Path /\ Len(e) = Len(d) + n
        /\ IsPrefix(e, q)
    BY <1>1, <2>1, ParentIsAncestor, AncestorIsDir
  <2> HIDE DEF e
  <2>3. IsPrefix(d, e)
    BY <1>1, <2>2, AncestorsInLine
  <2>4. f[e] # Absent
    BY <2>2 DEF IsTree
  <2> QED
    BY <1>3, <2>2, <2>3, <2>4
<1> HIDE DEF P
<1>4. Nat \subseteq P
  BY <1>2, <1>3, SetInduction
<1>5. Len(p) - Len(d) \in Nat /\ Len(p) = Len(d) + (Len(p) - Len(d))
  BY <1>1, PathIsSequence, PrefixOrder
<1>6. Len(p) - Len(d) \in P
  BY <1>4, <1>5
<1> QED
  BY <1>5, <1>6 DEF P

LEMMA SkippedIsNotBelow ==
    ASSUME NEW root \in Path, NEW p \in Path, NEW S, p \in S
    PROVE  p \in Below(root, S) <=> IsStrictPrefix(root, p) /\ ~ Skipped(root, p)
<1> SUFFICES ASSUME IsStrictPrefix(root, p)
             PROVE  ToSet(SubSeq(p, Len(root) + 1, Len(p))) \cap SkipName = {}
                      <=> ~ Skipped(root, p)
  BY DEF Below
<1>1. /\ Len(root) \in Nat /\ Len(p) \in Nat /\ Len(root) < Len(p)
      /\ p \in Seq(Name)
  BY PathIsSequence, PrefixOrder
<1> DEFINE r == SubSeq(p, Len(root) + 1, Len(p))
           n == Len(root)
           m == Len(p)
<1>2. /\ r \in Seq(Name) /\ Len(r) = m - n
      /\ \A i \in 1 .. m - n : r[i] = p[n + i]
  BY <1>1
<1> HIDE DEF r
<1>3. \A x : x \in ToSet(r) <=> \E i \in 1 .. m - n : x = r[i]
  BY <1>1, <1>2 DEF ToSet
<1>4. \A x : x \in ToSet(r) <=> \E i \in n + 1 .. m : x = p[i]
  <2> SUFFICES ASSUME NEW x
               PROVE  (\E i \in 1 .. m - n : x = r[i]) <=> \E i \in n + 1 .. m : x = p[i]
    BY <1>3
  <2>1. ASSUME NEW i \in 1 .. m - n, x = r[i] PROVE n + i \in n + 1 .. m /\ x = p[n + i]
    BY <1>1, <1>2, <2>1
  <2>2. ASSUME NEW i \in n + 1 .. m, x = p[i]
        PROVE  i - n \in 1 .. m - n /\ x = r[i - n]
    <3>1. i - n \in 1 .. m - n /\ n + (i - n) = i
      BY <1>1
    <3> QED
      BY <1>2, <2>2, <3>1
  <2> QED
    BY <2>1, <2>2
<1>5. ToSet(r) \cap SkipName = {} <=> ~ \E i \in n + 1 .. m : p[i] \in SkipName
  BY <1>4
<1> QED
  BY <1>5 DEF Skipped, r

-----------------------------------------------------------------------------
(* What a walk has before it: todo are the directories to list, listed is  *)
(* the one that is listed, or none, and entries is what is left of it.     *)

AheadOf(t, listed, entries) ==
    {p \in Path :
        \/ p \in entries
        \/ \E e \in t : IsStrictPrefix(e, p)
        \/ \E d \in listed : IsStrictPrefix(d, p) /\ Len(p) > Len(d) + 1}

Apart(S) == \A a, b \in S : a # b => ~ IsPrefix(a, b)

Shaped(t, listed, entries) ==
    /\ t \subseteq Dir /\ listed \subseteq Dir /\ entries \subseteq Path
    /\ listed \cap t = {} /\ Apart(t \cup listed)
    /\ \A p \in entries : \E d \in listed : IsPrefix(d, p) /\ Len(p) = Len(d) + 1

Children(f, d) ==
    {p \in Path : IsPrefix(d, p) /\ Len(p) = Len(d) + 1 /\ f[p] # Absent}

\* From A to B nothing is left behind that f has.
Leaves(f, A, B) == B \subseteq A /\ \A p \in A \ B : f[p] = Absent

LEMMA DirIsPath == Dir \subseteq Path
BY StorageGuardAssumption

LEMMA ListedShape ==
    ASSUME NEW t, NEW d \in t, NEW f, Shaped(t, {}, {})
    PROVE  /\ Shaped(t \ {d}, {d}, Children(f, d))
           /\ Leaves(f, AheadOf(t, {}, {}), AheadOf(t \ {d}, {d}, Children(f, d)))
<1>1. t \subseteq Dir /\ d \in Path /\ t \subseteq Path
  BY DirIsPath DEF Shaped
<1>2. Shaped(t \ {d}, {d}, Children(f, d))
  <2>1. Apart((t \ {d}) \cup {d})
    BY DEF Shaped, Apart
  <2> QED
    BY <2>1 DEF Shaped, Children
<1>3. ASSUME NEW p \in AheadOf(t \ {d}, {d}, Children(f, d))
      PROVE  p \in AheadOf(t, {}, {})
  <2>1. p \in Path
    BY DEF AheadOf
  <2>2. CASE p \in Children(f, d)
    <3>1. IsPrefix(d, p) /\ Len(p) = Len(d) + 1
      BY <2>2 DEF Children
    <3>2. IsStrictPrefix(d, p)
      BY <1>1, <2>1, <3>1, PathIsSequence, PrefixOrder
    <3> QED
      BY <2>1, <3>2 DEF AheadOf
  <2> QED
    BY <2>1, <2>2 DEF AheadOf
<1>4. ASSUME NEW p \in AheadOf(t, {}, {}), p \notin AheadOf(t \ {d}, {d}, Children(f, d))
      PROVE  f[p] = Absent
  <2>1. p \in Path /\ IsStrictPrefix(d, p) /\ ~ (Len(p) > Len(d) + 1)
    BY <1>4 DEF AheadOf
  <2>2. Len(p) = Len(d) + 1
    BY <1>1, <2>1, BelowDirectory
  <2>3. p \notin Children(f, d)
    BY <1>4, <2>1 DEF AheadOf
  <2> QED
    BY <2>1, <2>2, <2>3 DEF Children, IsStrictPrefix
<1> QED
  BY <1>2, <1>3, <1>4 DEF Leaves

LEMMA MissedShape ==
    ASSUME NEW t, NEW d \in t, Shaped(t, {}, {}),
           NEW f \in [Path -> Absent .. MaxSize], IsTree(f), f[d] = Absent
    PROVE  /\ Shaped(t \ {d}, {}, {})
           /\ Leaves(f, AheadOf(t, {}, {}), AheadOf(t \ {d}, {}, {}))
<1>1. t \subseteq Dir /\ d \in Path
  BY DirIsPath DEF Shaped
<1>2. Shaped(t \ {d}, {}, {})
  BY DEF Shaped, Apart
<1>3. ASSUME NEW p \in AheadOf(t, {}, {}), p \notin AheadOf(t \ {d}, {}, {})
      PROVE  f[p] = Absent
  <2>1. p \in Path /\ IsPrefix(d, p)
    BY <1>3 DEF AheadOf, IsStrictPrefix
  <2> QED
    BY <1>1, <2>1, AboveIsThere
<1>4. AheadOf(t \ {d}, {}, {}) \subseteq AheadOf(t, {}, {})
  BY DEF AheadOf
<1> QED
  BY <1>2, <1>3, <1>4 DEF Leaves

LEMMA TestedShape ==
    ASSUME NEW t, NEW l, NEW q, NEW p \in q, Shaped(t, l, q)
    PROVE  /\ Shaped(t, l, q \ {p})
           /\ p \in AheadOf(t, l, q)
           /\ AheadOf(t, l, q \ {p}) = AheadOf(t, l, q) \ {p}
<1>1. p \in Path /\ t \subseteq Path /\ l \subseteq Path
  BY DirIsPath DEF Shaped
<1>2. PICK d \in l : IsPrefix(d, p) /\ Len(p) = Len(d) + 1
  BY DEF Shaped
<1>3. d \in Path /\ Len(d) \in Nat /\ Len(p) \in Nat
  BY <1>1, <1>2, PathIsSequence
<1>4. ASSUME NEW e \in t \cup l, IsStrictPrefix(e, p)
      PROVE  e = d
  <2>1. e \in Path /\ IsPrefix(e, p) /\ Len(e) \in Nat /\ Len(e) < Len(p)
    BY <1>1, <1>4, PathIsSequence, PrefixOrder DEF IsStrictPrefix
  <2>2. Len(e) <= Len(d)
    BY <1>2, <1>3, <2>1
  <2>3. IsPrefix(e, d)
    BY <1>1, <1>2, <1>3, <2>1, <2>2, AncestorsInLine
  <2> QED
    BY <2>3 DEF Shaped, Apart
<1>5. ~ \E e \in t : IsStrictPrefix(e, p)
  BY <1>4 DEF Shaped
<1>6. ~ \E e \in l : IsStrictPrefix(e, p) /\ Len(p) > Len(e) + 1
  BY <1>2, <1>3, <1>4
<1>7. p \notin AheadOf(t, l, q \ {p})
  BY <1>5, <1>6 DEF AheadOf
<1>8. \A x : x # p => (x \in AheadOf(t, l, q \ {p}) <=> x \in AheadOf(t, l, q))
  BY DEF AheadOf
<1>9. p \in AheadOf(t, l, q)
  BY <1>1 DEF AheadOf
<1>10. Shaped(t, l, q \ {p})
  BY DEF Shaped
<1> QED
  BY <1>7, <1>8, <1>9, <1>10

LEMMA LeftShape ==
    ASSUME NEW t, NEW d, Shaped(t, {d}, {}),
           NEW f \in [Path -> Absent .. MaxSize], IsTree(f), f[d] = Absent
    PROVE  /\ Shaped(t, {}, {})
           /\ Leaves(f, AheadOf(t, {d}, {}), AheadOf(t, {}, {}))
<1>1. d \in Path
  BY DirIsPath DEF Shaped
<1>2. Shaped(t, {}, {})
  BY DEF Shaped, Apart
<1>3. ASSUME NEW p \in AheadOf(t, {d}, {}), p \notin AheadOf(t, {}, {})
      PROVE  f[p] = Absent
  <2>1. p \in Path /\ IsPrefix(d, p)
    BY <1>3 DEF AheadOf, IsStrictPrefix
  <2> QED
    BY <1>1, <2>1, AboveIsThere
<1>4. AheadOf(t, {}, {}) \subseteq AheadOf(t, {d}, {})
  BY DEF AheadOf
<1> QED
  BY <1>2, <1>3, <1>4 DEF Leaves

LEMMA DescentShape ==
    ASSUME NEW t, NEW d, Shaped(t, {d}, {}),
           NEW f \in [Path -> Absent .. MaxSize], IsTree(f)
    PROVE  /\ Shaped(t \cup (Children(f, d) \cap Dir), {}, {})
           /\ Leaves(f, AheadOf(t, {d}, {}),
                        AheadOf(t \cup (Children(f, d) \cap Dir), {}, {}))
<1> DEFINE C == Children(f, d) \cap Dir
<1>1. d \in Path /\ t \subseteq Path /\ t \subseteq Dir /\ d \notin t
  BY DirIsPath DEF Shaped
<1>2. \A c \in C : /\ c \in Path /\ c \in Dir
                   /\ IsPrefix(d, c) /\ Len(c) = Len(d) + 1 /\ IsStrictPrefix(d, c)
  BY <1>1, PathIsSequence, PrefixOrder DEF Children
<1>3. Apart(t \cup C)
  <2> SUFFICES ASSUME NEW a \in t \cup C, NEW b \in t \cup C, a # b, IsPrefix(a, b)
               PROVE  FALSE
    BY DEF Apart
  <2>1. /\ a \in Path /\ b \in Path
        /\ Len(a) \in Nat /\ Len(b) \in Nat /\ Len(d) \in Nat
    BY <1>1, <1>2, PathIsSequence
  <2>2. CASE a \in t /\ b \in t
    BY <2>2 DEF Shaped, Apart
  <2>3. CASE a \in C /\ b \in C
    BY <1>2, <2>1, <2>3, PrefixOrder
  <2>4. CASE a \in C /\ b \in t
    <3>1. IsPrefix(d, b)
      BY <1>1, <1>2, <2>1, <2>4, PrefixTransitive
    <3> QED
      BY <1>1, <2>4, <3>1 DEF Shaped, Apart
  <2>5. CASE a \in t /\ b \in C
    <3>1. Len(a) < Len(b)
      BY <2>1, PrefixOrder
    <3>2. Len(a) <= Len(d)
      BY <1>2, <2>1, <2>5, <3>1
    <3>3. IsPrefix(a, d)
      BY <1>1, <1>2, <2>1, <2>5, <3>2, AncestorsInLine
    <3> QED
      BY <1>1, <2>5, <3>3 DEF Shaped, Apart
  <2> HIDE DEF C
  <2> QED
    BY <2>2, <2>3, <2>4, <2>5
<1>4. Shaped(t \cup C, {}, {})
  BY <1>1, <1>3 DEF Shaped
<1>5. ASSUME NEW p \in AheadOf(t \cup C, {}, {})
      PROVE  p \in AheadOf(t, {d}, {})
  <2>1. p \in Path /\ \E e \in t \cup C : IsStrictPrefix(e, p)
    BY <1>5 DEF AheadOf
  <2>2. PICK e \in t \cup C : IsStrictPrefix(e, p)
    BY <2>1
  <2>3. CASE e \in t
    BY <2>1, <2>2, <2>3 DEF AheadOf
  <2>4. CASE e \in C
    <3>1. /\ e \in Path /\ IsPrefix(d, e) /\ Len(e) = Len(d) + 1
          /\ IsPrefix(e, p) /\ Len(e) < Len(p)
          /\ Len(d) \in Nat /\ Len(p) \in Nat
      BY <1>1, <1>2, <2>1, <2>2, <2>4, PathIsSequence, PrefixOrder DEF IsStrictPrefix
    <3>2. IsPrefix(d, p)
      BY <1>1, <2>1, <3>1, PrefixTransitive
    <3>3. IsStrictPrefix(d, p) /\ Len(p) > Len(d) + 1
      BY <1>1, <2>1, <3>1, <3>2, PrefixOrder
    <3> QED
      BY <2>1, <3>3 DEF AheadOf
  <2> QED
    BY <2>3, <2>4
<1>6. ASSUME NEW p \in AheadOf(t, {d}, {}), p \notin AheadOf(t \cup C, {}, {})
      PROVE  f[p] = Absent
  <2>1. p \in Path /\ IsStrictPrefix(d, p) /\ Len(p) > Len(d) + 1
    BY <1>6 DEF AheadOf
  <2>2. Len(p) # Len(d) + 1
    BY <1>1, <2>1, PathIsSequence
  <2>3. PICK e \in Dir : IsPrefix(d, e) /\ Len(e) = Len(d) + 1 /\ IsStrictPrefix(e, p)
    BY <1>1, <2>1, <2>2, BelowDirectory
  <2>4. e \notin C
    BY <1>6, <2>1, <2>3 DEF AheadOf
  <2>5. e \in Path /\ f[e] = Absent
    BY <2>3, <2>4, DirIsPath DEF Children
  <2> QED
    BY <2>1, <2>3, <2>5, AboveIsThere DEF IsStrictPrefix
<1> QED
  BY <1>4, <1>5, <1>6 DEF Leaves

-----------------------------------------------------------------------------
(* Sums and numbers of what a walk has behind it.                          *)

Bounded(lo, hi, n, S) == SumFunctionOnSet(lo, S) <= n /\ n <= SumFunctionOnSet(hi, S)

LEMMA PathsAreFinite ==
    ASSUME NEW S \in SUBSET Path
    PROVE  IsFiniteSet(S) /\ Cardinality(S) \in Nat
<1>1. IsFiniteSet(S)
  BY PathAssumption, FS_Subset
<1> QED
  BY <1>1, FS_CardinalityType

LEMMA SumIsNat ==
    ASSUME NEW f \in [File -> Nat], NEW S \in SUBSET File
    PROVE  SumFunctionOnSet(f, S) \in Nat /\ (S = {} => SumFunctionOnSet(f, S) = 0)
<1>1. IsFiniteSet(S) /\ \A x \in S : f[x] \in Nat
  BY PathsAreFinite DEF File
<1> QED
  BY <1>1, SumUnfolds

LEMMA FilesSum ==
    ASSUME NEW f \in [File -> Nat], NEW g \in [File -> Nat],
           NEW S \in SUBSET File, NEW T \in SUBSET File,
           \A x \in S : f[x] = 0 \/ (x \in T /\ f[x] <= g[x])
    PROVE  SumFunctionOnSet(f, S) <= SumFunctionOnSet(g, T)
<1>1. /\ IsFiniteSet(S) /\ IsFiniteSet(T)
      /\ \A x \in S : f[x] \in Nat
      /\ \A x \in T : g[x] \in Nat
  BY PathsAreFinite DEF File
<1> QED
  BY <1>1, SumMonotone

\* More files come behind the walk, which are not there.
LEMMA BoundedGrows ==
    ASSUME NEW lo \in [File -> Nat], NEW hi \in [File -> Nat], NEW n \in Nat,
           NEW S \in SUBSET File, NEW T \in SUBSET File,
           Bounded(lo, hi, n, S), S \subseteq T, \A x \in T \ S : lo[x] = 0
    PROVE  Bounded(lo, hi, n, T)
<1>1. \A x \in T : lo[x] = 0 \/ (x \in S /\ lo[x] <= lo[x])
  OBVIOUS
<1>2. SumFunctionOnSet(lo, T) <= SumFunctionOnSet(lo, S)
  BY <1>1, FilesSum
<1>3. \A x \in S : hi[x] = 0 \/ (x \in T /\ hi[x] <= hi[x])
  OBVIOUS
<1>4. SumFunctionOnSet(hi, S) <= SumFunctionOnSet(hi, T)
  BY <1>3, FilesSum
<1>5. /\ SumFunctionOnSet(lo, T) \in Nat /\ SumFunctionOnSet(lo, S) \in Nat
      /\ SumFunctionOnSet(hi, T) \in Nat /\ SumFunctionOnSet(hi, S) \in Nat
  BY SumIsNat
<1> QED
  BY <1>2, <1>4, <1>5 DEF Bounded

\* A file is read: its size is one it has had.
LEMMA BoundedAdds ==
    ASSUME NEW lo \in [File -> Nat], NEW hi \in [File -> Nat], NEW n \in Nat,
           NEW S \in SUBSET File, Bounded(lo, hi, n, S),
           NEW x \in File, x \notin S, NEW m \in Nat, lo[x] <= m, m <= hi[x]
    PROVE  Bounded(lo, hi, n + m, S \cup {x})
<1>1. IsFiniteSet(S) /\ \A y \in S \cup {x} : lo[y] \in Nat /\ hi[y] \in Nat
  BY PathsAreFinite DEF File
<1>2. SumFunctionOnSet(lo, S \cup {x}) = lo[x] + SumFunctionOnSet(lo, S)
  BY <1>1, SumAdd
<1>3. SumFunctionOnSet(hi, S \cup {x}) = hi[x] + SumFunctionOnSet(hi, S)
  BY <1>1, SumAdd
<1>4. SumFunctionOnSet(lo, S) \in Nat /\ SumFunctionOnSet(hi, S) \in Nat
  BY SumIsNat
<1> QED
  BY <1>1, <1>2, <1>3, <1>4 DEF Bounded

\* The disk changes: the least sizes become less and the greatest greater.
LEMMA BoundedWidens ==
    ASSUME NEW lo \in [File -> Nat], NEW hi \in [File -> Nat], NEW n \in Nat,
           NEW lo2 \in [File -> Nat], NEW hi2 \in [File -> Nat],
           \A x \in File : lo2[x] <= lo[x] /\ hi[x] <= hi2[x],
           NEW S \in SUBSET File, Bounded(lo, hi, n, S)
    PROVE  Bounded(lo2, hi2, n, S)
<1>1. \A x \in S : lo2[x] = 0 \/ (x \in S /\ lo2[x] <= lo[x])
  OBVIOUS
<1>2. SumFunctionOnSet(lo2, S) <= SumFunctionOnSet(lo, S)
  BY <1>1, FilesSum
<1>3. \A x \in S : hi[x] = 0 \/ (x \in S /\ hi[x] <= hi2[x])
  OBVIOUS
<1>4. SumFunctionOnSet(hi, S) <= SumFunctionOnSet(hi2, S)
  BY <1>3, FilesSum
<1>5. /\ SumFunctionOnSet(lo, S) \in Nat /\ SumFunctionOnSet(lo2, S) \in Nat
      /\ SumFunctionOnSet(hi, S) \in Nat /\ SumFunctionOnSet(hi2, S) \in Nat
  BY SumIsNat
<1> QED
  BY <1>2, <1>4, <1>5 DEF Bounded

\* No file, or none that is there.
LEMMA BoundedByNothing ==
    ASSUME NEW lo \in [File -> Nat], NEW hi \in [File -> Nat],
           NEW S \in SUBSET File, \A x \in S : lo[x] = 0
    PROVE  Bounded(lo, hi, 0, S)
<1>1. SumFunctionOnSet(lo, {}) = 0 /\ SumFunctionOnSet(hi, {}) = 0
  BY SumIsNat
<1>2. Bounded(lo, hi, 0, {})
  BY <1>1 DEF Bounded
<1> QED
  BY <1>2, BoundedGrows

\* The roots together: what is in several of them is counted several times.
LEMMA TotalIsBounded ==
    ASSUME NEW lo \in [File -> Nat], NEW hi \in [File -> Nat], NEW n \in Nat,
           NEW M \in [1 .. n -> SUBSET File], NEW b \in [1 .. n -> Nat],
           \A i \in 1 .. n : Bounded(lo, hi, b[i], M[i])
    PROVE  LET total == SumFunctionOnSet(b, 1 .. n)
               covered == UNION {M[i] : i \in 1 .. n}
           IN  /\ total \in Nat
               /\ SumFunctionOnSet(lo, covered) <= total
               /\ (\A i, j \in 1 .. n : i # j => M[i] \cap M[j] = {})
                      => total <= SumFunctionOnSet(hi, covered)
<1> DEFINE C(k) == UNION {M[i] : i \in 1 .. k}
           total(k) == SumFunctionOnSet(b, 1 .. k)
           disjoint == \A i, j \in 1 .. n : i # j => M[i] \cap M[j] = {}
           P == {k \in Nat : k <= n =>
                    /\ total(k) \in Nat
                    /\ SumFunctionOnSet(lo, C(k)) <= total(k)
                    /\ disjoint => total(k) <= SumFunctionOnSet(hi, C(k))}
<1>1. ASSUME NEW k \in Nat, k <= n
      PROVE  /\ C(k) \in SUBSET File /\ IsFiniteSet(C(k)) /\ IsFiniteSet(1 .. k)
             /\ SumFunctionOnSet(lo, C(k)) \in Nat /\ SumFunctionOnSet(hi, C(k)) \in Nat
             /\ total(k) \in Nat
  <2>1. C(k) \in SUBSET File
    BY <1>1
  <2>2. IsFiniteSet(C(k))
    BY <2>1, PathsAreFinite DEF File
  <2>3. IsFiniteSet(1 .. k) /\ \A i \in 1 .. k : b[i] \in Nat
    <3>1. 0 \in Int /\ 1 \in Int /\ k \in Int
      OBVIOUS
    <3>2. IsFiniteSet(1 .. k)
      BY <3>1, FS_Interval
    <3>3. \A i \in 1 .. k : b[i] \in Nat
      BY <1>1
    <3> QED
      BY <3>2, <3>3
  <2> HIDE DEF C
  <2> QED
    BY <2>1, <2>2, <2>3, SumIsNat, SumUnfolds
<1>2. 0 \in P
  <2>1. C(0) = {} /\ 1 .. 0 = {}
    OBVIOUS
  <2>2. SumFunctionOnSet(lo, {}) = 0 /\ SumFunctionOnSet(hi, {}) = 0
    BY SumIsNat
  <2>3. SumFunctionOnSet(b, {}) = 0
    <3>1. IsFiniteSet({}) /\ \A x \in {} : b[x] \in Nat
      BY FS_EmptySet
    <3> QED
      BY <3>1, SumUnfolds
  <2>4. /\ total(0) = 0
        /\ SumFunctionOnSet(lo, C(0)) = 0 /\ SumFunctionOnSet(hi, C(0)) = 0
    BY <2>1, <2>2, <2>3
  <2> HIDE DEF total, C, disjoint
  <2> QED
    BY <2>4
<1>3. ASSUME NEW k \in Nat, k \in P PROVE k + 1 \in P
  <2> SUFFICES ASSUME k + 1 <= n
               PROVE  /\ total(k + 1) \in Nat
                      /\ SumFunctionOnSet(lo, C(k + 1)) <= total(k + 1)
                      /\ disjoint => total(k + 1) <= SumFunctionOnSet(hi, C(k + 1))
    OBVIOUS
  <2> DEFINE N == M[k + 1]
  <2>1. N \in SUBSET File /\ b[k + 1] \in Nat /\ Bounded(lo, hi, b[k + 1], N)
    OBVIOUS
  <2>2. C(k + 1) = C(k) \cup N /\ (disjoint => C(k) \cap N = {})
    <3>1. 1 .. k + 1 = (1 .. k) \cup {k + 1}
      OBVIOUS
    <3>2. C(k + 1) = C(k) \cup N
      BY <3>1
    <3>3. ASSUME disjoint PROVE C(k) \cap N = {}
      <4>1. \A i \in 1 .. k : M[i] \cap N = {}
        BY <3>3
      <4> QED
        BY <4>1
    <3> QED
      BY <3>2, <3>3
  <2>3. total(k + 1) = b[k + 1] + total(k)
    <3>1. 1 .. k + 1 = (1 .. k) \cup {k + 1} /\ k + 1 \notin 1 .. k
      OBVIOUS
    <3>2. IsFiniteSet(1 .. k)
      <4>1. k <= n
        OBVIOUS
      <4> QED
        BY <1>1, <4>1
    <3>3. \A i \in (1 .. k) \cup {k + 1} : b[i] \in Nat
      <4> HIDE DEF P, C, total, disjoint, N
      <4> QED
        BY <3>1
    <3> QED
      BY <3>1, <3>2, <3>3, SumAdd
  <2>4. k \in Nat /\ k <= n /\ k + 1 \in Nat
    OBVIOUS
  <2>5. /\ SumFunctionOnSet(lo, C(k)) <= total(k)
        /\ disjoint => total(k) <= SumFunctionOnSet(hi, C(k))
    BY <1>3, <2>4
  <2>6. /\ C(k) \in SUBSET File /\ IsFiniteSet(C(k)) /\ IsFiniteSet(N)
        /\ SumFunctionOnSet(lo, C(k)) \in Nat /\ SumFunctionOnSet(hi, C(k)) \in Nat
        /\ SumFunctionOnSet(lo, N) \in Nat /\ SumFunctionOnSet(hi, N) \in Nat
        /\ total(k) \in Nat
    BY <1>1, <2>1, <2>4, SumIsNat, PathsAreFinite DEF File
  <2> DEFINE c == C(k)
             t == total(k)
             t1 == total(k + 1)
             c1 == C(k + 1)
  <2>7. /\ SumFunctionOnSet(lo, c1) \in Nat /\ SumFunctionOnSet(hi, c1) \in Nat
        /\ t1 \in Nat
    BY <1>1, <2>4
  <2>8. c1 = c \cup N /\ c \in SUBSET File /\ IsFiniteSet(c) /\ (disjoint => c \cap N = {})
    BY <2>2, <2>6
  <2>9. /\ t1 = b[k + 1] + t
        /\ SumFunctionOnSet(lo, c) <= t
        /\ disjoint => t <= SumFunctionOnSet(hi, c)
        /\ t \in Nat /\ SumFunctionOnSet(lo, c) \in Nat /\ SumFunctionOnSet(hi, c) \in Nat
    BY <2>3, <2>5, <2>6
  <2> HIDE DEF c, t, t1, c1, C, total, N, P, disjoint
  <2>10. /\ SumFunctionOnSet(lo, c1) <= SumFunctionOnSet(lo, c) + SumFunctionOnSet(lo, N)
         /\ disjoint => SumFunctionOnSet(hi, c1) =
                            SumFunctionOnSet(hi, c) + SumFunctionOnSet(hi, N)
    <3>1. \A x \in c \cup N : lo[x] \in Nat /\ hi[x] \in Nat
      BY <2>1, <2>8
    <3>2. SumFunctionOnSet(lo, c \cup N) <= SumFunctionOnSet(lo, c) + SumFunctionOnSet(lo, N)
      BY <2>6, <2>8, <3>1, SumOfUnion
    <3>3. c \cap N = {} => SumFunctionOnSet(hi, c \cup N) =
                              SumFunctionOnSet(hi, c) + SumFunctionOnSet(hi, N)
      BY <2>6, <2>8, <3>1, SumOfUnion
    <3> QED
      BY <2>8, <3>2, <3>3
  <2>11. SumFunctionOnSet(lo, c1) <= t1
    BY <2>1, <2>6, <2>7, <2>9, <2>10 DEF Bounded
  <2>12. disjoint => t1 <= SumFunctionOnSet(hi, c1)
    BY <2>1, <2>6, <2>7, <2>9, <2>10 DEF Bounded
  <2> QED
    BY <2>7, <2>11, <2>12 DEF t1, c1
<1> HIDE DEF P
<1>4. n \in P
  BY <1>2, <1>3, SetInduction
<1> QED
  BY <1>4 DEF P

-----------------------------------------------------------------------------
(* The invariant of an audit.                                              *)

\* The directory that is listed, or none; the file that is tested, or none.
Listed == {d \in Dir : here = <<d>>}
Tested == {f \in File : target = <<f>>}

\* What the walk still has before it.
Ahead == AheadOf(todo, Listed, pending)

Walking == pc \in {"walk", "stat"}

\* What the walk has before it is made of separate subtrees below the root;
\* a file that is tested was before it and is no more.
WalkInv ==
    /\ Shaped(todo, Listed, pending)
    /\ stats \in Seq(Counts)
    /\ pc = "stat" <=> target # <<>>
    /\ pc = "root" => todo = {} /\ here = <<>>
    /\ Walking => /\ Len(stats) < Len(Arguments)
                  /\ \A d \in todo \cup Listed : IsPrefix(Root, d)
                  /\ Tested \subseteq Measured(Root) \ Ahead

\* What is behind the walk bounds its counts.
CountInv ==
    /\ count.files <= Cardinality(File \ Ahead)
    /\ count.dirs <= Cardinality(Dir \ Ahead)
    /\ count.errors + Len(target) <= count.files

HistoryInv ==
    /\ low \in [File -> Nat] /\ high \in [File -> Nat]
    /\ \A f \in File : low[f] <= Sizes(disk)[f] /\ Sizes(disk)[f] <= high[f]
    /\ changes = 0 => low = Sizes(disk) /\ high = Sizes(disk)

\* The bytes are those of the files behind the walk, each with a size it had.
SumInv ==
    /\ Walking => Bounded(low, high, count.bytes, (Measured(Root) \ Ahead) \ Tested)
    /\ \A i \in 1 .. Len(stats) :
          Bounded(low, high, stats[i].bytes, Measured(Arguments[i]))

Exactly(n, S) == n = Cardinality({p \in S : There(p)})

QuietInv ==
    changes = 0 =>
        /\ exit # "raised"
        /\ Walking => /\ There(Root)
                      /\ \A p \in todo \cup Listed \cup pending \cup Tested : There(p)
                      /\ count.exists /\ count.errors = 0
                      /\ Exactly(count.files, Measured(Root) \ Ahead)
                      /\ Exactly(count.dirs, Below(Root, Dir) \ Ahead)
        /\ \A i \in 1 .. Len(stats) :
              /\ stats[i].exists = There(Arguments[i])
              /\ stats[i].errors = 0
              /\ Exactly(stats[i].files, Measured(Arguments[i]))
              /\ Exactly(stats[i].dirs, Below(Arguments[i], Dir))

AuditInv ==
    /\ TypeOK /\ WalkInv /\ CountInv /\ HistoryInv /\ SumInv /\ QuietInv
    /\ AlarmIsRaised /\ AlarmIsEarned

\* The walk goes on past what is not there.
PassOver ==
    /\ pc = "walk"
    /\ here' \in {<<>>} \cup {<<d>> : d \in Dir}
    /\ Shaped(todo', Listed', pending') /\ Leaves(disk, Ahead, Ahead')
    /\ \A d \in todo' \cup Listed' : IsPrefix(Root, d)
    /\ changes = 0 => \A p \in todo' \cup Listed' \cup pending' : There(p)
    /\ UNCHANGED <<disk, roots, pc, target, count, stats, status, exit,
                   changes, low, high>>

\* A listing fails, which it does only after a change.
BreakOff ==
    /\ pc = "walk" /\ changes # 0
    /\ pc' = "done" /\ exit' = "raised"
    /\ UNCHANGED <<disk, roots, walk, stats, status, changes, low, high>>

LEMMA ArgumentsArePaths ==
    ASSUME TypeOK, stats \in Seq(Counts)
    PROVE  /\ roots \in Seq(Path) /\ Arguments \in Seq(Path)
           /\ Len(Arguments) = Len(roots) + 1 /\ Len(roots) \in Nat
           /\ \A i \in 1 .. Len(roots) : Arguments[i] = roots[i]
           /\ Len(stats) \in Nat
           /\ Len(stats) < Len(Arguments) => Root \in Path
<1>1. roots \in Seq(Path) /\ Archive \in Path
  BY StorageGuardAssumption DEF TypeOK
<1>2. /\ Arguments \in Seq(Path) /\ Len(Arguments) = Len(roots) + 1 /\ Len(roots) \in Nat
      /\ \A i \in 1 .. Len(roots) : Arguments[i] = roots[i]
  BY <1>1 DEF Arguments
<1>3. Len(stats) \in Nat
  OBVIOUS
<1>4. ASSUME Len(stats) < Len(Arguments) PROVE Root \in Path
  <2>1. Len(stats) + 1 \in 1 .. Len(Arguments)
    BY <1>2, <1>3, <1>4
  <2> QED
    BY <1>2, <2>1 DEF Root
<1> QED
  BY <1>1, <1>2, <1>3, <1>4

LEMMA ListedIs ==
    /\ here = <<>> => Listed = {}
    /\ \A d \in Dir : here = <<d>> => Listed = {d}
BY DEF Listed

LEMMA EntriesAreChildren ==
    ASSUME NEW d \in Path
    PROVE  Entries(d) = Children(disk, d)
BY EntryIsChild DEF Entries, Children, There

LEMMA ListEntriesPasses ==
    ASSUME AuditInv, ListEntries
    PROVE  PassOver \/ BreakOff
<1>1. /\ TypeOK /\ WalkInv /\ QuietInv /\ pc = "walk" /\ here = <<>>
      /\ disk \in [Path -> Absent .. MaxSize] /\ IsTree(disk)
  BY DEF AuditInv, ListEntries, TypeOK
<1>2. PICK d \in todo :
          Listing(d,
              /\ todo' = todo \ {d}
              /\ here' = <<d>>
              /\ pending' = Entries(d)
              /\ UNCHANGED <<pc, exit, target, count, stats>>,
              /\ todo' = todo \ {d}
              /\ UNCHANGED <<here, pending>>)
  BY DEF ListEntries
<1>3. UNCHANGED <<disk, roots, status, changes, low, high>>
  BY DEF ListEntries, Around
<1>4. Listed = {} /\ pending = {} /\ Shaped(todo, {}, {})
  <2>1. Listed = {}
    BY <1>1, ListedIs
  <2>2. Shaped(todo, {}, pending)
    BY <1>1, <2>1 DEF WalkInv
  <2>3. pending = {}
    BY <2>2 DEF Shaped
  <2> QED
    BY <2>1, <2>2, <2>3
<1>5. d \in Dir /\ d \in Path /\ todo \subseteq Dir
  BY <1>4, DirIsPath DEF Shaped
<1>6. /\ \A e \in todo : IsPrefix(Root, e)
      /\ changes = 0 => \A e \in todo : There(e)
  BY <1>1 DEF WalkInv, QuietInv, Walking
<1>7. CASE There(d) /\ /\ todo' = todo \ {d}
                       /\ here' = <<d>>
                       /\ pending' = Entries(d)
                       /\ UNCHANGED <<pc, exit, target, count, stats>>
  <2>1. Listed' = {d} /\ pending' = Children(disk, d)
    BY <1>5, <1>7, EntriesAreChildren DEF Listed
  <2>2. /\ Shaped(todo \ {d}, {d}, Children(disk, d))
        /\ Leaves(disk, AheadOf(todo, {}, {}),
                        AheadOf(todo \ {d}, {d}, Children(disk, d)))
    BY <1>4, ListedShape
  <2>3. Shaped(todo', Listed', pending') /\ Leaves(disk, Ahead, Ahead')
    BY <1>4, <1>7, <2>1, <2>2 DEF Ahead
  <2>4. \A e \in todo' \cup Listed' : IsPrefix(Root, e)
    BY <1>6, <1>7, <2>1
  <2>5. changes = 0 => \A p \in todo' \cup Listed' \cup pending' : There(p)
    BY <1>6, <1>7, <2>1 DEF Children, There
  <2>6. here' \in {<<>>} \cup {<<e>> : e \in Dir}
    BY <1>5, <1>7
  <2> QED
    BY <1>1, <1>3, <1>7, <2>3, <2>4, <2>5, <2>6 DEF PassOver
<1>8. CASE /\ ~ There(d)
           /\ todo' = todo \ {d}
           /\ UNCHANGED <<here, pending>>
           /\ UNCHANGED <<pc, exit, target, count, stats>>
  <2>1. Listed' = {} /\ pending' = {}
    BY <1>4, <1>8 DEF Listed
  <2>2. /\ Shaped(todo \ {d}, {}, {})
        /\ Leaves(disk, AheadOf(todo, {}, {}), AheadOf(todo \ {d}, {}, {}))
    BY <1>1, <1>4, <1>8, MissedShape DEF There
  <2>3. Shaped(todo', Listed', pending') /\ Leaves(disk, Ahead, Ahead')
    BY <1>4, <1>8, <2>1, <2>2 DEF Ahead
  <2>4. \A e \in todo' \cup Listed' : IsPrefix(Root, e)
    BY <1>6, <1>8, <2>1
  <2>5. changes # 0
    BY <1>6, <1>8
  <2>6. here' \in {<<>>} \cup {<<e>> : e \in Dir}
    BY <1>1, <1>8
  <2> QED
    BY <1>1, <1>3, <1>8, <2>3, <2>4, <2>5, <2>6 DEF PassOver
<1>9. CASE ~ There(d) /\ Raise
  <2>1. changes # 0
    BY <1>6, <1>9
  <2> QED
    BY <1>1, <1>3, <1>9, <2>1 DEF BreakOff, Raise
<1> QED
  BY <1>2, <1>7, <1>8, <1>9 DEF Listing

LEMMA DescendPasses ==
    ASSUME AuditInv, Descend
    PROVE  PassOver \/ BreakOff
<1>1. /\ TypeOK /\ WalkInv /\ QuietInv /\ pc = "walk" /\ here # <<>> /\ pending = {}
      /\ disk \in [Path -> Absent .. MaxSize] /\ IsTree(disk)
  BY DEF AuditInv, Descend, TypeOK
<1>2. PICK d \in Dir : here = <<d>>
  BY <1>1 DEF TypeOK
<1>3. UNCHANGED <<disk, roots, status, changes, low, high>>
  BY DEF Descend, Around
<1>4. Listed = {d} /\ Shaped(todo, {d}, {}) /\ here[1] = d
  BY <1>1, <1>2, ListedIs DEF WalkInv
<1>5. d \in Path /\ todo \subseteq Dir
  BY <1>4, DirIsPath DEF Shaped
<1>6. /\ \A e \in todo \cup {d} : IsPrefix(Root, e)
      /\ changes = 0 => \A e \in todo \cup {d} : There(e)
  BY <1>1, <1>4 DEF WalkInv, QuietInv, Walking
<1>7. Entries(d) = Children(disk, d)
  BY <1>5, EntriesAreChildren
<1>8. CASE There(d) /\ /\ todo' = todo \cup (Entries(d) \cap Dir)
                       /\ here' = <<>>
                       /\ UNCHANGED <<pc, pending, target, count, stats, exit>>
  <2>1. Listed' = {} /\ pending' = {}
    BY <1>1, <1>8 DEF Listed
  <2>2. /\ Shaped(todo \cup (Children(disk, d) \cap Dir), {}, {})
        /\ Leaves(disk, AheadOf(todo, {d}, {}),
                        AheadOf(todo \cup (Children(disk, d) \cap Dir), {}, {}))
    BY <1>1, <1>4, DescentShape
  <2>3. Shaped(todo', Listed', pending') /\ Leaves(disk, Ahead, Ahead')
    BY <1>1, <1>4, <1>7, <1>8, <2>1, <2>2 DEF Ahead
  <2>4. \A e \in todo' \cup Listed' : IsPrefix(Root, e)
    <3>1. Root \in Path
      BY <1>1, ArgumentsArePaths DEF WalkInv, Walking
    <3>2. ASSUME NEW e \in Children(disk, d) PROVE IsPrefix(Root, e)
      <4>1. e \in Path /\ IsPrefix(d, e) /\ IsPrefix(Root, d)
        BY <1>6 DEF Children
      <4> QED
        BY <1>5, <3>1, <4>1, PrefixTransitive
    <3> QED
      BY <1>6, <1>7, <1>8, <2>1, <3>2
  <2>5. changes = 0 => \A p \in todo' \cup Listed' \cup pending' : There(p)
    BY <1>6, <1>7, <1>8, <2>1 DEF Children, There
  <2> QED
    BY <1>1, <1>3, <1>8, <2>3, <2>4, <2>5 DEF PassOver
<1>9. CASE /\ ~ There(d)
           /\ here' = <<>>
           /\ UNCHANGED <<todo, pending>>
           /\ UNCHANGED <<pc, exit, target, count, stats>>
  <2>1. Listed' = {} /\ pending' = {}
    BY <1>1, <1>9 DEF Listed
  <2>2. /\ Shaped(todo, {}, {})
        /\ Leaves(disk, AheadOf(todo, {d}, {}), AheadOf(todo, {}, {}))
    BY <1>1, <1>4, <1>9, LeftShape DEF There
  <2>3. Shaped(todo', Listed', pending') /\ Leaves(disk, Ahead, Ahead')
    BY <1>1, <1>4, <1>9, <2>1, <2>2 DEF Ahead
  <2>4. \A e \in todo' \cup Listed' : IsPrefix(Root, e)
    BY <1>6, <1>9, <2>1
  <2>5. changes # 0
    BY <1>6, <1>9
  <2> QED
    BY <1>1, <1>3, <1>9, <2>3, <2>4, <2>5 DEF PassOver
<1>10. CASE ~ There(d) /\ Raise
  <2>1. changes # 0
    BY <1>6, <1>10
  <2> QED
    BY <1>1, <1>3, <1>10, <2>1 DEF BreakOff, Raise
<1>11. Listing(d,
           /\ todo' = todo \cup (Entries(d) \cap Dir)
           /\ here' = <<>>
           /\ UNCHANGED <<pc, pending, target, count, stats, exit>>,
           /\ here' = <<>>
           /\ UNCHANGED <<todo, pending>>)
  BY <1>4 DEF Descend
<1> QED
  BY <1>8, <1>9, <1>10, <1>11 DEF Listing

LEMMA MeasuredAreFiles ==
    ASSUME NEW root
    PROVE  /\ Measured(root) \in SUBSET File /\ Below(root, Dir) \in SUBSET Dir
           /\ Measured(root) \subseteq Path /\ Below(root, Dir) \subseteq Path
BY DirIsPath DEF Measured, Below, File

LEMMA SizesAreNat ==
    ASSUME NEW f \in [Path -> Absent .. MaxSize]
    PROVE  /\ Sizes(f) \in [File -> Nat]
           /\ \A x \in File : f[x] = Absent => Sizes(f)[x] = 0
           /\ \A x \in File : f[x] # Absent => Sizes(f)[x] = f[x]
<1>1. \A x \in File : Bytes(f[x]) \in Nat
  BY StorageGuardAssumption DEF Bytes, Absent, File
<1> QED
  BY <1>1 DEF Sizes, Bytes

\* What is left behind without being there adds no bytes and no entries.
LEMMA PassOverKeeps ==
    ASSUME AuditInv, PassOver
    PROVE  AuditInv'
<1>1. /\ TypeOK /\ WalkInv /\ CountInv /\ HistoryInv /\ SumInv /\ QuietInv
      /\ AlarmIsRaised /\ AlarmIsEarned
      /\ disk \in [Path -> Absent .. MaxSize] /\ pc = "walk" /\ Walking
      /\ target = <<>> /\ Tested = {} /\ count \in Counts
  <2>1. /\ TypeOK /\ WalkInv /\ CountInv /\ HistoryInv /\ SumInv /\ QuietInv
        /\ AlarmIsRaised /\ AlarmIsEarned
        /\ disk \in [Path -> Absent .. MaxSize] /\ pc = "walk" /\ Walking
        /\ count \in Counts
    BY DEF AuditInv, PassOver, TypeOK, Walking
  <2>2. target = <<>>
    BY <2>1 DEF WalkInv
  <2>3. Tested = {}
    BY <2>2 DEF Tested
  <2> QED
    BY <2>1, <2>2, <2>3
<1>2. /\ UNCHANGED <<disk, roots, pc, target, count, stats, status, exit,
                     changes, low, high>>
      /\ Ahead' \subseteq Ahead /\ \A p \in Ahead \ Ahead' : ~ There(p)
      /\ Shaped(todo', Listed', pending')
  BY DEF PassOver, Leaves, There
<1>3. Tested' = Tested /\ Walking' = Walking /\ Root' = Root /\ Arguments' = Arguments
  BY <1>2 DEF Tested, Walking, Root, Arguments
<1>4. CountInv'
  <2>1. /\ File \ Ahead \subseteq File \ Ahead' /\ Dir \ Ahead \subseteq Dir \ Ahead'
        /\ File \ Ahead' \in SUBSET Path /\ Dir \ Ahead' \in SUBSET Path
        /\ File \ Ahead \in SUBSET Path /\ Dir \ Ahead \in SUBSET Path
    BY <1>2, DirIsPath DEF File
  <2>2. /\ IsFiniteSet(File \ Ahead') /\ IsFiniteSet(Dir \ Ahead')
        /\ Cardinality(File \ Ahead') \in Nat /\ Cardinality(Dir \ Ahead') \in Nat
        /\ Cardinality(File \ Ahead) \in Nat /\ Cardinality(Dir \ Ahead) \in Nat
    BY <2>1, PathsAreFinite
  <2>3. /\ Cardinality(File \ Ahead) <= Cardinality(File \ Ahead')
        /\ Cardinality(Dir \ Ahead) <= Cardinality(Dir \ Ahead')
    BY <2>1, <2>2, FS_Subset
  <2>4. /\ count.files <= Cardinality(File \ Ahead)
        /\ count.dirs <= Cardinality(Dir \ Ahead)
        /\ count.errors + Len(target) <= count.files
        /\ count.files \in Nat /\ count.dirs \in Nat
    BY <1>1 DEF CountInv, Counts
  <2>5. count.files <= Cardinality(File \ Ahead') /\ count.dirs <= Cardinality(Dir \ Ahead')
    BY <2>2, <2>3, <2>4
  <2> QED
    BY <1>2, <2>4, <2>5 DEF CountInv
<1>5. TypeOK'
  <2>1. todo' \subseteq Dir /\ pending' \subseteq Path
    BY <1>2 DEF Shaped
  <2>2. here' \in {<<>>} \cup {<<d>> : d \in Dir}
    BY DEF PassOver
  <2> QED
    BY <1>1, <1>2, <1>3, <2>1, <2>2 DEF TypeOK
<1>6. WalkInv'
  <2>1. \A d \in todo' \cup Listed' : IsPrefix(Root', d)
    BY <1>3 DEF PassOver
  <2>2. Tested' \subseteq Measured(Root') \ Ahead'
    BY <1>1, <1>3
  <2> QED
    BY <1>1, <1>2, <1>3, <2>1, <2>2 DEF WalkInv
<1>7. HistoryInv'
  BY <1>1, <1>2 DEF HistoryInv
<1>8. SumInv'
  <2> DEFINE S == (Measured(Root) \ Ahead) \ Tested
             T == (Measured(Root) \ Ahead') \ Tested
  <2>1. S \in SUBSET File /\ T \in SUBSET File /\ S \subseteq T
    BY <1>2, MeasuredAreFiles
  <2>2. ASSUME NEW x \in T \ S PROVE low[x] = 0
    <3>1. x \in File /\ ~ There(x)
      BY <1>2, <2>1
    <3>2. low[x] \in Nat /\ low[x] <= 0
      BY <1>1, <3>1, SizesAreNat DEF HistoryInv, There
    <3> QED
      BY <3>2
  <2>3. count.bytes \in Nat
    BY <1>1 DEF Counts
  <2>4. Bounded(low, high, count.bytes, S) /\ low \in [File -> Nat] /\ high \in [File -> Nat]
    BY <1>1 DEF SumInv, HistoryInv
  <2> HIDE DEF S, T
  <2>5. Bounded(low, high, count.bytes, T)
    BY <2>1, <2>2, <2>3, <2>4, BoundedGrows
  <2> QED
    BY <1>1, <1>2, <1>3, <2>5 DEF SumInv, T
<1>9. QuietInv'
  <2> SUFFICES ASSUME changes = 0
               PROVE  /\ \A p \in todo' \cup Listed' \cup pending' \cup Tested' : There(p)
                      /\ Exactly(count.files, Measured(Root) \ Ahead')
                      /\ Exactly(count.dirs, Below(Root, Dir) \ Ahead')
    BY <1>1, <1>2, <1>3 DEF QuietInv, Exactly, There
  <2>1. \A p \in todo' \cup Listed' \cup pending' \cup Tested' : There(p)
    BY <1>1, <1>3 DEF PassOver
  <2>2. /\ Exactly(count.files, Measured(Root) \ Ahead)
        /\ Exactly(count.dirs, Below(Root, Dir) \ Ahead)
    BY <1>1 DEF QuietInv
  <2>3. ASSUME NEW B, B \in SUBSET Path
        PROVE  {p \in B \ Ahead : There(p)} = {p \in B \ Ahead' : There(p)}
    BY <1>2
  <2>4. Measured(Root) \in SUBSET Path /\ Below(Root, Dir) \in SUBSET Path
    BY MeasuredAreFiles
  <2> QED
    BY <2>1, <2>2, <2>3, <2>4 DEF Exactly
<1>10. AlarmIsRaised' /\ AlarmIsEarned'
  BY <1>1, <1>2 DEF AlarmIsRaised, AlarmIsEarned, Covered
<1> QED
  BY <1>4, <1>5, <1>6, <1>7, <1>8, <1>9, <1>10 DEF AuditInv

LEMMA BreakOffKeeps ==
    ASSUME AuditInv, BreakOff
    PROVE  AuditInv'
<1>1. /\ TypeOK /\ WalkInv /\ CountInv /\ HistoryInv /\ SumInv /\ QuietInv
      /\ AlarmIsRaised /\ AlarmIsEarned
  BY DEF AuditInv
<1>2. /\ UNCHANGED <<disk, roots, todo, here, pending, target, count, stats, status,
                     changes, low, high>>
      /\ pc = "walk" /\ pc' = "done" /\ exit' = "raised" /\ changes # 0
  BY DEF BreakOff, walk
<1>3. /\ Tested' = Tested /\ Listed' = Listed /\ Ahead' = Ahead
      /\ ~ Walking' /\ Arguments' = Arguments
  <2>1. Tested' = Tested /\ Listed' = Listed /\ ~ Walking' /\ Arguments' = Arguments
    BY <1>2 DEF Tested, Listed, Walking, Arguments
  <2> QED
    BY <1>2, <2>1 DEF Ahead
<1>4. TypeOK'
  BY <1>1, <1>2, <1>3 DEF TypeOK
<1>5. WalkInv'
  BY <1>1, <1>2, <1>3 DEF WalkInv
<1>6. CountInv'
  BY <1>1, <1>2, <1>3 DEF CountInv
<1>7. HistoryInv' /\ SumInv' /\ QuietInv'
  BY <1>1, <1>2, <1>3 DEF HistoryInv, SumInv, QuietInv
<1>8. AlarmIsRaised' /\ AlarmIsEarned'
  BY <1>1, <1>2 DEF AlarmIsRaised, AlarmIsEarned, Covered
<1> QED
  BY <1>1, <1>4, <1>5, <1>6, <1>7, <1>8 DEF AuditInv

LEMMA CardinalityGrows ==
    ASSUME NEW S \in SUBSET Path, NEW T \in SUBSET Path, S \subseteq T
    PROVE  /\ Cardinality(S) \in Nat /\ Cardinality(T) \in Nat
           /\ Cardinality(S) <= Cardinality(T)
           /\ \A x \in T \ S : /\ Cardinality(S) + 1 <= Cardinality(T)
                               /\ T = S \cup {x} => Cardinality(T) = Cardinality(S) + 1
<1>1. /\ IsFiniteSet(S) /\ Cardinality(S) \in Nat
      /\ IsFiniteSet(T) /\ Cardinality(T) \in Nat
  BY PathsAreFinite
<1>2. Cardinality(S) <= Cardinality(T)
  BY <1>1, FS_Subset
<1>3. ASSUME NEW x \in T \ S
      PROVE  /\ Cardinality(S) + 1 <= Cardinality(T)
             /\ T = S \cup {x} => Cardinality(T) = Cardinality(S) + 1
  <2> DEFINE U == S \cup {x}
  <2>1. IsFiniteSet(U) /\ Cardinality(U) = Cardinality(S) + 1
    BY <1>1, <1>3, FS_AddElement
  <2>2. U \in SUBSET T
    BY <1>3
  <2> HIDE DEF U
  <2>3. Cardinality(U) <= Cardinality(T)
    BY <1>1, <2>2, FS_Subset
  <2> QED
    BY <2>1, <2>3 DEF U
<1> QED
  BY <1>1, <1>2, <1>3

\* An entry comes from before the walk behind it; if it is a file to read, it is
\* in between.
LEMMA TestEntryKeeps ==
    ASSUME AuditInv, TestEntry
    PROVE  AuditInv'
<1>1. /\ TypeOK /\ WalkInv /\ CountInv /\ HistoryInv /\ SumInv /\ QuietInv
      /\ AlarmIsRaised /\ AlarmIsEarned
      /\ disk \in [Path -> Absent .. MaxSize] /\ pc = "walk" /\ Walking
      /\ count \in Counts /\ Shaped(todo, Listed, pending)
  BY DEF AuditInv, TestEntry, TypeOK, Walking, WalkInv
<1>2. target = <<>> /\ Tested = {}
  <2>1. target = <<>>
    BY <1>1 DEF WalkInv
  <2> QED
    BY <2>1 DEF Tested
<1>3. PICK p \in pending :
          /\ pending' = pending \ {p}
          /\ IF There(p) /\ ~ Skipped(Root, p)
             THEN IF p \in Dir
                  THEN /\ count' = [count EXCEPT !.dirs = @ + 1]
                       /\ UNCHANGED <<pc, target>>
                  ELSE /\ count' = [count EXCEPT !.files = @ + 1]
                       /\ pc' = "stat" /\ target' = <<p>>
             ELSE UNCHANGED <<pc, target, count>>
  BY DEF TestEntry
<1>4. UNCHANGED <<todo, here, stats, exit, disk, roots, status, changes, low, high>>
  BY DEF TestEntry, Around
<1>5. /\ Listed' = Listed /\ Root' = Root /\ Arguments' = Arguments
      /\ Root \in Path /\ Len(stats) < Len(Arguments)
  <2>1. Listed' = Listed /\ Root' = Root /\ Arguments' = Arguments
    BY <1>4 DEF Listed, Root, Arguments
  <2> QED
    BY <1>1, <2>1, ArgumentsArePaths DEF WalkInv
<1>6. /\ Shaped(todo', Listed', pending')
      /\ p \in Ahead /\ Ahead' = Ahead \ {p} /\ p \in Path
  <2>1. /\ Shaped(todo, Listed, pending \ {p})
        /\ p \in AheadOf(todo, Listed, pending)
        /\ AheadOf(todo, Listed, pending \ {p}) = AheadOf(todo, Listed, pending) \ {p}
    BY <1>1, TestedShape
  <2>2. todo' = todo /\ Listed' = Listed /\ pending' = pending \ {p}
    BY <1>3, <1>4, <1>5
  <2>3. Ahead' = AheadOf(todo, Listed, pending \ {p})
    BY <2>2 DEF Ahead
  <2>4. p \in Path
    BY <1>1 DEF Shaped
  <2> QED
    BY <2>1, <2>2, <2>3, <2>4 DEF Ahead
<1>7. IsStrictPrefix(Root, p)
  <2>1. PICK d \in Listed : IsPrefix(d, p) /\ Len(p) = Len(d) + 1
    BY <1>1 DEF Shaped
  <2>2. d \in Path /\ IsPrefix(Root, d)
    BY <1>1, DirIsPath DEF WalkInv, Shaped
  <2>3. Len(Root) \in Nat /\ Len(d) \in Nat /\ Len(Root) <= Len(d)
    BY <1>5, <2>2, PathIsSequence, PrefixOrder
  <2>4. IsPrefix(Root, p)
    BY <1>5, <1>6, <2>1, <2>2, PrefixTransitive
  <2> QED
    BY <1>5, <1>6, <2>1, <2>3, <2>4, PrefixOrder
<1>8. \A S : p \in S => (p \in Below(Root, S) <=> ~ Skipped(Root, p))
  BY <1>5, <1>6, <1>7, SkippedIsNotBelow
<1>9. \A S : Below(Root, S) \subseteq S
  BY DEF Below
<1>10. /\ File \ Ahead \in SUBSET Path /\ File \ Ahead' \in SUBSET Path
       /\ Dir \ Ahead \in SUBSET Path /\ Dir \ Ahead' \in SUBSET Path
       /\ File \ Ahead \subseteq File \ Ahead' /\ Dir \ Ahead \subseteq Dir \ Ahead'
       /\ p \in File => p \in (File \ Ahead') \ (File \ Ahead)
       /\ p \in Dir => p \in (Dir \ Ahead') \ (Dir \ Ahead)
  BY <1>6, DirIsPath DEF File
<1>11. /\ count.files \in Nat /\ count.dirs \in Nat /\ count.errors \in Nat
       /\ count.bytes \in Nat /\ count.exists \in BOOLEAN
  BY <1>1 DEF Counts
<1>12. /\ Cardinality(File \ Ahead) \in Nat /\ Cardinality(File \ Ahead') \in Nat
       /\ Cardinality(Dir \ Ahead) \in Nat /\ Cardinality(Dir \ Ahead') \in Nat
       /\ Cardinality(File \ Ahead) <= Cardinality(File \ Ahead')
       /\ Cardinality(Dir \ Ahead) <= Cardinality(Dir \ Ahead')
       /\ p \in File => Cardinality(File \ Ahead) + 1 <= Cardinality(File \ Ahead')
       /\ p \in Dir => Cardinality(Dir \ Ahead) + 1 <= Cardinality(Dir \ Ahead')
  BY <1>10, CardinalityGrows
<1>13. /\ count.files <= Cardinality(File \ Ahead)
       /\ count.dirs <= Cardinality(Dir \ Ahead)
       /\ count.errors <= count.files
  BY <1>1, <1>2, <1>11 DEF CountInv
<1>14. /\ Cardinality(File \ Ahead') <= Cardinality(File)
       /\ Cardinality(Dir \ Ahead') <= Cardinality(Dir)
       /\ Cardinality(File) \in Nat /\ Cardinality(Dir) \in Nat
  <2>1. File \in SUBSET Path /\ Dir \in SUBSET Path
    BY DirIsPath DEF File
  <2> QED
    BY <1>10, <2>1, CardinalityGrows
<1> DEFINE M == Measured(Root)
           D == Below(Root, Dir)
           now(S) == {x \in S : There(x)}
<1>15. /\ M \in SUBSET File /\ D \in SUBSET Dir /\ M \in SUBSET Path /\ D \in SUBSET Path
       /\ p \in File => (p \in M <=> ~ Skipped(Root, p))
       /\ p \in Dir => (p \in D <=> ~ Skipped(Root, p))
       /\ p \in Dir <=> p \notin File
  BY <1>6, <1>8, MeasuredAreFiles DEF Measured, File
<1>16. /\ Bounded(low, high, count.bytes, M \ Ahead)
       /\ low \in [File -> Nat] /\ high \in [File -> Nat]
  <2>1. M \ Ahead = (M \ Ahead) \ Tested
    BY <1>2
  <2> QED
    BY <1>1, <2>1 DEF SumInv, HistoryInv
<1>17. changes = 0 =>
          /\ exit # "raised" /\ There(Root) /\ count.exists /\ count.errors = 0
          /\ \A x \in todo \cup Listed \cup pending : There(x)
          /\ Exactly(count.files, M \ Ahead) /\ Exactly(count.dirs, D \ Ahead)
  BY <1>1 DEF QuietInv
<1>18. \A i \in 1 .. Len(stats) :
          Bounded(low, high, stats[i].bytes, Measured(Arguments[i]))
  BY <1>1 DEF SumInv
<1>19. changes = 0 => \A i \in 1 .. Len(stats) :
              /\ stats[i].exists = There(Arguments[i])
              /\ stats[i].errors = 0
              /\ Exactly(stats[i].files, Measured(Arguments[i]))
              /\ Exactly(stats[i].dirs, Below(Arguments[i], Dir))
  BY <1>1 DEF QuietInv
<1>20. AlarmIsRaised' /\ AlarmIsEarned' /\ HistoryInv'
  BY <1>1, <1>4 DEF AlarmIsRaised, AlarmIsEarned, Covered, HistoryInv
<1>21. /\ disk' \in [Path -> Absent .. MaxSize] /\ IsTree(disk') /\ roots' \in RootLists
       /\ todo' \subseteq Dir /\ pending' \subseteq Path
       /\ here' \in {<<>>} \cup {<<d>> : d \in Dir}
       /\ Len(stats') <= Len(Arguments')
       /\ \A i \in DOMAIN stats' :
             stats'[i] \in Counts /\ stats'[i].errors <= ErrorCap
                                  /\ stats'[i].errors <= stats'[i].files
       /\ exit' \in {"none", "ok", "unsafe_output", "raised"}
       /\ changes' \in 0 .. MaxChanges
       /\ stats' \in Seq(Counts)
  BY <1>1, <1>3, <1>4, <1>5 DEF TypeOK, WalkInv
<1> HIDE DEF M, D
<1>30. CASE There(p) /\ ~ Skipped(Root, p) /\ p \in Dir
  <2>1. /\ count' = [count EXCEPT !.dirs = @ + 1]
        /\ pc' = "walk" /\ target' = <<>>
    BY <1>1, <1>2, <1>3, <1>30
  <2>2. /\ count'.files = count.files /\ count'.dirs = count.dirs + 1
        /\ count'.errors = count.errors /\ count'.bytes = count.bytes
        /\ count'.exists = count.exists
    BY <1>1, <2>1 DEF Counts
  <2>3. Tested' = {} /\ Walking' /\ p \notin File /\ p \in D
    BY <1>15, <1>30, <2>1 DEF Tested, Walking
  <2>4. M \ Ahead' = M \ Ahead /\ D \ Ahead' = (D \ Ahead) \cup {p}
    BY <1>6, <1>15, <2>3
  <2>5. count' \in Counts
    BY <1>1, <1>11, <1>12, <1>13, <1>14, <1>30, <2>1, <2>2 DEF Counts
  <2>6. CountInv'
    BY <1>11, <1>12, <1>13, <1>30, <2>1, <2>2 DEF CountInv
  <2>7. TypeOK'
    BY <1>21, <2>1, <2>5 DEF TypeOK
  <2>8. WalkInv'
    BY <1>1, <1>4, <1>5, <1>6, <1>21, <2>1, <2>3 DEF WalkInv
  <2>9. SumInv'
    <3>1. (M \ Ahead') \ Tested' = M \ Ahead
      BY <2>3, <2>4
    <3> QED
      BY <1>4, <1>5, <1>16, <1>18, <2>2, <3>1 DEF SumInv, M
  <2>10. QuietInv'
    <3>1. ASSUME changes = 0
          PROVE  Exactly(count'.files, M \ Ahead') /\ Exactly(count'.dirs, D \ Ahead')
      <4>1. now(D \ Ahead') = now(D \ Ahead) \cup {p} /\ p \notin now(D \ Ahead)
        BY <1>6, <1>30, <2>4
      <4>2. now(D \ Ahead) \in SUBSET Path /\ now(D \ Ahead') \in SUBSET Path
        BY <1>15
      <4> HIDE DEF now
      <4>3. Cardinality(now(D \ Ahead')) = Cardinality(now(D \ Ahead)) + 1
        BY <4>1, <4>2, CardinalityGrows
      <4>4. count.dirs = Cardinality(now(D \ Ahead)) /\ Exactly(count.files, M \ Ahead)
        BY <1>17, <3>1 DEF Exactly, now
      <4> QED
        BY <2>2, <2>4, <4>3, <4>4 DEF Exactly, now
    <3>2. ASSUME changes = 0
          PROVE  \A x \in todo' \cup Listed' \cup pending' \cup Tested' : There(x)
      BY <1>3, <1>4, <1>5, <1>17, <2>3, <3>2
    <3>3. ASSUME changes = 0
          PROVE  exit # "raised" /\ There(Root) /\ count'.exists /\ count'.errors = 0
      BY <1>17, <2>2, <3>3
    <3> QED
      BY <1>4, <1>5, <1>19, <3>1, <3>2, <3>3 DEF QuietInv, Exactly, There, M, D
  <2> QED
    BY <1>20, <2>6, <2>7, <2>8, <2>9, <2>10 DEF AuditInv
<1>31. CASE There(p) /\ ~ Skipped(Root, p) /\ p \notin Dir
  <2>1. /\ count' = [count EXCEPT !.files = @ + 1]
        /\ pc' = "stat" /\ target' = <<p>>
    BY <1>3, <1>31
  <2>2. /\ count'.files = count.files + 1 /\ count'.dirs = count.dirs
        /\ count'.errors = count.errors /\ count'.bytes = count.bytes
        /\ count'.exists = count.exists
    BY <1>1, <2>1 DEF Counts
  <2>3. p \in File /\ p \in M /\ Walking' /\ Tested' = {p}
    BY <1>15, <1>31, <2>1 DEF Tested, Walking
  <2>4. D \ Ahead' = D \ Ahead /\ M \ Ahead' = (M \ Ahead) \cup {p}
    BY <1>6, <1>15, <1>31, <2>3
  <2>5. count' \in Counts
    BY <1>1, <1>11, <1>12, <1>13, <1>14, <2>1, <2>2, <2>3 DEF Counts
  <2>6. CountInv'
    <3>1. Len(target') = 1 /\ target' # <<>>
      BY <2>1
    <3> QED
      BY <1>11, <1>12, <1>13, <2>2, <2>3, <3>1 DEF CountInv
  <2>7. TypeOK'
    BY <1>21, <2>1, <2>3, <2>5 DEF TypeOK
  <2>8. WalkInv'
    <3>1. Tested' \subseteq M \ Ahead' /\ target' # <<>>
      BY <1>6, <2>1, <2>3
    <3> QED
      BY <1>1, <1>4, <1>5, <1>6, <1>21, <2>1, <3>1 DEF WalkInv, M
  <2>9. SumInv'
    <3>1. (M \ Ahead') \ Tested' = M \ Ahead
      BY <1>6, <2>3, <2>4
    <3> QED
      BY <1>4, <1>5, <1>16, <1>18, <2>2, <3>1 DEF SumInv, M
  <2>10. QuietInv'
    <3>1. ASSUME changes = 0
          PROVE  Exactly(count'.files, M \ Ahead') /\ Exactly(count'.dirs, D \ Ahead')
      <4>1. now(M \ Ahead') = now(M \ Ahead) \cup {p} /\ p \notin now(M \ Ahead)
        BY <1>6, <1>31, <2>4
      <4>2. now(M \ Ahead) \in SUBSET Path /\ now(M \ Ahead') \in SUBSET Path
        BY <1>15
      <4> HIDE DEF now
      <4>3. Cardinality(now(M \ Ahead')) = Cardinality(now(M \ Ahead)) + 1
        BY <4>1, <4>2, CardinalityGrows
      <4>4. count.files = Cardinality(now(M \ Ahead)) /\ Exactly(count.dirs, D \ Ahead)
        BY <1>17, <3>1 DEF Exactly, now
      <4> QED
        BY <2>2, <2>4, <4>3, <4>4 DEF Exactly, now
    <3>2. ASSUME changes = 0
          PROVE  \A x \in todo' \cup Listed' \cup pending' \cup Tested' : There(x)
      BY <1>3, <1>4, <1>5, <1>17, <1>31, <2>3, <3>2
    <3>3. ASSUME changes = 0
          PROVE  exit # "raised" /\ There(Root) /\ count'.exists /\ count'.errors = 0
      BY <1>17, <2>2, <3>3
    <3> QED
      BY <1>4, <1>5, <1>19, <3>1, <3>2, <3>3 DEF QuietInv, Exactly, There, M, D
  <2> QED
    BY <1>20, <2>6, <2>7, <2>8, <2>9, <2>10 DEF AuditInv
<1>32. CASE ~ (There(p) /\ ~ Skipped(Root, p))
  <2>1. UNCHANGED <<pc, target, count>>
    BY <1>3, <1>32
  <2>2. Tested' = {} /\ Walking' /\ pc' = "walk" /\ target' = <<>>
    BY <1>1, <1>2, <2>1 DEF Tested, Walking
  <2>3. CountInv'
    BY <1>11, <1>12, <1>13, <2>1, <2>2 DEF CountInv
  <2>4. TypeOK'
    BY <1>1, <1>21, <2>1, <2>2 DEF TypeOK
  <2>5. WalkInv'
    BY <1>1, <1>4, <1>5, <1>6, <1>21, <2>2 DEF WalkInv
  <2>6. SumInv'
    <3> DEFINE S == M \ Ahead
               T == M \ Ahead'
    <3>1. S \in SUBSET File /\ T \in SUBSET File /\ S \subseteq T
      BY <1>6, <1>15
    <3>2. ASSUME NEW x \in T \ S PROVE low[x] = 0
      <4>1. x = p /\ p \in File /\ ~ There(p)
        BY <1>6, <1>15, <1>32, <3>1
      <4>2. low[x] \in Nat /\ low[x] <= 0
        BY <1>1, <4>1, SizesAreNat DEF HistoryInv, There
      <4> QED
        BY <4>2
    <3>3. Bounded(low, high, count.bytes, S)
      BY <1>16
    <3> HIDE DEF S, T
    <3>4. Bounded(low, high, count.bytes, T)
      BY <1>11, <1>16, <3>1, <3>2, <3>3, BoundedGrows
    <3>5. (M \ Ahead') \ Tested' = T
      BY <2>2 DEF T
    <3> QED
      BY <1>4, <1>5, <1>18, <2>1, <3>4, <3>5 DEF SumInv, M
  <2>7. QuietInv'
    <3>1. ASSUME changes = 0
          PROVE  Exactly(count'.files, M \ Ahead') /\ Exactly(count'.dirs, D \ Ahead')
      <4>1. now(M \ Ahead') = now(M \ Ahead) /\ now(D \ Ahead') = now(D \ Ahead)
        BY <1>6, <1>15, <1>32
      <4> QED
        BY <1>17, <2>1, <3>1, <4>1 DEF Exactly
    <3>2. ASSUME changes = 0
          PROVE  \A x \in todo' \cup Listed' \cup pending' \cup Tested' : There(x)
      BY <1>3, <1>4, <1>5, <1>17, <2>2, <3>2
    <3>3. ASSUME changes = 0
          PROVE  exit # "raised" /\ There(Root) /\ count'.exists /\ count'.errors = 0
      BY <1>17, <2>1, <3>3
    <3> QED
      BY <1>4, <1>5, <1>19, <3>1, <3>2, <3>3 DEF QuietInv, Exactly, There, M, D
  <2> QED
    BY <1>20, <2>3, <2>4, <2>5, <2>6, <2>7 DEF AuditInv
<1> QED
  BY <1>30, <1>31, <1>32

LEMMA StatFileKeeps ==
    ASSUME AuditInv, StatFile
    PROVE  AuditInv'
<1>1. /\ TypeOK /\ WalkInv /\ CountInv /\ HistoryInv /\ SumInv /\ QuietInv
      /\ AlarmIsRaised /\ AlarmIsEarned
      /\ disk \in [Path -> Absent .. MaxSize] /\ pc = "stat" /\ Walking
      /\ count \in Counts
  BY DEF AuditInv, StatFile, TypeOK, Walking
<1>2. PICK f \in File : target = <<f>>
  <2>1. target # <<>>
    BY <1>1 DEF WalkInv
  <2> QED
    BY <1>1, <2>1 DEF TypeOK
<1>3. /\ pc' = "walk" /\ target' = <<>>
      /\ UNCHANGED <<todo, here, pending, stats, exit, disk, roots, status,
                     changes, low, high>>
      /\ count' = IF There(f) THEN [count EXCEPT !.bytes = @ + disk[f]]
                              ELSE [count EXCEPT !.errors = @ + 1]
  BY <1>2 DEF StatFile, Around
<1>4. /\ Tested = {f} /\ Tested' = {} /\ Walking'
      /\ Root' = Root /\ Arguments' = Arguments
      /\ Listed' = Listed /\ Ahead' = Ahead /\ Len(target) = 1 /\ Len(target') = 0
  <2>1. /\ Root' = Root /\ Arguments' = Arguments /\ Listed' = Listed /\ Walking'
    BY <1>3 DEF Root, Arguments, Listed, Walking
  <2>2. Ahead' = Ahead
    BY <1>3, <2>1 DEF Ahead
  <2>3. Tested = {f} /\ Tested' = {}
    BY <1>2, <1>3 DEF Tested
  <2> QED
    BY <1>2, <1>3, <2>1, <2>2, <2>3
<1>5. /\ count.files \in Nat /\ count.dirs \in Nat /\ count.errors \in Nat
      /\ count.bytes \in Nat /\ count.exists \in BOOLEAN
      /\ count.errors + 1 <= count.files
  BY <1>1, <1>4 DEF Counts, CountInv
<1> DEFINE M == Measured(Root)
           m == Sizes(disk)[f]
<1>6. /\ f \in M /\ f \notin Ahead /\ M \in SUBSET File
  BY <1>1, <1>4, MeasuredAreFiles DEF WalkInv
<1>7. /\ m \in Nat /\ low[f] <= m /\ m <= high[f]
      /\ There(f) => m = disk[f]
      /\ ~ There(f) => m = 0
  BY <1>1, SizesAreNat DEF HistoryInv, There
<1> HIDE DEF M, m
<1>8. /\ count'.files = count.files /\ count'.dirs = count.dirs
      /\ count'.exists = count.exists
      /\ count'.bytes = count.bytes + m
      /\ count'.errors = IF There(f) THEN count.errors ELSE count.errors + 1
      /\ count' \in Counts
  <2>1. CASE There(f)
    <3>1. count' = [count EXCEPT !.bytes = @ + disk[f]] /\ disk[f] = m
      BY <1>3, <1>7, <2>1
    <3> QED
      BY <1>1, <1>5, <1>7, <2>1, <3>1 DEF Counts
  <2>2. CASE ~ There(f)
    <3>1. count' = [count EXCEPT !.errors = @ + 1] /\ m = 0
      BY <1>3, <1>7, <2>2
    <3> QED
      BY <1>1, <1>5, <2>2, <3>1 DEF Counts
  <2> QED
    BY <2>1, <2>2
<1>9. TypeOK'
  BY <1>1, <1>3, <1>4, <1>8 DEF TypeOK
<1>10. WalkInv'
  BY <1>1, <1>3, <1>4 DEF WalkInv
<1>11. CountInv'
  <2>1. /\ count.files <= Cardinality(File \ Ahead)
        /\ count.dirs <= Cardinality(Dir \ Ahead)
    BY <1>1 DEF CountInv
  <2>2. count'.errors + Len(target') <= count'.files
    BY <1>4, <1>5, <1>8
  <2> QED
    BY <1>4, <1>8, <2>1, <2>2 DEF CountInv
<1>12. HistoryInv' /\ AlarmIsRaised' /\ AlarmIsEarned'
  BY <1>1, <1>3 DEF HistoryInv, AlarmIsRaised, AlarmIsEarned, Covered
<1>13. SumInv'
  <2> DEFINE S == (M \ Ahead) \ Tested
  <2>1. /\ S \in SUBSET File /\ f \notin S
        /\ S \cup {f} = (M \ Ahead') \ Tested'
    BY <1>4, <1>6
  <2>2. /\ Bounded(low, high, count.bytes, S)
        /\ low \in [File -> Nat] /\ high \in [File -> Nat]
    BY <1>1 DEF SumInv, HistoryInv, M
  <2> HIDE DEF S
  <2>3. Bounded(low, high, count.bytes + m, S \cup {f})
    BY <1>5, <1>7, <2>1, <2>2, BoundedAdds
  <2>4. Bounded(low, high, count'.bytes, (M \ Ahead') \ Tested')
    BY <1>8, <2>1, <2>3
  <2> QED
    BY <1>1, <1>3, <1>4, <2>4 DEF SumInv, M
<1>14. QuietInv'
  <2>1. ASSUME changes = 0
        PROVE  /\ There(Root)
               /\ \A p \in todo' \cup Listed' \cup pending' \cup Tested' : There(p)
               /\ count'.exists /\ count'.errors = 0
               /\ Exactly(count'.files, M \ Ahead')
               /\ Exactly(count'.dirs, Below(Root, Dir) \ Ahead')
    <3>1. There(f)
      BY <1>1, <1>4, <2>1 DEF QuietInv
    <3> QED
      BY <1>1, <1>3, <1>4, <1>8, <2>1, <3>1 DEF QuietInv, M
  <2>2. ASSUME changes = 0
        PROVE  /\ exit # "raised"
               /\ \A i \in 1 .. Len(stats) :
                     /\ stats[i].exists = There(Arguments[i])
                     /\ stats[i].errors = 0
                     /\ Exactly(stats[i].files, Measured(Arguments[i]))
                     /\ Exactly(stats[i].dirs, Below(Arguments[i], Dir))
    BY <1>1, <2>2 DEF QuietInv
  <2>3. ASSUME changes = 0
        PROVE  \A p \in todo' \cup Listed' \cup pending' \cup Tested' : There(p)
    BY <2>1, <2>3
  <2>4. ASSUME changes = 0
        PROVE  /\ exit # "raised" /\ There(Root)
               /\ count'.exists /\ count'.errors = 0
               /\ Exactly(count'.files, M \ Ahead')
               /\ Exactly(count'.dirs, Below(Root, Dir) \ Ahead')
    BY <2>1, <2>2, <2>4
  <2>5. /\ changes' = changes /\ exit' = exit /\ disk' = disk /\ stats' = stats
        /\ Root' = Root /\ Arguments' = Arguments
    BY <1>3, <1>4
  <2> QED
    BY <2>2, <2>3, <2>4, <2>5 DEF QuietInv, Exactly, There, M
<1> QED
  BY <1>9, <1>10, <1>11, <1>12, <1>13, <1>14 DEF AuditInv

\* A root that is gone holds nothing; from one that is there, everything below
\* is before the walk.
LEMMA OpenRootKeeps ==
    ASSUME AuditInv, OpenRoot
    PROVE  AuditInv'
<1>1. /\ TypeOK /\ WalkInv /\ CountInv /\ HistoryInv /\ SumInv /\ QuietInv
      /\ AlarmIsRaised /\ AlarmIsEarned
      /\ disk \in [Path -> Absent .. MaxSize] /\ IsTree(disk)
      /\ pc = "root" /\ ~ Walking /\ stats \in Seq(Counts) /\ Len(stats) < Len(Arguments)
  BY DEF AuditInv, OpenRoot, TypeOK, Walking, WalkInv
<1>2. /\ UNCHANGED <<exit, disk, roots, status, changes, low, high>>
      /\ Arguments' = Arguments
  BY DEF OpenRoot, Around, Arguments
<1>3. /\ todo = {} /\ here = <<>> /\ Listed = {} /\ pending = {}
      /\ target = <<>> /\ Tested = {} /\ Ahead = {}
  <2>1. todo = {} /\ here = <<>> /\ target = <<>>
    BY <1>1 DEF WalkInv
  <2>2. Listed = {} /\ Tested = {}
    BY <2>1 DEF Listed, Tested
  <2>3. pending = {}
    BY <1>1, <2>2 DEF WalkInv, Shaped
  <2> QED
    BY <2>1, <2>2, <2>3 DEF Ahead, AheadOf
<1>4. /\ Root \in Path /\ Len(stats) \in Nat /\ Len(Arguments) \in Nat
      /\ Root = Arguments[Len(stats) + 1]
  BY <1>1, ArgumentsArePaths DEF Root
<1>5. /\ low \in [File -> Nat] /\ high \in [File -> Nat]
      /\ \A x \in File : ~ There(x) => low[x] = 0
  <2>1. low \in [File -> Nat] /\ high \in [File -> Nat]
    BY <1>1 DEF HistoryInv
  <2>2. ASSUME NEW x \in File, ~ There(x) PROVE low[x] = 0
    <3>1. low[x] \in Nat /\ low[x] <= 0
      BY <1>1, <2>1, <2>2, SizesAreNat DEF HistoryInv, There
    <3> QED
      BY <3>1
  <2> QED
    BY <2>1, <2>2
<1>6. HistoryInv' /\ AlarmIsRaised' /\ AlarmIsEarned'
  BY <1>1, <1>2 DEF HistoryInv, AlarmIsRaised, AlarmIsEarned, Covered
<1>7. Cardinality({}) = 0
  BY FS_EmptySet
<1>8. CASE /\ ~ There(Root)
           /\ stats' = Append(stats, Gone)
           /\ UNCHANGED <<pc, walk>>
  <2>1. UNCHANGED <<pc, todo, here, pending, target, count>>
    BY <1>8 DEF walk
  <2>2. /\ Listed' = Listed /\ Tested' = Tested /\ ~ Walking' /\ Ahead' = Ahead
    <3>1. Listed' = Listed /\ Tested' = Tested /\ ~ Walking'
      BY <1>1, <2>1 DEF Listed, Tested, Walking
    <3> QED
      BY <2>1, <3>1 DEF Ahead
  <2>3. /\ Gone \in Counts /\ Gone.errors = 0 /\ Gone.files = 0 /\ Gone.bytes = 0
        /\ Gone.dirs = 0 /\ Gone.exists = FALSE
    <3>1. Cardinality(File) \in Nat /\ Cardinality(Dir) \in Nat
      BY PathsAreFinite, DirIsPath DEF File
    <3> DEFINE R == [exists : BOOLEAN, bytes : {0}, files : {0}, dirs : {0}, errors : {0}]
    <3>2. Zero \in R
      BY DEF Zero
    <3>3. Gone \in R /\ Gone.exists = FALSE
      <4> HIDE DEF Zero
      <4> QED
        BY <3>2 DEF Gone
    <3> HIDE DEF Gone
    <3> QED
      BY <3>1, <3>3 DEF Counts
  <2>4. /\ stats' \in Seq(Counts) /\ Len(stats') = Len(stats) + 1
        /\ \A i \in 1 .. Len(stats) : stats'[i] = stats[i]
        /\ stats'[Len(stats) + 1] = Gone
    BY <1>1, <1>8, <2>3
  <2> HIDE DEF Gone
  <2>5. \A i \in 1 .. Len(stats') : i \in 1 .. Len(stats) \/ i = Len(stats) + 1
    BY <1>4, <2>4
  <2>6. TypeOK'
    <3>1. ErrorCap \in Nat
      BY StorageGuardAssumption
    <3>2. ASSUME NEW i \in DOMAIN stats'
          PROVE  stats'[i] \in Counts /\ stats'[i].errors <= ErrorCap
                                      /\ stats'[i].errors <= stats'[i].files
      <4>1. i \in 1 .. Len(stats) \/ i = Len(stats) + 1
        BY <2>4, <2>5
      <4> QED
        BY <1>1, <2>3, <2>4, <3>1, <4>1 DEF TypeOK
    <3> QED
      BY <1>1, <1>2, <1>4, <2>1, <2>2, <2>4, <3>2 DEF TypeOK
  <2>7. WalkInv'
    BY <1>1, <2>1, <2>2, <2>4 DEF WalkInv
  <2>8. CountInv'
    BY <1>1, <2>1, <2>2 DEF CountInv
  <2>9. \A x \in Path : IsStrictPrefix(Root, x) => ~ There(x)
    BY <1>1, <1>4, <1>8, AboveIsThere DEF There, IsStrictPrefix
  <2>10. /\ \A x \in Measured(Root) : ~ There(x) /\ x \in File
         /\ \A x \in Below(Root, Dir) : ~ There(x)
    BY <2>9, DirIsPath DEF Measured, Below, File
  <2>11. SumInv'
    <3>1. Bounded(low, high, 0, Measured(Root))
      BY <1>5, <2>10, MeasuredAreFiles, BoundedByNothing
    <3>2. ASSUME NEW i \in 1 .. Len(stats')
          PROVE  Bounded(low, high, stats'[i].bytes, Measured(Arguments[i]))
      BY <1>1, <1>4, <2>3, <2>4, <2>5, <3>1 DEF SumInv
    <3> QED
      BY <1>2, <2>2, <3>2 DEF SumInv
  <2>12. QuietInv'
    <3> SUFFICES ASSUME changes = 0, NEW i \in 1 .. Len(stats')
                 PROVE  /\ stats'[i].exists = There(Arguments[i])
                        /\ stats'[i].errors = 0
                        /\ Exactly(stats'[i].files, Measured(Arguments[i]))
                        /\ Exactly(stats'[i].dirs, Below(Arguments[i], Dir))
      BY <1>1, <1>2, <2>2 DEF QuietInv, Exactly, There
    <3>1. CASE i \in 1 .. Len(stats)
      BY <1>1, <2>4, <3>1 DEF QuietInv
    <3>2. CASE i = Len(stats) + 1
      <4>1. /\ {x \in Measured(Root) : There(x)} = {}
            /\ {x \in Below(Root, Dir) : There(x)} = {}
        BY <2>10
      <4>2. Exactly(0, Measured(Root)) /\ Exactly(0, Below(Root, Dir))
        BY <1>7, <4>1 DEF Exactly
      <4>3. stats'[i] = Gone /\ Arguments[i] = Root
        BY <1>4, <2>4, <3>2
      <4> QED
        BY <1>8, <2>3, <4>2, <4>3 DEF There
    <3> QED
      BY <2>5, <3>1, <3>2
  <2> QED
    BY <1>6, <2>6, <2>7, <2>8, <2>11, <2>12 DEF AuditInv
<1>9. CASE /\ There(Root)
           /\ pc' = "walk"
           /\ todo' = {Root} \cap Dir
           /\ count' = Zero
           /\ UNCHANGED <<here, pending, target, stats>>
  <2>1. /\ Listed' = {} /\ Tested' = {} /\ Walking' /\ pending' = {} /\ target' = <<>>
        /\ here' = <<>> /\ Root' = Root
    BY <1>2, <1>3, <1>9 DEF Listed, Tested, Walking, Root, Arguments
  <2>2. Shaped(todo', Listed', pending')
    BY <1>9, <2>1 DEF Shaped, Apart
  <2>3. ASSUME NEW x \in Path, IsStrictPrefix(Root, x) PROVE x \in Ahead'
    <3>1. Root \in todo'
      BY <1>4, <1>9, <2>3, NothingBelowFiles
    <3> QED
      BY <2>3, <3>1 DEF Ahead, AheadOf
  <2>4. Measured(Root) \ Ahead' = {} /\ Below(Root, Dir) \ Ahead' = {}
    BY <2>3, DirIsPath DEF Measured, Below, File
  <2>5. /\ count' \in Counts /\ count'.bytes = 0 /\ count'.files = 0 /\ count'.dirs = 0
        /\ count'.errors = 0 /\ count'.exists
    <3>1. Cardinality(File) \in Nat /\ Cardinality(Dir) \in Nat
      BY PathsAreFinite, DirIsPath DEF File
    <3> QED
      BY <1>9, <3>1 DEF Zero, Counts
  <2>6. TypeOK'
    BY <1>1, <1>2, <1>9, <2>1, <2>5 DEF TypeOK
  <2>7. WalkInv'
    <3>1. \A d \in todo' \cup Listed' : IsPrefix(Root', d)
      BY <1>4, <1>9, <2>1, PrefixOrder
    <3> QED
      BY <1>1, <1>2, <1>9, <2>1, <2>2, <3>1 DEF WalkInv
  <2>8. CountInv'
    <3>1. Cardinality(File \ Ahead') \in Nat /\ Cardinality(Dir \ Ahead') \in Nat
      <4>1. File \ Ahead' \in SUBSET Path /\ Dir \ Ahead' \in SUBSET Path
        BY DirIsPath DEF File
      <4> QED
        BY <4>1, PathsAreFinite
    <3> QED
      BY <2>1, <2>5, <3>1 DEF CountInv
  <2>9. SumInv'
    <3>1. Bounded(low, high, 0, {})
      BY <1>5, BoundedByNothing
    <3>2. (Measured(Root) \ Ahead') \ Tested' = {}
      BY <2>4
    <3> QED
      BY <1>1, <1>2, <1>9, <2>1, <2>5, <3>1, <3>2 DEF SumInv
  <2>10. QuietInv'
    <3>1. \A B : B = {} => Exactly(0, B)
      <4>1. \A B : B = {} => {x \in B : There(x)} = {}
        OBVIOUS
      <4> QED
        BY <1>7, <4>1 DEF Exactly
    <3>2. /\ Exactly(count'.files, Measured(Root) \ Ahead')
          /\ Exactly(count'.dirs, Below(Root, Dir) \ Ahead')
      BY <2>4, <2>5, <3>1
    <3>3. \A p \in todo' \cup Listed' \cup pending' \cup Tested' : There(p)
      BY <1>9, <2>1
    <3> QED
      BY <1>1, <1>2, <1>9, <2>1, <2>5, <3>2, <3>3 DEF QuietInv, Exactly, There
  <2> QED
    BY <1>6, <2>6, <2>7, <2>8, <2>9, <2>10 DEF AuditInv
<1> QED
  BY <1>8, <1>9 DEF OpenRoot

\* At the end of a walk nothing is before it.
LEMMA CloseRootKeeps ==
    ASSUME AuditInv, CloseRoot
    PROVE  AuditInv'
<1> DEFINE done == [count EXCEPT !.errors = IF @ < ErrorCap THEN @ ELSE ErrorCap]
<1>1. /\ TypeOK /\ WalkInv /\ CountInv /\ HistoryInv /\ SumInv /\ QuietInv
      /\ AlarmIsRaised /\ AlarmIsEarned
      /\ pc = "walk" /\ Walking /\ todo = {} /\ here = <<>>
      /\ stats \in Seq(Counts) /\ Len(stats) < Len(Arguments) /\ count \in Counts
      /\ pc' = "root" /\ stats' = Append(stats, done)
  BY DEF AuditInv, CloseRoot, TypeOK, Walking, WalkInv
<1>2. /\ UNCHANGED <<exit, disk, roots, todo, here, pending, target, count, status,
                     changes, low, high>>
      /\ Arguments' = Arguments
  BY DEF CloseRoot, Around, Arguments, walk
<1>3. target = <<>> /\ Listed = {} /\ Tested = {} /\ Ahead = {}
  <2>1. target = <<>>
    BY <1>1 DEF WalkInv
  <2>2. Listed = {} /\ Tested = {}
    BY <1>1, <2>1 DEF Listed, Tested
  <2>3. pending = {}
    BY <1>1, <2>2 DEF WalkInv, Shaped
  <2> QED
    BY <1>1, <2>1, <2>2, <2>3 DEF Ahead, AheadOf
<1>4. Listed' = Listed /\ Tested' = Tested /\ Ahead' = Ahead /\ ~ Walking'
  <2>1. Listed' = Listed /\ Tested' = Tested /\ ~ Walking'
    BY <1>1, <1>2 DEF Listed, Tested, Walking
  <2> QED
    BY <1>2, <2>1 DEF Ahead
<1>5. /\ Len(stats) \in Nat /\ Len(Arguments) \in Nat
      /\ Root = Arguments[Len(stats) + 1]
  BY <1>1, ArgumentsArePaths DEF Root
<1>6. /\ count.errors \in Nat /\ count.files \in Nat /\ ErrorCap \in Nat
      /\ count.errors <= count.files
  BY <1>1, <1>3, StorageGuardAssumption DEF Counts, CountInv
<1>7. /\ done \in Counts
      /\ done.bytes = count.bytes /\ done.files = count.files /\ done.dirs = count.dirs
      /\ done.exists = count.exists
      /\ done.errors = IF count.errors < ErrorCap THEN count.errors ELSE ErrorCap
  BY <1>1, <1>6 DEF Counts
<1>8. /\ done.errors <= ErrorCap /\ done.errors <= done.files
      /\ count.errors = 0 => done.errors = 0
  BY <1>6, <1>7
<1> HIDE DEF done
<1>9. /\ stats' \in Seq(Counts) /\ Len(stats') = Len(stats) + 1
      /\ \A i \in 1 .. Len(stats) : stats'[i] = stats[i]
      /\ stats'[Len(stats) + 1] = done
  BY <1>1, <1>7
<1>10. \A i \in 1 .. Len(stats') : i \in 1 .. Len(stats) \/ i = Len(stats) + 1
  BY <1>5, <1>9
<1>11. TypeOK'
  <2>1. ASSUME NEW i \in DOMAIN stats'
        PROVE  stats'[i] \in Counts /\ stats'[i].errors <= ErrorCap
                                    /\ stats'[i].errors <= stats'[i].files
    <3>1. i \in 1 .. Len(stats) \/ i = Len(stats) + 1
      BY <1>9, <1>10
    <3>2. CASE i \in 1 .. Len(stats)
      BY <1>1, <1>9, <3>2 DEF TypeOK
    <3> QED
      BY <1>7, <1>8, <1>9, <3>1, <3>2
  <2>2. Len(stats') <= Len(Arguments')
    BY <1>1, <1>2, <1>5, <1>9
  <2> QED
    BY <1>1, <1>2, <2>1, <2>2 DEF TypeOK
<1>12. WalkInv'
  BY <1>1, <1>2, <1>3, <1>4, <1>9 DEF WalkInv
<1>13. CountInv' /\ HistoryInv' /\ AlarmIsRaised' /\ AlarmIsEarned'
  BY <1>1, <1>2, <1>4 DEF CountInv, HistoryInv, AlarmIsRaised, AlarmIsEarned, Covered
<1>14. SumInv'
  <2>1. Bounded(low, high, done.bytes, Measured(Root))
    <3>1. (Measured(Root) \ Ahead) \ Tested = Measured(Root)
      BY <1>3
    <3> QED
      BY <1>1, <1>7, <3>1 DEF SumInv
  <2>2. ASSUME NEW i \in 1 .. Len(stats')
        PROVE  Bounded(low, high, stats'[i].bytes, Measured(Arguments[i]))
    BY <1>1, <1>5, <1>9, <1>10, <2>1 DEF SumInv
  <2> QED
    BY <1>2, <1>4, <2>2 DEF SumInv
<1>15. QuietInv'
  <2> SUFFICES ASSUME changes = 0, NEW i \in 1 .. Len(stats')
               PROVE  /\ stats'[i].exists = There(Arguments[i])
                      /\ stats'[i].errors = 0
                      /\ Exactly(stats'[i].files, Measured(Arguments[i]))
                      /\ Exactly(stats'[i].dirs, Below(Arguments[i], Dir))
    BY <1>1, <1>2, <1>4 DEF QuietInv, Exactly, There
  <2>1. CASE i \in 1 .. Len(stats)
    BY <1>1, <1>9, <2>1 DEF QuietInv
  <2>2. CASE i = Len(stats) + 1
    <3>1. /\ Measured(Root) \ Ahead = Measured(Root)
          /\ Below(Root, Dir) \ Ahead = Below(Root, Dir)
      BY <1>3
    <3>2. /\ There(Root) /\ count.exists /\ count.errors = 0
          /\ Exactly(count.files, Measured(Root))
          /\ Exactly(count.dirs, Below(Root, Dir))
      BY <1>1, <3>1 DEF QuietInv
    <3>3. stats'[i] = done /\ Arguments[i] = Root
      BY <1>5, <1>9, <2>2
    <3>4. count.exists \in BOOLEAN
      BY <1>1 DEF Counts
    <3> QED
      BY <1>7, <1>8, <3>2, <3>3, <3>4 DEF There
  <2> QED
    BY <1>10, <2>1, <2>2
<1> QED
  BY <1>11, <1>12, <1>13, <1>14, <1>15 DEF AuditInv

\* The status is decided by a sum that lies between what was there all the time
\* and what was there at its largest.
LEMMA ClassifyKeeps ==
    ASSUME AuditInv, Classify
    PROVE  AuditInv'
<1>1. /\ TypeOK /\ WalkInv /\ CountInv /\ HistoryInv /\ SumInv /\ QuietInv
      /\ pc = "root" /\ pc' = "report" /\ stats \in Seq(Counts)
      /\ Len(stats) = Len(Arguments)
      /\ status' = classify_capacity(Total(stats))
      /\ low \in [File -> Nat] /\ high \in [File -> Nat]
  BY DEF AuditInv, Classify, WalkInv, HistoryInv
<1>2. UNCHANGED <<disk, roots, todo, here, pending, target, count, stats, exit,
                  changes, low, high>>
  BY DEF Classify, walk
<1>3. /\ Listed' = Listed /\ Tested' = Tested /\ Ahead' = Ahead
      /\ ~ Walking /\ ~ Walking' /\ Arguments' = Arguments
  <2>1. /\ Listed' = Listed /\ Tested' = Tested /\ ~ Walking /\ ~ Walking'
        /\ Arguments' = Arguments
    BY <1>1, <1>2 DEF Listed, Tested, Walking, Arguments
  <2> QED
    BY <1>2, <2>1 DEF Ahead
<1>4. TypeOK' /\ WalkInv' /\ CountInv' /\ HistoryInv'
  <2>1. TypeOK' /\ CountInv' /\ HistoryInv'
    BY <1>1, <1>2, <1>3 DEF TypeOK, CountInv, HistoryInv
  <2>2. WalkInv'
    BY <1>1, <1>2, <1>3 DEF WalkInv
  <2> QED
    BY <2>1, <2>2
<1>5. SumInv' /\ QuietInv'
  BY <1>1, <1>2, <1>3 DEF SumInv, QuietInv, Exactly, There
<1> DEFINE n == Len(roots)
           M == [i \in 1 .. n |-> Measured(roots[i])]
           b == [i \in 1 .. n |-> stats[i].bytes]
           total == SumFunctionOnSet(b, 1 .. n)
<1>6. /\ n \in Nat /\ Len(stats) = n + 1 /\ roots \in Seq(Path)
      /\ \A i \in 1 .. n : Arguments[i] = roots[i]
  BY <1>1, ArgumentsArePaths
<1>7. /\ M \in [1 .. n -> SUBSET File] /\ b \in [1 .. n -> Nat]
      /\ \A i \in 1 .. n : Bounded(low, high, b[i], M[i])
  <2> SUFFICES ASSUME NEW i \in 1 .. n
               PROVE  /\ Measured(roots[i]) \in SUBSET File
                      /\ stats[i].bytes \in Nat
                      /\ Bounded(low, high, stats[i].bytes, Measured(roots[i]))
    OBVIOUS
  <2>1. i \in 1 .. Len(stats) /\ Arguments[i] = roots[i]
    BY <1>6
  <2>2. stats[i] \in Counts
    BY <1>1, <2>1
  <2>3. Bounded(low, high, stats[i].bytes, Measured(roots[i]))
    BY <1>1, <2>1 DEF SumInv
  <2> QED
    BY <2>2, <2>3, MeasuredAreFiles DEF Counts
<1>8. Covered = UNION {M[i] : i \in 1 .. n} /\ Total(stats) = total
  <2>1. DOMAIN roots = 1 .. n
    BY <1>6
  <2>2. Covered = UNION {M[i] : i \in 1 .. n}
    BY <2>1 DEF Covered
  <2>3. Total(stats) = total
    BY DEF Total
  <2> QED
    BY <2>2, <2>3
<1>9. /\ total \in Nat /\ SumFunctionOnSet(low, Covered) <= total
      /\ (\A i, j \in 1 .. n : i # j => M[i] \cap M[j] = {})
             => total <= SumFunctionOnSet(high, Covered)
  <2> HIDE DEF n, M, b
  <2> DEFINE covered == UNION {M[i] : i \in 1 .. n}
  <2>1. /\ total \in Nat /\ SumFunctionOnSet(low, covered) <= total
        /\ (\A i, j \in 1 .. n : i # j => M[i] \cap M[j] = {})
               => total <= SumFunctionOnSet(high, covered)
    BY <1>1, <1>6, <1>7, TotalIsBounded
  <2>2. Covered = covered
    BY <1>8
  <2> HIDE DEF covered, total
  <2> QED
    BY <2>1, <2>2
<1>10. /\ SumFunctionOnSet(low, Covered) \in Nat
       /\ SumFunctionOnSet(high, Covered) \in Nat
  <2>1. Covered \in SUBSET File
    BY MeasuredAreFiles DEF Covered
  <2> QED
    BY <1>1, <2>1, SumIsNat
<1>11. Covered' = Covered
  BY <1>2 DEF Covered
<1>12. (\A i, j \in DOMAIN roots : i # j => Measured(roots[i]) \cap Measured(roots[j]) = {})
         => \A i, j \in 1 .. n : i # j => M[i] \cap M[j] = {}
  BY <1>6
<1> HIDE DEF n, M, b, total
<1>13. status' = classify_capacity(total)
  BY <1>1, <1>8
<1>14. status' = "above_hard_limit" <=> total > Hard
  BY <1>9, <1>13, StorageGuardAssumption DEF classify_capacity
<1>15. AlarmIsRaised'
  BY <1>2, <1>9, <1>10, <1>11, <1>14, StorageGuardAssumption DEF AlarmIsRaised
<1>16. AlarmIsEarned'
  BY <1>2, <1>9, <1>10, <1>11, <1>12, <1>14, StorageGuardAssumption DEF AlarmIsEarned
<1> QED
  BY <1>4, <1>5, <1>15, <1>16 DEF AuditInv

LEMMA ReportKeeps ==
    ASSUME AuditInv, Report
    PROVE  AuditInv'
<1>1. /\ TypeOK /\ WalkInv /\ CountInv /\ HistoryInv /\ SumInv /\ QuietInv
      /\ AlarmIsRaised /\ AlarmIsEarned
      /\ pc = "report" /\ pc' = "done" /\ exit' \in {"ok", "unsafe_output"}
  BY DEF AuditInv, Report
<1>2. UNCHANGED <<disk, roots, todo, here, pending, target, count, stats, status,
                  changes, low, high>>
  BY DEF Report, Around, walk
<1>3. /\ Listed' = Listed /\ Tested' = Tested /\ Ahead' = Ahead
      /\ ~ Walking /\ ~ Walking' /\ Arguments' = Arguments
  <2>1. /\ Listed' = Listed /\ Tested' = Tested /\ ~ Walking /\ ~ Walking'
        /\ Arguments' = Arguments
    BY <1>1, <1>2 DEF Listed, Tested, Walking, Arguments
  <2> QED
    BY <1>2, <2>1 DEF Ahead
<1>4. TypeOK' /\ CountInv' /\ HistoryInv' /\ AlarmIsRaised' /\ AlarmIsEarned'
  BY <1>1, <1>2, <1>3
     DEF TypeOK, CountInv, HistoryInv, AlarmIsRaised, AlarmIsEarned, Covered
<1>5. WalkInv'
  BY <1>1, <1>2, <1>3 DEF WalkInv
<1>6. SumInv' /\ QuietInv'
  BY <1>1, <1>2, <1>3 DEF SumInv, QuietInv, Exactly, There
<1> QED
  BY <1>4, <1>5, <1>6 DEF AuditInv

-----------------------------------------------------------------------------
(* The programs that are measured.                                         *)

\* The changes leave a tree.
LEMMA ChangesAreTrees ==
    ASSUME TypeOK, WriteFile \/ MoveFile \/ MakeDir \/ TakeAway
    PROVE  \E f \in [Path -> Absent .. MaxSize] : IsTree(f) /\ Now(f)
<1>1. /\ disk \in [Path -> Absent .. MaxSize] /\ IsTree(disk)
      /\ MaxSize \in Nat /\ Absent = -1 /\ Absent \in Absent .. MaxSize
      /\ 0 .. MaxSize \subseteq Absent .. MaxSize
      /\ \A n \in 0 .. MaxSize : n # Absent
  BY StorageGuardAssumption DEF TypeOK, Absent
<1>2. \A p \in Path : Parent(p) \in Path =>
          Parent(p) \in Dir /\ Parent(p) # p /\ IsPrefix(Parent(p), p)
  <2> SUFFICES ASSUME NEW p \in Path, Parent(p) \in Path
               PROVE  Parent(p) \in Dir /\ Parent(p) # p /\ IsPrefix(Parent(p), p)
    OBVIOUS
  <2>1. Len(p) > 1
    <3>1. p \in Seq(Name) /\ Len(p) \in Nat /\ Len(p) > 0 /\ Len(Parent(p)) > 0
      BY PathIsSequence
    <3>2. Len(SubSeq(p, 1, 0)) = 0
      BY <3>1
    <3>3. ASSUME ~ (Len(p) > 1) PROVE FALSE
      <4>1. Len(p) - 1 = 0
        BY <3>1, <3>3
      <4>2. Parent(p) = SubSeq(p, 1, 0)
        BY <4>1 DEF Parent, Front
      <4>3. Len(Parent(p)) = 0
        BY <3>2, <4>2
      <4> QED
        BY <3>1, <4>3
    <3> QED
      BY <3>3
  <2> DEFINE e == SubSeq(p, 1, Len(p) - 1)
  <2>2. /\ Parent(p) = e /\ e \in Dir /\ Len(e) = Len(p) - 1 /\ IsPrefix(e, p)
        /\ Len(p) \in Nat
    BY <2>1, ParentIsAncestor, AncestorIsDir, PathIsSequence
  <2> HIDE DEF e
  <2> QED
    BY <2>2
<1>3. \A p \in Path : disk[p] # Absent /\ Parent(p) \in Path => disk[Parent(p)] # Absent
  BY <1>1 DEF IsTree
<1>4. CASE WriteFile
  <2>1. PICK x \in File, size \in 0 .. MaxSize :
            There(Parent(x)) /\ Now([disk EXCEPT ![x] = size])
    BY <1>4 DEF WriteFile
  <2> DEFINE f == [disk EXCEPT ![x] = size]
  <2>2. x \in Path /\ size \in Absent .. MaxSize /\ size # Absent
    BY <1>1 DEF File
  <2>3. f \in [Path -> Absent .. MaxSize]
    BY <1>1, <2>2
  <2>4. IsTree(f)
    <3> SUFFICES ASSUME NEW p \in Path, f[p] # Absent, Parent(p) \in Path
                 PROVE  f[Parent(p)] # Absent
      BY DEF IsTree
    <3>1. CASE p = x
      BY <1>1, <1>2, <2>1, <2>2, <3>1 DEF There
    <3>2. CASE p # x
      BY <1>1, <1>3, <2>2, <3>2
    <3> QED
      BY <3>1, <3>2
  <2> QED
    BY <2>1, <2>3, <2>4
<1>5. CASE MoveFile
  <2>1. PICK x \in File : \E y \in File :
            /\ There(x) /\ There(Parent(y)) /\ x # y
            /\ Now([disk EXCEPT ![y] = disk[x], ![x] = Absent])
    BY <1>5 DEF MoveFile
  <2>2. PICK y \in File :
            /\ There(x) /\ There(Parent(y)) /\ x # y
            /\ Now([disk EXCEPT ![y] = disk[x], ![x] = Absent])
    BY <2>1
  <2> DEFINE f == [disk EXCEPT ![y] = disk[x], ![x] = Absent]
  <2>3. x \in Path /\ y \in Path /\ x \notin Dir /\ y \notin Dir
    BY DEF File
  <2>4. f \in [Path -> Absent .. MaxSize]
    BY <1>1, <2>3
  <2>5. \A p \in Path : f[p] = IF p = x THEN Absent ELSE IF p = y THEN disk[x] ELSE disk[p]
    BY <1>1, <2>2, <2>3
  <2> HIDE DEF f
  <2>6. IsTree(f)
    <3> SUFFICES ASSUME NEW p \in Path, f[p] # Absent, Parent(p) \in Path
                 PROVE  f[Parent(p)] # Absent
      BY DEF IsTree
    <3>1. f[Parent(p)] = disk[Parent(p)]
      BY <1>2, <2>3, <2>5
    <3>2. CASE p = y
      BY <2>2, <3>1, <3>2 DEF There
    <3>3. CASE p # y
      BY <1>3, <2>5, <3>1, <3>3
    <3> QED
      BY <3>2, <3>3
  <2> QED
    BY <2>2, <2>4, <2>6 DEF f
<1>6. CASE MakeDir
  <2>1. PICK d \in Dir : /\ Parent(d) \in Path => There(Parent(d))
                         /\ Now([disk EXCEPT ![d] = 0])
    BY <1>6 DEF MakeDir
  <2> DEFINE f == [disk EXCEPT ![d] = 0]
  <2>2. d \in Path /\ 0 \in Absent .. MaxSize /\ 0 # Absent
    BY <1>1, DirIsPath
  <2>3. f \in [Path -> Absent .. MaxSize]
    BY <1>1, <2>2
  <2>4. IsTree(f)
    <3> SUFFICES ASSUME NEW p \in Path, f[p] # Absent, Parent(p) \in Path
                 PROVE  f[Parent(p)] # Absent
      BY DEF IsTree
    <3>1. CASE p = d
      BY <1>1, <1>2, <2>1, <2>2, <3>1 DEF There
    <3>2. CASE p # d
      BY <1>1, <1>3, <2>2, <3>2
    <3> QED
      BY <3>1, <3>2
  <2> QED
    BY <2>1, <2>3, <2>4
<1>7. CASE TakeAway
  <2>1. PICK q \in Path :
            Now([x \in Path |-> IF IsPrefix(q, x) THEN Absent ELSE disk[x]])
    BY <1>7 DEF TakeAway
  <2> DEFINE f == [x \in Path |-> IF IsPrefix(q, x) THEN Absent ELSE disk[x]]
  <2>2. f \in [Path -> Absent .. MaxSize]
    BY <1>1
  <2>3. IsTree(f)
    <3> SUFFICES ASSUME NEW p \in Path, f[p] # Absent, Parent(p) \in Path
                 PROVE  f[Parent(p)] # Absent
      BY DEF IsTree
    <3>1. ~ IsPrefix(q, p) /\ disk[p] # Absent
      OBVIOUS
    <3>2. ~ IsPrefix(q, Parent(p))
      BY <1>2, <3>1, PrefixTransitive
    <3>3. disk[Parent(p)] # Absent
      BY <1>3, <3>1
    <3> QED
      BY <3>2, <3>3
  <2> QED
    BY <2>1, <2>2, <2>3
<1> QED
  BY <1>4, <1>5, <1>6, <1>7

LEMMA ChangeKeeps ==
    ASSUME AuditInv, NEW f \in [Path -> Absent .. MaxSize], IsTree(f), Now(f)
    PROVE  AuditInv'
<1> DEFINE now == Sizes(f)
<1>1. /\ TypeOK /\ WalkInv /\ CountInv /\ HistoryInv /\ SumInv /\ QuietInv
      /\ AlarmIsRaised /\ AlarmIsEarned
      /\ low \in [File -> Nat] /\ high \in [File -> Nat]
      /\ stats \in Seq(Counts) /\ count \in Counts /\ roots \in RootLists
  BY DEF AuditInv, HistoryInv, WalkInv, TypeOK
<1>2. /\ disk' = f /\ changes' = changes + 1 /\ changes < MaxChanges
      /\ low' = [x \in File |-> IF now[x] < low[x] THEN now[x] ELSE low[x]]
      /\ high' = [x \in File |-> IF now[x] > high[x] THEN now[x] ELSE high[x]]
      /\ UNCHANGED <<roots, pc, todo, here, pending, target, count, stats, status, exit>>
  BY DEF Now, walk
<1>3. now \in [File -> Nat]
  BY SizesAreNat
<1>4. changes \in 0 .. MaxChanges /\ MaxChanges \in Nat
  BY <1>1, StorageGuardAssumption DEF TypeOK
<1>5. changes' \in 0 .. MaxChanges /\ changes' # 0
  BY <1>2, <1>4
<1> HIDE DEF now
<1>6. /\ low' \in [File -> Nat] /\ high' \in [File -> Nat]
      /\ \A x \in File : low'[x] <= low[x] /\ high[x] <= high'[x]
      /\ \A x \in File : low'[x] <= now[x] /\ now[x] <= high'[x]
  BY <1>1, <1>2, <1>3
<1>7. /\ Listed' = Listed /\ Tested' = Tested /\ Ahead' = Ahead
      /\ Walking' = Walking /\ Root' = Root /\ Arguments' = Arguments
  <2>1. /\ Listed' = Listed /\ Tested' = Tested /\ Walking' = Walking
        /\ Root' = Root /\ Arguments' = Arguments
    BY <1>2 DEF Listed, Tested, Walking, Root, Arguments
  <2> QED
    BY <1>2, <2>1 DEF Ahead
<1>8. TypeOK'
  BY <1>1, <1>2, <1>5, <1>7 DEF TypeOK
<1>9. WalkInv' /\ CountInv'
  <2>1. WalkInv'
    BY <1>1, <1>2, <1>7 DEF WalkInv
  <2>2. CountInv'
    BY <1>1, <1>2, <1>7 DEF CountInv
  <2> QED
    BY <2>1, <2>2
<1>10. HistoryInv'
  BY <1>2, <1>5, <1>6 DEF HistoryInv, now
<1>11. ASSUME NEW n \in Nat, NEW S \in SUBSET File, Bounded(low, high, n, S)
       PROVE  Bounded(low', high', n, S)
  BY <1>1, <1>6, <1>11, BoundedWidens
<1>12. SumInv'
  <2>1. ASSUME Walking
        PROVE  Bounded(low', high', count.bytes, (Measured(Root) \ Ahead) \ Tested)
    <3>1. /\ (Measured(Root) \ Ahead) \ Tested \in SUBSET File
          /\ count.bytes \in Nat
      BY <1>1, MeasuredAreFiles DEF Counts
    <3>2. Bounded(low, high, count.bytes, (Measured(Root) \ Ahead) \ Tested)
      BY <1>1, <2>1 DEF SumInv
    <3> QED
      BY <1>11, <3>1, <3>2
  <2>2. ASSUME NEW i \in 1 .. Len(stats)
        PROVE  Bounded(low', high', stats[i].bytes, Measured(Arguments[i]))
    <3>1. stats[i] \in Counts
      BY <1>1
    <3>2. stats[i].bytes \in Nat /\ Measured(Arguments[i]) \in SUBSET File
      BY <3>1, MeasuredAreFiles DEF Counts
    <3>3. Bounded(low, high, stats[i].bytes, Measured(Arguments[i]))
      BY <1>1 DEF SumInv
    <3> QED
      BY <1>11, <3>2, <3>3
  <2> QED
    BY <1>2, <1>7, <2>1, <2>2 DEF SumInv
<1>13. QuietInv'
  BY <1>5 DEF QuietInv
<1>14. Covered' = Covered /\ Covered \in SUBSET File
  BY <1>2, MeasuredAreFiles DEF Covered
<1>15. /\ SumFunctionOnSet(low', Covered) <= SumFunctionOnSet(low, Covered)
       /\ SumFunctionOnSet(high, Covered) <= SumFunctionOnSet(high', Covered)
       /\ SumFunctionOnSet(low, Covered) \in Nat /\ SumFunctionOnSet(low', Covered) \in Nat
       /\ SumFunctionOnSet(high, Covered) \in Nat /\ SumFunctionOnSet(high', Covered) \in Nat
  <2>1. \A x \in Covered : low'[x] = 0 \/ (x \in Covered /\ low'[x] <= low[x])
    BY <1>6, <1>14
  <2>2. \A x \in Covered : high[x] = 0 \/ (x \in Covered /\ high[x] <= high'[x])
    BY <1>6, <1>14
  <2>3. SumFunctionOnSet(low', Covered) <= SumFunctionOnSet(low, Covered)
    BY <1>1, <1>6, <1>14, <2>1, FilesSum
  <2>4. SumFunctionOnSet(high, Covered) <= SumFunctionOnSet(high', Covered)
    BY <1>1, <1>6, <1>14, <2>2, FilesSum
  <2> QED
    BY <1>1, <1>6, <1>14, <2>3, <2>4, SumIsNat
<1>16. AlarmIsRaised' /\ AlarmIsEarned'
  <2>1. Hard \in Nat
    BY StorageGuardAssumption
  <2>2. AlarmIsRaised'
    BY <1>1, <1>2, <1>14, <1>15, <2>1 DEF AlarmIsRaised
  <2>3. AlarmIsEarned'
    BY <1>1, <1>2, <1>14, <1>15, <2>1 DEF AlarmIsEarned
  <2> QED
    BY <2>2, <2>3
<1> QED
  BY <1>8, <1>9, <1>10, <1>12, <1>13, <1>16 DEF AuditInv

-----------------------------------------------------------------------------
(* The theorems.                                                           *)

LEMMA AuditStarts == Init => AuditInv
<1> SUFFICES ASSUME Init PROVE AuditInv
  OBVIOUS
<1>1. /\ disk \in [Path -> Absent .. MaxSize] /\ IsTree(disk)
      /\ roots \in RootLists /\ pc = "root"
      /\ todo = {} /\ here = <<>> /\ pending = {} /\ target = <<>> /\ count = Zero
      /\ stats = <<>> /\ status = "none" /\ exit = "none" /\ changes = 0
      /\ low = Sizes(disk) /\ high = Sizes(disk)
  BY DEF Init
<1>2. /\ Cardinality(File) \in Nat /\ Cardinality(Dir) \in Nat
      /\ Cardinality(File \ Ahead) \in Nat /\ Cardinality(Dir \ Ahead) \in Nat
  <2>1. /\ File \in SUBSET Path /\ Dir \in SUBSET Path
        /\ File \ Ahead \in SUBSET Path /\ Dir \ Ahead \in SUBSET Path
    BY DirIsPath DEF File
  <2> QED
    BY <2>1, PathsAreFinite
<1>3. /\ count \in Counts
      /\ count.files = 0 /\ count.dirs = 0 /\ count.errors = 0
  BY <1>1, <1>2 DEF Zero, Counts
<1>4. /\ stats \in Seq(Counts) /\ Len(stats) = 0 /\ Listed = {} /\ ~ Walking
      /\ Len(target) = 0 /\ changes \in 0 .. MaxChanges
  BY <1>1, StorageGuardAssumption DEF Listed, Walking
<1>5. Len(stats) <= Len(Arguments)
  <2>1. roots \in Seq(Path) /\ Archive \in Path
    BY <1>1, StorageGuardAssumption
  <2>2. Arguments \in Seq(Path)
    BY <2>1 DEF Arguments
  <2>3. Len(Arguments) \in Nat
    BY <2>2
  <2> QED
    BY <1>4, <2>3
<1>6. TypeOK
  <2>1. DOMAIN stats = {}
    BY <1>1
  <2> QED
    BY <1>1, <1>3, <1>4, <1>5, <2>1 DEF TypeOK
<1>7. WalkInv
  BY <1>1, <1>4 DEF WalkInv, Shaped, Apart
<1>8. CountInv
  BY <1>2, <1>3, <1>4 DEF CountInv
<1>9. HistoryInv
  BY <1>1, SizesAreNat DEF HistoryInv
<1>10. SumInv /\ QuietInv
  BY <1>1, <1>4 DEF SumInv, QuietInv
<1>11. AlarmIsRaised /\ AlarmIsEarned
  BY <1>1 DEF AlarmIsRaised, AlarmIsEarned
<1> QED
  BY <1>6, <1>7, <1>8, <1>9, <1>10, <1>11 DEF AuditInv

LEMMA AuditGoesOn == AuditInv /\ [Next]_vars => AuditInv'
<1> SUFFICES ASSUME AuditInv, [Next]_vars PROVE AuditInv'
  OBVIOUS
<1>1. CASE OpenRoot
  BY <1>1, OpenRootKeeps
<1>2. CASE ListEntries
  BY <1>2, ListEntriesPasses, PassOverKeeps, BreakOffKeeps
<1>3. CASE TestEntry
  BY <1>3, TestEntryKeeps
<1>4. CASE StatFile
  BY <1>4, StatFileKeeps
<1>5. CASE Descend
  BY <1>5, DescendPasses, PassOverKeeps, BreakOffKeeps
<1>6. CASE CloseRoot
  BY <1>6, CloseRootKeeps
<1>7. CASE Classify
  BY <1>7, ClassifyKeeps
<1>8. CASE Report
  BY <1>8, ReportKeeps
<1>9. CASE WriteFile \/ MoveFile \/ MakeDir \/ TakeAway
  <2>1. PICK f \in [Path -> Absent .. MaxSize] : IsTree(f) /\ Now(f)
    BY <1>9, ChangesAreTrees DEF AuditInv
  <2> QED
    BY <2>1, ChangeKeeps
<1>10. CASE UNCHANGED vars
  <2>1. UNCHANGED <<disk, roots, pc, todo, here, pending, target, count, stats, status,
                    exit, changes, low, high>>
    BY <1>10 DEF vars, walk
  <2>2. /\ Listed' = Listed /\ Tested' = Tested /\ Walking' = Walking
        /\ Root' = Root /\ Arguments' = Arguments /\ Covered' = Covered
    BY <2>1 DEF Listed, Tested, Walking, Root, Arguments, Covered
  <2>3. Ahead' = Ahead
    BY <2>1, <2>2 DEF Ahead
  <2>4. TypeOK' /\ CountInv' /\ HistoryInv' /\ AlarmIsRaised' /\ AlarmIsEarned'
    BY <2>1, <2>2, <2>3
       DEF AuditInv, TypeOK, CountInv, HistoryInv, AlarmIsRaised, AlarmIsEarned
  <2>5. WalkInv'
    BY <2>1, <2>2, <2>3 DEF AuditInv, WalkInv
  <2>6. SumInv' /\ QuietInv'
    BY <2>1, <2>2, <2>3 DEF AuditInv, SumInv, QuietInv, Exactly, There
  <2> QED
    BY <2>4, <2>5, <2>6 DEF AuditInv
<1> QED
  BY <1>1, <1>2, <1>3, <1>4, <1>5, <1>6, <1>7, <1>8, <1>9, <1>10 DEF Next, Audit

\* AuditInv is an invariant.
LEMMA AuditKeeps == Spec => []AuditInv
BY AuditStarts, AuditGoesOn, PTL DEF Spec

\* A root that was audited while nothing changed has the numbers and the bytes
\* of what is below it.
LEMMA AuditIsExact == AuditInv => QuietIsExact
<1> SUFFICES ASSUME AuditInv, changes = 0
             PROVE  /\ exit # "raised"
                    /\ \A i \in DOMAIN stats :
                          LET root == Arguments[i]
                              now(S) == {p \in S : There(p)}
                          IN  stats[i] =
                                [exists |-> There(root),
                                 bytes |-> SumFunctionOnSet(Sizes(disk), Measured(root)),
                                 files |-> Cardinality(now(Measured(root))),
                                 dirs |-> Cardinality(now(Below(root, Dir))),
                                 errors |-> 0]
  BY DEF QuietIsExact
<1>1. QuietInv /\ SumInv /\ stats \in Seq(Counts)
      /\ low = Sizes(disk) /\ high = Sizes(disk) /\ low \in [File -> Nat]
  BY DEF AuditInv, WalkInv, HistoryInv
<1>2. exit # "raised"
  BY <1>1 DEF QuietInv
<1>3. ASSUME NEW i \in DOMAIN stats
      PROVE  stats[i] =
               [exists |-> There(Arguments[i]),
                bytes |-> SumFunctionOnSet(Sizes(disk), Measured(Arguments[i])),
                files |-> Cardinality({p \in Measured(Arguments[i]) : There(p)}),
                dirs |-> Cardinality({p \in Below(Arguments[i], Dir) : There(p)}),
                errors |-> 0]
  <2> DEFINE root == Arguments[i]
             sum == SumFunctionOnSet(Sizes(disk), Measured(root))
  <2>1. i \in 1 .. Len(stats) /\ stats[i] \in Counts
    BY <1>1
  <2>2. /\ stats[i].exists = There(root) /\ stats[i].errors = 0
        /\ Exactly(stats[i].files, Measured(root))
        /\ Exactly(stats[i].dirs, Below(root, Dir))
    BY <1>1, <2>1 DEF QuietInv
  <2>3. Bounded(low, high, stats[i].bytes, Measured(root))
    BY <1>1, <2>1 DEF SumInv
  <2>4. sum \in Nat /\ stats[i].bytes \in Nat
    BY <1>1, <2>1, MeasuredAreFiles, SumIsNat DEF Counts
  <2>5. stats[i].bytes = sum
    BY <1>1, <2>3, <2>4 DEF Bounded
  <2> QED
    BY <2>1, <2>2, <2>5 DEF Counts, Exactly
<1> QED
  BY <1>2, <1>3

\* Type correctness of the audit: among others, the counts of a root are bounded
\* by the number of files and of directories there can be, and it reports no more
\* errors than it counted files.
THEOREM AuditTypeCorrect == Spec => []TypeOK
<1>1. AuditInv => TypeOK
  BY DEF AuditInv
<1> QED
  BY <1>1, AuditKeeps, PTL

\* While nothing changes the walk of `_stat_root' is exact, for every tree and
\* every root: it finds each file and directory below once.
THEOREM QuietAuditIsExact == Spec => []QuietIsExact
BY AuditIsExact, AuditKeeps, PTL

\* However the disk changes during the walks, a sum of what was there all the
\* time that passes the hard limit is reported above it.
THEOREM AlarmsAreRaised == Spec => []AlarmIsRaised
<1>1. AuditInv => AlarmIsRaised
  BY DEF AuditInv
<1> QED
  BY <1>1, AuditKeeps, PTL

\* And unless roots overlap, a status above the hard limit means that the files,
\* each at its largest, have passed it.
THEOREM AlarmsAreEarned == Spec => []AlarmIsEarned
<1>1. AuditInv => AlarmIsEarned
  BY DEF AuditInv
<1> QED
  BY <1>1, AuditKeeps, PTL
=============================================================================
