------------------------- MODULE FileCommandsProofs -------------------------
(***************************************************************************)
(* The file commands of any number of sessions on any drive: it stays a    *)
(* tree, and what another session can change between two commands, or two  *)
(* system calls of one, is only what the histories of FileCommands tell.   *)
(***************************************************************************)
EXTENDS FileCommands, FiniteSetTheorems, WellFoundedInduction, SequenceTheorems, TLAPS

-----------------------------------------------------------------------------
(* Paths *)

\* A prefix agrees name by name.
LEMMA PrefixIs ==
    ASSUME NEW p \in Seq(Names), NEW q \in Seq(Names)
    PROVE  IsPrefix(p, q) <=> Len(p) <= Len(q) /\ \A i \in 1..Len(p) : p[i] = q[i]
<1>1. Len(p) \in Nat /\ Len(q) \in Nat /\ \A i \in 1..Len(q) : q[i] \in Names
  BY LenProperties, ElementOfSeq
<1>2. SubSeq(p, 1, Len(p)) = p BY SubSeqFull
<1>3. ASSUME Len(p) <= Len(q)
      PROVE  /\ SubSeq(q, 1, Len(p)) \in Seq(Names) /\ Len(SubSeq(q, 1, Len(p))) = Len(p)
             /\ \A i \in 1..Len(p) : SubSeq(q, 1, Len(p))[i] = q[i]
  <2>1. \A i \in 1..Len(p) : q[i] \in Names BY <1>1, <1>3
  <2>2. /\ SubSeq(q, 1, Len(p)) \in Seq(Names)
        /\ Len(SubSeq(q, 1, Len(p))) = IF 1 <= Len(p) THEN Len(p) - 1 + 1 ELSE 0
        /\ \A i \in 1 .. Len(p) - 1 + 1 : SubSeq(q, 1, Len(p))[i] = q[1 + i - 1]
    BY <1>1, <2>1, SubSeqProperties
  <2>3. Len(p) - 1 + 1 = Len(p) /\ \A i \in 1..Len(p) : 1 + i - 1 = i BY <1>1
  <2>4. Len(SubSeq(q, 1, Len(p))) = Len(p) BY <1>1, <2>2
  <2> QED BY <2>2, <2>3, <2>4
<1>4. ASSUME IsPrefix(p, q) PROVE Len(p) <= Len(q) /\ \A i \in 1..Len(p) : p[i] = q[i]
  <2>1. Len(p) <= Len(q) /\ p = SubSeq(q, 1, Len(p)) BY <1>2, <1>4 DEF IsPrefix
  <2> QED BY <1>3, <2>1
<1>5. ASSUME Len(p) <= Len(q), \A i \in 1..Len(p) : p[i] = q[i] PROVE IsPrefix(p, q)
  <2>1. p = SubSeq(q, 1, Len(p)) BY <1>3, <1>5, SeqEqual
  <2> QED BY <1>2, <1>5, <2>1 DEF IsPrefix
<1> QED BY <1>4, <1>5

\* The parent of a path is the path without its last name.
LEMMA ParentIs ==
    ASSUME NEW p \in Seq(Names), p # << >>
    PROVE  /\ Parent(p) \in Seq(Names) /\ Len(p) \in Nat /\ Len(p) >= 1
           /\ Len(Parent(p)) = Len(p) - 1
           /\ \A i \in 1 .. Len(p) - 1 : Parent(p)[i] = p[i]
<1>1. Len(p) \in Nat /\ Len(p) >= 1 /\ \A i \in 1..Len(p) : p[i] \in Names
  BY LenProperties, EmptySeq, ElementOfSeq
<1>2. Parent(p) = SubSeq(p, 1, Len(p) - 1) BY DEF Parent, Front
<1>3. \A i \in 1 .. Len(p) - 1 : p[i] \in Names BY <1>1
<1>4. /\ SubSeq(p, 1, Len(p) - 1) \in Seq(Names)
      /\ Len(SubSeq(p, 1, Len(p) - 1)) = IF 1 <= Len(p) - 1 THEN Len(p) - 1 - 1 + 1 ELSE 0
      /\ \A i \in 1 .. Len(p) - 1 - 1 + 1 : SubSeq(p, 1, Len(p) - 1)[i] = p[1 + i - 1]
  BY <1>1, <1>3, SubSeqProperties
<1>5. Len(p) - 1 - 1 + 1 = Len(p) - 1 /\ \A i \in 1 .. Len(p) - 1 : 1 + i - 1 = i BY <1>1
<1>6. ASSUME NEW n \in Nat, n >= 1
      PROVE  (IF 1 <= n - 1 THEN n - 1 - 1 + 1 ELSE 0) = n - 1
  BY <1>6
<1>7. (IF 1 <= Len(p) - 1 THEN Len(p) - 1 - 1 + 1 ELSE 0) = Len(p) - 1 BY <1>1, <1>6
<1> QED BY <1>1, <1>2, <1>4, <1>5, <1>7

\* A name below a directory.
LEMMA ChildIs ==
    ASSUME NEW d \in Seq(Names), NEW n \in Names
    PROVE  /\ Append(d, n) \in Seq(Names) /\ Append(d, n) # << >>
           /\ Parent(Append(d, n)) = d /\ Last(Append(d, n)) = n
<1>1. /\ Append(d, n) \in Seq(Names) /\ Append(d, n) # << >> /\ Len(Append(d, n)) = Len(d) + 1
      /\ \A i \in 1..Len(d) : Append(d, n)[i] = d[i]
      /\ Append(d, n)[Len(d) + 1] = n
  BY AppendProperties
<1>2. Len(d) \in Nat /\ Len(d) + 1 - 1 = Len(d) BY LenProperties
<1>3. Last(Append(d, n)) = n BY <1>1 DEF Last
<1>4. /\ Parent(Append(d, n)) \in Seq(Names)
      /\ Len(Parent(Append(d, n))) = Len(Append(d, n)) - 1
      /\ \A i \in 1 .. Len(Append(d, n)) - 1 : Parent(Append(d, n))[i] = Append(d, n)[i]
  BY <1>1, ParentIs
<1>5. Parent(Append(d, n)) = d BY <1>1, <1>2, <1>4, SeqEqual
<1> QED BY <1>1, <1>3, <1>5

\* Every path but the root is a name below its parent.
LEMMA IsChild ==
    ASSUME NEW p \in Seq(Names), p # << >>
    PROVE  \E n \in Names : p = Append(Parent(p), n)
<1>1. PICK d \in Seq(Names), n \in Names : p = Append(d, n) BY SequenceEmptyOrAppend
<1>2. Parent(p) = d BY <1>1, ChildIs
<1> QED BY <1>1, <1>2

\* A path of one name.
LEMMA TopIs ==
    ASSUME NEW n \in Names
    PROVE  <<n>> \in Seq(Names) /\ <<n>> # << >> /\ <<n>> = Append(<< >>, n)
OBVIOUS

\* Of natural numbers one is the least.
LEMMA Least ==
    ASSUME NEW S \in SUBSET Nat, S # {}
    PROVE  \E x \in S : \A y \in S : x <= y
<1>1. PICK x \in S : \A y \in S : ~(<<y, x>> \in OpToRel(<, Nat))
  BY NatLessThanWellFounded, WFMin
<1>2. ASSUME NEW y \in S PROVE x <= y
  <2>1. ~(y < x) BY <1>1 DEF OpToRel
  <2> QED BY <2>1
<1> QED BY <1>2

-----------------------------------------------------------------------------
(* The drive is a tree *)

IsTree(D, F) ==
    /\ D \cup F \subseteq Paths /\ D \cap F = {} /\ << >> \in D
    /\ \A p \in D \cup F : Parent(p) \in D

\* The paths of the drive are sequences of names.
LEMMA PathsAreSeqs == ASSUME NEW p \in Paths PROVE p \in Seq(Names)
BY FileAssumption

\* What is above a path of the drive is on the drive: the shortest beginning of
\* the path that is there and no shorter than the other has no parent there,
\* unless it is the other.
LEMMA AboveIsThere ==
    ASSUME NEW D, NEW F, IsTree(D, F), NEW p \in D \cup F, NEW q \in Seq(Names), IsPrefix(q, p)
    PROVE  q \in D \cup F
<1> DEFINE Lengths == {k \in Nat : \E r \in D \cup F : IsPrefix(q, r) /\ Len(r) = k}
<1>1. \A r \in D \cup F : r \in Seq(Names) /\ Len(r) \in Nat
  BY PathsAreSeqs, LenProperties DEF IsTree
<1>2. Lengths # {} BY <1>1
<1>3. PICK k \in Lengths : \A l \in Lengths : k <= l BY <1>2, Least
<1>4. PICK r \in D \cup F : IsPrefix(q, r) /\ Len(r) = k BY <1>3
<1>5. CASE Len(r) = Len(q)
  <2>1. q = r BY <1>1, <1>4, <1>5, PrefixIs, SeqEqual
  <2> QED BY <1>4, <2>1
<1>6. CASE Len(r) # Len(q)
  <2>1. Len(q) \in Nat /\ Len(q) < Len(r) /\ \A i \in 1..Len(q) : q[i] = r[i]
    BY <1>1, <1>4, <1>6, PrefixIs, LenProperties
  <2>2. r # << >> BY <1>1, <2>1, EmptySeq
  <2>3. /\ Parent(r) \in Seq(Names) /\ Len(Parent(r)) = Len(r) - 1
        /\ \A i \in 1 .. Len(r) - 1 : Parent(r)[i] = r[i]
    BY <1>1, <2>2, ParentIs
  <2>4. IsPrefix(q, Parent(r)) BY <1>1, <2>1, <2>3, PrefixIs
  <2>5. Parent(r) \in D \cup F BY DEF IsTree
  <2>6. Len(r) - 1 \in Lengths BY <1>1, <2>3, <2>4, <2>5
  <2> HIDE DEF Lengths
  <2>7. k <= Len(r) - 1 BY <1>3, <2>6
  <2> QED BY <1>1, <1>4, <2>7
<1> QED BY <1>5, <1>6

\* A path that is free may be added, as a directory or as a file.
LEMMA TreeGrows ==
    ASSUME IsTree(dirs, files), NEW p, Free(p)
    PROVE  IsTree(dirs \cup {p}, files) /\ IsTree(dirs, files \cup {p})
BY DEF IsTree, Free, Exists

\* A directory without entries may be taken away, and so may a file.
LEMMA TreeShrinks ==
    ASSUME IsTree(dirs, files)
    PROVE  /\ \A p \in dirs : Entries(p) = {} /\ p # << >> => IsTree(dirs \ {p}, files)
           /\ \A p \in files : IsTree(dirs, files \ {p})
<1>1. ASSUME NEW p \in dirs, Entries(p) = {}, p # << >> PROVE IsTree(dirs \ {p}, files)
  <2>1. ASSUME NEW q \in dirs \cup files, Parent(q) = p PROVE q = p
    <3>1. q \in Seq(Names) BY PathsAreSeqs DEF IsTree
    <3>2. CASE q = << >> BY <2>1, <3>2 DEF Parent
    <3>3. CASE q # << >>
      <4>1. PICK n \in Names : q = Append(p, n) BY <2>1, <3>1, <3>3, IsChild
      <4> QED BY <1>1, <4>1 DEF Entries, Exists
    <3> QED BY <3>2, <3>3
  <2>2. \A q \in (dirs \ {p}) \cup files : Parent(q) \in dirs \ {p}
    <3>1. p \notin files BY DEF IsTree
    <3> QED BY <2>1, <3>1 DEF IsTree
  <2> QED BY <1>1, <2>2 DEF IsTree
<1>2. \A p \in files : IsTree(dirs, files \ {p}) BY DEF IsTree
<1> QED BY <1>1, <1>2

-----------------------------------------------------------------------------
(* Renaming carries what is below the old name to below the new one *)

Carried(from, to, p) == to \o SubSeq(p, Len(from) + 1, Len(p))

\* First the new name, then what was behind the old one.
LEMMA CarriedIs ==
    ASSUME NEW from \in Seq(Names), NEW to \in Seq(Names), NEW p \in Seq(Names),
           Len(from) <= Len(p)
    PROVE  /\ Carried(from, to, p) \in Seq(Names)
           /\ Len(Carried(from, to, p)) = Len(to) + (Len(p) - Len(from))
           /\ \A i \in 1..Len(to) : Carried(from, to, p)[i] = to[i]
           /\ \A i \in 1 .. Len(p) - Len(from) :
                Carried(from, to, p)[Len(to) + i] = p[Len(from) + i]
<1> DEFINE f == Len(from)
           t == Len(to)
           n == Len(p)
           b == SubSeq(p, f + 1, n)
<1>1. f \in Nat /\ t \in Nat /\ n \in Nat /\ f <= n /\ \A i \in 1..n : p[i] \in Names
  BY LenProperties, ElementOfSeq
<1>2. Len(from) = f /\ Len(to) = t /\ Len(p) = n OBVIOUS
<1>3. Carried(from, to, p) = to \o b BY DEF Carried
<1>4. b = SubSeq(p, f + 1, n) OBVIOUS
<1> HIDE DEF f, t, n, b
<1>5. /\ SubSeq(p, f + 1, n) \in Seq(Names)
      /\ Len(SubSeq(p, f + 1, n)) = IF f + 1 <= n THEN n - (f + 1) + 1 ELSE 0
      /\ \A i \in 1 .. n - (f + 1) + 1 : SubSeq(p, f + 1, n)[i] = p[f + 1 + i - 1]
  <2>1. \A i \in f + 1 .. n : p[i] \in Names BY <1>1
  <2>2. f + 1 \in Int /\ n \in Int BY <1>1
  <2> QED BY <2>1, <2>2, SubSeqProperties
<1>6. b \in Seq(Names) /\ Len(b) = n - f
  <2>1. (IF f + 1 <= n THEN n - (f + 1) + 1 ELSE 0) = n - f BY <1>1
  <2> QED BY <1>4, <1>5, <2>1
<1>7. ASSUME NEW i \in 1 .. n - f PROVE b[i] = p[f + i]
  <2>1. i \in 1 .. n - (f + 1) + 1 /\ f + 1 + i - 1 = f + i BY <1>1
  <2> QED BY <1>4, <1>5, <2>1
<1>8. /\ to \o b \in Seq(Names) /\ Len(to \o b) = t + (n - f)
      /\ \A i \in 1 .. t + (n - f) : (to \o b)[i] = IF i <= t THEN to[i] ELSE b[i - t]
  BY <1>2, <1>6, ConcatProperties
<1>9. \A i \in 1..t : (to \o b)[i] = to[i]
  <2>1. \A i \in 1..t : i \in 1 .. t + (n - f) /\ i <= t BY <1>1
  <2> QED BY <1>8, <2>1
<1>10. ASSUME NEW i \in 1 .. n - f PROVE (to \o b)[t + i] = p[f + i]
  <2> DEFINE k == t + i
  <2>1. k \in 1 .. t + (n - f) /\ ~(k <= t) /\ k - t = i BY <1>1
  <2> HIDE DEF k
  <2>2. (to \o b)[k] = b[i] BY <1>8, <2>1
  <2> QED BY <1>7, <2>2 DEF k
<1> QED BY <1>2, <1>3, <1>8, <1>9, <1>10

\* The old name itself becomes the new one.
LEMMA CarriedRoot ==
    ASSUME NEW from \in Seq(Names), NEW to \in Seq(Names)
    PROVE  Carried(from, to, from) = to
<1>1. Len(from) \in Nat /\ Len(to) \in Nat BY LenProperties
<1>2. Len(from) <= Len(from) /\ Len(to) + (Len(from) - Len(from)) = Len(to) BY <1>1
<1> QED BY <1>2, CarriedIs, SeqEqual

\* What is below the old name is carried with its parent.
LEMMA CarriedParent ==
    ASSUME NEW from \in Seq(Names), NEW to \in Seq(Names), NEW p \in Seq(Names),
           IsPrefix(from, p), p # from
    PROVE  /\ p # << >> /\ IsPrefix(from, Parent(p)) /\ Carried(from, to, p) # << >>
           /\ Parent(Carried(from, to, p)) = Carried(from, to, Parent(p))
<1> DEFINE c == Carried(from, to, p)
           q == Parent(p)
           d == Carried(from, to, q)
           f == Len(from)
           t == Len(to)
           n == Len(p)
<1>1. f \in Nat /\ t \in Nat /\ n \in Nat BY LenProperties
<1>2. f <= n /\ \A i \in 1..f : from[i] = p[i] BY PrefixIs
<1>3. f < n
  <2>1. f # n BY <1>2, SeqEqual
  <2> QED BY <1>1, <1>2, <2>1
<1>4. p # << >> BY <1>1, <1>3, EmptySeq
<1>5. q \in Seq(Names) /\ Len(q) = n - 1 /\ \A i \in 1 .. n - 1 : q[i] = p[i]
  BY <1>4, ParentIs
<1>6. IsPrefix(from, q)
  <2>1. f <= Len(q) /\ \A i \in 1..f : i \in 1 .. n - 1 BY <1>1, <1>3, <1>5
  <2>2. \A i \in 1..f : from[i] = q[i] BY <1>2, <1>5, <2>1
  <2> HIDE DEF q
  <2> QED BY <1>5, <2>1, <2>2, PrefixIs
<1>7. /\ c \in Seq(Names) /\ Len(c) = t + (n - f) /\ \A i \in 1..t : c[i] = to[i]
      /\ \A i \in 1 .. n - f : c[t + i] = p[f + i]
  BY <1>2, CarriedIs
<1>8. /\ d \in Seq(Names) /\ Len(d) = t + (n - 1 - f) /\ \A i \in 1..t : d[i] = to[i]
      /\ \A i \in 1 .. n - 1 - f : d[t + i] = q[f + i]
  <2>1. f <= Len(q) BY <1>1, <1>3, <1>5
  <2> HIDE DEF q
  <2>2. /\ Carried(from, to, q) \in Seq(Names)
        /\ Len(Carried(from, to, q)) = t + (Len(q) - f)
        /\ \A i \in 1..t : Carried(from, to, q)[i] = to[i]
        /\ \A i \in 1 .. Len(q) - f : Carried(from, to, q)[t + i] = q[f + i]
    BY <1>5, <2>1, CarriedIs
  <2>3. d = Carried(from, to, q) BY DEF q
  <2> HIDE DEF d, f, t, n
  <2> QED BY <1>5, <2>2, <2>3
<1> HIDE DEF c, d, q, f, t, n
<1>9. c # << >>
  <2>1. Len(c) # 0 BY <1>1, <1>3, <1>7
  <2> QED BY <2>1, EmptySeq
<1>10. /\ Parent(c) \in Seq(Names) /\ Len(Parent(c)) = Len(c) - 1
       /\ \A i \in 1 .. Len(c) - 1 : Parent(c)[i] = c[i]
  BY <1>7, <1>9, ParentIs
<1>11. Len(c) - 1 = t + (n - 1 - f) BY <1>1, <1>7
<1>12. ASSUME NEW i \in 1 .. t + (n - 1 - f) PROVE c[i] = d[i]
  <2>1. CASE i <= t
    <3>1. i \in 1..t BY <1>1, <2>1
    <3> QED BY <1>7, <1>8, <3>1
  <2>2. CASE ~(i <= t)
    <3> DEFINE j == i - t
    <3>1. j \in 1 .. n - 1 - f /\ j \in 1 .. n - f /\ t + j = i /\ f + j \in 1 .. n - 1
      BY <1>1, <1>3, <2>2
    <3> HIDE DEF j
    <3> QED BY <1>5, <1>7, <1>8, <3>1
  <2> QED BY <2>1, <2>2
<1>13. Parent(c) = d BY <1>8, <1>10, <1>11, <1>12, SeqEqual
<1> QED BY <1>4, <1>6, <1>9, <1>13 DEF c, d, q

\* Two paths below the old name do not become one.
LEMMA CarriedApart ==
    ASSUME NEW from \in Seq(Names), NEW to \in Seq(Names),
           NEW p \in Seq(Names), NEW q \in Seq(Names), IsPrefix(from, p), IsPrefix(from, q),
           Carried(from, to, p) = Carried(from, to, q)
    PROVE  p = q
<1> DEFINE c == Carried(from, to, p)
           f == Len(from)
           t == Len(to)
           n == Len(p)
           m == Len(q)
<1>1. f \in Nat /\ t \in Nat /\ n \in Nat /\ m \in Nat BY LenProperties
<1>2. /\ f <= n /\ f <= m /\ (\A i \in 1..f : from[i] = p[i])
      /\ \A i \in 1..f : from[i] = q[i]
  BY PrefixIs
<1>3. Len(c) = t + (n - f) /\ \A i \in 1 .. n - f : c[t + i] = p[f + i] BY <1>2, CarriedIs
<1>4. Len(c) = t + (m - f) /\ \A i \in 1 .. m - f : c[t + i] = q[f + i]
  <2>1. /\ Len(Carried(from, to, q)) = t + (m - f)
        /\ \A i \in 1 .. m - f : Carried(from, to, q)[t + i] = q[f + i]
    BY <1>2, CarriedIs
  <2>2. c = Carried(from, to, q) OBVIOUS
  <2> HIDE DEF c, f, t, n, m
  <2> QED BY <2>1, <2>2
<1>5. Len(p) = n /\ Len(q) = m OBVIOUS
<1> HIDE DEF c, f, t, n, m
<1>6. n = m BY <1>1, <1>2, <1>3, <1>4
<1>7. ASSUME NEW i \in 1..n PROVE p[i] = q[i]
  <2>1. CASE i <= f
    <3>1. i \in 1..f BY <1>1, <2>1
    <3> QED BY <1>2, <3>1
  <2>2. CASE ~(i <= f)
    <3>1. i - f \in 1 .. n - f /\ f + (i - f) = i BY <1>1, <2>2
    <3> QED BY <1>3, <1>4, <1>6, <3>1
  <2> QED BY <2>1, <2>2
<1> QED BY <1>5, <1>6, <1>7, SeqEqual

\* The new name is above what is carried to it.
LEMMA CarriedBelow ==
    ASSUME NEW from \in Seq(Names), NEW to \in Seq(Names), NEW p \in Seq(Names),
           IsPrefix(from, p)
    PROVE  Carried(from, to, p) \in Seq(Names) /\ IsPrefix(to, Carried(from, to, p))
<1>1. Len(from) <= Len(p) /\ Len(from) \in Nat /\ Len(to) \in Nat /\ Len(p) \in Nat
  BY PrefixIs, LenProperties
<1>2. /\ Carried(from, to, p) \in Seq(Names)
      /\ Len(Carried(from, to, p)) = Len(to) + (Len(p) - Len(from))
      /\ \A i \in 1..Len(to) : Carried(from, to, p)[i] = to[i]
  BY <1>1, CarriedIs
<1>3. Len(to) <= Len(Carried(from, to, p)) BY <1>1, <1>2
<1> QED BY <1>2, <1>3, PrefixIs

\* What is above the parent is above the path.
LEMMA AboveParent ==
    ASSUME NEW q \in Seq(Names), NEW p \in Seq(Names), IsPrefix(q, Parent(p))
    PROVE  IsPrefix(q, p)
<1>1. CASE p = << >> BY <1>1 DEF Parent
<1>2. CASE p # << >>
  <2>1. /\ Parent(p) \in Seq(Names) /\ Len(p) \in Nat /\ Len(Parent(p)) = Len(p) - 1
        /\ \A i \in 1 .. Len(p) - 1 : Parent(p)[i] = p[i]
    BY <1>2, ParentIs
  <2>2. Len(q) <= Len(Parent(p)) /\ \A i \in 1..Len(q) : q[i] = Parent(p)[i] BY <2>1, PrefixIs
  <2>3. Len(q) \in Nat /\ Len(q) <= Len(p) /\ \A i \in 1..Len(q) : i \in 1 .. Len(p) - 1
    BY <2>1, <2>2, LenProperties
  <2>4. \A i \in 1..Len(q) : q[i] = p[i] BY <2>1, <2>2, <2>3
  <2> QED BY <2>3, <2>4, PrefixIs
<1> QED BY <1>1, <1>2

\* A renamed directory takes its tree with it, and leaves the rest a tree
\* (rename refuses what would break it).
LEMMA TreeMoves ==
    ASSUME IsTree(dirs, files), cwd \in dirs, NEW from \in Seq(Names), NEW to \in Seq(Names),
           CanRename(from, to)
    PROVE  IsTree(Moved(dirs, from, to), Moved(files, from, to)) /\ cwd \in Moved(dirs, from, to)
<1> DEFINE drv == dirs \cup files
           M(p) == IF IsPrefix(from, p) THEN Carried(from, to, p) ELSE p
<1>1. /\ to \in Paths /\ to # << >> /\ to \notin drv /\ Parent(to) \in dirs
      /\ ~IsPrefix(from, to) /\ ~IsPrefix(from, cwd)
      /\ \A p \in drv : IsPrefix(from, p) => Carried(from, to, p) \in Paths
  BY DEF CanRename, Free, Exists, InUse, Carried
<1>2. \A S : Moved(S, from, to) = {M(p) : p \in S} BY DEF Moved, Carried
<1>3. \A p \in drv : p \in Seq(Names) /\ p \in Paths /\ Parent(p) \in dirs
  BY PathsAreSeqs DEF IsTree
<1>4. ASSUME NEW p, ~IsPrefix(from, p) PROVE M(p) = p BY <1>4
<1>5. ASSUME NEW p, IsPrefix(from, p) PROVE M(p) = Carried(from, to, p) BY <1>5
<1> HIDE DEF M
<1>6. \A p \in drv : M(p) \in Paths BY <1>1, <1>3, <1>4, <1>5
<1>7. ASSUME NEW p \in dirs, NEW q \in files PROVE M(p) # M(q)
  <2>1. p \in drv /\ q \in drv /\ p # q BY DEF IsTree
  <2>2. ASSUME NEW x \in drv, NEW y \in drv, IsPrefix(from, x), ~IsPrefix(from, y)
        PROVE  Carried(from, to, x) # y
    <3> SUFFICES ASSUME Carried(from, to, x) = y PROVE FALSE OBVIOUS
    <3>1. IsPrefix(to, y) BY <1>3, <2>2, CarriedBelow
    <3>2. to \in drv BY <3>1, AboveIsThere
    <3> QED BY <1>1, <3>2
  <2>3. CASE IsPrefix(from, p) /\ IsPrefix(from, q)
    <3>1. Carried(from, to, p) # Carried(from, to, q) BY <1>3, <2>1, <2>3, CarriedApart
    <3> QED BY <1>5, <2>3, <3>1
  <2>4. CASE IsPrefix(from, p) /\ ~IsPrefix(from, q) BY <1>4, <1>5, <2>1, <2>2, <2>4
  <2>5. CASE ~IsPrefix(from, p) /\ IsPrefix(from, q) BY <1>4, <1>5, <2>1, <2>2, <2>5
  <2>6. CASE ~IsPrefix(from, p) /\ ~IsPrefix(from, q) BY <1>4, <2>1, <2>6
  <2> QED BY <2>3, <2>4, <2>5, <2>6
<1>8. M(<< >>) = << >>
  <2>1. ~IsPrefix(from, << >>)
    <3> SUFFICES ASSUME IsPrefix(from, << >>) PROVE FALSE OBVIOUS
    <3>1. Len(from) \in Nat /\ Len(from) <= 0 BY EmptySeq, LenProperties, PrefixIs
    <3>2. Len(to) \in Nat BY LenProperties
    <3>3. Len(from) <= Len(to) /\ \A i \in 1..Len(from) : from[i] = to[i] BY <3>1, <3>2
    <3>4. IsPrefix(from, to) BY <3>3, PrefixIs
    <3> QED BY <1>1, <3>4
  <2> QED BY <1>4, <2>1
<1>9. ASSUME NEW p \in drv PROVE Parent(M(p)) \in {M(q) : q \in dirs}
  <2>1. ASSUME NEW x \in Seq(Names), ~IsPrefix(from, x), Parent(x) \in dirs
        PROVE  Parent(x) \in {M(q) : q \in dirs}
    <3>1. ~IsPrefix(from, Parent(x)) BY <2>1, AboveParent
    <3>2. M(Parent(x)) = Parent(x) BY <1>4, <3>1
    <3> QED BY <2>1, <3>2
  <2>2. CASE ~IsPrefix(from, p)
    <3>1. M(p) = p BY <1>4, <2>2
    <3> QED BY <1>3, <2>1, <2>2, <3>1
  <2>3. CASE p = from
    <3>1. IsPrefix(from, from) BY LenProperties, PrefixIs
    <3>2. M(p) = to BY <1>5, <2>3, <3>1, CarriedRoot
    <3> QED BY <1>1, <2>1, <3>2
  <2>4. CASE IsPrefix(from, p) /\ p # from
    <3>1. /\ IsPrefix(from, Parent(p))
          /\ Parent(Carried(from, to, p)) = Carried(from, to, Parent(p))
      BY <1>3, <2>4, CarriedParent
    <3>2. M(p) = Carried(from, to, p) BY <1>5, <2>4
    <3>3. M(Parent(p)) = Carried(from, to, Parent(p)) BY <1>5, <3>1
    <3>4. Parent(M(p)) = M(Parent(p)) BY <3>1, <3>2, <3>3
    <3>5. Parent(p) \in dirs BY <1>3
    <3> QED BY <3>4, <3>5
  <2> QED BY <2>2, <2>3, <2>4
<1>10. M(cwd) = cwd BY <1>1, <1>4
<1>11. << >> \in dirs BY DEF IsTree
<1> DEFINE D == {M(p) : p \in dirs}
           F == {M(p) : p \in files}
<1>12. D \cup F \subseteq Paths BY <1>6
<1>13. D \cap F = {} BY <1>7
<1>14. << >> \in D /\ cwd \in D BY <1>8, <1>10, <1>11
<1>15. \A p \in D \cup F : Parent(p) \in D BY <1>9
<1>16. D = Moved(dirs, from, to) /\ F = Moved(files, from, to) BY <1>2
<1> HIDE DEF D, F
<1> QED BY <1>12, <1>13, <1>14, <1>15, <1>16 DEF IsTree

-----------------------------------------------------------------------------
(* The inductive invariant *)

\* The variables of the sessions have their types.
Typed ==
    /\ pc \in [Sessions -> {"ready", "mkd", "list"}]
    /\ rnfr \in [Sessions -> FileArg \cup {NoArg}]
    /\ made \in [Sessions -> Seq(Names)]
    /\ view \in [Sessions -> Seq(Names)]
    /\ named \in [Sessions -> Seq(Names)]
    /\ find \in [Sessions -> [dir : Seq(Names), all : SUBSET Names, todo : SUBSET Names,
                               sent : SUBSET Names]]
    /\ astray \in SUBSET Sessions /\ turned \in SUBSET Sessions /\ disturbed \in SUBSET Sessions

Planted == IsTree(dirs, files) /\ cwd \in dirs

InView == \A s \in Sessions \ astray : view[s] = cwd

\* What RNFR named is what its name still means.
Intended == \A s \in Sessions \ turned : rnfr[s] # NoArg => named[s] = Under(cwd, rnfr[s])

\* MKD made a directory where the process still is.
Announcing == \A s \in Sessions \ disturbed :
                pc[s] = "mkd" => \E n \in Names : made[s] = Append(cwd, n)

\* A listing is of the directory where the process still is, all it read is still
\* there, and only hidden names and the first result of a root are neither sent nor
\* to come.
Listing ==
    \A s \in Sessions \ disturbed : pc[s] = "list" =>
      /\ find[s].dir = cwd /\ find[s].all \subseteq Entries(cwd)
      /\ \E n : find[s].all \ (find[s].todo \cup find[s].sent) \subseteq Dropped(cwd, n) \cup Hidden

Chosen == \A s \in Sessions : find[s].todo \subseteq find[s].all

\* Every search under way holds a handle, besides those that were never closed.
Searching == {s \in Sessions : pc[s] = "list"}
Counted == held \in 0..MaxHeld /\ IsFiniteSet(Searching) /\ Cardinality(Searching) <= held

Inv == Typed /\ Planted /\ InView /\ Intended /\ Announcing /\ Listing /\ Chosen /\ Counted

\* The invariant at first.
LEMMA InvStarts == Init => Inv
<1> SUFFICES ASSUME Init PROVE Inv OBVIOUS
<1>1. << >> \in Seq(Names) OBVIOUS
<1>2. Typed BY <1>1 DEF Init, Typed, NoSearch
<1>3. Planted
  <2>1. PICK d \in Drives : dirs = d.dirs /\ files = d.files BY DEF Init
  <2>2. ASSUME NEW p \in dirs \cup files PROVE Parent(p) \in dirs
    BY <2>1, FileAssumption DEF Parent
  <2> QED BY <2>1, <2>2, FileAssumption DEF Init, Planted, IsTree
<1>4. InView /\ Intended /\ Announcing /\ Listing /\ Chosen
  BY DEF Init, InView, Intended, Announcing, Listing, Chosen, NoSearch
<1>5. Counted
  <2>1. Searching = {} BY DEF Init, Searching
  <2> QED BY <2>1, FS_EmptySet, FileAssumption DEF Init, Counted
<1> QED BY <1>2, <1>3, <1>4, <1>5 DEF Inv

-----------------------------------------------------------------------------
(* What the steps of a session that is not in the middle of a command keep  *)

\* Where a name leads is a path.
LEMMA UnderIs ==
    ASSUME NEW d \in Seq(Names), NEW a \in Arg
    PROVE  Under(d, a) \in Seq(Names) /\ Under(d, a) # << >>
<1>1. a.name \in Names BY FileAssumption DEF Arg
<1> QED BY <1>1, ChildIs, TopIs DEF Under

\* No argument is the mark of none.
LEMMA ArgIs == NoArg \notin FileArg /\ FileArg \subseteq Arg
BY DEF NoArg, FileArg, Arg

\* The current directory is a path.
LEMMA CwdIs == ASSUME Planted PROVE cwd \in Seq(Names)
BY PathsAreSeqs DEF Planted, IsTree

\* Whoever was in the middle of a command is disturbed: nothing is claimed of it.
LEMMA Disturbing ==
    ASSUME Inv, NEW s \in Sessions, Ready(s), Disturbs(s), UNCHANGED <<pc, made, find, held>>
    PROVE  Announcing' /\ Listing' /\ Chosen' /\ Counted' /\ disturbed' \in SUBSET Sessions
<1>1. \A r \in Sessions : r \in disturbed' \/ pc'[r] = "ready"
  BY DEF Disturbs, Busy, Ready
<1>2. Announcing' /\ Listing' BY <1>1 DEF Announcing, Listing
<1>3. Chosen' BY DEF Inv, Chosen
<1>4. Counted' BY DEF Inv, Counted, Searching
<1>5. disturbed' \in SUBSET Sessions BY DEF Inv, Typed, Disturbs, Busy
<1> QED BY <1>2, <1>3, <1>4, <1>5

\* What is added to the drive disturbs no listing.
LEMMA Adding ==
    ASSUME Inv, dirs \subseteq dirs', files \subseteq files', UNCHANGED <<cwd, find, disturbed>>,
           NEW s \in Sessions, \A r \in Sessions \ {s} : pc'[r] = pc[r],
           pc'[s] = "list" => pc[s] = "list"
    PROVE  Listing' /\ Chosen'
<1>1. Entries(cwd) \subseteq Entries(cwd)' BY DEF Entries, Exists
<1>2. Listing'
  <2> SUFFICES ASSUME NEW r \in Sessions \ disturbed, pc'[r] = "list"
               PROVE  /\ find[r].dir = cwd /\ find[r].all \subseteq Entries(cwd)'
                      /\ \E n : find[r].all \ (find[r].todo \cup find[r].sent)
                                  \subseteq Dropped(cwd, n) \cup Hidden
    BY DEF Listing
  <2>1. pc[r] = "list" OBVIOUS
  <2> QED BY <1>1, <2>1 DEF Inv, Listing
<1>3. Chosen' BY DEF Inv, Chosen
<1> QED BY <1>2, <1>3

-----------------------------------------------------------------------------
(* Each step *)

\* _chdir: the directory is everybody's; only the session that changed it
\* knows where it is.
LEMMA ChdirStep ==
    ASSUME Inv, NEW s \in Sessions, NEW target \in dirs, NEW own \in Seq(Names),
           NEW absolute \in BOOLEAN, Ready(s), ChangeDir(s, target, own, absolute),
           absolute \/ s \notin astray => own = target, UNCHANGED <<drive, work, named>>
    PROVE  Inv'
<1> DEFINE lost == (astray \cup (Sessions \ {s})) \ (IF absolute THEN {s} ELSE {})
<1>1. /\ cwd' = target /\ astray' = lost
      /\ view' = [r \in Sessions |-> IF r \in lost THEN << >> ELSE own]
      /\ turned' = {r \in Sessions : rnfr[r] # NoArg} /\ Disturbs(s)
  BY DEF ChangeDir
<1>2. UNCHANGED <<dirs, files, pc, made, find, rnfr, held, named>> BY DEF drive, work
<1>3. Announcing' /\ Listing' /\ Chosen' /\ Counted' /\ disturbed' \in SUBSET Sessions
  BY <1>1, <1>2, Disturbing
<1>4. lost \in SUBSET Sessions /\ << >> \in Seq(Names) BY DEF Inv, Typed
<1>5. \A r \in Sessions : r \notin lost => r = s /\ (absolute \/ s \notin astray) OBVIOUS
<1> HIDE DEF lost
<1>6. Typed'
  <2>1. view' \in [Sessions -> Seq(Names)] BY <1>1, <1>4
  <2> QED BY <1>1, <1>2, <1>3, <1>4, <2>1 DEF Inv, Typed
<1>7. Planted' BY <1>1, <1>2 DEF Inv, Planted
<1>8. InView' BY <1>1, <1>5 DEF InView
<1>9. Intended' BY <1>1, <1>2 DEF Intended
<1> QED BY <1>3, <1>6, <1>7, <1>8, <1>9 DEF Inv

\* CWD leads where the session believes, if it believes rightly where it is.
LEMMA CwdStep ==
    ASSUME Inv, NEW s \in Sessions, NEW a \in Arg, Cwd(s, a)
    PROVE  Inv'
<1> DEFINE target == CwdTarget(cwd, a)
           own == IF a.form = "abs" THEN <<a.name>> ELSE Append(view[s], a.name)
<1>1. /\ Ready(s) /\ a.form # "slash" /\ target \in dirs
      /\ ChangeDir(s, target, own, a.form = "abs") /\ UNCHANGED <<drive, work, named>>
  BY DEF Cwd, Stripped
<1>2. a.name \in Names /\ a.form \in {"rel", "abs", "slashed", "slash"} BY FileAssumption DEF Arg
<1>3. target = IF a.form = "abs" THEN <<a.name>> ELSE Append(cwd, a.name)
  BY <1>1, <1>2 DEF CwdTarget, Under
<1>4. view[s] \in Seq(Names) BY DEF Inv, Typed
<1>5. own \in Seq(Names) BY <1>2, <1>4, AppendProperties, TopIs
<1>6. ASSUME a.form = "abs" \/ s \notin astray PROVE own = target
  BY <1>3, <1>6 DEF Inv, InView
<1> HIDE DEF target, own
<1>7. (a.form = "abs") \in BOOLEAN OBVIOUS
<1> QED BY <1>1, <1>5, <1>6, <1>7, ChdirStep

\* CDUP leads to the parent.
LEMMA CdupStep ==
    ASSUME Inv, NEW s \in Sessions, Cdup(s)
    PROVE  Inv'
<1>1. /\ Ready(s) /\ ChangeDir(s, Parent(cwd), Parent(view[s]), FALSE)
      /\ UNCHANGED <<drive, work, named>>
  BY DEF Cdup, CdupTarget
<1>2. Parent(cwd) \in dirs BY DEF Inv, Planted, IsTree
<1>3. view[s] \in Seq(Names) BY DEF Inv, Typed
<1>4. Parent(view[s]) \in Seq(Names)
  <2>1. CASE view[s] = << >> BY <1>3, <2>1 DEF Parent
  <2>2. CASE view[s] # << >> BY <1>3, <2>2, ParentIs
  <2> QED BY <2>1, <2>2
<1>5. s \notin astray => Parent(view[s]) = Parent(cwd) BY DEF Inv, InView
<1> QED BY <1>1, <1>2, <1>4, <1>5, ChdirStep

\* A system call that takes something from the drive, or moves it.
LEMMA AlterStep ==
    ASSUME Inv, NEW s \in Sessions, Ready(s), Disturbs(s), Planted',
           UNCHANGED <<cwd, pc, made, find, held, view, astray>>,
           \/ UNCHANGED <<rnfr, named, turned>>
           \/ /\ rnfr' = [rnfr EXCEPT ![s] = NoArg] /\ named' = [named EXCEPT ![s] = << >>]
              /\ turned' = turned \ {s}
    PROVE  Inv'
<1>1. Announcing' /\ Listing' /\ Chosen' /\ Counted' /\ disturbed' \in SUBSET Sessions
  BY Disturbing
<1>2. Typed'
  <2>1. << >> \in Seq(Names) OBVIOUS
  <2>2. rnfr' \in [Sessions -> FileArg \cup {NoArg}] BY DEF Inv, Typed
  <2>3. named' \in [Sessions -> Seq(Names)] BY <2>1 DEF Inv, Typed
  <2>4. turned' \in SUBSET Sessions BY DEF Inv, Typed
  <2> QED BY <1>1, <2>2, <2>3, <2>4 DEF Inv, Typed
<1>3. InView' BY DEF Inv, InView
<1>4. Intended'
  <2>1. CASE UNCHANGED <<rnfr, named, turned>> BY <2>1 DEF Inv, Intended, Under
  <2>2. CASE /\ rnfr' = [rnfr EXCEPT ![s] = NoArg] /\ named' = [named EXCEPT ![s] = << >>]
             /\ turned' = turned \ {s}
    <3>1. rnfr'[s] = NoArg BY <2>2 DEF Inv, Typed
    <3>2. \A r \in Sessions \ {s} :
            rnfr'[r] = rnfr[r] /\ named'[r] = named[r] /\ (r \notin turned' => r \notin turned)
      BY <2>2 DEF Inv, Typed
    <3> QED BY <3>1, <3>2 DEF Inv, Intended, Under
  <2> QED BY <2>1, <2>2
<1> QED BY <1>1, <1>2, <1>3, <1>4 DEF Inv

\* RMD takes an empty directory that nobody is in.
LEMMA RmdStep ==
    ASSUME Inv, NEW s \in Sessions, NEW a \in FileArg, Rmd(s, a)
    PROVE  Inv'
<1> DEFINE p == Under(cwd, a)
<1>1. /\ Ready(s) /\ p \in dirs /\ Entries(p) = {} /\ ~InUse(p) /\ dirs' = dirs \ {p}
      /\ Disturbs(s) /\ UNCHANGED <<astray, turned, files, cwd, work, view, named>>
  BY DEF Rmd, Alters
<1>2. p \in Seq(Names) /\ p # << >> BY CwdIs, UnderIs, ArgIs DEF Inv
<1> HIDE DEF p
<1>3. IsPrefix(p, p) BY <1>2, LenProperties, PrefixIs
<1>4. Planted' BY <1>1, <1>2, <1>3, TreeShrinks DEF Inv, Planted, InUse
<1>5. UNCHANGED <<pc, made, find, held, rnfr>> BY <1>1 DEF work
<1> QED BY <1>1, <1>4, <1>5, AlterStep

\* DELE takes a file.
LEMMA DeleStep ==
    ASSUME Inv, NEW s \in Sessions, NEW a \in FileArg, Dele(s, a)
    PROVE  Inv'
<1>1. /\ Ready(s) /\ Under(cwd, a) \in files /\ files' = files \ {Under(cwd, a)}
      /\ Disturbs(s) /\ UNCHANGED <<astray, turned, dirs, cwd, work, view, named>>
  BY DEF Dele, Alters
<1>2. Planted' BY <1>1, TreeShrinks DEF Inv, Planted
<1>3. UNCHANGED <<pc, made, find, held, rnfr>> BY <1>1 DEF work
<1> QED BY <1>1, <1>2, <1>3, AlterStep

\* RNTO moves a part of the tree.
LEMMA RntoStep ==
    ASSUME Inv, NEW s \in Sessions, NEW a \in FileArg, Rnto(s, a)
    PROVE  Inv'
<1> DEFINE from == RntoFrom(s)
           to == Under(cwd, a)
<1>1. /\ Ready(s) /\ rnfr[s] # NoArg /\ CanRename(from, to)
      /\ dirs' = Moved(dirs, from, to) /\ files' = Moved(files, from, to)
      /\ rnfr' = [rnfr EXCEPT ![s] = NoArg]
      /\ named' = [named EXCEPT ![s] = << >>] /\ turned' = turned \ {s} /\ Disturbs(s)
      /\ UNCHANGED <<cwd, pc, made, find, held, view, astray>>
  BY DEF Rnto, Forgets
<1>2. cwd \in Seq(Names) BY CwdIs DEF Inv
<1>3. rnfr[s] \in Arg BY <1>1, ArgIs DEF Inv, Typed
<1>4. from \in Seq(Names) /\ to \in Seq(Names) BY <1>2, <1>3, UnderIs, ArgIs DEF RntoFrom
<1> HIDE DEF from, to
<1>5. Planted' BY <1>1, <1>4, TreeMoves DEF Inv, Planted
<1> QED BY <1>1, <1>5, AlterStep

\* STOR adds a file.
LEMMA StorStep ==
    ASSUME Inv, NEW s \in Sessions, NEW a \in FileArg, Stor(s, a)
    PROVE  Inv'
<1>1. /\ Ready(s) /\ Free(Under(cwd, a)) /\ files' = files \cup {Under(cwd, a)}
      /\ UNCHANGED <<dirs, cwd, pc, made, find, rnfr, held, view, named, astray, turned, disturbed>>
  BY DEF Stor, work, causes
<1>2. Planted' BY <1>1, TreeGrows DEF Inv, Planted
<1>3. Listing' /\ Chosen' BY <1>1, Adding
<1>4. Typed' BY <1>1 DEF Inv, Typed
<1>5. InView' /\ Intended' /\ Announcing'
  BY <1>1 DEF Inv, InView, Intended, Under, Announcing
<1>6. Counted' BY <1>1 DEF Inv, Counted, Searching
<1> QED BY <1>2, <1>3, <1>4, <1>5, <1>6 DEF Inv

\* What only concerns names kept for RNTO, or where a new session is.
LEMMA NameStep ==
    ASSUME Inv, Typed', InView', Intended',
           UNCHANGED <<drive, cwd, pc, made, find, held, disturbed>>
    PROVE  Inv'
<1>1. Planted' BY DEF Inv, Planted, drive
<1>2. Announcing' BY DEF Inv, Announcing
<1>3. Listing' BY DEF Inv, Listing, Entries, Exists, drive
<1>4. Chosen' /\ Counted' BY DEF Inv, Chosen, Counted, Searching
<1> QED BY <1>1, <1>2, <1>3, <1>4 DEF Inv

\* RNFR keeps a name.
LEMMA RnfrStep ==
    ASSUME Inv, NEW s \in Sessions, NEW a \in FileArg, Rnfr(s, a)
    PROVE  Inv'
<1>1. /\ rnfr' = [rnfr EXCEPT ![s] = a] /\ named' = [named EXCEPT ![s] = Under(cwd, a)]
      /\ turned' = turned \ {s}
      /\ UNCHANGED <<drive, cwd, pc, made, find, held, view, astray, disturbed>>
  BY DEF Rnfr, Keeps
<1>2. Under(cwd, a) \in Seq(Names) BY CwdIs, UnderIs, ArgIs DEF Inv
<1>3. Typed'
  <2>1. rnfr' \in [Sessions -> FileArg \cup {NoArg}] BY <1>1 DEF Inv, Typed
  <2>2. named' \in [Sessions -> Seq(Names)] BY <1>1, <1>2 DEF Inv, Typed
  <2>3. turned' \in SUBSET Sessions BY <1>1 DEF Inv, Typed
  <2> QED BY <1>1, <2>1, <2>2, <2>3 DEF Inv, Typed
<1>4. InView' BY <1>1 DEF Inv, InView
<1>5. Intended'
  <2>1. rnfr'[s] = a /\ named'[s] = Under(cwd, a) BY <1>1 DEF Inv, Typed
  <2>2. \A r \in Sessions \ {s} :
          rnfr'[r] = rnfr[r] /\ named'[r] = named[r] /\ (r \notin turned' => r \notin turned)
    BY <1>1 DEF Inv, Typed
  <2> QED BY <1>1, <2>1, <2>2 DEF Inv, Intended, Under
<1> QED BY <1>1, <1>3, <1>4, <1>5, NameStep

\* A new session knows where it is, and has named nothing.
LEMMA NewSessionStep ==
    ASSUME Inv, NEW s \in Sessions, NewSession(s)
    PROVE  Inv'
<1>1. /\ rnfr' = [rnfr EXCEPT ![s] = NoArg] /\ named' = [named EXCEPT ![s] = << >>]
      /\ view' = [view EXCEPT ![s] = cwd] /\ astray' = astray \ {s} /\ turned' = turned \ {s}
      /\ UNCHANGED <<drive, cwd, pc, made, find, held, disturbed>>
  BY DEF NewSession, Forgets
<1>2. cwd \in Seq(Names) /\ << >> \in Seq(Names) BY CwdIs DEF Inv
<1>3. Typed'
  <2>1. rnfr' \in [Sessions -> FileArg \cup {NoArg}] BY <1>1 DEF Inv, Typed
  <2>2. named' \in [Sessions -> Seq(Names)] /\ view' \in [Sessions -> Seq(Names)]
    BY <1>1, <1>2 DEF Inv, Typed
  <2>3. turned' \in SUBSET Sessions /\ astray' \in SUBSET Sessions BY <1>1 DEF Inv, Typed
  <2> QED BY <1>1, <2>1, <2>2, <2>3 DEF Inv, Typed
<1>4. InView'
  <2>1. view'[s] = cwd BY <1>1 DEF Inv, Typed
  <2>2. \A r \in Sessions \ {s} : view'[r] = view[r] /\ (r \notin astray' => r \notin astray)
    BY <1>1 DEF Inv, Typed
  <2> QED BY <1>1, <2>1, <2>2 DEF Inv, InView
<1>5. Intended'
  <2>1. rnfr'[s] = NoArg BY <1>1 DEF Inv, Typed
  <2>2. \A r \in Sessions \ {s} :
          rnfr'[r] = rnfr[r] /\ named'[r] = named[r] /\ (r \notin turned' => r \notin turned)
    BY <1>1 DEF Inv, Typed
  <2> QED BY <1>1, <2>1, <2>2 DEF Inv, Intended, Under
<1> QED BY <1>1, <1>3, <1>4, <1>5, NameStep

\* MKD adds a directory, and has still to name it.
LEMMA MkdStep ==
    ASSUME Inv, NEW s \in Sessions, NEW a \in FileArg, Mkd(s, a)
    PROVE  Inv'
<1> DEFINE p == Under(cwd, a)
<1>1. /\ Ready(s) /\ Free(p) /\ dirs' = dirs \cup {p}
      /\ UNCHANGED <<files, cwd, find, rnfr, held, view, named, astray, turned, disturbed>>
      /\ \/ a.form = "rel" /\ pc' = [pc EXCEPT ![s] = "mkd"] /\ made' = [made EXCEPT ![s] = p]
         \/ UNCHANGED <<pc, made>>
  BY DEF Mkd, Goto, causes
<1>2. p \in Seq(Names) BY CwdIs, UnderIs, ArgIs DEF Inv
<1>3. a.form = "rel" => \E n \in Names : p = Append(cwd, n) BY FileAssumption DEF FileArg, Arg, Under
<1> HIDE DEF p
<1>4. /\ pc' \in [Sessions -> {"ready", "mkd", "list"}] /\ made' \in [Sessions -> Seq(Names)]
      /\ \A r \in Sessions \ {s} : pc'[r] = pc[r] /\ made'[r] = made[r]
      /\ \/ pc'[s] = "ready"
         \/ pc'[s] = "mkd" /\ made'[s] = p /\ a.form = "rel"
  <2>1. /\ pc \in [Sessions -> {"ready", "mkd", "list"}] /\ made \in [Sessions -> Seq(Names)]
        /\ pc[s] = "ready"
    BY <1>1 DEF Inv, Typed, Ready
  <2>2. CASE UNCHANGED <<pc, made>> BY <2>1, <2>2
  <2>3. CASE /\ a.form = "rel" /\ pc' = [pc EXCEPT ![s] = "mkd"]
             /\ made' = [made EXCEPT ![s] = p]
    BY <1>2, <2>1, <2>3
  <2> QED  BY <1>1, <2>2, <2>3
<1>5. Typed' BY <1>1, <1>4 DEF Inv, Typed
<1>6. Planted' BY <1>1, TreeGrows DEF Inv, Planted
<1>7. InView' /\ Intended' BY <1>1 DEF Inv, InView, Intended, Under
<1>8. Announcing' BY <1>1, <1>3, <1>4 DEF Inv, Announcing
<1>9. Listing' /\ Chosen' BY <1>1, <1>4, Adding
<1>10. Counted'
  <2>1. Searching' = Searching BY <1>1, <1>4 DEF Searching, Ready
  <2> QED BY <1>1, <2>1 DEF Inv, Counted
<1> QED BY <1>5, <1>6, <1>7, <1>8, <1>9, <1>10 DEF Inv

\* MKD has named it.
LEMMA MkdReplyStep ==
    ASSUME Inv, NEW s \in Sessions, MkdReply(s)
    PROVE  Inv'
<1>1. /\ pc[s] = "mkd" /\ pc' = [pc EXCEPT ![s] = "ready"] /\ disturbed' = disturbed \ {s}
      /\ made' = [made EXCEPT ![s] = << >>]
      /\ UNCHANGED <<astray, turned, dirs, files, cwd, find, rnfr, held, view, named>>
  BY DEF MkdReply, Ends, Goto, drive
<1>2. /\ pc' \in [Sessions -> {"ready", "mkd", "list"}] /\ made' \in [Sessions -> Seq(Names)]
      /\ pc'[s] = "ready" /\ \A r \in Sessions \ {s} : pc'[r] = pc[r] /\ made'[r] = made[r]
      /\ disturbed' \in SUBSET Sessions
  <2>1. << >> \in Seq(Names) OBVIOUS
  <2> QED BY <1>1, <2>1 DEF Inv, Typed
<1>3. Typed' BY <1>1, <1>2 DEF Inv, Typed
<1>4. Planted' /\ InView' /\ Intended' /\ Chosen'
  BY <1>1 DEF Inv, Planted, InView, Intended, Under, Chosen
<1>5. Announcing' BY <1>1, <1>2 DEF Inv, Announcing
<1>6. Listing' BY <1>1, <1>2 DEF Inv, Listing, Entries, Exists
<1>7. Counted'
  <2>1. Searching' = Searching BY <1>1, <1>2 DEF Searching
  <2> QED BY <1>1, <2>1 DEF Inv, Counted
<1> QED BY <1>3, <1>4, <1>5, <1>6, <1>7 DEF Inv

\* What a step of a listing leaves alone.
Aside == UNCHANGED <<dirs, files, cwd, made, rnfr, view, named, astray, turned>>

\* A step of a listing concerns its own session.
LEMMA SearchStep ==
    ASSUME Inv, NEW s \in Sessions, Aside, Counted',
           pc' \in [Sessions -> {"ready", "mkd", "list"}], pc'[s] # "mkd",
           NEW f \in [dir : Seq(Names), all : SUBSET Names, todo : SUBSET Names,
                       sent : SUBSET Names],
           f.todo \subseteq f.all, find' = [find EXCEPT ![s] = f],
           \A r \in Sessions \ {s} : pc'[r] = pc[r], disturbed' \in {disturbed, disturbed \ {s}},
           pc'[s] = "list" /\ s \notin disturbed' =>
             /\ f.dir = cwd /\ f.all \subseteq Entries(cwd)
             /\ \E n : f.all \ (f.todo \cup f.sent) \subseteq Dropped(cwd, n) \cup Hidden
    PROVE  Inv'
<1>1. /\ find' \in [Sessions -> [dir : Seq(Names), all : SUBSET Names, todo : SUBSET Names,
                                 sent : SUBSET Names]]
      /\ find'[s] = f /\ \A r \in Sessions \ {s} : find'[r] = find[r]
  BY DEF Inv, Typed
<1>2. Typed'
  <2>1. disturbed' \in SUBSET Sessions BY DEF Inv, Typed
  <2> QED BY <1>1, <2>1 DEF Inv, Typed, Aside
<1>3. Planted' /\ InView' /\ Intended' BY DEF Inv, Planted, InView, Intended, Under, Aside
<1>4. \A r \in Sessions \ disturbed' : r = s \/ (r \in Sessions \ disturbed /\ r # s) OBVIOUS
<1>5. Announcing' BY <1>4 DEF Inv, Announcing, Aside
<1>6. Listing'
  <2>1. Entries(cwd)' = Entries(cwd) BY DEF Entries, Exists, Aside
  <2> SUFFICES ASSUME NEW r \in Sessions \ disturbed', pc'[r] = "list"
               PROVE  /\ find'[r].dir = cwd /\ find'[r].all \subseteq Entries(cwd)
                      /\ \E n : find'[r].all \ (find'[r].todo \cup find'[r].sent)
                                  \subseteq Dropped(cwd, n) \cup Hidden
    BY <2>1 DEF Listing, Aside
  <2>2. CASE r = s BY <1>1, <2>2
  <2>3. CASE r # s
    <3>1. pc[r] = "list" /\ find'[r] = find[r] /\ r \in Sessions \ disturbed
      BY <1>1, <1>4, <2>3
    <3> QED BY <3>1 DEF Inv, Listing
  <2> QED BY <2>2, <2>3
<1>7. Chosen' BY <1>1 DEF Inv, Chosen
<1> QED BY <1>2, <1>3, <1>5, <1>6, <1>7 DEF Inv

\* A listing begins with what the directory holds, one of a root without its
\* first result.
LEMMA OpendirStep ==
    ASSUME Inv, NEW s \in Sessions, Opendir(s)
    PROVE  Inv'
<1>1. pc[s] = "ready" /\ held < MaxHeld /\ UNCHANGED <<drive, cwd, made, rnfr, view, named>>
  BY DEF Opendir, Ready
<1>2. CASE UNCHANGED <<pc, find, held, causes>>
  <2>1. UNCHANGED <<drive, cwd, pc, made, find, held, disturbed, rnfr, view, named, astray, turned>>
    BY <1>1, <1>2 DEF causes
  <2>2. Typed' /\ InView' /\ Intended' BY <2>1 DEF Inv, Typed, InView, Intended, Under
  <2> QED BY <2>1, <2>2, NameStep
<1>3. CASE \E n : /\ find' = [find EXCEPT ![s] =
                                Search(cwd, Entries(cwd), Entries(cwd) \ Dropped(cwd, n))]
                  /\ Goto(s, "list") /\ held' = held + 1 /\ UNCHANGED causes
  <2>1. PICK n : /\ find' = [find EXCEPT ![s] =
                               Search(cwd, Entries(cwd), Entries(cwd) \ Dropped(cwd, n))]
                 /\ pc' = [pc EXCEPT ![s] = "list"] /\ held' = held + 1 /\ UNCHANGED causes
    BY <1>3 DEF Goto
  <2> DEFINE E == Entries(cwd)
             T == E \ Dropped(cwd, n)
             f == Search(cwd, E, T)
  <2>2. E \in SUBSET Names BY DEF Entries
  <2>3. cwd \in Seq(Names) BY CwdIs DEF Inv
  <2>4. /\ f \in [dir : Seq(Names), all : SUBSET Names, todo : SUBSET Names, sent : SUBSET Names]
        /\ f.dir = cwd /\ f.all = E /\ f.todo = T /\ f.sent = {}
    BY <2>2, <2>3 DEF Search
  <2>5. E \ (T \cup {}) \subseteq Dropped(cwd, n) /\ T \subseteq E OBVIOUS
  <2>6. find' = [find EXCEPT ![s] = f] BY <2>1
  <2> HIDE DEF f
  <2>7. /\ pc' \in [Sessions -> {"ready", "mkd", "list"}] /\ pc'[s] = "list"
        /\ \A r \in Sessions \ {s} : pc'[r] = pc[r]
    BY <2>1 DEF Inv, Typed
  <2>8. Counted'
    <3>1. Searching' = Searching \cup {s} /\ s \notin Searching BY <1>1, <2>7 DEF Searching
    <3>2. /\ IsFiniteSet(Searching) /\ Cardinality(Searching) <= held /\ held \in 0..MaxHeld
          /\ Cardinality(Searching) \in Nat
      BY FS_CardinalityType DEF Inv, Counted
    <3>3. /\ IsFiniteSet(Searching \cup {s})
          /\ Cardinality(Searching \cup {s}) = Cardinality(Searching) + 1
      BY <3>1, <3>2, FS_AddElement
    <3>4. held' \in 0..MaxHeld /\ Cardinality(Searching) + 1 <= held'
      BY <1>1, <2>1, <3>2, FileAssumption
    <3> QED BY <3>1, <3>3, <3>4 DEF Counted
  <2>9. Aside /\ disturbed' = disturbed BY <1>1, <2>1 DEF Aside, drive, causes
  <2> HIDE DEF E, T
  <2>10. /\ f.todo \subseteq f.all /\ f.all \subseteq Entries(cwd)
         /\ f.all \ (f.todo \cup f.sent) \subseteq Dropped(cwd, n) \cup Hidden
    BY <2>4, <2>5 DEF E
  <2> QED BY <2>4, <2>6, <2>7, <2>8, <2>9, <2>10, SearchStep
<1> QED BY <1>2, <1>3 DEF Opendir

\* A name goes from those to come to those sent.
LEMMA LineStep ==
    ASSUME Inv, NEW s \in Sessions, NEW n \in Names, Line(s, n)
    PROVE  Inv'
<1> DEFINE g == find[s]
           f == [g EXCEPT !.todo = @ \ {n}, !.sent = @ \cup {n}]
<1>1. /\ pc[s] = "list" /\ n \in g.todo
      /\ find' = [find EXCEPT ![s].todo = @ \ {n}, ![s].sent = @ \cup {n}]
      /\ UNCHANGED <<drive, cwd, pc, made, rnfr, held, view, named, causes>>
  BY DEF Line
<1>2. g \in [dir : Seq(Names), all : SUBSET Names, todo : SUBSET Names, sent : SUBSET Names]
      /\ g.todo \subseteq g.all
  BY DEF Inv, Typed, Chosen
<1>3. find' = [find EXCEPT ![s] = f] BY <1>1 DEF Inv, Typed
<1>4. /\ f \in [dir : Seq(Names), all : SUBSET Names, todo : SUBSET Names, sent : SUBSET Names]
      /\ f.dir = g.dir /\ f.all = g.all /\ f.todo = g.todo \ {n} /\ f.sent = g.sent \cup {n}
  BY <1>2
<1>5. s \notin disturbed => /\ g.dir = cwd /\ g.all \subseteq Entries(cwd)
                            /\ \E m : g.all \ (g.todo \cup g.sent) \subseteq Dropped(cwd, m) \cup Hidden
  BY <1>1 DEF Inv, Listing
<1> HIDE DEF f, g
<1>6. f.todo \subseteq f.all /\ f.todo \cup f.sent = g.todo \cup g.sent BY <1>1, <1>2, <1>4
<1>7. Aside /\ disturbed' = disturbed /\ pc' = pc BY <1>1 DEF Aside, drive, causes
<1>8. Counted' BY <1>1 DEF Inv, Counted, Searching
<1>9. pc' \in [Sessions -> {"ready", "mkd", "list"}] /\ pc'[s] # "mkd" BY <1>1, <1>7 DEF Inv, Typed
<1>10. s \notin disturbed' => /\ f.dir = cwd /\ f.all \subseteq Entries(cwd)
                              /\ \E m : f.all \ (f.todo \cup f.sent) \subseteq Dropped(cwd, m) \cup Hidden
  BY <1>4, <1>5, <1>6, <1>7
<1> QED BY <1>3, <1>4, <1>6, <1>7, <1>8, <1>9, <1>10, SearchStep

\* A name is passed over only when it has gone, and then the listing was disturbed.
LEMMA PassedStep ==
    ASSUME Inv, NEW s \in Sessions, NEW n \in Names, Passed(s, n)
    PROVE  Inv'
<1> DEFINE g == find[s]
           f == [g EXCEPT !.todo = @ \ {n}]
<1>1. /\ pc[s] = "list" /\ n \in g.todo /\ ~Exists(Append(g.dir, n))
      /\ find' = [find EXCEPT ![s].todo = @ \ {n}]
      /\ UNCHANGED <<drive, cwd, pc, made, rnfr, held, view, named, causes>>
  BY DEF Passed
<1>2. g \in [dir : Seq(Names), all : SUBSET Names, todo : SUBSET Names, sent : SUBSET Names]
      /\ g.todo \subseteq g.all
  BY DEF Inv, Typed, Chosen
<1>3. find' = [find EXCEPT ![s] = f] BY <1>1 DEF Inv, Typed
<1>4. /\ f \in [dir : Seq(Names), all : SUBSET Names, todo : SUBSET Names, sent : SUBSET Names]
      /\ f.todo \subseteq f.all
  BY <1>2
<1>5. s \in disturbed
  <2>1. s \notin disturbed => g.dir = cwd /\ g.all \subseteq Entries(cwd)
    BY <1>1 DEF Inv, Listing
  <2> QED BY <1>1, <1>2, <2>1 DEF Entries
<1> HIDE DEF f, g
<1>6. Aside /\ disturbed' = disturbed /\ pc' = pc BY <1>1 DEF Aside, drive, causes
<1>7. Counted' BY <1>1 DEF Inv, Counted, Searching
<1>8. pc' \in [Sessions -> {"ready", "mkd", "list"}] /\ pc'[s] # "mkd" BY <1>1, <1>6 DEF Inv, Typed
<1> QED BY <1>3, <1>4, <1>5, <1>6, <1>7, <1>8, SearchStep

\* A name that begins with "." is passed over.
LEMMA SkippedStep ==
    ASSUME Inv, NEW s \in Sessions, NEW n \in Names, Skipped(s, n)
    PROVE  Inv'
<1> DEFINE g == find[s]
           f == [g EXCEPT !.todo = @ \ {n}]
<1>1. /\ pc[s] = "list" /\ n \in g.todo \cap Hidden
      /\ find' = [find EXCEPT ![s].todo = @ \ {n}]
      /\ UNCHANGED <<drive, cwd, pc, made, rnfr, held, view, named, causes>>
  BY DEF Skipped
<1>2. g \in [dir : Seq(Names), all : SUBSET Names, todo : SUBSET Names, sent : SUBSET Names]
      /\ g.todo \subseteq g.all
  BY DEF Inv, Typed, Chosen
<1>3. find' = [find EXCEPT ![s] = f] BY <1>1 DEF Inv, Typed
<1>4. /\ f \in [dir : Seq(Names), all : SUBSET Names, todo : SUBSET Names, sent : SUBSET Names]
      /\ f.dir = g.dir /\ f.all = g.all /\ f.todo = g.todo \ {n} /\ f.sent = g.sent
  BY <1>2
<1>5. s \notin disturbed =>
        /\ g.dir = cwd /\ g.all \subseteq Entries(cwd)
        /\ \E m : g.all \ (g.todo \cup g.sent) \subseteq Dropped(cwd, m) \cup Hidden
  BY <1>1 DEF Inv, Listing
<1> HIDE DEF f, g
<1>6. f.todo \subseteq f.all /\ f.todo \cup f.sent \cup Hidden = g.todo \cup g.sent \cup Hidden
  BY <1>1, <1>2, <1>4
<1>7. Aside /\ disturbed' = disturbed /\ pc' = pc BY <1>1 DEF Aside, drive, causes
<1>8. Counted' BY <1>1 DEF Inv, Counted, Searching
<1>9. pc' \in [Sessions -> {"ready", "mkd", "list"}] /\ pc'[s] # "mkd" BY <1>1, <1>7 DEF Inv, Typed
<1>10. s \notin disturbed' =>
         /\ f.dir = cwd /\ f.all \subseteq Entries(cwd)
         /\ \E m : f.all \ (f.todo \cup f.sent) \subseteq Dropped(cwd, m) \cup Hidden
  <2> SUFFICES ASSUME s \notin disturbed PROVE /\ f.dir = cwd /\ f.all \subseteq Entries(cwd)
         /\ \E m : f.all \ (f.todo \cup f.sent) \subseteq Dropped(cwd, m) \cup Hidden
    BY <1>7
  <2>1. PICK m : g.all \ (g.todo \cup g.sent) \subseteq Dropped(cwd, m) \cup Hidden BY <1>5
  <2>2. f.all \ (f.todo \cup f.sent) \subseteq Dropped(cwd, m) \cup Hidden BY <1>4, <1>6, <2>1
  <2> QED BY <1>4, <1>5, <2>2
<1> QED BY <1>3, <1>4, <1>6, <1>7, <1>8, <1>9, <1>10, SearchStep

\* A listing ends, with its search closed or not.
LEMMA ListEndStep ==
    ASSUME Inv, NEW s \in Sessions, pc[s] = "list", NEW h \in {held, held - 1}, ListEnd(s, h)
    PROVE  Inv' /\ held >= 1
<1>1. /\ pc' = [pc EXCEPT ![s] = "ready"] /\ disturbed' = disturbed \ {s}
      /\ find' = [find EXCEPT ![s] = NoSearch] /\ held' = h
      /\ UNCHANGED <<astray, turned, drive, cwd, made, rnfr, view, named>>
  BY DEF ListEnd, Ends, Goto
<1>2. /\ pc' \in [Sessions -> {"ready", "mkd", "list"}] /\ pc'[s] = "ready"
      /\ \A r \in Sessions \ {s} : pc'[r] = pc[r]
  BY <1>1 DEF Inv, Typed
<1>3. /\ NoSearch \in [dir : Seq(Names), all : SUBSET Names, todo : SUBSET Names,
                       sent : SUBSET Names]
      /\ NoSearch.todo \subseteq NoSearch.all
  BY DEF NoSearch
<1>4. Counted' /\ held >= 1
  <2>1. Searching' = Searching \ {s} /\ s \in Searching BY <1>2 DEF Searching
  <2>2. /\ IsFiniteSet(Searching) /\ Cardinality(Searching) <= held /\ held \in 0..MaxHeld
        /\ Cardinality(Searching) \in Nat
    BY FS_CardinalityType DEF Inv, Counted
  <2>3. /\ IsFiniteSet(Searching \ {s})
        /\ Cardinality(Searching \ {s}) = Cardinality(Searching) - 1
    BY <2>1, <2>2, FS_RemoveElement
  <2>4. Cardinality(Searching) - 1 \in Nat BY <2>3, FS_CardinalityType
  <2>5. held >= 1 /\ h \in 0..MaxHeld /\ Cardinality(Searching) - 1 <= h
    BY <2>2, <2>4, FileAssumption
  <2> QED BY <1>1, <2>1, <2>3, <2>5 DEF Counted
<1>5. Aside BY <1>1 DEF Aside, drive
<1>6. Inv' BY <1>1, <1>2, <1>3, <1>4, <1>5, SearchStep
<1> QED BY <1>4, <1>6

\* Every step, together.
LEMMA SessionsKeep ==
    ASSUME Inv, [Next]_vars
    PROVE  Inv'
<1>1. CASE UNCHANGED vars
  <2>1. UNCHANGED <<drive, cwd, pc, made, find, held, disturbed, rnfr, view, named, astray, turned>>
    BY <1>1 DEF vars, work, causes
  <2>2. Typed' /\ InView' /\ Intended' BY <2>1 DEF Inv, Typed, InView, Intended, Under
  <2> QED BY <2>1, <2>2, NameStep
<1>2. ASSUME NEW s \in Sessions, Session(s) PROVE Inv'
  <2>1. ASSUME NEW a \in Arg, Cwd(s, a) PROVE Inv' BY <2>1, CwdStep
  <2>2. ASSUME NEW a \in FileArg,
               Rmd(s, a) \/ Dele(s, a) \/ Stor(s, a) \/ Rnfr(s, a) \/ Rnto(s, a) \/ Mkd(s, a)
        PROVE  Inv'
    BY <2>2, RmdStep, DeleStep, StorStep, RnfrStep, RntoStep, MkdStep
  <2>3. CASE Cdup(s) \/ MkdReply(s) \/ Opendir(s) \/ NewSession(s)
    BY <2>3, CdupStep, MkdReplyStep, OpendirStep, NewSessionStep
  <2>4. ASSUME NEW n \in Names, Skipped(s, n) \/ Line(s, n) \/ Passed(s, n) PROVE Inv'
    BY <2>4, SkippedStep, LineStep, PassedStep
  <2>5. CASE StatFails(s) \/ Closedir(s)
    <3>1. pc[s] = "list" /\ \E h \in {held, held - 1} : ListEnd(s, h)
      BY <2>5 DEF StatFails, Closedir, AfterClosedir
    <3> QED BY <3>1, ListEndStep
  <2> QED BY <1>2, <2>1, <2>2, <2>3, <2>4, <2>5 DEF Session
<1> QED BY <1>1, <1>2 DEF Next

\* A listing ends when its session finds a name gone, or has sent them all.
LEMMA WhoEndsListing ==
    ASSUME Inv, [Next]_vars, NEW s \in Sessions, pc[s] = "list", pc'[s] = "ready"
    PROVE  StatFails(s) \/ Closedir(s)
<1>1. pc \in [Sessions -> {"ready", "mkd", "list"}] BY DEF Inv, Typed
<1>2. pc'[s] # pc[s] OBVIOUS
<1>3. PICK r \in Sessions : Session(r) BY <1>2 DEF Next, vars, work
<1>4. CASE \/ \E a \in Arg : Cwd(r, a)
           \/ \E a \in FileArg : Rmd(r, a) \/ Dele(r, a) \/ Stor(r, a) \/ Rnfr(r, a) \/ Rnto(r, a)
           \/ \E n \in Names : Skipped(r, n) \/ Line(r, n) \/ Passed(r, n)
           \/ Cdup(r) \/ NewSession(r)
  <2>1. pc' = pc
    BY <1>4 DEF Cwd, Rmd, Dele, Stor, Rnfr, Rnto, Skipped, Line, Passed, Cdup, NewSession, work
  <2> QED BY <1>2, <2>1
<1>5. CASE (\E a \in FileArg : Mkd(r, a)) \/ Opendir(r)
  <2>1. pc[r] = "ready" /\ (pc' = pc \/ \E x \in {"mkd", "list"} : pc' = [pc EXCEPT ![r] = x])
    BY <1>5 DEF Mkd, Opendir, Ready, Goto
  <2> QED BY <1>1, <1>2, <2>1
<1>6. CASE MkdReply(r)
  <2>1. pc[r] = "mkd" /\ pc' = [pc EXCEPT ![r] = "ready"] BY <1>6 DEF MkdReply, Ends, Goto
  <2> QED BY <1>1, <1>2, <2>1
<1>7. CASE StatFails(r) \/ Closedir(r)
  <2>1. pc' = [pc EXCEPT ![r] = "ready"] BY <1>7 DEF StatFails, Closedir, ListEnd, Ends, Goto
  <2>2. r = s BY <1>1, <1>2, <2>1
  <2> QED BY <1>7, <2>2
<1> QED BY <1>3, <1>4, <1>5, <1>6, <1>7 DEF Session

-----------------------------------------------------------------------------
(* Theorems *)

\* The drive stays a tree, and a session acts in the directory its own commands
\* lead to, unless another has changed directory (_chdir; do_cwd, do_cdup).
THEOREM SessionsActInView == Spec => []ActsInView
<1>1. Inv => ActsInView
  <2> SUFFICES ASSUME Inv PROVE ActsInView OBVIOUS
  <2>1. \A s \in Sessions : /\ find[s].todo \subseteq find[s].all
                            /\ find[s].all \subseteq Names
    BY DEF Inv, Chosen, Typed
  <2>2. /\ dirs \cup files \subseteq Paths /\ dirs \cap files = {} /\ cwd \in dirs
        /\ \A p \in dirs \cup files : Parent(p) \in dirs
    BY DEF Inv, Planted, IsTree
  <2>3. /\ pc \in [Sessions -> {"ready", "mkd", "list"}]
        /\ rnfr \in [Sessions -> FileArg \cup {NoArg}]
        /\ held \in 0..MaxHeld /\ UNION {astray, turned, disturbed} \subseteq Sessions
    BY DEF Inv, Typed, Counted
  <2> QED BY <2>1, <2>2, <2>3 DEF Inv, InView, ActsInView, TypeOK
<1> QED BY <1>1, InvStarts, SessionsKeep, PTL DEF Spec

\* The name of 257 is that of the directory MKD made, unless another session got
\* between _mkdir and _getcwd (do_mkd).
THEOREM MkdNamesWhatItMade == Spec => MkdNamed
<1>1. ASSUME Inv, NEW s \in Sessions, pc[s] = "mkd", Announced(s) # made[s]
      PROVE  s \in disturbed
  <2> SUFFICES ASSUME s \notin disturbed PROVE FALSE OBVIOUS
  <2>1. PICK n \in Names : made[s] = Append(cwd, n) BY <1>1 DEF Inv, Announcing
  <2>2. Last(made[s]) = n BY <1>1, <2>1, CwdIs, ChildIs DEF Inv
  <2> QED BY <1>1, <2>1, <2>2 DEF Announced
<1>2. Inv => \A s \in Sessions : pc[s] = "mkd" /\ Announced(s) # made[s] /\ MkdReply(s)
                                   => s \in disturbed
  BY <1>1
<1> QED BY <1>2, InvStarts, SessionsKeep, PTL DEF Spec, MkdNamed

\* RNTO renames what RNFR named, unless a CWD or CDUP came between (do_rnfr keeps
\* the argument, and do_rnto looks it up again).
THEOREM RntoRenamesWhatWasNamed == Spec => RenamesWhatWasNamed
<1>1. Inv => \A s \in Sessions, a \in FileArg :
               Rnto(s, a) => RntoFrom(s) = named[s] \/ s \in turned
  BY DEF Inv, Intended, Rnto, RntoFrom
<1> QED BY <1>1, InvStarts, SessionsKeep, PTL DEF Spec, RenamesWhatWasNamed

\* A listing that nobody disturbed describes the entries it names, leaves out at
\* most hidden names and the first result of a root, and closes its search (trans_list_common).
THEOREM ListingsAreFaithful == Spec => ListingFaithful
<1>1. ASSUME Inv, [Next]_vars, NEW s \in Sessions \ disturbed
      PROVE  /\ \A n \in Names : Line(s, n) => StatPath(s, n) = Append(find[s].dir, n)
             /\ pc[s] = "list" /\ pc'[s] = "ready" => ~Short(s) /\ held' < held
  <2>1. pc[s] = "list" =>
          /\ find[s].dir = cwd /\ find[s].all \subseteq Entries(cwd)
          /\ \E n : find[s].all \ (find[s].todo \cup find[s].sent) \subseteq Dropped(cwd, n) \cup Hidden
    BY <1>1 DEF Inv, Listing
  <2>2. \A n \in Names : Line(s, n) => StatPath(s, n) = Append(find[s].dir, n)
    BY <2>1 DEF Line, StatPath
  <2>3. ASSUME pc[s] = "list", pc'[s] = "ready" PROVE ~Short(s) /\ held' < held
    <3>1. ~StatFails(s) BY <1>1, <2>1, <2>3 DEF StatFails, StatPath, Entries, Inv, Chosen
    <3>2. Closedir(s) BY <1>1, <2>3, <3>1, WhoEndsListing
    <3>3. find[s].todo = {} /\ ListEnd(s, held - 1) /\ held' = held - 1
      BY <3>2 DEF Closedir, AfterClosedir, ListEnd
    <3>4. held >= 1 /\ held \in Nat BY <1>1, <2>3, <3>3, ListEndStep DEF Inv, Counted
    <3>5. PICK n : find[s].all \ find[s].sent \subseteq Dropped(cwd, n) \cup Hidden BY <2>1, <2>3, <3>3
    <3>6. Missing(s) \subseteq Dropped(cwd, n) BY <3>5 DEF Missing
    <3>7. CASE cwd = << >>
      <4>1. Missing(s) \in SUBSET {n} BY <3>6, <3>7 DEF Dropped
      <4>2. IsFiniteSet({n}) /\ Cardinality({n}) = 1 BY FS_Singleton
      <4>3. Cardinality(Missing(s)) <= 1 BY <4>1, <4>2, FS_Subset
      <4>4. IsFiniteSet(Missing(s)) BY <4>1, <4>2, FS_Subset
      <4>5. Cardinality(Missing(s)) \in Nat BY <4>4, FS_CardinalityType
      <4> QED BY <2>1, <2>3, <3>3, <3>4, <3>7, <4>3, <4>5 DEF Short
    <3>8. CASE cwd # << >>
      <4>1. Missing(s) = {} BY <3>6, <3>8 DEF Dropped
      <4> QED BY <2>1, <2>3, <3>3, <3>4, <3>8, <4>1, FS_EmptySet DEF Short
    <3> QED BY <3>7, <3>8
  <2> QED BY <2>2, <2>3
<1>2. Inv /\ [Next]_vars =>
        [\A s \in Sessions \ disturbed :
           /\ \A n \in Names : Line(s, n) => StatPath(s, n) = Append(find[s].dir, n)
           /\ pc[s] = "list" /\ pc'[s] = "ready" => ~Short(s) /\ held' < held]_vars
  BY <1>1
<1> QED BY <1>2, InvStarts, SessionsKeep, PTL DEF Spec, ListingFaithful
=============================================================================
