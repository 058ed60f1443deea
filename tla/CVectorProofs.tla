--------------------------- MODULE CVectorProofs ---------------------------
(***************************************************************************)
(* The vector of cvector.c for every first size, bound and set of          *)
(* elements: the length stays within the block, appending does not write   *)
(* past it, and the block is neither sparse nor resized at every step.     *)
(* The inductive invariant is TypeOK with NotSparse: what a removal leaves *)
(* depends on how full the block was before it.  The block implements the  *)
(* sequence of module Vector: for this the invariant also says that the    *)
(* slots past the elements were never written (Clear).                     *)
(***************************************************************************)
EXTENDS CVector, SequenceTheorems, TLAPS

\* What is assumed of the first size.
LEMMA Sizes == MIN_LEN \in Nat /\ MIN_LEN >= 2
BY CVectorAssumption

USE Sizes

Memory == Elems \cup {junk}

\* A block has the slots its size says, whatever it is filled from.
LEMMA BlockType ==
    ASSUME NEW n \in Nat, NEW f, \A k \in DOMAIN f : f[k] \in Memory
    PROVE  Block(n, f) \in [0..n - 1 -> Memory]
BY DEF Block, Memory

\* A slot of the block holds an element or junk; so does what lies behind.
LEMMA AtType ==
    ASSUME TypeOK, broken = "", NEW k
    PROVE  At(k) \in Memory
BY DEF TypeOK, At, Memory

-----------------------------------------------------------------------------
(* The strengthened invariant, action by action.  The size comes first: the  *)
(* contents of the block depend on it.                                      *)

Inv == TypeOK /\ NotSparse /\ PushInside

\* What every operation keeps, apart from the contents of the block.
Sized == /\ len \in Nat /\ tot \in Nat /\ len <= tot /\ tot >= MIN_LEN
         /\ refused \in BOOLEAN /\ NotSparse

\* Adding one element, in the block as it is or in one twice as large.
LEMMA GrowthSized ==
    ASSUME Sized, NEW size \in {tot, 2 * tot}, Grows(size),
           tot' = size, len' = len + 1, refused' = refused
    PROVE  Sized' /\ len < size
BY DEF Sized, NotSparse, Grows, Full

\* insert_at beyond the block.
LEMMA BeyondSized ==
    ASSUME Sized, NEW i \in Nat, i >= tot,
           tot' \in Grown(i + 1), len' = i + 1, refused' = refused
    PROVE  Sized'
<1>1. tot' \in Nat /\ tot' >= 2 * tot /\ tot' <= 2 * len' /\ tot' > len'
  BY DEF Grown, Sized
<1> QED  BY <1>1 DEF Sized, NotSparse

\* Taking one out, whether or not the block is made smaller.
LEMMA RemovalSized ==
    ASSUME Sized, NEW rest, Removes(rest), len > 0
    PROVE  Sized'
<1> USE DEF Sized, NotSparse, Sparse
<1>1. CASE Sparse(len - 1, tot) /\ tot' = tot \div 2 /\ refused' = refused
  BY <1>1 DEF Removes
<1>2. CASE tot' = tot /\ refused' = TRUE
  BY <1>2 DEF Removes
<1>3. CASE ~Sparse(len - 1, tot) /\ tot' = tot /\ refused' = refused
  BY <1>3 DEF Removes
<1> QED  BY <1>1, <1>2, <1>3 DEF Removes

\* Both parts of TypeOK, as the operations use them.
LEMMA Parts ==
    ASSUME TypeOK, NotSparse
    PROVE  Sized /\ ret \in {"success", "failed"} /\ overrun \subseteq {"push", "insert", "insert_at"}
           /\ broken \in {"", "stray", "null"}
BY DEF Sized, TypeOK

\* The parts from which an operation shows that it keeps the invariant.
LEMMA Whole ==
    ASSUME Sized', ret' \in {"success", "failed"}, overrun' \subseteq {"push", "insert", "insert_at"},
           broken' \in {"", "stray", "null"},
           broken' = "" => slots' \in [0..tot' - 1 -> Memory], "push" \notin overrun'
    PROVE  Inv'
BY DEF Inv, TypeOK, PushInside, NotSparse, Sized, Memory

\* An operation that reports failure, or does nothing, keeps everything.
LEMMA KeepStep == ASSUME Inv, Keep, ret' \in {"success", "failed"} PROVE Inv'
BY DEF Inv, Keep, TypeOK, NotSparse, PushInside

\* cvector_pushback keeps the invariant: the block has room before it writes.
LEMMA PushStep == ASSUME Inv, NEW e \in Elems, cvector_pushback(e) PROVE Inv'
<1>1. CASE GrowFails
  BY <1>1, KeepStep DEF GrowFails
<1>2. ASSUME NEW size \in {tot, 2 * tot}, Grows(size), tot' = size, len' = len + 1,
             slots' = Block(size, [k \in 0..len |-> IF k = len THEN e ELSE At(k)]),
             overrun' = IF len < size THEN overrun ELSE overrun \cup {"push"},
             ret' = "success", UNCHANGED <<refused, broken>>, broken = ""
      PROVE  Inv'
  <2>1. Sized /\ Sized' /\ len < size
    BY <1>2, GrowthSized, Parts DEF Inv
  <2>2. slots' \in [0..tot' - 1 -> Memory]
    <3> DEFINE f == [k \in 0..len |-> IF k = len THEN e ELSE At(k)]
    <3>1. \A k \in DOMAIN f : f[k] \in Memory
      BY <1>2, AtType DEF Inv, Memory
    <3>2. tot' \in Nat /\ slots' = Block(tot', f)
      BY <1>2, <2>1 DEF Sized
    <3> QED  BY <3>1, <3>2, BlockType
  <2> QED  BY <1>2, <2>1, <2>2, Parts, Whole DEF Inv, PushInside
<1> QED  BY <1>1, <1>2 DEF cvector_pushback

\* So does an insertion below the length, or one that strays.
LEMMA InsertStep ==
    ASSUME Inv, NEW i, NEW e \in Elems, NEW what \in {"insert", "insert_at"}, broken = "",
           Inserts(i, e, what) \/ Strays
    PROVE  Inv'
<1>1. ASSUME NEW size \in {tot, 2 * tot}, Grows(size), tot' = size, len' = len + 1,
             slots' = Block(size, [k \in 0..len |-> IF k = i THEN e ELSE At(MovedUp(k, i))]),
             overrun' = IF len + 1 < size THEN overrun ELSE overrun \cup {what},
             ret' = "success", UNCHANGED <<refused, broken>>
      PROVE  Inv'
  <2>1. Sized /\ Sized'
    BY <1>1, GrowthSized, Parts DEF Inv
  <2>2. slots' \in [0..tot' - 1 -> Memory]
    <3> DEFINE f == [k \in 0..len |-> IF k = i THEN e ELSE At(MovedUp(k, i))]
    <3>1. \A k \in DOMAIN f : f[k] \in Memory
      BY <1>1, AtType DEF Inv, Memory
    <3>2. tot' \in Nat /\ slots' = Block(tot', f)
      BY <1>1, <2>1 DEF Sized
    <3> QED  BY <3>1, <3>2, BlockType
  <2> QED  BY <1>1, <2>1, <2>2, Parts, Whole DEF Inv, PushInside
<1>2. CASE Strays
  <2>1. Sized'
    BY <1>2, GrowthSized, Parts DEF Inv, Strays, Grows, Sized
  <2> QED  BY <1>2, <2>1, Parts, Whole DEF Inv, PushInside, Strays
<1> QED  BY <1>1, <1>2 DEF Inserts

\* cvector_insert_at keeps it, an insertion far behind the end included.
LEMMA InsertAtStep == ASSUME Inv, NEW i \in Nat, NEW e \in Elems, cvector_insert_at(i, e) PROVE Inv'
<1>1. ASSUME i >= tot, len' = i + 1, tot' \in Grown(i + 1), broken = "", ret' = "success",
             \/ /\ slots' = Block(tot', [k \in 0..i |-> IF k = i THEN e ELSE At(k)])
                /\ UNCHANGED broken
             \/ AllocFails /\ broken' = "null" /\ slots' = <<>>,
             UNCHANGED <<refused, overrun>>
      PROVE  Inv'
  <2>1. Sized /\ Sized'
    BY <1>1, BeyondSized, Parts DEF Inv
  <2>2. broken' = "" => slots' \in [0..tot' - 1 -> Memory]
    <3> SUFFICES ASSUME broken' = "" PROVE slots' \in [0..tot' - 1 -> Memory]
      OBVIOUS
    <3> DEFINE f == [k \in 0..i |-> IF k = i THEN e ELSE At(k)]
    <3>1. \A k \in DOMAIN f : f[k] \in Memory
      BY <1>1, AtType DEF Inv, Memory
    <3>2. tot' \in Nat /\ slots' = Block(tot', f)
      BY <1>1, <2>1 DEF Sized
    <3> QED  BY <3>1, <3>2, BlockType
  <2> QED  BY <1>1, <2>1, <2>2, Parts, Whole DEF Inv, PushInside
<1>2. ASSUME broken = "", Inserts(i, e, "insert_at") \/ Strays PROVE Inv'
  BY <1>2, InsertStep
<1>3. ASSUME ret' = "success", Keep PROVE Inv'
  BY <1>3, KeepStep
<1> QED  BY <1>1, <1>2, <1>3 DEF cvector_insert_at

\* A removal keeps it, whether the block becomes smaller or not.
LEMMA RemoveStep ==
    ASSUME Inv, broken = "", len > 0, NEW rest, Removes(rest),
           \A k \in DOMAIN rest : rest[k] \in Memory
    PROVE  Inv'
<1>1. Sized /\ Sized'
  BY RemovalSized, Parts DEF Inv
<1>2. slots' \in [0..tot' - 1 -> Memory]
  <2>1. tot' \in Nat /\ slots' = Block(tot', rest)
    BY <1>1 DEF Sized, Removes
  <2> QED  BY <2>1, BlockType
<1> QED  BY <1>1, <1>2, Parts, Whole DEF Inv, PushInside, Removes

\* cvector_popback is a removal of the last element.
LEMMA PopStep == ASSUME Inv, cvector_popback PROVE Inv'
<1>1. ASSUME broken = "", len > 0, Removes([k \in 0..len - 2 |-> At(k)]) PROVE Inv'
  <2> DEFINE rest == [k \in 0..len - 2 |-> At(k)]
  <2>1. \A k \in DOMAIN rest : rest[k] \in Memory
    BY <1>1, AtType DEF Inv
  <2>2. Removes(rest)
    BY <1>1
  <2> QED  BY <1>1, <2>1, <2>2, RemoveStep
<1> QED  BY <1>1, KeepStep DEF cvector_popback

\* cvector_rm is a removal of any.
LEMMA RmStep == ASSUME Inv, NEW i \in Nat, cvector_rm(i) PROVE Inv'
<1>1. ASSUME broken = "", i < len, Removes([k \in 0..len - 2 |-> At(MovedDown(k, i))])
      PROVE  Inv'
  <2> DEFINE rest == [k \in 0..len - 2 |-> At(MovedDown(k, i))]
  <2>1. \A k \in DOMAIN rest : rest[k] \in Memory
    BY <1>1, AtType DEF Inv
  <2>2. Removes(rest)
    BY <1>1
  <2>3. len > 0
    <3>1. len \in Nat /\ i < len
      BY <1>1 DEF Inv, TypeOK
    <3> QED  BY <3>1
  <2> QED  BY <1>1, <2>1, <2>2, <2>3, RemoveStep
<1> QED  BY <1>1, KeepStep DEF cvector_rm

\* A vector begins with the invariant.
LEMMA InvInit == Init => Inv
<1> SUFFICES ASSUME Init PROVE Inv
  OBVIOUS
<1>1. len = 0 /\ tot = MIN_LEN
  BY DEF Init
<1>2. len \in Nat /\ tot \in Nat /\ len <= tot /\ tot >= MIN_LEN
  BY <1>1
<1>3. TypeOK
  BY <1>2 DEF Init, TypeOK
<1>4. NotSparse
  BY <1>1 DEF NotSparse
<1>5. PushInside
  BY DEF Init, PushInside
<1> QED  BY <1>3, <1>4, <1>5 DEF Inv

\* Every operation keeps the invariant.
LEMMA InvStep == ASSUME Inv, [Next]_vars PROVE Inv'
<1>1. ASSUME NEW i \in Nat, NEW e \in Elems, cvector_insert(i, e) PROVE Inv'
  BY <1>1, InsertStep, KeepStep DEF cvector_insert, GrowFails
<1>2. CASE UNCHANGED vars
  BY <1>2 DEF vars, Inv, TypeOK, NotSparse, PushInside
<1> QED  BY <1>1, <1>2, PushStep, InsertAtStep, PopStep, RmStep DEF Next

-----------------------------------------------------------------------------
(* The theorems *)

\* The types, and the length of the vector within its block, whatever the
\* operations do.
THEOREM TypeCorrect == Spec => []TypeOK
<1>1. Inv => TypeOK
  BY DEF Inv
<1> QED  BY <1>1, InvInit, InvStep, PTL DEF Spec

\* Appending never writes past the block (cvector_pushback).
THEOREM PushStaysInside == Spec => []PushInside
<1>1. Inv => PushInside
  BY DEF Inv
<1> QED  BY <1>1, InvInit, InvStep, PTL DEF Spec

\* No order of additions and removals leaves the block more than four times
\* as large as what it holds, unless realloc refused (cvector_popback,
\* cvector_rm).
THEOREM NeverSparse == Spec => []NotSparse
<1>1. Inv => NotSparse
  BY DEF Inv
<1> QED  BY <1>1, InvInit, InvStep, PTL DEF Spec

\* After each resize by one element at least MIN_LEN / 2 operations follow
\* before the next one (the factors of cvector.h: double when full, halve when
\* a quarter is used).
THEOREM ResizesFarApart == Spec => ResizeLeavesRoom
<1> DEFINE Room == tot' # tot /\ len' <= len + 1
                     => /\ 2 * (tot' - len') >= MIN_LEN
                        /\ tot' >= 4 * MIN_LEN /\ ~refused
                             => 2 * (len' - tot' \div 4) >= MIN_LEN
<1>1. ASSUME Inv, Next PROVE Room
  <2> USE DEF Sized
  <2>1. Sized
    BY <1>1, Parts DEF Inv
  <2>2. ASSUME tot' = 2 * tot, len' = len + 1, len = tot PROVE Room
    BY <2>1, <2>2
  <2>3. ASSUME NEW i \in Nat, i >= tot, len' = i + 1, tot' \in Grown(i + 1) PROVE Room
    <3>1. tot' \in Nat /\ tot' >= 2 * tot /\ tot' > len' /\ tot' <= 2 * len'
      BY <2>1, <2>3 DEF Grown
    <3>2. len' <= len + 1 => \E m \in Nat : tot = m /\ len' = m + 1 /\ tot' >= 2 * m
                                           /\ tot' <= 2 * m + 2 /\ m >= MIN_LEN
      BY <2>1, <2>3, <3>1
    <3> QED  BY <3>1, <3>2
  <2>4. ASSUME Sparse(len - 1, tot), tot' = tot \div 2, len' = len - 1 PROVE Room
    BY <2>1, <2>4 DEF Sparse, NotSparse
  <2>5. ASSUME tot' = tot PROVE Room
    BY <2>5
  <2>6. ASSUME NEW size \in {tot, 2 * tot}, Grows(size), tot' = size, len' = len + 1
        PROVE  Room
    BY <2>1, <2>2, <2>5, <2>6 DEF Grows, Full
  <2>7. ASSUME Keep \/ GrowFails PROVE Room
    BY <2>5, <2>7 DEF Keep, GrowFails
  <2>8. ASSUME NEW rest, Removes(rest) PROVE Room
    BY <2>4, <2>5, <2>8 DEF Removes
  <2>9. ASSUME NEW i, NEW e, NEW what, Inserts(i, e, what) PROVE Room
    BY <2>6, <2>9 DEF Inserts
  <2>10. ASSUME Strays PROVE Room
    BY <2>1, <2>2, <2>10 DEF Strays, Full
  <2>11. ASSUME NEW i \in Nat, NEW e \in Elems, cvector_insert_at(i, e) PROVE Room
    BY <2>3, <2>7, <2>9, <2>10, <2>11 DEF cvector_insert_at
  <2>12. ASSUME NEW e \in Elems, cvector_pushback(e) PROVE Room
    BY <2>6, <2>7, <2>12 DEF cvector_pushback
  <2>13. ASSUME NEW i, NEW e \in Elems, cvector_insert(i, e) PROVE Room
    BY <2>7, <2>9, <2>10, <2>13 DEF cvector_insert
  <2>14. CASE cvector_popback
    BY <2>7, <2>8, <2>14 DEF cvector_popback
  <2>15. ASSUME NEW i, cvector_rm(i) PROVE Room
    BY <2>7, <2>8, <2>15 DEF cvector_rm
  <2> QED  BY <1>1, <2>11, <2>12, <2>13, <2>14, <2>15 DEF Next
<1>2. ASSUME Inv, UNCHANGED vars PROVE Room
  BY <1>2 DEF vars
<1>3. ASSUME Inv, [Next]_vars PROVE [Room]_vars
  BY <1>1, <1>3
<1> HIDE DEF Room
<1>4. Spec => [][Room]_vars
  BY <1>3, InvInit, InvStep, PTL DEF Spec
<1> QED  BY <1>4 DEF Room, ResizeLeavesRoom

-----------------------------------------------------------------------------
(* The block holds the sequence that Vector describes.  Sequences are compared *)
(* position by position.                                                    *)

\* An insertion leaves what was before, the element, and what was behind it.
LEMMA Spliced ==
    ASSUME NEW S, NEW s \in Seq(S), NEW t \in Seq(S), NEW e \in S, NEW i \in Nat, i < Len(s),
           Len(t) = Len(s) + 1,
           \A k \in 1..Len(t) : t[k] = IF k <= i THEN s[k] ELSE IF k = i + 1 THEN e ELSE s[k - 1]
    PROVE  t = SubSeq(s, 1, i) \o <<e>> \o SubSeq(s, i + 1, Len(s))
<1> DEFINE a == SubSeq(s, 1, i)
           b == SubSeq(s, i + 1, Len(s))
<1>1. Len(s) \in Nat /\ \A k \in 1..Len(s) : s[k] \in S BY LenProperties, ElementOfSeq
<1>2. a \in Seq(S) /\ Len(a) = i /\ \A k \in 1..i : a[k] = s[k]
  <2>1. /\ SubSeq(s, 1, i) \in Seq(S)
        /\ Len(SubSeq(s, 1, i)) = IF 1 <= i THEN i - 1 + 1 ELSE 0
        /\ \A k \in 1..i - 1 + 1 : SubSeq(s, 1, i)[k] = s[1 + k - 1]
    BY <1>1, SubSeqProperties
  <2> HIDE DEF a
  <2>2. a = SubSeq(s, 1, i) BY DEF a
  <2> QED BY <2>1, <2>2
<1>3. b \in Seq(S) /\ Len(b) = Len(s) - i /\ \A k \in 1..(Len(s) - i) : b[k] = s[i + k]
  <2>1. /\ SubSeq(s, i + 1, Len(s)) \in Seq(S)
        /\ Len(SubSeq(s, i + 1, Len(s))) = IF i + 1 <= Len(s) THEN Len(s) - (i + 1) + 1 ELSE 0
        /\ \A k \in 1..Len(s) - (i + 1) + 1 : SubSeq(s, i + 1, Len(s))[k] = s[i + 1 + k - 1]
    BY <1>1, SubSeqProperties
  <2>2. b = SubSeq(s, i + 1, Len(s)) BY DEF b
  <2> HIDE DEF b
  <2>3. Len(b) = Len(s) - i BY <1>1, <2>1, <2>2
  <2>4. ASSUME NEW k \in 1..(Len(s) - i) PROVE b[k] = s[i + k]
    <3>1. k \in 1..Len(s) - (i + 1) + 1 /\ i + 1 + k - 1 = i + k BY <1>1
    <3> QED BY <2>1, <2>2, <3>1
  <2> QED BY <2>1, <2>2, <2>3, <2>4
<1> DEFINE c == a \o <<e>>
<1> HIDE DEF a, b
<1>4. /\ c \in Seq(S) /\ Len(c) = i + 1
      /\ \A k \in 1..(i + 1) : c[k] = IF k <= i THEN a[k] ELSE e
  <2>1. <<e>> \in Seq(S) /\ Len(<<e>>) = 1 /\ <<e>>[1] = e OBVIOUS
  <2>2. /\ a \o <<e>> \in Seq(S) /\ Len(a \o <<e>>) = i + 1
        /\ \A k \in 1..(i + 1) : (a \o <<e>>)[k] = IF k <= i THEN a[k] ELSE <<e>>[k - i]
    BY <1>2, <2>1, ConcatProperties
  <2>3. \A k \in 1..(i + 1) : ~(k <= i) => k - i = 1 OBVIOUS
  <2> QED BY <2>1, <2>2, <2>3
<1> HIDE DEF c
<1>5. /\ c \o b \in Seq(S) /\ Len(c \o b) = Len(s) + 1
      /\ \A k \in 1..(Len(s) + 1) : (c \o b)[k] = IF k <= i + 1 THEN c[k] ELSE b[k - (i + 1)]
  <2>1. /\ c \o b \in Seq(S) /\ Len(c \o b) = Len(c) + Len(b)
        /\ \A k \in 1..Len(c) + Len(b) : (c \o b)[k] = IF k <= Len(c) THEN c[k] ELSE b[k - Len(c)]
    BY <1>3, <1>4, ConcatProperties
  <2>2. Len(c) = i + 1 /\ Len(c) + Len(b) = Len(s) + 1 BY ONLY <1>1, <1>3, <1>4, i \in Nat
  <2> QED BY ONLY <2>1, <2>2
<1>6. ASSUME NEW k \in 1..Len(t) PROVE t[k] = (c \o b)[k]
  <2>0. k \in 1..(Len(s) + 1) /\ Len(s) \in Nat BY <1>1
  <2>1. CASE k <= i
    <3>1. k \in 1..i /\ k \in 1..(i + 1) /\ k <= i + 1 BY <2>0, <2>1
    <3> QED BY <1>2, <1>4, <1>5, <2>0, <2>1, <3>1
  <2>2. CASE k = i + 1
    <3>1. ~(k <= i) /\ k \in 1..(i + 1) /\ k <= i + 1 BY <2>0, <2>2
    <3> QED BY <1>4, <1>5, <2>0, <2>2, <3>1
  <2>3. CASE k > i + 1
    <3>1. /\ k - (i + 1) \in 1..(Len(s) - i) /\ i + (k - (i + 1)) = k - 1
          /\ ~(k <= i) /\ k # i + 1 /\ ~(k <= i + 1)
      BY <2>0, <2>3
    <3>2. b[k - (i + 1)] = s[k - 1] BY <1>3, <3>1
    <3> QED BY <1>5, <2>0, <3>1, <3>2
  <2>4. k <= i \/ k = i + 1 \/ k > i + 1 BY ONLY <2>0, i \in Nat
  <2> QED BY ONLY <2>1, <2>2, <2>3, <2>4
<1>7. t = c \o b BY <1>5, <1>6, SeqEqual
<1> QED BY <1>7 DEF a, b, c

\* A removal leaves what was before and what was behind.
LEMMA Cut ==
    ASSUME NEW S, NEW s \in Seq(S), NEW t \in Seq(S), NEW i \in Nat, i < Len(s),
           Len(t) = Len(s) - 1,
           \A k \in 1..Len(t) : t[k] = IF k <= i THEN s[k] ELSE s[k + 1]
    PROVE  t = SubSeq(s, 1, i) \o SubSeq(s, i + 2, Len(s))
<1> DEFINE a == SubSeq(s, 1, i)
           b == SubSeq(s, i + 2, Len(s))
<1>1. Len(s) \in Nat /\ \A k \in 1..Len(s) : s[k] \in S BY LenProperties, ElementOfSeq
<1>2. a \in Seq(S) /\ Len(a) = i /\ \A k \in 1..i : a[k] = s[k]
  <2>1. /\ SubSeq(s, 1, i) \in Seq(S)
        /\ Len(SubSeq(s, 1, i)) = IF 1 <= i THEN i - 1 + 1 ELSE 0
        /\ \A k \in 1..i - 1 + 1 : SubSeq(s, 1, i)[k] = s[1 + k - 1]
    BY <1>1, SubSeqProperties
  <2> HIDE DEF a
  <2>2. a = SubSeq(s, 1, i) BY DEF a
  <2> QED BY <2>1, <2>2
<1>3. b \in Seq(S) /\ Len(b) = Len(s) - i - 1 /\ \A k \in 1..(Len(s) - i - 1) : b[k] = s[i + 1 + k]
  <2>1. /\ SubSeq(s, i + 2, Len(s)) \in Seq(S)
        /\ Len(SubSeq(s, i + 2, Len(s))) = IF i + 2 <= Len(s) THEN Len(s) - (i + 2) + 1 ELSE 0
        /\ \A k \in 1..Len(s) - (i + 2) + 1 : SubSeq(s, i + 2, Len(s))[k] = s[i + 2 + k - 1]
    BY <1>1, SubSeqProperties
  <2>2. b = SubSeq(s, i + 2, Len(s)) BY DEF b
  <2> HIDE DEF b
  <2>3. Len(b) = Len(s) - i - 1 BY <1>1, <2>1, <2>2
  <2>4. ASSUME NEW k \in 1..(Len(s) - i - 1) PROVE b[k] = s[i + 1 + k]
    <3>1. k \in 1..Len(s) - (i + 2) + 1 /\ i + 2 + k - 1 = i + 1 + k BY <1>1
    <3> QED BY <2>1, <2>2, <3>1
  <2> QED BY <2>1, <2>2, <2>3, <2>4
<1> HIDE DEF a, b
<1>4. /\ a \o b \in Seq(S) /\ Len(a \o b) = Len(s) - 1
      /\ \A k \in 1..(Len(s) - 1) : (a \o b)[k] = IF k <= i THEN a[k] ELSE b[k - i]
  <2>1. i + (Len(s) - i - 1) = Len(s) - 1 BY <1>1
  <2> QED BY <1>2, <1>3, <2>1, ConcatProperties
<1>5. ASSUME NEW k \in 1..Len(t) PROVE t[k] = (a \o b)[k]
  <2>1. CASE k <= i BY <1>1, <1>2, <1>4, <2>1
  <2>2. CASE ~(k <= i)
    <3>1. k - i \in 1..(Len(s) - i - 1) /\ i + 1 + (k - i) = k + 1 BY <1>1, <2>2
    <3> QED BY <1>3, <1>4, <2>2, <3>1
  <2> QED BY <2>1, <2>2
<1>6. t = a \o b BY <1>4, <1>5, SeqEqual
<1> QED BY <1>6 DEF a, b

\* Taking the last element off leaves the front.
LEMMA Shortened ==
    ASSUME NEW S, NEW s \in Seq(S), NEW t \in Seq(S), Len(s) >= 1, Len(t) = Len(s) - 1,
           \A k \in 1..Len(t) : t[k] = s[k]
    PROVE  t = SubSeq(s, 1, Len(s) - 1)
<1> DEFINE a == SubSeq(s, 1, Len(s) - 1)
<1>1. Len(s) \in Nat /\ \A k \in 1..Len(s) : s[k] \in S BY LenProperties, ElementOfSeq
<1>2. a \in Seq(S) /\ Len(a) = Len(s) - 1 /\ \A k \in 1..(Len(s) - 1) : a[k] = s[k]
  <2>1. /\ SubSeq(s, 1, Len(s) - 1) \in Seq(S)
        /\ Len(SubSeq(s, 1, Len(s) - 1)) = IF 1 <= Len(s) - 1 THEN Len(s) - 1 - 1 + 1 ELSE 0
        /\ \A k \in 1..Len(s) - 1 - 1 + 1 : SubSeq(s, 1, Len(s) - 1)[k] = s[1 + k - 1]
    BY <1>1, SubSeqProperties
  <2> HIDE DEF a
  <2>2. a = SubSeq(s, 1, Len(s) - 1) BY DEF a
  <2> QED BY <1>1, <2>1, <2>2
<1> HIDE DEF a
<1>3. t = a BY <1>1, <1>2, SeqEqual
<1> QED BY <1>3 DEF a

\* Writing beyond the end puts filling between.
LEMMA Stretched ==
    ASSUME NEW S, NEW s \in Seq(S), NEW t \in Seq(S), NEW e \in S, NEW j \in S, NEW i \in Nat,
           Len(s) <= i, Len(t) = i + 1,
           \A k \in 1..Len(t) : t[k] = IF k <= Len(s) THEN s[k] ELSE IF k <= i THEN j ELSE e
    PROVE  t = s \o [k \in 1..(i - Len(s)) |-> j] \o <<e>>
<1> DEFINE g == [k \in 1..(i - Len(s)) |-> j]
<1>1. Len(s) \in Nat /\ i - Len(s) \in Nat BY LenProperties
<1>2. g \in Seq(S) /\ Len(g) = i - Len(s) /\ \A k \in 1..(i - Len(s)) : g[k] = j
  <2>1. g \in [1..(i - Len(s)) -> S] OBVIOUS
  <2>2. g \in Seq(S) BY <1>1, <2>1, SeqDef
  <2>3. DOMAIN g = 1..(i - Len(s)) OBVIOUS
  <2>4. Len(g) = i - Len(s) BY <1>1, <2>2, <2>3, LenProperties
  <2> QED BY <2>2, <2>4
<1> HIDE DEF g
<1>3. /\ s \o g \in Seq(S) /\ Len(s \o g) = i
      /\ \A k \in 1..i : (s \o g)[k] = IF k <= Len(s) THEN s[k] ELSE g[k - Len(s)]
  <2>1. Len(s) + (i - Len(s)) = i BY <1>1
  <2> QED BY <1>2, <2>1, ConcatProperties
<1>4. /\ s \o g \o <<e>> \in Seq(S) /\ Len(s \o g \o <<e>>) = i + 1
      /\ \A k \in 1..(i + 1) : (s \o g \o <<e>>)[k] = IF k <= i THEN (s \o g)[k] ELSE e
  <2>1. <<e>> \in Seq(S) /\ Len(<<e>>) = 1 /\ <<e>>[1] = e OBVIOUS
  <2>2. /\ s \o g \o <<e>> \in Seq(S) /\ Len(s \o g \o <<e>>) = i + 1
        /\ \A k \in 1..(i + 1) : (s \o g \o <<e>>)[k] = IF k <= i THEN (s \o g)[k] ELSE <<e>>[k - i]
    BY <1>3, <2>1, ConcatProperties
  <2>3. \A k \in 1..(i + 1) : ~(k <= i) => k - i = 1 OBVIOUS
  <2> QED BY <2>1, <2>2, <2>3
<1>5. ASSUME NEW k \in 1..Len(t) PROVE t[k] = (s \o g \o <<e>>)[k]
  <2>1. CASE k <= Len(s)
    <3>1. k <= i /\ k \in 1..i /\ k \in 1..(i + 1) BY <1>1, <2>1
    <3> QED BY <1>3, <1>4, <2>1, <3>1
  <2>2. CASE ~(k <= Len(s)) /\ k <= i
    <3>1. k \in 1..i /\ k \in 1..(i + 1) /\ k - Len(s) \in 1..(i - Len(s)) BY <1>1, <2>2
    <3> QED BY <1>2, <1>3, <1>4, <2>2, <3>1
  <2>3. CASE ~(k <= i)
    <3>1. k \in 1..(i + 1) /\ ~(k <= Len(s)) BY <1>1, <2>3
    <3> QED BY <1>4, <2>3, <3>1
  <2> QED BY <2>1, <2>2, <2>3
<1>6. t = s \o g \o <<e>> BY <1>4, <1>5, SeqEqual
<1> QED BY <1>6 DEF g

-----------------------------------------------------------------------------
(* The block and its sequence *)

\* The vector can still be used.
Usable == broken = ""

\* What lies in the block behind the elements was never written: this is what
\* insert_at turns into elements when it writes beyond the end.
Clear == Usable => \A k \in len..tot - 1 : slots[k] = junk

\* The elements of a block of n are a sequence.
LEMMA SeqOfSlots ==
    ASSUME NEW n \in Nat, NEW f, \A k \in 0..n - 1 : f[k] \in Memory
    PROVE  /\ [k \in 1..n |-> f[k - 1]] \in Seq(Memory)
           /\ Len([k \in 1..n |-> f[k - 1]]) = n
           /\ \A k \in 1..n : [j \in 1..n |-> f[j - 1]][k] = f[k - 1]
<1> DEFINE s == [k \in 1..n |-> f[k - 1]]
<1>1. \A k \in 1..n : k - 1 \in 0..n - 1 OBVIOUS
<1>2. s \in [1..n -> Memory] /\ DOMAIN s = 1..n BY <1>1
<1>3. s \in Seq(Memory) BY <1>2, SeqDef
<1>4. Len(s) = n BY <1>2, <1>3, LenProperties
<1> QED BY <1>3, <1>4

\* Where the slots of a block lie.
LEMMA Places ==
    ASSUME NEW n \in Nat, NEW m \in Nat, n <= m
    PROVE  /\ \A k \in 0..n - 1 : k \in 0..m - 1
           /\ \A k \in n..m - 1 : k \in 0..m - 1 /\ k \notin 0..n - 1
           /\ \A k \in 1..n : k - 1 \in 0..n - 1
OBVIOUS

\* What a vector in use is filled from.
LEMMA AtMemory == ASSUME TypeOK, Usable PROVE \A k : At(k) \in Memory
BY Zenon, AtType DEF Usable

\* The sequence before an operation.
LEMMA Before ==
    ASSUME TypeOK, Usable
    PROVE  /\ Elements \in Seq(Memory) /\ Len(Elements) = len /\ len \in Nat
           /\ \A k \in 1..len : Elements[k] = At(k - 1)
<1>1. len \in Nat /\ tot \in Nat /\ len <= tot /\ slots \in [0..tot - 1 -> Memory]
  BY Zenon DEF TypeOK, Memory, Usable
<1>2. \A k \in 0..len - 1 : slots[k] \in Memory /\ At(k) = slots[k] BY ONLY <1>1 DEF At
<1>3. Elements \in Seq(Memory) /\ Len(Elements) = len /\ \A k \in 1..len : Elements[k] = slots[k - 1]
  BY <1>1, <1>2, SeqOfSlots DEF Elements
<1>4. \A k \in 1..len : k - 1 \in 0..len - 1 BY <1>1
<1> QED BY <1>1, <1>2, <1>3, <1>4

\* The sequence after one that filled the block anew.
LEMMA After ==
    ASSUME Inv', Usable', NEW f, DOMAIN f = 0..len' - 1, slots' = Block(tot', f),
           \A k \in 0..len' - 1 : f[k] \in Memory
    PROVE  /\ Elements' \in Seq(Memory) /\ Len(Elements') = len' /\ Clear'
           /\ \A k \in 1..len' : Elements'[k] = f[k - 1]
<1>1. len' \in Nat /\ tot' \in Nat /\ len' <= tot' BY Zenon DEF Inv, TypeOK
<1>2. \A k \in 0..tot' - 1 : slots'[k] = IF k \in 0..len' - 1 THEN f[k] ELSE junk
  BY <1>1 DEF Block
<1>3. /\ \A k \in 0..len' - 1 : slots'[k] = f[k]
      /\ \A k \in len'..tot' - 1 : slots'[k] = junk
  <2>1. \A k \in 0..len' - 1 : k \in 0..tot' - 1 BY ONLY <1>1, Places
  <2>2. \A k \in len'..tot' - 1 : k \in 0..tot' - 1 /\ k \notin 0..len' - 1 BY ONLY <1>1, Places
  <2> QED BY <1>2, <2>1, <2>2
<1>4. /\ Elements' \in Seq(Memory) /\ Len(Elements') = len'
      /\ \A k \in 1..len' : Elements'[k] = slots'[k - 1]
  BY <1>1, <1>3, SeqOfSlots DEF Elements
<1>5. \A k \in 1..len' : k - 1 \in 0..len' - 1 BY ONLY <1>1, Places
<1> QED BY <1>3, <1>4, <1>5 DEF Clear

\* The sequence Vector sees.
Seen == IF Usable THEN Elements ELSE <<>>

\* An operation that keeps everything shows the same sequence.
LEMMA SameSeen == ASSUME Keep PROVE Seen' = Seen /\ (Clear => Clear')
BY Zenon DEF Keep, Seen, Elements, Clear, Usable

\* A broken vector shows nothing.
LEMMA BrokenSeen == ASSUME ~Usable' PROVE Seen' = <<>> /\ Clear'
BY DEF Seen, Clear

\* Each operation that succeeds, on the sequence Vector sees.
LEMMA PushSeen ==
    ASSUME Inv, Inv', NEW e \in Elems, cvector_pushback(e), ~GrowFails
    PROVE  Seen' = Append(Seen, e) /\ ret' = "success" /\ Clear'
<1> DEFINE f == [k \in 0..len |-> IF k = len THEN e ELSE At(k)]
<1>1. /\ Usable /\ Usable' /\ len' = len + 1 /\ ret' = "success"
      /\ slots' = Block(tot', f)
  BY Zenon DEF cvector_pushback, Usable
<1>2. TypeOK /\ e \in Memory BY DEF Inv, Memory
<1>3. /\ Elements \in Seq(Memory) /\ Len(Elements) = len /\ len \in Nat
      /\ \A k \in 1..len : Elements[k] = At(k - 1)
  BY <1>1, <1>2, Before
<1>4. DOMAIN f = 0..len' - 1 /\ \A k \in 0..len' - 1 : f[k] \in Memory
  <2>1. len' - 1 = len BY <1>1, <1>3
  <2> QED BY <1>1, <1>2, <2>1, AtMemory
<1>5. f[len] = e /\ \A k \in 1..len : f[k - 1] = At(k - 1) BY <1>3
<1> HIDE DEF f
<1>6. /\ Elements' \in Seq(Memory) /\ Len(Elements') = len' /\ Clear'
      /\ \A k \in 1..len' : Elements'[k] = f[k - 1]
  BY <1>1, <1>4, After
<1>7. Elements' = Append(Elements, e)
  <2> DEFINE a == Append(Elements, e)
  <2>1. /\ a \in Seq(Memory) /\ Len(a) = len + 1 /\ a[len + 1] = e
        /\ \A k \in 1..len : a[k] = Elements[k]
    BY <1>2, <1>3, AppendProperties
  <2> HIDE DEF a
  <2>2. ASSUME NEW k \in 1..(len + 1) PROVE Elements'[k] = a[k]
    <3>1. CASE k = len + 1
      <4>1. k - 1 = len /\ k \in 1..len' BY <1>1, <1>3, <3>1
      <4> QED BY <1>5, <1>6, <2>1, <3>1, <4>1
    <3>2. CASE k # len + 1
      <4>1. k \in 1..len /\ k \in 1..len' BY <1>1, <1>3, <3>2
      <4> QED BY <1>3, <1>5, <1>6, <2>1, <4>1
    <3> QED BY <3>1, <3>2
  <2>3. Elements' = a BY <1>1, <1>6, <2>1, <2>2, SeqEqual
  <2> QED BY <2>3 DEF a
<1> QED BY <1>1, <1>6, <1>7 DEF Seen

\* An insertion below the length puts one element before the others of the sequence.
LEMMA InsertSeen ==
    ASSUME Inv, Inv', NEW i \in Nat, i < len, NEW e \in Elems, NEW what, Usable, Inserts(i, e, what)
    PROVE  Seen' = Vec!InsertAt(Seen, i + 1, e) /\ ret' = "success" /\ Clear'
<1> DEFINE f == [k \in 0..len |-> IF k = i THEN e ELSE At(MovedUp(k, i))]
<1>1. Usable' /\ len' = len + 1 /\ ret' = "success" /\ slots' = Block(tot', f)
  BY Zenon DEF Inserts, Usable
<1>2. TypeOK /\ e \in Memory BY DEF Inv, Memory
<1>3. /\ Elements \in Seq(Memory) /\ Len(Elements) = len /\ len \in Nat
      /\ \A k \in 1..len : Elements[k] = At(k - 1)
  BY <1>2, Before
<1>4. DOMAIN f = 0..len' - 1 /\ \A k \in 0..len' - 1 : f[k] \in Memory
  <2>1. len' - 1 = len BY <1>1, <1>3
  <2> QED BY <1>2, <2>1, AtMemory
<1>5. \A k \in 0..len : f[k] = IF k = i THEN e ELSE IF k > i THEN At(k - 1) ELSE At(k)
  BY DEF MovedUp
<1> HIDE DEF f
<1>6. /\ Elements' \in Seq(Memory) /\ Len(Elements') = len' /\ Clear'
      /\ \A k \in 1..len' : Elements'[k] = f[k - 1]
  BY <1>1, <1>4, After
<1>7. ASSUME NEW k \in 1..(len + 1)
      PROVE  Elements'[k] = IF k <= i THEN Elements[k] ELSE IF k = i + 1 THEN e ELSE Elements[k - 1]
  <2>1. Elements'[k] = f[k - 1] BY <1>1, <1>6
  <2>2. k - 1 \in 0..len BY <1>3
  <2>3. CASE k <= i
    <3>1. ~(k - 1 = i) /\ ~(k - 1 > i) /\ k \in 1..len BY <1>3, <2>3
    <3> QED BY <1>3, <1>5, <2>1, <2>2, <2>3, <3>1
  <2>4. CASE k = i + 1
    <3>1. k - 1 = i /\ ~(k <= i) BY <1>3, <2>4
    <3> QED BY <1>5, <2>1, <2>2, <2>4, <3>1
  <2>5. CASE k > i + 1
    <3>1. ~(k - 1 = i) /\ k - 1 > i /\ k - 1 \in 1..len /\ ~(k <= i) /\ k # i + 1 BY <1>3, <2>5
    <3>2. f[k - 1] = At(k - 1 - 1) BY <1>5, <2>2, <3>1
    <3>3. Elements[k - 1] = At(k - 1 - 1) BY <1>3, <3>1
    <3> QED BY <2>1, <3>1, <3>2, <3>3
  <2>6. k <= i \/ k = i + 1 \/ k > i + 1 BY <1>3
  <2> QED BY ONLY <2>3, <2>4, <2>5, <2>6
<1>8. Elements' = SubSeq(Elements, 1, i) \o <<e>> \o SubSeq(Elements, i + 1, Len(Elements))
  <2> DEFINE s == Elements
             t == Elements'
  <2>1. /\ s \in Seq(Memory) /\ t \in Seq(Memory) /\ i < Len(s) /\ Len(t) = Len(s) + 1
        /\ \A k \in 1..Len(t) : t[k] = IF k <= i THEN s[k] ELSE IF k = i + 1 THEN e ELSE s[k - 1]
    BY <1>1, <1>3, <1>6, <1>7
  <2> HIDE DEF s, t
  <2>2. t = SubSeq(s, 1, i) \o <<e>> \o SubSeq(s, i + 1, Len(s)) BY ONLY <1>2, <2>1, i \in Nat, Spliced
  <2> QED BY ONLY <2>2 DEF s, t
<1>9. (i + 1) - 1 = i OBVIOUS
<1>10. Vec!InsertAt(Elements, i + 1, e) = SubSeq(Elements, 1, i) \o <<e>> \o SubSeq(Elements, i + 1, Len(Elements))
  BY Zenon, <1>9 DEF Vec!InsertAt
<1> QED BY Zenon, <1>1, <1>6, <1>8, <1>10 DEF Seen

\* One behind the block fills the sequence up with what is in memory.
LEMMA StretchSeen ==
    ASSUME Inv, Inv', Clear, NEW i \in Nat, i >= tot, NEW e \in Elems, Usable, Usable',
           len' = i + 1, slots' = Block(tot', [k \in 0..i |-> IF k = i THEN e ELSE At(k)])
    PROVE  /\ Seen' = Seen \o [k \in 1..(i - Len(Seen)) |-> junk] \o <<e>> /\ i >= Len(Seen)
           /\ Clear'
<1> DEFINE f == [k \in 0..i |-> IF k = i THEN e ELSE At(k)]
<1>2. TypeOK /\ e \in Memory /\ junk \in Memory BY DEF Inv, Memory
<1>3. /\ Elements \in Seq(Memory) /\ Len(Elements) = len /\ len \in Nat
      /\ \A k \in 1..len : Elements[k] = At(k - 1)
  BY <1>2, Before
<1>t. tot \in Nat /\ len <= tot /\ len <= i
  <2>1. tot \in Nat /\ len <= tot BY Zenon, <1>2 DEF TypeOK
  <2> QED BY <1>3, <2>1
<1>4. DOMAIN f = 0..len' - 1 /\ \A k \in 0..len' - 1 : f[k] \in Memory
  <2>1. len' - 1 = i OBVIOUS
  <2> QED BY <1>2, <2>1, AtMemory
<1>5. /\ f[i] = e /\ \A k \in 0..i - 1 : f[k] = At(k)
      /\ \A k \in len..i - 1 : At(k) = junk
  <2>1. \A k \in len..i - 1 : k \in 0..tot - 1 => k \in len..tot - 1 BY <1>3, <1>t
  <2> QED BY <2>1 DEF At, Clear
<1> HIDE DEF f
<1>6. /\ Elements' \in Seq(Memory) /\ Len(Elements') = len' /\ Clear'
      /\ \A k \in 1..len' : Elements'[k] = f[k - 1]
  <2>1. slots' = Block(tot', f) BY DEF f
  <2> QED BY <1>4, <2>1, After
<1>7. ASSUME NEW k \in 1..(i + 1)
      PROVE  Elements'[k] = IF k <= len THEN Elements[k] ELSE IF k <= i THEN junk ELSE e
  <2>1. Elements'[k] = f[k - 1] BY <1>6
  <2>2. CASE k <= len
    <3>1. k \in 1..len /\ k - 1 \in 0..i - 1 BY <1>3, <1>t, <2>2
    <3> QED BY <1>3, <1>5, <2>1, <2>2, <3>1
  <2>3. CASE ~(k <= len) /\ k <= i
    <3>1. k - 1 \in len..i - 1 /\ k - 1 \in 0..i - 1 BY <1>3, <1>t, <2>3
    <3> QED BY <1>5, <2>1, <2>3, <3>1
  <2>4. CASE ~(k <= i)
    <3>1. k - 1 = i /\ ~(k <= len) BY <1>3, <1>t, <2>4
    <3> QED BY <1>5, <2>1, <2>4, <3>1
  <2> QED BY <2>2, <2>3, <2>4
<1>8. Elements' = Elements \o [k \in 1..(i - Len(Elements)) |-> junk] \o <<e>>
  <2> DEFINE s == Elements
             t == Elements'
  <2>1. /\ s \in Seq(Memory) /\ t \in Seq(Memory) /\ Len(s) <= i /\ Len(t) = i + 1
        /\ \A k \in 1..Len(t) : t[k] = IF k <= Len(s) THEN s[k] ELSE IF k <= i THEN junk ELSE e
    BY <1>3, <1>t, <1>6, <1>7
  <2> HIDE DEF s, t
  <2>2. t = s \o [k \in 1..(i - Len(s)) |-> junk] \o <<e>> BY ONLY <1>2, <2>1, i \in Nat, Stretched
  <2> QED BY ONLY <2>2 DEF s, t
<1> QED BY <1>3, <1>t, <1>6, <1>8 DEF Seen

\* A removal takes one element out of the sequence.
LEMMA RemoveSeen ==
    ASSUME Inv, Inv', Usable, NEW i \in Nat, i < len,
           Removes([k \in 0..len - 2 |-> At(MovedDown(k, i))])
    PROVE  Seen' = Vec!RemoveAt(Seen, i + 1) /\ ret' \in {"success", "failed"} /\ Clear'
<1> DEFINE f == [k \in 0..len - 2 |-> At(MovedDown(k, i))]
<1>1. Usable' /\ len' = len - 1 /\ ret' \in {"success", "failed"} /\ slots' = Block(tot', f)
  BY Zenon DEF Removes, Usable
<1>2. TypeOK BY DEF Inv
<1>3. /\ Elements \in Seq(Memory) /\ Len(Elements) = len /\ len \in Nat
      /\ \A k \in 1..len : Elements[k] = At(k - 1)
  BY <1>2, Before
<1>4. DOMAIN f = 0..len' - 1 /\ \A k \in 0..len' - 1 : f[k] \in Memory
  <2>1. len' - 1 = len - 2 BY <1>1, <1>3
  <2> QED BY <1>2, <2>1, AtMemory
<1>5. \A k \in 0..len - 2 : f[k] = IF k >= i THEN At(k + 1) ELSE At(k)
  BY DEF MovedDown
<1> HIDE DEF f
<1>6. /\ Elements' \in Seq(Memory) /\ Len(Elements') = len' /\ Clear'
      /\ \A k \in 1..len' : Elements'[k] = f[k - 1]
  BY <1>1, <1>4, After
<1>7. ASSUME NEW k \in 1..(len - 1)
      PROVE  Elements'[k] = IF k <= i THEN Elements[k] ELSE Elements[k + 1]
  <2>1. Elements'[k] = f[k - 1] BY <1>1, <1>6
  <2>2. k - 1 \in 0..len - 2 BY <1>3
  <2>3. CASE k <= i
    <3>1. ~(k - 1 >= i) /\ k \in 1..len BY <1>3, <2>3
    <3> QED BY <1>3, <1>5, <2>1, <2>2, <2>3, <3>1
  <2>4. CASE ~(k <= i)
    <3>1. k - 1 >= i /\ k - 1 + 1 = k + 1 - 1 /\ k + 1 \in 1..len BY <1>3, <2>4
    <3> QED BY <1>3, <1>5, <2>1, <2>2, <2>4, <3>1
  <2> QED BY <2>3, <2>4
<1>8. Elements' = SubSeq(Elements, 1, i) \o SubSeq(Elements, i + 2, Len(Elements))
  BY <1>1, <1>3, <1>6, <1>7, Cut
<1>9. (i + 1) - 1 = i /\ (i + 1) + 1 = i + 2 OBVIOUS
<1>10. Vec!RemoveAt(Elements, i + 1) = SubSeq(Elements, 1, i) \o SubSeq(Elements, i + 2, Len(Elements))
  BY Zenon, <1>9 DEF Vec!RemoveAt
<1> QED BY Zenon, <1>1, <1>6, <1>8, <1>10 DEF Seen

\* Taking the last one leaves the front of the sequence.
LEMMA PopSeen ==
    ASSUME Inv, Inv', Usable, len > 0, Removes([k \in 0..len - 2 |-> At(k)])
    PROVE  Seen' = Vec!Front(Seen) /\ ret' \in {"success", "failed"} /\ Clear'
<1> DEFINE f == [k \in 0..len - 2 |-> At(k)]
<1>1. Usable' /\ len' = len - 1 /\ ret' \in {"success", "failed"} /\ slots' = Block(tot', f)
  BY Zenon DEF Removes, Usable
<1>2. TypeOK BY DEF Inv
<1>3. /\ Elements \in Seq(Memory) /\ Len(Elements) = len /\ len \in Nat
      /\ \A k \in 1..len : Elements[k] = At(k - 1)
  BY <1>2, Before
<1>4. DOMAIN f = 0..len' - 1 /\ \A k \in 0..len' - 1 : f[k] \in Memory
  <2>1. len' - 1 = len - 2 BY <1>1, <1>3
  <2> QED BY <1>2, <2>1, AtMemory
<1>5. \A k \in 0..len - 2 : f[k] = At(k) OBVIOUS
<1> HIDE DEF f
<1>6. /\ Elements' \in Seq(Memory) /\ Len(Elements') = len' /\ Clear'
      /\ \A k \in 1..len' : Elements'[k] = f[k - 1]
  BY <1>1, <1>4, After
<1>7. ASSUME NEW k \in 1..(len - 1) PROVE Elements'[k] = Elements[k]
  <2>1. k - 1 \in 0..len - 2 /\ k \in 1..len BY <1>3
  <2> QED BY <1>1, <1>3, <1>5, <1>6, <2>1
<1>8. Elements' = SubSeq(Elements, 1, Len(Elements) - 1)
  <2> DEFINE s == Elements
             t == Elements'
  <2>1. /\ s \in Seq(Memory) /\ t \in Seq(Memory) /\ Len(s) >= 1 /\ Len(t) = Len(s) - 1
        /\ \A k \in 1..Len(t) : t[k] = s[k]
    BY <1>1, <1>3, <1>6, <1>7
  <2> HIDE DEF s, t
  <2>2. t = SubSeq(s, 1, Len(s) - 1) BY ONLY <2>1, Shortened
  <2> QED BY ONLY <2>2 DEF s, t
<1> QED BY Zenon, <1>1, <1>6, <1>8 DEF Seen, Vec!Front

-----------------------------------------------------------------------------
(* Each operation is one of Vector, under the same name or as a failure.    *)

\* A failure, and an operation that does nothing.
LEMMA FailIsFail == ASSUME Keep, ret' = "failed" PROVE Vec!Fail
BY Zenon, SameSeen DEF Vec!Fail, Seen, Usable

\* A vector in use shows as many elements as its length says.
LEMMA SeenLength ==
    ASSUME Inv, Usable
    PROVE  Seen = Elements /\ Len(Seen) = len /\ len \in Nat /\ (len > 0 => Seen # <<>>)
<1>1. TypeOK BY DEF Inv
<1>2. Elements \in Seq(Memory) /\ Len(Elements) = len /\ len \in Nat BY <1>1, Before
<1>3. len > 0 => Elements # <<>>
  <2>1. Elements = <<>> => Len(Elements) = 0 OBVIOUS
  <2> QED BY <1>2, <2>1
<1> QED BY <1>2, <1>3 DEF Seen

\* cvector_pushback is Push of Vector.
LEMMA PushImplements ==
    ASSUME Inv, Inv', Clear, NEW e \in Elems, cvector_pushback(e)
    PROVE  Vec!Push(e) /\ Clear'
<1>1. CASE GrowFails
  <2>1. Keep /\ ret' = "failed" BY <1>1 DEF GrowFails
  <2> QED BY Zenon, <2>1, FailIsFail, SameSeen DEF Vec!Push
<1>2. CASE ~GrowFails
  <2>1. Seen' = Append(Seen, e) /\ ret' = "success" /\ Clear' BY <1>2, PushSeen
  <2> QED BY Zenon, <2>1 DEF Vec!Push, Seen, Usable
<1> QED BY <1>1, <1>2

\* After a stray insertion nothing of the sequence is promised.
LEMMA StrayImplements ==
    ASSUME Strays PROVE Seen' = <<>> /\ Clear' /\ ret' = "success"
<1>1. ~Usable' /\ ret' = "success" BY Zenon DEF Strays, Usable
<1> QED BY <1>1, BrokenSeen

\* cvector_insert is Insert of Vector.
LEMMA InsertImplements ==
    ASSUME Inv, Inv', Clear, NEW i \in 0..MaxLen, NEW e \in Elems, cvector_insert(i, e)
    PROVE  Vec!Insert(i, e) /\ Clear'
<1>1. Usable /\ i \in Nat
  <2>1. Usable BY Zenon DEF cvector_insert, Usable
  <2> QED BY <2>1
<1>2. CASE Keep /\ ret' = "failed"
  BY Zenon, <1>2, FailIsFail, SameSeen DEF Vec!Insert
<1>3. CASE i < len /\ (Inserts(i, e, "insert") \/ Strays)
  <2>1. ret' = "success" /\ Clear' /\ Seen' \in {Vec!InsertAt(Seen, i + 1, e), <<>>}
    BY Zenon, <1>1, <1>3, InsertSeen, StrayImplements
  <2>2. i < Len(Seen) BY <1>1, <1>3, SeenLength
  <2> QED BY Zenon, <2>1, <2>2 DEF Vec!Insert, Seen, Usable
<1> QED BY Zenon, <1>2, <1>3 DEF cvector_insert, GrowFails

\* cvector_insert_at is SetAt of Vector.
LEMMA InsertAtImplements ==
    ASSUME Inv, Inv', Clear, NEW i \in 0..MaxLen, NEW e \in Elems, cvector_insert_at(i, e)
    PROVE  Vec!SetAt(i, e) /\ Clear'
<1>1. Usable /\ i \in Nat /\ ret' = "success"
  <2>1. Usable /\ ret' = "success" BY Zenon DEF cvector_insert_at, Usable
  <2> QED BY <2>1
<1>2. CASE Keep
  BY Zenon, <1>1, <1>2, SameSeen DEF Vec!SetAt, Seen, Usable
<1>3. CASE i < len /\ (Inserts(i, e, "insert_at") \/ Strays)
  <2>1. Clear' /\ (Seen' = Vec!InsertAt(Seen, i + 1, e) \/ Seen' = <<>>)
    BY Zenon, <1>1, <1>3, InsertSeen, StrayImplements
  <2>2. i < Len(Seen) BY <1>1, <1>3, SeenLength
  <2> QED BY Zenon, <1>1, <2>1, <2>2 DEF Vec!SetAt, Seen, Usable
<1>4. CASE broken' = "null"
  <2>1. ~Usable' BY <1>4 DEF Usable
  <2> QED BY Zenon, <1>1, <2>1, BrokenSeen DEF Vec!SetAt, Seen, Usable
<1>5. CASE /\ i >= tot /\ len' = i + 1 /\ UNCHANGED broken
           /\ slots' = Block(tot', [k \in 0..i |-> IF k = i THEN e ELSE At(k)])
  <2>1. Usable' BY Zenon, <1>1, <1>5 DEF Usable
  <2>2. /\ Seen' = Seen \o [k \in 1..(i - Len(Seen)) |-> junk] \o <<e>> /\ i >= Len(Seen)
        /\ Clear'
    BY <1>1, <1>5, <2>1, StretchSeen
  <2> QED BY Zenon, <1>1, <2>2 DEF Vec!SetAt, Vec!Extend, Seen, Usable
<1> QED BY Zenon, <1>2, <1>3, <1>4, <1>5 DEF cvector_insert_at

\* cvector_rm is Rm of Vector.
LEMMA RmImplements ==
    ASSUME Inv, Inv', Clear, NEW i \in 0..MaxLen, cvector_rm(i)
    PROVE  Vec!Rm(i) /\ Clear'
<1>1. Usable /\ i \in Nat
  <2>1. Usable BY Zenon DEF cvector_rm, Usable
  <2> QED BY <2>1
<1>2. CASE i >= len /\ ret' = "failed" /\ Keep
  <2>1. i >= Len(Seen) BY <1>1, <1>2, SeenLength
  <2> QED BY Zenon, <1>2, <2>1, FailIsFail, SameSeen DEF Vec!Rm, Seen, Usable
<1>3. CASE i < len /\ Removes([k \in 0..len - 2 |-> At(MovedDown(k, i))])
  <2>1. i < Len(Seen) BY <1>1, <1>3, SeenLength
  <2>2. Seen' = Vec!RemoveAt(Seen, i + 1) /\ ret' \in {"success", "failed"} /\ Clear'
    BY Zenon, <1>1, <1>3, RemoveSeen
  <2> QED BY Zenon, <2>1, <2>2 DEF Vec!Rm, Seen, Usable
<1> QED BY Zenon, <1>2, <1>3 DEF cvector_rm

\* cvector_popback is Pop of Vector.
LEMMA PopImplements ==
    ASSUME Inv, Inv', Clear, cvector_popback
    PROVE  Vec!Pop /\ Clear'
<1>1. Usable BY Zenon DEF cvector_popback, Usable
<1>2. CASE len = 0 /\ ret' = "failed" /\ Keep
  <2>1. Seen = <<>>
    <3>1. TypeOK BY DEF Inv
    <3>2. Elements \in Seq(Memory) /\ Len(Elements) = 0 BY <1>1, <1>2, <3>1, Before
    <3>3. Elements = <<>> BY <3>2, EmptySeq
    <3> QED BY <1>1, <3>3 DEF Seen
  <2> QED BY Zenon, <1>2, <2>1, FailIsFail, SameSeen DEF Vec!Pop, Seen, Usable
<1>3. CASE len > 0 /\ Removes([k \in 0..len - 2 |-> At(k)])
  <2>1. Seen # <<>> BY <1>1, <1>3, SeenLength
  <2>2. Seen' = Vec!Front(Seen) /\ ret' \in {"success", "failed"} /\ Clear'
    BY <1>1, <1>3, PopSeen
  <2> QED BY Zenon, <2>1, <2>2 DEF Vec!Pop, Seen, Usable
<1> QED BY Zenon, <1>2, <1>3 DEF cvector_popback

\* Every step of the block is a step of the sequence, or leaves it alone.
LEMMA StepImplements ==
    ASSUME Inv, Inv', Clear, [Next]_vars
    PROVE  Clear' /\ (Vec!VecNext \/ (Seen' = Seen /\ ret' = ret))
<1>1. CASE UNCHANGED vars
  BY Zenon, <1>1 DEF vars, Seen, Elements, Clear, Usable
<1>2. CASE cvector_popback
  BY Zenon, <1>2, PopImplements DEF Vec!VecNext
<1>3. ASSUME NEW e \in Elems, cvector_pushback(e) PROVE Clear' /\ Vec!VecNext
  BY Zenon, <1>3, PushImplements DEF Vec!VecNext
<1>4. ASSUME NEW i \in 0..MaxLen, cvector_rm(i) PROVE Clear' /\ Vec!VecNext
  BY Zenon, <1>4, RmImplements DEF Vec!VecNext
<1>5. ASSUME NEW i \in 0..MaxLen, NEW e \in Elems, cvector_insert(i, e)
      PROVE  Clear' /\ Vec!VecNext
  BY Zenon, <1>5, InsertImplements DEF Vec!VecNext
<1>6. ASSUME NEW i \in 0..MaxLen, NEW e \in Elems, cvector_insert_at(i, e)
      PROVE  Clear' /\ Vec!VecNext
  BY Zenon, <1>6, InsertAtImplements DEF Vec!VecNext
<1> QED BY Zenon, <1>1, <1>2, <1>3, <1>4, <1>5, <1>6 DEF Next

\* A block begins as the empty sequence.
LEMMA InitImplements == ASSUME Init PROVE Clear /\ Vec!VecInit
<1>1. len = 0 /\ ret = "success" BY Zenon DEF Init
<1>2. Clear
  <2>1. tot = MIN_LEN /\ slots = [k \in 0..MIN_LEN - 1 |-> junk] BY Zenon DEF Init
  <2> QED BY <1>1, <2>1 DEF Clear
<1>3. Elements = <<>>
  <2>1. Elements = [k \in 1..len |-> slots[k - 1]] BY DEF Elements
  <2> QED BY <1>1, <2>1
<1> QED BY Zenon, <1>1, <1>2, <1>3 DEF Vec!VecInit

\* The block, its moves, its growth and its shrinking implement the sequence of
\* module Vector: elements keep their order, none is lost or doubled, and a
\* failure leaves them as they were except as Vector says (all of cvector.c).
THEOREM BlockImplementsVector == Spec => ImplementsVector
<1> DEFINE IInv == Inv /\ Clear
           same == <<IF broken = "" THEN Elements ELSE <<>>, ret>>
<1>1. Init => IInv /\ Vec!VecInit BY InvInit, InitImplements
<1>2. ASSUME IInv, [Next]_vars PROVE IInv' /\ [Vec!VecNext]_same
  <2>1. Inv' BY <1>2, InvStep
  <2>2. Clear' /\ (Vec!VecNext \/ (Seen' = Seen /\ ret' = ret))
    BY <1>2, <2>1, StepImplements
  <2>3. Seen' = Seen /\ ret' = ret => UNCHANGED same BY Zenon DEF Seen, Usable
  <2> QED BY Zenon, <2>1, <2>2, <2>3
<1> HIDE DEF IInv
<1>3. Spec => Vec!VecInit /\ [][Vec!VecNext]_same BY <1>1, <1>2, PTL DEF Spec
<1> QED BY <1>3 DEF ImplementsVector, Vec!VecSpec
=============================================================================
