-------------------------- MODULE LineReaderProofs --------------------------
(***************************************************************************)
(* The line reader of ftp_proto.c and sysutil.c for every size of the      *)
(* buffer, every set of letters and every client: readline asks for bytes  *)
(* it has seen and never past a line feed, and the commands are the pieces *)
(* of the stream (module LineStream).  The inductive invariant says of     *)
(* every byte of the buffer where in the stream it stands.  What the       *)
(* operators compute with CHOOSE rests on the least and the greatest of a  *)
(* set of numbers, which there are because < is well-founded.              *)
(***************************************************************************)
EXTENDS LineReader, WellFoundedInduction, SequenceTheorems, TLAPS

-----------------------------------------------------------------------------
(* Least and greatest numbers *)

\* Of natural numbers one is the least.
LEMMA Least ==
    ASSUME NEW S \in SUBSET Nat, S # {}
    PROVE  \E x \in S : \A y \in S : x <= y
<1>1. PICK x \in S : \A y \in S : ~(<<y, x>> \in OpToRel(<, Nat))
  BY NatLessThanWellFounded, WFMin
<1>2. ASSUME NEW y \in S PROVE x <= y
  <2>1. ~(y < x) BY <1>1 DEF OpToRel
  <2> QED BY <2>1
<1> QED BY <1>2

\* Of numbers that have a bound one is the greatest.
LEMMA Greatest ==
    ASSUME NEW S \in SUBSET Nat, S # {}, NEW n \in Nat, \A x \in S : x <= n
    PROVE  \E x \in S : \A y \in S : y <= x
<1> DEFINE T == {n - x : x \in S}
<1>1. T \in SUBSET Nat /\ T # {}
  <2>1. \A x \in S : n - x \in Nat OBVIOUS
  <2> QED BY <2>1
<1>2. PICK t \in T : \A u \in T : t <= u BY <1>1, Least
<1>3. PICK x \in S : t = n - x BY <1>2
<1>4. ASSUME NEW y \in S PROVE y <= x
  <2>1. n - x <= n - y BY <1>2, <1>3
  <2> QED BY <2>1
<1> QED BY <1>4

-----------------------------------------------------------------------------
(* str_trim_crlf and str_split *)

\* What is kept ends with a byte that is neither of the two, and only these are
\* cut off.
LEMMA KeptIs ==
    ASSUME NEW s \in Seq(Bytes)
    PROVE  /\ Kept(s) \in 0..Len(s)
           /\ \A i \in Kept(s) + 1 .. Len(s) : s[i] \in {"cr", "lf"}
           /\ Kept(s) = 0 \/ s[Kept(s)] \notin {"cr", "lf"}
<1> DEFINE I == {i \in 1..Len(s) : s[i] \notin {"cr", "lf"}}
<1>1. Kept(s) = IF I # {} THEN Max(I) ELSE 0 BY DEF Kept, SelectLastInSeq
<1>2. Len(s) \in Nat OBVIOUS
<1>3. I \in SUBSET (1..Len(s)) /\ I \in SUBSET Nat /\ \A x \in I : x <= Len(s) OBVIOUS
<1>4. \A i \in 1..Len(s) : i \in I <=> s[i] \notin {"cr", "lf"} OBVIOUS
<1> HIDE DEF I
<1>5. CASE I = {}
  <2>1. Kept(s) = 0 BY <1>1, <1>5
  <2> QED BY <1>2, <1>4, <1>5, <2>1
<1>6. CASE I # {}
  <2>1. \E x \in I : \A y \in I : y <= x BY <1>2, <1>3, <1>6, Greatest
  <2>2. PICK x \in I : \A y \in I : y <= x BY <2>1
  <2>3. Max(I) \in I /\ \A y \in I : Max(I) >= y
    <3>1. \A y \in I : x >= y BY <1>3, <2>2
    <3>2. Max(I) = CHOOSE z \in I : \A y \in I : z >= y BY DEF Max
    <3> QED BY <3>1, <3>2
  <2>4. Kept(s) \in I /\ \A y \in I : Kept(s) >= y BY <1>1, <1>6, <2>3
  <2>5. Kept(s) \in 1..Len(s) /\ s[Kept(s)] \notin {"cr", "lf"} BY <1>3, <1>4, <2>4
  <2>6. ASSUME NEW i \in Kept(s) + 1 .. Len(s) PROVE s[i] \in {"cr", "lf"}
    <3>1. i \in 1..Len(s) /\ ~(Kept(s) >= i) BY <1>2, <2>5
    <3> QED BY <1>4, <2>4, <3>1
  <2>7. Kept(s) \in 0..Len(s) BY <1>2, <2>5
  <2> QED BY <2>5, <2>6, <2>7
<1> QED BY <1>5, <1>6

\* A sequence is what is before a position, what is there, and what is behind.
LEMMA SplitAt ==
    ASSUME NEW S, NEW s \in Seq(S), NEW i \in 1..Len(s)
    PROVE  /\ SubSeq(s, 1, i - 1) \in Seq(S) /\ Len(SubSeq(s, 1, i - 1)) = i - 1
           /\ \A k \in 1 .. i - 1 : SubSeq(s, 1, i - 1)[k] = s[k]
           /\ SubSeq(s, i + 1, Len(s)) \in Seq(S)
           /\ s = SubSeq(s, 1, i - 1) \o <<s[i]>> \o SubSeq(s, i + 1, Len(s))
<1> DEFINE a == SubSeq(s, 1, i - 1)
           e == <<s[i]>>
           b == SubSeq(s, i + 1, Len(s))
<1>1. Len(s) \in Nat /\ i \in Nat /\ i <= Len(s) /\ i >= 1 /\ \A k \in 1..Len(s) : s[k] \in S
  BY LenProperties, ElementOfSeq
<1>2. a \in Seq(S) /\ Len(a) = i - 1 /\ \A k \in 1 .. i - 1 : a[k] = s[k]
  <2>1. /\ SubSeq(s, 1, i - 1) \in Seq(S)
        /\ Len(SubSeq(s, 1, i - 1)) = IF 1 <= i - 1 THEN i - 1 - 1 + 1 ELSE 0
        /\ \A k \in 1..i - 1 - 1 + 1 : SubSeq(s, 1, i - 1)[k] = s[1 + k - 1]
    BY <1>1, SubSeqProperties
  <2> HIDE DEF a
  <2>2. a = SubSeq(s, 1, i - 1) BY DEF a
  <2> QED BY <1>1, <2>1, <2>2
<1>3. b \in Seq(S) /\ Len(b) = Len(s) - i /\ \A k \in 1 .. Len(s) - i : b[k] = s[i + k]
  <2>1. /\ SubSeq(s, i + 1, Len(s)) \in Seq(S)
        /\ Len(SubSeq(s, i + 1, Len(s))) = IF i + 1 <= Len(s) THEN Len(s) - (i + 1) + 1 ELSE 0
        /\ \A k \in 1..Len(s) - (i + 1) + 1 : SubSeq(s, i + 1, Len(s))[k] = s[i + 1 + k - 1]
    BY <1>1, SubSeqProperties
  <2> HIDE DEF b
  <2>2. b = SubSeq(s, i + 1, Len(s)) BY DEF b
  <2>3. Len(b) = Len(s) - i BY <1>1, <2>1, <2>2
  <2>4. ASSUME NEW k \in 1 .. Len(s) - i PROVE b[k] = s[i + k]
    <3>1. k \in 1..Len(s) - (i + 1) + 1 /\ i + 1 + k - 1 = i + k BY <1>1
    <3> QED BY <2>1, <2>2, <3>1
  <2> QED BY <2>1, <2>2, <2>3, <2>4
<1>4. e \in Seq(S) /\ Len(e) = 1 /\ e[1] = s[i] BY <1>1
<1> HIDE DEF a, b, e
<1> DEFINE c == a \o e
<1>5. /\ c \in Seq(S) /\ Len(c) = i /\ \A k \in 1 .. i : c[k] = s[k]
  <2>1. /\ a \o e \in Seq(S) /\ Len(a \o e) = Len(a) + Len(e)
        /\ \A k \in 1..Len(a) + Len(e) : (a \o e)[k] = IF k <= Len(a) THEN a[k] ELSE e[k - Len(a)]
    BY <1>2, <1>4, ConcatProperties
  <2>2. Len(a) + Len(e) = i BY <1>1, <1>2, <1>4
  <2>3. ASSUME NEW k \in 1..i PROVE (a \o e)[k] = s[k]
    <3>1. CASE k <= i - 1
      <4>1. k \in 1 .. i - 1 BY <1>1, <3>1
      <4> QED BY <1>2, <2>1, <2>2, <4>1
    <3>2. CASE k = i
      <4>1. k - Len(a) = 1 /\ ~(k <= Len(a)) BY <1>1, <1>2, <3>2
      <4> QED BY <1>4, <2>1, <2>2, <3>2, <4>1
    <3>3. k <= i - 1 \/ k = i BY <1>1
    <3> QED BY <3>1, <3>2, <3>3
  <2> QED BY <2>1, <2>2, <2>3
<1> HIDE DEF c
<1>6. /\ c \o b \in Seq(S) /\ Len(c \o b) = Len(s)
      /\ \A k \in 1..Len(s) : (c \o b)[k] = s[k]
  <2>1. /\ c \o b \in Seq(S) /\ Len(c \o b) = Len(c) + Len(b)
        /\ \A k \in 1..Len(c) + Len(b) : (c \o b)[k] = IF k <= Len(c) THEN c[k] ELSE b[k - Len(c)]
    BY <1>3, <1>5, ConcatProperties
  <2>2. Len(c) + Len(b) = Len(s) BY ONLY <1>1, <1>3, <1>5
  <2>3. ASSUME NEW k \in 1..Len(s) PROVE (c \o b)[k] = s[k]
    <3>1. CASE k <= i
      <4>1. k \in 1..i BY <1>1, <3>1
      <4> QED BY <1>5, <2>1, <2>2, <4>1
    <3>2. CASE ~(k <= i)
      <4>1. k - i \in 1 .. Len(s) - i /\ i + (k - i) = k BY <1>1, <3>2
      <4> QED BY <1>3, <1>5, <2>1, <2>2, <3>2, <4>1
    <3> QED BY <3>1, <3>2
  <2> QED BY <2>1, <2>2, <2>3
<1>7. s = c \o b BY <1>6, SeqEqual
<1> QED BY <1>2, <1>3, <1>7 DEF a, b, c, e

\* toupper makes no space and takes none away.
LEMMA UpperByte ==
    ASSUME NEW b \in Bytes PROVE Upper(b) \in Bytes /\ (b # "space" => Upper(b) # "space")
BY LineAssumption DEF Bytes

\* Upper case keeps the length.
LEMMA UpperSeq ==
    ASSUME NEW s \in Seq(Bytes)
    PROVE  /\ [i \in DOMAIN s |-> Upper(s[i])] \in Seq(Bytes)
           /\ Len([i \in DOMAIN s |-> Upper(s[i])]) = Len(s)
<1> DEFINE u == [i \in DOMAIN s |-> Upper(s[i])]
<1>1. DOMAIN s = 1..Len(s) /\ Len(s) \in Nat /\ \A i \in 1..Len(s) : s[i] \in Bytes
  BY LenProperties, ElementOfSeq
<1>2. u \in [1..Len(s) -> Bytes] /\ DOMAIN u = 1..Len(s) BY <1>1, UpperByte
<1>3. u \in Seq(Bytes) BY <1>1, <1>2, SeqDef
<1>4. Len(u) = Len(s) BY <1>1, <1>2, <1>3, LenProperties
<1> QED BY <1>3, <1>4

\* The text of a line, which is what comes before its end.
LEMMA TextIs ==
    ASSUME NEW s \in Seq(Bytes), NEW n \in 0..Len(s)
    PROVE  SubSeq(s, 1, n) \in Seq(Bytes) /\ Len(SubSeq(s, 1, n)) = n
<1>1. Len(s) \in Nat /\ n \in Nat BY LenProperties
<1>2. /\ SubSeq(s, 1, n) \in Seq(Bytes)
      /\ Len(SubSeq(s, 1, n)) = IF 1 <= n THEN n - 1 + 1 ELSE 0
  <2>1. \A i \in 1..n : s[i] \in Bytes BY <1>1, ElementOfSeq
  <2> QED BY <1>1, <2>1, SubSeqProperties
<1>3. (IF 1 <= n THEN n - 1 + 1 ELSE 0) = n BY <1>1
<1> QED BY <1>2, <1>3

\* The parts of a line are those LineStream says.
LEMMA ParseIs ==
    ASSUME NEW s \in Seq(Bytes)
    PROVE  /\ Parse(s).verb \in Seq(Bytes) /\ Parse(s).args \in Seq(Bytes)
           /\ Stream!StandsFor(Parse(s), s)
<1> DEFINE n == Kept(s)
           text == SubSeq(s, 1, n)
           spaces == {i \in DOMAIN text : text[i] = "space"}
           first == CHOOSE i \in spaces : \A j \in spaces : i <= j
           left == IF spaces = {} THEN text ELSE SubSeq(text, 1, first - 1)
           verb == [i \in DOMAIN left |-> Upper(left[i])]
           args == IF spaces = {} THEN << >> ELSE SubSeq(text, first + 1, Len(text))
<1>1. Parse(s) = [verb |-> verb, args |-> args] BY DEF Parse
<1>2. /\ n \in 0..Len(s) /\ \A i \in n + 1 .. Len(s) : s[i] \in {"cr", "lf"}
      /\ n = 0 \/ s[n] \notin {"cr", "lf"}
  BY KeptIs
<1>3. text \in Seq(Bytes) BY <1>2, TextIs
<1> HIDE DEF n, text
<1>4. Len(text) \in Nat /\ DOMAIN text = 1..Len(text) /\ \A i \in 1..Len(text) : text[i] \in Bytes
  BY <1>3, LenProperties, ElementOfSeq
<1>5. spaces \in SUBSET Nat /\ spaces \in SUBSET (1..Len(text))
      /\ \A i \in 1..Len(text) : i \in spaces <=> text[i] = "space"
  BY <1>4
<1> HIDE DEF spaces
<1>6. spaces # {} => first \in spaces /\ \A j \in spaces : first <= j
  <2> SUFFICES ASSUME spaces # {} PROVE first \in spaces /\ \A j \in spaces : first <= j
    OBVIOUS
  <2>1. \E i \in spaces : \A j \in spaces : i <= j BY <1>5, Least
  <2> QED BY <2>1
<1> HIDE DEF first
<1>7. CASE spaces = {}
  <2>1. left = text /\ args = << >> BY <1>7
  <2> HIDE DEF left, args
  <2>2. verb = [i \in DOMAIN text |-> Upper(text[i])] BY <2>1
  <2>3. verb \in Seq(Bytes) BY <1>3, <2>2, UpperSeq
  <2>4. \A i \in DOMAIN text : Upper(text[i]) # "space" BY <1>4, <1>5, <1>7, UpperByte
  <2>5. "space" \notin {verb[i] : i \in DOMAIN verb} BY <2>2, <2>4
  <2>6. verb = Stream!UpperCase(text) BY <2>2 DEF Stream!UpperCase
  <2> HIDE DEF verb
  <2>7. Parse(s).verb = verb /\ Parse(s).args = << >> BY <1>1, <2>1
  <2>8. Stream!StandsFor(Parse(s), s) BY <1>2, <2>5, <2>6, <2>7 DEF Stream!StandsFor, text
  <2> QED BY <2>3, <2>7, <2>8
<1>8. CASE spaces # {}
  <2>1. left = SubSeq(text, 1, first - 1) /\ args = SubSeq(text, first + 1, Len(text)) BY <1>8
  <2> HIDE DEF left, args
  <2>2. first \in 1..Len(text) /\ text[first] = "space" BY <1>5, <1>6, <1>8
  <2>3. /\ left \in Seq(Bytes) /\ Len(left) = first - 1 /\ \A k \in 1 .. first - 1 : left[k] = text[k]
        /\ args \in Seq(Bytes) /\ text = left \o <<text[first]>> \o args
    BY <1>3, <2>1, <2>2, SplitAt
  <2>4. verb \in Seq(Bytes) /\ Len(verb) = first - 1 BY <2>3, UpperSeq
  <2>5. \A k \in DOMAIN left : left[k] \in Bytes /\ left[k] # "space"
    <3>1. DOMAIN left = 1 .. first - 1 BY <2>3
    <3>2. ASSUME NEW k \in 1 .. first - 1 PROVE text[k] \in Bytes /\ text[k] # "space"
      <4>1. k \in 1..Len(text) /\ ~(first <= k) BY <1>4, <2>2
      <4> QED BY <1>4, <1>5, <1>6, <1>8, <4>1
    <3> QED BY <2>3, <3>1, <3>2
  <2>6. "space" \notin {verb[i] : i \in DOMAIN verb}
    <3>1. DOMAIN verb = DOMAIN left /\ \A k \in DOMAIN left : verb[k] = Upper(left[k]) OBVIOUS
    <3> HIDE DEF verb
    <3> QED BY <2>5, <3>1, UpperByte
  <2>7. verb = Stream!UpperCase(left) BY DEF Stream!UpperCase
  <2> HIDE DEF verb
  <2>8. Parse(s).verb = verb /\ Parse(s).args = args BY <1>1
  <2>9. left = SubSeq(text, 1, Len(verb)) BY <2>1, <2>4
  <2>10. Len(verb) < Len(text) BY <1>4, <2>2, <2>4
  <2>11. text = SubSeq(text, 1, Len(verb)) \o <<"space">> \o args BY <2>2, <2>3, <2>9
  <2>12. verb = Stream!UpperCase(SubSeq(text, 1, Len(verb))) BY <2>7, <2>9
  <2>13. Stream!StandsFor(Parse(s), s)
    BY <1>2, <2>6, <2>8, <2>10, <2>11, <2>12 DEF Stream!StandsFor, text
  <2> QED BY <2>3, <2>4, <2>8, <2>13
<1> QED BY <1>7, <1>8

-----------------------------------------------------------------------------
(* The buffer and the stream, position by position *)

\* The buffer has room for a byte.
LEMMA RoomIs == Room \in Nat /\ Room >= 1
BY LineAssumption DEF Room

\* A sequence that agrees with another from a position on is a part of it.
LEMMA PartOf ==
    ASSUME NEW S, NEW s \in Seq(S), NEW t \in Seq(S), NEW m \in Nat, m + Len(t) <= Len(s),
           \A i \in 1..Len(t) : t[i] = s[m + i]
    PROVE  t = SubSeq(s, m + 1, m + Len(t))
<1> DEFINE a == SubSeq(s, m + 1, m + Len(t))
<1>1. Len(s) \in Nat /\ Len(t) \in Nat /\ \A k \in 1..Len(s) : s[k] \in S
  BY LenProperties, ElementOfSeq
<1>2. \A k \in m + 1 .. m + Len(t) : s[k] \in S BY <1>1
<1>3. /\ SubSeq(s, m + 1, m + Len(t)) \in Seq(S)
      /\ Len(SubSeq(s, m + 1, m + Len(t)))
           = IF m + 1 <= m + Len(t) THEN m + Len(t) - (m + 1) + 1 ELSE 0
      /\ \A k \in 1 .. m + Len(t) - (m + 1) + 1 : SubSeq(s, m + 1, m + Len(t))[k] = s[m + 1 + k - 1]
  <2>1. m + 1 \in Int /\ m + Len(t) \in Int BY <1>1
  <2> QED BY <1>2, <2>1, SubSeqProperties
<1>4. a = SubSeq(s, m + 1, m + Len(t)) OBVIOUS
<1> HIDE DEF a
<1>5. a \in Seq(S) /\ Len(a) = Len(t) BY <1>1, <1>3, <1>4
<1>6. ASSUME NEW k \in 1..Len(t) PROVE a[k] = t[k]
  <2>1. k \in 1 .. m + Len(t) - (m + 1) + 1 /\ m + 1 + k - 1 = m + k BY <1>1
  <2> QED BY <1>3, <1>4, <2>1
<1>7. a = t BY <1>5, <1>6, SeqEqual
<1> QED BY <1>4, <1>7

\* Two parts one after the other are one part.
LEMMA Extended ==
    ASSUME NEW S, NEW s \in Seq(S), NEW t \in Seq(S), NEW m \in Nat, NEW w \in Nat,
           NEW q \in Nat, q = m + Len(t), q + w <= Len(s), \A i \in 1..Len(t) : t[i] = s[m + i]
    PROVE  /\ t \o SubSeq(s, q + 1, q + w) \in Seq(S)
           /\ Len(t \o SubSeq(s, q + 1, q + w)) = Len(t) + w
           /\ \A i \in 1 .. Len(t) + w :
                (t \o SubSeq(s, q + 1, q + w))[i] = s[m + i]
<1> DEFINE l == Len(t)
           a == SubSeq(s, q + 1, q + w)
<1>1. Len(s) \in Nat /\ l \in Nat /\ \A k \in 1..Len(s) : s[k] \in S
  BY LenProperties, ElementOfSeq
<1> HIDE DEF l
<1>2. q + w <= Len(s) /\ q = m + l /\ Len(t) = l BY DEF l
<1>3. \A k \in q + 1 .. q + w : s[k] \in S BY <1>1, <1>2
<1> DEFINE u == q + 1
           v == q + w
<1>4. a = SubSeq(s, u, v) /\ u = q + 1 /\ v = q + w OBVIOUS
<1>5. u \in Int /\ v \in Int /\ \A k \in u..v : s[k] \in S BY <1>1, <1>3
<1> HIDE DEF a, u, v
<1>6. /\ SubSeq(s, u, v) \in Seq(S) /\ Len(SubSeq(s, u, v)) = IF u <= v THEN v - u + 1 ELSE 0
      /\ \A k \in 1 .. v - u + 1 : SubSeq(s, u, v)[k] = s[u + k - 1]
  BY <1>5, SubSeqProperties
<1>7. a \in Seq(S) /\ Len(a) = w
  <2>1. (IF u <= v THEN v - u + 1 ELSE 0) = w BY <1>1, <1>2, <1>4
  <2> QED BY <1>4, <1>6, <2>1
<1>8. ASSUME NEW k \in 1..w PROVE a[k] = s[m + l + k]
  <2>1. k \in 1 .. v - u + 1 /\ u + k - 1 = m + l + k BY <1>1, <1>2, <1>4
  <2> QED BY <1>4, <1>6, <2>1
<1>9. /\ t \o a \in Seq(S) /\ Len(t \o a) = l + w
      /\ \A i \in 1 .. l + w : (t \o a)[i] = IF i <= l THEN t[i] ELSE a[i - l]
  BY <1>2, <1>7, ConcatProperties
<1>10. ASSUME NEW i \in 1 .. l + w PROVE (t \o a)[i] = s[m + i]
  <2>1. CASE i <= l
    <3>1. i \in 1..Len(t) BY <1>1, <1>2, <2>1
    <3> QED BY <1>9, <2>1, <3>1
  <2>2. CASE ~(i <= l)
    <3>1. i - l \in 1..w /\ m + l + (i - l) = m + i BY <1>1, <2>2
    <3> QED BY <1>8, <1>9, <2>2, <3>1
  <2> QED BY <2>1, <2>2
<1> QED BY <1>9, <1>10 DEF a, l

-----------------------------------------------------------------------------
(* The inductive invariant *)

\* The buffer holds what was received last, of the line that is being read.
Held ==
    pc \in {"peek", "take"} =>
      /\ Len(line) <= taken /\ Len(line) < Room
      /\ \A i \in 1..Len(line) : line[i] = wire[taken - Len(line) + i] /\ line[i] # "lf"

\* What is received next was seen, and ends with the line if not before.
Sought ==
    pc = "take" =>
      /\ want \in 1..Room /\ want <= Len(wire) - taken /\ want <= Room - Len(line)
      /\ \A i \in 1 .. want - 1 : wire[taken + i] # "lf"

\* Between two commands the buffer holds the last one.
Finished == pc = "test" => line = << >> \/ Complete(line)

Inv == TypeOK /\ Held /\ Sought /\ Finished

\* What the arithmetic needs of the types.
Sizes == /\ Len(wire) \in Nat /\ taken \in Nat /\ taken <= Len(wire) /\ Len(line) \in Nat
         /\ Len(line) <= Room /\ want \in Nat

\* It follows from them.
LEMMA InvSizes == ASSUME TypeOK PROVE Sizes /\ wire \in Seq(Bytes) /\ line \in Seq(Bytes)
<1>1. wire \in Seq(Bytes) /\ line \in Seq(Bytes) /\ taken \in 0..Len(wire) /\ want \in 0..Room
      /\ Len(line) <= Room
  BY DEF TypeOK
<1>2. Len(wire) \in Nat /\ Len(line) \in Nat BY <1>1, LenProperties
<1> QED BY ONLY <1>1, <1>2, RoomIs DEF Sizes

\* The bytes that are asked for: up to the first line feed seen, if there is one.
LEMMA AskedIs ==
    ASSUME NEW n \in Nat, n >= 1
    PROVE  Asked(n) \in 1..n /\ \A i \in 1 .. Asked(n) - 1 : wire[taken + i] # "lf"
<1> DEFINE feeds == {i \in 1 .. n : wire[taken + i] = "lf"}
           first == CHOOSE i \in feeds : \A j \in feeds : i <= j
<1>1. Asked(n) = IF feeds = {} THEN n ELSE first BY DEF Asked
<1>2. feeds \in SUBSET Nat /\ feeds \in SUBSET (1..n)
      /\ \A i \in 1..n : i \in feeds <=> wire[taken + i] = "lf"
  OBVIOUS
<1> HIDE DEF feeds
<1>3. CASE feeds = {}
  <2>1. Asked(n) = n BY <1>1, <1>3
  <2>2. \A i \in 1 .. n - 1 : i \in 1..n OBVIOUS
  <2> QED BY <1>2, <1>3, <2>1, <2>2
<1>4. CASE feeds # {}
  <2>1. \E i \in feeds : \A j \in feeds : i <= j BY <1>2, <1>4, Least
  <2>2. first \in feeds /\ \A j \in feeds : first <= j BY <2>1
  <2> HIDE DEF first
  <2>3. first \in 1..n /\ Asked(n) = first BY <1>1, <1>2, <1>4, <2>2
  <2>4. ASSUME NEW i \in 1 .. first - 1 PROVE wire[taken + i] # "lf"
    <3>1. i \in 1..n /\ ~(first <= i) BY <2>3
    <3> QED BY <1>2, <2>2, <3>1
  <2> QED BY <2>3, <2>4
<1> QED BY <1>3, <1>4

-----------------------------------------------------------------------------
(* Each step, for the invariant and for what LineStream sees of it *)

\* What LineStream takes for cut.
CutAt == taken - (IF line # << >> /\ Complete(line) THEN 0 ELSE Len(line))

\* While a line is read, what is in the buffer is not cut yet.
LEMMA CutWhenOpen ==
    ASSUME Inv, pc \in {"peek", "take"}
    PROVE  CutAt = taken - Len(line)
<1>1. Sizes /\ line \in Seq(Bytes) BY InvSizes DEF Inv
<1>2. line # << >> => ~Complete(line)
  <2> SUFFICES ASSUME line # << >> PROVE ~Complete(line) OBVIOUS
  <2>1. Len(line) \in Nat /\ Len(line) # 0 BY <1>1, EmptySeq DEF Sizes
  <2>2. Len(line) \in 1..Len(line) BY <2>1
  <2>3. line[Len(line)] # "lf" /\ Len(line) < Room BY <2>2 DEF Inv, Held
  <2> QED BY <1>1, <2>3, RoomIs DEF Complete, Last, Sizes
<1> QED BY <1>2 DEF CutAt

\* Before the next line all that was received is cut.
LEMMA CutWhenTest ==
    ASSUME Inv, pc = "test"
    PROVE  CutAt = taken
<1>1. Sizes BY InvSizes DEF Inv
<1>2. line = << >> => Len(line) = 0 OBVIOUS
<1>3. line = << >> \/ Complete(line) BY DEF Inv, Finished
<1> QED BY <1>1, <1>2, <1>3 DEF CutAt, Sizes

\* Nothing was received.
LEMMA InvStarts == Init => Inv /\ CutAt = 0
<1> SUFFICES ASSUME Init PROVE Inv /\ CutAt = 0 OBVIOUS
<1>1. /\ wire = << >> /\ line = << >> /\ taken = 0 /\ want = 0 /\ pc = "test"
      /\ conn = "open" /\ quit = FALSE /\ last = [verb |-> << >>, args |-> << >>]
  BY DEF Init, Nothing
<1>2. Len(line) = 0 /\ line \in Seq(Bytes) /\ wire \in Seq(Bytes) BY <1>1, EmptySeq
<1>3. TypeOK
  <2>1. Len(wire) = 0 BY <1>1, EmptySeq
  <2>2. taken \in 0 .. Len(wire) /\ want \in 0 .. Room /\ Len(line) <= Room
    BY <1>1, <1>2, <2>1, RoomIs
  <2>3. last.verb = << >> /\ last.args = << >> BY <1>1, Zenon
  <2>4. last.verb \in Seq(Bytes) /\ last.args \in Seq(Bytes) BY <2>3, EmptySeq
  <2>5. conn \in {"open", "closed", "reset", "aborted"} /\ quit \in BOOLEAN
        /\ pc \in {"test", "peek", "take", "ended"}
    BY <1>1
  <2> QED BY <1>2, <2>2, <2>4, <2>5 DEF TypeOK
<1>4. Held /\ Sought /\ Finished BY <1>1 DEF Held, Sought, Finished
<1>5. CutAt = 0
  <2>1. CutAt = taken - Len(line) BY <1>1 DEF CutAt
  <2> QED BY <1>1, <1>2, <2>1
<1> QED BY <1>3, <1>4, <1>5 DEF Inv

\* A byte arrives behind those that are read.
LEMMA ArriveStep ==
    ASSUME Inv, NEW b \in Bytes, Arrive(b)
    PROVE  Inv' /\ CutAt' = CutAt /\ UNCHANGED last
<1>1. wire' = Append(wire, b) /\ UNCHANGED <<conn, quit, pc, taken, line, want, last>>
  BY DEF Arrive, reader
<1>2. Sizes /\ wire \in Seq(Bytes) /\ line \in Seq(Bytes) BY InvSizes DEF Inv
<1>3. /\ wire' \in Seq(Bytes) /\ Len(wire') = Len(wire) + 1
      /\ \A i \in 1..Len(wire) : wire'[i] = wire[i]
  BY <1>1, <1>2, AppendProperties
<1>4. TypeOK' BY <1>1, <1>2, <1>3 DEF Inv, TypeOK, Sizes
<1>5. Held'
  <2> SUFFICES ASSUME pc \in {"peek", "take"}, NEW i \in 1..Len(line)
               PROVE  wire'[taken - Len(line) + i] = wire[taken - Len(line) + i]
    BY <1>1 DEF Inv, Held
  <2>1. Len(line) <= taken BY DEF Inv, Held
  <2>2. taken - Len(line) + i \in 1..Len(wire) BY <1>2, <2>1 DEF Sizes
  <2> QED BY <1>3, <2>2
<1>6. Sought'
  <2> SUFFICES ASSUME pc = "take"
               PROVE  /\ want <= Len(wire') - taken
                      /\ \A i \in 1 .. want - 1 : wire'[taken + i] = wire[taken + i]
    BY <1>1 DEF Inv, Sought
  <2>1. want <= Len(wire) - taken BY DEF Inv, Sought
  <2>2. \A i \in 1 .. want - 1 : taken + i \in 1..Len(wire) BY <1>2, <2>1 DEF Sizes
  <2> QED BY <1>2, <1>3, <2>1, <2>2 DEF Sizes
<1>7. Finished' BY <1>1 DEF Inv, Finished, Complete
<1>8. CutAt' = CutAt BY <1>1 DEF CutAt, Complete
<1> QED BY <1>1, <1>4, <1>5, <1>6, <1>7, <1>8 DEF Inv

\* Before a command the buffer is emptied.
LEMMA TestStep ==
    ASSUME Inv, Test
    PROVE  Inv' /\ CutAt' = CutAt /\ UNCHANGED <<wire, last>>
<1>1. /\ pc = "test" /\ pc' \in {"ended", "peek"} /\ line' = << >>
      /\ UNCHANGED <<wire, conn, quit, taken, want, last>>
  BY DEF Test, Goto, Tested
<1>2. Sizes /\ CutAt = taken BY <1>1, InvSizes, CutWhenTest DEF Inv
<1>3. Len(line') = 0 /\ line' \in Seq(Bytes) BY <1>1
<1>4. TypeOK' BY <1>1, <1>3, RoomIs DEF Inv, TypeOK
<1>5. Held' /\ Sought' /\ Finished' BY <1>1, <1>2, <1>3, RoomIs DEF Held, Sought, Finished, Sizes
<1>6. CutAt' = taken BY <1>1, <1>2, <1>3 DEF CutAt, Sizes
<1> QED BY <1>1, <1>2, <1>4, <1>5, <1>6 DEF Inv

\* Some of the bytes are seen.
LEMMA PeekStep ==
    ASSUME Inv, Peek
    PROVE  Inv' /\ CutAt' = CutAt /\ UNCHANGED <<wire, last>>
<1>1. /\ pc = "peek" /\ pc' = "take" /\ UNCHANGED <<wire, conn, quit, taken, line, last>>
  BY DEF Peek, Goto
<1>2. PICK n \in 1 .. Min2(Buffered, Fill) : want' = Asked(n) BY DEF Peek
<1>3. Sizes /\ Len(line) < Room BY <1>1, InvSizes DEF Inv, Held
<1>4. n \in Nat /\ n >= 1 /\ n <= Len(wire) - taken /\ n <= Room - Len(line)
  BY <1>2, <1>3, RoomIs DEF Min2, Buffered, Fill, Sizes
<1>5. want' \in 1..n /\ \A i \in 1 .. want' - 1 : wire[taken + i] # "lf"
  BY <1>2, <1>4, AskedIs
<1>6. want' \in 1..Room /\ want' <= Len(wire) - taken /\ want' <= Room - Len(line)
  BY <1>3, <1>4, <1>5, RoomIs DEF Sizes
<1>7. TypeOK' BY <1>1, <1>6, RoomIs DEF Inv, TypeOK
<1>8. Held' BY <1>1 DEF Inv, Held
<1>9. Sought' BY <1>1, <1>5, <1>6 DEF Sought
<1>10. Finished' /\ CutAt' = CutAt BY <1>1 DEF Finished, CutAt, Complete
<1> QED BY <1>1, <1>7, <1>8, <1>9, <1>10 DEF Inv

\* The bytes asked for are received: a command, or a part of one.
LEMMA TakeStep ==
    ASSUME Inv, Take
    PROVE  Inv' /\ (Stream!Command \/ (CutAt' = CutAt /\ UNCHANGED <<wire, last>>))
<1>1. /\ pc = "take" /\ taken' = taken + want /\ want' = 0 /\ line' = Got
      /\ UNCHANGED <<wire, conn, quit>>
      /\ IF Complete(Got) THEN last' = Parse(Got) /\ pc' \in {"ended", "test"}
                          ELSE pc' = "peek" /\ UNCHANGED last
  BY DEF Take, Goto, After
<1>2. /\ Sizes /\ wire \in Seq(Bytes) /\ line \in Seq(Bytes) /\ CutAt = taken - Len(line)
      /\ Len(line) <= taken
  BY <1>1, InvSizes, CutWhenOpen DEF Inv, Held
<1>3. /\ want \in Nat /\ want >= 1 /\ want <= Len(wire) - taken /\ want <= Room - Len(line)
      /\ \A i \in 1 .. want - 1 : wire[taken + i] # "lf"
  BY <1>1, <1>2 DEF Inv, Sought, Sizes
<1> DEFINE m == taken - Len(line)
<1>4. m \in Nat /\ taken = m + Len(line) /\ taken + want <= Len(wire) /\ taken \in Nat
      /\ Len(line) \in Nat /\ Len(wire) \in Nat /\ m = CutAt
  BY <1>2, <1>3 DEF Sizes
<1>5. \A i \in 1..Len(line) : line[i] = wire[m + i] /\ line[i] # "lf"
  BY <1>1 DEF Inv, Held
<1> HIDE DEF m
<1>6. /\ Got \in Seq(Bytes) /\ Len(Got) = Len(line) + want
      /\ \A i \in 1 .. Len(line) + want : Got[i] = wire[m + i]
  BY <1>2, <1>3, <1>4, <1>5, Extended DEF Got
<1> DEFINE g == Got
<1>7. /\ g \in Seq(Bytes) /\ Len(g) \in Nat /\ Len(g) >= 1 /\ Len(g) <= Room
      /\ m + Len(g) = taken + want /\ Len(g) \in 1..Len(g)
      /\ \A i \in 1..Len(g) : g[i] = wire[m + i]
  BY <1>2, <1>3, <1>4, <1>6, RoomIs DEF Sizes
<1>8. ASSUME NEW i \in 1 .. Len(g) - 1 PROVE g[i] # "lf"
  <2>1. CASE i <= Len(line)
    <3>1. i \in 1..Len(line) /\ i \in 1..Len(g) BY <1>4, <1>7, <2>1
    <3> QED BY <1>5, <1>7, <3>1
  <2>2. CASE ~(i <= Len(line))
    <3>1. i - Len(line) \in 1 .. want - 1 /\ taken + (i - Len(line)) = m + i /\ i \in 1..Len(g)
      BY <1>3, <1>4, <1>6, <1>7, <2>2
    <3> QED BY <1>3, <1>7, <3>1
  <2> QED BY <2>1, <2>2
<1>9. line' = g BY <1>1
<1> HIDE DEF g
<1>10. g # << >> BY <1>7, EmptySeq
<1>11. last'.verb \in Seq(Bytes) /\ last'.args \in Seq(Bytes)
  BY <1>1, <1>6, ParseIs DEF Inv, TypeOK
<1>12. TypeOK'
  <2>1. taken' \in 0..Len(wire') /\ want' \in 0..Room BY <1>1, <1>3, <1>4, RoomIs
  <2>2. line' \in Seq(Bytes) /\ Len(line') <= Room BY <1>7, <1>9
  <2>3. /\ wire' \in Seq(Bytes) /\ conn' \in {"open", "closed", "reset", "aborted"}
        /\ quit' \in BOOLEAN /\ pc' \in {"test", "peek", "take", "ended"}
    BY <1>1 DEF Inv, TypeOK
  <2> QED BY <1>11, <2>1, <2>2, <2>3 DEF TypeOK
<1>13. CASE Complete(g)
  <2>1. last' = Parse(g) /\ pc' \in {"ended", "test"} BY <1>1, <1>13 DEF g
  <2>2. Held' /\ Sought' BY <2>1 DEF Held, Sought
  <2>3. Complete(line') BY <1>9, <1>13
  <2>4. Finished' BY <2>3 DEF Finished, Complete
  <2>5. CutAt' = taken + want
    <3>1. line' # << >> /\ Complete(line') BY <1>9, <1>10, <2>3
    <3>2. CutAt' = taken' - 0 BY <3>1 DEF CutAt, Complete
    <3> QED BY <1>1, <1>3, <1>4, <3>2
  <2>6. g = SubSeq(wire, m + 1, taken + want)
    <3>1. g = SubSeq(wire, m + 1, m + Len(g)) BY <1>2, <1>4, <1>7, PartOf
    <3> QED BY <1>7, <3>1
  <2>7. Stream!IsPiece(g) BY <1>7, <1>8, <1>10, <1>13 DEF Stream!IsPiece, Complete, Stream!Last, Last
  <2>8. Stream!StandsFor(last', g) BY <1>7, <2>1, ParseIs
  <2>9. taken + want \in CutAt + 1 .. Len(wire) BY <1>3, <1>4, <1>7
  <2>10. Stream!Command
    BY Zenon, <1>1, <1>4, <2>5, <2>6, <2>7, <2>8, <2>9 DEF Stream!Command, CutAt
  <2> QED BY <1>12, <2>2, <2>4, <2>10 DEF Inv
<1>14. CASE ~Complete(g)
  <2>1. pc' = "peek" /\ UNCHANGED last BY <1>1, <1>14 DEF g
  <2>2. Len(g) < Room /\ g[Len(g)] # "lf" BY <1>7, <1>14, RoomIs DEF Complete, Last
  <2>3. ASSUME NEW i \in 1..Len(g) PROVE g[i] # "lf"
    <3>1. i \in 1 .. Len(g) - 1 \/ i = Len(g) BY <1>7
    <3> QED BY <1>8, <2>2, <3>1
  <2>4. m = taken' - Len(g) /\ Len(g) <= taken' BY <1>1, <1>3, <1>4, <1>7
  <2>5. Held' BY <1>1, <1>7, <1>9, <2>2, <2>3, <2>4 DEF Held
  <2>6. Sought' /\ Finished' BY <2>1 DEF Sought, Finished
  <2>7. Inv' BY <1>12, <2>5, <2>6 DEF Inv
  <2>8. ~Complete(line') BY <1>9, <1>14
  <2>9. CutAt' = taken' - Len(line') BY <2>8 DEF CutAt, Complete
  <2> QED BY <1>1, <1>4, <1>9, <2>1, <2>4, <2>7, <2>9
<1> QED BY <1>13, <1>14

\* What ends the thread or only concerns the connection changes nothing of this.
LEMMA OtherStep ==
    ASSUME Inv, \/ PeekFails \/ TakeFails \/ Retry \/ Stop \/ UNCHANGED vars
                \/ \E how \in {"closed", "reset", "aborted"} : Disconnect(how)
    PROVE  Inv' /\ CutAt' = CutAt /\ UNCHANGED <<wire, last>>
<1>1. /\ UNCHANGED <<wire, taken, line, want, last>> /\ pc' \in {pc, "ended"}
      /\ quit' \in {quit, TRUE} /\ conn' \in {conn, "closed", "reset", "aborted"}
  BY DEF PeekFails, TakeFails, Retry, Stop, Disconnect, vars, reader, Goto
<1>2. TypeOK' BY <1>1 DEF Inv, TypeOK
<1>3. Held' /\ Sought' BY <1>1 DEF Inv, Held, Sought
<1>4. Finished' /\ CutAt' = CutAt BY <1>1 DEF Inv, Finished, CutAt, Complete
<1> QED BY <1>1, <1>2, <1>3, <1>4 DEF Inv

\* Every step, together.
LEMMA ReaderStep ==
    ASSUME Inv, [Next]_vars
    PROVE  Inv' /\ (Stream!Next \/ (CutAt' = CutAt /\ UNCHANGED <<wire, last>>))
<1>1. ASSUME NEW b \in Bytes, Arrive(b) PROVE Inv' /\ Stream!Next
  <2>1. Inv' /\ CutAt' = CutAt /\ UNCHANGED last BY <1>1, ArriveStep
  <2>2. Stream!Bytes = Bytes BY DEF Stream!Bytes, Bytes
  <2>3. wire' = Append(wire, b) BY <1>1 DEF Arrive
  <2>4. Stream!Arrive BY Zenon, <2>1, <2>2, <2>3 DEF Stream!Arrive, CutAt
  <2> QED BY <2>1, <2>4 DEF Stream!Next
<1>2. CASE Take BY <1>2, TakeStep DEF Stream!Next
<1>3. CASE Test BY <1>3, TestStep
<1>4. CASE Peek BY <1>4, PeekStep
<1>5. CASE \/ PeekFails \/ TakeFails \/ Retry \/ Stop \/ UNCHANGED vars
           \/ \E how \in {"closed", "reset", "aborted"} : Disconnect(how)
  BY <1>5, OtherStep
<1> QED BY <1>1, <1>2, <1>3, <1>4, <1>5 DEF Next, Thread

-----------------------------------------------------------------------------
(* Theorems *)

\* Between two calls of recv the buffer holds what was received last, without a
\* line feed and with room for a byte, and readn is asked for bytes that were
\* seen (readline): for every size of the buffer and every client.
THEOREM ReadingIsSafe == Spec => []Reading
<1>1. ASSUME Inv PROVE Reading
  <2>1. Sizes /\ wire \in Seq(Bytes) /\ line \in Seq(Bytes) BY <1>1, InvSizes DEF Inv
  <2>2. ASSUME pc \in {"peek", "take"} PROVE line = SubSeq(wire, taken - Len(line) + 1, taken)
    <3>1. Len(line) <= taken /\ \A i \in 1..Len(line) : line[i] = wire[taken - Len(line) + i]
      BY <1>1, <2>2 DEF Inv, Held
    <3> DEFINE m == taken - Len(line)
    <3>2. m \in Nat /\ m + Len(line) = taken /\ m + Len(line) <= Len(wire) BY <2>1, <3>1 DEF Sizes
    <3>3. \A i \in 1..Len(line) : line[i] = wire[m + i] BY <3>1
    <3>4. m + 1 = taken - Len(line) + 1 OBVIOUS
    <3> HIDE DEF m
    <3>5. line = SubSeq(wire, m + 1, m + Len(line)) BY <2>1, <3>2, <3>3, PartOf
    <3> QED BY <3>2, <3>4, <3>5
  <2>3. pc = "take" => want \in 1 .. Min2(Buffered, Room - Len(line))
    BY <1>1, <2>1, RoomIs DEF Inv, Sought, Min2, Buffered, Sizes
  <2> QED BY <1>1, <2>2, <2>3 DEF Inv, Held, Sought, Reading
<1>2. Init => Inv BY InvStarts
<1>3. Inv /\ [Next]_vars => Inv' BY ReaderStep
<1> QED BY <1>1, <1>2, <1>3, PTL DEF Spec

\* The reader implements the stream: however the bytes arrive and wherever recv
\* cuts them, the commands are the pieces of what the client sent, trimmed,
\* split and in upper case (readline, handle_proto, str_trim_crlf, str_split).
THEOREM ReaderImplementsStream == Spec => ImplementsStream
<1> DEFINE same == <<wire, taken - (IF line # << >> /\ Complete(line) THEN 0 ELSE Len(line)), last>>
<1>1. ASSUME Init PROVE Inv /\ Stream!Init
  <2>1. Inv /\ CutAt = 0 /\ wire = << >> /\ last = Nothing BY <1>1, InvStarts DEF Init
  <2>2. Stream!Nothing = Nothing BY DEF Stream!Nothing, Nothing
  <2> QED BY Zenon, <2>1, <2>2 DEF Stream!Init, CutAt
<1>2. ASSUME Inv, [Next]_vars PROVE Inv' /\ [Stream!Next]_same
  <2>1. Inv' /\ (Stream!Next \/ (CutAt' = CutAt /\ UNCHANGED <<wire, last>>)) BY <1>2, ReaderStep
  <2>2. CutAt' = CutAt /\ UNCHANGED <<wire, last>> => UNCHANGED same BY Zenon DEF CutAt
  <2> QED BY Zenon, <2>1, <2>2
<1>3. Spec => Stream!Init /\ [][Stream!Next]_same BY <1>1, <1>2, PTL DEF Spec
<1> QED BY <1>3 DEF ImplementsStream, Stream!Spec
=============================================================================
