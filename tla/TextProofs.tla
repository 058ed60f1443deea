------------------------------ MODULE TextProofs ------------------------------
(***************************************************************************)
(* The configuration, for every file of any length: what is given to free  *)
(* of the blocks of the listening address, and that every setting is what  *)
(* the file says.  Addresses as text, for all bytes, words, texts and      *)
(* buffers: what is printed, what is read, and that the two correspond.    *)
(* What the conversions of numbers compute, digit by digit, is an          *)
(* induction: a set of numbers has a least one (Least), so that no number  *)
(* is the first to be missing in a set (Ladder), nor the first length a    *)
(* recursive function does not have (Recursion).                           *)
(***************************************************************************)
EXTENDS Config, InetText, WellFoundedInduction, SequenceTheorems, FiniteSetTheorems, TLAPS

addr == tunable_listen_address

\* The block of the address is the only one that is not yet free, and it is not.
Owned == addr.text # NONE => addr.block \notin Range(freed)
Kept  == strdups \subseteq Range(freed) \cup (IF addr.text = NONE THEN {} ELSE {addr.block})

\* Blocks are named by the lines that were read.
Blocks ==
    /\ file \in Seq(Lines) /\ next \in Nat \ {0} /\ freed \in Seq(Nat)
    /\ strdups \subseteq 1 .. next - 1 /\ addr.block \in strdups \cup {0}

Inv ==
    /\ Blocks /\ IsInjective(freed) /\ Range(freed) \subseteq strdups \cup {0}
    /\ at \in {"start", "loading", "loaded", "running"} => Owned /\ Kept
    /\ at = "ended" => strdups \subseteq Range(freed)
    /\ at \in {"start", "loading", "loaded", "running", "ended", "stopped"}

\* What one more call of free does to the list of what was freed.
LEMMA Appended ==
    ASSUME NEW q \in Seq(Nat), NEW b \in Nat
    PROVE  /\ Append(q, b) \in Seq(Nat) /\ Range(Append(q, b)) = Range(q) \cup {b}
           /\ IsInjective(q) /\ b \notin Range(q) => IsInjective(Append(q, b))
<1> DEFINE r == Append(q, b)
<1>1. /\ r \in Seq(Nat) /\ DOMAIN r = 1 .. Len(q) + 1 /\ DOMAIN q = 1..Len(q)
      /\ Len(q) \in Nat /\ r[Len(q) + 1] = b /\ \A i \in 1..Len(q) : r[i] = q[i]
  OBVIOUS
<1> HIDE DEF r
<1>2. Range(r) = Range(q) \cup {b} BY <1>1 DEF Range
<1>3. IsInjective(q) /\ b \notin Range(q) => IsInjective(r)
  <2> SUFFICES ASSUME IsInjective(q), b \notin Range(q),
                      NEW i \in DOMAIN r, NEW j \in DOMAIN r, r[i] = r[j]
               PROVE  i = j
    BY DEF IsInjective
  <2>1. \A k \in DOMAIN q : r[k] # b BY <1>1 DEF Range
  <2>2. CASE i \in DOMAIN q /\ j \in DOMAIN q
    <3>1. q[i] = q[j] BY <1>1, <2>2
    <3> QED  BY <2>2, <3>1 DEF IsInjective
  <2>3. CASE i = Len(q) + 1 /\ j \in DOMAIN q BY <1>1, <2>1, <2>3
  <2>4. CASE i \in DOMAIN q /\ j = Len(q) + 1 BY <1>1, <2>1, <2>4
  <2>5. i \in DOMAIN q \/ i = Len(q) + 1 BY <1>1
  <2>6. j \in DOMAIN q \/ j = Len(q) + 1 BY <1>1
  <2> QED  BY <2>2, <2>3, <2>4, <2>5, <2>6
<1> QED  BY <1>1, <1>2, <1>3 DEF r

\* The literal is the block at the start.
LEMMA Starts == Init => Inv
<1> SUFFICES ASSUME Init PROVE Inv OBVIOUS
<1>1. file \in Seq(Lines)
  <2>1. PICK n \in 0..MaxLines : file \in [1..n -> Lines] BY DEF Init
  <2>2. n \in Nat
    <3>1. MaxLines \in Nat BY ConfigAssumption
    <3> QED BY <3>1
  <2> QED BY ONLY <2>1, <2>2
<1>2. Range(freed) = {} /\ IsInjective(freed) BY DEF Init, Range, IsInjective
<1>3. addr.block = 0 /\ strdups = {} /\ at = "start" BY DEF Init, literal, addr
<1>4. freed \in Seq(Nat) /\ next = 1 BY DEF Init
<1> QED  BY <1>1, <1>2, <1>3, <1>4 DEF Inv, Blocks, Owned, Kept

\* Freeing the address: then nothing that was allocated is left.
LEMMA Frees ==
    ASSUME Inv, NEW onward, Free(addr, onward),
           at \in {"start", "loading", "loaded", "running"}
    PROVE  /\ freed' \in Seq(Nat) /\ IsInjective(freed') /\ strdups \subseteq Range(freed')
           /\ Range(freed') \subseteq strdups \cup {0} /\ at' \in {onward, "stopped"}
<1> USE DEF Inv, Blocks, Owned, Kept
<1>1. CASE addr.text = NONE BY <1>1 DEF Free
<1>2. CASE addr.text # NONE
  <2>1. addr.block \in Nat /\ addr.block \notin Range(freed)
    <3>1. /\ addr.block \in strdups \cup {0} /\ strdups \subseteq 1 .. next - 1
          /\ next \in Nat /\ Owned
      OBVIOUS
    <3>2. addr.block \in Nat
      <4>1. 1 .. next - 1 \subseteq Nat BY ONLY <3>1
      <4>2. strdups \cup {0} \subseteq Nat BY ONLY <3>1, <4>1
      <4> QED  BY ONLY <3>1, <4>2
    <3>3. addr.block \notin Range(freed) BY ONLY <1>2, <3>1 DEF Owned
    <3> QED  BY <3>2, <3>3
  <2>2. freed' = Append(freed, addr.block) BY <1>2 DEF Free
  <2>3. Range(freed') = Range(freed) \cup {addr.block} /\ freed' \in Seq(Nat) /\ IsInjective(freed')
    <3>1. freed \in Seq(Nat) /\ IsInjective(freed) OBVIOUS
    <3> QED  BY ONLY <2>1, <2>2, <3>1, Appended
  <2> QED  BY <1>2, <2>3 DEF Free
<1> QED  BY <1>1, <1>2

\* The block of a line is new: no earlier line named it.
LEMMA LoadStrKeeps == ASSUME Inv, LoadStr PROVE Inv'
<1>1. /\ at = "loading" /\ next <= Len(file) /\ next' = next + 1 /\ file' = file
      /\ Free(addr, "loading")
  BY DEF LoadStr, Read, addr
<1>2. /\ freed' \in Seq(Nat) /\ IsInjective(freed') /\ strdups \subseteq Range(freed')
      /\ Range(freed') \subseteq strdups \cup {0} /\ at' \in {"loading", "stopped"}
  BY <1>1, Frees
<1>3. file \in Seq(Lines) /\ next \in Nat \ {0} /\ strdups \subseteq 1 .. next - 1
  BY DEF Inv, Blocks
<1>4. CASE addr' = Strdup /\ strdups' = strdups \cup {next}
  <2>1. addr'.block = next BY <1>4 DEF Strdup
  <2>2. next \notin strdups /\ next # 0 BY <1>3
  <2>3. next \notin Range(freed') BY <1>2, <2>2
  <2>4. addr'.text # NONE
    <3>1. line \in Lines BY <1>1, <1>3 DEF line
    <3> QED  BY <1>4, <3>1, ConfigAssumption DEF Strdup
  <2>5. strdups' \subseteq 1 .. next' - 1 BY <1>1, <1>3, <1>4
  <2> QED  BY <1>1, <1>2, <1>3, <1>4, <2>1, <2>3, <2>4, <2>5 DEF Inv, Blocks, Owned, Kept
<1>5. CASE addr' = [text |-> NONE, block |-> 0] /\ strdups' = strdups
  <2>1. addr'.text = NONE /\ addr'.block = 0 BY <1>5
  <2>2. strdups' \subseteq 1 .. next' - 1 BY <1>1, <1>3, <1>5
  <2> QED  BY <1>1, <1>2, <1>3, <1>5, <2>1, <2>2 DEF Inv, Blocks, Owned, Kept
<1> QED  BY <1>4, <1>5 DEF LoadStr, addr, Strdup

\* Only LoadStr and free_config touch blocks.
LEMMA Keeps == ASSUME Inv, [Next]_vars PROVE Inv'
<1>1. CASE LoadStr BY <1>1, LoadStrKeeps
<1>2. CASE free_config
  <2>1. /\ at = "running" /\ Free(addr, "ended") /\ UNCHANGED <<file, next, addr, strdups>>
    BY <1>2 DEF free_config, FreedAtEnd, addr
  <2>2. /\ freed' \in Seq(Nat) /\ IsInjective(freed') /\ strdups \subseteq Range(freed')
        /\ Range(freed') \subseteq strdups \cup {0} /\ at' \in {"ended", "stopped"}
    BY <2>1, Frees
  <2> QED  BY <2>1, <2>2 DEF Inv, Blocks
<1>3. CASE LoadNothing \/ LoadBool \/ LoadUint
  <2>1. at = "loading" /\ next' = next + 1 /\ UNCHANGED <<at, file, addr, strdups, freed>>
    BY <1>3 DEF LoadNothing, LoadBool, LoadUint, Read, addr
  <2>2. strdups' \subseteq 1 .. next' - 1 /\ next' \in Nat \ {0} BY <2>1 DEF Inv, Blocks
  <2> QED  BY <2>1, <2>2 DEF Inv, Blocks, Owned, Kept
<1>4. CASE OpenFile \/ Loaded \/ tcp_server \/ UNCHANGED vars
  <2>1. UNCHANGED <<file, next, addr, strdups, freed>>
    BY <1>4 DEF OpenFile, Loaded, tcp_server, vars, addr
  <2>2. \/ at' = at
        \/ /\ at \in {"start", "loading", "loaded", "running"}
           /\ at' \in {"start", "loading", "loaded", "running"}
    BY <1>4 DEF OpenFile, Loaded, tcp_server, vars
  <2> QED  BY <2>1, <2>2 DEF Inv, Blocks, Owned, Kept
<1> QED  BY <1>1, <1>2, <1>3, <1>4 DEF Next

\* Whatever the file says and whenever strdup fails, no block is given to free
\* twice, none is left at the end, and only the literal default is freed without
\* having been allocated (load_config, free_config).
THEOREM EveryBlockFreedOnce == Spec => []FreedOnce
<1>1. Inv => FreedOnce BY DEF Inv, FreedOnce, literal
<1> QED  BY <1>1, Starts, Keeps, PTL DEF Spec

-----------------------------------------------------------------------------
(* Induction *)

\* Of natural numbers one is the least.
LEMMA Least ==
    ASSUME NEW S \in SUBSET Nat, S # {}
    PROVE  \E x \in S : \A y \in S : x <= y
<1>1. PICK x \in S : \A y \in S : ~(<<y, x>> \in OpToRel(<, Nat))
  BY NatLessThanWellFounded, WFMin
<1>2. ASSUME NEW y \in S PROVE x <= y
  <2>1. ~(y < x) BY <1>1 DEF OpToRel
  <2> QED BY <2>1
<1> QED BY <1>2

\* A function on the first numbers is given by its first value and by what follows
\* a value: were there a first length without one, the one before could be made
\* longer.
Makers(n, V) == [1..n -> [V -> V]]
Follows(f, n, V, x, G) == f \in [0..n -> V] /\ f[0] = x /\ \A i \in 1..n : f[i] = G[i][f[i - 1]]

\* Such a function exists for every length.
LEMMA Recursion ==
    ASSUME NEW V, NEW n \in Nat, NEW x \in V, NEW G \in Makers(n, V)
    PROVE  \E f : Follows(f, n, V, x, G)
<1> DEFINE Made(m, f) == f[0] = x /\ \A i \in 1..m : f[i] = G[i][f[i - 1]]
           S == {m \in 0..n : ~\E f \in [0..m -> V] : Made(m, f)}
<1>0. G \in [1..n -> [V -> V]] BY DEF Makers
<1> SUFFICES ASSUME S # {} PROVE FALSE
  <2>1. n \in 0..n BY SMT
  <2>2. \E f \in [0..n -> V] : Made(n, f) BY <2>1
  <2> QED BY <2>2 DEF Follows
<1>1. PICK m \in S : \A k \in S : m <= k
  <2>1. S \in SUBSET Nat OBVIOUS
  <2> HIDE DEF S
  <2> QED BY <2>1, Least
<1>2. m \in 0..n OBVIOUS
<1>3. m # 0
  <2>1. [i \in 0..0 |-> x] \in [0..0 -> V] /\ Made(0, [i \in 0..0 |-> x]) OBVIOUS
  <2> QED BY <2>1
<1>4. m - 1 \in 0..n /\ m - 1 \notin S /\ m \in 1..n
  <2>1. m - 1 \in 0..n BY <1>2, <1>3
  <2>2. m \in Nat /\ ~(m <= m - 1) BY <1>2
  <2> HIDE DEF S
  <2> QED BY <1>1, <1>2, <1>3, <2>1, <2>2
<1>5. PICK f \in [0..m - 1 -> V] : Made(m - 1, f) BY <1>4
<1> DEFINE g == [i \in 0..m |-> IF i = m THEN G[m][f[m - 1]] ELSE f[i]]
<1>6. m - 1 \in 0..m - 1 /\ G[m][f[m - 1]] \in V
  <2>1. m - 1 \in 0..m - 1 BY <1>4
  <2>2. f[m - 1] \in V BY <2>1
  <2> QED BY <1>0, <1>4, <2>1, <2>2
<1>7. g \in [0..m -> V]
  <2>1. \A i \in 0..m : i # m => i \in 0..m - 1 BY <1>4
  <2> QED BY <1>6, <2>1
<1>8. Made(m, g)
  <2>1. g[0] = x
    <3>1. 0 \in 0..m /\ 0 # m BY <1>4
    <3> QED BY <1>5, <3>1
  <2>2. ASSUME NEW i \in 1..m PROVE g[i] = G[i][g[i - 1]]
    <3>1. i \in 0..m /\ i - 1 \in 0..m /\ i - 1 # m BY <1>4
    <3>2. g[i - 1] = f[i - 1] BY <3>1
    <3>3. CASE i = m BY <3>1, <3>2, <3>3
    <3>4. CASE i # m
      <4>1. i \in 1..m - 1 BY <1>4, <3>4
      <4>2. f[i] = G[i][f[i - 1]] BY <1>5, <4>1
      <4> QED BY <3>1, <3>2, <3>4, <4>2
    <3> QED BY <3>3, <3>4
  <2> QED BY <2>1, <2>2
<1> QED BY <1>1, <1>7, <1>8

\* The same of a function to the numbers.
LEMMA NatRecursion ==
    ASSUME NEW n \in Nat, NEW x \in Nat, NEW G \in [1..n -> [Nat -> Nat]]
    PROVE  \E f \in [0..n -> Nat] : f[0] = x /\ \A i \in 1..n : f[i] = G[i][f[i - 1]]
<1>1. G \in Makers(n, Nat) BY DEF Makers
<1>2. \E f : Follows(f, n, Nat, x, G) BY <1>1, Recursion
<1> QED BY <1>2 DEF Follows

\* Induction over a range, as a fact about a set: no number is the first one missing.
LEMMA Ladder ==
    ASSUME NEW n \in Nat, NEW A, 0 \in A, \A i \in 1..n : i - 1 \in A => i \in A
    PROVE  \A i \in 0..n : i \in A
<1> DEFINE S == (0..n) \ A
<1> SUFFICES ASSUME S # {} PROVE FALSE OBVIOUS
<1>1. PICK m \in S : \A k \in S : m <= k
  <2>1. S \in SUBSET Nat OBVIOUS
  <2> HIDE DEF S
  <2> QED BY <2>1, Least
<1>2. m \in 1..n BY <1>1
<1>3. m - 1 \in 0..n /\ ~(m <= m - 1) BY <1>2
<1>4. m - 1 \in A BY <1>1, <1>3
<1> QED BY <1>1, <1>2, <1>4

-----------------------------------------------------------------------------
(* Numbers and their digits *)

\* What the conversion loop has after each digit.
LEMMA NumberIs ==
    ASSUME NEW d \in Seq(Nat), NEW base \in Nat
    PROVE  \E f \in [0..Len(d) -> Nat] :
             /\ f[0] = 0 /\ \A i \in 1..Len(d) : f[i] = base * f[i - 1] + d[i]
             /\ Number(d, base) = f[Len(d)]
<1> DEFINE n == Len(d)
           H(f) == f = [i \in 0..n |-> IF i = 0 THEN 0 ELSE base * f[i - 1] + d[i]]
           G == [i \in 1..n |-> [y \in Nat |-> base * y + d[i]]]
<1>1. n \in Nat /\ \A i \in 1..n : d[i] \in Nat BY ElementOfSeq
<1>2. G \in [1..n -> [Nat -> Nat]] BY <1>1
<1>3. \A i \in 1..n : \A y \in Nat : G[i][y] = base * y + d[i] BY <1>1
<1> HIDE DEF n, G
<1>4. PICK f \in [0..n -> Nat] : f[0] = 0 /\ \A i \in 1..n : f[i] = G[i][f[i - 1]]
  <2>1. n \in Nat /\ 0 \in Nat BY <1>1
  <2>2. \E f \in [0..n -> Nat] : f[0] = 0 /\ \A i \in 1..n : f[i] = G[i][f[i - 1]]
    BY ONLY <1>2, <2>1, NatRecursion
  <2> QED BY <2>2
<1>5. \A i \in 1..n : f[i] = base * f[i - 1] + d[i]
  <2>1. \A i \in 1..n : i - 1 \in 0..n BY <1>1
  <2> QED BY <1>3, <1>4, <2>1
<1>6. H(f)
  <2>1. \A i \in 0..n : i # 0 => i \in 1..n BY <1>1
  <2>2. \A i \in 0..n : f[i] = IF i = 0 THEN 0 ELSE base * f[i - 1] + d[i] BY <1>4, <1>5, <2>1
  <2> QED BY <2>2
<1>7. PICK c : H(c) /\ Number(d, base) = c[n]
  <2>1. Number(d, base) = (CHOOSE c : H(c))[n] BY DEF Number, n
  <2>2. H(CHOOSE c : H(c)) BY <1>6
  <2> QED BY <2>1, <2>2
<1>9. c = f
  <2>1. c = [i \in 0..n |-> c[i]] /\ f = [i \in 0..n |-> f[i]] BY <1>7
  <2>2. c[0] = 0 /\ \A i \in 1..n : c[i] = base * c[i - 1] + d[i]
    <3>1. \A i \in 0..n : c[i] = IF i = 0 THEN 0 ELSE base * c[i - 1] + d[i] BY <1>7
    <3>2. 0 \in 0..n /\ \A i \in 1..n : i \in 0..n /\ i # 0 BY <1>1
    <3> QED BY <3>1, <3>2
  <2>3. \A i \in 0..n : c[i] = f[i]
    <3> DEFINE A == {i \in 0..n : c[i] = f[i]}
    <3>1. 0 \in A BY <1>1, <1>4, <2>2
    <3>2. \A i \in 1..n : i - 1 \in A => i \in A BY <1>1, <1>5, <2>2
    <3>3. \A i \in 0..n : i \in A
      <4> HIDE DEF A
      <4> QED BY <1>1, <3>1, <3>2, Ladder
    <3> QED BY <3>3
  <2> QED BY <2>1, <2>3
<1> QED BY <1>4, <1>5, <1>7, <1>9 DEF n

\* What a conversion takes: all digits before the first that is none of its base.
LEMMA LeadingIs ==
    ASSUME NEW d \in Seq(Nat), NEW base \in Nat
    PROVE  \E n \in 0..Len(d) :
             /\ Leading(d, base) \in Seq(Nat) /\ Len(Leading(d, base)) = n
             /\ \A i \in 1..n : Leading(d, base)[i] = d[i] /\ d[i] < base
             /\ n < Len(d) => d[n + 1] >= base
<1> DEFINE I == {i \in 1..Len(d) : d[i] >= base}
           stop == IF I # {} THEN Min(I) ELSE 0
<1>1. Leading(d, base) = IF stop = 0 THEN d ELSE SubSeq(d, 1, stop - 1)
  BY DEF Leading, SelectInSeq
<1>2. /\ Len(d) \in Nat /\ I \in SUBSET Nat
      /\ \A i \in 1..Len(d) : d[i] \in Nat /\ (i \in I <=> d[i] >= base)
  BY ElementOfSeq
<1>3. I \subseteq 1..Len(d) OBVIOUS
<1> HIDE DEF I
<1>4. CASE I = {}
  <2>1. Leading(d, base) = d BY <1>1, <1>4
  <2>2. Len(d) \in 0..Len(d) BY <1>2
  <2>3. \A i \in 1..Len(d) : d[i] < base BY <1>2, <1>4
  <2> QED BY <1>2, <2>1, <2>2, <2>3
<1>5. CASE I # {}
  <2>1. \E x \in I : \A y \in I : x <= y BY <1>2, <1>5, Least
  <2>2. Min(I) \in I /\ \A y \in I : Min(I) <= y BY <2>1 DEF Min
  <2> DEFINE m == Min(I)
  <2>3. m \in 1..Len(d) /\ d[m] >= base /\ stop = m /\ stop # 0
    <3>1. m \in I BY <2>2
    <3>2. stop = m BY <1>5
    <3> HIDE DEF m, stop
    <3>3. m \in 1..Len(d) BY <1>3, <3>1
    <3> QED BY <1>2, <3>1, <3>2, <3>3
  <2>4. Leading(d, base) = SubSeq(d, 1, m - 1) BY <1>1, <2>3
  <2> HIDE DEF m
  <2>5. /\ m - 1 \in 0..Len(d) /\ m - 1 < Len(d) /\ m - 1 + 1 = m
        /\ \A i \in 1..m - 1 : i \in 1..Len(d) /\ ~(m <= i)
    BY <1>2, <2>3
  <2>6. /\ SubSeq(d, 1, m - 1) \in Seq(Nat) /\ Len(SubSeq(d, 1, m - 1)) = m - 1
        /\ \A i \in 1..m - 1 : SubSeq(d, 1, m - 1)[i] = d[i]
    <3>1. \A i \in 1..m - 1 : d[i] \in Nat BY <1>2, <2>5
    <3> QED BY <2>3, <2>5, <3>1, SubSeqProperties
  <2>7. \A i \in 1..m - 1 : d[i] < base
    <3> SUFFICES ASSUME NEW i \in 1..m - 1 PROVE d[i] < base OBVIOUS
    <3>1. i \in 1..Len(d) /\ i \notin I BY <2>2, <2>5 DEF m
    <3> QED BY <1>2, <3>1
  <2> QED BY <2>3, <2>4, <2>5, <2>6, <2>7
<1> QED BY <1>4, <1>5

\* What division leaves of a number, step by step.
LEMMA RestIs ==
    ASSUME NEW n \in Nat, NEW v \in Nat, NEW base \in {8, 10, 16}
    PROVE  \E f : f = [i \in 0..n |-> IF i = 0 THEN v ELSE f[i - 1] \div base]
<1> DEFINE H(f) == f = [i \in 0..n |-> IF i = 0 THEN v ELSE f[i - 1] \div base]
           G == [i \in 1..n |-> [y \in Nat |-> y \div base]]
<1>0. \A y \in Nat : y \div 8 \in Nat /\ y \div 10 \in Nat /\ y \div 16 \in Nat OBVIOUS
<1>1. G \in [1..n -> [Nat -> Nat]]
  <2>1. \A y \in Nat : y \div base \in Nat BY <1>0
  <2> QED BY <2>1
<1>2. \A i \in 1..n : \A y \in Nat : G[i][y] = y \div base OBVIOUS
<1> HIDE DEF G
<1>3. \E f \in [0..n -> Nat] : f[0] = v /\ \A i \in 1..n : f[i] = G[i][f[i - 1]]
  BY ONLY <1>1, n \in Nat, v \in Nat, NatRecursion
<1>4. PICK f \in [0..n -> Nat] : f[0] = v /\ \A i \in 1..n : f[i] = G[i][f[i - 1]] BY <1>3
<1>5. \A i \in 1..n : f[i] = f[i - 1] \div base
  <2>1. \A i \in 1..n : i - 1 \in 0..n OBVIOUS
  <2> QED BY <1>2, <1>4, <2>1
<1>6. H(f)
  <2>1. \A i \in 0..n : i # 0 => i \in 1..n OBVIOUS
  <2>2. \A i \in 0..n : f[i] = IF i = 0 THEN v ELSE f[i - 1] \div base BY <1>4, <1>5, <2>1
  <2> QED BY <2>2
<1> QED BY <1>6

\* The last digit of a number, and what is left of it.
LEMMA LastDigit ==
    ASSUME NEW base \in {8, 10}, NEW x \in Nat, NEW c \in Nat, c < base
    PROVE  (base * x + c) \div base = x /\ (base * x + c) % base = c
<1>1. CASE base = 8
  <2>1. (8 * x + c) \div 8 = x /\ (8 * x + c) % 8 = c BY <1>1
  <2> QED BY <1>1, <2>1
<1>2. CASE base = 10
  <2>1. (10 * x + c) \div 10 = x /\ (10 * x + c) % 10 = c BY <1>2
  <2> QED BY <1>2, <2>1
<1> QED BY <1>1, <1>2

\* Dividing undoes what the conversion did: after k steps what is left is the number
\* of all digits but the last k.
LEMMA NumberMeans ==
    ASSUME NEW value, Digits(value) \in Seq(Nat), Len(Digits(value)) # 0
    PROVE  ToUint(value) \in Nat /\ Means(ToUint(value), value)
<1> DEFINE d == Digits(value)
           base == IF d[1] = 0 THEN 8 ELSE 10
           v == ToUint(value)
           p == Leading(d, base)
           rest == CHOOSE f : f = [i \in 0..Len(d) |-> IF i = 0 THEN v ELSE f[i - 1] \div base]
<1>1. base \in {8, 10} /\ d \in Seq(Nat) /\ Len(d) \in Nat /\ \A i \in 1..Len(d) : d[i] \in Nat
  BY ElementOfSeq
<1>2. v = Number(p, base) BY DEF ToUint, str_octal_to_uint, atoi
<1>3. Means(v, value) <=>
        \E n \in 0 .. Len(d) :
         /\ n < Len(d) => d[n + 1] >= base
         /\ \A i \in 1..n : d[i] < base /\ rest[n - i] % base = d[i]
         /\ rest[n] = 0
  BY DEF Means
<1> HIDE DEF d, base, v, p, rest
<1>4. PICK n \in 0..Len(d) :
        /\ p \in Seq(Nat) /\ Len(p) = n
        /\ \A i \in 1..n : p[i] = d[i] /\ d[i] < base
        /\ n < Len(d) => d[n + 1] >= base
  <2>1. base \in Nat BY <1>1
  <2> QED BY ONLY <1>1, <2>1, LeadingIs DEF p
<1>5. PICK h \in [0..n -> Nat] :
        h[0] = 0 /\ (\A i \in 1..n : h[i] = base * h[i - 1] + p[i]) /\ v = h[n]
  <2>1. base \in Nat BY <1>1
  <2> QED BY <1>2, <1>4, <2>1, NumberIs
<1>6. n \in Nat /\ v \in Nat
  <2>1. n \in Nat /\ n \in 0..n BY <1>1
  <2> QED BY <1>5, <2>1
<1>7. \A i \in 1..n : h[i] \div base = h[i - 1] /\ h[i] % base = d[i]
  <2> SUFFICES ASSUME NEW i \in 1..n PROVE h[i] \div base = h[i - 1] /\ h[i] % base = d[i]
    OBVIOUS
  <2>1. i \in 1..Len(d) /\ h[i - 1] \in Nat
    <3>1. i - 1 \in 0..n /\ i \in 1..Len(d) BY <1>1, <1>6
    <3> QED BY <3>1
  <2>2. d[i] \in Nat /\ d[i] < base /\ h[i] = base * h[i - 1] + d[i] BY <1>1, <1>4, <1>5, <2>1
  <2>3. base \in {8, 10} BY <1>1
  <2> DEFINE x == h[i - 1]
             c == d[i]
  <2>4. (base * x + c) \div base = x /\ (base * x + c) % base = c
    <3>1. x \in Nat /\ c \in Nat /\ c < base BY <2>1, <2>2
    <3> HIDE DEF x, c
    <3> QED BY ONLY <2>3, <3>1, LastDigit
  <2> QED BY <2>2, <2>4
<1>8. rest[0] = v /\ \A i \in 1..Len(d) : rest[i] = rest[i - 1] \div base
  <2>1. \E f : f = [i \in 0..Len(d) |-> IF i = 0 THEN v ELSE f[i - 1] \div base]
    <3>1. base \in {8, 10, 16} /\ Len(d) \in Nat /\ v \in Nat BY ONLY <1>1, <1>6
    <3> QED BY ONLY <3>1, RestIs
  <2>2. rest = [i \in 0..Len(d) |-> IF i = 0 THEN v ELSE rest[i - 1] \div base]
    BY Zenon, <2>1 DEF rest
  <2>3. \A i \in 0..Len(d) : rest[i] = IF i = 0 THEN v ELSE rest[i - 1] \div base
    BY ONLY <2>2
  <2>4. 0 \in 0..Len(d) /\ \A i \in 1..Len(d) : i \in 0..Len(d) /\ i # 0 BY <1>1
  <2> QED BY ONLY <2>3, <2>4
<1>9. \A k \in 0..n : rest[k] = h[n - k]
  <2> DEFINE A == {k \in 0..n : rest[k] = h[n - k]}
  <2>1. 0 \in A BY <1>5, <1>6, <1>8
  <2>2. ASSUME NEW k \in 1..n, k - 1 \in A PROVE k \in A
    <3>1. k \in 1..Len(d) /\ k \in 0..n /\ n - k + 1 \in 1..n BY <1>1, <1>6
    <3>2. rest[k] = rest[k - 1] \div base /\ rest[k - 1] = h[n - (k - 1)] BY <1>8, <2>2, <3>1
    <3>3. n - (k - 1) = n - k + 1 /\ n - k + 1 - 1 = n - k BY <1>6
    <3>4. h[n - k + 1] \div base = h[n - k] BY <1>7, <3>1, <3>3
    <3> QED BY <3>1, <3>2, <3>3, <3>4
  <2>3. \A k \in 0..n : k \in A
    <3> HIDE DEF A
    <3> QED BY <1>6, <2>1, <2>2, Ladder
  <2> QED BY <2>3
<1>10. rest[n] = 0
  <2>1. n \in 0..n /\ n - n = 0 BY <1>6
  <2> QED BY <1>5, <1>9, <2>1
<1>11. \A i \in 1..n : rest[n - i] % base = d[i]
  <2> SUFFICES ASSUME NEW i \in 1..n PROVE rest[n - i] % base = d[i] OBVIOUS
  <2>1. n - i \in 0..n /\ n - (n - i) = i BY <1>6
  <2> QED BY <1>7, <1>9, <2>1
<1>12. Means(v, value) BY <1>3, <1>4, <1>10, <1>11
<1> QED BY <1>6, <1>12 DEF v

-----------------------------------------------------------------------------
(* The settings *)

\* Where the reader of the file is.
Reading == file \in Seq(Lines) /\ Len(file) <= MaxLines /\ next \in 1 .. Len(file) + 1

\* A number is its default or what its last line says; so is a bool, and so is the
\* address, unless strdup failed.
UintMeans(key) ==
    \/ LinesFor(key) = {} /\ tunable_uint[key] = default[key]
    \/ \E i \in LinesFor(key) : Decides(key, i) /\ Means(tunable_uint[key], file[i].value)

BoolMeans(key) ==
    \/ LinesFor(key) = {} /\ tunable_bool[key] = 1
    \/ \E i \in LinesFor(key) :
         Decides(key, i) /\ (tunable_bool[key] = 1 <=> file[i].value \in yes)

AddressMeans ==
    \/ LinesFor("listen_address") = {} /\ tunable_listen_address = literal
    \/ \E i \in LinesFor("listen_address") :
         /\ Decides("listen_address", i)
         /\ tunable_listen_address.text \in {file[i].value, NONE}

SettingsInv ==
    /\ Reading /\ TypeOK /\ AddressMeans
    /\ \A key \in uint_array : UintMeans(key)
    /\ \A key \in bool_array : BoolMeans(key)

\* A line that says nothing of a key leaves its lines as they are,
LEMMA NoMore ==
    ASSUME Reading, file' = file, NEW key,
           \/ next' = next
           \/ next' = next + 1 /\ next <= Len(file) /\ (line.key # key \/ Ignored(line))
    PROVE  LinesFor(key)' = LinesFor(key) /\ \A i : Decides(key, i)' <=> Decides(key, i)
<1>1. next \in Nat /\ next \notin LinesFor(key) BY DEF Reading, LinesFor
<1>2. 1 .. (next + 1) - 1 = (1 .. next - 1) \cup {next} BY DEF Reading
<1>3. LinesFor(key)' = LinesFor(key)
  <2>1. CASE next' = next BY <2>1 DEF LinesFor
  <2>2. CASE next' = next + 1 /\ (line.key # key \/ Ignored(line))
    BY <1>2, <2>2 DEF LinesFor, line
  <2> QED BY <2>1, <2>2
<1> QED BY <1>3 DEF Decides

\* and one that does becomes the last of them.
LEMMA OneMore ==
    ASSUME Reading, file' = file, next' = next + 1, next <= Len(file),
           NEW key, line.key = key, ~Ignored(line)
    PROVE  next \in LinesFor(key)' /\ (\A j \in LinesFor(key)' : j <= next) /\ file'[next] = line
<1>1. next \in 1 .. next' - 1 /\ \A j \in 1 .. next' - 1 : j <= next BY DEF Reading
<1>2. LinesFor(key)' = {i \in 1 .. next' - 1 : file[i].key = key /\ ~Ignored(file[i])}
  BY DEF LinesFor
<1>3. file[next].key = key /\ ~Ignored(file[next]) BY DEF line
<1> QED BY <1>1, <1>2, <1>3 DEF line

\* The defaults hold at first.
LEMMA SettingsStart == Init => SettingsInv
<1> SUFFICES ASSUME Init PROVE SettingsInv OBVIOUS
<1>1. PICK n \in 0..MaxLines : file \in [1..n -> Lines] BY DEF Init
<1>2. file \in Seq(Lines) /\ Len(file) = n BY <1>1
<1>3. Reading
  <2>1. MaxLines \in Nat BY ConfigAssumption
  <2> QED BY ONLY <1>1, <1>2, <2>1, Init DEF Init, Reading
<1>4. \A key : LinesFor(key) = {} BY DEF Init, LinesFor
<1>5. tunable_uint \in [uint_array -> Nat] /\ tunable_bool \in [bool_array -> {0, 1}]
  BY DEF Init, default, uint_array, bool_array
<1>6. TypeOK BY <1>2, <1>5 DEF Init, TypeOK, literal
<1>7. \A key \in bool_array : tunable_bool[key] = 1 BY DEF Init
<1> QED BY <1>3, <1>4, <1>6, <1>7 DEF Init, SettingsInv, UintMeans, BoolMeans, AddressMeans

\* What a step leaves alone that reads no line for it.
LEMMA UintStays ==
    ASSUME NEW key, UintMeans(key), file' = file, tunable_uint'[key] = tunable_uint[key],
           LinesFor(key)' = LinesFor(key), \A i : Decides(key, i)' <=> Decides(key, i)
    PROVE  UintMeans(key)'
BY DEF UintMeans

\* The same of a bool,
LEMMA BoolStays ==
    ASSUME NEW key, BoolMeans(key), file' = file, tunable_bool'[key] = tunable_bool[key],
           LinesFor(key)' = LinesFor(key), \A i : Decides(key, i)' <=> Decides(key, i)
    PROVE  BoolMeans(key)'
BY DEF BoolMeans

\* and of the address.
LEMMA AddressStays ==
    ASSUME AddressMeans, file' = file, tunable_listen_address' = tunable_listen_address,
           LinesFor("listen_address")' = LinesFor("listen_address"),
           \A i : Decides("listen_address", i)' <=> Decides("listen_address", i)
    PROVE  AddressMeans'
BY DEF AddressMeans

\* A line for a number.
LEMMA LoadUintKeeps == ASSUME SettingsInv, LoadUint PROVE SettingsInv'
<1>1. /\ next <= Len(file) /\ next' = next + 1 /\ line.key \in uint_array /\ ~Ignored(line)
      /\ tunable_uint' = [tunable_uint EXCEPT ![line.key] = ToUint(line.value)]
      /\ UNCHANGED <<at, file, tunable_bool, tunable_listen_address, strdups, freed, bound>>
  BY DEF LoadUint, Read
<1>2. Reading /\ Reading' /\ TypeOK BY <1>1 DEF SettingsInv, Reading
<1>3. ToUint(line.value) \in Nat /\ Means(ToUint(line.value), line.value)
  <2>1. line \in Lines BY <1>1, <1>2 DEF Reading, line
  <2>2. line.value # "" BY <1>1 DEF Ignored
  <2>3. Digits(line.value) \in Seq(0..10) /\ Len(Digits(line.value)) \in 1..MaxDigits
    BY <1>1, <2>1, <2>2, ConfigAssumption DEF IsNumber
  <2>4. Digits(line.value) \in Seq(Nat) /\ Len(Digits(line.value)) # 0 BY <2>3
  <2> HIDE DEF line
  <2> QED BY ONLY <2>4, NumberMeans
<1> DEFINE k == line.key
           v == ToUint(line.value)
<1>k. /\ tunable_uint \in [uint_array -> Nat] /\ k \in uint_array /\ v \in Nat
      /\ tunable_uint' = [tunable_uint EXCEPT ![k] = v]
  <2>1. tunable_uint \in [uint_array -> Nat] BY <1>2 DEF TypeOK
  <2> QED BY Zenon, <1>1, <1>3, <2>1
<1>u. /\ tunable_uint' \in [uint_array -> Nat] /\ tunable_uint'[k] = v
      /\ \A key \in uint_array : key # k => tunable_uint'[key] = tunable_uint[key]
  <2> HIDE DEF k, v
  <2> QED BY ONLY <1>k
<1>4. TypeOK'
  <2>1. next' \in 1 .. Len(file') + 1 BY <1>2 DEF Reading
  <2>2. UNCHANGED <<at, tunable_bool, tunable_listen_address, strdups, bound>> BY Zenon, <1>1
  <2>3. tunable_uint' \in [uint_array -> Nat] BY Zenon, <1>u
  <2> QED BY ONLY <1>2, <2>1, <2>2, <2>3 DEF TypeOK
<1>5. ASSUME NEW key \in uint_array, key = line.key PROVE UintMeans(key)'
  <2>1. tunable_uint'[key] = ToUint(line.value) BY <1>5, <1>u
  <2>2. next \in LinesFor(key)' /\ (\A j \in LinesFor(key)' : j <= next) /\ file'[next] = line
    BY <1>1, <1>2, <1>5, OneMore
  <2>3. \E i \in LinesFor(key)' :
          /\ i \in LinesFor(key)' /\ \A j \in LinesFor(key)' : j <= i
          /\ Means(tunable_uint'[key], file'[i].value)
    BY <1>3, <2>1, <2>2
  <2> QED BY <2>3 DEF UintMeans, Decides
<1>6. ASSUME NEW key \in uint_array, key # line.key PROVE UintMeans(key)'
  <2>1. tunable_uint'[key] = tunable_uint[key] BY <1>6, <1>u
  <2>2. LinesFor(key)' = LinesFor(key) /\ \A i : Decides(key, i)' <=> Decides(key, i)
    BY <1>1, <1>2, <1>6, NoMore
  <2> QED BY <1>1, <1>6, <2>1, <2>2, UintStays DEF SettingsInv
<1>7. ASSUME NEW key \in bool_array PROVE BoolMeans(key)'
  <2>1. key # line.key BY <1>1 DEF uint_array, bool_array
  <2>2. LinesFor(key)' = LinesFor(key) /\ \A i : Decides(key, i)' <=> Decides(key, i)
    BY <1>1, <1>2, <2>1, NoMore
  <2> QED BY <1>1, <2>2, BoolStays DEF SettingsInv
<1>8. AddressMeans'
  <2>1. line.key # "listen_address" BY <1>1 DEF uint_array
  <2>2. LinesFor("listen_address")' = LinesFor("listen_address")
        /\ \A i : Decides("listen_address", i)' <=> Decides("listen_address", i)
    BY <1>1, <1>2, <2>1, NoMore
  <2> QED BY <1>1, <2>2, AddressStays DEF SettingsInv
<1> QED BY <1>2, <1>4, <1>5, <1>6, <1>7, <1>8 DEF SettingsInv

\* A line for a bool: neither the numbers nor the address are concerned.
LEMMA LoadBoolKeeps == ASSUME SettingsInv, LoadBool PROVE SettingsInv'
<1>1. /\ next <= Len(file) /\ next' = next + 1 /\ line.key \in bool_array /\ ~Ignored(line)
      /\ tunable_bool' = [tunable_bool EXCEPT ![line.key] = IF line.value \in yes THEN 1 ELSE 0]
      /\ UNCHANGED <<at, file, tunable_uint, tunable_listen_address, strdups, freed, bound>>
  BY DEF LoadBool, Read
<1>2. Reading /\ Reading' /\ TypeOK BY <1>1 DEF SettingsInv, Reading
<1> DEFINE k == line.key
           v == IF line.value \in yes THEN 1 ELSE 0
<1>k. /\ tunable_bool \in [bool_array -> {0, 1}] /\ k \in bool_array /\ v \in {0, 1}
      /\ tunable_bool' = [tunable_bool EXCEPT ![k] = v]
  BY <1>1, <1>2 DEF TypeOK
<1>u. /\ tunable_bool' \in [bool_array -> {0, 1}] /\ tunable_bool'[k] = v
      /\ \A key \in bool_array : key # k => tunable_bool'[key] = tunable_bool[key]
  <2> HIDE DEF k, v
  <2> QED BY ONLY <1>k
<1>4. TypeOK'
  <2>1. next' \in 1 .. Len(file') + 1 BY <1>2 DEF Reading
  <2>2. UNCHANGED <<at, tunable_uint, tunable_listen_address, strdups, bound>> BY <1>1
  <2> QED BY ONLY <1>2, <1>u, <2>1, <2>2 DEF TypeOK
<1>5. ASSUME NEW key \in bool_array, key = line.key PROVE BoolMeans(key)'
  <2>1. tunable_bool'[key] = 1 <=> line.value \in yes BY <1>5, <1>u
  <2>2. next \in LinesFor(key)' /\ (\A j \in LinesFor(key)' : j <= next) /\ file'[next] = line
    BY <1>1, <1>2, <1>5, OneMore
  <2>3. \E i \in LinesFor(key)' :
          /\ i \in LinesFor(key)' /\ \A j \in LinesFor(key)' : j <= i
          /\ tunable_bool'[key] = 1 <=> file'[i].value \in yes
    BY <2>1, <2>2
  <2> QED BY <2>3 DEF BoolMeans, Decides, yes
<1>6. ASSUME NEW key \in bool_array, key # line.key PROVE BoolMeans(key)'
  <2>1. tunable_bool'[key] = tunable_bool[key] BY <1>6, <1>u
  <2>2. LinesFor(key)' = LinesFor(key) /\ \A i : Decides(key, i)' <=> Decides(key, i)
    BY <1>1, <1>2, <1>6, NoMore
  <2> QED BY <1>1, <1>6, <2>1, <2>2, BoolStays DEF SettingsInv
<1>7. ASSUME NEW key \in uint_array PROVE UintMeans(key)'
  <2>1. key # line.key BY <1>1 DEF uint_array, bool_array
  <2>2. LinesFor(key)' = LinesFor(key) /\ \A i : Decides(key, i)' <=> Decides(key, i)
    BY <1>1, <1>2, <2>1, NoMore
  <2> QED BY <1>1, <2>2, UintStays DEF SettingsInv
<1>8. AddressMeans'
  <2>1. line.key # "listen_address" BY <1>1 DEF bool_array
  <2>2. LinesFor("listen_address")' = LinesFor("listen_address")
        /\ \A i : Decides("listen_address", i)' <=> Decides("listen_address", i)
    BY <1>1, <1>2, <2>1, NoMore
  <2> QED BY <1>1, <2>2, AddressStays DEF SettingsInv
<1> QED BY <1>2, <1>4, <1>5, <1>6, <1>7, <1>8 DEF SettingsInv

\* A line for the address: its text, or none when strdup failed.
LEMMA LoadStrMeans == ASSUME SettingsInv, LoadStr PROVE SettingsInv'
<1>1. /\ at = "loading" /\ next <= Len(file) /\ next' = next + 1 /\ line.key \in str_array
      /\ ~Ignored(line) /\ at' \in {"loading", "stopped"}
      /\ \/ tunable_listen_address' = Strdup /\ strdups' = strdups \cup {Strdup.block}
         \/ tunable_listen_address' = [text |-> NONE, block |-> 0] /\ UNCHANGED strdups
      /\ UNCHANGED <<file, tunable_bool, tunable_uint, bound>>
  BY DEF LoadStr, Read, Free
<1>2. Reading /\ Reading' /\ TypeOK BY <1>1 DEF SettingsInv, Reading
<1>3. line.key = "listen_address" BY <1>1 DEF str_array
<1>4. TypeOK'
  <2>1. next' \in 1 .. Len(file') + 1 BY <1>2 DEF Reading
  <2>2. next \in 1..MaxLines
    <3>1. MaxLines \in Nat BY ConfigAssumption
    <3> QED BY <1>1, <1>2, <3>1 DEF Reading
  <2>3. Strdup.block = next BY DEF Strdup
  <2>4. strdups' \subseteq 1..MaxLines /\ tunable_listen_address'.block \in strdups' \cup {0}
    <3>1. strdups \subseteq 1..MaxLines BY <1>2 DEF TypeOK
    <3>2. CASE tunable_listen_address' = Strdup /\ strdups' = strdups \cup {Strdup.block}
      BY ONLY <2>2, <2>3, <3>1, <3>2
    <3>3. CASE tunable_listen_address' = [text |-> NONE, block |-> 0] /\ UNCHANGED strdups
      BY ONLY <3>1, <3>3
    <3> QED BY ONLY <1>1, <3>2, <3>3
  <2> QED BY <1>1, <1>2, <2>1, <2>4 DEF TypeOK
<1>5. AddressMeans'
  <2>1. tunable_listen_address'.text \in {line.value, NONE} BY <1>1 DEF Strdup
  <2>2. /\ next \in LinesFor("listen_address")' /\ \A j \in LinesFor("listen_address")' : j <= next
        /\ file'[next] = line
    BY <1>1, <1>2, <1>3, OneMore
  <2>3. \E i \in LinesFor("listen_address")' :
          /\ i \in LinesFor("listen_address")' /\ \A j \in LinesFor("listen_address")' : j <= i
          /\ tunable_listen_address'.text \in {file'[i].value, NONE}
    BY <2>1, <2>2
  <2> QED BY <2>3 DEF AddressMeans, Decides
<1>6. ASSUME NEW key \in uint_array \cup bool_array
      PROVE  LinesFor(key)' = LinesFor(key) /\ \A i : Decides(key, i)' <=> Decides(key, i)
  <2>1. key # line.key BY <1>3 DEF uint_array, bool_array
  <2> QED BY <1>1, <1>2, <2>1, NoMore
<1>7. \A key \in uint_array : UintMeans(key)' BY <1>1, <1>6, UintStays DEF SettingsInv
<1>8. \A key \in bool_array : BoolMeans(key)' BY <1>1, <1>6, BoolStays DEF SettingsInv
<1> QED BY <1>2, <1>4, <1>5, <1>7, <1>8 DEF SettingsInv

\* The other steps read no line, or one that is ignored.
LEMMA SettingsKeep == ASSUME SettingsInv, [Next]_vars PROVE SettingsInv'
<1>1. CASE LoadUint BY <1>1, LoadUintKeeps
<1>2. CASE LoadBool BY <1>2, LoadBoolKeeps
<1>3. CASE LoadStr BY <1>3, LoadStrMeans
<1>4. CASE OpenFile \/ LoadNothing \/ Loaded \/ tcp_server \/ free_config \/ UNCHANGED vars
  <2>1. /\ UNCHANGED <<file, tunable_bool, tunable_uint, tunable_listen_address, strdups>>
        /\ \/ next' = next
           \/ next' = next + 1 /\ next <= Len(file) /\ Ignored(line)
    BY <1>4 DEF OpenFile, LoadNothing, Read, Loaded, tcp_server, free_config, vars
  <2>2. Reading /\ Reading' /\ TypeOK BY <2>1 DEF SettingsInv, Reading
  <2>3. at' \in {"start", "loading", "loaded", "running", "ended", "stopped"}
    BY <1>4, <2>2 DEF OpenFile, LoadNothing, Read, Loaded, tcp_server, free_config,
                     Free, vars, TypeOK
  <2>4. bound'.port \in Nat /\ bound'.port < 65536
    <3>1. tunable_uint["listen_port"] \in Nat BY <2>2 DEF TypeOK, uint_array
    <3>2. CASE UNCHANGED bound BY <2>2, <3>2 DEF TypeOK
    <3>3. CASE tcp_server
      <4>1. \/ UNCHANGED bound
            \/ bound'.port = tunable_uint["listen_port"] % 65536
        BY <3>3 DEF tcp_server
      <4> QED BY <3>1, <3>2, <4>1
    <3> QED BY <1>4, <3>2, <3>3 DEF OpenFile, LoadNothing, Loaded, free_config, vars
  <2>5. TypeOK'
    <3>1. next' \in 1 .. Len(file') + 1 BY <2>2 DEF Reading
    <3> QED BY <2>1, <2>2, <2>3, <2>4, <3>1 DEF TypeOK
  <2>6. \A key : LinesFor(key)' = LinesFor(key) /\ \A i : Decides(key, i)' <=> Decides(key, i)
    BY <2>1, <2>2, NoMore
  <2>7. AddressMeans' BY <2>1, <2>6, AddressStays DEF SettingsInv
  <2>8. \A key \in uint_array : UintMeans(key)' BY <2>1, <2>6, UintStays DEF SettingsInv
  <2>9. \A key \in bool_array : BoolMeans(key)' BY <2>1, <2>6, BoolStays DEF SettingsInv
  <2> QED BY <2>2, <2>5, <2>7, <2>8, <2>9 DEF SettingsInv
<1> QED BY <1>1, <1>2, <1>3, <1>4 DEF Next

\* The last line of the file that gives a key a value decides its setting, and a
\* number is the one whose digits the value has, in the base its first digit tells
\* (load_config, load_setting, str_octal_to_uint).
THEOREM SettingsComeFromFile == Spec => []SettingsMeanFile
<1>1. SettingsInv => SettingsMeanFile
  BY DEF SettingsInv, SettingsMeanFile, UintMeans, BoolMeans, AddressMeans
<1> QED BY <1>1, SettingsStart, SettingsKeep, PTL DEF Spec

-----------------------------------------------------------------------------
(* Numerals *)

\* The bound of a word, kept out of steps that need only its name.
LEMMA WordBound == MaxWord \in Nat /\ \A z \in Nat : z <= MaxWord <=> z < 65536
BY SMT DEF MaxWord

\* What is left of a number and the digit that division takes off it give it back.
LEMMA DigitOff ==
    ASSUME NEW base \in {10, 16}, NEW x \in Nat
    PROVE  /\ x \div base \in Nat /\ x % base \in 0 .. base - 1
           /\ base * (x \div base) + (x % base) = x
<1>1. CASE base = 10
  <2>1. x \div 10 \in Nat /\ x % 10 \in 0..9 /\ 10 * (x \div 10) + (x % 10) = x OBVIOUS
  <2> QED BY <1>1, <2>1
<1>2. CASE base = 16
  <2>1. x \div 16 \in Nat /\ x % 16 \in 0..15 /\ 16 * (x \div 16) + (x % 16) = x OBVIOUS
  <2> QED BY <1>2, <2>1
<1> QED BY <1>1, <1>2

\* A byte in decimal or a word in hex is printed with at most four digits, and read
\* back it is the same number.
LEMMA PrintedIs ==
    ASSUME NEW base \in {10, 16}, NEW v \in Nat, v <= MaxWord, base = 10 => v < 256
    PROVE  /\ Printed(v, base) \in Seq(0 .. base - 1) /\ Len(Printed(v, base)) \in 1..4
           /\ Number(Printed(v, base), base) = v
<1> DEFINE n == v + 1
           rest == CHOOSE f : f = [i \in 0..n |-> IF i = 0 THEN v ELSE f[i - 1] \div base]
           K == {k \in 1..n : rest[k] = 0}
           W(k) == k \in 1..n /\ rest[k] = 0 /\ \A j \in 1 .. k - 1 : rest[j] # 0
           width == CHOOSE k \in 1..n : rest[k] = 0 /\ \A j \in 1 .. k - 1 : rest[j] # 0
           d == [i \in 1..width |-> rest[width - i] % base]
<1>1. Printed(v, base) = d BY DEF Printed
<1>2. rest = [i \in 0..n |-> IF i = 0 THEN v ELSE rest[i - 1] \div base]
  <2>1. n \in Nat /\ base \in {8, 10, 16} OBVIOUS
  <2> HIDE DEF n
  <2>2. \E f : f = [i \in 0..n |-> IF i = 0 THEN v ELSE f[i - 1] \div base]
    BY ONLY <2>1, v \in Nat, RestIs
  <2> QED BY ONLY Zenon, <2>2 DEF rest
<1> HIDE DEF rest
<1>3. rest[0] = v /\ \A i \in 1..n : rest[i] = rest[i - 1] \div base
  <2>1. \A i \in 0..n : rest[i] = IF i = 0 THEN v ELSE rest[i - 1] \div base BY ONLY <1>2
  <2>2. 0 \in 0..n /\ \A i \in 1..n : i \in 0..n /\ i # 0 OBVIOUS
  <2> HIDE DEF n
  <2> QED BY <2>1, <2>2
<1>4. \A i \in 0..n : rest[i] \in Nat
  <2> DEFINE A == {i \in 0..n : rest[i] \in Nat}
  <2>1. 0 \in A BY <1>3
  <2>2. ASSUME NEW i \in 1..n, i - 1 \in A PROVE i \in A BY <1>3, <2>2, DigitOff
  <2>3. n \in Nat OBVIOUS
  <2> HIDE DEF A, n
  <2>4. \A i \in 0..n : i \in A BY <2>1, <2>2, <2>3, Ladder
  <2> QED BY <2>4 DEF A
<1>5. \E k \in K : k <= 4
  <2>1. CASE v < base
    <3>1. rest[1] = v \div base BY <1>3
    <3>2. v \div base = 0
      <4>1. CASE base = 10 BY <2>1, <4>1
      <4>2. CASE base = 16 BY <2>1, <4>2
      <4> QED BY <4>1, <4>2
    <3> QED BY <3>1, <3>2
  <2>2. CASE v >= base
    <3>1. {1, 2, 3, 4} \subseteq 1..n BY <2>2
    <3>2. /\ rest[1] = v \div base /\ rest[2] = rest[1] \div base /\ rest[3] = rest[2] \div base
          /\ rest[4] = rest[3] \div base
      <4> HIDE DEF n
      <4>1. \A i \in {1, 2, 3, 4} : rest[i] = rest[i - 1] \div base BY <1>3, <3>1
      <4> QED BY <1>3, <4>1
    <3>3. rest[4] = 0
      <4>1. CASE base = 10 BY <3>2, <4>1
      <4>2. CASE base = 16
        <5>1. v < 65536 BY SMT DEF MaxWord
        <5> QED BY SMT, <3>2, <4>2, <5>1
      <4> QED BY <4>1, <4>2
    <3> QED BY <3>1, <3>3
  <2> QED BY <2>1, <2>2
<1>6. \E k \in 1..n : W(k) /\ k <= 4
  <2>1. PICK k \in K : \A j \in K : k <= j
    <3>1. K \in SUBSET Nat /\ K # {} BY <1>5
    <3> HIDE DEF K
    <3> QED BY <3>1, Least
  <2> QED BY <1>5, <2>1
<1>7. W(width)
  <2>1. \E k \in 1..n : rest[k] = 0 /\ \A j \in 1 .. k - 1 : rest[j] # 0 BY <1>6
  <2> HIDE DEF n
  <2> QED BY <2>1
<1> HIDE DEF width
<1>8. width \in 1..4
  <2>1. PICK k \in 1..n : W(k) /\ k <= 4 BY <1>6
  <2>2. width \in 1..n /\ rest[k] = 0 /\ \A j \in 1 .. width - 1 : rest[j] # 0 BY <1>7, <2>1
  <2>3. ~(k \in 1 .. width - 1) BY <2>2
  <2> QED BY <2>1, <2>2, <2>3
<1>9. width \in 1..n /\ \A i \in 0..width : i \in 0..n /\ width - i \in 0..n BY <1>7
<1>10. /\ d \in Seq(0 .. base - 1) /\ d \in Seq(Nat) /\ Len(d) = width
       /\ \A i \in 1..width : d[i] = rest[width - i] % base
  <2>1. \A i \in 1..width : rest[width - i] % base \in 0 .. base - 1
    <3> SUFFICES ASSUME NEW i \in 1..width PROVE rest[width - i] % base \in 0 .. base - 1 OBVIOUS
    <3>1. width - i \in 0..n BY <1>9
    <3> QED BY <1>4, <3>1, DigitOff
  <2>2. width \in Nat BY <1>8
  <2>3. d \in Seq(0 .. base - 1) /\ Len(d) = width BY <2>1, <2>2
  <2>4. 0 .. base - 1 \subseteq Nat OBVIOUS
  <2>5. \A i \in 1..width : d[i] = rest[width - i] % base OBVIOUS
  <2> HIDE DEF d
  <2>6. d \in Seq(Nat) BY <2>3, <2>4
  <2> QED BY <2>3, <2>5, <2>6
<1> HIDE DEF d
<1>11. PICK f \in [0..width -> Nat] :
         /\ f[0] = 0 /\ \A i \in 1..width : f[i] = base * f[i - 1] + d[i]
         /\ Number(d, base) = f[width]
  <2>1. base \in Nat OBVIOUS
  <2> QED BY ONLY <1>10, <2>1, NumberIs
<1>12. \A i \in 0..width : f[i] = rest[width - i]
  <2> DEFINE A == {i \in 0..width : f[i] = rest[width - i]}
  <2>1. 0 \in A BY <1>7, <1>8, <1>11
  <2>2. ASSUME NEW i \in 1..width, i - 1 \in A PROVE i \in A
    <3> DEFINE x == rest[width - i]
    <3>1. width - i \in 0..n /\ width - i + 1 \in 1..n /\ width - (i - 1) = width - i + 1
      BY <1>8, <1>9
    <3>2. x \in Nat BY <1>4, <3>1
    <3>3. rest[width - i + 1] = x \div base
      <4>1. (width - i + 1) - 1 = width - i BY <1>8
      <4> QED BY <1>3, <3>1, <4>1
    <3>4. f[i - 1] = x \div base BY <2>2, <3>1, <3>3
    <3>5. f[i] = base * (x \div base) + (x % base) BY <1>10, <1>11, <3>4
    <3>6. base * (x \div base) + (x % base) = x
      <4> HIDE DEF x
      <4> QED BY <3>2, DigitOff
    <3> QED BY <3>5, <3>6
  <2>3. width \in Nat BY <1>8
  <2> HIDE DEF A
  <2>4. \A i \in 0..width : i \in A BY ONLY <2>1, <2>2, <2>3, Ladder
  <2> QED BY <2>4 DEF A
<1>13. Number(d, base) = v
  <2>1. width \in 0..width /\ width - width = 0 BY <1>8
  <2> QED BY <1>3, <1>11, <1>12, <2>1
<1> QED BY <1>1, <1>8, <1>10, <1>13

\* A numeral is a number, and one of four hex digits fits a word.
LEMMA NumberFits ==
    ASSUME NEW d \in Seq(0..15)
    PROVE  /\ Number(d, 10) \in Nat /\ Number(d, 16) \in Nat
           /\ Len(d) <= 4 => Number(d, 16) <= MaxWord
<1>1. d \in Seq(Nat) /\ Len(d) \in Nat /\ \A i \in 1..Len(d) : d[i] \in 0..15 BY ElementOfSeq
<1>2. Number(d, 10) \in Nat
  <2>1. PICK f \in [0..Len(d) -> Nat] : Number(d, 10) = f[Len(d)] BY <1>1, NumberIs
  <2>2. Len(d) \in 0..Len(d) BY <1>1
  <2> QED BY <2>1, <2>2
<1>3. PICK f \in [0..Len(d) -> Nat] :
        /\ f[0] = 0 /\ \A i \in 1..Len(d) : f[i] = 16 * f[i - 1] + d[i]
        /\ Number(d, 16) = f[Len(d)]
  BY <1>1, NumberIs
<1>4. Number(d, 16) \in Nat
  <2>1. Len(d) \in 0..Len(d) BY <1>1
  <2> QED BY <1>3, <2>1
<1>5. ASSUME Len(d) <= 4 PROVE Number(d, 16) <= MaxWord
  <2> DEFINE n == Len(d)
             Fit(i, b) == i <= n => f[i] \in Nat /\ f[i] < b
  <2>1. \A i \in 1..n : f[i] \in Nat /\ f[i - 1] \in Nat /\ f[i] <= 16 * f[i - 1] + 15
    <3> SUFFICES ASSUME NEW i \in 1..n
                 PROVE  f[i] \in Nat /\ f[i - 1] \in Nat /\ f[i] <= 16 * f[i - 1] + 15
      OBVIOUS
    <3>1. i \in 0..n /\ i - 1 \in 0..n BY <1>1
    <3>2. f[i] \in Nat /\ f[i - 1] \in Nat BY <3>1
    <3>3. f[i] = 16 * f[i - 1] + d[i] /\ d[i] \in 0..15 BY <1>1, <1>3
    <3> DEFINE x == f[i - 1]
               y == f[i]
               z == d[i]
    <3>4. x \in Nat /\ y = 16 * x + z /\ z \in 0..15 BY <3>2, <3>3
    <3> HIDE DEF x, y, z
    <3>5. y <= 16 * x + 15 BY ONLY <3>4
    <3> QED BY <3>2, <3>5 DEF x, y
  <2>2. n \in Nat /\ n <= 4 /\ f[0] = 0 BY <1>1, <1>3, <1>5
  <2>3. \A i \in 1..n : i - 1 \in 0..n /\ (i > 1 => i - 1 \in 1..n) BY <2>2
  <2> HIDE DEF n
  <2>4. 1 \in 1..n => f[1] \in Nat /\ f[1] <= 15
    <3>1. 1 - 1 = 0 OBVIOUS
    <3> QED BY <2>1, <2>2, <3>1
  <2>5. 2 \in 1..n => f[2] \in Nat /\ f[2] <= 255
    <3>1. 2 \in 1..n => 1 \in 1..n BY <2>2
    <3>2. 2 - 1 = 1 OBVIOUS
    <3> QED BY <2>1, <2>4, <3>1, <3>2
  <2>6. 3 \in 1..n => f[3] \in Nat /\ f[3] <= 4095
    <3>1. 3 \in 1..n => 2 \in 1..n BY <2>2
    <3>2. 3 - 1 = 2 OBVIOUS
    <3> QED BY SMT, <2>1, <2>5, <3>1, <3>2
  <2>7. 4 \in 1..n => f[4] \in Nat /\ f[4] <= 65535
    <3>1. 4 \in 1..n => 3 \in 1..n BY <2>2
    <3>2. 4 - 1 = 3 OBVIOUS
    <3> QED BY SMT, <2>1, <2>6, <3>1, <3>2
  <2>8. n = 0 \/ (n = 1 /\ 1 \in 1..n) \/ (n = 2 /\ 2 \in 1..n) \/ (n = 3 /\ 3 \in 1..n)
        \/ (n = 4 /\ 4 \in 1..n)
    BY <2>2
  <2>9. Number(d, 16) = f[n] BY <1>3 DEF n
  <2> QED BY SMT, <2>2, <2>4, <2>5, <2>6, <2>7, <2>8, <2>9 DEF MaxWord
<1> QED BY <1>2, <1>4, <1>5

-----------------------------------------------------------------------------
(* Dotted addresses *)

\* What a text is made of.
Token == Numeral \cup {Colon, Dot}

\* A colon and a dot are no numerals, nor the same.
LEMMA Separators ==
    /\ Colon # Dot /\ Colon \notin Numeral /\ Dot \notin Numeral
    /\ Colon \notin Seq(0..15) /\ Dot \notin Seq(0..15) /\ Dot \notin Seq(0..9)
    /\ \A d \in Seq(0..9) : d \in Seq(0..15)
<1>1. Colon[1] = 16 /\ Dot[1] = 17 /\ Len(Colon) = 1 /\ Len(Dot) = 1 BY DEF Colon, Dot
<1>2. ASSUME NEW d \in Seq(0..15), Len(d) = 1 PROVE d[1] \in 0..15
  <2>1. 1 \in 1..Len(d) BY <1>2
  <2> QED BY ONLY <2>1, d \in Seq(0..15), ElementOfSeq
<1>3. ASSUME NEW d \in Seq(0..9) PROVE d \in Seq(0..15)
  <2>1. 0..9 \subseteq 0..15 OBVIOUS
  <2> QED BY <2>1, SeqMonotonic
<1>4. Colon \notin Seq(0..15) /\ Dot \notin Seq(0..15)
  <2>1. \A d \in Seq(0..15) : Len(d) = 1 => d[1] \in 0..15 BY ONLY <1>2
  <2>2. 16 \notin 0..15 /\ 17 \notin 0..15 OBVIOUS
  <2> QED BY ONLY Zenon, <1>1, <2>1, <2>2
<1>5. Colon # Dot BY <1>1
<1> QED BY <1>3, <1>4, <1>5 DEF Numeral

\* A text of seven or eight tokens is given by them.
LEMMA SevenOrEight ==
    ASSUME NEW V, NEW s \in Seq(V)
    PROVE  /\ Len(s) = 7 => s = <<s[1], s[2], s[3], s[4], s[5], s[6], s[7]>>
           /\ Len(s) = 8 => s = <<s[1], s[2], s[3], s[4], s[5], s[6], s[7], s[8]>>
OBVIOUS

\* An answer is no function with a first index 0.
LEMMA NoneIsEmpty == ASSUME NEW f, 0 \in DOMAIN f PROVE f # none
<1>1. DOMAIN none = 1..0 BY DEF none
<1> QED BY <1>1

\* The four numbers and the dots, place by place.
QuadIs(s, n) ==
    /\ Len(s) \in {7, 8} /\ \A k \in 0..3 : ByteText(n[k]) /\ s[2 * k + 1] = n[k]
    /\ \A k \in 0..3 : 2 * k + 2 <= Len(s) => s[2 * k + 2] = Dot

\* Four numbers and dots, token by token.
LEMMA QuadTokens ==
    ASSUME NEW s \in Seq(Token), NEW n
    PROVE  IsQuad(s, n) <=> QuadIs(s, n)
<1>1. ASSUME IsQuad(s, n) PROVE QuadIs(s, n)
  <2>1. CASE s = <<n[0], Dot, n[1], Dot, n[2], Dot, n[3]>>
    <3>1. Len(s) = 7 /\ s[1] = n[0] /\ s[3] = n[1] /\ s[5] = n[2] /\ s[7] = n[3]
          /\ s[2] = Dot /\ s[4] = Dot /\ s[6] = Dot
      BY <2>1
    <3>2. \A k \in 0..3 : s[2 * k + 1] = n[k] /\ (2 * k + 2 <= Len(s) => s[2 * k + 2] = Dot)
      BY <3>1
    <3> QED BY <1>1, <3>1, <3>2 DEF IsQuad, QuadIs
  <2>2. CASE s = <<n[0], Dot, n[1], Dot, n[2], Dot, n[3], Dot>>
    <3>1. Len(s) = 8 /\ s[1] = n[0] /\ s[3] = n[1] /\ s[5] = n[2] /\ s[7] = n[3]
          /\ s[2] = Dot /\ s[4] = Dot /\ s[6] = Dot /\ s[8] = Dot
      BY <2>2
    <3>2. \A k \in 0..3 : s[2 * k + 1] = n[k] /\ (2 * k + 2 <= Len(s) => s[2 * k + 2] = Dot)
      BY <3>1
    <3> QED BY <1>1, <3>1, <3>2 DEF IsQuad, QuadIs
  <2> QED BY <1>1, <2>1, <2>2 DEF IsQuad
<1>2. ASSUME QuadIs(s, n) PROVE IsQuad(s, n)
  <2>1. /\ s[1] = n[0] /\ s[3] = n[1] /\ s[5] = n[2] /\ s[7] = n[3]
        /\ s[2] = Dot /\ s[4] = Dot /\ s[6] = Dot /\ (Len(s) = 8 => s[8] = Dot)
    <3>1. \A k \in {0, 1, 2, 3} : k \in 0..3 /\ s[2 * k + 1] = n[k]
      BY <1>2 DEF QuadIs
    <3>2. \A k \in {0, 1, 2, 3} : 2 * k + 2 <= Len(s) => s[2 * k + 2] = Dot BY <1>2, <3>1 DEF QuadIs
    <3>3. Len(s) \in {7, 8} BY <1>2 DEF QuadIs
    <3> QED BY <3>1, <3>2, <3>3
  <2>2. CASE Len(s) = 7
    <3>1. s = <<s[1], s[2], s[3], s[4], s[5], s[6], s[7]>> BY <2>2, SevenOrEight
    <3> QED BY <1>2, <2>1, <3>1 DEF QuadIs, IsQuad
  <2>3. CASE Len(s) = 8
    <3>1. s = <<s[1], s[2], s[3], s[4], s[5], s[6], s[7], s[8]>> BY <2>3, SevenOrEight
    <3> QED BY <1>2, <2>1, <2>3, <3>1 DEF QuadIs, IsQuad
  <2> QED BY <1>2, <2>2, <2>3 DEF QuadIs
<1> QED BY <1>1, <1>2

\* A dotted text is read exactly when it is four numbers of a byte, as these.
LEMMA QuadsAreRead ==
    ASSUME NEW s \in Seq(Token)
    PROVE  LET numbers == [0..3 -> {s[i] : i \in DOMAIN s} \ {Dot}] IN
           /\ inet_pton_v4(s) # none =>
                inet_pton_v4(s) \in [0..3 -> 0..255] /\ \E n \in numbers : IsQuad(s, n)
           /\ \A n : IsQuad(s, n) => inet_pton_v4(s) = [k \in 0..3 |-> Number(n[k], 10)]
<1> DEFINE numbers == [0..3 -> {s[i] : i \in DOMAIN s} \ {Dot}]
           number(k) == Number(s[2 * k + 1], 10)
<1>0. Len(s) \in Nat /\ DOMAIN s = 1..Len(s) /\ \A i \in 1..Len(s) : s[i] \in Token
  BY ElementOfSeq
<1>t. ASSUME Len(s) \in {7, 8}, NEW k \in 0..3
      PROVE  Taken(s, k) <=> ByteText(s[2 * k + 1]) /\ (2 * k + 2 <= Len(s) => s[2 * k + 2] = Dot)
  <2>1. 2 * k + 1 \in 1..Len(s)
    <3>1. Len(s) = 7 \/ Len(s) = 8 BY <1>t
    <3> QED BY ONLY <1>0, <3>1, k \in 0..3
  <2>2. s[2 * k + 1] \in Token BY <1>0, <2>1
  <2>3. s[2 * k + 1] # << >>
    <3>1. Colon # << >> /\ Dot # << >> BY DEF Colon, Dot
    <3> QED BY <2>2, <3>1 DEF Token, Numeral
  <2> QED BY <2>3 DEF Taken, ByteText, Fits
<1>1. ASSUME inet_pton_v4(s) # none
      PROVE  inet_pton_v4(s) \in [0..3 -> 0..255] /\ \E n \in numbers : IsQuad(s, n)
  <2>1. /\ Len(s) \in {7, 8} /\ \A k \in 0..3 : Taken(s, k)
        /\ inet_pton_v4(s) = [k \in 0..3 |-> number(k)]
    BY <1>1 DEF inet_pton_v4
  <2>2. \A k \in 0..3 : ByteText(s[2 * k + 1]) /\ (2 * k + 2 <= Len(s) => s[2 * k + 2] = Dot)
    BY <1>t, <2>1
  <2>3. \A k \in 0..3 : number(k) \in 0..255
    <3> SUFFICES ASSUME NEW k \in 0..3 PROVE number(k) \in 0..255 OBVIOUS
    <3>1. s[2 * k + 1] \in Seq(0..9) /\ Number(s[2 * k + 1], 10) <= 255 BY <2>2 DEF ByteText
    <3>2. s[2 * k + 1] \in Seq(0..15) BY <3>1, Separators
    <3>3. Number(s[2 * k + 1], 10) \in Nat BY ONLY <3>2, NumberFits
    <3> DEFINE v == number(k)
    <3>4. v \in Nat /\ v <= 255 BY <3>1, <3>3
    <3> HIDE DEF v
    <3>5. v \in 0..255 BY ONLY <3>4
    <3> QED BY ONLY <3>5 DEF v
  <2> DEFINE n == [k \in 0..3 |-> s[2 * k + 1]]
  <2>4. n \in numbers
    <3> SUFFICES ASSUME NEW k \in 0..3 PROVE s[2 * k + 1] \in {s[i] : i \in DOMAIN s} \ {Dot}
      OBVIOUS
    <3>1. 2 * k + 1 \in DOMAIN s BY <1>0, <2>1
    <3>2. s[2 * k + 1] # Dot BY <2>2, Separators DEF ByteText
    <3> QED BY <3>1, <3>2
  <2>5. QuadIs(s, n) BY <2>1, <2>2 DEF QuadIs
  <2>6. IsQuad(s, n)
    <3> HIDE DEF n
    <3> QED BY <2>5, QuadTokens
  <2>7. inet_pton_v4(s) \in [0..3 -> 0..255]
    <3> HIDE DEF number
    <3> QED BY <2>1, <2>3
  <2> QED BY <2>4, <2>6, <2>7
<1>2. ASSUME NEW n, IsQuad(s, n) PROVE inet_pton_v4(s) = [k \in 0..3 |-> Number(n[k], 10)]
  <2>1. QuadIs(s, n) BY <1>2, QuadTokens
  <2>2. Len(s) \in {7, 8} /\ \A k \in 0..3 : s[2 * k + 1] = n[k] BY <2>1 DEF QuadIs
  <2>3. \A k \in 0..3 : Taken(s, k) BY <1>t, <2>1 DEF QuadIs
  <2>4. inet_pton_v4(s) = [k \in 0..3 |-> Number(s[2 * k + 1], 10)] BY <2>2, <2>3 DEF inet_pton_v4
  <2> QED BY <2>2, <2>4
<1> QED BY <1>1, <1>2

\* The text of four bytes is read as these.
LEMMA QuadRoundTrip ==
    ASSUME NEW a \in [0..3 -> 0..255]
    PROVE  /\ inet_ntop_v4(a) \in Seq(Token) /\ Len(inet_ntop_v4(a)) = 7
           /\ \A i \in 1..7 : inet_ntop_v4(a)[i] # Colon
           /\ inet_ntop_v4(a)[2] = Dot
           /\ inet_pton_v4(inet_ntop_v4(a)) = a
<1> DEFINE p == [k \in 0..3 |-> Printed(a[k], 10)]
           s == inet_ntop_v4(a)
<1>1. \A k \in 0..3 : ByteText(p[k]) /\ Number(p[k], 10) = a[k] /\ p[k] \in Numeral
  <2> SUFFICES ASSUME NEW k \in 0..3
               PROVE  ByteText(p[k]) /\ Number(p[k], 10) = a[k] /\ p[k] \in Numeral
    OBVIOUS
  <2>1. a[k] \in 0..255 OBVIOUS
  <2>2. /\ Printed(a[k], 10) \in Seq(0 .. 10 - 1) /\ Len(Printed(a[k], 10)) \in 1..4
        /\ Number(Printed(a[k], 10), 10) = a[k]
    <3>1. a[k] \in Nat /\ a[k] <= MaxWord /\ a[k] < 256 BY SMT, <2>1 DEF MaxWord
    <3> QED BY SMT, <3>1, PrintedIs
  <2>3. p[k] = Printed(a[k], 10)
    <3> DEFINE q(x) == Printed(a[x], 10)
    <3>1. p = [x \in 0..3 |-> q(x)] OBVIOUS
    <3> HIDE DEF q, p
    <3>2. p[k] = q(k) BY ONLY <3>1, k \in 0..3
    <3> QED BY ONLY <3>2 DEF q
  <2> HIDE DEF p
  <2>4. p[k] \in Seq(0..9)
    <3>1. 0 .. 10 - 1 \subseteq 0..9 OBVIOUS
    <3>2. Printed(a[k], 10) \in Seq(0 .. 10 - 1) BY ONLY Zenon, <2>2
    <3>3. p[k] \in Seq(0 .. 10 - 1) BY ONLY Zenon, <2>3, <3>2
    <3> QED BY ONLY <3>1, <3>3, SeqMonotonic
  <2>5. p[k] # << >>
    <3>1. Len(p[k]) \in 1..4 BY ONLY Zenon, <2>2, <2>3
    <3> QED BY ONLY <3>1
  <2>6. p[k] \in Seq(0..15) BY <2>4, Separators
  <2>7. Number(p[k], 10) = a[k] BY ONLY Zenon, <2>2, <2>3
  <2>8. Number(p[k], 10) <= 255 BY SMT, <2>1, <2>7
  <2> QED BY <2>4, <2>5, <2>6, <2>7, <2>8 DEF ByteText, Numeral
<1>2. s = <<p[0], Dot, p[1], Dot, p[2], Dot, p[3]>> BY DEF inet_ntop_v4
<1> HIDE DEF p, s
<1>3. IsQuad(s, p) BY <1>1, <1>2 DEF IsQuad
<1>4. s \in Seq(Token) /\ Len(s) = 7
  <2>1. p[0] \in Token /\ p[1] \in Token /\ p[2] \in Token /\ p[3] \in Token /\ Dot \in Token
    BY <1>1 DEF Token
  <2> QED BY <1>2, <2>1
<1>5. inet_pton_v4(s) = [k \in 0..3 |-> Number(p[k], 10)] BY <1>3, <1>4, QuadsAreRead
<1>6. [k \in 0..3 |-> Number(p[k], 10)] = a BY <1>1
<1>7. \A i \in 1..7 : s[i] # Colon
  <2>1. /\ s[1] = p[0] /\ s[2] = Dot /\ s[3] = p[1] /\ s[4] = Dot /\ s[5] = p[2] /\ s[6] = Dot
        /\ s[7] = p[3]
    BY <1>2
  <2>2. p[0] # Colon /\ p[1] # Colon /\ p[2] # Colon /\ p[3] # Colon /\ Dot # Colon
    BY <1>1, Separators
  <2> QED BY <2>1, <2>2
<1>8. s[2] = Dot BY <1>2
<1> QED BY <1>4, <1>5, <1>6, <1>7, <1>8 DEF s

-----------------------------------------------------------------------------
(* The run of zeros that is left out *)

\* The places of the words in their runs, one after the other.
LEMMA RunsAre ==
    ASSUME NEW a \in [0..7 -> Nat]
    PROVE  \E R \in [0..7 -> Int] :
             /\ Runs(a) = R /\ R[0] = Place(a, 0, -1)
             /\ \A i \in 1..7 : R[i] = Place(a, i, R[i - 1])
<1> DEFINE G == [i \in 1..7 |-> [b \in Int |-> Place(a, i, b)]]
           place == CHOOSE f : f = [i \in 0..7 |-> Place(a, i, IF i = 0 THEN -1 ELSE f[i - 1])]
<1>1. \A i \in 0..7 : \A b \in Int : Place(a, i, b) \in Int
  <2> SUFFICES ASSUME NEW i \in 0..7, NEW b \in Int PROVE Place(a, i, b) \in Int OBVIOUS
  <2>1. CASE a[i] # 0 BY <2>1 DEF Place
  <2>2. CASE a[i] = 0 /\ b = -1 BY <2>2 DEF Place
  <2>3. CASE a[i] = 0 /\ b # -1
    <3>1. Place(a, i, b) = b + 1
      <4>1. ~(a[i] # 0) /\ ~(b = -1) BY ONLY <2>3
      <4> QED BY ONLY <4>1 DEF Place
    <3>2. b + 1 \in Int OBVIOUS
    <3> QED BY ONLY Zenon, <3>1, <3>2
  <2> QED BY ONLY <2>1, <2>2, <2>3, a[i] # 0 \/ a[i] = 0
<1>2. G \in Makers(7, Int)
  <2>1. \A i \in 1..7 : i \in 0..7 OBVIOUS
  <2>2. \A i \in 1..7 : \A b \in Int : Place(a, i, b) \in Int BY ONLY Zenon, <1>1, <2>1
  <2> QED BY ONLY Zenon, <2>2 DEF Makers
<1>3. Place(a, 0, -1) \in Int BY <1>1
<1>4. PICK f : Follows(f, 7, Int, Place(a, 0, -1), G)
  <2>1. 7 \in Nat OBVIOUS
  <2> HIDE DEF G
  <2> QED BY ONLY <1>2, <1>3, <2>1, Recursion
<1>5. /\ f \in [0..7 -> Int] /\ f[0] = Place(a, 0, -1)
      /\ \A i \in 1..7 : f[i] = Place(a, i, f[i - 1])
  <2>1. /\ f \in [0..7 -> Int] /\ f[0] = Place(a, 0, -1)
        /\ \A i \in 1..7 : f[i] = G[i][f[i - 1]]
    BY ONLY <1>4 DEF Follows
  <2>2. ASSUME NEW i \in 1..7 PROVE f[i] = Place(a, i, f[i - 1])
    <3>1. f[i - 1] \in Int BY <2>1
    <3> QED BY <2>1, <3>1
  <2> QED BY <2>1, <2>2
<1>6. f = [i \in 0..7 |-> Place(a, i, IF i = 0 THEN -1 ELSE f[i - 1])]
  <2>1. \A i \in 0..7 : f[i] = Place(a, i, IF i = 0 THEN -1 ELSE f[i - 1]) BY <1>5
  <2> QED BY <1>5, <2>1
<1>7. place = [i \in 0..7 |-> Place(a, i, IF i = 0 THEN -1 ELSE place[i - 1])]
  BY ONLY Zenon, <1>6 DEF place
<1>8. Runs(a) = place BY DEF Runs
<1> HIDE DEF place, G
<1>9. place[0] = Place(a, 0, -1) /\ \A i \in 1..7 : place[i] = Place(a, i, place[i - 1])
  <2>1. \A i \in 0..7 : place[i] = Place(a, i, IF i = 0 THEN -1 ELSE place[i - 1]) BY ONLY <1>7
  <2> QED BY <2>1
<1>10. \A i \in 0..7 : place[i] \in Int
  <2> DEFINE A == {i \in 0..7 : place[i] \in Int}
  <2>1. 0 \in A
    <3>1. place[0] \in Int BY ONLY Zenon, <1>3, <1>9
    <3> QED BY <3>1
  <2>2. ASSUME NEW i \in 1..7, i - 1 \in A PROVE i \in A
    <3>1. place[i - 1] \in Int /\ i \in 0..7 BY <2>2
    <3>2. place[i] = Place(a, i, place[i - 1]) BY ONLY Zenon, <1>9, i \in 1..7
    <3>3. Place(a, i, place[i - 1]) \in Int BY ONLY Zenon, <1>1, <3>1
    <3>4. place[i] \in Int BY ONLY Zenon, <3>2, <3>3
    <3> QED BY <3>1, <3>4
  <2>3. 7 \in Nat OBVIOUS
  <2> HIDE DEF A
  <2>4. \A i \in 0..7 : i \in A BY ONLY <2>1, <2>2, <2>3, Ladder
  <2> QED BY <2>4 DEF A
<1>11. place \in [0..7 -> Int]
  <2>1. DOMAIN place = 0..7 /\ place = [i \in DOMAIN place |-> place[i]]
    BY ONLY <1>7
  <2> QED BY <1>10, <2>1
<1> QED BY <1>8, <1>9, <1>11

\* A word of zeros is at its place in a run that is marked from its first word.
InRun(a, R, i) ==
    IF a[i] # 0 THEN R[i] = -1
    ELSE /\ R[i] \in 1 .. i + 1
         /\ \A k \in i - R[i] + 1 .. i : a[k] = 0 /\ R[k] = k - (i - R[i])
         /\ R[i] = i + 1 \/ R[i - R[i]] = -1

\* Every place is in its run of zeros, and a run is as long as its last place says.
LEMMA PlacesAre ==
    ASSUME NEW a \in [0..7 -> Nat], NEW R \in [0..7 -> Int], R[0] = Place(a, 0, -1),
           \A i \in 1..7 : R[i] = Place(a, i, R[i - 1])
    PROVE  /\ \A i \in 0..7 : InRun(a, R, i)
           /\ \A i, j \in 0..7 : i <= j /\ (\A k \in i..j : a[k] = 0) => R[j] >= j - i + 1
<1>1. \A i \in 0..7 : InRun(a, R, i)
  <2> DEFINE A == {i \in 0..7 : InRun(a, R, i)}
  <2>1. 0 \in A
    <3>1. CASE a[0] # 0 BY <3>1 DEF Place, InRun
    <3>2. CASE a[0] = 0
      <4>1. R[0] = 1 BY <3>2 DEF Place
      <4> QED BY <3>2, <4>1 DEF InRun
    <3> QED BY <3>1, <3>2
  <2>2. ASSUME NEW i \in 1..7, i - 1 \in A PROVE i \in A
    <3>1. InRun(a, R, i - 1) /\ R[i] = Place(a, i, R[i - 1]) BY <2>2
    <3>2. CASE a[i] # 0 BY <3>1, <3>2 DEF Place, InRun
    <3>3. CASE a[i] = 0 /\ R[i - 1] = -1
      <4>1. R[i] = 1 BY <3>1, <3>3 DEF Place
      <4> QED BY <3>3, <4>1 DEF InRun
    <3>4. CASE a[i] = 0 /\ R[i - 1] # -1
      <4> DEFINE r == R[i - 1]
      <4>1. R[i] = r + 1 /\ r \in Int BY <3>1, <3>4 DEF Place
      <4>2. /\ r \in 1..i /\ (r = i \/ R[i - 1 - r] = -1)
            /\ \A k \in i - r .. i - 1 : a[k] = 0 /\ R[k] = k - (i - 1 - r)
        BY <3>1, <3>4 DEF InRun
      <4>3. i - R[i] = i - 1 - r /\ i - R[i] + 1 = i - r BY <4>1
      <4>4. \A k \in i - r .. i : a[k] = 0 /\ R[k] = k - (i - 1 - r)
        <5> SUFFICES ASSUME NEW k \in i - r .. i PROVE a[k] = 0 /\ R[k] = k - (i - 1 - r) OBVIOUS
        <5>1. CASE k = i BY <3>4, <4>1, <4>2, <5>1
        <5>2. CASE k # i
          <6>1. k \in i - r .. i - 1 BY <4>2, <5>2
          <6> QED BY <4>2, <6>1
        <5> QED BY <5>1, <5>2
      <4>5. R[i] \in 1 .. i + 1 /\ (R[i] = i + 1 \/ R[i - R[i]] = -1) BY <4>1, <4>2, <4>3
      <4> HIDE DEF r
      <4> QED BY <3>4, <4>3, <4>4, <4>5 DEF InRun
    <3> QED BY <3>2, <3>3, <3>4
  <2> HIDE DEF A
  <2>3. \A i \in 0..7 : i \in A BY <2>1, <2>2, Ladder
  <2> QED BY <2>3 DEF A
<1>2. ASSUME NEW i \in 0..7, NEW j \in 0..7, i <= j, \A k \in i..j : a[k] = 0
      PROVE  R[j] >= j - i + 1
  <2>1. InRun(a, R, j) /\ a[j] = 0 BY <1>1, <1>2
  <2>2. R[j] \in 1 .. j + 1 /\ (R[j] = j + 1 \/ R[j - R[j]] = -1) BY <2>1 DEF InRun
  <2>3. CASE R[j] = j + 1 BY <2>3
  <2>4. CASE R[j] # j + 1
    <3> DEFINE k == j - R[j]
    <3>1. k \in 0..7 /\ R[k] = -1 BY <2>2, <2>4
    <3>2. InRun(a, R, k) BY <1>1, <3>1
    <3>3. a[k] # 0 BY <3>1, <3>2 DEF InRun
    <3>4. ~(k \in i..j) BY <1>2, <3>3
    <3> QED BY <2>2, <3>1, <3>4
  <2> QED BY <2>3, <2>4
<1> QED BY <1>1, <1>2

\* The address has head words, the longest run of its zeros and tail words.
Gap(a, h, t) ==
    /\ h \in 0..8 /\ t \in 0..8 /\ h + t <= 8 /\ (h + t = 8 => h = 8)
    /\ Longest(Runs(a)) = 8 - (h + t)
    /\ maxpos(Runs(a)) = IF h = 8 THEN -1 ELSE 7 - t
    /\ Marked(Runs(a)) = [i \in 0..7 |-> IF i < h \/ i >= 8 - t THEN -1 ELSE i - h + 1]
    /\ \A i \in h .. 7 - t : a[i] = 0
    /\ \A i, j \in 0..7 : i <= j /\ (\A k \in i..j : a[k] = 0) => j - i + 1 <= 8 - (h + t)

\* Of eight places one is the highest, and one the first of the highest.
LEMMA HighestPlace ==
    ASSUME NEW R \in [0..7 -> Int]
    PROVE  /\ \E i \in 0..7 : \A j \in 0..7 : R[j] <= R[i]
           /\ \A m \in 0..7 : \E i \in 0..7 : R[i] = R[m] /\ \A j \in 0 .. i - 1 : R[j] # R[m]
<1>1. \E i \in 0..7 : \A j \in 0..7 : R[j] <= R[i]
  <2> DEFINE A == {n \in 0..7 : \E i \in 0..n : \A j \in 0..n : R[j] <= R[i]}
  <2>1. 0 \in A OBVIOUS
  <2>2. ASSUME NEW n \in 1..7, n - 1 \in A PROVE n \in A
    <3>1. PICK i \in 0 .. n - 1 : \A j \in 0 .. n - 1 : R[j] <= R[i] BY <2>2
    <3>2. \A j \in 0..n : j \in 0 .. n - 1 \/ j = n OBVIOUS
    <3>3. R[i] \in Int /\ R[n] \in Int /\ \A j \in 0..n : R[j] \in Int BY <3>1
    <3>4. CASE R[n] <= R[i]
      <4>1. \A j \in 0..n : R[j] <= R[i] BY <3>1, <3>2, <3>4
      <4> QED BY <4>1
    <3>5. CASE ~(R[n] <= R[i])
      <4>1. \A j \in 0..n : R[j] <= R[n] BY <3>1, <3>2, <3>3, <3>5
      <4> QED BY <4>1
    <3> QED BY <3>4, <3>5
  <2> HIDE DEF A
  <2>3. \A n \in 0..7 : n \in A BY <2>1, <2>2, Ladder
  <2>4. 7 \in A BY <2>3
  <2> QED BY <2>4 DEF A
<1>2. ASSUME NEW m \in 0..7
      PROVE  \E i \in 0..7 : R[i] = R[m] /\ \A j \in 0 .. i - 1 : R[j] # R[m]
  <2> DEFINE S == {i \in 0..7 : R[i] = R[m]}
  <2>1. S \in SUBSET Nat /\ m \in S OBVIOUS
  <2>2. PICK i \in S : \A j \in S : i <= j
    <3> HIDE DEF S
    <3> QED BY <2>1, Least
  <2>3. ASSUME NEW j \in 0 .. i - 1 PROVE R[j] # R[m] BY <2>2, <2>3
  <2> QED BY <2>2, <2>3
<1> QED BY <1>1, <1>2

\* An address has a gap: the words around the run of zeros that is left out.
LEMMA GapIs ==
    ASSUME NEW a \in [0..7 -> Nat]
    PROVE  \E h, t \in 0..8 : Gap(a, h, t)
<1>1. PICK R \in [0..7 -> Int] :
        /\ Runs(a) = R /\ R[0] = Place(a, 0, -1)
        /\ \A i \in 1..7 : R[i] = Place(a, i, R[i - 1])
  BY RunsAre
<1>2. /\ \A i \in 0..7 : InRun(a, R, i)
      /\ \A i, j \in 0..7 : i <= j /\ (\A k \in i..j : a[k] = 0) => R[j] >= j - i + 1
  BY <1>1, PlacesAre
<1> DEFINE m == CHOOSE i \in 0..7 : \A j \in 0..7 : R[j] <= R[i]
           L == IF R[m] = -1 THEN 0 ELSE R[m]
<1>3. m \in 0..7 /\ \A j \in 0..7 : R[j] <= R[m]
  <2>1. \E i \in 0..7 : \A j \in 0..7 : R[j] <= R[i] BY HighestPlace
  <2> QED BY <2>1
<1>4. Longest(R) = L BY DEF Longest
<1> HIDE DEF m
<1>5. CASE R[m] = -1
  <2>1. \A i \in 0..7 : a[i] # 0 /\ R[i] = -1
    <3> SUFFICES ASSUME NEW i \in 0..7 PROVE a[i] # 0 /\ R[i] = -1 OBVIOUS
    <3>1. InRun(a, R, i) /\ R[i] <= -1 BY <1>2, <1>3, <1>5
    <3> QED BY <3>1 DEF InRun
  <2>2. Longest(R) = 0 /\ maxpos(R) = -1 BY <1>4, <1>5 DEF maxpos
  <2>3. Marked(R) = [i \in 0..7 |-> -1]
    <3>1. \A i \in 0..7 : ~(i <= -1) OBVIOUS
    <3> QED BY <2>2, <3>1 DEF Marked
  <2>4. Marked(R) = [i \in 0..7 |-> IF i < 8 \/ i >= 8 - 0 THEN -1 ELSE i - 8 + 1]
    <3>1. \A i \in 0..7 : i < 8 OBVIOUS
    <3> QED BY <2>3, <3>1
  <2>5. ASSUME NEW i \in 0..7, NEW j \in 0..7 PROVE ~(i <= j /\ \A k \in i..j : a[k] = 0)
    BY <2>1
  <2>6. Gap(a, 8, 0) BY <1>1, <2>2, <2>4, <2>5 DEF Gap
  <2> QED BY <2>6
<1>6. CASE R[m] # -1
  <2>1. L = R[m] /\ L \in 1..8
    <3>1. InRun(a, R, m) BY <1>2, <1>3
    <3> QED BY <1>3, <1>6, <3>1 DEF InRun
  <2> HIDE DEF L
  <2> DEFINE last == CHOOSE i \in 0..7 : R[i] = L /\ \A j \in 0 .. i - 1 : R[j] < L
  <2>2. last \in 0..7 /\ R[last] = L /\ \A j \in 0 .. last - 1 : R[j] < L
    <3>1. PICK i \in 0..7 : R[i] = R[m] /\ \A j \in 0 .. i - 1 : R[j] # R[m]
      BY <1>3, HighestPlace
    <3>2. ASSUME NEW j \in 0 .. i - 1 PROVE R[j] < L
      <4>1. j \in 0..7 /\ R[j] \in Int /\ R[j] # L /\ R[j] <= L BY <1>3, <2>1, <3>1
      <4> QED BY <2>1, <4>1
    <3>3. \E x \in 0..7 : R[x] = L /\ \A j \in 0 .. x - 1 : R[j] < L BY <2>1, <3>1, <3>2
    <3> QED BY <3>3
  <2>3. maxpos(R) = last BY <1>4, <2>1 DEF maxpos
  <2> HIDE DEF last
  <2> DEFINE h == last - L + 1
             t == 7 - last
  <2>4. InRun(a, R, last) /\ a[last] = 0
    <3>1. InRun(a, R, last) BY <1>2, <2>2
    <3> QED BY <2>1, <2>2, <3>1 DEF InRun
  <2>5. /\ L <= last + 1 /\ (L = last + 1 \/ R[last - L] = -1)
        /\ \A k \in last - L + 1 .. last : a[k] = 0 /\ R[k] = k - (last - L)
    BY <2>1, <2>2, <2>4 DEF InRun
  <2>6. h \in 0..8 /\ t \in 0..8 /\ h + t = 8 - L /\ 8 - t = last + 1 /\ h <= last BY <2>1, <2>2, <2>5
  <2>7. \A i \in 0..7 : (i <= last /\ \A j \in i..last : R[j] # -1) <=> ~(i < h \/ i >= 8 - t)
    <3> SUFFICES ASSUME NEW i \in 0..7
                 PROVE  (i <= last /\ \A j \in i..last : R[j] # -1) <=> ~(i < h \/ i >= 8 - t)
      OBVIOUS
    <3>1. CASE i >= 8 - t BY <2>2, <2>6, <3>1
    <3>2. CASE i < h
      <4>1. last - L \in i..last /\ R[last - L] = -1 BY <2>1, <2>2, <2>5, <3>2
      <4> QED BY <3>2, <4>1
    <3>3. CASE ~(i < h \/ i >= 8 - t)
      <4>1. i <= last /\ i >= last - L + 1 BY <2>1, <2>2, <3>3
      <4>2. ASSUME NEW j \in i..last PROVE R[j] # -1
        <5>1. j \in last - L + 1 .. last BY <2>1, <2>2, <4>1
        <5>2. R[j] = j - (last - L) BY <2>5, <5>1
        <5> QED BY <2>1, <2>2, <5>1, <5>2
      <4> QED BY <3>3, <4>1, <4>2
    <3> QED BY <3>1, <3>2, <3>3
  <2>8. \A i \in 0..7 : ~(i < h \/ i >= 8 - t) => R[i] = i - h + 1 /\ a[i] = 0
    <3> SUFFICES ASSUME NEW i \in 0..7, ~(i < h \/ i >= 8 - t) PROVE R[i] = i - h + 1 /\ a[i] = 0
      OBVIOUS
    <3>1. i \in last - L + 1 .. last BY <2>1, <2>2
    <3> QED BY <2>1, <2>2, <2>5, <3>1
  <2>9. Marked(R) = [i \in 0..7 |-> IF i < h \/ i >= 8 - t THEN -1 ELSE i - h + 1]
    <3>1. Marked(R) = [i \in 0..7 |-> IF i <= last /\ \A j \in i..last : R[j] # -1 THEN R[i] ELSE -1]
      BY <2>3 DEF Marked
    <3> HIDE DEF h, t
    <3>2. \A i \in 0..7 : (IF i <= last /\ \A j \in i..last : R[j] # -1 THEN R[i] ELSE -1)
                            = IF i < h \/ i >= 8 - t THEN -1 ELSE i - h + 1
      BY <2>7, <2>8
    <3> QED BY <3>1, <3>2
  <2>10. \A i, j \in 0..7 : i <= j /\ (\A k \in i..j : a[k] = 0) => j - i + 1 <= L
    <3> SUFFICES ASSUME NEW i \in 0..7, NEW j \in 0..7, i <= j, \A k \in i..j : a[k] = 0
                 PROVE  j - i + 1 <= L
      OBVIOUS
    <3>1. R[j] >= j - i + 1 /\ R[j] <= L /\ R[j] \in Int BY <1>2, <1>3, <2>1
    <3> QED BY <2>1, <3>1
  <2>11. 8 - (h + t) = L /\ h + t <= 8 /\ h # 8 /\ h + t # 8 /\ 7 - t = last
    BY <2>1, <2>2, <2>6
  <2>12. \A i \in h .. 7 - t : a[i] = 0
    <3> SUFFICES ASSUME NEW i \in h .. 7 - t PROVE a[i] = 0 OBVIOUS
    <3>1. i \in last - L + 1 .. last BY <2>11
    <3> QED BY <2>5, <3>1
  <2> HIDE DEF h, t
  <2>13. Gap(a, h, t) BY <1>1, <1>4, <2>3, <2>6, <2>9, <2>10, <2>11, <2>12 DEF Gap
  <2> QED BY <2>6, <2>13
<1> QED BY <1>5, <1>6

-----------------------------------------------------------------------------
(* Printing eight words *)

\* A word in hex is a numeral that fits, and it is read as this word.
LEMMA PrintedWord ==
    ASSUME NEW v \in 0..MaxWord
    PROVE  IsWord(Printed(v, 16)) /\ Number(Printed(v, 16), 16) = v
<1>0. MaxWord \in Nat BY SMT DEF MaxWord
<1>1. v \in Nat /\ v <= MaxWord BY ONLY <1>0, v \in 0..MaxWord
<1>2. /\ Printed(v, 16) \in Seq(0 .. 16 - 1) /\ Len(Printed(v, 16)) \in 1..4
      /\ Number(Printed(v, 16), 16) = v
  BY ONLY <1>1, PrintedIs
<1> DEFINE p == Printed(v, 16)
<1> HIDE DEF p
<1>3. p \in Seq(0 .. 16 - 1) /\ Len(p) \in 1..4 BY ONLY <1>2 DEF p
<1>4. 0 .. 16 - 1 \subseteq 0..15 OBVIOUS
<1>5. p \in Seq(0..15) BY ONLY <1>3, <1>4, SeqMonotonic
<1>6. p # << >>
  <2> DEFINE n == Len(p)
  <2>0. n \in 1..4 BY ONLY <1>3
  <2> HIDE DEF n
  <2>3. n # 0 BY ONLY <2>0
  <2>1. Len(p) # 0 BY ONLY <2>3 DEF n
  <2>2. Len(<< >>) = 0 OBVIOUS
  <2> QED BY ONLY Zenon, <2>1, <2>2
<1>7. Len(p) <= 4
  <2> DEFINE n == Len(p)
  <2>1. n \in 1..4 BY ONLY <1>3
  <2> HIDE DEF n
  <2>2. n <= 4 BY ONLY <2>1
  <2> QED BY ONLY <2>2 DEF n
<1>8. IsWord(p) BY ONLY <1>5, <1>6, <1>7 DEF IsWord, Numeral
<1> QED BY ONLY <1>2, <1>8 DEF p

\* The text of an address with a gap, token by token, and how much of it is there
\* when the loop is at a word.
Drawing(a, h, t, i) ==
    IF i <= Tokens(h) THEN IF i % 2 = 1 THEN Printed(a[(i - 1) \div 2], 16) ELSE Colon
    ELSE IF i <= Tokens(h) + 2 THEN Colon
    ELSE IF (i - Tokens(h)) % 2 = 1 THEN Printed(a[8 - t + ((i - Tokens(h) - 3) \div 2)], 16)
    ELSE Colon

\* How many tokens are drawn when the printer comes to word c.
Upto(h, t, c) ==
    IF c < h THEN 2 * c
    ELSE IF c = h THEN Tokens(h)
    ELSE Tokens(h) + 2 + (IF c < 8 THEN 2 * (c - (8 - t)) ELSE Tokens(t))

\* The text that is drawn then.
Drawn(s, a, h, t, c) ==
    /\ s \in Seq(Token) /\ Len(s) = Upto(h, t, c)
    /\ \A i \in 1..Len(s) : s[i] = Drawing(a, h, t, i)

\* The words, the colons between them and the gap.
LEMMA DrawingIs ==
    ASSUME NEW a, NEW h \in 0..8, NEW t \in 0..8
    PROVE  /\ \A k \in 0 .. h - 1 : Drawing(a, h, t, 2 * k + 1) = Printed(a[k], 16)
           /\ \A k \in 1 .. h - 1 : Drawing(a, h, t, 2 * k) = Colon
           /\ Drawing(a, h, t, Tokens(h) + 1) = Colon
           /\ \A k \in Nat :
                /\ Drawing(a, h, t, Tokens(h) + 2 + 2 * k) = Colon
                /\ Drawing(a, h, t, Tokens(h) + 2 + 2 * k + 1) = Printed(a[8 - t + k], 16)
<1> DEFINE T == Tokens(h)
<1>0. T \in Nat /\ T = IF h = 0 THEN 0 ELSE 2 * h - 1 BY DEF Tokens
<1>1. ASSUME NEW k \in 0 .. h - 1 PROVE Drawing(a, h, t, 2 * k + 1) = Printed(a[k], 16)
  <2>1. 2 * k + 1 <= T /\ (2 * k + 1) % 2 = 1 /\ (2 * k + 1 - 1) \div 2 = k BY <1>0
  <2> QED BY <2>1 DEF Drawing
<1>2. ASSUME NEW k \in 1 .. h - 1 PROVE Drawing(a, h, t, 2 * k) = Colon
  <2>1. 2 * k <= T /\ (2 * k) % 2 = 0 BY <1>0
  <2> QED BY <2>1 DEF Drawing
<1>3. Drawing(a, h, t, Tokens(h) + 1) = Colon
  <2>1. ~(T + 1 <= T) /\ T + 1 <= T + 2 BY <1>0
  <2> QED BY ONLY <2>1 DEF Drawing
<1>4. ASSUME NEW k \in Nat PROVE Drawing(a, h, t, Tokens(h) + 2 + 2 * k) = Colon
  <2> DEFINE i == T + 2 + 2 * k
  <2>1. ~(i <= T) /\ (i - T) % 2 # 1
    <3> HIDE DEF T
    <3> QED BY ONLY <1>0, k \in Nat
  <2>2. Drawing(a, h, t, i) = Colon
    <3> HIDE DEF i
    <3> QED BY ONLY <2>1 DEF Drawing
  <2> QED BY ONLY <2>2
<1>5. ASSUME NEW k \in Nat
      PROVE  Drawing(a, h, t, Tokens(h) + 2 + 2 * k + 1) = Printed(a[8 - t + k], 16)
  <2> DEFINE i == T + 2 + 2 * k + 1
             j == (i - T - 3) \div 2
  <2>1. ~(i <= T) /\ ~(i <= T + 2) /\ (i - T) % 2 = 1 /\ j = k
    <3> HIDE DEF T
    <3> QED BY ONLY <1>0, k \in Nat
  <2>2. Drawing(a, h, t, i) = Printed(a[8 - t + j], 16)
    <3> HIDE DEF i
    <3> QED BY ONLY <2>1 DEF Drawing
  <2> QED BY ONLY Zenon, <2>1, <2>2
<1> QED BY ONLY <1>1, <1>2, <1>3, <1>4, <1>5

\* A gap leaves at least one word out, or there is none.
Split(h, t) == h \in 0..8 /\ t \in 0..8 /\ h + t <= 8 /\ (h + t = 8 => h = 8)

\* A word is printed, and the colon after it if neither the gap nor the end follows.
LEMMA DrawWord ==
    ASSUME NEW a, \A i \in 0..7 : IsWord(Printed(a[i], 16)),
           NEW h, NEW t, Split(h, t), NEW c \in 0..7, c < h \/ c >= 8 - t, NEW d, d = c + 1,
           NEW s, Drawn(s, a, h, t, c)
    PROVE  /\ c # 7 /\ d # h => Drawn(s \o <<Printed(a[c], 16)>> \o <<Colon>>, a, h, t, d)
           /\ ~(c # 7 /\ d # h) => Drawn(s \o <<Printed(a[c], 16)>> \o << >>, a, h, t, d)
<1> DEFINE p == Printed(a[c], 16)
           T == Tokens(h)
           n == Len(s)
<1>0. /\ h \in 0..8 /\ t \in 0..8 /\ h + t <= 8 /\ (h + t = 8 => h = 8)
      /\ s \in Seq(Token) /\ n \in Nat
      /\ p \in Token /\ Colon \in Token
      /\ T \in Nat /\ T = IF h = 0 THEN 0 ELSE 2 * h - 1
  <2>1. p \in Token BY DEF IsWord, Token
  <2>2. s \in Seq(Token) /\ n \in Nat BY DEF Drawn
  <2>3. Colon \in Token BY DEF Token
  <2>4. h \in 0..8 /\ t \in 0..8 /\ h + t <= 8 /\ (h + t = 8 => h = 8) BY DEF Split
  <2>5. T \in Nat /\ T = IF h = 0 THEN 0 ELSE 2 * h - 1 BY <2>4 DEF Tokens
  <2> QED BY <2>1, <2>2, <2>3, <2>4, <2>5
<1>d. /\ \A k \in 0 .. h - 1 : Drawing(a, h, t, 2 * k + 1) = Printed(a[k], 16)
      /\ \A k \in 1 .. h - 1 : Drawing(a, h, t, 2 * k) = Colon
      /\ \A k \in Nat :
           /\ Drawing(a, h, t, T + 2 + 2 * k) = Colon
           /\ Drawing(a, h, t, T + 2 + 2 * k + 1) = Printed(a[8 - t + k], 16)
  BY ONLY <1>0, DrawingIs
<1>1. /\ n = IF c < h THEN 2 * c ELSE T + 2 + 2 * (c - (8 - t))
      /\ c >= h => c # h
  BY <1>0 DEF Drawn, Upto
<1>2. Drawing(a, h, t, n + 1) = p
  <2>1. CASE c < h
    <3>1. n + 1 = 2 * c + 1 /\ c \in 0 .. h - 1 BY <1>0, <1>1, <2>1
    <3> QED BY ONLY Zenon, <1>d, <3>1
  <2>2. CASE ~(c < h)
    <3> DEFINE k == c - (8 - t)
    <3>1. k \in Nat /\ n = T + 2 + 2 * k /\ k + (8 - t) = c BY <1>0, <1>1, <2>2
    <3> HIDE DEF k, n
    <3>2. n + 1 = T + 2 + 2 * k + 1 BY <3>1
    <3>3. Drawing(a, h, t, T + 2 + 2 * k + 1) = Printed(a[8 - t + k], 16) BY ONLY Zenon, <1>d, <3>1
    <3>4. 8 - t + k = c BY <1>0, <3>1
    <3> QED BY ONLY Zenon, <3>2, <3>3, <3>4 DEF p
  <2> QED BY <2>1, <2>2
<1>3. c # 7 /\ d # h => Drawing(a, h, t, n + 2) = Colon
  <2> SUFFICES ASSUME c # 7, d # h PROVE Drawing(a, h, t, n + 2) = Colon OBVIOUS
  <2>1. CASE c < h
    <3>1. n + 2 = 2 * (c + 1) /\ c + 1 \in 1 .. h - 1 BY <1>0, <1>1, <2>1
    <3> QED BY ONLY Zenon, <1>d, <3>1
  <2>2. CASE ~(c < h)
    <3> DEFINE k == c + 1 - (8 - t)
    <3>1. k \in Nat /\ n + 2 = T + 2 + 2 * k BY <1>0, <1>1, <2>2
    <3> HIDE DEF k, n
    <3> QED BY ONLY Zenon, <1>d, <3>1
  <2> QED BY <2>1, <2>2
<1>4. Upto(h, t, d) = IF c # 7 /\ d # h THEN n + 2 ELSE n + 1
  <2>1. CASE c < h
    <3>1. CASE d < h BY <1>0, <1>1, <2>1, <3>1 DEF Upto
    <3>2. CASE d = h BY <1>0, <1>1, <2>1, <3>2 DEF Upto, Tokens
    <3> QED BY <1>0, <2>1, <3>1, <3>2
  <2>2. CASE ~(c < h)
    <3>1. ~(d < h) /\ d # h BY <1>0, <2>2
    <3>2. CASE c = 7
      <4>1. Upto(h, t, d) = T + 2 + Tokens(t) BY <3>1, <3>2 DEF Upto
      <4>2. Tokens(t) = 2 * t - 1 BY <1>0, <2>2, <3>2 DEF Tokens
      <4> QED BY <1>0, <1>1, <2>2, <3>2, <4>1, <4>2
    <3>3. CASE c # 7
      <4>2. ~(d < h) /\ d # h /\ d < 8 BY <3>1, <3>3
      <4>1. Upto(h, t, d) = T + 2 + 2 * (d - (8 - t)) BY ONLY <4>2 DEF Upto
      <4> QED BY <1>0, <1>1, <2>2, <3>1, <3>3, <4>1
    <3> QED BY <3>2, <3>3
  <2> QED BY <2>1, <2>2
<1>5. \A i \in 1..n : s[i] = Drawing(a, h, t, i) BY DEF Drawn
<1> HIDE DEF p, n
<1>6. <<p>> \in Seq(Token) /\ Len(<<p>>) = 1 /\ <<p>>[1] = p BY <1>0
<1>7. /\ s \o <<p>> \in Seq(Token) /\ Len(s \o <<p>>) = n + 1
      /\ \A i \in 1 .. n + 1 : (s \o <<p>>)[i] = Drawing(a, h, t, i)
  <2>1. /\ s \o <<p>> \in Seq(Token) /\ Len(s \o <<p>>) = n + 1
        /\ \A i \in 1 .. n + 1 : (s \o <<p>>)[i] = IF i <= n THEN s[i] ELSE <<p>>[i - n]
    BY <1>0, <1>6, ConcatProperties DEF n
  <2> SUFFICES ASSUME NEW i \in 1 .. n + 1 PROVE (s \o <<p>>)[i] = Drawing(a, h, t, i) BY <2>1
  <2>2. CASE i <= n
    <3>1. i \in 1..n BY <1>0, <2>2
    <3> QED BY <1>5, <2>1, <2>2, <3>1
  <2>3. CASE ~(i <= n)
    <3>1. i = n + 1 /\ i - n = 1 BY <1>0, <2>3
    <3> QED BY <1>2, <1>6, <2>1, <2>3, <3>1
  <2> QED BY <2>2, <2>3
<1> DEFINE q == s \o <<p>>
<1>8. q \in Seq(Token) /\ Len(q) = n + 1 /\ \A i \in 1 .. n + 1 : q[i] = Drawing(a, h, t, i)
  BY <1>7
<1> HIDE DEF q
<1>9. CASE ~(c # 7 /\ d # h)
  <2>1. q \o << >> = q BY <1>8, ConcatEmptySeq
  <2>2. Drawn(q, a, h, t, d) BY <1>4, <1>8, <1>9 DEF Drawn
  <2> QED BY <1>9, <2>1, <2>2 DEF p, q
<1>10. CASE c # 7 /\ d # h
  <2> DEFINE r == q \o <<Colon>>
  <2>1. <<Colon>> \in Seq(Token) /\ Len(<<Colon>>) = 1 /\ <<Colon>>[1] = Colon BY <1>0
  <2>2. /\ r \in Seq(Token) /\ Len(r) = n + 2
        /\ \A i \in 1 .. n + 2 : r[i] = IF i <= n + 1 THEN q[i] ELSE <<Colon>>[i - (n + 1)]
    <3>1. n + 1 + 1 = n + 2 BY <1>0
    <3> QED BY <1>8, <2>1, <3>1, ConcatProperties
  <2> HIDE DEF r
  <2>3. ASSUME NEW i \in 1 .. n + 2 PROVE r[i] = Drawing(a, h, t, i)
    <3>1. CASE i <= n + 1
      <4>1. i \in 1 .. n + 1 BY <1>0, <3>1
      <4> QED BY <1>8, <2>2, <3>1, <4>1
    <3>2. CASE ~(i <= n + 1)
      <4>1. i = n + 2 /\ i - (n + 1) = 1 BY <1>0, <3>2
      <4> QED BY <1>3, <1>10, <2>1, <2>2, <3>2, <4>1
    <3> QED BY <3>1, <3>2
  <2>4. Drawn(r, a, h, t, d) BY <1>4, <1>10, <2>2, <2>3 DEF Drawn
  <2> QED BY <1>10, <2>4 DEF p, q, r
<1> QED BY <1>9, <1>10

\* The gap is printed, and the words after it are next.
LEMMA DrawRun ==
    ASSUME NEW a, NEW h, NEW t, Split(h, t), h < 8, NEW s, Drawn(s, a, h, t, h)
    PROVE  Drawn(s \o <<Colon, Colon>>, a, h, t, 8 - t)
<1> DEFINE T == Tokens(h)
           r == s \o <<Colon, Colon>>
<1>0. h \in 0..8 /\ t \in 0..8 /\ h + t < 8 /\ T \in Nat BY DEF Split, Tokens
<1>1. s \in Seq(Token) /\ Len(s) = T /\ \A i \in 1..T : s[i] = Drawing(a, h, t, i)
  BY <1>0 DEF Drawn, Upto
<1>2. /\ <<Colon, Colon>> \in Seq(Token) /\ Len(<<Colon, Colon>>) = 2
      /\ <<Colon, Colon>>[1] = Colon /\ <<Colon, Colon>>[2] = Colon
  BY DEF Token
<1>3. /\ r \in Seq(Token) /\ Len(r) = T + 2
      /\ \A i \in 1 .. T + 2 : r[i] = IF i <= T THEN s[i] ELSE <<Colon, Colon>>[i - T]
  BY <1>1, <1>2, ConcatProperties
<1>4. Upto(h, t, 8 - t) = T + 2
  <2>1. CASE t = 0 BY <1>0, <2>1 DEF Upto, Tokens
  <2>2. CASE t # 0 BY <1>0, <2>2 DEF Upto
  <2> QED BY <2>1, <2>2
<1> HIDE DEF r
<1>5. ASSUME NEW i \in 1 .. T + 2 PROVE r[i] = Drawing(a, h, t, i)
  <2>1. CASE i <= T
    <3>1. i \in 1..T BY <1>0, <2>1
    <3> QED BY <1>1, <1>3, <2>1, <3>1
  <2>2. CASE ~(i <= T)
    <3>1. i - T = 1 \/ i - T = 2 BY <1>0, <2>2
    <3>2. r[i] = Colon BY <1>2, <1>3, <2>2, <3>1
    <3> QED BY <1>0, <2>2, <3>2 DEF Drawing
  <2> QED BY <2>1, <2>2
<1>6. Drawn(r, a, h, t, 8 - t) BY <1>3, <1>4, <1>5 DEF Drawn
<1> QED BY <1>6 DEF r

\* An address of eight words that can be printed, the zeros that its gap leaves out,
\* and the form that it is printed in.
EightWords(a) ==
    /\ DOMAIN a = 0..7 /\ a = [i \in 0..7 |-> a[i]]
    /\ \A i \in 0..7 : IsWord(Printed(a[i], 16)) /\ Number(Printed(a[i], 16), 16) = a[i]

Zeros(a, h, t) == \A i \in h .. 7 - t : a[i] = 0

FormOf(f, h, t) == f.lead = 0 /\ f.head = h /\ f.tail = t /\ (f.gap <=> (h < 8))

\* What is drawn up to the eighth word has the form of the gap, and writes the address.
LEMMA DrawnForm ==
    ASSUME NEW a, EightWords(a), NEW h, NEW t, Split(h, t), Zeros(a, h, t),
           NEW s, Drawn(s, a, h, t, 8), NEW f, FormOf(f, h, t)
    PROVE  HasForm(s, f) /\ Written(s, f) = a
<1> USE DEF EightWords, Zeros, FormOf
<1> DEFINE T == Tokens(h)
<1>0. /\ h \in 0..8 /\ t \in 0..8 /\ h + t <= 8 /\ (h + t = 8 => h = 8)
      /\ T \in Nat /\ T = IF h = 0 THEN 0 ELSE 2 * h - 1
  BY DEF Split, Tokens
<1>d. /\ \A k \in 0 .. h - 1 : Drawing(a, h, t, 2 * k + 1) = Printed(a[k], 16)
      /\ \A k \in 1 .. h - 1 : Drawing(a, h, t, 2 * k) = Colon
      /\ Drawing(a, h, t, T + 1) = Colon
      /\ \A k \in Nat :
           /\ Drawing(a, h, t, T + 2 + 2 * k) = Colon
           /\ Drawing(a, h, t, T + 2 + 2 * k + 1) = Printed(a[8 - t + k], 16)
  BY ONLY <1>0, DrawingIs
<1>2. Behind(f) = T + (IF h < 8 THEN 2 ELSE 0) /\ Behind(f) \in Nat
  <2>1. CASE h < 8 BY <1>0, <2>1 DEF Behind
  <2>2. CASE ~(h < 8) BY <1>0, <2>2 DEF Behind
  <2> QED BY <2>1, <2>2
<1>3. Len(s) = Behind(f) + Tokens(t)
  <2>1. CASE h = 8
    <3>1. t = 0 BY <1>0, <2>1
    <3> QED BY <1>0, <1>2, <2>1, <3>1 DEF Drawn, Upto, Tokens
  <2>2. CASE h # 8 BY <1>0, <1>2, <2>2 DEF Drawn, Upto
  <2> QED BY <2>1, <2>2
<1>4. \A i \in 1..Len(s) : s[i] = Drawing(a, h, t, i) BY DEF Drawn
<1>5. Tokens(t) \in Nat /\ Tokens(t) = IF t = 0 THEN 0 ELSE 2 * t - 1 BY <1>0 DEF Tokens
<1>6. \A k \in 0 .. h - 1 : s[2 * k + 1] = Printed(a[k], 16) /\ (k > 0 => s[2 * k] = Colon)
  <2> SUFFICES ASSUME NEW k \in 0 .. h - 1
               PROVE  s[2 * k + 1] = Printed(a[k], 16) /\ (k > 0 => s[2 * k] = Colon)
    OBVIOUS
  <2>1. 2 * k + 1 \in 1..Len(s) /\ (k > 0 => 2 * k \in 1..Len(s) /\ k \in 1 .. h - 1)
    <3> DEFINE n == Len(s)
    <3>1. n \in Nat /\ n >= T BY <1>0, <1>2, <1>3, <1>5
    <3> HIDE DEF n
    <3>2. 2 * k + 1 \in 1..n /\ (k > 0 => 2 * k \in 1..n /\ k \in 1 .. h - 1)
      BY ONLY <1>0, <3>1, k \in 0 .. h - 1
    <3> QED BY ONLY <3>2 DEF n
  <2>2. s[2 * k + 1] = Printed(a[k], 16) BY ONLY Zenon, <1>4, <1>d, <2>1, k \in 0 .. h - 1
  <2>3. ASSUME k > 0 PROVE s[2 * k] = Colon
    <3>1. 2 * k \in 1..Len(s) /\ k \in 1 .. h - 1 BY ONLY <2>1, <2>3
    <3>2. Drawing(a, h, t, 2 * k) = Colon BY ONLY Zenon, <1>d, <3>1
    <3>3. s[2 * k] = Drawing(a, h, t, 2 * k) BY ONLY Zenon, <1>4, <3>1
    <3> QED BY ONLY Zenon, <3>2, <3>3
  <2> QED BY <2>2, <2>3
<1>7. \A k \in 0 .. t - 1 : /\ s[Behind(f) + 2 * k + 1] = Printed(a[8 - t + k], 16)
                            /\ k > 0 => s[Behind(f) + 2 * k] = Colon
  <2> SUFFICES ASSUME NEW k \in 0 .. t - 1
               PROVE  /\ s[Behind(f) + 2 * k + 1] = Printed(a[8 - t + k], 16)
                      /\ k > 0 => s[Behind(f) + 2 * k] = Colon
    OBVIOUS
  <2>1. Behind(f) = T + 2 /\ k \in Nat BY <1>0, <1>2
  <2> DEFINE i == T + 2 + 2 * k
  <2>2. i + 1 \in 1..Len(s) /\ (k > 0 => i \in 1..Len(s)) /\ i \in Nat
    <3> DEFINE n == Len(s)
    <3>1. n \in Nat /\ n = T + 2 + (2 * t - 1) BY <1>0, <1>3, <1>5, <2>1
    <3> HIDE DEF n
    <3>2. i + 1 \in 1..n /\ (k > 0 => i \in 1..n) /\ i \in Nat
      BY ONLY <1>0, <3>1, k \in 0 .. t - 1
    <3> QED BY ONLY <3>2 DEF n
  <2>4. s[i + 1] = Printed(a[8 - t + k], 16) BY ONLY Zenon, <1>4, <1>d, <2>1, <2>2
  <2>5. k > 0 => s[i] = Colon BY ONLY Zenon, <1>4, <1>d, <2>1, <2>2
  <2> QED BY <2>1, <2>4, <2>5
<1>8. h < 8 => s[Behind(f) - 1] = Colon /\ s[Behind(f)] = Colon
  <2> SUFFICES ASSUME h < 8 PROVE s[Behind(f) - 1] = Colon /\ s[Behind(f)] = Colon OBVIOUS
  <2>0. Behind(f) = T + 2 BY <1>2
  <2>1. T + 2 - 1 \in 1..Len(s) /\ T + 2 \in 1..Len(s) BY <1>0, <1>2, <1>3, <1>5
  <2>2. T + 2 - 1 = T + 1 /\ T + 2 + 2 * 0 = T + 2 /\ 0 \in Nat BY <1>0
  <2>3. Drawing(a, h, t, T + 1) = Colon /\ Drawing(a, h, t, T + 2 + 2 * 0) = Colon
    BY ONLY Zenon, <1>d, <2>2
  <2> DEFINE b == Behind(f)
  <2>4. s[T + 2 - 1] = Colon /\ s[T + 2] = Colon BY ONLY Zenon, <1>4, <2>1, <2>2, <2>3
  <2>5. b = T + 2 /\ T \in Nat BY ONLY <1>0, <2>0
  <2> HIDE DEF T, b
  <2>6. s[b - 1] = Colon /\ s[b] = Colon BY ONLY <2>4, <2>5
  <2> QED BY ONLY <2>6 DEF b
<1>9. HasForm(s, f)
  <2>2. Listed(s, 0, h)
    <3>1. \A k \in 0 .. h - 1 : k \in 0..7 /\ 0 + 2 * k + 1 = 2 * k + 1 /\ 0 + 2 * k = 2 * k BY <1>0
    <3> QED BY <1>6, <3>1 DEF Listed
  <2>3. Listed(s, Behind(f), t)
    <3>1. \A k \in 0 .. t - 1 : 8 - t + k \in 0..7 BY <1>0
    <3> QED BY <1>7, <3>1 DEF Listed
  <2> QED BY <1>0, <1>2, <1>3, <1>8, <2>2, <2>3 DEF HasForm
<1>10. Written(s, f) = a
  <2> DEFINE w(i) == IF i < h THEN Number(s[0 + 2 * i + 1], 16)
                     ELSE IF i < 8 - t THEN 0
                     ELSE Number(s[Behind(f) + 2 * (i - (8 - t)) + 1], 16)
  <2>1. Written(s, f) = [i \in 0..7 |-> w(i)] BY DEF Written
  <2>2. ASSUME NEW i \in 0..7 PROVE w(i) = a[i]
    <3>1. CASE i < h
      <4>1. i \in 0 .. h - 1 /\ 0 + 2 * i + 1 = 2 * i + 1 BY <1>0, <3>1
      <4>2. w(i) = Number(s[0 + 2 * i + 1], 16) BY ONLY <3>1
      <4> QED BY ONLY Zenon, <1>6, <4>1, <4>2, i \in 0..7,
                       \A j \in 0..7 : Number(Printed(a[j], 16), 16) = a[j]
    <3>2. CASE ~(i < h) /\ i < 8 - t
      <4>1. i \in h .. 7 - t BY <1>0, <3>2
      <4> QED BY <3>2, <4>1
    <3>3. CASE ~(i < h) /\ ~(i < 8 - t)
      <4> DEFINE k == i - (8 - t)
      <4>1. k \in 0 .. t - 1 /\ 8 - t + k = i BY <1>0, <3>3
      <4> HIDE DEF k
      <4>2. s[Behind(f) + 2 * k + 1] = Printed(a[i], 16) BY <1>7, <4>1
      <4> QED BY <3>3, <4>2 DEF k
    <3> QED BY <3>1, <3>2, <3>3
  <2> HIDE DEF w
  <2> QED BY <2>1, <2>2
<1> QED BY <1>9, <1>10

-----------------------------------------------------------------------------
(* Reading eight words: a text that is read has a form *)

\* From a place p the reader has taken j words of n and the colons between them;
\* a colon may have come before them.
Steps(s, p, o, j, r, n) ==
    /\ o \in 0..1 /\ j \in 0..n /\ p \in Nat /\ r \in 0..Len(s)
    /\ o = 1 => s[p + 1] = Colon
    /\ Listed(s, p + o, j)
    /\ \/ j > 0 /\ r = p + o + 2 * j - 1 /\ (r = Len(s) \/ s[r + 1] = Colon)
       \/ /\ j < n /\ r = p + o + 2 * j /\ (j > 0 => s[r] = Colon)
          /\ o + j > 0 => r = Len(s) \/ s[r + 1] # Colon

\* A word is a step, when the text ends behind it or a colon follows.
LEMMA StepWord ==
    ASSUME NEW s \in Seq(Token), NEW n \in Nat, NEW p, NEW o, NEW j, NEW r,
           Steps(s, p, o, j, r, n), j < n, r < Len(s), IsWord(s[r + 1]),
           r + 1 = Len(s) \/ s[r + 2] = Colon, NEW j2, j2 = j + 1, NEW r2, r2 = r + 1
    PROVE  Steps(s, p, o, j2, r2, n)
<1> DEFINE l == Len(s)
<1>1. l \in Nat OBVIOUS
<1>2. o \in 0..1 /\ j \in 0..n /\ p \in Nat /\ r \in 0..l BY DEF Steps
<1>3. s[r + 1] # Colon BY Separators DEF IsWord
<1>4. r = p + o + 2 * j /\ (j > 0 => s[r] = Colon) BY <1>1, <1>2, <1>3 DEF Steps
<1>5. Listed(s, p + o, j2)
  <2> SUFFICES ASSUME NEW k \in 0 .. j2 - 1
               PROVE  IsWord(s[p + o + 2 * k + 1]) /\ (k > 0 => s[p + o + 2 * k] = Colon)
    BY DEF Listed
  <2>1. CASE k = j
    <3>1. p + o + 2 * k = r /\ p + o + 2 * k + 1 = r + 1 BY <1>2, <1>4, <2>1
    <3> QED BY <1>4, <2>1, <3>1
  <2>2. CASE k # j
    <3>1. k \in 0 .. j - 1 BY <1>2, <2>2
    <3> QED BY <3>1 DEF Steps, Listed
  <2> QED BY <2>1, <2>2
<1>6. r2 = p + o + 2 * j2 - 1 /\ j2 > 0 /\ j2 \in 0..n /\ r2 \in 0..l /\ r2 + 1 = r + 2
  BY <1>1, <1>2, <1>4
<1> QED BY <1>2, <1>5, <1>6 DEF Steps

\* A colon is a step, when no second one follows.
LEMMA StepColon ==
    ASSUME NEW s \in Seq(Token), NEW n \in Nat, NEW p, NEW o, NEW j, NEW r,
           Steps(s, p, o, j, r, n), j < n, r < Len(s), s[r + 1] = Colon,
           r + 2 <= Len(s) => s[r + 2] # Colon, NEW r2, r2 = r + 1
    PROVE  \E q \in 0..1 : Steps(s, p, q, j, r2, n)
<1> DEFINE l == Len(s)
<1>1. l \in Nat OBVIOUS
<1>2. o \in 0..1 /\ j \in 0..n /\ p \in Nat /\ r \in 0..l BY DEF Steps
<1>3. r2 \in 0..l /\ (r2 = l \/ s[r2 + 1] # Colon) /\ s[r2] = Colon
  <2>1. r2 + 1 = r + 2 BY <1>2
  <2> QED BY <1>1, <1>2, <2>1
<1>4. CASE j > 0 /\ r = p + o + 2 * j - 1
  <2>1. r2 = p + o + 2 * j BY <1>2, <1>4
  <2>2. Steps(s, p, o, j, r2, n) BY <1>2, <1>3, <2>1 DEF Steps
  <2> QED BY <1>2, <2>2
<1>5. CASE ~(j > 0 /\ r = p + o + 2 * j - 1)
  <2>1. r = p + o + 2 * j /\ ~(o + j > 0) BY <1>1, <1>2, <1>5 DEF Steps
  <2>2. o = 0 /\ j = 0 /\ r = p /\ r2 = p + 1 /\ r2 = p + 1 + 2 * j BY <1>2, <2>1
  <2>3. Listed(s, p + 1, j) BY <2>2 DEF Listed
  <2>4. Steps(s, p, 1, j, r2, n) BY <1>2, <1>3, <2>2, <2>3 DEF Steps
  <2> QED BY <2>4
<1> QED BY <1>4, <1>5

\* The colons of a text from one place to another.
Colons(s, i, k) == {x \in i..k : s[x] = Colon}

\* One place more holds one colon more, or none.
LEMMA ColonsNext ==
    ASSUME NEW s, NEW i \in Nat, NEW k \in Nat, i <= k + 1
    PROVE  /\ IsFiniteSet(Colons(s, i, k)) /\ Cardinality(Colons(s, i, k)) \in Nat
           /\ Colons(s, i, i - 1) = {}
           /\ Cardinality(Colons(s, i, k + 1))
                = Cardinality(Colons(s, i, k)) + (IF s[k + 1] = Colon THEN 1 ELSE 0)
<1>1. IsFiniteSet(Colons(s, i, k)) /\ Cardinality(Colons(s, i, k)) \in Nat
  <2>1. IsFiniteSet(i..k) BY FS_Interval
  <2>2. IsFiniteSet(Colons(s, i, k)) BY <2>1, FS_Subset DEF Colons
  <2> QED BY <2>2, FS_CardinalityType
<1>2. Colons(s, i, i - 1) = {} BY DEF Colons
<1>3. CASE s[k + 1] = Colon
  <2>1. Colons(s, i, k + 1) = Colons(s, i, k) \cup {k + 1} BY <1>3 DEF Colons
  <2>2. k + 1 \notin Colons(s, i, k) BY DEF Colons
  <2> QED BY <1>1, <1>2, <1>3, <2>1, <2>2, FS_AddElement
<1>4. CASE s[k + 1] # Colon
  <2>1. Colons(s, i, k + 1) = Colons(s, i, k) BY <1>4 DEF Colons
  <2> QED BY <1>1, <1>2, <1>4, <2>1
<1> QED BY <1>3, <1>4

\* Everything of a form up to the end of its gap.
Gapped(s, f) ==
    /\ f.gap /\ f.head + f.tail <= 8 /\ f.head < 8 /\ Behind(f) <= Len(s)
    /\ f.lead = 1 => s[1] = Colon /\ f.head > 0
    /\ Listed(s, f.lead, f.head) /\ s[Behind(f) - 1] = Colon /\ s[Behind(f)] = Colon

\* Behind the gap: j words of the tail, which the colons have told the length of.
Later(s, f, o, j, r, c) ==
    /\ Gapped(s, f) /\ f.tail > 0 /\ c = 8 - f.tail + j
    /\ Steps(s, Behind(f), o, j, r, f.tail)
    /\ Cardinality(Colons(s, Behind(f) + 1, Len(s))) = f.tail - 1
    /\ Behind(f) <= r /\ Cardinality(Colons(s, Behind(f) + 1, r)) = r - Behind(f) - j

\* What was taken begins a form: before a gap, at a gap that ends the text, behind one.
Sound(s, r, c, seen) ==
    \/ ~seen /\ \E o \in 0..1 : Steps(s, 0, o, c, r, 8)
    \/ c = 8 /\ r = Len(s) /\ \E f \in Forms : HasForm(s, f)
    \/ seen /\ \E f \in Forms : \E o \in 0..1, j \in 0 .. f.tail : Later(s, f, o, j, r, c)

\* What a form is made of, and where its gap ends.
LEMMA BehindIs ==
    ASSUME NEW f \in Forms
    PROVE  /\ f.lead \in 0..1 /\ f.head \in 0..8 /\ f.tail \in 0..8 /\ f.gap \in BOOLEAN
           /\ Tokens(f.head) \in Nat /\ Tokens(f.head) = (IF f.head = 0 THEN 0 ELSE 2 * f.head - 1)
           /\ Tokens(f.tail) \in Nat /\ Tokens(f.tail) = (IF f.tail = 0 THEN 0 ELSE 2 * f.tail - 1)
           /\ Behind(f) \in Nat /\ Behind(f) = f.lead + Tokens(f.head) + (IF f.gap THEN 2 ELSE 0)
<1>1. f.lead \in 0..1 /\ f.head \in 0..8 /\ f.tail \in 0..8 /\ f.gap \in BOOLEAN BY DEF Forms
<1>2. /\ Tokens(f.head) \in Nat /\ Tokens(f.head) = (IF f.head = 0 THEN 0 ELSE 2 * f.head - 1)
      /\ Tokens(f.tail) \in Nat /\ Tokens(f.tail) = (IF f.tail = 0 THEN 0 ELSE 2 * f.tail - 1)
  BY <1>1 DEF Tokens
<1>3. Behind(f) \in Nat /\ Behind(f) = f.lead + Tokens(f.head) + (IF f.gap THEN 2 ELSE 0)
  BY <1>1, <1>2 DEF Behind
<1> QED BY <1>1, <1>2, <1>3

\* Taking a word keeps what was taken the beginning of a form.
LEMMA SoundWord ==
    ASSUME NEW s \in Seq(Token), NEW r, NEW c \in 0..7, NEW seen \in BOOLEAN,
           Sound(s, r, c, seen), r < Len(s), IsWord(s[r + 1]),
           r + 1 = Len(s) \/ s[r + 2] = Colon, NEW c2, c2 = c + 1, NEW r2, r2 = r + 1
    PROVE  Sound(s, r2, c2, seen)
<1>1. ASSUME NEW o \in 0..1, ~seen, Steps(s, 0, o, c, r, 8) PROVE Sound(s, r2, c2, seen)
  <2>1. Steps(s, 0, o, c2, r2, 8)
    <3>1. c < 8 /\ 8 \in Nat OBVIOUS
    <3> QED BY <1>1, <3>1, StepWord
  <2> QED BY <1>1, <2>1 DEF Sound
<1>2. ASSUME NEW f \in Forms, NEW o \in 0..1, NEW j \in 0 .. f.tail, seen, Later(s, f, o, j, r, c)
      PROVE  Sound(s, r2, c2, seen)
  <2> DEFINE b == Behind(f)
             t == f.tail
             j2 == j + 1
  <2>1. t \in 0..8 /\ b \in Nat /\ r \in Nat /\ b <= r
    <3>1. t \in 0..8 /\ b \in Nat BY BehindIs
    <3>2. r \in Nat /\ b <= r BY <1>2 DEF Later, Steps
    <3> QED BY <3>1, <3>2
  <2>2. j < t /\ j2 \in 0..t /\ c2 = 8 - t + j2
    <3>1. c = 8 - t + j /\ j \in 0..t BY <1>2 DEF Later
    <3> HIDE DEF t
    <3> QED BY ONLY <2>1, <3>1, c \in 0..7, c2 = c + 1
  <2>3. Steps(s, b, o, j2, r2, t)
    <3>1. Steps(s, b, o, j, r, t) BY <1>2 DEF Later
    <3>2. t \in Nat BY ONLY <2>1
    <3>3. j2 = j + 1 OBVIOUS
    <3> HIDE DEF b, t, j2
    <3> QED BY <2>2, <3>1, <3>2, <3>3, StepWord
  <2>4. Cardinality(Colons(s, b + 1, r2)) = Cardinality(Colons(s, b + 1, r))
    <3>1. s[r + 1] # Colon BY Separators DEF IsWord
    <3>2. b + 1 \in Nat /\ b + 1 <= r + 1 BY <2>1
    <3> HIDE DEF b
    <3>3. Cardinality(Colons(s, b + 1, r)) \in Nat BY <2>1, <3>2, ColonsNext
    <3>4. Cardinality(Colons(s, b + 1, r + 1))
            = Cardinality(Colons(s, b + 1, r)) + (IF s[r + 1] = Colon THEN 1 ELSE 0)
      BY <2>1, <3>2, ColonsNext
    <3> QED BY <3>1, <3>3, <3>4
  <2>5. r2 - b - j2 = r - b - j /\ b <= r2 BY <2>1
  <2>6. Later(s, f, o, j2, r2, c2)
    <3> HIDE DEF j2
    <3> QED BY <1>2, <2>2, <2>3, <2>4, <2>5 DEF Later
  <2> QED BY <1>2, <2>2, <2>6 DEF Sound
<1> QED BY <1>1, <1>2 DEF Sound

\* Taking a colon does.
LEMMA SoundColon ==
    ASSUME NEW s \in Seq(Token), NEW r, NEW c \in 0..7, NEW seen \in BOOLEAN,
           Sound(s, r, c, seen), r < Len(s), s[r + 1] = Colon,
           r + 2 <= Len(s) => s[r + 2] # Colon, NEW r2, r2 = r + 1
    PROVE  Sound(s, r2, c, seen)
<1>1. ASSUME NEW o \in 0..1, ~seen, Steps(s, 0, o, c, r, 8) PROVE Sound(s, r2, c, seen)
  <2>1. \E q \in 0..1 : Steps(s, 0, q, c, r2, 8)
    <3>1. c < 8 /\ 8 \in Nat OBVIOUS
    <3> QED BY <1>1, <3>1, StepColon
  <2> QED BY <1>1, <2>1 DEF Sound
<1>2. ASSUME NEW f \in Forms, NEW o \in 0..1, NEW j \in 0 .. f.tail, seen, Later(s, f, o, j, r, c)
      PROVE  Sound(s, r2, c, seen)
  <2> DEFINE b == Behind(f)
             t == f.tail
  <2>1. t \in 0..8 /\ b \in Nat /\ r \in Nat /\ b <= r
    <3>1. t \in 0..8 /\ b \in Nat BY BehindIs
    <3>2. r \in Nat /\ b <= r BY <1>2 DEF Later, Steps
    <3> QED BY <3>1, <3>2
  <2>2. j < t
    <3>1. c = 8 - t + j /\ j \in 0..t BY <1>2 DEF Later
    <3> HIDE DEF t
    <3> QED BY ONLY <2>1, <3>1, c \in 0..7
  <2>3. PICK q \in 0..1 : Steps(s, b, q, j, r2, t)
    <3>1. Steps(s, b, o, j, r, t) /\ t \in Nat BY <1>2, <2>1 DEF Later
    <3> HIDE DEF b, t
    <3> QED BY <2>2, <3>1, StepColon
  <2>4. Cardinality(Colons(s, b + 1, r2)) = r2 - b - j
    <3>1. b + 1 \in Nat /\ b + 1 <= r + 1 BY <2>1
    <3>2. Cardinality(Colons(s, b + 1, r)) = r - b - j BY <1>2 DEF Later
    <3> HIDE DEF b
    <3>3. Cardinality(Colons(s, b + 1, r + 1))
            = Cardinality(Colons(s, b + 1, r)) + (IF s[r + 1] = Colon THEN 1 ELSE 0)
      BY <2>1, <3>1, ColonsNext
    <3>4. (r - b - j) + 1 = (r + 1) - b - j BY <2>1
    <3> DEFINE x == Cardinality(Colons(s, b + 1, r))
               y == Cardinality(Colons(s, b + 1, r + 1))
    <3>5. y = x + 1 BY ONLY <3>3, s[r + 1] = Colon
    <3>6. x = r - b - j BY ONLY <3>2
    <3> HIDE DEF x, y
    <3>7. y = (r + 1) - b - j BY ONLY <3>4, <3>5, <3>6
    <3>8. Cardinality(Colons(s, b + 1, r + 1)) = (r + 1) - b - j BY ONLY Zenon, <3>7 DEF y
    <3> QED BY ONLY Zenon, <3>8, r2 = r + 1
  <2>5. b <= r2 BY <2>1
  <2>6. Later(s, f, q, j, r2, c) BY <1>2, <2>3, <2>4, <2>5 DEF Later
  <2> QED BY <1>2, <2>6 DEF Sound
<1> QED BY <1>1, <1>2 DEF Sound

\* A form of c words, a gap that ends at r, and t words.
GapForm(s, f, c, t, r) == f.gap /\ f.head = c /\ f.tail = t /\ Behind(f) = r /\ Gapped(s, f)

\* Where two colons meet, the words before them are the head of a form.
LEMMA SoundGap ==
    ASSUME NEW s \in Seq(Token), NEW r, NEW c \in 0..7, NEW seen, ~seen, Sound(s, r, c, seen),
           NEW r2, r2 = r + 2, r2 <= Len(s),
           s[r + 1] = Colon, s[r + 2] = Colon, NEW t \in 0..8, c + t <= 8
    PROVE  \E f \in Forms : GapForm(s, f, c, t, r2)
<1>1. PICK o \in 0..1 : Steps(s, 0, o, c, r, 8)
  <2>1. ~(c = 8) OBVIOUS
  <2> QED BY <2>1 DEF Sound
<1> DEFINE l == Len(s)
           f == [lead |-> o, head |-> c, tail |-> t, gap |-> TRUE]
<1>2. l \in Nat OBVIOUS
<1>3. r \in Nat /\ r < l BY <1>1, <1>2 DEF Steps
<1>4. r = o + Tokens(c) /\ (o = 1 => c > 0)
  <2>1. CASE c > 0 /\ r = 0 + o + 2 * c - 1 BY <2>1 DEF Tokens
  <2>2. CASE ~(c > 0 /\ r = 0 + o + 2 * c - 1)
    <3>1. r = 0 + o + 2 * c /\ ~(o + c > 0) BY <1>1, <1>2, <1>3, <2>2 DEF Steps
    <3> QED BY <3>1 DEF Tokens
  <2> QED BY <2>1, <2>2
<1>5. f \in Forms /\ f.lead = o /\ f.head = c /\ f.tail = t /\ f.gap BY DEF Forms
<1>6. Listed(s, o, c) /\ (o = 1 => s[1] = Colon)
  <2>1. 0 + o = o /\ 0 + 1 = 1 OBVIOUS
  <2> QED BY <1>1, <2>1 DEF Steps
<1> HIDE DEF f
<1>7. Behind(f) = r + 2 BY <1>3, <1>4, <1>5, BehindIs
<1>8. s[Behind(f) - 1] = Colon
  <2>1. Behind(f) - 1 = r + 1 BY <1>3, <1>7
  <2> QED BY <2>1
<1>9. Gapped(s, f) BY <1>3, <1>4, <1>5, <1>6, <1>7, <1>8 DEF Gapped
<1> QED BY <1>3, <1>5, <1>7, <1>9 DEF GapForm

\* A reader that has all eight words at the end of the text has read a form.
LEMMA SoundEnd ==
    ASSUME NEW s \in Seq(Token), NEW seen, Sound(s, Len(s), 8, seen)
    PROVE  \E f \in Forms : HasForm(s, f)
<1> DEFINE l == Len(s)
<1>0. l \in Nat OBVIOUS
<1>1. ASSUME NEW o \in 0..1, Steps(s, 0, o, 8, l, 8) PROVE \E f \in Forms : HasForm(s, f)
  <2> DEFINE f == [lead |-> o, head |-> 8, tail |-> 0, gap |-> FALSE]
  <2>1. f \in Forms /\ f.lead = o /\ f.head = 8 /\ f.tail = 0 /\ ~f.gap BY DEF Forms
  <2> HIDE DEF f
  <2>2. Behind(f) = o + 15 /\ Tokens(f.tail) = 0 BY <2>1, BehindIs
  <2>3. l = o + 15 BY <1>1 DEF Steps
  <2>4. Listed(s, o, 8) /\ (o = 1 => s[1] = Colon)
    <3>1. 0 + o = o /\ 0 + 1 = 1 OBVIOUS
    <3> QED BY <1>1, <3>1 DEF Steps
  <2>5. Listed(s, Behind(f), 0) BY DEF Listed
  <2>6. HasForm(s, f) BY <2>1, <2>2, <2>3, <2>4, <2>5 DEF HasForm
  <2> QED BY <2>1, <2>6
<1>2. ASSUME NEW f \in Forms, NEW o \in 0..1, NEW j \in 0 .. f.tail, Later(s, f, o, j, l, 8)
      PROVE  HasForm(s, f)
  <2> DEFINE b == Behind(f)
             t == f.tail
  <2>1. b \in Nat /\ t \in 0..8 /\ Tokens(t) = (IF t = 0 THEN 0 ELSE 2 * t - 1) BY BehindIs
  <2>2. j = t /\ t > 0
    <3>1. 8 = 8 - t + j /\ j \in 0..t /\ t > 0 BY <1>2 DEF Later
    <3> HIDE DEF t
    <3> QED BY ONLY <2>1, <3>1
  <2>3. l = b + o + 2 * t - 1 BY <1>2, <2>1, <2>2 DEF Later, Steps
  <2>4. t - 1 = l - b - t
    <3>1. Cardinality(Colons(s, b + 1, l)) = t - 1 BY <1>2 DEF Later
    <3>2. Cardinality(Colons(s, b + 1, l)) = l - b - j BY <1>2 DEF Later
    <3> QED BY <2>2, <3>1, <3>2
  <2>5. o = 0 /\ l = b + Tokens(t)
    <3>1. Tokens(t) = 2 * t - 1 BY ONLY <2>1, <2>2
    <3> HIDE DEF b, t, l
    <3>2. o = 0 BY ONLY <1>0, <2>1, <2>3, <2>4, o \in 0..1
    <3> QED BY ONLY <1>0, <2>1, <2>3, <3>1, <3>2
  <2>6. Listed(s, b, t)
    <3>1. b + o = b BY <2>1, <2>5
    <3> QED BY <1>2, <2>2, <3>1 DEF Later, Steps
  <2> QED BY <1>2, <2>5, <2>6 DEF Later, Gapped, HasForm
<1> QED BY <1>1, <1>2 DEF Sound

-----------------------------------------------------------------------------
(* Reading eight words: a text that has a form is read as what it writes down *)

\* The colons between the last words of a form.
LEMMA ColonsOfTail ==
    ASSUME NEW s \in Seq(Token), NEW b \in Nat, NEW t \in Nat \ {0}, Listed(s, b, t)
    PROVE  Cardinality(Colons(s, b + 1, b + 2 * t - 1)) = t - 1
<1> DEFINE C(n) == Colons(s, b + 1, b + 2 * n + 1)
           A == {n \in 0 .. t - 1 : Cardinality(C(n)) = n}
<1>1. \A k \in 0 .. t - 1 : s[b + 2 * k + 1] # Colon /\ (k > 0 => s[b + 2 * k] = Colon)
  BY Separators DEF Listed, IsWord
<1>2. 0 \in A
  <2>1. Colons(s, b + 1, b + 1) = {}
    <3>1. s[b + 1] # Colon
      <4>1. 0 \in 0 .. t - 1 /\ b + 2 * 0 + 1 = b + 1 OBVIOUS
      <4> QED BY <1>1, <4>1
    <3>2. \A x \in b + 1 .. b + 1 : x = b + 1 OBVIOUS
    <3> QED BY <3>1, <3>2 DEF Colons
  <2>2. b + 2 * 0 + 1 = b + 1 OBVIOUS
  <2>3. Cardinality(C(0)) = 0 BY <2>1, <2>2, FS_EmptySet
  <2> QED BY <2>3
<1>3. ASSUME NEW n \in 1 .. t - 1, n - 1 \in A PROVE n \in A
  <2> DEFINE k == b + 2 * (n - 1) + 1
  <2>1. k \in Nat /\ k + 1 = b + 2 * n /\ (k + 1) + 1 = b + 2 * n + 1 OBVIOUS
  <2>2. s[k + 1] = Colon /\ s[(k + 1) + 1] # Colon
    <3>1. n \in 0 .. t - 1 /\ n > 0 OBVIOUS
    <3> QED BY <1>1, <2>1, <3>1
  <2>3. Cardinality(Colons(s, b + 1, k)) = n - 1 BY <1>3
  <2>4. b + 1 \in Nat /\ b + 1 <= k + 1 /\ b + 1 <= (k + 1) + 1 /\ k + 1 \in Nat OBVIOUS
  <2> HIDE DEF k
  <2>5. Cardinality(Colons(s, b + 1, k + 1))
          = Cardinality(Colons(s, b + 1, k)) + (IF s[k + 1] = Colon THEN 1 ELSE 0)
    BY <2>1, <2>4, ColonsNext
  <2>6. Cardinality(Colons(s, b + 1, k + 1)) = n BY <2>2, <2>3, <2>5
  <2> DEFINE m == k + 1
  <2>7. m \in Nat /\ b + 1 <= m + 1 /\ Cardinality(Colons(s, b + 1, m)) = n /\ s[m + 1] # Colon
    BY <2>2, <2>4, <2>6
  <2> HIDE DEF m
  <2>8. Cardinality(Colons(s, b + 1, m + 1))
          = Cardinality(Colons(s, b + 1, m)) + (IF s[m + 1] = Colon THEN 1 ELSE 0)
    BY <2>4, <2>7, ColonsNext
  <2>9. Cardinality(Colons(s, b + 1, m + 1)) = n BY <2>7, <2>8
  <2>10. m + 1 = b + 2 * n + 1 BY <2>1 DEF m
  <2> QED BY <2>9, <2>10
<1>4. t - 1 \in Nat OBVIOUS
<1> HIDE DEF A
<1>5. \A n \in 0 .. t - 1 : n \in A BY ONLY <1>2, <1>3, <1>4, Ladder
<1>6. t - 1 \in 0 .. t - 1 /\ b + 2 * (t - 1) + 1 = b + 2 * t - 1 OBVIOUS
<1>7. Cardinality(C(t - 1)) = t - 1 BY <1>5, <1>6 DEF A
<1> QED BY <1>6, <1>7

\* Where the reader of a text with a form may be.
OnPath(s, f, r, c, seen) ==
    \/ /\ ~seen /\ c \in 0 .. f.head
       /\ \/ c > 0 /\ r = f.lead + 2 * c - 1
          \/ c < f.head /\ r = f.lead + 2 * c
          \/ c = 0 /\ r = 0
    \/ f.gap /\ f.tail = 0 /\ c = 8 /\ r = Len(s)
    \/ /\ f.gap /\ seen /\ f.tail > 0
       /\ \E j \in 0 .. f.tail :
            /\ c = 8 - f.tail + j
            /\ (j > 0 /\ r = Behind(f) + 2 * j - 1) \/ (j < f.tail /\ r = Behind(f) + 2 * j)

\* What it finds there: a word, a colon before a word, the gap or the end.
AtWord(s, f, r, c, seen) ==
    /\ r < Len(s) /\ c < 8 /\ IsWord(s[r + 1]) /\ (r + 1 = Len(s) \/ s[r + 2] = Colon)
    /\ OnPath(s, f, r + 1, c + 1, seen) /\ Number(s[r + 1], 16) = Written(s, f)[c]

AtColon(s, f, r, c, seen) ==
    /\ r + 2 <= Len(s) /\ c < 8 /\ s[r + 1] = Colon /\ s[r + 2] # Colon
    /\ OnPath(s, f, r + 1, c, seen)

AtGap(s, f, r, c, seen) ==
    /\ f.gap /\ ~seen /\ r + 2 <= Len(s) /\ c < 8 /\ s[r + 1] = Colon /\ s[r + 2] = Colon
    /\ c = f.head /\ r + 2 = Behind(f)

AtEnd(s, r, c) == r = Len(s) /\ c = 8

\* The reader begins on the path of every form.
LEMMA PathBegins ==
    ASSUME NEW f \in Forms, NEW s, NEW r, r = 0, NEW c, c = 0, NEW seen, ~seen
    PROVE  OnPath(s, f, r, c, seen)
BY BehindIs DEF OnPath

\* On the path of a form that the text has there is always a step, until it ends.
LEMMA PathLeadsOn ==
    ASSUME NEW s \in Seq(Token), NEW f \in Forms, HasForm(s, f), NEW r, NEW c, NEW seen \in BOOLEAN,
           OnPath(s, f, r, c, seen)
    PROVE  /\ r \in Nat /\ c \in 0..8
           /\ \/ AtWord(s, f, r, c, seen) \/ AtColon(s, f, r, c, seen)
              \/ AtGap(s, f, r, c, seen) \/ AtEnd(s, r, c)
<1> DEFINE l == Len(s)
           b == Behind(f)
           h == f.head
           t == f.tail
           e == f.lead
           W == Written(s, f)
<1>1. /\ l \in Nat /\ b \in Nat /\ h \in 0..8 /\ t \in 0..8 /\ e \in 0..1
      /\ b = e + (IF h = 0 THEN 0 ELSE 2 * h - 1) + (IF f.gap THEN 2 ELSE 0)
      /\ l = b + (IF t = 0 THEN 0 ELSE 2 * t - 1)
      /\ IF f.gap THEN h + t <= 8 /\ h < 8 ELSE h = 8 /\ t = 0
      /\ e = 1 => s[1] = Colon /\ h > 0
      /\ f.gap => s[b - 1] = Colon /\ s[b] = Colon
  BY BehindIs DEF HasForm
<1>2. /\ \A k \in 0 .. h - 1 : /\ IsWord(s[e + 2 * k + 1]) /\ s[e + 2 * k + 1] # Colon
                               /\ k > 0 => s[e + 2 * k] = Colon
      /\ \A k \in 0 .. t - 1 : /\ IsWord(s[b + 2 * k + 1]) /\ s[b + 2 * k + 1] # Colon
                               /\ k > 0 => s[b + 2 * k] = Colon
  BY Separators DEF HasForm, Listed, IsWord
<1>3. \A i \in 0..7 : W[i] = IF i < h THEN Number(s[e + 2 * i + 1], 16)
                             ELSE IF i < 8 - t THEN 0
                             ELSE Number(s[b + 2 * (i - (8 - t)) + 1], 16)
  BY DEF Written
<1>p. ASSUME NEW r2, NEW c2, OnPath(s, f, r2, c2, seen) PROVE c2 \in 0..8 /\ r2 \in Nat
  <2>1. CASE ~seen /\ c2 \in 0..h /\ (\/ c2 > 0 /\ r2 = e + 2 * c2 - 1
                                      \/ c2 < h /\ r2 = e + 2 * c2
                                      \/ c2 = 0 /\ r2 = 0)
    BY <1>1, <2>1
  <2>2. CASE c2 = 8 /\ r2 = l BY <1>1, <2>2
  <2>3. ASSUME NEW j \in 0..t, t > 0, c2 = 8 - t + j,
               (j > 0 /\ r2 = b + 2 * j - 1) \/ (j < t /\ r2 = b + 2 * j)
        PROVE  c2 \in 0..8 /\ r2 \in Nat
    <3> HIDE DEF b, t
    <3> QED BY ONLY <1>1, <2>3
  <2> QED BY <1>p, <2>1, <2>2, <2>3 DEF OnPath
<1> HIDE DEF W
\* A word of the head.
<1>4. ASSUME ~seen, c \in 0 .. h - 1, r = e + 2 * c PROVE AtWord(s, f, r, c, seen)
  <2>1. r < l /\ c < 8 /\ r + 1 = e + 2 * c + 1 /\ r \in Nat
    <3> HIDE DEF b, h, t, e, l
    <3> QED BY ONLY <1>1, <1>4
  <2>2. IsWord(s[r + 1]) /\ W[c] = Number(s[r + 1], 16)
    <3>1. c \in 0..7 /\ c < h BY <1>1, <1>4
    <3>2. W[c] = Number(s[e + 2 * c + 1], 16) BY <1>3, <3>1
    <3> QED BY <1>2, <1>4, <2>1, <3>2
  <2>3. r + 1 = l \/ s[r + 2] = Colon
    <3>1. CASE c + 1 < h
      <4>1. c + 1 \in 0 .. h - 1 /\ c + 1 > 0 /\ e + 2 * (c + 1) = r + 2
          <5> HIDE DEF b, h, t, e, l
          <5> QED BY ONLY <1>1, <1>4, <3>1
      <4> QED BY <1>2, <4>1
    <3>2. CASE c + 1 = h /\ f.gap
      <4>1. b - 1 = r + 2
          <5> HIDE DEF b, h, t, e, l
          <5> QED BY ONLY <1>1, <1>4, <3>2
      <4> QED BY <1>1, <3>2, <4>1
    <3>3. CASE c + 1 = h /\ ~f.gap BY <1>1, <1>4, <3>3
    <3>4. c + 1 < h \/ c + 1 = h
        <4> HIDE DEF b, h, t, e, l
        <4> QED BY ONLY <1>1, <1>4
    <3> QED BY <3>1, <3>2, <3>3, <3>4
  <2>4. OnPath(s, f, r + 1, c + 1, seen)
    <3>1. c + 1 \in 0..h /\ c + 1 > 0 /\ r + 1 = e + 2 * (c + 1) - 1
        <4> HIDE DEF b, h, t, e, l
        <4> QED BY ONLY <1>1, <1>4
    <3> QED BY <1>4, <3>1 DEF OnPath
  <2> QED BY <2>1, <2>2, <2>3, <2>4 DEF AtWord, W
\* A word of the tail.
<1>5. ASSUME NEW j \in 0 .. t - 1, seen, f.gap, c = 8 - t + j, r = b + 2 * j
      PROVE  AtWord(s, f, r, c, seen)
  <2>1. /\ r < l /\ c < 8 /\ r + 1 = b + 2 * j + 1 /\ r \in Nat /\ c \in 0..7
        /\ ~(c < h) /\ ~(c < 8 - t) /\ c - (8 - t) = j /\ t > 0
    <3>1. h + t <= 8 BY <1>1, <1>5
    <3> HIDE DEF b, h, t, e, l
    <3> QED BY ONLY <1>1, <1>5, <3>1
  <2>2. IsWord(s[r + 1]) /\ W[c] = Number(s[r + 1], 16)
    <3>1. W[c] = Number(s[b + 2 * (c - (8 - t)) + 1], 16) BY <1>3, <2>1
    <3> QED BY <1>2, <1>5, <2>1, <3>1
  <2>3. r + 1 = l \/ s[r + 2] = Colon
    <3>1. CASE j + 1 < t
      <4>1. j + 1 \in 0 .. t - 1 /\ j + 1 > 0 /\ b + 2 * (j + 1) = r + 2
          <5> HIDE DEF b, h, t, e, l
          <5> QED BY ONLY <1>1, <1>5, <3>1
      <4> QED BY <1>2, <4>1
    <3>2. CASE ~(j + 1 < t)
      <4> HIDE DEF b, h, t, e, l
      <4> QED BY ONLY <1>1, <1>5, <2>1, <3>2
    <3> QED BY <3>1, <3>2
  <2>4. OnPath(s, f, r + 1, c + 1, seen)
    <3>1. /\ j + 1 \in 0..t /\ j + 1 > 0 /\ c + 1 = 8 - t + (j + 1)
          /\ r + 1 = b + 2 * (j + 1) - 1
      <4> HIDE DEF b, h, t, e, l
      <4> QED BY ONLY <1>1, <1>5, <2>1
    <3> QED BY <1>5, <2>1, <3>1 DEF OnPath
  <2> QED BY <2>1, <2>2, <2>3, <2>4 DEF AtWord, W
\* A colon of the head.
<1>6. ASSUME ~seen, c \in 1 .. h - 1, r = e + 2 * c - 1 PROVE AtColon(s, f, r, c, seen)
  <2>1. /\ r + 2 <= l /\ c < 8 /\ r + 1 = e + 2 * c /\ r + 2 = e + 2 * c + 1 /\ r \in Nat
        /\ c \in 0 .. h - 1 /\ c \in 0..h /\ c < h
    <3> HIDE DEF b, h, t, e, l
    <3> QED BY ONLY <1>1, <1>6
  <2>2. s[r + 1] = Colon /\ s[r + 2] # Colon BY <1>2, <1>6, <2>1
  <2>3. OnPath(s, f, r + 1, c, seen)
    <3>1. ~seen /\ c \in 0..h /\ c < h /\ r + 1 = e + 2 * c BY ONLY <1>6, <2>1
    <3> QED BY ONLY Zenon, <3>1 DEF OnPath
  <2> QED BY <2>1, <2>2, <2>3 DEF AtColon
\* The colon before the head.
<1>7. ASSUME ~seen, c = 0, r = 0, e = 1 PROVE AtColon(s, f, r, c, seen)
  <2>1. r + 2 <= l /\ h > 0
    <3> HIDE DEF b, h, t, e, l
    <3> QED BY ONLY <1>1, <1>7
  <2>2. r + 1 = 1 /\ r + 2 = 2 /\ e + 2 * 0 + 1 = 2 /\ 0 \in 0 .. h - 1 /\ c \in 0..h
        /\ r + 1 = e + 2 * c /\ c < h /\ c < 8
    BY <1>1, <1>7, <2>1
  <2>3. s[r + 1] = Colon /\ s[r + 2] # Colon BY <1>1, <1>2, <1>7, <2>2
  <2>4. OnPath(s, f, r + 1, c, seen) BY <1>7, <2>2 DEF OnPath
  <2> QED BY <2>1, <2>2, <2>3, <2>4 DEF AtColon
\* A colon of the tail.
<1>8. ASSUME NEW j \in 1 .. t - 1, seen, f.gap, c = 8 - t + j, r = b + 2 * j - 1
      PROVE  AtColon(s, f, r, c, seen)
  <2>1. /\ r + 2 <= l /\ c < 8 /\ r + 1 = b + 2 * j /\ r + 2 = b + 2 * j + 1 /\ r \in Nat
        /\ j \in 0 .. t - 1 /\ j \in 0..t /\ j < t /\ t > 0
    <3> HIDE DEF b, h, t, e, l
    <3> QED BY ONLY <1>1, <1>8
  <2>2. s[r + 1] = Colon /\ s[r + 2] # Colon BY <1>2, <1>8, <2>1
  <2>3. OnPath(s, f, r + 1, c, seen) BY <1>8, <2>1 DEF OnPath
  <2> QED BY <2>1, <2>2, <2>3 DEF AtColon
\* The gap.
<1>9. ASSUME ~seen, f.gap, c = h, r = b - 2 PROVE AtGap(s, f, r, c, seen)
  <2>1. r + 1 = b - 1 /\ r + 2 = b /\ b <= l /\ c < 8
    <3> HIDE DEF b, h, t, e, l
    <3> QED BY ONLY <1>1, <1>9
  <2>2. s[r + 1] = Colon /\ s[r + 2] = Colon
    <3> HIDE DEF b
    <3> QED BY ONLY <1>1, <1>9, <2>1
  <2> QED BY <1>9, <2>1, <2>2 DEF AtGap
\* Every place on the path is one of these.
<1>10. ASSUME ~seen, c \in 0..h, c > 0 /\ r = e + 2 * c - 1
       PROVE  AtColon(s, f, r, c, seen) \/ AtGap(s, f, r, c, seen) \/ AtEnd(s, r, c)
  <2>1. CASE c < h
    <3>1. c \in 1 .. h - 1
        <4> HIDE DEF b, h, t, e, l
        <4> QED BY ONLY <1>1, <1>10, <2>1
    <3> QED BY <1>6, <1>10, <3>1
  <2>2. CASE ~(c < h) /\ f.gap
    <3>1. c = h /\ r = b - 2
      <4>1. b = e + (IF h = 0 THEN 0 ELSE 2 * h - 1) + 2 BY <1>1, <2>2
      <4> HIDE DEF b, h, t, e, l
      <4> QED BY ONLY <1>1, <1>10, <2>2, <4>1
    <3> QED BY <1>9, <1>10, <2>2, <3>1
  <2>3. CASE ~(c < h) /\ ~f.gap
    <3>1. c = 8 /\ r = l BY <1>1, <1>10, <2>3
    <3> QED BY <3>1 DEF AtEnd
  <2> QED BY <2>1, <2>2, <2>3
<1>11. ASSUME ~seen, c = 0, r = 0
       PROVE  \/ AtWord(s, f, r, c, seen) \/ AtColon(s, f, r, c, seen) \/ AtGap(s, f, r, c, seen)
  <2>1. CASE e = 1 BY <1>7, <1>11, <2>1
  <2>2. CASE e = 0 /\ h > 0
    <3>1. c \in 0 .. h - 1 /\ r = e + 2 * c BY <1>1, <1>11, <2>2
    <3> QED BY <1>4, <1>11, <3>1
  <2>3. CASE e = 0 /\ h = 0
    <3>1. f.gap /\ c = h /\ r = b - 2 BY <1>1, <1>11, <2>3
    <3> QED BY <1>9, <1>11, <3>1
  <2> QED BY <1>1, <2>1, <2>2, <2>3
<1>12. ASSUME f.gap, seen, NEW j \in 0..t, c = 8 - t + j, t > 0,
              (j > 0 /\ r = b + 2 * j - 1) \/ (j < t /\ r = b + 2 * j)
       PROVE  AtWord(s, f, r, c, seen) \/ AtColon(s, f, r, c, seen) \/ AtEnd(s, r, c)
  <2>1. CASE j < t /\ r = b + 2 * j
    <3>1. j \in 0 .. t - 1
        <4> HIDE DEF b, h, t, e, l
        <4> QED BY ONLY <1>1, <2>1, j \in 0..t
    <3> QED BY <1>5, <1>12, <2>1, <3>1
  <2>2. CASE j > 0 /\ r = b + 2 * j - 1 /\ j < t
    <3>1. j \in 1 .. t - 1
        <4> HIDE DEF b, h, t, e, l
        <4> QED BY ONLY <1>1, <2>2, j \in 0..t
    <3> QED BY <1>8, <1>12, <2>2, <3>1
  <2>3. CASE j > 0 /\ r = b + 2 * j - 1 /\ ~(j < t)
    <3>1. c = 8 /\ r = l
      <4> HIDE DEF b, h, t, e, l
      <4> QED BY ONLY <1>1, <1>12, <2>3
    <3> QED BY <3>1 DEF AtEnd
  <2> QED BY <1>12, <2>1, <2>2, <2>3
<1>13. ASSUME ~seen, c \in 0..h, c < h /\ r = e + 2 * c PROVE AtWord(s, f, r, c, seen)
  <2>1. c \in 0 .. h - 1 BY <1>1, <1>13
  <2> QED BY <1>4, <1>13, <2>1
<1>14. CASE f.gap /\ t = 0 /\ c = 8 /\ r = l BY <1>14 DEF AtEnd
<1>15. \/ AtWord(s, f, r, c, seen) \/ AtColon(s, f, r, c, seen)
       \/ AtGap(s, f, r, c, seen) \/ AtEnd(s, r, c)
  <2>1. \/ ~seen /\ c \in 0..h /\ (\/ c > 0 /\ r = e + 2 * c - 1
                                   \/ c < h /\ r = e + 2 * c
                                   \/ c = 0 /\ r = 0)
        \/ f.gap /\ t = 0 /\ c = 8 /\ r = l
        \/ /\ f.gap /\ seen /\ t > 0
           /\ \E j \in 0..t : /\ c = 8 - t + j
                              /\ (j > 0 /\ r = b + 2 * j - 1) \/ (j < t /\ r = b + 2 * j)
    BY DEF OnPath
  <2> HIDE DEF b, h, t, e, l
  <2> QED BY ONLY <1>10, <1>11, <1>12, <1>13, <1>14, <2>1
<1>16. r \in Nat /\ c \in 0..8 BY <1>p
<1> QED BY <1>15, <1>16

\* A text that has a form has no dot.
LEMMA NoDots ==
    ASSUME NEW s \in Seq(Token), NEW f \in Forms, HasForm(s, f)
    PROVE  ~WithDots(s)
<1> DEFINE l == Len(s)
           b == Behind(f)
           h == f.head
           t == f.tail
           e == f.lead
<1>1. /\ l \in Nat /\ b \in Nat /\ h \in 0..8 /\ t \in 0..8 /\ e \in 0..1
      /\ b = e + (IF h = 0 THEN 0 ELSE 2 * h - 1) + (IF f.gap THEN 2 ELSE 0)
      /\ l = b + (IF t = 0 THEN 0 ELSE 2 * t - 1)
      /\ e = 1 => s[1] = Colon
      /\ f.gap => s[b - 1] = Colon /\ s[b] = Colon
  BY BehindIs DEF HasForm
<1>2. /\ \A k \in 0 .. h - 1 : s[e + 2 * k + 1] # Dot /\ (k > 0 => s[e + 2 * k] # Dot)
      /\ \A k \in 0 .. t - 1 : s[b + 2 * k + 1] # Dot /\ (k > 0 => s[b + 2 * k] # Dot)
  BY Separators DEF HasForm, Listed, IsWord
<1>3. ASSUME NEW i \in 1..l PROVE s[i] # Dot
  <2>1. CASE i <= e
    <3>1. i = 1 /\ e = 1 BY <1>1, <2>1
    <3> QED BY <1>1, <3>1, Separators
  <2>2. CASE i > b
    <3> DEFINE x == i - b
    <3>1. x \in 1 .. 2 * t - 1 /\ i = b + x
      <4> HIDE DEF b, h, t, e, l
      <4> QED BY ONLY <1>1, <2>2, i \in 1..l
    <3>2. PICK k \in 0 .. t - 1 : x = 2 * k + 1 \/ (x = 2 * k /\ k > 0)
      <4> HIDE DEF t, x
      <4>1. t \in 0..8 /\ x \in 1 .. 2 * t - 1 BY ONLY <1>1, <3>1
      <4>2. CASE x % 2 = 1
        <5>1. (x \div 2) \in 0 .. t - 1 /\ x = 2 * (x \div 2) + 1 BY ONLY <4>1, <4>2
        <5> QED BY ONLY <5>1
      <4>3. CASE x % 2 # 1
        <5>1. (x \div 2) \in 0 .. t - 1 /\ x = 2 * (x \div 2) /\ (x \div 2) > 0 BY ONLY <4>1, <4>3
        <5> QED BY ONLY <5>1
      <4> QED BY ONLY <4>2, <4>3
    <3>3. i = b + 2 * k + 1 \/ (i = b + 2 * k /\ k > 0)
      <4> HIDE DEF b, t, x
      <4>1. b \in Nat /\ t \in Nat /\ i = b + x BY ONLY <1>1, <3>1
      <4> QED BY ONLY <3>2, <4>1, k \in 0 .. t - 1
    <3> QED BY <1>2, <3>3
  <2>3. CASE e < i /\ i <= b /\ (f.gap => i < b - 1)
    <3> DEFINE x == i - e
    <3>1. x \in 1 .. 2 * h - 1 /\ i = e + x
      <4> HIDE DEF b, h, t, e, l
      <4> QED BY ONLY <1>1, <2>3, i \in 1..l
    <3>2. PICK k \in 0 .. h - 1 : x = 2 * k + 1 \/ (x = 2 * k /\ k > 0)
      <4> HIDE DEF h, x
      <4>1. h \in 0..8 /\ x \in 1 .. 2 * h - 1 BY ONLY <1>1, <3>1
      <4>2. CASE x % 2 = 1
        <5>1. (x \div 2) \in 0 .. h - 1 /\ x = 2 * (x \div 2) + 1 BY ONLY <4>1, <4>2
        <5> QED BY ONLY <5>1
      <4>3. CASE x % 2 # 1
        <5>1. (x \div 2) \in 0 .. h - 1 /\ x = 2 * (x \div 2) /\ (x \div 2) > 0 BY ONLY <4>1, <4>3
        <5> QED BY ONLY <5>1
      <4> QED BY ONLY <4>2, <4>3
    <3>3. i = e + 2 * k + 1 \/ (i = e + 2 * k /\ k > 0)
      <4> HIDE DEF e, h, x
      <4> QED BY ONLY <1>1, <3>1, <3>2, k \in 0 .. h - 1
    <3> QED BY <1>2, <3>3
  <2>4. CASE f.gap /\ i <= b /\ ~(i < b - 1)
    <3>1. i = b - 1 \/ i = b
      <4> HIDE DEF b, h, t, e, l
      <4> QED BY ONLY <1>1, <2>4, i \in 1..l
    <3> QED BY <1>1, <2>4, <3>1, Separators
  <2> QED
    <3> HIDE DEF b, h, t, e, l
    <3> QED BY ONLY <1>1, <2>1, <2>2, <2>3, <2>4, i \in 1..l
<1>4. ASSUME l > 2, NEW i \in DOMAIN From(s, 3), From(s, 3)[i] = Dot PROVE FALSE
  <2>1. \A x \in 3..l : s[x] \in Token BY ElementOfSeq
  <2>2. /\ From(s, 3) \in Seq(Token) /\ Len(From(s, 3)) = l - 3 + 1
        /\ \A x \in 1 .. l - 3 + 1 : From(s, 3)[x] = s[3 + x - 1]
    <3>1. 3 \in Int /\ l \in Int /\ 3 <= l BY <1>1, <1>4
    <3>2. \A x \in 1 .. l - 3 + 1 : 3 + x - 1 = 3 + (x - 1) BY <1>1
    <3> HIDE DEF l
    <3>3. /\ SubSeq(s, 3, l) \in Seq(Token) /\ Len(SubSeq(s, 3, l)) = l - 3 + 1
          /\ \A x \in 1 .. l - 3 + 1 : SubSeq(s, 3, l)[x] = s[3 + x - 1]
      BY <2>1, <3>1, SubSeqProperties
    <3> QED BY <3>3 DEF From, l
  <2>3. i \in 1 .. l - 3 + 1 BY <1>4, <2>2, LenProperties
  <2>4. 3 + i - 1 \in 1..l BY <1>1, <1>4, <2>3
  <2> QED BY <1>3, <1>4, <2>2, <2>3, <2>4
<1> QED BY <1>4 DEF WithDots, Has

-----------------------------------------------------------------------------
(* Addresses that end in dotted bytes *)

\* What follows a beginning is what was put after it.
LEMMA FromBeginning ==
    ASSUME NEW p \in Seq(Token), NEW q \in Seq(Token), NEW n, n = Len(p) + 1
    PROVE  p \o q \in Seq(Token) /\ From(p \o q, n) = q
<1> DEFINE s == p \o q
           l == Len(q)
           m == Len(p)
<1>1. l \in Nat /\ m \in Nat /\ n = m + 1 OBVIOUS
<1>2. /\ s \in Seq(Token) /\ Len(s) = m + l
      /\ \A i \in 1 .. m + l : s[i] = IF i <= m THEN p[i] ELSE q[i - m]
  BY ConcatProperties
<1> HIDE DEF s
<1>3. \A i \in n .. m + l : s[i] \in Token
  <2>1. \A i \in n .. m + l : i \in 1..Len(s) BY <1>1, <1>2
  <2> QED BY <1>2, <2>1, ElementOfSeq
<1> DEFINE u == SubSeq(s, n, m + l)
<1>4. /\ u \in Seq(Token) /\ Len(u) = l /\ \A i \in 1..l : u[i] = s[n + i - 1]
  <2>1. n \in Int /\ m + l \in Int BY <1>1
  <2>2. /\ u \in Seq(Token) /\ Len(u) = (IF n <= m + l THEN (m + l) - n + 1 ELSE 0)
        /\ \A i \in 1 .. (m + l) - n + 1 : u[i] = s[n + i - 1]
    <3> HIDE DEF m, l
    <3> QED BY <1>3, <2>1, SubSeqProperties
  <2>3. (m + l) - n + 1 = l /\ (n <= m + l \/ l = 0) BY <1>1
  <2> HIDE DEF m, l, u
  <2> QED BY <2>2, <2>3
<1>5. ASSUME NEW i \in 1..l PROVE u[i] = q[i]
  <2>1. n + i - 1 = m + i /\ m + i \in 1 .. m + l /\ ~(m + i <= m) /\ (m + i) - m = i BY <1>1
  <2> HIDE DEF u
  <2> QED BY <1>2, <1>4, <2>1
<1>6. u = q
  <2> HIDE DEF u
  <2> QED BY <1>4, <1>5, SeqEqual
<1> QED BY <1>2, <1>6 DEF From, s

\* Three texts joined are the same from either side.
LEMMA Reassociated ==
    ASSUME NEW p \in Seq(Token), NEW q \in Seq(Token), NEW r \in Seq(Token)
    PROVE  (p \o q) \o r = p \o (q \o r)
BY ConcatAssociative

\* The last two words of an address as four bytes, and back.
LEMMA LowQuadIs ==
    ASSUME NEW a \in [0..7 -> 0..MaxWord]
    PROVE  /\ LowQuad(a) \in [0..3 -> 0..255]
           /\ 256 * LowQuad(a)[0] + LowQuad(a)[1] = a[6] /\ 256 * LowQuad(a)[2] + LowQuad(a)[3] = a[7]
<1> DEFINE x == a[6]
           y == a[7]
<1>1. x \in Nat /\ y \in Nat /\ x < 65536 /\ y < 65536
  <2>1. x \in 0..MaxWord /\ y \in 0..MaxWord
    BY ONLY SMT, a \in [0..7 -> 0..MaxWord], 6 \in 0..7, 7 \in 0..7
  <2> HIDE DEF x, y
  <2>4. x \in Nat /\ y \in Nat /\ x <= MaxWord /\ y <= MaxWord BY ONLY SMT, <2>1, WordBound
  <2> QED BY ONLY SMT, WordBound, <2>4
<1>b. ASSUME NEW z \in Nat, z < 65536
      PROVE  z \div 256 \in 0..255 /\ z % 256 \in 0..255 /\ 256 * (z \div 256) + (z % 256) = z
  <2>1. z \div 256 \in Nat /\ z % 256 \in 0..255 /\ 256 * (z \div 256) + (z % 256) = z
    BY ONLY SMT, z \in Nat
  <2> DEFINE u == z \div 256
             v == z % 256
  <2>2. u \in Nat /\ v \in 0..255 /\ 256 * u + v = z BY ONLY SMT, <2>1
  <2> HIDE DEF u, v
  <2>3. u \in 0..255 BY ONLY SMT, <2>2, z \in Nat, z < 65536
  <2> QED BY ONLY SMT, <2>1, <2>3 DEF u
<1>2. /\ LowQuad(a)[0] = x \div 256 /\ LowQuad(a)[1] = x % 256
      /\ LowQuad(a)[2] = y \div 256 /\ LowQuad(a)[3] = y % 256
  <2> DEFINE Q(i) == LET w == a[6 + i \div 2] IN IF i % 2 = 0 THEN w \div 256 ELSE w % 256
  <2>1. LowQuad(a) = [i \in 0..3 |-> Q(i)] BY DEF LowQuad
  <2>2. /\ Q(0) = x \div 256 /\ Q(1) = x % 256 /\ Q(2) = y \div 256 /\ Q(3) = y % 256
    <3>1. 6 + 0 \div 2 = 6 /\ 6 + 1 \div 2 = 6 /\ 6 + 2 \div 2 = 7 /\ 6 + 3 \div 2 = 7 OBVIOUS
    <3>2. 0 % 2 = 0 /\ 1 % 2 # 0 /\ 2 % 2 = 0 /\ 3 % 2 # 0 OBVIOUS
    <3> QED BY ONLY <3>1, <3>2
  <2> HIDE DEF Q
  <2>3. 0 \in 0..3 /\ 1 \in 0..3 /\ 2 \in 0..3 /\ 3 \in 0..3 OBVIOUS
  <2> QED BY ONLY <2>1, <2>2, <2>3
<1>3. DOMAIN LowQuad(a) = 0..3 /\ LowQuad(a) = [i \in 0..3 |-> LowQuad(a)[i]] BY DEF LowQuad
<1> HIDE DEF x, y
<1>4. x \div 256 \in 0..255 /\ x % 256 \in 0..255 /\ 256 * (x \div 256) + (x % 256) = x
  BY ONLY SMT, <1>1, <1>b
<1>5. y \div 256 \in 0..255 /\ y % 256 \in 0..255 /\ 256 * (y \div 256) + (y % 256) = y
  BY ONLY SMT, <1>1, <1>b
<1>6. \A i \in 0..3 : LowQuad(a)[i] \in 0..255
  <2>1. \A i \in 0..3 : i = 0 \/ i = 1 \/ i = 2 \/ i = 3 OBVIOUS
  <2> QED BY ONLY SMT, <1>2, <1>4, <1>5, <2>1
<1>7. LowQuad(a) \in [0..3 -> 0..255] BY ONLY SMT, <1>3, <1>6
<1> QED BY ONLY <1>2, <1>4, <1>5, <1>7 DEF x, y

\* Four bytes after zeros, or after zeros and ffff, are the address.
LEMMA LowIs ==
    ASSUME NEW a \in [0..7 -> 0..MaxWord], \A i \in 0..4 : a[i] = 0
    PROVE  Low(LowQuad(a), a[5]) = a
<1> DEFINE q == LowQuad(a)
           g == [i \in 0..7 |-> IF i < 5 THEN 0 ELSE IF i = 5 THEN a[5]
                                ELSE 256 * q[2 * (i - 6)] + q[2 * (i - 6) + 1]]
<1>1. q # none
  <2>1. 0 \in DOMAIN q BY LowQuadIs
  <2> HIDE DEF q
  <2> QED BY ONLY <2>1, NoneIsEmpty
<1>2. Low(q, a[5]) = g
  <2> HIDE DEF q
  <2> QED BY ONLY <1>1 DEF Low
<1>3. 256 * q[0] + q[1] = a[6] /\ 256 * q[2] + q[3] = a[7]
  BY ONLY LowQuadIs, a \in [0..7 -> 0..MaxWord]
<1>4. ASSUME NEW i \in 0..7 PROVE g[i] = a[i]
  <2>1. i \in 0..4 \/ i = 5 \/ i = 6 \/ i = 7 OBVIOUS
  <2> HIDE DEF q
  <2>2. CASE i \in 0..4
    <3>1. i < 5 BY ONLY <2>2
    <3>2. g[i] = 0 BY ONLY <3>1, i \in 0..7
    <3>3. a[i] = 0 BY <2>2
    <3> QED BY ONLY <3>2, <3>3
  <2>3. CASE i = 5 BY ONLY <2>3
  <2>4. CASE i = 6
    <3>1. g[6] = 256 * q[0] + q[1] OBVIOUS
    <3> QED BY ONLY <1>3, <2>4, <3>1
  <2>5. CASE i = 7
    <3>1. g[7] = 256 * q[2] + q[3] OBVIOUS
    <3> QED BY ONLY <1>3, <2>5, <3>1
  <2> QED BY ONLY <2>1, <2>2, <2>3, <2>4, <2>5
<1>5. g = a
  <2>1. DOMAIN g = 0..7 /\ DOMAIN a = 0..7 /\ a = [i \in 0..7 |-> a[i]] OBVIOUS
  <2> DEFINE G(i) == g[i]
  <2>2. g = [i \in 0..7 |-> G(i)] OBVIOUS
  <2> HIDE DEF g
  <2> QED BY ONLY <1>4, <2>1, <2>2 DEF G
<1> QED BY ONLY <1>2, <1>5

\* What comes behind the two colons that begin a text.
LEMMA FromThird ==
    ASSUME NEW s \in Seq(Token), NEW m \in Nat, m >= 2, Len(s) = m + 7
    PROVE  /\ From(s, 3) \in Seq(Token) /\ Len(From(s, 3)) = m + 5
           /\ \A x \in 1 .. m + 5 : From(s, 3)[x] = s[3 + x - 1]
<1>1. \A x \in 3 .. m + 7 : s[x] \in Token
  <2>1. \A x \in 3 .. m + 7 : x \in 1..Len(s) OBVIOUS
  <2> QED BY ONLY <2>1, ElementOfSeq, s \in Seq(Token)
<1>2. 3 \in Int /\ m + 7 \in Int /\ 3 <= m + 7 /\ (m + 7) - 3 + 1 = m + 5 OBVIOUS
<1>3. /\ SubSeq(s, 3, m + 7) \in Seq(Token)
      /\ Len(SubSeq(s, 3, m + 7)) = IF 3 <= m + 7 THEN (m + 7) - 3 + 1 ELSE 0
      /\ \A x \in 1 .. (m + 7) - 3 + 1 : SubSeq(s, 3, m + 7)[x] = s[3 + x - 1]
  BY ONLY <1>1, <1>2, SubSeqProperties
<1>4. From(s, 3) = SubSeq(s, 3, m + 7) BY DEF From
<1> QED BY ONLY <1>2, <1>3, <1>4

\* An address that ends in dotted bytes is read as it was printed.
LEMMA DottedRoundTrip ==
    ASSUME NEW a \in [0..7 -> 0..MaxWord], NEW h \in 0..8, NEW t \in 0..8, Gap(a, h, t)
    PROVE  /\ Compatible(a) =>
                LET s == <<Colon, Colon>> \o inet_ntop_v4(LowQuad(a)) IN
                s \in Seq(Token) /\ WithDots(s) /\ Dotted(From(s, 3)) = a
           /\ Mapped(a) =>
                LET s == <<Colon, Colon, ffff, Colon>> \o inet_ntop_v4(LowQuad(a)) IN
                s \in Seq(Token) /\ WithDots(s) /\ Dotted(From(s, 3)) = a
<1> DEFINE q == inet_ntop_v4(LowQuad(a))
<1>1. /\ q \in Seq(Token) /\ Len(q) = 7 /\ (\A i \in 1..7 : q[i] # Colon) /\ q[2] = Dot
      /\ inet_pton_v4(q) = LowQuad(a)
  BY ONLY LowQuadIs, QuadRoundTrip, a \in [0..7 -> 0..MaxWord]
<1>2. ffff \in Token /\ Colon \in Token /\ ffff # Colon
  <2>1. ffff \in Seq(0..15) /\ ffff # << >> BY DEF ffff
  <2> QED BY ONLY <2>1, Separators DEF Token, Numeral
<1>3. /\ Marked(Runs(a))[0] = (IF 0 < h \/ 0 >= 8 - t THEN -1 ELSE 0 - h + 1)
      /\ maxpos(Runs(a)) = (IF h = 8 THEN -1 ELSE 7 - t)
      /\ \A i \in h .. 7 - t : a[i] = 0
  BY ONLY Gap(a, h, t), h \in 0..8, t \in 0..8 DEF Gap
<1> HIDE DEF q
<1>4. ASSUME NEW p \in Seq(Token), Len(p) >= 2, p[1] = Colon, p[2] = Colon
      PROVE  LET s == p \o q IN
             s \in Seq(Token) /\ WithDots(s)
  <2> DEFINE s == p \o q
             m == Len(p)
  <2>1. m \in Nat /\ m >= 2 BY ONLY <1>4, LenProperties
  <2>2. /\ s \in Seq(Token) /\ Len(s) = m + 7
        /\ \A i \in 1 .. m + 7 : s[i] = IF i <= m THEN p[i] ELSE q[i - m]
    <3>1. /\ p \o q \in Seq(Token) /\ Len(p \o q) = Len(p) + Len(q)
          /\ \A i \in 1 .. Len(p) + Len(q) : (p \o q)[i] = IF i <= Len(p) THEN p[i] ELSE q[i - Len(p)]
      <4>1. p \in Seq(Token) /\ q \in Seq(Token) BY ONLY <1>1, p \in Seq(Token)
      <4> QED BY ONLY <4>1, ConcatProperties
    <3> QED BY ONLY Zenon, <1>1, <3>1 DEF s, m
  <2> HIDE DEF m, s
  <2>3. s[1] = Colon /\ s[2] = Colon /\ s[m + 2] = Dot
    <3>1. /\ 1 \in 1 .. m + 7 /\ 1 <= m /\ 2 \in 1 .. m + 7 /\ 2 <= m
          /\ m + 2 \in 1 .. m + 7 /\ ~(m + 2 <= m) /\ (m + 2) - m = 2
      BY ONLY <2>1
    <3> QED BY ONLY Zenon, <1>1, <1>4, <2>2, <3>1
  <2>4. /\ From(s, 3) \in Seq(Token) /\ Len(From(s, 3)) = m + 5
        /\ \A x \in 1 .. m + 5 : From(s, 3)[x] = s[3 + x - 1]
    <3>1. s \in Seq(Token) /\ m \in Nat /\ m >= 2 /\ Len(s) = m + 7 BY ONLY <2>1, <2>2
    <3> QED BY ONLY <3>1, FromThird
  <2>5. m \in DOMAIN From(s, 3) /\ From(s, 3)[m] = Dot
    <3>1. m \in 1 .. m + 5 /\ 3 + m - 1 = m + 2 BY ONLY <2>1
    <3>2. DOMAIN From(s, 3) = 1 .. m + 5 BY ONLY <2>4, LenProperties
    <3> QED BY ONLY <2>3, <2>4, <3>1, <3>2
  <2>6. Len(s) > 2 BY ONLY <2>1, <2>2
  <2>7. s \in Seq(Token) /\ WithDots(s) BY ONLY Zenon, <2>2, <2>3, <2>5, <2>6 DEF WithDots, Has
  <2> QED BY ONLY Zenon, <2>7 DEF s
<1>5. ASSUME Compatible(a)
      PROVE  LET s == <<Colon, Colon>> \o q IN
             s \in Seq(Token) /\ WithDots(s) /\ Dotted(From(s, 3)) = a
  <2> DEFINE p == <<Colon, Colon>>
  <2>1. p \in Seq(Token) /\ Len(p) = 2 /\ p[1] = Colon /\ p[2] = Colon BY ONLY <1>2
  <2>2. h = 0 /\ t = 2
    <3>1. Marked(Runs(a))[0] = 1 /\ maxpos(Runs(a)) = 5 BY ONLY <1>5 DEF Compatible
    <3>2. maxpos(Runs(a)) # -1 BY ONLY <3>1
    <3> QED BY ONLY <1>3, <3>1, <3>2, h \in 0..8, t \in 0..8
  <2>3. (\A i \in 0..4 : a[i] = 0) /\ a[5] = 0
    <3>1. \A i \in 0..5 : a[i] = 0 BY ONLY <1>3, <2>2
    <3> QED BY ONLY <3>1
  <2> HIDE DEF p
  <2>4. From(p \o q, 3) = q
    <3>1. 3 = Len(p) + 1 BY ONLY <2>1
    <3> QED BY ONLY <1>1, <2>1, <3>1, FromBeginning
  <2>5. Dotted(q) = Low(LowQuad(a), 0)
    <3>1. ~Has(q, Colon)
      <4>1. DOMAIN q = 1..7 BY ONLY <1>1, LenProperties
      <4> QED BY ONLY <1>1, <4>1 DEF Has
    <3> QED BY ONLY <1>1, <3>1 DEF Dotted
  <2>6. Low(LowQuad(a), 0) = a
    <3>1. Low(LowQuad(a), a[5]) = a BY ONLY <2>3, a \in [0..7 -> 0..MaxWord], LowIs
    <3> QED BY ONLY Zenon, <2>3, <3>1
  <2>7. p \o q \in Seq(Token) /\ WithDots(p \o q)
    <3>1. Len(p) >= 2 BY ONLY <2>1
    <3> QED BY ONLY <1>4, <2>1, <3>1
  <2> QED BY ONLY Zenon, <2>4, <2>5, <2>6, <2>7 DEF p
<1>6. ASSUME Mapped(a)
      PROVE  LET s == <<Colon, Colon, ffff, Colon>> \o q IN
             s \in Seq(Token) /\ WithDots(s) /\ Dotted(From(s, 3)) = a
  <2> DEFINE p == <<Colon, Colon, ffff, Colon>>
             u == <<ffff, Colon>>
             v == u \o q
  <2>1. p \in Seq(Token) /\ Len(p) = 4 /\ p[1] = Colon /\ p[2] = Colon BY ONLY <1>2
  <2>2. h = 0 /\ t = 3
    <3>1. Marked(Runs(a))[0] = 1 /\ maxpos(Runs(a)) = 4 BY ONLY <1>6 DEF Mapped
    <3>2. maxpos(Runs(a)) # -1 BY ONLY <3>1
    <3> QED BY ONLY <1>3, <3>1, <3>2, h \in 0..8, t \in 0..8
  <2>3. (\A i \in 0..4 : a[i] = 0) /\ a[5] = MaxWord
    <3>1. \A i \in 0..4 : a[i] = 0 BY ONLY <1>3, <2>2
    <3> QED BY ONLY Zenon, <1>6, <3>1 DEF Mapped
  <2>4. u \in Seq(Token) /\ Len(u) = 2 /\ u[1] = ffff /\ u[2] = Colon BY ONLY <1>2
  <2>5. p \o q = <<Colon, Colon>> \o v
    <3> DEFINE c == <<Colon, Colon>>
    <3>1. c \in Seq(Token) /\ Len(c) = 2 /\ c[1] = Colon /\ c[2] = Colon BY ONLY <1>2
    <3>2. c \o u = p
      <4>1. Len(p) = 4 /\ p[1] = Colon /\ p[2] = Colon /\ p[3] = ffff /\ p[4] = Colon BY ONLY <1>2
      <4> HIDE DEF c, u, p
      <4>2. /\ c \o u \in Seq(Token) /\ Len(c \o u) = Len(c) + Len(u)
            /\ \A i \in 1 .. Len(c) + Len(u) : (c \o u)[i] = IF i <= Len(c) THEN c[i] ELSE u[i - Len(c)]
        BY ONLY <2>4, <3>1, ConcatProperties
      <4>3. Len(c \o u) = 4 /\ \A i \in 1..4 : (c \o u)[i] = IF i <= 2 THEN c[i] ELSE u[i - 2]
        BY ONLY <2>4, <3>1, <4>2
      <4> DEFINE e == c \o u
      <4>4. e \in Seq(Token) /\ Len(e) = 4 BY ONLY <4>2, <4>3
      <4>5. e[1] = Colon /\ e[2] = Colon /\ e[3] = ffff /\ e[4] = Colon BY ONLY <2>4, <3>1, <4>3
      <4> HIDE DEF e
      <4>6. \A i \in 1..4 : i = 1 \/ i = 2 \/ i = 3 \/ i = 4 OBVIOUS
      <4>7. \A i \in 1..4 : e[i] = p[i] BY ONLY Zenon, <4>1, <4>5, <4>6
      <4>8. Len(e) = Len(p) /\ \A i \in 1..Len(e) : e[i] = p[i] BY ONLY Zenon, <4>1, <4>4, <4>7
      <4>9. e = p BY ONLY <2>1, <4>4, <4>8, SeqEqual
      <4> QED BY ONLY Zenon, <4>9 DEF e
    <3> HIDE DEF c, u, p
    <3>3. (c \o u) \o q = c \o (u \o q)
      <4>1. c \in Seq(Token) /\ u \in Seq(Token) /\ q \in Seq(Token) BY ONLY <1>1, <2>4, <3>1
      <4> QED BY ONLY Zenon, <4>1, Reassociated
    <3> QED BY ONLY Zenon, <3>2, <3>3 DEF v, c
  <2>6. v \in Seq(Token) /\ Len(v) = 9 /\ v[1] = ffff /\ v[2] = Colon /\ From(v, 3) = q
    <3>1. /\ v \in Seq(Token) /\ Len(v) = 2 + 7
          /\ \A i \in 1 .. 2 + 7 : v[i] = IF i <= 2 THEN u[i] ELSE q[i - 2]
      <4> HIDE DEF u
      <4>1. u \in Seq(Token) /\ q \in Seq(Token) /\ Len(u) = 2 /\ Len(q) = 7 BY ONLY <1>1, <2>4
      <4>2. /\ u \o q \in Seq(Token) /\ Len(u \o q) = Len(u) + Len(q)
            /\ \A i \in 1 .. Len(u) + Len(q) : (u \o q)[i] = IF i <= Len(u) THEN u[i] ELSE q[i - Len(u)]
        BY ONLY <4>1, ConcatProperties
      <4> QED BY ONLY Zenon, <4>1, <4>2 DEF v
    <3>2. From(u \o q, 3) = q
      <4>1. 3 = Len(u) + 1 BY ONLY <2>4
      <4> HIDE DEF u
      <4> QED BY ONLY <1>1, <2>4, <4>1, FromBeginning
    <3> HIDE DEF u, v
    <3>3. v[1] = u[1] /\ v[2] = u[2] BY ONLY <3>1
    <3> QED BY ONLY <2>4, <3>1, <3>2, <3>3 DEF v
  <2> HIDE DEF p, u, v
  <2>7. From(p \o q, 3) = v
    <3>1. <<Colon, Colon>> \in Seq(Token) /\ Len(<<Colon, Colon>>) = 2 BY ONLY <1>2
    <3> DEFINE c == <<Colon, Colon>>
    <3> HIDE DEF c
    <3>2. c \in Seq(Token) /\ 3 = Len(c) + 1
      <4>1. c \in Seq(Token) /\ Len(c) = 2 BY ONLY Zenon, <3>1 DEF c
      <4> QED BY ONLY <4>1
    <3>3. v \in Seq(Token) BY ONLY <2>6
    <3>4. From(c \o v, 3) = v BY ONLY <3>2, <3>3, FromBeginning
    <3> QED BY ONLY Zenon, <2>5, <3>4 DEF c
  <2>8. Dotted(v) = Low(LowQuad(a), MaxWord)
    <3> DEFINE colon == CHOOSE i \in DOMAIN v : v[i] = Colon /\ \A j \in 1 .. i - 1 : v[j] # Colon
    <3>0. DOMAIN v = 1..9 BY ONLY <2>6, LenProperties
    <3>1. 2 \in DOMAIN v /\ v[2] = Colon /\ \A j \in 1 .. 2 - 1 : v[j] # Colon
      <4>1. \A j \in 1 .. 2 - 1 : j = 1 OBVIOUS
      <4>2. 2 \in 1..9 OBVIOUS
      <4> QED BY ONLY Zenon, <1>2, <2>6, <3>0, <4>1, <4>2
    <3>2. Has(v, Colon) BY ONLY <3>1 DEF Has
    <3>3. colon \in DOMAIN v /\ v[colon] = Colon /\ \A j \in 1 .. colon - 1 : v[j] # Colon
      BY ONLY Zenon, <3>1 DEF colon
    <3> HIDE DEF colon
    <3>4. colon = 2
      <4>1. colon \in 1..9 /\ colon # 1
        <5>1. v[1] # Colon BY ONLY <1>2, <2>6
        <5> QED BY ONLY <3>0, <3>3, <5>1
      <4>2. colon > 2 => 2 \in 1 .. colon - 1 BY ONLY <4>1
      <4>3. ~(colon > 2) BY ONLY <2>6, <3>3, <4>2
      <4> QED BY ONLY <4>1, <4>3
    <3>5. Dotted(v) = Low(inet_pton_v4(From(v, colon + 1)), MaxWord)
      BY ONLY Zenon, <2>6, <3>2 DEF Dotted, colon
    <3>6. From(v, colon + 1) = q
      <4>1. colon + 1 = 3 BY ONLY <3>4
      <4> QED BY ONLY Zenon, <2>6, <4>1
    <3> QED BY ONLY Zenon, <1>1, <3>5, <3>6
  <2>9. Low(LowQuad(a), MaxWord) = a
    <3>1. Low(LowQuad(a), a[5]) = a BY ONLY <2>3, a \in [0..7 -> 0..MaxWord], LowIs
    <3> QED BY ONLY Zenon, <2>3, <3>1
  <2>10. p \o q \in Seq(Token) /\ WithDots(p \o q)
    <3>1. Len(p) >= 2 BY ONLY <2>1
    <3> QED BY ONLY <1>4, <2>1, <3>1
  <2> QED BY ONLY Zenon, <2>7, <2>8, <2>9, <2>10 DEF p
<1> QED BY ONLY Zenon, <1>5, <1>6 DEF q

-----------------------------------------------------------------------------
(* What the reader has found *)

\* A reader that took r tokens of the text s and stands at word c: what it took is the
\* beginning of a form, and is so of every form that the text has; the words are those
\* that such a form writes.
Finding(s, r, c, seen, w) ==
    /\ Sound(s, r, c, seen)
    /\ \A f \in Forms : HasForm(s, f) =>
         /\ OnPath(s, f, r, c, seen)
         /\ w = [i \in 0..7 |-> IF i < c THEN Written(s, f)[i] ELSE 0]

\* A reader that has taken nothing has found nothing wrong.
LEMMA FindingBegins ==
    ASSUME NEW s \in Seq(Token), NEW r, r = 0, NEW c, c = 0, NEW seen, ~seen,
           NEW w, w = [i \in 0..7 |-> 0]
    PROVE  Finding(s, r, c, seen, w)
<1>1. Steps(s, 0, 0, c, r, 8)
  <2>1. Len(s) \in Nat /\ Listed(s, 0 + 0, 0) BY LenProperties DEF Listed
  <2> QED BY <2>1 DEF Steps
<1>2. ASSUME NEW f \in Forms PROVE w = [i \in 0..7 |-> IF i < c THEN Written(s, f)[i] ELSE 0]
  <2>1. \A i \in 0..7 : ~(i < c) OBVIOUS
  <2> QED BY <2>1
<1> QED BY <1>1, <1>2, PathBegins DEF Finding, Sound

\* A word is found, and is the one that every form of the text writes there.
LEMMA FindingWord ==
    ASSUME NEW s \in Seq(Token), NEW r \in Nat, NEW c \in 0..7, NEW seen \in BOOLEAN, NEW w,
           Finding(s, r, c, seen, w), r < Len(s), IsWord(s[r + 1]),
           r + 1 = Len(s) \/ s[r + 2] = Colon, NEW c2, c2 = c + 1, NEW r2, r2 = r + 1
    PROVE  Finding(s, r2, c2, seen, [w EXCEPT ![c] = Number(s[r + 1], 16)])
<1>1. Sound(s, r2, c2, seen) BY SoundWord DEF Finding
<1>2. ASSUME NEW f \in Forms, HasForm(s, f)
      PROVE  /\ OnPath(s, f, r2, c2, seen)
             /\ [w EXCEPT ![c] = Number(s[r + 1], 16)]
                  = [i \in 0..7 |-> IF i < c2 THEN Written(s, f)[i] ELSE 0]
  <2>1. /\ OnPath(s, f, r, c, seen)
        /\ w = [i \in 0..7 |-> IF i < c THEN Written(s, f)[i] ELSE 0]
    BY <1>2 DEF Finding
  <2>2. AtWord(s, f, r, c, seen)
    <3>1. ~AtColon(s, f, r, c, seen) /\ ~AtGap(s, f, r, c, seen)
      BY Separators DEF AtColon, AtGap, IsWord
    <3>2. ~AtEnd(s, r, c) BY LenProperties DEF AtEnd
    <3> QED BY <1>2, <2>1, <3>1, <3>2, PathLeadsOn
  <2>3. OnPath(s, f, r2, c2, seen) /\ Number(s[r + 1], 16) = Written(s, f)[c]
    BY <2>2 DEF AtWord
  <2> DEFINE W(i) == Written(s, f)[i]
             n == Number(s[r + 1], 16)
  <2>4. n = W(c) /\ w = [i \in 0..7 |-> IF i < c THEN W(i) ELSE 0] BY <2>1, <2>3
  <2> HIDE DEF W, n
  <2>5. [w EXCEPT ![c] = n] = [i \in 0..7 |-> IF i < c2 THEN W(i) ELSE 0]
    <3>1. \A i \in 0..7 : i < c2 <=> i < c \/ i = c BY ONLY c2 = c + 1, c \in 0..7
    <3>2. [w EXCEPT ![c] = n] = [i \in 0..7 |-> IF i = c THEN n ELSE IF i < c THEN W(i) ELSE 0]
      BY ONLY <2>4, c \in 0..7
    <3> QED BY ONLY <2>4, <3>1, <3>2, c \in 0..7
  <2> QED BY <2>3, <2>5 DEF W, n
<1> QED BY <1>1, <1>2 DEF Finding

\* A colon between words leaves the words as they are.
LEMMA FindingColon ==
    ASSUME NEW s \in Seq(Token), NEW r \in Nat, NEW c \in 0..7, NEW seen \in BOOLEAN, NEW w,
           Finding(s, r, c, seen, w), r < Len(s), s[r + 1] = Colon,
           r + 2 <= Len(s) => s[r + 2] # Colon, NEW r2, r2 = r + 1
    PROVE  Finding(s, r2, c, seen, w)
<1>1. Sound(s, r2, c, seen) BY SoundColon DEF Finding
<1>2. ASSUME NEW f \in Forms, HasForm(s, f)
      PROVE  /\ OnPath(s, f, r2, c, seen)
             /\ w = [i \in 0..7 |-> IF i < c THEN Written(s, f)[i] ELSE 0]
  <2>1. /\ OnPath(s, f, r, c, seen)
        /\ w = [i \in 0..7 |-> IF i < c THEN Written(s, f)[i] ELSE 0]
    BY <1>2 DEF Finding
  <2>2. AtColon(s, f, r, c, seen)
    <3>1. ~AtWord(s, f, r, c, seen) /\ ~AtGap(s, f, r, c, seen)
      BY Separators DEF AtWord, AtGap, IsWord
    <3>2. ~AtEnd(s, r, c) BY LenProperties DEF AtEnd
    <3> QED BY <1>2, <2>1, <3>1, <3>2, PathLeadsOn
  <2> QED BY <2>1, <2>2 DEF AtColon
<1> QED BY <1>1, <1>2 DEF Finding

\* Two colons are the gap of every form the text has, and tell its tail.
LEMMA GapFound ==
    ASSUME NEW s \in Seq(Token), NEW r \in Nat, NEW c \in 0..7, NEW seen \in BOOLEAN, NEW w,
           Finding(s, r, c, seen, w), r + 2 <= Len(s), s[r + 1] = Colon, s[r + 2] = Colon,
           NEW f \in Forms, HasForm(s, f)
    PROVE  /\ f.gap /\ ~seen /\ f.head = c /\ Behind(f) = r + 2 /\ f.head + f.tail <= 8
           /\ r + 2 = Len(s) => f.tail = 0
           /\ r + 2 < Len(s) =>
                f.tail > 0 /\ f.tail = Cardinality(Colons(s, r + 3, Len(s))) + 1
<1>1. OnPath(s, f, r, c, seen) BY DEF Finding
<1>2. AtGap(s, f, r, c, seen)
  <2>1. ~AtWord(s, f, r, c, seen) /\ ~AtColon(s, f, r, c, seen)
    BY Separators DEF AtWord, AtColon, IsWord
  <2>2. ~AtEnd(s, r, c) BY LenProperties DEF AtEnd
  <2> QED BY <1>1, <2>1, <2>2, PathLeadsOn
<1>3. f.gap /\ ~seen /\ f.head = c /\ Behind(f) = r + 2 BY <1>2 DEF AtGap
<1> DEFINE t == f.tail
           l == Len(s)
           b == Behind(f)
<1>4. /\ t \in 0..8 /\ l \in Nat /\ l = b + (IF t = 0 THEN 0 ELSE 2 * t - 1)
      /\ f.head + t <= 8 /\ Listed(s, b, t)
  BY <1>3, BehindIs, LenProperties DEF HasForm
<1>5. r + 2 = l => t = 0
  <2> HIDE DEF t, l, b
  <2> QED BY ONLY <1>3, <1>4, r \in Nat DEF b
<1>6. ASSUME r + 2 < l PROVE t > 0 /\ t = Cardinality(Colons(s, r + 3, l)) + 1
  <2>1. t > 0 /\ b = r + 2 /\ b + 1 = r + 3 /\ b + 2 * t - 1 = l
    <3>1. b = r + 2 BY ONLY <1>3
    <3> HIDE DEF t, l, b
    <3> QED BY ONLY <1>4, <1>6, <3>1, r \in Nat
  <2>2. b \in Nat /\ t \in Nat \ {0} BY ONLY <1>4, <2>1, r \in Nat
  <2> HIDE DEF t, l, b
  <2>3. Cardinality(Colons(s, b + 1, b + 2 * t - 1)) = t - 1
    BY ONLY <1>4, <2>2, ColonsOfTail, s \in Seq(Token)
  <2>4. Cardinality(Colons(s, r + 3, l)) = t - 1 BY ONLY Zenon, <2>1, <2>3
  <2> QED BY ONLY <2>1, <2>2, <2>4
<1> QED BY <1>3, <1>4, <1>5, <1>6

\* A gap that ends the text stands for all the words that are left.
LEMMA FindingGapAtEnd ==
    ASSUME NEW s \in Seq(Token), NEW r \in Nat, NEW c \in 0..7, NEW seen \in BOOLEAN, NEW w,
           Finding(s, r, c, seen, w), ~seen, s[r + 1] = Colon, s[r + 2] = Colon,
           NEW r2, r2 = r + 2, r2 = Len(s)
    PROVE  Finding(s, r2, 8, seen, w)
<1>1. PICK f \in Forms : f.gap /\ f.head = c /\ f.tail = 0 /\ Behind(f) = r2 /\ Gapped(s, f)
  <2>1. Sound(s, r, c, seen) BY DEF Finding
  <2> DEFINE t == 0
  <2>2. t \in 0..8 /\ c + t <= 8 /\ r2 <= Len(s) BY LenProperties
  <2> HIDE DEF t
  <2>3. \E f \in Forms : GapForm(s, f, c, t, r2) BY <2>1, <2>2, SoundGap
  <2> QED BY ONLY <2>3 DEF t, GapForm
<1>2. HasForm(s, f)
  <2>1. /\ Tokens(0) = 0 /\ Listed(s, Behind(f), 0) /\ Len(s) = Behind(f) + Tokens(f.tail)
    BY <1>1, BehindIs DEF Tokens, Listed
  <2> QED BY <1>1, <2>1 DEF HasForm, Gapped
<1>3. ASSUME NEW g \in Forms, HasForm(s, g)
      PROVE  /\ OnPath(s, g, r2, 8, seen)
             /\ w = [i \in 0..7 |-> IF i < 8 THEN Written(s, g)[i] ELSE 0]
  <2>1. w = [i \in 0..7 |-> IF i < c THEN Written(s, g)[i] ELSE 0] BY <1>3 DEF Finding
  <2>2. g.gap /\ g.head = c /\ g.tail = 0 BY <1>3, LenProperties, GapFound
  <2>3. \A i \in 0..7 : i < 8 /\ (~(i < c) => Written(s, g)[i] = 0) BY <2>2 DEF Written
  <2>4. w = [i \in 0..7 |-> IF i < 8 THEN Written(s, g)[i] ELSE 0]
    <3> DEFINE W(i) == Written(s, g)[i]
    <3>1. \A i \in 0..7 : i < 8 /\ (~(i < c) => W(i) = 0) BY <2>3
    <3>2. w = [i \in 0..7 |-> IF i < c THEN W(i) ELSE 0] BY <2>1
    <3> HIDE DEF W
    <3>3. w = [i \in 0..7 |-> IF i < 8 THEN W(i) ELSE 0] BY ONLY <3>1, <3>2
    <3> QED BY <3>3 DEF W
  <2> QED BY <2>2, <2>4 DEF OnPath
<1> QED BY <1>2, <1>3 DEF Finding, Sound

\* After another gap the colons that follow tell at which word to go on.
LEMMA FindingGap ==
    ASSUME NEW s \in Seq(Token), NEW r \in Nat, NEW c \in 0..7, NEW seen \in BOOLEAN, NEW w,
           Finding(s, r, c, seen, w), ~seen, s[r + 1] = Colon, s[r + 2] = Colon,
           NEW r2, r2 = r + 2, r2 < Len(s),
           NEW t, t = Cardinality(Colons(s, r + 3, Len(s))) + 1, c + t <= 8,
           NEW c2, c2 = 8 - t
    PROVE  c2 \in 0..8 /\ Finding(s, r2, c2, TRUE, w)
<1>0. Len(s) \in Nat BY LenProperties
<1>1. t \in 1..8 /\ c2 \in 0..7 /\ c <= c2
  <2>1. r + 3 <= Len(s) + 1 /\ r + 3 \in Nat BY <1>0
  <2>2. Cardinality(Colons(s, r + 3, Len(s))) \in Nat BY <1>0, <2>1, ColonsNext
  <2> DEFINE k == Cardinality(Colons(s, r + 3, Len(s)))
  <2>3. k \in Nat /\ t = k + 1 BY <2>2
  <2> HIDE DEF k
  <2> QED BY ONLY <2>3, c \in 0..7, c + t <= 8, c2 = 8 - t
<1>2. PICK f \in Forms : f.gap /\ f.head = c /\ f.tail = t /\ Behind(f) = r2 /\ Gapped(s, f)
  <2>1. Sound(s, r, c, seen) BY DEF Finding
  <2>2. t \in 0..8 /\ r2 <= Len(s) BY <1>0, <1>1
  <2>3. \E f \in Forms : GapForm(s, f, c, t, r2) BY <2>1, <2>2, SoundGap
  <2> QED BY ONLY <2>3 DEF GapForm
<1>3. Later(s, f, 0, 0, r2, c2)
  <2>1. Steps(s, Behind(f), 0, 0, r2, f.tail)
    <3>1. /\ 0 \in 0..1 /\ 0 \in 0 .. f.tail /\ Behind(f) \in Nat /\ r2 \in 0..Len(s)
          /\ 0 < f.tail /\ r2 = Behind(f) + 0 + 2 * 0
      BY <1>0, <1>1, <1>2
    <3>2. Listed(s, Behind(f) + 0, 0) BY DEF Listed
    <3> QED BY <3>1, <3>2 DEF Steps
  <2>2. Cardinality(Colons(s, Behind(f) + 1, Len(s))) = f.tail - 1
    <3>1. Behind(f) + 1 = r + 3 BY <1>2
    <3> DEFINE k == Cardinality(Colons(s, r + 3, Len(s)))
    <3>2. k \in Nat BY <1>0, ColonsNext
    <3>3. t = k + 1 OBVIOUS
    <3> HIDE DEF k
    <3>4. k = f.tail - 1 BY ONLY <1>2, <3>2, <3>3
    <3> QED BY ONLY Zenon, <3>1, <3>4 DEF k
  <2>3. Cardinality(Colons(s, Behind(f) + 1, r2)) = r2 - Behind(f) - 0
    <3>1. Colons(s, Behind(f) + 1, r2) = {} BY <1>2 DEF Colons
    <3>2. Cardinality({}) = 0 BY FS_EmptySet
    <3>3. r2 - Behind(f) - 0 = 0 BY ONLY <1>2, r2 = r + 2, r \in Nat
    <3> QED BY ONLY Zenon, <3>1, <3>2, <3>3
  <2> QED BY <1>1, <1>2, <2>1, <2>2, <2>3 DEF Later
<1>4. Sound(s, r2, c2, TRUE)
  <2>1. 0 \in 0..1 /\ 0 \in 0 .. f.tail BY <1>1, <1>2
  <2> QED BY <1>3, <2>1 DEF Sound
<1>5. ASSUME NEW g \in Forms, HasForm(s, g)
      PROVE  /\ OnPath(s, g, r2, c2, TRUE)
             /\ w = [i \in 0..7 |-> IF i < c2 THEN Written(s, g)[i] ELSE 0]
  <2>1. w = [i \in 0..7 |-> IF i < c THEN Written(s, g)[i] ELSE 0] BY <1>5 DEF Finding
  <2>2. g.gap /\ g.head = c /\ Behind(g) = r2 /\ g.tail = t
    <3>1. r + 2 <= Len(s) /\ r + 2 < Len(s) BY <1>0
    <3>2. /\ g.gap /\ g.head = c /\ Behind(g) = r + 2
          /\ r + 2 < Len(s) => g.tail = Cardinality(Colons(s, r + 3, Len(s))) + 1
      BY ONLY <1>5, <3>1, Finding(s, r, c, seen, w), c \in 0..7, r \in Nat, s \in Seq(Token),
              seen \in BOOLEAN, s[r + 1] = Colon, s[r + 2] = Colon, GapFound
    <3> QED BY ONLY Zenon, <3>1, <3>2, r2 = r + 2, t = Cardinality(Colons(s, r + 3, Len(s))) + 1
  <2>3. \A i \in 0..7 : i < c2 /\ ~(i < c) => Written(s, g)[i] = 0
    <3>1. \A i \in 0..7 : i < c2 => i < 8 - g.tail BY ONLY <1>1, <2>2, c2 = 8 - t
    <3> QED BY <2>2, <3>1 DEF Written
  <2>4. w = [i \in 0..7 |-> IF i < c2 THEN Written(s, g)[i] ELSE 0]
    <3> DEFINE W(i) == Written(s, g)[i]
    <3>1. \A i \in 0..7 : i < c2 /\ ~(i < c) => W(i) = 0 BY <2>3
    <3>2. w = [i \in 0..7 |-> IF i < c THEN W(i) ELSE 0] BY <2>1
    <3> HIDE DEF W
    <3>3. \A i \in 0..7 : i < c => i < c2 BY ONLY <1>1, c \in 0..7
    <3>4. w = [i \in 0..7 |-> IF i < c2 THEN W(i) ELSE 0] BY ONLY <3>1, <3>2, <3>3
    <3> QED BY <3>4 DEF W
  <2>5. OnPath(s, g, r2, c2, TRUE)
    <3>1. /\ 0 \in 0 .. g.tail /\ c2 = 8 - g.tail + 0 /\ 0 < g.tail /\ r2 = Behind(g) + 2 * 0
      BY ONLY <1>1, <2>2, c2 = 8 - t, r \in Nat, r2 = r + 2
    <3> QED BY <2>2, <3>1 DEF OnPath
  <2> QED BY <2>4, <2>5
<1>6. Finding(s, r2, c2, TRUE, w) BY ONLY Zenon, <1>4, <1>5 DEF Finding
<1>7. c2 \in 0..8 BY ONLY <1>1
<1> QED BY ONLY <1>6, <1>7

-----------------------------------------------------------------------------
(* What the reader answers *)

\* The answer to a text of words: the address of its form, or none.
Answered(s, b) ==
    /\ b # none => \E f \in Forms : HasForm(s, f)
    /\ \A f \in Forms : HasForm(s, f) => b = Written(s, f)

\* A text at which the reader stops has no form, one that it has taken has.
LEMMA FindingRefused ==
    ASSUME NEW s \in Seq(Token), NEW r \in Nat, NEW c \in 0..7, NEW seen \in BOOLEAN, NEW w,
           Finding(s, r, c, seen, w), r < Len(s),
           \/ s[r + 1] # Colon /\ ~(IsWord(s[r + 1])
                                    /\ (r + 1 = Len(s) \/ (r + 2 <= Len(s) /\ s[r + 2] = Colon)))
           \/ s[r + 1] = Colon /\ r + 2 <= Len(s) /\ s[r + 2] = Colon /\ seen
           \/ /\ s[r + 1] = Colon /\ r + 2 <= Len(s) /\ s[r + 2] = Colon /\ r + 2 < Len(s)
              /\ Cardinality(Colons(s, r + 3, Len(s))) + 1 > 8 - c
    PROVE  Answered(s, none)
<1>0. Len(s) \in Nat BY LenProperties
<1>1. ASSUME NEW f \in Forms, HasForm(s, f) PROVE FALSE
  <2>1. OnPath(s, f, r, c, seen) BY <1>1 DEF Finding
  <2>2. CASE s[r + 1] # Colon
    <3>1. ~AtWord(s, f, r, c, seen) BY <1>0, <2>2 DEF AtWord
    <3>2. ~AtColon(s, f, r, c, seen) /\ ~AtGap(s, f, r, c, seen) BY <2>2 DEF AtColon, AtGap
    <3>3. ~AtEnd(s, r, c) BY <1>0 DEF AtEnd
    <3> QED BY <1>1, <2>1, <3>1, <3>2, <3>3, PathLeadsOn
  <2>3. CASE s[r + 1] = Colon
    <3>1. r + 2 <= Len(s) /\ s[r + 2] = Colon BY <2>3
    <3>2. ~seen /\ f.head = c /\ f.head + f.tail <= 8 BY <1>1, <2>3, <3>1, GapFound
    <3>3. r + 2 < Len(s) /\ Cardinality(Colons(s, r + 3, Len(s))) + 1 > 8 - c BY <2>3, <3>2
    <3>4. f.tail = Cardinality(Colons(s, r + 3, Len(s))) + 1
      BY <1>1, <2>3, <3>1, <3>3, GapFound
    <3>5. f.tail \in 0..8 BY BehindIs
    <3>6. f.tail > 8 - c BY ONLY Zenon, <3>3, <3>4
    <3> QED BY ONLY <3>2, <3>5, <3>6, c \in 0..7
  <2> QED BY <2>2, <2>3
<1> QED BY <1>1 DEF Answered

\* At the end of the text, or after the eighth word, the answer is the address or none.
LEMMA FindingEnds ==
    ASSUME NEW s \in Seq(Token), NEW r \in Nat, NEW c \in 0..8, NEW seen \in BOOLEAN, NEW w,
           Finding(s, r, c, seen, w), r = Len(s) \/ c = 8
    PROVE  Answered(s, IF r = Len(s) /\ c = 8 THEN w ELSE none)
<1>0. Len(s) \in Nat BY LenProperties
<1>1. CASE r = Len(s) /\ c = 8
  <2>1. \E f \in Forms : HasForm(s, f) BY <1>1, SoundEnd DEF Finding
  <2>2. ASSUME NEW f \in Forms, HasForm(s, f) PROVE w = Written(s, f)
    <3>1. w = [i \in 0..7 |-> IF i < c THEN Written(s, f)[i] ELSE 0] BY <2>2 DEF Finding
    <3>2. Written(s, f) = [i \in 0..7 |-> Written(s, f)[i]] BY DEF Written
    <3>3. \A i \in 0..7 : i < c BY <1>1
    <3>4. w = [i \in 0..7 |-> Written(s, f)[i]] BY ONLY <3>1, <3>3
    <3> QED BY ONLY Zenon, <3>2, <3>4
  <2> QED BY <1>1, <2>1, <2>2 DEF Answered
<1>2. CASE ~(r = Len(s) /\ c = 8)
  <2>1. ASSUME NEW f \in Forms, HasForm(s, f) PROVE FALSE
    <3>1. OnPath(s, f, r, c, seen) BY <2>1 DEF Finding
    <3>2. ~AtWord(s, f, r, c, seen) /\ ~AtColon(s, f, r, c, seen) /\ ~AtGap(s, f, r, c, seen)
      BY <1>0 DEF AtWord, AtColon, AtGap
    <3>3. ~AtEnd(s, r, c) BY <1>2 DEF AtEnd
    <3> QED BY <2>1, <3>1, <3>2, <3>3, PathLeadsOn
  <2> QED BY <1>2, <2>1 DEF Answered
<1> QED BY <1>1, <1>2

-----------------------------------------------------------------------------
(* Texts and answers are of their kind *)

\* The rest of a text is a text.
LEMMA FromType ==
    ASSUME NEW s \in Seq(Token), NEW n \in Nat \ {0}
    PROVE  From(s, n) \in Seq(Token)
<1>1. Len(s) \in Nat /\ \A i \in n .. Len(s) : i \in 1..Len(s) BY LenProperties
<1>2. \A i \in n .. Len(s) : s[i] \in Token BY <1>1, ElementOfSeq
<1>3. n \in Int /\ Len(s) \in Int BY <1>1
<1> QED BY <1>2, <1>3, SubSeqProperties DEF From

\* Bytes make words that are as wide as they should be.
LEMMA LowType ==
    ASSUME NEW q, q # none => q \in [0..3 -> 0..255], NEW x \in 0..MaxWord
    PROVE  Low(q, x) # none => Low(q, x) \in [0..7 -> 0..MaxWord]
<1> SUFFICES ASSUME q # none PROVE Low(q, x) \in [0..7 -> 0..MaxWord]
  BY DEF Low
<1>1. q \in [0..3 -> 0..255] OBVIOUS
<1>2. ASSUME NEW u \in 0..255, NEW v \in 0..255 PROVE 256 * u + v \in 0..MaxWord
  <2>1. MaxWord \in Nat /\ \A z \in Nat : z <= MaxWord <=> z < 65536 BY ONLY WordBound
  <2>2. 256 * u + v \in Nat /\ 256 * u + v < 65536
    BY ONLY SMT, u \in 0..255, v \in 0..255
  <2> DEFINE z == 256 * u + v
  <2> HIDE DEF z
  <2>3. z \in Nat /\ z < 65536 BY ONLY SMT, <2>2 DEF z
  <2>4. z \in 0..MaxWord BY ONLY SMT, <2>1, <2>3
  <2> QED BY ONLY Zenon, <2>4 DEF z
<1>3. 0 \in 0..MaxWord BY WordBound
<1> DEFINE g(i) == IF i < 5 THEN 0 ELSE IF i = 5 THEN x ELSE 256 * q[2 * (i - 6)] + q[2 * (i - 6) + 1]
<1>4. ASSUME NEW i \in 0..7 PROVE g(i) \in 0..MaxWord
  <2>1. CASE i = 6 \/ i = 7
    <3>1. ~(i < 5) /\ i # 5 /\ 2 * (i - 6) \in 0..3 /\ 2 * (i - 6) + 1 \in 0..3
      BY ONLY <2>1
    <3>2. q[2 * (i - 6)] \in 0..255 /\ q[2 * (i - 6) + 1] \in 0..255
      BY ONLY Zenon, <1>1, <3>1
    <3>3. 256 * q[2 * (i - 6)] + q[2 * (i - 6) + 1] \in 0..MaxWord BY ONLY <1>2, <3>2
    <3> QED BY ONLY Zenon, <3>1, <3>3
  <2>2. CASE ~(i = 6 \/ i = 7)
    <3>1. i < 5 \/ i = 5 BY ONLY <2>2, i \in 0..7
    <3> QED BY ONLY Zenon, <1>3, <3>1, x \in 0..MaxWord
  <2> QED BY ONLY <2>1, <2>2
<1>5. Low(q, x) = [i \in 0..7 |-> g(i)] BY ONLY Zenon, q # none DEF Low, g
<1> HIDE DEF g
<1>6. [i \in 0..7 |-> g(i)] \in [0..7 -> 0..MaxWord] BY ONLY Zenon, <1>4
<1> QED BY ONLY Zenon, <1>5, <1>6

\* The bytes of a dotted text, or no answer.
LEMMA QuadType ==
    ASSUME NEW s \in Seq(Token)
    PROVE  inet_pton_v4(s) # none => inet_pton_v4(s) \in [0..3 -> 0..255]
BY QuadsAreRead

\* A text that has a colon has a first one.
LEMMA FirstColon ==
    ASSUME NEW s \in Seq(Token), Has(s, Colon)
    PROVE  \E i \in DOMAIN s : s[i] = Colon /\ \A j \in 1 .. i - 1 : s[j] # Colon
<1>1. PICK k \in DOMAIN s : s[k] = Colon BY DEF Has
<1> DEFINE K == {i \in Nat : i \in DOMAIN s /\ s[i] = Colon}
<1>2. DOMAIN s = 1..Len(s) /\ Len(s) \in Nat BY LenProperties
<1>3. K \subseteq Nat /\ k \in K BY <1>1, <1>2
<1> HIDE DEF K
<1>4. PICK m \in K : \A n \in K : m <= n BY <1>3, Least
<1>5. m \in DOMAIN s /\ s[m] = Colon /\ m \in 1..Len(s) BY <1>2, <1>4 DEF K
<1>6. \A j \in 1 .. m - 1 : j \in DOMAIN s /\ j \in Nat /\ ~(m <= j) BY <1>2, <1>5
<1>7. \A j \in 1 .. m - 1 : s[j] # Colon BY <1>4, <1>6 DEF K
<1> QED BY <1>5, <1>7

\* The answer to a dotted address is eight words, or none.
LEMMA DottedType ==
    ASSUME NEW s \in Seq(Token)
    PROVE  Dotted(s) # none => Dotted(s) \in [0..7 -> 0..MaxWord]
<1>1. 0 \in 0..MaxWord /\ MaxWord \in 0..MaxWord BY WordBound
<1>2. CASE ~Has(s, Colon)
  <2>1. Dotted(s) = Low(inet_pton_v4(s), 0) BY <1>2 DEF Dotted
  <2> DEFINE q == inet_pton_v4(s)
  <2>2. q # none => q \in [0..3 -> 0..255] BY QuadType
  <2> HIDE DEF q
  <2>3. Low(q, 0) # none => Low(q, 0) \in [0..7 -> 0..MaxWord] BY <1>1, <2>2, LowType
  <2> QED BY ONLY Zenon, <2>1, <2>3 DEF q
<1>3. CASE Has(s, Colon)
  <2> DEFINE colon == CHOOSE i \in DOMAIN s : s[i] = Colon /\ \A j \in 1 .. i - 1 : s[j] # Colon
  <2>1. CASE s[1] = ffff
    <3>1. Dotted(s) = Low(inet_pton_v4(From(s, colon + 1)), MaxWord)
      BY ONLY Zenon, <1>3, <2>1 DEF Dotted, colon
    <3>2. colon + 1 \in Nat \ {0}
      <4>1. \E i \in DOMAIN s : s[i] = Colon /\ \A j \in 1 .. i - 1 : s[j] # Colon
        BY ONLY <1>3, FirstColon, s \in Seq(Token)
      <4>2. colon \in DOMAIN s BY ONLY Zenon, <4>1 DEF colon
      <4> HIDE DEF colon
      <4>3. DOMAIN s = 1..Len(s) /\ Len(s) \in Nat BY LenProperties
      <4> QED BY ONLY <4>2, <4>3
    <3> HIDE DEF colon
    <3>3. From(s, colon + 1) \in Seq(Token) BY ONLY Zenon, <3>2, FromType, s \in Seq(Token)
    <3> DEFINE q == inet_pton_v4(From(s, colon + 1))
    <3>4. q # none => q \in [0..3 -> 0..255] BY <3>3, QuadType
    <3> HIDE DEF q
    <3>5. Low(q, MaxWord) # none => Low(q, MaxWord) \in [0..7 -> 0..MaxWord]
      BY <1>1, <3>4, LowType
    <3> QED BY ONLY Zenon, <3>1, <3>5 DEF q
  <2>2. CASE s[1] # ffff
    <3>1. Dotted(s) = none BY ONLY Zenon, <1>3, <2>2 DEF Dotted
    <3> QED BY <3>1
  <2> QED BY <2>1, <2>2
<1> QED BY <1>2, <1>3

-----------------------------------------------------------------------------
(* The inductive invariant *)

\* What each variable holds.
Base ==
    /\ step \in {"address", "printing", "text", "reading", "read", "refused"}
    /\ family \in {"AF_INET", "AF_INET6"}
    /\ address # none => address \in IF family = "AF_INET" THEN [0..3 -> 0..255]
                                     ELSE [0..7 -> 0..MaxWord]
    /\ left \in Seq(Token) /\ text \in Seq(Token)
    /\ cursor \in 0..8 /\ readcursor \in 0 .. Len(text)
    /\ word \in [0..7 -> 0..MaxWord] /\ seencompressed \in BOOLEAN

\* The reader has not begun.
Unread ==
    step \in {"address", "printing", "text", "refused"} =>
      /\ readcursor = 0 /\ word = [i \in 0..7 |-> 0]
      /\ seencompressed = FALSE /\ back = none

\* Nothing is printed yet.
AtAddress == step = "address" => address # none /\ cursor = 0 /\ text = << >>

\* Eight words that do not end in dotted bytes: neither kind has a text of its own.
Plain(a) == ~Compatible(a) /\ ~Mapped(a)

\* The printer has drawn the tokens up to its word, which is not in the gap.
DrawnUpto(s, a, runs, most, c) ==
    \E h, t \in 0..8 :
      /\ Gap(a, h, t) /\ runs = Marked(Runs(a)) /\ most = Longest(Runs(a))
      /\ c <= h \/ c >= 8 - t
      /\ Drawn(s, a, h, t, c)

\* Only addresses without a text of their own are drawn word by word.
AtPrinting ==
    step = "printing" =>
      /\ family = "AF_INET6" /\ address # none /\ Plain(address)
      /\ DrawnUpto(text, address, runpos, max, cursor)

\* The text of an address of eight words.
LongText(s, a, runs, rest) ==
    /\ runs = Marked(Runs(a))
    /\ Compatible(a) => s = <<Colon, Colon>> \o inet_ntop_v4(LowQuad(a))
    /\ Mapped(a) => s = <<Colon, Colon, ffff, Colon>> \o inet_ntop_v4(LowQuad(a))
    /\ Plain(a) => \E h, t \in 0..8 : \E own \in Seq(Token) :
         /\ Gap(a, h, t) /\ Drawn(own, a, h, t, 8)
         /\ s = IF runs[7] = -1 THEN own ELSE own \o rest

\* The text stays that of the address, until it has been read and after.
HasText ==
    step \in {"text", "reading", "read"} /\ address # none =>
      /\ family = "AF_INET" => text = inet_ntop_v4(address)
      /\ family = "AF_INET6" => LongText(text, address, runpos, left)

\* What the reader has found while it reads.
AtReading ==
    step = "reading" =>
      /\ family = "AF_INET6" /\ ~WithDots(text) /\ back = none
      /\ Finding(text, readcursor, cursor, seencompressed, word)

\* What it answered.
AtRead ==
    step = "read" =>
      /\ family = "AF_INET" => back = inet_pton_v4(text)
      /\ family = "AF_INET6" /\ WithDots(text) => back = Dotted(From(text, 3))
      /\ family = "AF_INET6" /\ ~WithDots(text) =>
           Answered(text, back) /\ (back # none => back \in [0..7 -> 0..MaxWord])

\* All of it: each action restores every part.
TextInv ==
    Base /\ Unread /\ AtAddress /\ AtPrinting /\ HasText /\ AtReading /\ AtRead

\* Texts to be read are tokens, and so is what a buffer holds.
LEMMA TextsAreTokens ==
    /\ \A s : IsText(s) => s \in Seq(Token)
    /\ << >> \in Seq(Token)
BY DEF IsText, Token

\* The invariant holds at the start: an address to print, or a text to read.
LEMMA TextInvInit == InetInit => TextInv
<1> SUFFICES ASSUME InetInit PROVE TextInv
  OBVIOUS
<1>1. /\ family \in {"AF_INET", "AF_INET6"} /\ cursor = 0 /\ readcursor = 0 /\ back = none
      /\ word = [i \in 0..7 |-> 0] /\ seencompressed = FALSE
  BY DEF InetInit
<1>2. \/ /\ step = "address" /\ text = << >> /\ left \in Buffers
         /\ address \in IF family = "AF_INET" THEN [0..3 -> Bytes] ELSE [0..7 -> Words]
      \/ step = "text" /\ address = none /\ left = << >> /\ text \in Texts(family)
  BY DEF InetInit
<1>3. left \in Seq(Token) /\ text \in Seq(Token)
  <2>1. CASE step = "address" BY <1>2, <2>1, TextsAreTokens, InetAssumption
  <2>2. CASE step = "text"
    <3>1. text \in Texts("AF_INET") \/ text \in Texts("AF_INET6") BY <1>1, <1>2, <2>2
    <3> QED BY <1>2, <2>2, <3>1, TextsAreTokens, InetAssumption
  <2> QED BY <1>2, <2>1, <2>2
<1>4. address # none => address \in IF family = "AF_INET" THEN [0..3 -> 0..255]
                                    ELSE [0..7 -> 0..MaxWord]
  <2>1. Bytes \subseteq 0..255 /\ Words \subseteq 0..MaxWord BY InetAssumption
  <2> QED BY <1>2, <2>1
<1>5. step = "address" => address # none
  <2>1. CASE family = "AF_INET"
    <3>1. step = "address" => 0 \in DOMAIN address BY <1>2, <2>1
    <3> QED BY <3>1, NoneIsEmpty
  <2>2. CASE family = "AF_INET6"
    <3>1. step = "address" => 0 \in DOMAIN address BY <1>2, <2>2
    <3> QED BY <3>1, NoneIsEmpty
  <2> QED BY <1>1, <2>1, <2>2
<1>6. word \in [0..7 -> 0..MaxWord]
  <2>1. 0 \in 0..MaxWord BY WordBound
  <2> QED BY <1>1, <2>1
<1>7. readcursor \in 0 .. Len(text) /\ cursor \in 0..8 BY <1>1, <1>3, LenProperties
<1>8. Base BY <1>1, <1>2, <1>3, <1>4, <1>6, <1>7 DEF Base
<1>9. Unread /\ AtAddress BY <1>1, <1>2, <1>5 DEF Unread, AtAddress
<1>10. AtPrinting /\ HasText /\ AtReading /\ AtRead
  BY <1>2 DEF AtPrinting, HasText, AtReading, AtRead
<1> QED BY <1>8, <1>9, <1>10 DEF TextInv

\* It depends on the variables alone.
LEMMA TextInvStutters == TextInv /\ UNCHANGED inetVars => TextInv'
BY DEF TextInv, Base, Unread, AtAddress, AtPrinting, HasText, AtReading, AtRead, inetVars

-----------------------------------------------------------------------------
(* The printer's steps *)

\* The parts that say nothing of a step at which the printer is.
LEMMA NotReading ==
    ASSUME step' \in {"address", "printing", "text"}
    PROVE  AtReading' /\ AtRead' /\ (step' # "text" => HasText')
BY DEF AtReading, AtRead, HasText

\* The printer leaves the reader's variables as they were.
LEMMA StillUnread ==
    ASSUME Unread, step \in {"address", "printing", "text"}, ReaderIdle
    PROVE  Unread'
BY DEF Unread, ReaderIdle

\* An address of bytes, or of words.
LEMMA AddressType ==
    ASSUME Base, address # none
    PROVE  /\ family = "AF_INET" => address \in [0..3 -> 0..255]
           /\ family = "AF_INET6" => address \in [0..7 -> 0..MaxWord] /\ address \in [0..7 -> Nat]
<1>1. 0..MaxWord \subseteq Nat BY WordBound
<1>2. family = "AF_INET6" => address \in [0..7 -> 0..MaxWord] BY DEF Base
<1>3. ASSUME address \in [0..7 -> 0..MaxWord] PROVE address \in [0..7 -> Nat]
  BY ONLY Zenon, <1>1, <1>3
<1> QED BY <1>2, <1>3 DEF Base

\* The text of bytes and of addresses that end in them; for others the printer begins.
LEMMA inet_ntop_Keeps == TextInv /\ inet_ntop => TextInv'
<1> SUFFICES ASSUME TextInv, inet_ntop PROVE TextInv'
  OBVIOUS
<1> USE DEF TextInv
<1>1. step = "address" /\ ReaderIdle /\ UNCHANGED cursor BY DEF inet_ntop
<1>2. address # none /\ cursor = 0 /\ text = << >> BY <1>1 DEF AtAddress
<1>3. UNCHANGED <<family, address, left, readcursor, word, seencompressed, back>>
  BY <1>1 DEF ReaderIdle
<1>4. ASSUME step' \in {"printing", "text"}, text' \in Seq(Token)
      PROVE  Base' /\ Unread' /\ AtAddress' /\ AtReading' /\ AtRead'
  <2>1. readcursor' \in 0 .. Len(text')
    <3>1. readcursor = 0 BY <1>1 DEF Unread
    <3> QED BY <1>3, <1>4, <3>1, LenProperties
  <2>2. Base' BY <1>1, <1>3, <1>4, <2>1 DEF Base
  <2>3. Unread' BY <1>1, <1>4, StillUnread
  <2> QED BY <1>4, <2>2, <2>3, NotReading DEF AtAddress
<1>5. CASE family = "AF_INET"
  <2>1. step' = "text" /\ text' = inet_ntop_v4(address) BY <1>5 DEF inet_ntop
  <2>2. address \in [0..3 -> 0..255] BY <1>2, <1>5, AddressType
  <2>3. text' \in Seq(Token) BY <2>1, <2>2, QuadRoundTrip
  <2>4. HasText' /\ AtPrinting' BY <1>3, <1>5, <2>1 DEF HasText, AtPrinting
  <2> QED BY <1>4, <2>1, <2>3, <2>4
<1>6. CASE family = "AF_INET6"
  <2>1. runpos' = Marked(Runs(address)) /\ max' = Longest(Runs(address))
    BY <1>6 DEF inet_ntop
  <2>2. address \in [0..7 -> 0..MaxWord] /\ address \in [0..7 -> Nat] BY <1>2, <1>6, AddressType
  <2>3. PICK h, t \in 0..8 : Gap(address, h, t) BY <2>2, GapIs
  <2>4. ~(Compatible(address) /\ Mapped(address)) BY DEF Compatible, Mapped
  <2>5. CASE Compatible(address) /\ step' = "text"
             /\ text' = <<Colon, Colon>> \o inet_ntop_v4(LowQuad(address))
    <3>1. text' \in Seq(Token) BY <2>2, <2>3, <2>5, DottedRoundTrip
    <3>2. LongText(text', address, runpos', left) BY <2>1, <2>4, <2>5 DEF LongText, Plain
    <3>3. HasText' /\ AtPrinting' BY <1>3, <1>6, <2>5, <3>2 DEF HasText, AtPrinting
    <3> QED BY <1>4, <2>5, <3>1, <3>3
  <2>6. CASE Mapped(address) /\ step' = "text"
             /\ text' = <<Colon, Colon, ffff, Colon>> \o inet_ntop_v4(LowQuad(address))
    <3>1. text' \in Seq(Token) BY <2>2, <2>3, <2>6, DottedRoundTrip
    <3>2. LongText(text', address, runpos', left) BY <2>1, <2>4, <2>6 DEF LongText, Plain
    <3>3. HasText' /\ AtPrinting' BY <1>3, <1>6, <2>6, <3>2 DEF HasText, AtPrinting
    <3> QED BY <1>4, <2>6, <3>1, <3>3
  <2>7. CASE ~Compatible(address) /\ ~Mapped(address) /\ step' = "printing" /\ UNCHANGED text
    <3>1. text' \in Seq(Token) BY <1>2, <2>7, TextsAreTokens
    <3>2. Drawn(<< >>, address, h, t, 0)
      <4>1. << >> \in Seq(Token) /\ Len(<< >>) = 0 /\ Upto(h, t, 0) = 0
        BY TextsAreTokens DEF Upto, Tokens
      <4> QED BY <4>1 DEF Drawn
    <3>3. DrawnUpto(<< >>, address, runpos', max', 0)
      <4>1. 0 <= h \/ 0 >= 8 - t OBVIOUS
      <4> QED BY <2>1, <2>3, <3>2, <4>1 DEF DrawnUpto
    <3>4. AtPrinting'
      BY <1>1, <1>2, <1>3, <1>6, <2>7, <3>3 DEF AtPrinting, Plain
    <3> QED BY <1>4, <2>7, <3>1, <3>4, NotReading
  <2> QED BY <1>6, <2>5, <2>6, <2>7 DEF inet_ntop
<1> QED BY <1>5, <1>6 DEF Base

\* What a step of the printer takes from the invariant, and what it must restore.
LEMMA PrinterKeeps ==
    ASSUME TextInv, Printing, step' \in {"printing", "text"},
           text' \in Seq(Token), cursor' \in 0..8, step' = "printing" => AtPrinting',
           step' = "text" => HasText'
    PROVE  TextInv'
<1> USE DEF TextInv
<1>1. step = "printing" /\ ReaderIdle BY DEF Printing
<1>2. UNCHANGED <<family, address, left, readcursor, word, seencompressed, back>>
  BY <1>1 DEF ReaderIdle
<1>3. readcursor' \in 0 .. Len(text')
  <2>1. readcursor = 0 BY <1>1 DEF Unread
  <2> QED BY <1>2, <2>1, LenProperties
<1>4. Base' BY <1>2, <1>3 DEF Base
<1>5. Unread' BY <1>1, StillUnread
<1> QED BY <1>4, <1>5, NotReading DEF AtAddress, AtPrinting

\* The words of an address as they are printed.
LEMMA WordsPrinted ==
    ASSUME NEW a \in [0..7 -> 0..MaxWord]
    PROVE  \A i \in 0..7 : IsWord(Printed(a[i], 16)) /\ Number(Printed(a[i], 16), 16) = a[i]
<1>1. \A i \in 0..7 : a[i] \in 0..MaxWord BY ONLY Zenon, a \in [0..7 -> 0..MaxWord]
<1> QED BY ONLY <1>1, PrintedWord

\* The printer draws a word.
LEMMA PrintWord_Keeps == TextInv /\ PrintWord => TextInv'
<1> SUFFICES ASSUME TextInv, PrintWord PROVE TextInv'
  OBVIOUS
<1>1. /\ Printing /\ cursor < 8 /\ runpos[cursor] = -1 /\ cursor' = cursor + 1 /\ step' = step
      /\ text' = text \o <<Printed(address[cursor], 16)>>
                   \o (IF cursor # 7 /\ runpos[cursor + 1] # 1 THEN <<Colon>> ELSE << >>)
  BY DEF PrintWord
<1>2. /\ step = "printing" /\ family = "AF_INET6" /\ address # none /\ Plain(address)
      /\ cursor \in 0..7 /\ UNCHANGED <<family, address, runpos, max>>
  BY <1>1 DEF Printing, ReaderIdle, TextInv, Base, AtPrinting
<1>3. PICK h, t \in 0..8 :
        /\ Gap(address, h, t) /\ runpos = Marked(Runs(address)) /\ max = Longest(Runs(address))
        /\ cursor <= h \/ cursor >= 8 - t
        /\ Drawn(text, address, h, t, cursor)
  BY <1>2 DEF TextInv, AtPrinting, DrawnUpto
<1>4. /\ Split(h, t)
      /\ runpos = [i \in 0..7 |-> IF i < h \/ i >= 8 - t THEN -1 ELSE i - h + 1]
  BY <1>3 DEF Gap, Split
<1>5. cursor < h \/ cursor >= 8 - t
  BY ONLY <1>1, <1>2, <1>4, h \in 0..8, t \in 0..8
<1> DEFINE d == cursor + 1
<1>6. (cursor # 7 /\ runpos[cursor + 1] # 1) <=> (cursor # 7 /\ d # h)
  <2>1. ASSUME cursor # 7 PROVE runpos[d] = 1 <=> d = h
    <3>1. d \in 0..7 BY ONLY <1>2, <2>1
    <3>2. d <= h \/ d > 8 - t BY ONLY <1>2, <1>5, h \in 0..8, t \in 0..8
    <3>3. h + t <= 8 /\ (h + t = 8 => h = 8) BY ONLY <1>4 DEF Split
    <3> HIDE DEF d
    <3>4. runpos[d] = IF d < h \/ d >= 8 - t THEN -1 ELSE d - h + 1 BY ONLY <1>4, <3>1
    <3> QED BY ONLY <3>1, <3>2, <3>3, <3>4, h \in 0..8, t \in 0..8
  <2> QED BY ONLY <2>1
<1> HIDE DEF d
<1>7. d = cursor + 1 BY DEF d
<1>8. Drawn(text', address, h, t, d)
  <2>1. \A i \in 0..7 : IsWord(Printed(address[i], 16))
    <3>1. address \in [0..7 -> 0..MaxWord] BY <1>2, AddressType DEF TextInv
    <3> QED BY ONLY <3>1, WordsPrinted
  <2> DEFINE p == Printed(address[cursor], 16)
  <2>2. /\ cursor # 7 /\ d # h => Drawn(text \o <<p>> \o <<Colon>>, address, h, t, d)
        /\ ~(cursor # 7 /\ d # h) => Drawn(text \o <<p>> \o << >>, address, h, t, d)
    <3>1. cursor \in 0..7 /\ Drawn(text, address, h, t, cursor) BY ONLY Zenon, <1>2, <1>3
    <3>2. Split(h, t) BY ONLY <1>4
    <3> QED BY ONLY Zenon, <1>5, <1>7, <2>1, <3>1, <3>2, DrawWord
  <2>3. /\ cursor # 7 /\ d # h => text' = text \o <<p>> \o <<Colon>>
        /\ ~(cursor # 7 /\ d # h) => text' = text \o <<p>> \o << >>
    BY ONLY Zenon, <1>1, <1>6
  <2> QED BY ONLY Zenon, <2>2, <2>3
<1>9. text' \in Seq(Token) /\ cursor' \in 0..8 BY <1>1, <1>2, <1>8 DEF Drawn
<1>10. AtPrinting'
  <2>1. d <= h \/ d >= 8 - t BY ONLY <1>2, <1>5, <1>7, h \in 0..8, t \in 0..8
  <2>2. DrawnUpto(text', address, runpos, max, d) BY <1>3, <1>8, <2>1 DEF DrawnUpto
  <2>3. cursor' = d BY <1>1, <1>7
  <2> QED BY ONLY Zenon, <1>2, <2>2, <2>3 DEF AtPrinting, Plain
<1>11. step' = "printing" /\ step' # "text" BY <1>1, <1>2
<1> QED BY ONLY Zenon, TextInv, <1>1, <1>9, <1>10, <1>11, PrinterKeeps

\* It draws the gap, once, and goes on behind it.
LEMMA PrintRun_Keeps == TextInv /\ PrintRun => TextInv'
<1> SUFFICES ASSUME TextInv, PrintRun PROVE TextInv'
  OBVIOUS
<1>1. /\ Printing /\ cursor < 8 /\ runpos[cursor] = 1 /\ cursor' = cursor + max /\ step' = step
      /\ text' = text \o <<Colon, Colon>>
  BY DEF PrintRun
<1>2. /\ step = "printing" /\ family = "AF_INET6" /\ address # none /\ Plain(address)
      /\ cursor \in 0..7 /\ UNCHANGED <<family, address, runpos, max>>
  BY <1>1 DEF Printing, ReaderIdle, TextInv, Base, AtPrinting
<1>3. PICK h, t \in 0..8 :
        /\ Gap(address, h, t) /\ runpos = Marked(Runs(address)) /\ max = Longest(Runs(address))
        /\ Drawn(text, address, h, t, cursor)
  BY <1>2 DEF TextInv, AtPrinting, DrawnUpto
<1>4. /\ Split(h, t) /\ max = 8 - (h + t)
      /\ runpos = [i \in 0..7 |-> IF i < h \/ i >= 8 - t THEN -1 ELSE i - h + 1]
  BY <1>3 DEF Gap, Split
<1>5. cursor = h /\ h < 8 /\ cursor' = 8 - t
  <2>1. runpos[cursor] = IF cursor < h \/ cursor >= 8 - t THEN -1 ELSE cursor - h + 1
    BY ONLY <1>2, <1>4
  <2>2. cursor = h BY ONLY <1>1, <1>2, <2>1, h \in 0..8, t \in 0..8
  <2> QED BY ONLY <1>1, <1>2, <1>4, <2>2, h \in 0..8, t \in 0..8
<1>6. Drawn(text', address, h, t, cursor')
  <2>1. Drawn(text, address, h, t, h) BY ONLY Zenon, <1>3, <1>5
  <2>2. Drawn(text \o <<Colon, Colon>>, address, h, t, 8 - t) BY <1>4, <1>5, <2>1, DrawRun
  <2> QED BY ONLY Zenon, <1>1, <1>5, <2>2
<1>7. text' \in Seq(Token) /\ cursor' \in 0..8 BY <1>5, <1>6 DEF Drawn
<1>8. AtPrinting'
  <2>1. cursor' <= h \/ cursor' >= 8 - t BY ONLY <1>5, t \in 0..8
  <2>2. DrawnUpto(text', address, runpos, max, cursor') BY <1>3, <1>6, <2>1 DEF DrawnUpto
  <2> QED BY ONLY Zenon, <1>2, <2>2 DEF AtPrinting, Plain
<1>9. step' = "printing" /\ step' # "text" BY <1>1, <1>2
<1> QED BY ONLY Zenon, TextInv, <1>1, <1>7, <1>8, <1>9, PrinterKeeps

\* It is done: the text is its own, and what the buffer held if it has no end.
LEMMA Printed_v6_Keeps == TextInv /\ Printed_v6 => TextInv'
<1> SUFFICES ASSUME TextInv, Printed_v6 PROVE TextInv'
  OBVIOUS
<1>1. /\ Printing /\ cursor = 8 /\ cursor' = cursor /\ step' = "text"
      /\ text' = IF Ended THEN text ELSE text \o left
  BY DEF Printed_v6
<1>2. /\ step = "printing" /\ family = "AF_INET6" /\ address # none /\ Plain(address)
      /\ UNCHANGED <<family, address, runpos, max, left>> /\ left \in Seq(Token)
  BY <1>1 DEF Printing, ReaderIdle, TextInv, Base, AtPrinting
<1>3. PICK h, t \in 0..8 :
        /\ Gap(address, h, t) /\ runpos = Marked(Runs(address))
        /\ Drawn(text, address, h, t, cursor)
  BY <1>2 DEF TextInv, AtPrinting, DrawnUpto
<1>4. text \in Seq(Token) BY <1>3 DEF Drawn
<1>5. text' \in Seq(Token) /\ cursor' \in 0..8 BY <1>1, <1>2, <1>4, ConcatProperties
<1>6. LongText(text', address, runpos, left)
  <2>1. Drawn(text, address, h, t, 8) BY <1>1, <1>3
  <2>2. text' = IF runpos[7] = -1 THEN text ELSE text \o left BY ONLY Zenon, <1>1 DEF Ended
  <2> QED BY <1>2, <1>3, <1>4, <2>1, <2>2 DEF LongText, Plain
<1>7. HasText' BY <1>2, <1>6 DEF HasText
<1>8. step' # "printing" BY <1>1
<1> QED BY ONLY Zenon, TextInv, <1>1, <1>5, <1>7, <1>8, PrinterKeeps

-----------------------------------------------------------------------------
(* The reader's steps *)

\* What a step of the reader takes from the invariant, and what it must restore.
LEMMA ReaderKeeps ==
    ASSUME TextInv, PrinterIdle, step \in {"text", "reading"}, step' \in {"reading", "read"},
           cursor' \in 0..8, readcursor' \in 0 .. Len(text), word' \in [0..7 -> 0..MaxWord],
           seencompressed' \in BOOLEAN,
           step' = "reading" => AtReading', step' = "read" => AtRead'
    PROVE  TextInv'
<1> USE DEF TextInv
<1>1. UNCHANGED <<family, address, left, runpos, max, text>> BY DEF PrinterIdle
<1>2. Base' BY <1>1 DEF Base
<1>3. HasText' BY <1>1 DEF HasText
<1>4. Unread' /\ AtAddress' /\ AtPrinting' /\ AtReading' /\ AtRead'
  BY DEF Unread, AtAddress, AtPrinting, AtReading, AtRead
<1> QED BY <1>2, <1>3, <1>4

\* Dotted texts are answered at once; for others the reader begins.
LEMMA inet_pton_Keeps == TextInv /\ inet_pton => TextInv'
<1> SUFFICES ASSUME TextInv, inet_pton PROVE TextInv'
  OBVIOUS
<1>1. step = "text" /\ PrinterIdle BY DEF inet_pton
<1>2. /\ text \in Seq(Token) /\ family \in {"AF_INET", "AF_INET6"}
      /\ cursor \in 0..8 /\ readcursor \in 0 .. Len(text) /\ word \in [0..7 -> 0..MaxWord]
      /\ seencompressed \in BOOLEAN
      /\ readcursor = 0 /\ word = [i \in 0..7 |-> 0] /\ seencompressed = FALSE /\ back = none
  BY <1>1 DEF TextInv, Base, Unread
<1>3. family' = family /\ text' = text BY <1>1 DEF PrinterIdle
<1>4. CASE step' = "read" /\ UNCHANGED <<cursor, readcursor, word, seencompressed>> /\ AtRead'
  BY <1>1, <1>2, <1>4, ReaderKeeps
<1>5. CASE family = "AF_INET" /\ Answer(inet_pton_v4(text))
  <2>1. step' = "read" /\ back' = inet_pton_v4(text) BY <1>5 DEF Answer
  <2>2. AtRead' BY <1>3, <1>5, <2>1 DEF AtRead
  <2> QED BY <1>4, <1>5, <2>1, <2>2 DEF Answer
<1>6. CASE family = "AF_INET6" /\ WithDots(text) /\ Answer(Dotted(From(text, 3)))
  <2>1. step' = "read" /\ back' = Dotted(From(text, 3)) BY <1>6 DEF Answer
  <2>2. AtRead' BY <1>3, <1>6, <2>1 DEF AtRead
  <2> QED BY <1>4, <1>6, <2>1, <2>2 DEF Answer
<1>7. CASE /\ family = "AF_INET6" /\ ~WithDots(text)
           /\ step' = "reading" /\ cursor' = 0 /\ UNCHANGED <<readcursor, word, seencompressed, back>>
  <2>1. Finding(text, readcursor', cursor', seencompressed', word')
    <3>1. readcursor' = 0 /\ ~seencompressed' /\ word' = [i \in 0..7 |-> 0] BY <1>2, <1>7
    <3> QED BY <1>2, <1>7, <3>1, FindingBegins
  <2>2. AtReading' BY <1>2, <1>3, <1>7, <2>1 DEF AtReading
  <2> QED BY <1>1, <1>2, <1>7, <2>2, ReaderKeeps
<1> QED BY <1>5, <1>6, <1>7 DEF inet_pton

\* What the reader knows before a step of its loop.
LEMMA AtMore ==
    ASSUME TextInv, More
    PROVE  /\ step = "reading" /\ PrinterIdle /\ family = "AF_INET6" /\ ~WithDots(text)
           /\ text \in Seq(Token) /\ Len(text) \in Nat
           /\ readcursor \in Nat /\ readcursor < Len(text) /\ cursor \in 0..7
           /\ word \in [0..7 -> 0..MaxWord] /\ seencompressed \in BOOLEAN /\ back = none
           /\ Finding(text, readcursor, cursor, seencompressed, word)
           /\ text' = text /\ family' = family
<1>1. /\ step = "reading" /\ readcursor < Len(text) /\ cursor < 8 /\ PrinterIdle BY DEF More
<1>2. /\ text \in Seq(Token) /\ cursor \in 0..8 /\ readcursor \in 0 .. Len(text)
      /\ word \in [0..7 -> 0..MaxWord] /\ seencompressed \in BOOLEAN
  BY DEF TextInv, Base
<1>3. Len(text) \in Nat BY <1>2, LenProperties
<1>4. readcursor \in Nat /\ cursor \in 0..7 BY ONLY <1>1, <1>2, <1>3
<1>5. /\ family = "AF_INET6" /\ ~WithDots(text) /\ back = none
      /\ Finding(text, readcursor, cursor, seencompressed, word)
  BY <1>1 DEF TextInv, AtReading
<1> QED BY <1>1, <1>2, <1>3, <1>4, <1>5 DEF PrinterIdle

\* A step of the loop that goes on.
LEMMA LoopKeeps ==
    ASSUME TextInv, More, UNCHANGED <<step, back>>,
           cursor' \in 0..8, readcursor' \in 0 .. Len(text), word' \in [0..7 -> 0..MaxWord],
           seencompressed' \in BOOLEAN,
           Finding(text, readcursor', cursor', seencompressed', word')
    PROVE  TextInv'
<1>1. step' = "reading" /\ step' # "read" BY AtMore
<1>2. AtReading' BY <1>1, AtMore DEF AtReading
<1> QED BY <1>1, <1>2, AtMore, ReaderKeeps

\* The reader takes a word.
LEMMA ReadWord_Keeps == TextInv /\ ReadWord => TextInv'
<1> SUFFICES ASSUME TextInv, ReadWord PROVE TextInv'
  OBVIOUS
<1>1. /\ More /\ IsWord(token) /\ (readcursor + 1 = Len(text) \/ NextIs(Colon))
      /\ word' = [word EXCEPT ![cursor] = Number(token, 16)]
      /\ cursor' = cursor + 1 /\ readcursor' = readcursor + 1
      /\ UNCHANGED <<step, seencompressed, back>>
  BY DEF ReadWord
<1>2. Finding(text, readcursor', cursor', seencompressed', word')
  <2>1. readcursor + 1 = Len(text) \/ text[readcursor + 2] = Colon BY <1>1 DEF NextIs
  <2>2. IsWord(text[readcursor + 1]) BY <1>1 DEF token
  <2> DEFINE v == [word EXCEPT ![cursor] = Number(text[readcursor + 1], 16)]
  <2>3. /\ text \in Seq(Token) /\ readcursor \in Nat /\ readcursor < Len(text) /\ cursor \in 0..7
        /\ seencompressed \in BOOLEAN
        /\ Finding(text, readcursor, cursor, seencompressed, word)
    BY <1>1, AtMore
  <2>4. cursor' = cursor + 1 /\ readcursor' = readcursor + 1 BY <1>1
  <2>5. Finding(text, readcursor', cursor', seencompressed, v)
    BY ONLY <2>1, <2>2, <2>3, <2>4, FindingWord
  <2> QED BY ONLY Zenon, <1>1, <2>5 DEF token
<1>3. word' \in [0..7 -> 0..MaxWord]
  <2>1. token \in Seq(0..15) /\ Len(token) <= 4 BY <1>1 DEF IsWord, Numeral
  <2>2. Number(token, 16) \in Nat /\ Number(token, 16) <= MaxWord BY <2>1, NumberFits
  <2> DEFINE n == Number(token, 16)
  <2>3. n \in 0..MaxWord
    <3> HIDE DEF n
    <3>1. n \in Nat /\ n <= MaxWord BY ONLY <2>2 DEF n
    <3> QED BY ONLY <3>1, WordBound
  <2>4. word' = [word EXCEPT ![cursor] = n] BY <1>1
  <2>5. word \in [0..7 -> 0..MaxWord] BY <1>1, AtMore
  <2> HIDE DEF n
  <2> QED BY ONLY <2>3, <2>4, <2>5
<1>4. cursor' \in 0..8 /\ readcursor' \in 0 .. Len(text)
  <2>1. Len(text) \in Nat /\ readcursor \in Nat /\ readcursor < Len(text) /\ cursor \in 0..7
    BY <1>1, AtMore
  <2>2. cursor' = cursor + 1 /\ readcursor' = readcursor + 1 BY <1>1
  <2> QED BY ONLY <2>1, <2>2
<1>5. seencompressed' \in BOOLEAN BY <1>1, AtMore
<1> QED BY <1>1, <1>2, <1>3, <1>4, <1>5, LoopKeeps

\* It takes a colon between words.
LEMMA SkipColon_Keeps == TextInv /\ SkipColon => TextInv'
<1> SUFFICES ASSUME TextInv, SkipColon PROVE TextInv'
  OBVIOUS
<1>1. /\ More /\ token = Colon /\ ~NextIs(Colon) /\ readcursor' = readcursor + 1
      /\ UNCHANGED <<step, cursor, word, seencompressed, back>>
  BY DEF SkipColon
<1>2. Finding(text, readcursor', cursor', seencompressed', word')
  <2>1. text[readcursor + 1] = Colon BY <1>1 DEF token
  <2>2. readcursor + 2 <= Len(text) => text[readcursor + 2] # Colon BY <1>1 DEF NextIs
  <2>3. /\ text \in Seq(Token) /\ readcursor \in Nat /\ readcursor < Len(text) /\ cursor \in 0..7
        /\ seencompressed \in BOOLEAN
        /\ Finding(text, readcursor, cursor, seencompressed, word)
    BY <1>1, AtMore
  <2>4. readcursor' = readcursor + 1 BY <1>1
  <2>5. Finding(text, readcursor', cursor, seencompressed, word)
    BY ONLY <2>1, <2>2, <2>3, <2>4, FindingColon
  <2> QED BY ONLY Zenon, <1>1, <2>5
<1>3. readcursor' \in 0 .. Len(text)
  <2>1. Len(text) \in Nat /\ readcursor \in Nat /\ readcursor < Len(text) BY <1>1, AtMore
  <2>2. readcursor' = readcursor + 1 BY <1>1
  <2> QED BY ONLY <2>1, <2>2
<1>4. cursor' \in 0..8 /\ word' \in [0..7 -> 0..MaxWord] /\ seencompressed' \in BOOLEAN
  BY <1>1, AtMore
<1> QED BY <1>1, <1>2, <1>3, <1>4, LoopKeeps

\* It takes a gap, and counts the words behind it.
LEMMA Skip_Keeps == TextInv /\ Skip => TextInv'
<1> SUFFICES ASSUME TextInv, Skip PROVE TextInv'
  OBVIOUS
<1>1. /\ More /\ token = Colon /\ NextIs(Colon) /\ ~seencompressed
      /\ readcursor' = readcursor + 2 /\ UNCHANGED <<step, word, back>>
  BY DEF Skip, Again
<1>2. text[readcursor + 1] = Colon /\ text[readcursor + 2] = Colon BY <1>1 DEF token, NextIs
<1>3. word' \in [0..7 -> 0..MaxWord] BY <1>1, AtMore
<1>4. readcursor' \in 0 .. Len(text)
  <2>1. Len(text) \in Nat /\ readcursor \in Nat BY <1>1, AtMore
  <2>2. readcursor' = readcursor + 2 /\ readcursor + 2 <= Len(text) BY <1>1 DEF NextIs
  <2> QED BY ONLY <2>1, <2>2
<1>5. CASE readcursor + 2 = Len(text) /\ cursor' = 8 /\ UNCHANGED seencompressed
  <2>0. /\ text \in Seq(Token) /\ readcursor \in Nat /\ readcursor < Len(text) /\ cursor \in 0..7
        /\ seencompressed \in BOOLEAN
        /\ Finding(text, readcursor, cursor, seencompressed, word)
    BY <1>1, AtMore
  <2>1. Finding(text, readcursor', 8, seencompressed, word)
    <3>1. readcursor' = readcursor + 2 /\ readcursor' = Len(text) /\ ~seencompressed BY <1>1, <1>5
    <3> QED BY ONLY <1>2, <2>0, <3>1, FindingGapAtEnd
  <2>2. Finding(text, readcursor', cursor', seencompressed', word') BY ONLY Zenon, <1>1, <1>5, <2>1
  <2>3. cursor' \in 0..8 /\ seencompressed' \in BOOLEAN BY <1>1, <1>5, AtMore
  <2> QED BY <1>1, <1>3, <1>4, <2>2, <2>3, LoopKeeps
<1>6. CASE /\ readcursor + 2 < Len(text) /\ coloncount + 1 <= 8 - cursor
           /\ cursor' = 8 - (coloncount + 1) /\ seencompressed' = TRUE
  <2> DEFINE t == Cardinality(Colons(text, readcursor + 3, Len(text))) + 1
  <2>1. coloncount + 1 = t BY DEF coloncount, Following, Colons
  <2>2. t \in Nat
    <3>1. /\ readcursor + 3 \in Nat /\ Len(text) \in Nat /\ readcursor + 3 <= Len(text) + 1
      <4>1. Len(text) \in Nat /\ readcursor \in Nat BY <1>1, AtMore
      <4>2. readcursor + 2 < Len(text) BY <1>6
      <4> QED BY ONLY <4>1, <4>2
    <3>2. Cardinality(Colons(text, readcursor + 3, Len(text))) \in Nat BY <3>1, ColonsNext
    <3> QED BY <3>2
  <2> HIDE DEF t
  <2>3. cursor + t <= 8 /\ cursor' = 8 - t
    <3>1. cursor \in 0..7 BY <1>1, AtMore
    <3>2. t <= 8 - cursor /\ cursor' = 8 - t BY ONLY Zenon, <1>6, <2>1
    <3> QED BY ONLY <2>2, <3>1, <3>2
  <2>4. cursor' \in 0..8 /\ Finding(text, readcursor', cursor', TRUE, word)
    BY <1>1, <1>2, <1>6, <2>3, AtMore, FindingGap DEF t
  <2>5. Finding(text, readcursor', cursor', seencompressed', word') BY ONLY Zenon, <1>1, <1>6, <2>4
  <2> QED BY <1>1, <1>3, <1>4, <1>6, <2>4, <2>5, LoopKeeps
<1> QED BY <1>5, <1>6 DEF Skip

\* It refuses a text only if that has no form.
LEMMA Refuse_Keeps == TextInv /\ Refuse => TextInv'
<1> SUFFICES ASSUME TextInv, Refuse PROVE TextInv'
  OBVIOUS
<1>1. More /\ step' = "read" /\ back' = none /\ UNCHANGED <<cursor, readcursor, word, seencompressed>>
  BY DEF Refuse, Answer
<1> DEFINE s == text
           r == readcursor
<1>2. \/ s[r + 1] # Colon /\ ~(IsWord(s[r + 1])
                              /\ (r + 1 = Len(s) \/ (r + 2 <= Len(s) /\ s[r + 2] = Colon)))
      \/ s[r + 1] = Colon /\ r + 2 <= Len(s) /\ s[r + 2] = Colon /\ seencompressed
      \/ /\ s[r + 1] = Colon /\ r + 2 <= Len(s) /\ s[r + 2] = Colon /\ r + 2 < Len(s)
         /\ Cardinality(Colons(s, r + 3, Len(s))) + 1 > 8 - cursor
  BY DEF Refuse, token, NextIs, Again, coloncount, Following, Colons
<1>3. Answered(text, none)
  <2>1. /\ s \in Seq(Token) /\ r \in Nat /\ r < Len(s) /\ cursor \in 0..7
        /\ seencompressed \in BOOLEAN /\ Finding(s, r, cursor, seencompressed, word)
    BY <1>1, AtMore
  <2> HIDE DEF s, r
  <2>2. Answered(s, none) BY ONLY <1>2, <2>1, FindingRefused
  <2> QED BY <2>2 DEF s
<1>4. AtRead'
  <2>1. family' = "AF_INET6" /\ ~WithDots(text') /\ text' = text BY <1>1, AtMore
  <2> QED BY <1>1, <1>3, <2>1 DEF AtRead
<1>5. /\ cursor' \in 0..8 /\ readcursor' \in 0 .. Len(text)
      /\ word' \in [0..7 -> 0..MaxWord] /\ seencompressed' \in BOOLEAN
  BY <1>1, AtMore
<1> QED BY <1>1, <1>4, <1>5, AtMore, ReaderKeeps

\* It answers with the words it found.
LEMMA Read_v6_Keeps == TextInv /\ Read_v6 => TextInv'
<1> SUFFICES ASSUME TextInv, Read_v6 PROVE TextInv'
  OBVIOUS
<1> DEFINE b == IF readcursor = Len(text) /\ cursor = 8 THEN word ELSE none
<1>1. /\ step = "reading" /\ (readcursor = Len(text) \/ cursor = 8) /\ PrinterIdle
      /\ step' = "read" /\ back' = b /\ UNCHANGED <<cursor, readcursor, word, seencompressed>>
  BY DEF Read_v6, Answer
<1>2. /\ text \in Seq(Token) /\ cursor \in 0..8 /\ readcursor \in 0 .. Len(text)
      /\ word \in [0..7 -> 0..MaxWord] /\ seencompressed \in BOOLEAN
  BY DEF TextInv, Base
<1>3. readcursor \in Nat
  <2>1. Len(text) \in Nat BY <1>2, LenProperties
  <2> QED BY <1>2, <2>1
<1>4. /\ family = "AF_INET6" /\ ~WithDots(text)
      /\ Finding(text, readcursor, cursor, seencompressed, word)
  BY <1>1 DEF TextInv, AtReading
<1>5. Answered(text, b) BY <1>1, <1>2, <1>3, <1>4, FindingEnds
<1>6. b # none => b \in [0..7 -> 0..MaxWord] BY <1>2
<1> HIDE DEF b
<1>7. AtRead'
  <2>1. family' = family /\ text' = text BY <1>1 DEF PrinterIdle
  <2> QED BY <1>1, <1>4, <1>5, <1>6, <2>1 DEF AtRead
<1>8. /\ cursor' \in 0..8 /\ readcursor' \in 0 .. Len(text)
      /\ word' \in [0..7 -> 0..MaxWord] /\ seencompressed' \in BOOLEAN
  BY <1>1, <1>2
<1> QED BY <1>1, <1>7, <1>8, ReaderKeeps

\* A call that is turned away leaves everything as it was.
LEMMA TurnedAway_Keeps == TextInv /\ TurnedAway => TextInv'
<1> SUFFICES ASSUME TextInv, TurnedAway PROVE TextInv'
  OBVIOUS
<1>1. /\ step \in {"address", "text"} /\ step' = "refused"
      /\ UNCHANGED <<family, address, left, runpos, max, text, cursor, readcursor, word,
                     seencompressed, back>>
  BY DEF TurnedAway, ReaderIdle
<1>2. Base' /\ Unread' BY <1>1 DEF TextInv, Base, Unread
<1>3. AtAddress' /\ AtPrinting' /\ HasText' /\ AtReading' /\ AtRead'
  BY ONLY <1>1 DEF AtAddress, AtPrinting, HasText, AtReading, AtRead
<1> QED BY <1>2, <1>3 DEF TextInv

\* Every step keeps the invariant.
LEMMA TextInvKept == TextInv /\ [InetNext]_inetVars => TextInv'
<1> SUFFICES ASSUME TextInv, [InetNext]_inetVars PROVE TextInv'
  OBVIOUS
<1>1. CASE inet_ntop BY <1>1, inet_ntop_Keeps
<1>2. CASE PrintWord BY <1>2, PrintWord_Keeps
<1>3. CASE PrintRun BY <1>3, PrintRun_Keeps
<1>4. CASE Printed_v6 BY <1>4, Printed_v6_Keeps
<1>5. CASE inet_pton BY <1>5, inet_pton_Keeps
<1>6. CASE ReadWord BY <1>6, ReadWord_Keeps
<1>7. CASE SkipColon BY <1>7, SkipColon_Keeps
<1>8. CASE Skip BY <1>8, Skip_Keeps
<1>9. CASE Refuse BY <1>9, Refuse_Keeps
<1>10. CASE Read_v6 BY <1>10, Read_v6_Keeps
<1>11. CASE TurnedAway BY <1>11, TurnedAway_Keeps
<1>12. CASE UNCHANGED inetVars BY <1>12, TextInvStutters
<1> QED
  BY <1>1, <1>2, <1>3, <1>4, <1>5, <1>6, <1>7, <1>8, <1>9, <1>10, <1>11, <1>12 DEF InetNext

-----------------------------------------------------------------------------
(* What the invariant says of texts and addresses *)

\* Answers are as wide as their family.
LEMMA TypesFollow == TextInv => InetTypeOK
<1> SUFFICES ASSUME TextInv PROVE InetTypeOK
  OBVIOUS
<1>1. Base BY DEF TextInv
<1>2. step # "read" => back = none BY DEF TextInv, Base, Unread, AtReading
<1>3. ASSUME step = "read", back # none
      PROVE  back \in IF family = "AF_INET" THEN [0..3 -> 0..255] ELSE [0..7 -> 0..MaxWord]
  <2>1. CASE family = "AF_INET"
    <3>1. back = inet_pton_v4(text) BY <1>3, <2>1 DEF TextInv, AtRead
    <3> QED BY <1>1, <1>3, <2>1, <3>1, QuadType DEF Base
  <2>2. CASE family = "AF_INET6" /\ WithDots(text)
    <3>1. back = Dotted(From(text, 3)) BY <1>3, <2>2 DEF TextInv, AtRead
    <3>2. From(text, 3) \in Seq(Token) BY <1>1, FromType DEF Base
    <3> QED BY <1>3, <2>2, <3>1, <3>2, DottedType
  <2>3. CASE family = "AF_INET6" /\ ~WithDots(text)
    BY <1>3, <2>3 DEF TextInv, AtRead
  <2> QED BY <1>1, <2>1, <2>2, <2>3 DEF Base
<1> QED BY <1>1, <1>2, <1>3 DEF InetTypeOK, Base

\* Dotted texts are read exactly when they are four bytes.
LEMMA QuadsFollow == TextInv => QuadsRead
<1> SUFFICES ASSUME TextInv, step = "read", family = "AF_INET"
             PROVE  LET numbers == [0..3 -> {text[i] : i \in DOMAIN text} \ {Dot}] IN
                    /\ back # none => \E n \in numbers : IsQuad(text, n)
                    /\ \A n \in numbers : IsQuad(text, n) => back = [k \in 0..3 |-> Number(n[k], 10)]
  BY DEF QuadsRead
<1>1. text \in Seq(Token) /\ back = inet_pton_v4(text) BY DEF TextInv, Base, AtRead
<1> QED BY <1>1, QuadsAreRead

\* The rest of a text, place by place.
LEMMA FromPlaces ==
    ASSUME NEW s \in Seq(Token), NEW p \in Nat \ {0}, p <= Len(s) + 1
    PROVE  /\ From(s, p) \in Seq(Token) /\ Len(From(s, p)) = Len(s) - p + 1
           /\ \A x \in 1 .. Len(s) - p + 1 : From(s, p)[x] = s[p + x - 1]
<1> DEFINE l == Len(s)
<1>1. l \in Nat /\ \A x \in p..l : x \in 1..Len(s) BY LenProperties
<1>2. \A x \in p..l : s[x] \in Token BY <1>1, ElementOfSeq
<1>3. p \in Int /\ l \in Int /\ p <= l + 1 BY <1>1
<1>4. From(s, p) = SubSeq(s, p, l) BY DEF From
<1> HIDE DEF l
<1>5. /\ SubSeq(s, p, l) \in Seq(Token)
      /\ Len(SubSeq(s, p, l)) = IF p <= l THEN l - p + 1 ELSE 0
      /\ \A x \in 1 .. l - p + 1 : SubSeq(s, p, l)[x] = s[p + x - 1]
  BY ONLY <1>2, <1>3, SubSeqProperties
<1>6. Len(SubSeq(s, p, l)) = l - p + 1 BY ONLY <1>3, <1>5
<1> QED BY ONLY <1>4, <1>5, <1>6 DEF l

\* The rest of a rest is a rest.
LEMMA RestOfRest ==
    ASSUME NEW s \in Seq(Token), Len(s) > 2, NEW c \in 1 .. Len(s) - 2
    PROVE  From(From(s, 3), c + 1) = From(s, c + 3)
<1> DEFINE r == From(s, 3)
           u == From(r, c + 1)
           v == From(s, c + 3)
           l == Len(s)
<1>1. l \in Nat /\ c \in 1 .. l - 2 BY LenProperties
<1>2. r \in Seq(Token) /\ Len(r) = l - 2 /\ \A x \in 1 .. l - 2 : r[x] = s[x + 2]
  <2>1. 3 \in Nat \ {0} /\ 3 <= Len(s) + 1 BY <1>1
  <2>2. /\ r \in Seq(Token) /\ Len(r) = l - 3 + 1
        /\ \A x \in 1 .. l - 3 + 1 : r[x] = s[3 + x - 1]
    BY ONLY <2>1, FromPlaces, s \in Seq(Token)
  <2>3. l - 3 + 1 = l - 2 /\ \A x \in 1 .. l - 2 : 3 + x - 1 = x + 2 BY <1>1
  <2> HIDE DEF r, l
  <2> QED BY ONLY <2>2, <2>3
<1> HIDE DEF r
<1>3. /\ u \in Seq(Token) /\ Len(u) = (l - 2) - (c + 1) + 1
      /\ \A x \in 1 .. (l - 2) - (c + 1) + 1 : u[x] = r[(c + 1) + x - 1]
  <2>1. c + 1 \in Nat \ {0} /\ c + 1 <= Len(r) + 1 BY <1>1, <1>2
  <2>2. /\ u \in Seq(Token) /\ Len(u) = Len(r) - (c + 1) + 1
        /\ \A x \in 1 .. Len(r) - (c + 1) + 1 : u[x] = r[(c + 1) + x - 1]
    BY ONLY <1>2, <2>1, FromPlaces
  <2> QED BY ONLY <1>2, <2>2
<1>4. /\ v \in Seq(Token) /\ Len(v) = l - (c + 3) + 1
      /\ \A x \in 1 .. l - (c + 3) + 1 : v[x] = s[(c + 3) + x - 1]
  <2>1. c + 3 \in Nat \ {0} /\ c + 3 <= Len(s) + 1 BY <1>1
  <2> QED BY ONLY <2>1, FromPlaces, s \in Seq(Token)
<1> HIDE DEF u, v, l
<1>5. Len(u) = Len(v) BY <1>1, <1>3, <1>4
<1>6. ASSUME NEW x \in 1..Len(u) PROVE u[x] = v[x]
  <2>1. /\ x \in 1 .. (l - 2) - (c + 1) + 1 /\ x \in 1 .. l - (c + 3) + 1
        /\ (c + 1) + x - 1 \in 1 .. l - 2 /\ ((c + 1) + x - 1) + 2 = (c + 3) + x - 1
    BY <1>1, <1>3
  <2> QED BY <1>2, <1>3, <1>4, <2>1
<1>7. u = v BY ONLY <1>3, <1>4, <1>5, <1>6, SeqEqual
<1> QED BY <1>7 DEF u, v, r

\* No token of four numbers and their dots is a colon.
LEMMA QuadHasNoColon ==
    ASSUME NEW s \in Seq(Token), NEW n, IsQuad(s, n)
    PROVE  ~Has(s, Colon) /\ Len(s) >= 7
<1>1. /\ Len(s) \in {7, 8} /\ \A k \in 0..3 : ByteText(n[k]) /\ s[2 * k + 1] = n[k]
      /\ \A k \in 0..3 : 2 * k + 2 <= Len(s) => s[2 * k + 2] = Dot
  BY QuadTokens DEF QuadIs
<1>2. \A k \in 0..3 : s[2 * k + 1] # Colon
  <2> SUFFICES ASSUME NEW k \in 0..3 PROVE s[2 * k + 1] # Colon OBVIOUS
  <2> DEFINE t == n[k]
  <2>1. t \in Seq(0..9) /\ s[2 * k + 1] = t BY ONLY Zenon, <1>1, k \in 0..3 DEF ByteText
  <2> HIDE DEF t
  <2>2. t # Colon BY ONLY Zenon, <2>1, Separators
  <2> QED BY ONLY <2>1, <2>2
<1>3. ASSUME NEW i \in 1..Len(s) PROVE s[i] # Colon
  <2>1. i \in 1..8
    <3> DEFINE l == Len(s)
    <3>1. l \in Nat /\ (l = 7 \/ l = 8) /\ i \in 1..l BY <1>1, LenProperties
    <3> HIDE DEF l
    <3> QED BY ONLY <3>1
  <2> DEFINE k == (i - 1) \div 2
  <2>2. k \in 0..3 /\ (i = 2 * k + 1 \/ i = 2 * k + 2) BY ONLY <2>1
  <2> HIDE DEF k
  <2>3. CASE i = 2 * k + 1
    <3>1. s[2 * k + 1] # Colon BY ONLY Zenon, <1>2, <2>2
    <3> QED BY ONLY <2>3, <3>1
  <2>4. CASE i = 2 * k + 2
    <3>1. s[2 * k + 2] = Dot BY ONLY <1>1, <2>2, <2>4, i \in 1..Len(s)
    <3> QED BY ONLY <2>4, <3>1, Separators
  <2> QED BY ONLY <2>2, <2>3, <2>4
<1> QED BY <1>1, <1>3, LenProperties DEF Has

\* Where the dotted bytes may begin: at once, or behind the first colon.
LEMMA MixedBegins ==
    ASSUME NEW s \in Seq(Token), Len(s) > 2, NEW p \in DOMAIN s, NEW n, NEW high,
           MixedForm(s, p, n, high)
    PROVE  \/ ~Has(From(s, 3), Colon) /\ high = 0 /\ IsQuad(From(s, 3), n)
           \/ /\ From(s, 3)[1] = ffff /\ high = MaxWord
              /\ \E c \in DOMAIN From(s, 3) :
                   /\ From(s, 3)[c] = Colon /\ \A j \in 1 .. c - 1 : From(s, 3)[j] # Colon
                   /\ IsQuad(From(From(s, 3), c + 1), n)
<1> DEFINE r == From(s, 3)
           l == Len(s)
<1>1. l \in Nat /\ l > 2 /\ p \in 1..l BY LenProperties
<1>2. r \in Seq(Token) /\ Len(r) = l - 2 /\ DOMAIN r = 1 .. l - 2
      /\ \A x \in 1 .. l - 2 : r[x] = s[x + 2]
  <2>1. 3 \in Nat \ {0} /\ 3 <= Len(s) + 1 BY <1>1
  <2>2. /\ r \in Seq(Token) /\ Len(r) = l - 3 + 1
        /\ \A x \in 1 .. l - 3 + 1 : r[x] = s[3 + x - 1]
    BY ONLY <2>1, FromPlaces, s \in Seq(Token)
  <2>3. l - 3 + 1 = l - 2 /\ \A x \in 1 .. l - 2 : 3 + x - 1 = x + 2 BY <1>1
  <2> HIDE DEF r, l
  <2>4. DOMAIN r = 1..Len(r) BY ONLY <2>2, LenProperties
  <2> QED BY ONLY <2>2, <2>3, <2>4
<1>3. CASE p = 3 /\ high = 0
  <2>1. IsQuad(r, n) BY <1>3 DEF MixedForm
  <2> HIDE DEF r
  <2>2. ~Has(r, Colon) BY ONLY <1>2, <2>1, QuadHasNoColon
  <2> QED BY ONLY <1>3, <2>1, <2>2 DEF r
<1>4. CASE p > 4 /\ s[3] = ffff /\ s[p - 1] = Colon /\ high = MaxWord
  <2> DEFINE c == p - 3
  <2>1. c \in 1 .. l - 2 /\ c + 3 = p /\ c + 2 = p - 1 BY <1>1, <1>4
  <2>2. (\A i \in 3 .. p - 2 : s[i] # Colon) /\ IsQuad(From(s, p), n) BY DEF MixedForm
  <2>3. From(r, c + 1) = From(s, p)
    <3>1. From(From(s, 3), c + 1) = From(s, c + 3)
      <4> HIDE DEF c
      <4> QED BY ONLY <2>1, s \in Seq(Token), Len(s) > 2, RestOfRest DEF l
    <3> QED BY ONLY <2>1, <3>1
  <2> HIDE DEF r, l, c
  <2>4. r[c] = Colon /\ r[1] = ffff
    <3>1. 1 \in 1 .. l - 2 /\ 1 + 2 = 3 BY ONLY <1>1
    <3> QED BY ONLY <1>2, <1>4, <2>1, <3>1
  <2>5. ASSUME NEW j \in 1 .. c - 1 PROVE r[j] # Colon
    <3>1. j \in 1 .. l - 2 /\ j + 2 \in 3 .. p - 2 BY ONLY <1>1, <2>1, j \in 1 .. c - 1
    <3> QED BY ONLY <1>2, <2>2, <3>1
  <2>6. c \in DOMAIN r BY ONLY <1>2, <2>1
  <2>7. IsQuad(From(r, c + 1), n) BY ONLY Zenon, <2>2, <2>3
  <2> QED BY ONLY Zenon, <1>4, <2>4, <2>5, <2>6, <2>7 DEF r
<1> QED BY <1>3, <1>4 DEF MixedForm

\* Bytes behind two colons, and behind ffff, have the form of a mixed text.
LEMMA MixedFromRest ==
    ASSUME NEW s \in Seq(Token), Len(s) > 2
    PROVE  /\ \A n : IsQuad(From(s, 3), n) => 3 \in DOMAIN s /\ MixedForm(s, 3, n, 0)
           /\ \A c \in DOMAIN From(s, 3) :
                /\ From(s, 3)[1] = ffff /\ From(s, 3)[c] = Colon
                /\ \A j \in 1 .. c - 1 : From(s, 3)[j] # Colon
                => \A n : IsQuad(From(From(s, 3), c + 1), n) =>
                     c + 3 \in DOMAIN s /\ MixedForm(s, c + 3, n, MaxWord)
<1> DEFINE r == From(s, 3)
           l == Len(s)
<1>1. l \in Nat /\ l > 2 /\ DOMAIN s = 1..l BY LenProperties
<1>2. r \in Seq(Token) /\ Len(r) = l - 2 /\ DOMAIN r = 1 .. l - 2
      /\ \A x \in 1 .. l - 2 : r[x] = s[x + 2]
  <2>1. 3 \in Nat \ {0} /\ 3 <= Len(s) + 1 BY <1>1
  <2>2. /\ r \in Seq(Token) /\ Len(r) = l - 3 + 1
        /\ \A x \in 1 .. l - 3 + 1 : r[x] = s[3 + x - 1]
    BY ONLY <2>1, FromPlaces, s \in Seq(Token)
  <2>3. l - 3 + 1 = l - 2 /\ \A x \in 1 .. l - 2 : 3 + x - 1 = x + 2 BY <1>1
  <2> HIDE DEF r, l
  <2>4. DOMAIN r = 1..Len(r) BY ONLY <2>2, LenProperties
  <2> QED BY ONLY <2>2, <2>3, <2>4
<1>3. ASSUME NEW n, IsQuad(r, n) PROVE 3 \in DOMAIN s /\ MixedForm(s, 3, n, 0)
  <2>1. 3 \in DOMAIN s BY <1>1
  <2>2. \A i \in 3 .. 3 - 2 : s[i] # Colon OBVIOUS
  <2> QED BY ONLY Zenon, <1>3, <2>1, <2>2 DEF MixedForm, r
<1>4. ASSUME NEW c \in DOMAIN r, r[1] = ffff, r[c] = Colon, \A j \in 1 .. c - 1 : r[j] # Colon,
             NEW n, IsQuad(From(r, c + 1), n)
      PROVE  c + 3 \in DOMAIN s /\ MixedForm(s, c + 3, n, MaxWord)
  <2>1. c \in 1 .. l - 2 /\ c \in 1 .. Len(s) - 2 BY <1>2
  <2>2. From(r, c + 1) = From(s, c + 3) BY ONLY <2>1, s \in Seq(Token), Len(s) > 2, RestOfRest
  <2> DEFINE p == c + 3
             v == From(s, p)
  <2>3. IsQuad(v, n) BY ONLY <1>4, <2>2
  <2>4. p \in Nat \ {0} /\ p <= Len(s) + 1 BY <1>1, <2>1
  <2>5. v \in Seq(Token) /\ Len(v) = l - p + 1 BY ONLY <2>4, FromPlaces, s \in Seq(Token)
  <2>6. Len(v) >= 7
    <3> HIDE DEF v
    <3> QED BY ONLY <2>3, <2>5, QuadHasNoColon
  <2> HIDE DEF v, r, l
  <2>7. c # 1
    <3>1. Colon # ffff
      <4>1. ffff \in Seq(0..15) BY DEF ffff
      <4> QED BY ONLY <4>1, Separators
    <3> QED BY ONLY <1>4, <3>1
  <2>8. p \in DOMAIN s /\ p > 4 /\ p - 1 = c + 2 BY ONLY <1>1, <2>1, <2>4, <2>5, <2>6, <2>7
  <2>9. s[3] = ffff /\ s[p - 1] = Colon
    <3>1. 1 \in 1 .. l - 2 /\ 1 + 2 = 3 BY ONLY <1>1
    <3> QED BY ONLY <1>2, <1>4, <2>1, <2>8, <3>1
  <2>10. ASSUME NEW i \in 3 .. p - 2 PROVE s[i] # Colon
    <3>1. i - 2 \in 1 .. c - 1 /\ i - 2 \in 1 .. l - 2 /\ (i - 2) + 2 = i
      BY ONLY <1>1, <2>1, i \in 3 .. p - 2
    <3> QED BY ONLY <1>2, <1>4, <3>1
  <2> QED BY ONLY Zenon, <2>3, <2>8, <2>9, <2>10 DEF MixedForm, v
<1> QED BY ONLY Zenon, <1>3, <1>4 DEF r

\* The texts in the rest of a text are texts of the whole.
NumbersOf(s) == [0..3 -> {s[i] : i \in DOMAIN s} \ {Dot}]

LEMMA NumbersOfRest ==
    ASSUME NEW s \in Seq(Token), NEW p \in Nat \ {0}, p <= Len(s) + 1
    PROVE  NumbersOf(From(s, p)) \subseteq NumbersOf(s)
<1> DEFINE v == From(s, p)
           l == Len(s)
<1>1. l \in Nat /\ DOMAIN s = 1..l BY LenProperties
<1>2. v \in Seq(Token) /\ Len(v) = l - p + 1 /\ \A x \in 1 .. l - p + 1 : v[x] = s[p + x - 1]
  BY ONLY FromPlaces, s \in Seq(Token), p \in Nat \ {0}, p <= Len(s) + 1
<1> HIDE DEF v
<1>3. DOMAIN v = 1 .. l - p + 1
  <2>1. DOMAIN v = 1..Len(v) BY ONLY <1>2, LenProperties
  <2> QED BY ONLY <1>2, <2>1
<1> HIDE DEF l
<1>4. ASSUME NEW x \in DOMAIN v PROVE v[x] \in {s[i] : i \in DOMAIN s}
  <2>1. x \in 1 .. l - p + 1 /\ p + x - 1 \in 1..l BY ONLY <1>1, <1>3, x \in DOMAIN v, p \in Nat \ {0}
  <2>2. v[x] = s[p + x - 1] /\ p + x - 1 \in DOMAIN s BY ONLY <1>1, <1>2, <2>1
  <2> QED BY ONLY Zenon, <2>2
<1>5. {v[x] : x \in DOMAIN v} \ {Dot} \subseteq {s[i] : i \in DOMAIN s} \ {Dot} BY ONLY Zenon, <1>4
<1> DEFINE A == {v[x] : x \in DOMAIN v} \ {Dot}
           B == {s[i] : i \in DOMAIN s} \ {Dot}
<1>6. NumbersOf(v) = [0..3 -> A] /\ NumbersOf(s) = [0..3 -> B] BY DEF NumbersOf
<1>7. A \subseteq B BY ONLY <1>5
<1> HIDE DEF A, B
<1>8. [0..3 -> A] \subseteq [0..3 -> B] BY ONLY Zenon, <1>7
<1> QED BY ONLY Zenon, <1>6, <1>8 DEF v

\* What an answer to two colons and a dot means.
MixedAnswer(s, b) ==
    /\ b # none => \E p \in DOMAIN s, n \in NumbersOf(s), high \in {0, MaxWord} :
                     MixedForm(s, p, n, high)
    /\ \A p \in DOMAIN s : \A n, high :
         MixedForm(s, p, n, high) => b = Low([k \in 0..3 |-> Number(n[k], 10)], high)

\* What inet_pton_v6 does with such a text is to look for the only place that the
\* bytes can begin at.
LEMMA MixedMeans ==
    ASSUME NEW s \in Seq(Token), Len(s) > 2, NEW b, b = Dotted(From(s, 3))
    PROVE  MixedAnswer(s, b)
<1> SUFFICES
           /\ b # none => \E p \in DOMAIN s, n \in NumbersOf(s), high \in {0, MaxWord} :
                            MixedForm(s, p, n, high)
           /\ \A p \in DOMAIN s : \A n, high :
                MixedForm(s, p, n, high) => b = Low([k \in 0..3 |-> Number(n[k], 10)], high)
  BY DEF MixedAnswer
<1> DEFINE r == From(s, 3)
           first(i) == r[i] = Colon /\ \A j \in 1 .. i - 1 : r[j] # Colon
           colon == CHOOSE i \in DOMAIN r : first(i)
           q(i) == inet_pton_v4(From(r, i + 1))
<1>1. Len(s) \in Nat /\ 3 \in Nat \ {0} /\ 3 <= Len(s) + 1 BY LenProperties
<1>2. /\ r \in Seq(Token) /\ Len(r) = Len(s) - 2 /\ DOMAIN r = 1..Len(r)
      /\ NumbersOf(r) \subseteq NumbersOf(s)
  <2>1. r \in Seq(Token) /\ Len(r) = Len(s) - 3 + 1 BY ONLY <1>1, FromPlaces, s \in Seq(Token)
  <2>2. NumbersOf(r) \subseteq NumbersOf(s) BY ONLY <1>1, NumbersOfRest, s \in Seq(Token)
  <2>3. Len(s) - 3 + 1 = Len(s) - 2 BY <1>1
  <2> HIDE DEF r
  <2>4. DOMAIN r = 1..Len(r) BY ONLY <2>1, LenProperties
  <2> QED BY ONLY <2>1, <2>2, <2>3, <2>4
<1>3. ASSUME NEW c \in DOMAIN r
      PROVE  From(r, c + 1) \in Seq(Token) /\ NumbersOf(From(r, c + 1)) \subseteq NumbersOf(s)
  <2> HIDE DEF r
  <2>1. c + 1 \in Nat \ {0} /\ c + 1 <= Len(r) + 1 BY ONLY <1>1, <1>2, c \in DOMAIN r
  <2>2. From(r, c + 1) \in Seq(Token) BY ONLY <1>2, <2>1, FromPlaces
  <2>3. NumbersOf(From(r, c + 1)) \subseteq NumbersOf(r) BY ONLY <1>2, <2>1, NumbersOfRest
  <2> QED BY ONLY Zenon, <1>2, <2>2, <2>3
<1>4. ASSUME NEW t \in Seq(Token)
      PROVE  /\ inet_pton_v4(t) # none => \E n \in NumbersOf(t) : IsQuad(t, n)
             /\ \A n : IsQuad(t, n) => inet_pton_v4(t) = [k \in 0..3 |-> Number(n[k], 10)]
  BY ONLY QuadsAreRead, t \in Seq(Token) DEF NumbersOf
<1>5. \A x : Low(none, x) = none BY DEF Low
<1>6. \A p \in DOMAIN s : \A n, high : MixedForm(s, p, n, high) =>
        \/ ~Has(r, Colon) /\ high = 0 /\ IsQuad(r, n)
        \/ /\ r[1] = ffff /\ high = MaxWord
           /\ \E c \in DOMAIN r : first(c) /\ IsQuad(From(r, c + 1), n)
  BY ONLY Zenon, MixedBegins, s \in Seq(Token), Len(s) > 2
<1>7. /\ \A n : IsQuad(r, n) => 3 \in DOMAIN s /\ MixedForm(s, 3, n, 0)
      /\ \A c \in DOMAIN r : r[1] = ffff /\ first(c) =>
           \A n : IsQuad(From(r, c + 1), n) => c + 3 \in DOMAIN s /\ MixedForm(s, c + 3, n, MaxWord)
  BY ONLY Zenon, MixedFromRest, s \in Seq(Token), Len(s) > 2
<1>8. b = IF ~Has(r, Colon) THEN Low(inet_pton_v4(r), 0)
          ELSE IF r[1] = ffff THEN Low(inet_pton_v4(From(r, colon + 1)), MaxWord) ELSE none
  BY ONLY Zenon, b = Dotted(From(s, 3)) DEF Dotted
<1>9. Has(r, Colon) => colon \in DOMAIN r /\ first(colon)
  <2> SUFFICES ASSUME Has(r, Colon) PROVE colon \in DOMAIN r /\ first(colon) OBVIOUS
  <2> HIDE DEF r
  <2>1. \E i \in DOMAIN r : first(i) BY ONLY Zenon, <1>2, FirstColon, Has(r, Colon)
  <2> HIDE DEF first
  <2> QED BY ONLY Zenon, <2>1 DEF colon
<1>10. \A i, j \in DOMAIN r : first(i) /\ first(j) => i = j
  <2> HIDE DEF r
  <2> SUFFICES ASSUME NEW i \in DOMAIN r, NEW j \in DOMAIN r, first(i), first(j), i # j
               PROVE FALSE
    OBVIOUS
  <2>1. i \in 1 .. j - 1 \/ j \in 1 .. i - 1 BY ONLY <1>1, <1>2, i \in DOMAIN r, j \in DOMAIN r, i # j
  <2> QED BY ONLY Zenon, <2>1, first(i), first(j)
<1>11. \A c \in DOMAIN r : first(c) => Has(r, Colon) BY ONLY Zenon DEF Has
<1> HIDE DEF r, first, colon
<1>12. CASE ~Has(r, Colon)
  <2>1. b = Low(inet_pton_v4(r), 0) BY ONLY Zenon, <1>8, <1>12
  <2>2. ASSUME b # none
        PROVE  \E p \in DOMAIN s, n \in NumbersOf(s), high \in {0, MaxWord} : MixedForm(s, p, n, high)
    <3>1. inet_pton_v4(r) # none BY ONLY Zenon, <1>5, <2>1, <2>2
    <3>2. PICK n \in NumbersOf(r) : IsQuad(r, n) BY ONLY Zenon, <1>2, <1>4, <3>1
    <3>3. n \in NumbersOf(s) /\ 3 \in DOMAIN s /\ MixedForm(s, 3, n, 0)
      BY ONLY Zenon, <1>2, <1>7, <3>2
    <3> QED BY ONLY Zenon, <3>3
  <2>3. ASSUME NEW p \in DOMAIN s, NEW n, NEW high, MixedForm(s, p, n, high)
        PROVE  b = Low([k \in 0..3 |-> Number(n[k], 10)], high)
    <3>1. high = 0 /\ IsQuad(r, n) BY ONLY Zenon, <1>6, <1>11, <1>12, <2>3
    <3> QED BY ONLY Zenon, <1>2, <1>4, <2>1, <3>1
  <2> QED BY ONLY Zenon, <2>2, <2>3
<1>13. CASE Has(r, Colon)
  <2>1. colon \in DOMAIN r /\ first(colon) BY ONLY Zenon, <1>9, <1>13
  <2> DEFINE t == From(r, colon + 1)
  <2>2. t \in Seq(Token) /\ NumbersOf(t) \subseteq NumbersOf(s) BY ONLY Zenon, <1>3, <2>1
  <2>3. r[1] = ffff => b = Low(inet_pton_v4(t), MaxWord) BY ONLY Zenon, <1>8, <1>13
  <2>4. r[1] # ffff => b = none BY ONLY Zenon, <1>8, <1>13
  <2>5. ASSUME b # none
        PROVE  \E p \in DOMAIN s, n \in NumbersOf(s), high \in {0, MaxWord} : MixedForm(s, p, n, high)
    <3>1. r[1] = ffff /\ inet_pton_v4(t) # none BY ONLY Zenon, <1>5, <2>3, <2>4, <2>5
    <3>2. PICK n \in NumbersOf(t) : IsQuad(t, n) BY ONLY Zenon, <1>4, <2>2, <3>1
    <3>3. n \in NumbersOf(s) /\ colon + 3 \in DOMAIN s /\ MixedForm(s, colon + 3, n, MaxWord)
      BY ONLY Zenon, <1>7, <2>1, <2>2, <3>1, <3>2
    <3> QED BY ONLY Zenon, <3>3
  <2>6. ASSUME NEW p \in DOMAIN s, NEW n, NEW high, MixedForm(s, p, n, high)
        PROVE  b = Low([k \in 0..3 |-> Number(n[k], 10)], high)
    <3>1. /\ r[1] = ffff /\ high = MaxWord
          /\ \E c \in DOMAIN r : first(c) /\ IsQuad(From(r, c + 1), n)
      BY ONLY Zenon, <1>6, <1>13, <2>6
    <3>2. IsQuad(t, n) BY ONLY Zenon, <1>10, <2>1, <3>1
    <3> QED BY ONLY Zenon, <1>4, <2>2, <2>3, <3>1, <3>2
  <2> QED BY ONLY Zenon, <2>5, <2>6
<1> QED BY ONLY <1>12, <1>13

\* A text with dots is read exactly when its rest is of the mixed form.
LEMMA MixedFollow == TextInv => MixedRead
<1> SUFFICES ASSUME TextInv, step = "read", family = "AF_INET6", WithDots(text)
             PROVE  /\ back # none =>
                         \E p \in DOMAIN text, n \in NumbersOf(text), high \in {0, MaxWord} :
                           MixedForm(text, p, n, high)
                    /\ \A p \in DOMAIN text, n \in NumbersOf(text), high \in {0, MaxWord} :
                         MixedForm(text, p, n, high) =>
                           back = Low([k \in 0..3 |-> Number(n[k], 10)], high)
  BY DEF MixedRead, NumbersOf
<1>1. text \in Seq(Token) /\ Len(text) > 2 /\ back = Dotted(From(text, 3))
  BY DEF TextInv, Base, AtRead, WithDots
<1>2. MixedAnswer(text, back) BY ONLY <1>1, MixedMeans
<1> QED BY ONLY Zenon, <1>2 DEF MixedAnswer

\* Texts of words are read exactly when they have a form.
LEMMA WordsFollow == TextInv => WordsRead
BY DEF TextInv, AtRead, Answered, WordsRead

\* The form that the text of an address is written in.
LEMMA OwnForm ==
    ASSUME NEW a \in [0..7 -> 0..MaxWord], NEW h, NEW t, Gap(a, h, t),
           NEW s \in Seq(Token), Drawn(s, a, h, t, 8)
    PROVE  \E f \in Forms :
             HasForm(s, f) /\ f.lead = 0 /\ f.head = h /\ f.tail = t /\ Written(s, f) = a
<1> DEFINE f == [lead |-> 0, head |-> h, tail |-> t, gap |-> h < 8]
<1>1. Split(h, t) /\ Zeros(a, h, t) BY DEF Gap, Split, Zeros
<1>2. f \in Forms BY <1>1 DEF Forms, Split
<1>3. FormOf(f, h, t) BY <1>1 DEF FormOf
<1>4. EightWords(a) BY WordsPrinted DEF EightWords
<1> HIDE DEF f
<1>5. HasForm(s, f) /\ Written(s, f) = a BY <1>1, <1>3, <1>4, DrawnForm
<1> QED BY <1>2, <1>3, <1>5 DEF FormOf

\* The form that is printed leaves out a longest run of zeros.
LEMMA LongestRunFollows == TextInv => LongestRunLeftOut
<1> SUFFICES ASSUME TextInv, step = "text", address # none, family = "AF_INET6",
                    ~Compatible(address), ~Mapped(address)
             PROVE  \E f \in Forms :
                      /\ HasForm(Own, f) /\ f.lead = 0 /\ Written(Own, f) = address
                      /\ \A i, j \in 0..7 : i <= j /\ (\A k \in i..j : address[k] = 0) =>
                           j - i + 1 <= 8 - (f.head + f.tail)
  BY DEF LongestRunLeftOut
<1>1. PICK h, t \in 0..8, own \in Seq(Token) :
        /\ Gap(address, h, t) /\ Drawn(own, address, h, t, 8)
        /\ text = IF runpos[7] = -1 THEN own ELSE own \o left
  BY DEF TextInv, HasText, LongText, Plain
<1>2. Own = own
  <2>1. CASE Ended BY <1>1, <2>1 DEF Own, Ended
  <2>2. CASE ~Ended
    <3>1. left \in Seq(Token) /\ text = own \o left BY <1>1, <2>2 DEF TextInv, Base, Ended
    <3>2. Len(text) - Len(left) = Len(own) /\ SubSeq(own \o left, 1, Len(own)) = own
      <4>1. Len(own \o left) = Len(own) + Len(left) BY <3>1, ConcatProperties
      <4>2. Len(own) \in Nat /\ Len(left) \in Nat BY <3>1, LenProperties
      <4>3. SubSeq(own \o left, 1, Len(own)) = own
        <5>1. SubSeq(own \o left, 1, Len(own)) = SubSeq(own, 1, Len(own))
          BY <3>1, <4>2, SubSeqOfConcat1
        <5> QED BY <5>1, SubSeqFull
      <4> QED BY <3>1, <4>1, <4>2, <4>3
    <3> QED BY <2>2, <3>1, <3>2 DEF Own
  <2> QED BY <2>1, <2>2
<1>3. address \in [0..7 -> 0..MaxWord] BY AddressType DEF TextInv
<1>4. PICK f \in Forms :
        HasForm(own, f) /\ f.lead = 0 /\ f.head = h /\ f.tail = t /\ Written(own, f) = address
  BY <1>1, <1>3, OwnForm
<1>5. \A i, j \in 0..7 : i <= j /\ (\A k \in i..j : address[k] = 0) =>
        j - i + 1 <= 8 - (f.head + f.tail)
  BY <1>1, <1>4 DEF Gap
<1> QED BY <1>2, <1>4, <1>5

\* What was printed is read as the same address.
LEMMA RoundTripFollows == TextInv => RoundTrip
<1> SUFFICES ASSUME TextInv, step = "read", address # none,
                    family = "AF_INET" \/ Ended \/ left = << >>
             PROVE  back = address
  BY DEF RoundTrip
<1>1. CASE family = "AF_INET"
  <2>1. address \in [0..3 -> 0..255] BY <1>1, AddressType DEF TextInv
  <2>2. text = inet_ntop_v4(address) /\ back = inet_pton_v4(text)
    BY <1>1 DEF TextInv, HasText, AtRead
  <2> QED BY <2>1, <2>2, QuadRoundTrip
<1>2. CASE family = "AF_INET6"
  <2>1. address \in [0..7 -> 0..MaxWord] /\ address \in [0..7 -> Nat]
    BY <1>2, AddressType DEF TextInv
  <2>2. PICK h, t \in 0..8 : Gap(address, h, t) BY <2>1, GapIs
  <2>3. LongText(text, address, runpos, left) BY <1>2 DEF TextInv, HasText
  <2>4. CASE Compatible(address)
    <3>1. text = <<Colon, Colon>> \o inet_ntop_v4(LowQuad(address)) BY <2>3, <2>4 DEF LongText
    <3>2. WithDots(text) /\ Dotted(From(text, 3)) = address BY <2>1, <2>2, <2>4, <3>1, DottedRoundTrip
    <3> QED BY <1>2, <3>2 DEF TextInv, AtRead
  <2>5. CASE Mapped(address)
    <3>1. text = <<Colon, Colon, ffff, Colon>> \o inet_ntop_v4(LowQuad(address))
      BY <2>3, <2>5 DEF LongText
    <3>2. WithDots(text) /\ Dotted(From(text, 3)) = address BY <2>1, <2>2, <2>5, <3>1, DottedRoundTrip
    <3> QED BY <1>2, <3>2 DEF TextInv, AtRead
  <2>6. CASE Plain(address)
    <3>1. PICK k, l \in 0..8, own \in Seq(Token) :
            /\ Gap(address, k, l) /\ Drawn(own, address, k, l, 8)
            /\ text = IF runpos[7] = -1 THEN own ELSE own \o left
      BY <2>3, <2>6 DEF LongText
    <3>2. text = own
      <4>1. CASE Ended BY <3>1, <4>1 DEF Ended
      <4>2. CASE ~Ended
        <5>1. left = << >> /\ text = own \o left BY <1>2, <3>1, <4>2 DEF Ended
        <5> QED BY <5>1, ConcatEmptySeq
      <4> QED BY <4>1, <4>2
    <3>3. PICK f \in Forms : HasForm(own, f) /\ Written(own, f) = address
      BY <2>1, <3>1, OwnForm
    <3>4. ~WithDots(text) BY <3>2, <3>3, NoDots
    <3>5. Answered(text, back) BY <1>2, <3>4 DEF TextInv, AtRead
    <3> QED BY <3>2, <3>3, <3>5 DEF Answered
  <2> QED BY <2>4, <2>5, <2>6 DEF Plain
<1> QED BY <1>1, <1>2 DEF TextInv, Base

\* Texts and addresses correspond (netutils.c), whatever bytes, words and texts are
\* tried and whatever a buffer held: every answer is as wide as its family, what is
\* printed is read as the same address but where its text has no end, it is printed in
\* the shortest form, and a text is read exactly when it is written in one of the forms.
THEOREM TextsMeanAddresses == InetSpec => []TextMeansAddress
<1>1. InetInit => TextInv BY TextInvInit
<1>2. TextInv /\ [InetNext]_inetVars => TextInv' BY TextInvKept
<1>3. TextInv => TextMeansAddress
  BY TypesFollow, QuadsFollow, MixedFollow, WordsFollow, LongestRunFollows, RoundTripFollows
     DEF TextMeansAddress
<1> QED BY <1>1, <1>2, <1>3, PTL DEF InetSpec
=============================================================================
