------------------------------ MODULE CVector ------------------------------
(***************************************************************************)
(* The vector of cvector.c: a block of tot slots of which the first len    *)
(* are elements, doubled when it is full and halved when three quarters of *)
(* it are empty.  A slot past the elements holds junk: no operation but    *)
(* insert_at ever makes it an element again without writing it.            *)
(***************************************************************************)
EXTENDS Integers

CONSTANTS
    Elems,      \* what the vector holds
    junk,       \* the contents of memory nobody wrote
    MIN_LEN,    \* the first size of the block (256)
    MaxLen,     \* bound on the length
    AllocFails  \* realloc may return NULL

ASSUME CVectorAssumption ==
    /\ junk \notin Elems /\ MIN_LEN \in Nat /\ MIN_LEN >= 2 /\ MaxLen \in Nat
    /\ AllocFails \in BOOLEAN

VARIABLES
    slots,      \* the block, indexed from 0 as in the code
    len, tot,   \* cv_len, cv_tot_len
    ret,        \* what the last operation returned
    refused,    \* history: realloc refused to make the block smaller
    overrun,    \* history: operations that wrote past the end of the block
    broken      \* why the vector is of no more use, "" while it is

vars == <<slots, len, tot, ret, refused, overrun, broken>>

(* An operator whose name ends in an underscore and a word is the same code  *)
(* with the slip the word names.                                            *)

Full_Late(n, size) == n > size
Full(n, size) == n >= size

Sparse_Half(n, size) == size >= 4 * MIN_LEN /\ n <= size \div 2
Sparse_Never(n, size) == FALSE
Sparse(n, size) == size >= 4 * MIN_LEN /\ n <= size \div 4

\* The slot a slot is filled from when those above i move up, or down, by one.
MovedUp_Past(k, i) == IF k > i + 1 THEN k - 1 ELSE k
MovedUp(k, i) == IF k > i THEN k - 1 ELSE k
MovedDown(k, i) == IF k >= i THEN k + 1 ELSE k

\* A block of n slots of which the first ones hold f.
Block(n, f) == [k \in 0..n - 1 |-> IF k \in DOMAIN f THEN f[k] ELSE junk]

At(k) == IF k \in 0..tot - 1 THEN slots[k] ELSE junk

\* The sizes insert_at may choose for n elements: doubled until n is below it.
Grown(n) == {size \in 2 * tot..2 * n : size > n /\ \E k \in 1..n : size = tot * 2^k}

Init ==
    /\ slots = [k \in 0..MIN_LEN - 1 |-> junk] /\ len = 0 /\ tot = MIN_LEN
    /\ ret = "success" /\ refused = FALSE /\ overrun = {} /\ broken = ""

Keep == UNCHANGED <<slots, len, tot, refused, overrun, broken>>

-----------------------------------------------------------------------------
\* The size of the block an addition works in; a failed realloc ends it.
Grows(size) == IF Full(len, tot) THEN size = 2 * tot ELSE size = tot

GrowFails == AllocFails /\ Full(len, tot) /\ ret' = "failed" /\ Keep

cvector_pushback(e) ==
    /\ broken = "" /\ len < MaxLen
    /\ \/ GrowFails
       \/ \E size \in {tot, 2 * tot} :
            /\ Grows(size) /\ tot' = size /\ len' = len + 1
            /\ slots' = Block(size, [k \in 0..len |-> IF k = len THEN e ELSE At(k)])
            /\ overrun' = IF len < size THEN overrun ELSE overrun \cup {"push"}
            /\ ret' = "success" /\ UNCHANGED <<refused, broken>>

\* cvmemove_foreward starts at the slot past the elements, so that it writes
\* one slot further than the insertion needs.
Inserts(i, e, what) ==
    \E size \in {tot, 2 * tot} :
        /\ Grows(size) /\ tot' = size /\ len' = len + 1
        /\ slots' = Block(size, [k \in 0..len |-> IF k = i THEN e ELSE At(MovedUp(k, i))])
        /\ overrun' = IF len + 1 < size THEN overrun ELSE overrun \cup {what}
        /\ ret' = "success" /\ UNCHANGED <<refused, broken>>

\* The iterator is one of the old block: when realloc moved it, the shift and
\* the element go to memory that is not the vector's.
Strays ==
    /\ Full(len, tot) /\ tot' = 2 * tot /\ len' = len + 1
    /\ ret' = "success" /\ broken' = "stray" /\ slots' = <<>>
    /\ UNCHANGED <<refused, overrun>>

cvector_insert(i, e) ==
    /\ broken = "" /\ len < MaxLen
    /\ \/ i < len /\ GrowFails
       \/ i < len /\ (Inserts(i, e, "insert") \/ Strays)
       \/ i >= len /\ ret' = "failed" /\ Keep

\* It ignores what cvector_insert returns, and stores what realloc returns.
cvector_insert_at(i, e) ==
    /\ broken = "" /\ len < MaxLen /\ i < MaxLen /\ ret' = "success"
    /\ \/ /\ i >= tot /\ len' = i + 1 /\ tot' \in Grown(i + 1)
          /\ \/ /\ slots' = Block(tot', [k \in 0..i |-> IF k = i THEN e ELSE At(k)])
                /\ UNCHANGED broken
             \/ AllocFails /\ broken' = "null" /\ slots' = <<>>
          /\ UNCHANGED <<refused, overrun>>
       \/ i < tot /\ i < len /\ (Inserts(i, e, "insert_at") \/ Strays)
       \/ i < tot /\ i < len /\ AllocFails /\ Full(len, tot) /\ Keep
       \/ i < tot /\ i >= len /\ Keep

-----------------------------------------------------------------------------
\* The elements that stay, and the memory that is given back when it can be:
\* the element is gone even when realloc fails.
Removes(rest) ==
    /\ len' = len - 1
    /\ \/ /\ Sparse(len - 1, tot) /\ tot' = tot \div 2 /\ ret' = "success"
          /\ UNCHANGED refused
       \/ /\ Sparse(len - 1, tot) /\ AllocFails /\ tot' = tot /\ ret' = "failed"
          /\ refused' = TRUE
       \/ ~Sparse(len - 1, tot) /\ tot' = tot /\ ret' = "success" /\ UNCHANGED refused
    /\ slots' = Block(tot', rest)
    /\ UNCHANGED <<overrun, broken>>

cvector_popback ==
    /\ broken = ""
    /\ \/ len = 0 /\ ret' = "failed" /\ Keep
       \/ len > 0 /\ Removes([k \in 0..len - 2 |-> At(k)])

\* It moves one slot more than there are elements behind the one removed.
cvector_rm(i) ==
    /\ broken = ""
    /\ \/ i >= len /\ ret' = "failed" /\ Keep
       \/ i < len /\ Removes([k \in 0..len - 2 |-> At(MovedDown(k, i))])

Next ==
    \/ cvector_popback
    \/ \E e \in Elems : cvector_pushback(e)
    \/ \E i \in 0..MaxLen : \/ cvector_rm(i)
                            \/ \E e \in Elems : cvector_insert(i, e)
                                                \/ cvector_insert_at(i, e)

Spec == Init /\ [][Next]_vars

-----------------------------------------------------------------------------
(* Properties *)

\* The types; the length never passes the size of the block, which is never
\* smaller than the first one.
TypeOK ==
    /\ len \in Nat /\ tot \in Nat /\ len <= tot /\ tot >= MIN_LEN
    /\ broken \in {"", "stray", "null"}
    /\ broken = "" => slots \in [0..tot - 1 -> Elems \cup {junk}]
    /\ refused \in BOOLEAN
    /\ ret \in {"success", "failed"}
    /\ overrun \subseteq {"push", "insert", "insert_at"}

\* Appending, which is all the session manager does to add, never writes
\* outside the block, whatever insertions and failed reallocs came before;
\* insertion does (into a block with one free slot).
PushInside == "push" \notin overrun

\* The block is less than four times as large as needed, unless realloc has
\* refused to make it smaller: no order of removals leaves it larger.
NotSparse == refused \/ (tot >= 4 * MIN_LEN => 4 * len > tot)

\* A resize by one element leaves room for at least MIN_LEN / 2 more operations
\* before the next, in either direction: a caller that adds and removes at a
\* boundary does not make the vector copy itself at every step.
ResizeLeavesRoom ==
    [][tot' # tot /\ len' <= len + 1
         => /\ 2 * (tot' - len') >= MIN_LEN
            /\ tot' >= 4 * MIN_LEN /\ ~refused
                 => 2 * (len' - tot' \div 4) >= MIN_LEN]_vars

\* The elements as a sequence.
Elements == [k \in 1..len |-> slots[k - 1]]

\* The vector implements a sequence: elements keep their order and none is
\* lost or doubled by the moves, the growth and the shrinking, and a failure
\* leaves them as they were, except as module Vector says.
Vec == INSTANCE Vector WITH seq <- IF broken = "" THEN Elements ELSE <<>>,
                            Indices <- 0..MaxLen
ImplementsVector == Vec!VecSpec
=============================================================================
