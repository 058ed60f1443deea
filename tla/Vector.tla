------------------------------- MODULE Vector -------------------------------
(***************************************************************************)
(* What cvector.h offers: a growing sequence.  An operation that succeeds  *)
(* changes the sequence as its name says.  One that fails leaves it alone, *)
(* except that popback and rm take their element out even when they report *)
(* that the memory could not be given back, and insert_at says that it     *)
(* succeeded when it did nothing or lost everything.  An insertion into a  *)
(* full block may lose everything too.                                     *)
(***************************************************************************)
EXTENDS SequencesExt, Integers

CONSTANTS Elems, junk, Indices

VARIABLES seq, ret

VecInit == seq = <<>> /\ ret = "success"

Fail == UNCHANGED seq /\ ret' = "failed"

Push(e) == (seq' = Append(seq, e) /\ ret' = "success") \/ Fail

Pop == \/ seq = <<>> /\ Fail
       \/ seq # <<>> /\ seq' = Front(seq) /\ ret' \in {"success", "failed"}

Insert(i, e) == \/ i < Len(seq) /\ ret' = "success" /\ seq' \in {InsertAt(seq, i + 1, e), <<>>}
                \/ Fail

Rm(i) == \/ i >= Len(seq) /\ Fail
         \/ /\ i < Len(seq) /\ seq' = RemoveAt(seq, i + 1)
            /\ ret' \in {"success", "failed"}

\* Beyond the end the elements between are whatever the memory held.
Extend(i, e) ==
    /\ i >= Len(seq)
    /\ seq' = seq \o [k \in 1..(i - Len(seq)) |-> junk] \o <<e>>

SetAt(i, e) ==
    /\ ret' = "success"
    /\ \/ i < Len(seq) /\ seq' = InsertAt(seq, i + 1, e)
       \/ UNCHANGED seq
       \/ Extend(i, e)
       \/ seq' = <<>>

VecNext == \/ Pop
           \/ \E e \in Elems : Push(e)
           \/ \E i \in Indices : Rm(i) \/ \E e \in Elems : Insert(i, e) \/ SetAt(i, e)

VecSpec == VecInit /\ [][VecNext]_<<seq, ret>>
=============================================================================
