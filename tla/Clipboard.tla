------------------------------- MODULE Clipboard -------------------------------
(***************************************************************************)
(* FtpPutIntoClipboardWithSource (CMiniFtp.cpp) looks for a folder in the  *)
(* root of the FTP server, and puts the files of it that have one of the   *)
(* given names on the clipboard.  It is a chain of calls of the shell, any *)
(* of which may fail, and it gives back what it holds at the end.          *)
(* Matching a name is strstr: a file of the list may match several         *)
(* entries.  One call after another is made; between them it is "idle".    *)
(***************************************************************************)
EXTENDS Naturals, Sequences, FiniteSets, SequencesExt

CONSTANTS
    Entries,        \* the entries a folder may have
    FileNames,      \* file_names; count is how many there are
    Match,          \* the pairs of an entry and the name that is part of its name
    MaxOthers       \* bound on the other folders of the root

ASSUME ClipboardAssumption ==
    /\ Match \subseteq Entries \X FileNames /\ MaxOthers \in Nat
    /\ IsFiniteSet(Entries) /\ IsFiniteSet(FileNames)

VARIABLES
    at,         \* the call that comes next, "exit", "done" or "idle"
    folder,     \* the entries that are there
    unread,     \* those the enumeration has not given yet
    others,     \* the other folders of the root that were passed
    ppcs,       \* the entries chosen so far
    held,       \* the interfaces that were got and not released
    hr,
    clipboard,  \* the entries it put there
    cut         \* history: an enumeration ended with an error

clip == <<at, folder, unread, others, ppcs, held, hr, clipboard, cut>>

count == Cardinality(FileNames)
Wanted(entry) == \E name \in FileNames : <<entry, name>> \in Match

-----------------------------------------------------------------------------
(* The calls, in their order *)

Opening == <<"desktop", "pidl", "ftp_root", "attributes", "ftp_view", "pl">>
Source  == <<"source_root", "source_attributes", "plv">>

Copying == <<"ppcs_attributes", "item_context_menu", "invoke">>

Chains == {Opening, Source, Copying}
Calls == UNION {ToSet(c) : c \in Chains}

\* What follows the last call of a chain is an enumeration, or the end.
AfterChain == [pl |-> "folders", plv |-> "entries", invoke |-> "exit"]

Following(call) ==
    LET chain == CHOOSE c \in Chains : Contains(c, call)
        i == CHOOSE i \in DOMAIN chain : chain[i] = call
    IN IF i < Len(chain) THEN chain[i + 1] ELSE AfterChain[call]

Interfaces == {"desktop", "ftp_root", "ftp_view", "pl", "source_root", "plv",
               "item_context_menu"}

-----------------------------------------------------------------------------
Idle ==
    /\ at = "idle" /\ folder = {} /\ unread = {} /\ others = 0 /\ ppcs = << >>
    /\ held = {} /\ hr = "S_OK" /\ clipboard = {} /\ cut = FALSE

Enter ==
    /\ at = "idle" /\ at' = Opening[1]
    /\ folder' \in SUBSET Entries /\ unread' = folder'
    /\ UNCHANGED <<others, ppcs, held, hr, clipboard, cut>>

\* What was in local variables is gone.
Return ==
    /\ at = "done" /\ at' = "idle"
    /\ folder' = {} /\ unread' = {} /\ others' = 0 /\ ppcs' = << >>
    /\ hr' = "S_OK" /\ clipboard' = {} /\ cut' = FALSE /\ UNCHANGED held

Succeeds(call) ==
    /\ at = call /\ at' = Following(call)
    /\ held' = held \cup ({call} \cap Interfaces) /\ hr' = "S_OK"
    /\ clipboard' = IF call = "invoke" THEN ToSet(ppcs) ELSE clipboard
    /\ UNCHANGED <<folder, unread, others, ppcs, cut>>

Fails(call) ==
    /\ at = call /\ at' = "exit" /\ hr' = "error"
    /\ UNCHANGED <<folder, unread, others, ppcs, held, clipboard, cut>>

-----------------------------------------------------------------------------
(* The folders of the root *)

OtherFolder ==
    /\ at = "folders" /\ others < MaxOthers /\ others' = others + 1 /\ hr' = "S_OK"
    /\ UNCHANGED <<at, folder, unread, ppcs, held, clipboard, cut>>

FoundSource ==
    /\ at = "folders" /\ at' = Source[1] /\ hr' = "S_OK"
    /\ UNCHANGED <<folder, unread, others, ppcs, held, clipboard, cut>>

\* The enumeration ends, or fails, or the name of a folder cannot be had.
NoSource ==
    /\ at = "folders" /\ at' = "exit" /\ hr' \in {"S_FALSE", "error"}
    /\ UNCHANGED <<folder, unread, others, ppcs, held, clipboard, cut>>

-----------------------------------------------------------------------------
(* The entries *)

Chosen(entry) == IF Wanted(entry) THEN <<entry>> ELSE << >>

NextEntry ==
    /\ at = "entries"
    /\ \E entry \in unread :
         /\ unread' = unread \ {entry}
         /\ \/ hr' = "S_OK" /\ ppcs' = ppcs \o Chosen(entry) /\ at' = at
            \/ hr' = "error" /\ ppcs' = ppcs /\ at' = "exit"
    /\ UNCHANGED <<folder, others, held, clipboard, cut>>

\* An error of Next is taken for the end.
AtEnd_Always == "S_OK"
AtEnd == IF ppcs = << >> THEN "E_FAIL" ELSE "S_FALSE"

EntriesEnd(error) ==
    /\ at = "entries" /\ (error \/ unread = {})
    /\ cut' = error
    /\ at' = IF ppcs = << >> THEN "exit" ELSE Copying[1]
    /\ hr' = AtEnd
    /\ UNCHANGED <<folder, unread, others, ppcs, held, clipboard>>

-----------------------------------------------------------------------------
\* exit_me
Released_NotPlv == Interfaces \ {"plv"}
Released == Interfaces

ExitMe ==
    /\ at = "exit" /\ at' = "done" /\ held' = held \ Released
    /\ UNCHANGED <<folder, unread, others, ppcs, hr, clipboard, cut>>

Copy ==
    \/ \E call \in Calls : Succeeds(call) \/ Fails(call)
    \/ OtherFolder \/ FoundSource \/ NoSource
    \/ NextEntry \/ (\E error \in BOOLEAN : EntriesEnd(error))
    \/ ExitMe

-----------------------------------------------------------------------------
(* Properties *)

\* The call answers S_OK exactly when it put entries on the clipboard, and these
\* are all that match, unless an enumeration failed in the middle.  The array of
\* count entries is overrun only when a name of the list is part of the names of
\* two entries.
SuccessMeansCopied ==
    /\ at = "done" =>
         /\ hr = "S_OK" <=> clipboard # {}
         /\ hr = "S_OK" => clipboard = {e \in folder : Wanted(e)} \/ cut
    /\ Len(ppcs) > count =>
         \E name \in FileNames :
           Cardinality({e \in folder : <<e, name>> \in Match}) > 1
=============================================================================
