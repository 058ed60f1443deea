----------------------------- MODULE FileCommands -----------------------------
(***************************************************************************)
(* The file commands of several sessions (command_map.c, trans_list_common *)
(* of trans_data.c) in the console program, where no callback is set.      *)
(* _chdir, _getcwd and every relative name go by the current directory of  *)
(* the process, which all sessions share.  A command is one step, except   *)
(* where it makes several system calls that depend on that directory: MKD  *)
(* (_mkdir, then _getcwd) and LIST (opendir, then stat of each name).      *)
(*                                                                         *)
(* The drive is a set of directories and a set of files; a path is the     *)
(* sequence of its names, << >> the root of the drive.                     *)
(***************************************************************************)
EXTENDS Naturals, Sequences, FiniteSets, SequencesExt

CONSTANTS
    Sessions,
    Names,
    Hidden,     \* the names that begin with "."
    Given,      \* bound: the names that clients give
    Paths,      \* bound: the paths that may exist
    Drives,     \* the directories and the files there may be at first
    MaxHeld,    \* bound on the search handles that are open
    MaxRenames  \* bound on the sessions between RNFR and RNTO

ASSUME FileAssumption ==
    /\ Hidden \subseteq Names /\ Given \subseteq Names /\ Paths \subseteq Seq(Names)
    /\ \A d \in Drives :
         /\ d.dirs \cup d.files \subseteq Paths
         /\ << >> \in d.dirs /\ d.dirs \cap d.files = {}
         /\ \A p \in d.dirs \cup d.files : p = << >> \/ Front(p) \in d.dirs
    /\ MaxHeld \in Nat /\ MaxRenames \in Nat

\* An argument is "name", "/name", "/name/" or "/".
Arg == [form : {"rel", "abs", "slashed", "slash"}, name : Given]
FileArg == {a \in Arg : a.form \in {"rel", "abs"}}

VARIABLES
    dirs, files,    \* the drive
    cwd,            \* the current directory of the process
    pc,             \* "ready", or the command a session is in
    made,           \* the directory MKD made
    find,           \* the search of LIST: its directory, all its names, those to come
    rnfr,           \* session->rnfr_name
    held,           \* the search handles that are open
    \* history
    view,           \* the directory a session's own commands chose
    astray,         \* sessions under whose feet another one changed the directory
    named,          \* what rnfr_name stood for when RNFR was given
    turned,         \* sessions since whose RNFR the directory changed
    disturbed       \* sessions disturbed in the middle of their MKD or LIST

drive == <<dirs, files>>
work  == <<pc, made, find, rnfr, held>>
causes == <<astray, turned, disturbed>>
vars  == <<drive, cwd, work, view, named, causes>>

NoSearch == [dir |-> << >>, all |-> {}, todo |-> {}, sent |-> {}]
NoArg == [form |-> "none"]

-----------------------------------------------------------------------------
(* Names, and the system calls *)

Under(dir, a) == IF a.form = "rel" THEN Append(dir, a.name) ELSE <<a.name>>

\* do_cwd strips the slashes of "/name/", which makes it a relative name, and
\* leaves nothing of "/".
CwdTarget_Absolute(dir, a) ==
    IF a.form \in {"rel", "slashed"} THEN <<a.name>> ELSE Under(dir, a)
CwdTarget(dir, a) == IF a.form = "slashed" THEN Append(dir, a.name) ELSE Under(dir, a)
Stripped(a) == a.form = "slash"

Parent(p) == IF p = << >> THEN p ELSE Front(p)
Exists(p) == p \in dirs \cup files
Entries(p) == {n \in Names : Exists(Append(p, n))}

\* A name can be made in a directory that is there.
Free(p) == p \in Paths /\ p # << >> /\ ~Exists(p) /\ Parent(p) \in dirs

\* Windows keeps the current directory, and those above it, from going.
InUse(p) == IsPrefix(p, cwd)

\* rename does not replace, and does not move a directory into itself.
CanRename(from, to) ==
    /\ Exists(from) /\ Free(to) /\ ~IsPrefix(from, to) /\ ~InUse(from)
    /\ \A p \in dirs \cup files : IsPrefix(from, p) => to \o SubSeq(p, Len(from) + 1, Len(p)) \in Paths

Moved(S, from, to) ==
    {IF IsPrefix(from, p) THEN to \o SubSeq(p, Len(from) + 1, Len(p)) ELSE p : p \in S}

-----------------------------------------------------------------------------
Init ==
    /\ \E d \in Drives : dirs = d.dirs /\ files = d.files
    /\ cwd = << >>
    /\ pc = [s \in Sessions |-> "ready"] /\ made = [s \in Sessions |-> << >>]
    /\ find = [s \in Sessions |-> NoSearch] /\ rnfr = [s \in Sessions |-> NoArg]
    /\ held = 0
    /\ view = [s \in Sessions |-> << >>] /\ named = [s \in Sessions |-> << >>]
    /\ astray = {} /\ turned = {} /\ disturbed = {}

Ready(s) == pc[s] = "ready"
Goto(s, place) == pc' = [pc EXCEPT ![s] = place]

Busy == {s \in Sessions : ~Ready(s)}
Disturbs(s) == disturbed' = disturbed \cup (Busy \ {s})

-----------------------------------------------------------------------------
(* The directory *)

\* _chdir succeeded.  A session that has lost its way finds it again with an
\* absolute name.
ChangeDir(s, target, own, absolute) ==
    LET lost == (astray \cup (Sessions \ {s})) \ (IF absolute THEN {s} ELSE {}) IN
    /\ cwd' = target /\ astray' = lost
    /\ view' = [r \in Sessions |-> IF r \in lost THEN << >> ELSE own]
    /\ turned' = {r \in Sessions : rnfr[r] # NoArg} /\ Disturbs(s)

Cwd(s, a) ==
    /\ Ready(s) /\ ~Stripped(a) /\ CwdTarget(cwd, a) \in dirs
    /\ ChangeDir(s, CwdTarget(cwd, a),
                 IF a.form = "abs" THEN <<a.name>> ELSE Append(view[s], a.name),
                 a.form = "abs")
    /\ UNCHANGED <<drive, work, named>>

\* Windows keeps the current directory, so ".." is there; above the root is the root.
CdupTarget(dir) == Parent(dir)

Cdup(s) ==
    /\ Ready(s) /\ ChangeDir(s, CdupTarget(cwd), Parent(view[s]), FALSE)
    /\ UNCHANGED <<drive, work, named>>

-----------------------------------------------------------------------------
(* Single calls *)

\* A call that changes the drive disturbs those who are reading it.
Alters(s) == Disturbs(s) /\ UNCHANGED <<astray, turned>>

Rmd(s, a) ==
    LET p == Under(cwd, a) IN
    /\ Ready(s) /\ p \in dirs /\ Entries(p) = {} /\ ~InUse(p)
    /\ dirs' = dirs \ {p} /\ Alters(s)
    /\ UNCHANGED <<files, cwd, work, view, named>>

Dele(s, a) ==
    LET p == Under(cwd, a) IN
    /\ Ready(s) /\ p \in files
    /\ files' = files \ {p} /\ Alters(s)
    /\ UNCHANGED <<dirs, cwd, work, view, named>>

\* STOR and APPE open the file with O_CREAT; what becomes of the data is
\* FtpSession.
Stor(s, a) ==
    LET p == Under(cwd, a) IN
    /\ Ready(s) /\ Free(p)
    /\ files' = files \cup {p}
    /\ UNCHANGED <<dirs, cwd, work, view, named, causes>>

Keeps_First(s, a) == IF rnfr[s] = NoArg THEN [rnfr EXCEPT ![s] = a] ELSE rnfr
Keeps(s, a) == [rnfr EXCEPT ![s] = a]

\* RNFR keeps the name as it was given, and does not look whether it exists.
Rnfr(s, a) ==
    /\ Ready(s)
    /\ Cardinality({r \in Sessions \ {s} : rnfr[r] # NoArg}) < MaxRenames
    /\ rnfr' = Keeps(s, a)
    /\ named' = [named EXCEPT ![s] = Under(cwd, a)] /\ turned' = turned \ {s}
    /\ UNCHANGED <<drive, cwd, pc, made, find, held, view, astray, disturbed>>

\* RNTO without RNFR answers 503; when it fails the name is kept.
Forgets(s) == [rnfr EXCEPT ![s] = NoArg]

RntoFrom(s) == Under(cwd, rnfr[s])

Rnto(s, a) ==
    LET to == Under(cwd, a) IN
    /\ Ready(s) /\ rnfr[s] # NoArg /\ CanRename(RntoFrom(s), to)
    /\ dirs' = Moved(dirs, RntoFrom(s), to) /\ files' = Moved(files, RntoFrom(s), to)
    /\ rnfr' = Forgets(s)
    /\ named' = [named EXCEPT ![s] = << >>] /\ turned' = turned \ {s}
    /\ Disturbs(s)
    /\ UNCHANGED <<cwd, pc, made, find, held, view, astray>>

-----------------------------------------------------------------------------
(* MKD *)

Ends(s) == /\ Goto(s, "ready") /\ disturbed' = disturbed \ {s}
           /\ UNCHANGED <<astray, turned>>

Mkd(s, a) ==
    LET p == Under(cwd, a) IN
    /\ Ready(s) /\ Free(p)
    /\ dirs' = dirs \cup {p} /\ UNCHANGED causes
    /\ IF a.form = "rel" THEN Goto(s, "mkd") /\ made' = [made EXCEPT ![s] = p]
                         ELSE UNCHANGED <<pc, made>>
    /\ UNCHANGED <<files, cwd, find, rnfr, held, view, named>>

\* _getcwd; 257 with that directory and the argument.
Announced_Bare(s) == <<Last(made[s])>>
Announced(s) == Append(cwd, Last(made[s]))

MkdReply(s) ==
    /\ pc[s] = "mkd" /\ Ends(s) /\ made' = [made EXCEPT ![s] = << >>]
    /\ UNCHANGED <<drive, cwd, find, rnfr, held, view, named>>

-----------------------------------------------------------------------------
(* LIST and NLST *)

\* FindFirstFile has a first result, which opendir drops: "." in a directory,
\* but a name of the directory in the root of a drive.
Dropped(dir, n) == IF dir = << >> THEN {n} ELSE {}

Search(dir, all, todo) == [dir |-> dir, all |-> all, todo |-> todo, sent |-> {}]

\* opendir(".").  A drive without a name in its root has no first result.
Opendir(s) ==
    /\ Ready(s) /\ held < MaxHeld
    /\ \/ /\ cwd = << >> /\ Entries(cwd) = {} /\ UNCHANGED <<pc, find, held, causes>>
       \/ \E n \in (IF cwd = << >> THEN Entries(cwd) ELSE Names) :
            /\ find' = [find EXCEPT ![s] =
                          Search(cwd, Entries(cwd), Entries(cwd) \ Dropped(cwd, n))]
            /\ Goto(s, "list") /\ held' = held + 1 /\ UNCHANGED causes
    /\ UNCHANGED <<drive, cwd, made, rnfr, view, named>>

\* readdir, and the next name: one that begins with "." is not looked at.
Skipped(s, n) ==
    /\ pc[s] = "list" /\ n \in find[s].todo \cap Hidden
    /\ find' = [find EXCEPT ![s].todo = @ \ {n}]
    /\ UNCHANGED <<drive, cwd, pc, made, rnfr, held, view, named, causes>>

\* stat of any other name, which is one in the current directory.
StatPath_Root(s, n) == <<n>>
StatPath(s, n) == Append(cwd, n)

Line(s, n) ==
    /\ pc[s] = "list" /\ n \in find[s].todo \ Hidden /\ Exists(StatPath(s, n))
    /\ find' = [find EXCEPT ![s].todo = @ \ {n}, ![s].sent = @ \cup {n}]
    /\ UNCHANGED <<drive, cwd, pc, made, rnfr, held, view, named, causes>>

\* FindNextFile may leave out a name that has gone.
Passed(s, n) ==
    /\ pc[s] = "list" /\ n \in find[s].todo /\ ~Exists(Append(find[s].dir, n))
    /\ find' = [find EXCEPT ![s].todo = @ \ {n}]
    /\ UNCHANGED <<drive, cwd, pc, made, rnfr, held, view, named, causes>>

\* 226, whatever happened.
Missing(s) == (find[s].all \cap Entries(find[s].dir)) \ (find[s].sent \cup Hidden)
Short(s) == Cardinality(Missing(s)) > (IF find[s].dir = << >> THEN 1 ELSE 0)

ListEnd(s, handles) ==
    /\ Ends(s) /\ find' = [find EXCEPT ![s] = NoSearch] /\ held' = handles
    /\ UNCHANGED <<drive, cwd, made, rnfr, view, named>>

\* A name that is gone ends the listing, without closedir.
StatFails(s) ==
    /\ pc[s] = "list" /\ \E n \in find[s].todo \ Hidden : ~Exists(StatPath(s, n))
    /\ ListEnd(s, held)

AfterClosedir(h) == h - 1

Closedir(s) == pc[s] = "list" /\ find[s].todo = {} /\ ListEnd(s, AfterClosedir(held))

-----------------------------------------------------------------------------
\* The connection ends and another client takes its place; PWD tells it the
\* current directory.
NewSession(s) ==
    /\ Ready(s)
    /\ rnfr' = Forgets(s) /\ named' = [named EXCEPT ![s] = << >>]
    /\ view' = [view EXCEPT ![s] = cwd] /\ astray' = astray \ {s}
    /\ turned' = turned \ {s}
    /\ UNCHANGED <<drive, cwd, pc, made, find, held, disturbed>>

Session(s) ==
    \/ \E a \in Arg : Cwd(s, a)
    \/ \E a \in FileArg : \/ Rmd(s, a) \/ Dele(s, a) \/ Stor(s, a)
                          \/ Rnfr(s, a) \/ Rnto(s, a) \/ Mkd(s, a)
    \/ Cdup(s) \/ MkdReply(s)
    \/ Opendir(s) \/ (\E n \in Names : Skipped(s, n) \/ Line(s, n) \/ Passed(s, n))
    \/ StatFails(s) \/ Closedir(s)
    \/ NewSession(s)

Next == \E s \in Sessions : Session(s)

Spec == Init /\ [][Next]_vars

-----------------------------------------------------------------------------
(* Properties *)

TypeOK ==
    /\ dirs \cup files \subseteq Paths /\ dirs \cap files = {} /\ cwd \in dirs
    /\ \A p \in dirs \cup files : Parent(p) \in dirs
    /\ pc \in [Sessions -> {"ready", "mkd", "list"}]
    /\ rnfr \in [Sessions -> FileArg \cup {NoArg}]
    /\ \A s \in Sessions : find[s].todo \subseteq find[s].all /\ find[s].all \subseteq Names
    /\ held \in 0 .. MaxHeld
    /\ UNION {astray, turned, disturbed} \subseteq Sessions

\* The drive stays a tree, and the directory a session's names are taken from is
\* in it, and is the one its own CWD and CDUP lead to, unless another session has
\* changed directory since it began or last gave an absolute one (_chdir: one
\* directory for the process).
ActsInView == TypeOK /\ \A s \in Sessions \ astray : view[s] = cwd

\* The name of 257 is that of the directory MKD made, unless another session
\* changed something between _mkdir and _getcwd.
MkdNamed == [][\A s \in Sessions : pc[s] = "mkd" /\ Announced(s) # made[s]
                                     /\ MkdReply(s) => s \in disturbed]_vars

\* RNTO renames what RNFR named, once, unless a CWD or CDUP of any session came
\* between them (rnfr_name is the argument, not a path).
RenamesWhatWasNamed ==
    [][\A s \in Sessions, a \in FileArg :
         Rnto(s, a) => RntoFrom(s) = named[s] \/ s \in turned]_vars

\* A line of a listing describes the entry whose name it has (readdir, then stat
\* of a relative name), and a listing that ends, always with 226, has closed its
\* search and has every entry that was there throughout and is not hidden, but for
\* one in the root of a drive; unless another session changed something since opendir.
ListingFaithful ==
    [][\A s \in Sessions \ disturbed :
         /\ \A n \in Names : Line(s, n) => StatPath(s, n) = Append(find[s].dir, n)
         /\ pc[s] = "list" /\ pc'[s] = "ready" => ~Short(s) /\ held' < held]_vars
=============================================================================
