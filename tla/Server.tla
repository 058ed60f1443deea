------------------------------- MODULE Server -------------------------------
(***************************************************************************)
(* The life of the server (main.c, session_manager.c, CMiniFtp StartLoop   *)
(* and StopLoop): the loop thread accepts sessions, exit_loop tells it to  *)
(* leave from another thread, and the session manager is to keep it from   *)
(* going before its sessions.  The server runs as a console program (main) *)
(* or in a host program, which may stop it and start it again.             *)
(*                                                                         *)
(* A session here is its structure and its session thread; what it does in *)
(* between is FtpSession.  Sockets are named by the loop that opened them. *)
(***************************************************************************)
EXTENDS Integers, Sequences, SequencesExt

CONSTANTS
    Sessions,   \* the sessions the clients open
    MaxStarts,  \* bound on the calls of start_loop
    MaxClients, \* tunable_max_clients
    Faults      \* a subset of {"listen", "accept", "thread", "session"}

FaultKinds == {"listen",    \* tcp_server failed
               "accept",    \* accept failed on an open listener
               "thread",    \* CreateThread failed
               "session"}   \* a session called exit_with_error

ASSUME ServerAssumption ==
    /\ MaxStarts \in Nat \ {0} /\ MaxClients \in Nat
    /\ Faults \subseteq FaultKinds
    /\ \A s \in Sessions : s # "null"

VARIABLES
    mode,       \* "console" or "library"
    hpc,        \* where main, or the host program, is
    handle,     \* CMiniFtp::handle: the loop it started last, 0 for none
    quit, code,
    listen_fd,  \* -1 is INVALID_SOCKET, 0 the initial value
    open,       \* the listeners that are open
    closer,     \* s_close(&listen_fd): by loop l, and by exit_loop (0)
    lpc,        \* where each loop thread is
    fd,         \* the handle it passed to accept_timeout
    t,          \* its flag: some accept timed out
    adding,     \* the session it starts
    rc,         \* what it returned
    manager,    \* the critical section and the vector of session_manager.c
    registry,   \* what is in the vector
    sess, owner,\* the state of each session and the loop that accepted it
    refused,    \* sessions answered 421
    orphans,    \* history: sessions that removed themselves from a destroyed manager
    late,       \* history: loops started after exit_loop
    raced,      \* history: listeners whose handle listen_fd did not keep
    failed      \* history: the faults that happened

hostVars   == <<mode, hpc, handle>>
exitVars   == <<quit, code>>
listenVars == <<listen_fd, open, closer, raced>>
loopVars   == <<lpc, fd, t, adding, rc, late>>
sessVars   == <<sess, owner, refused, orphans>>
vars == <<hostVars, exitVars, listenVars, loopVars, manager, registry, sessVars, failed>>

Loops == 1..MaxStarts

Fails(kind) == kind \in Faults /\ failed' = failed \cup {kind}


(* An operator whose name ends in an underscore and a word is the same code  *)
(* with the slip the word names.                                            *)

\* exit_with_error, whose result is what the process and the loop return.
\* exit_with_message, which would set success again, is called only when a private
\* socket is found closed by its peer, and no thread closes one under the other.
ExitCode == "failure"
Error == code' = ExitCode

\* What cvector_pushback stores for add_session: it copies the first bytes of
\* the structure, which session_init has just cleared, not its address.
Entry_Address(s) == s
Entry(s) == "null"

\* session_init leaves the number of clients at zero, and nothing changes it.
CurrClients(s) == 0

\* Does the loop leave at its test?
Leave_Never(q) == FALSE
Leave(q) == q

\* Does the loop go on when accept_timeout returned INVALID_SOCKET?  The flag t
\* is set by a timeout and never cleared.
GoOn_Timeout(timedout, l) == timedout
GoOn_Never(timedout, l) == FALSE
GoOn(timedout, l) == timedout \/ t[l]

\* s_close looks at the handle before it closes it.
NeedsClose_Positive(h) == h > 1
NeedsClose(h) == h # -1

-----------------------------------------------------------------------------
Init ==
    /\ mode \in {"console", "library"} /\ hpc = "idle" /\ handle = 0
    /\ quit = FALSE /\ code = "success"
    /\ listen_fd = 0 /\ open = {} /\ closer = [p \in 0..MaxStarts |-> "idle"]
    /\ lpc = [l \in Loops |-> "none"] /\ fd = [l \in Loops |-> -1]
    /\ t = [l \in Loops |-> FALSE] /\ adding = [l \in Loops |-> "null"]
    /\ rc = [l \in Loops |-> "none"]
    /\ manager = "none" /\ registry = <<>>
    /\ sess = [s \in Sessions |-> "none"] /\ owner = [s \in Sessions |-> 0]
    /\ refused = {} /\ orphans = {} /\ late = {} /\ raced = {} /\ failed = {}

-----------------------------------------------------------------------------
(* main and the host program *)

\* start_loop creates the loop thread l.
Spawn(l) ==
    /\ lpc[l] = "none" /\ \A k \in Loops : k < l => lpc[k] # "none"
    /\ lpc' = [lpc EXCEPT ![l] = "new"]
    /\ late' = IF quit THEN late \cup {l} ELSE late
    /\ UNCHANGED <<fd, t, adding, rc>>

\* miniftp_start, start_loop(1)
ConsoleStart ==
    /\ mode = "console" /\ hpc = "idle" /\ hpc' = "poll" /\ Spawn(1)
    /\ UNCHANGED <<mode, handle, exitVars, listenVars, manager, registry, sessVars,
                   failed>>

\* start_loop sees quit and waits for the thread; main returns its exit code.
ConsoleJoin ==
    /\ hpc = "poll" /\ quit /\ hpc' = "join"
    /\ UNCHANGED <<mode, handle, exitVars, listenVars, loopVars, manager, registry,
                   sessVars, failed>>

ConsoleExit ==
    /\ hpc = "join" /\ lpc[1] = "ended" /\ hpc' = "exited"
    /\ UNCHANGED <<mode, handle, exitVars, listenVars, loopVars, manager, registry,
                   sessVars, failed>>

\* CMiniFtp::StartLoop
StartLoop(l) ==
    /\ mode = "library" /\ hpc = "idle" /\ handle = 0 /\ handle' = l /\ Spawn(l)
    /\ UNCHANGED <<mode, hpc, exitVars, listenVars, manager, registry, sessVars,
                   failed>>

\* CMiniFtp::StopLoop calls exit_loop.
StopLoop ==
    /\ mode = "library" /\ hpc = "idle" /\ handle # 0 /\ hpc' = "stop"
    /\ closer' = [closer EXCEPT ![0] = "test"]
    /\ UNCHANGED <<mode, handle, exitVars, listen_fd, open, raced, loopVars, manager,
                   registry, sessVars, failed>>

\* It waits for the loop thread, three seconds at most.
StopWaited ==
    /\ hpc = "stopwait" /\ hpc' = "idle" /\ handle' = 0
    /\ UNCHANGED <<mode, exitVars, listenVars, loopVars, manager, registry, sessVars,
                   failed>>

\* The console handler calls exit_loop, each time the user asks.
CtrlHandler ==
    /\ mode = "console" /\ closer[0] = "idle"
    /\ closer' = [closer EXCEPT ![0] = "test"]
    /\ UNCHANGED <<hostVars, exitVars, listen_fd, open, raced, loopVars, manager,
                   registry, sessVars, failed>>

-----------------------------------------------------------------------------
(* s_close(&listen_fd), in three steps since its callers race, and exit_loop *)

Closes == UNCHANGED <<hostVars, exitVars, loopVars, manager, registry, sessVars, failed>>

CloseTest(p) ==
    /\ closer[p] = "test"
    /\ closer' = [closer EXCEPT ![p] = IF NeedsClose(listen_fd) THEN "close" ELSE "done"]
    /\ Closes /\ UNCHANGED <<listen_fd, open, raced>>

CloseSocket(p) ==
    /\ closer[p] = "close" /\ open' = open \ {listen_fd}
    /\ closer' = [closer EXCEPT ![p] = "store"]
    /\ Closes /\ UNCHANGED <<listen_fd, raced>>

\* A listener stored since closesocket is forgotten here.
CloseStore(p) ==
    /\ closer[p] = "store" /\ listen_fd' = -1
    /\ closer' = [closer EXCEPT ![p] = "done"]
    /\ raced' = raced \cup (open \cap {listen_fd})
    /\ Closes /\ UNCHANGED open

\* The end of exit_loop.
SetQuit ==
    /\ closer[0] = "done" /\ quit' = TRUE
    /\ closer' = [closer EXCEPT ![0] = "idle"]
    /\ hpc' = IF hpc = "stop" THEN "stopwait" ELSE hpc
    /\ UNCHANGED <<mode, handle, code, listen_fd, open, raced, loopVars, manager,
                   registry, sessVars, failed>>

-----------------------------------------------------------------------------
(* The loop thread *)

Goto(l, place) == lpc' = [lpc EXCEPT ![l] = place]

\* The way out of the loop starts with s_close(&listen_fd).
GoClose(l) == Goto(l, "close") /\ closer' = [closer EXCEPT ![l] = "test"]

\* init_session_manager makes a new vector, whatever was there.
LoopInit(l) ==
    /\ lpc[l] = "new" /\ Goto(l, "listen")
    /\ manager' = "ready" /\ registry' = <<>>
    /\ UNCHANGED <<hostVars, exitVars, listenVars, fd, t, adding, rc, late, sessVars,
                   failed>>

\* listen_fd = tcp_server(...)
LoopListen(l) ==
    /\ lpc[l] = "listen" /\ Goto(l, "test")
    /\ raced' = raced \cup (open \cap {listen_fd})
    /\ \/ /\ listen_fd' = l /\ open' = open \cup {l}
          /\ UNCHANGED <<code, failed>>
       \/ listen_fd' = -1 /\ Fails("listen") /\ Error /\ UNCHANGED open
    /\ UNCHANGED <<hostVars, quit, closer, fd, t, adding, rc, late, manager, registry,
                   sessVars>>

LoopTest(l) ==
    /\ lpc[l] = "test"
    /\ \/ Leave(quit) /\ GoClose(l) /\ UNCHANGED fd
       \/ /\ ~Leave(quit) /\ Goto(l, "accept") /\ UNCHANGED closer
          /\ fd' = [fd EXCEPT ![l] = listen_fd]
    /\ UNCHANGED <<hostVars, exitVars, listen_fd, open, raced, t, adding, rc, late,
                   manager, registry, sessVars, failed>>

\* accept_timeout times out, or fails: always on a handle that is closed.
AcceptNothing(l) ==
    /\ lpc[l] = "accept"
    /\ \E timedout \in BOOLEAN :
         /\ \/ timedout /\ fd[l] \in open /\ UNCHANGED failed
            \/ ~timedout /\ fd[l] \notin open /\ UNCHANGED failed
            \/ ~timedout /\ fd[l] \in open /\ Fails("accept")
         /\ t' = [t EXCEPT ![l] = t[l] \/ timedout]
         /\ \/ GoOn(timedout, l) /\ Goto(l, "test") /\ UNCHANGED <<code, closer>>
            \/ ~GoOn(timedout, l) /\ GoClose(l) /\ Error
    /\ UNCHANGED <<hostVars, quit, listen_fd, open, raced, fd, adding, rc, late,
                   manager, registry, sessVars>>

\* A client: session_init with add_session, start_session.
AcceptPeer(l, s) ==
    /\ lpc[l] = "accept" /\ fd[l] \in open /\ sess[s] = "none"
    /\ owner' = [owner EXCEPT ![s] = l] /\ registry' = Append(registry, Entry(s))
    /\ \/ /\ sess' = [sess EXCEPT ![s] = "created"] /\ Goto(l, "handle")
          /\ adding' = [adding EXCEPT ![l] = s]
          /\ UNCHANGED <<code, closer, failed>>
       \/ /\ Fails("thread") /\ Error /\ GoClose(l)
          /\ sess' = [sess EXCEPT ![s] = "freed"] /\ UNCHANGED adding
    /\ UNCHANGED <<hostVars, quit, listen_fd, open, raced, fd, t, rc, late, manager,
                   refused, orphans>>

\* session->handle = handle, whatever has become of the session by now.
StoreHandle(l) ==
    /\ lpc[l] = "handle" /\ Goto(l, "test")
    /\ adding' = [adding EXCEPT ![l] = "null"]
    /\ UNCHANGED <<hostVars, exitVars, listenVars, fd, t, rc, late, manager, registry,
                   sessVars, failed>>

\* wait_sessions.  dump_handles skips null entries but counts them, so that
\* WaitForMultipleObjects is given handles that were never set and fails at
\* once; it waits only when every entry is a session.
Freed == {s \in Sessions : sess[s] = "freed"}

WaitSessions(l) ==
    /\ lpc[l] = "close" /\ closer[l] = "done"
    /\ "null" \in ToSet(registry) \/ ToSet(registry) \subseteq Freed
    /\ Goto(l, "destroy") /\ closer' = [closer EXCEPT ![l] = "idle"]
    /\ UNCHANGED <<hostVars, exitVars, listen_fd, open, raced, fd, t, adding, rc, late,
                   manager, registry, sessVars, failed>>

\* destroy_session_manager; the thread returns.
LoopEnd(l) ==
    /\ lpc[l] = "destroy" /\ Goto(l, "ended")
    /\ manager' = "destroyed" /\ registry' = <<>>
    /\ rc' = [rc EXCEPT ![l] = code]
    /\ UNCHANGED <<hostVars, exitVars, listenVars, fd, t, adding, late, sessVars, failed>>

Loop(l) == \/ LoopInit(l) \/ LoopListen(l) \/ LoopTest(l) \/ AcceptNothing(l)
           \/ \E s \in Sessions : AcceptPeer(l, s)
           \/ StoreHandle(l) \/ WaitSessions(l) \/ LoopEnd(l)

-----------------------------------------------------------------------------
(* The session threads *)

SessionOnly == UNCHANGED <<hostVars, quit, listenVars, loopVars, manager, owner>>

\* limit_num_clients: the session goes on even when it answers 421.
LimitNumClients(s) ==
    /\ sess[s] = "created" /\ sess' = [sess EXCEPT ![s] = "running"]
    /\ IF MaxClients > 0 /\ CurrClients(s) > MaxClients
       THEN refused' = refused \cup {s} /\ Error
       ELSE UNCHANGED <<refused, code>>
    /\ SessionOnly /\ UNCHANGED <<registry, orphans, failed>>

\* Any exit_with_error of a session sets the exit code of the server.
SessionFails(s) ==
    /\ sess[s] = "running" /\ Fails("session") /\ Error
    /\ SessionOnly /\ UNCHANGED <<registry, sess, refused, orphans>>

\* session_free: remove_session takes out the first entry that is the address of
\* the session.
SessionEnds(s) ==
    /\ sess[s] = "running" /\ sess' = [sess EXCEPT ![s] = "freed"]
    /\ registry' = RemoveFirst(registry, s)
    /\ orphans' = IF manager = "ready" THEN orphans ELSE orphans \cup {s}
    /\ SessionOnly /\ UNCHANGED <<code, refused, failed>>

-----------------------------------------------------------------------------
Host == \/ ConsoleStart \/ ConsoleJoin \/ ConsoleExit \/ StopLoop \/ StopWaited
        \/ CtrlHandler \/ \E l \in Loops : StartLoop(l)

Closer(p) == CloseTest(p) \/ CloseSocket(p) \/ CloseStore(p)

Session(s) == LimitNumClients(s) \/ SessionFails(s) \/ SessionEnds(s)

\* When main has returned there is no process left.
Next ==
    /\ hpc # "exited"
    /\ \/ Host \/ SetQuit
       \/ \E p \in 0..MaxStarts : Closer(p)
       \/ \E l \in Loops : Loop(l)
       \/ \E s \in Sessions : Session(s)

Spec == Init /\ [][Next]_vars

\* The loop threads and exit_loop are scheduled (accept_timeout returns: its
\* time is bounded); nothing makes a client leave, or a session end.
FairSpec ==
    /\ Spec /\ WF_vars(SetQuit) /\ WF_vars(ConsoleJoin \/ ConsoleExit)
    /\ \A p \in 0..MaxStarts : WF_vars(Closer(p))
    /\ \A l \in Loops : WF_vars(Loop(l))

-----------------------------------------------------------------------------
(* Properties *)

TypeOK ==
    /\ mode \in {"console", "library"} /\ handle \in 0..MaxStarts
    /\ hpc \in {"idle", "poll", "join", "exited", "stop", "stopwait"}
    /\ quit \in BOOLEAN /\ code \in {"success", "failure"}
    /\ listen_fd \in -1..MaxStarts /\ open \subseteq Loops
    /\ closer \in [0..MaxStarts -> {"idle", "test", "close", "store", "done"}]
    /\ lpc \in [Loops -> {"none", "new", "listen", "test", "accept", "handle", "close",
                          "destroy", "ended"}]
    /\ fd \in [Loops -> -1..MaxStarts] /\ t \in [Loops -> BOOLEAN]
    /\ adding \in [Loops -> Sessions \cup {"null"}]
    /\ rc \in [Loops -> {"none", "success", "failure"}]
    /\ manager \in {"none", "ready", "destroyed"}
    /\ registry \in Seq(Sessions \cup {"null"})
    /\ sess \in [Sessions -> {"none", "created", "running", "freed"}]
    /\ owner \in [Sessions -> 0..MaxStarts]
    /\ refused \subseteq Sessions /\ orphans \subseteq Sessions
    /\ late \subseteq Loops /\ raced \subseteq Loops /\ failed \subseteq Faults

\* Types, and: a loop that has ended has closed its listener, unless listen_fd lost the
\* handle: exit_loop (or another loop) was between its closesocket and its
\* store of -1 when tcp_server returned, or two loops ran at a time.
ListenerReleased ==
    TypeOK /\ \A l \in Loops : lpc[l] = "ended" /\ l \in open => l \in raced

\* Without a fault the exit code is failure only if a loop left whose accepts
\* had never timed out: exit_loop closes the listener before it sets quit, and
\* the accept that fails breaks the loop unless t is set.
OrderlyExit ==
    code = "failure" /\ failed = {}
        => \E l \in Loops : lpc[l] \in {"close", "destroy", "ended"} /\ ~t[l]

\* The session manager is destroyed under a session that still runs only when
\* the server was told to stop, or something had failed; nothing else ends a
\* loop, and wait_sessions keeps no loop from destroying it.
OrphanedByStop == orphans # {} => quit \/ closer[0] # "idle" \/ failed # {}

\* A server that was stopped and started again serves nobody: quit stays set.
RestartInert == \A s \in Sessions : owner[s] \notin late

\* Once quit is set every loop thread ends, though a session may live on:
\* wait_sessions does not wait for it.
StopCompletes == \A l \in Loops : (quit /\ lpc[l] # "none") ~> (lpc[l] = "ended")
=============================================================================
