----------------------------- MODULE ServerProofs -----------------------------
(***************************************************************************)
(* The life of the server, for any number of sessions, starts and faults:  *)
(* what becomes of the listeners, what a restarted loop serves, what the   *)
(* exit code means, and why the session manager may go before a session.   *)
(***************************************************************************)
EXTENDS Server, TLAPS

-----------------------------------------------------------------------------
(* Types *)

\* What remove_session finds: no entry is ever the address of a session.
Registered == registry \in Seq({"null"})

\* A list of such entries has no session to take out.
LEMMA NothingFound ==
    ASSUME Registered, NEW s \in Sessions PROVE RemoveFirst(registry, s) = registry
<1>1. \A i \in 1..Len(registry) : registry[i] = "null" BY DEF Registered
<1>2. ~\E i \in 1..Len(registry) : registry[i] = s BY <1>1, ServerAssumption
<1> QED  BY <1>2 DEF RemoveFirst

Types == TypeOK /\ Registered

\* The server begins with its types.
LEMMA TypesInit == Init => Types
<1> SUFFICES ASSUME Init PROVE Types OBVIOUS
<1>1. 0 \in 0..MaxStarts /\ -1 \in -1..MaxStarts /\ 0 \in -1..MaxStarts BY ServerAssumption
<1>2. registry \in Seq({"null"}) /\ registry \in Seq(Sessions \cup {"null"}) BY DEF Init
<1> QED  BY <1>1, <1>2 DEF Init, Types, TypeOK, Registered, Loops

\* The host and exit_loop.
LEMMA HostTypes == ASSUME Types, Host \/ SetQuit PROVE Types'
<1> USE DEF Types, TypeOK, Registered, Loops
<1>1. ASSUME NEW l \in Loops, Spawn(l) PROVE
        /\ lpc' \in [Loops -> {"none", "new", "listen", "test", "accept", "handle", "close",
                               "destroy", "ended"}]
        /\ late' \subseteq Loops /\ UNCHANGED <<fd, t, adding, rc>>
  BY <1>1 DEF Spawn
<1>2. 1 \in Loops /\ 0 \in 0..MaxStarts BY ServerAssumption
<1>3. CASE ConsoleStart BY <1>1, <1>2, <1>3 DEF ConsoleStart, exitVars, listenVars, sessVars
<1>4. CASE ConsoleJoin \/ ConsoleExit \/ StopWaited
  BY <1>2, <1>4
     DEF ConsoleJoin, ConsoleExit, StopWaited, exitVars, listenVars, loopVars, sessVars
<1>5. CASE StopLoop \/ CtrlHandler
  BY <1>2, <1>5 DEF StopLoop, CtrlHandler, hostVars, exitVars, loopVars, sessVars
<1>6. ASSUME NEW l \in Loops, StartLoop(l) PROVE Types'
  BY <1>1, <1>6 DEF StartLoop, exitVars, listenVars, sessVars
<1>7. CASE SetQuit BY <1>2, <1>7 DEF SetQuit, loopVars, sessVars
<1> QED  BY <1>3, <1>4, <1>5, <1>6, <1>7 DEF Host

\* s_close.
LEMMA CloserTypes == ASSUME Types, NEW p \in 0..MaxStarts, Closer(p) PROVE Types'
<1>1. UNCHANGED <<hostVars, exitVars, loopVars, manager, registry, sessVars, failed>>
  BY DEF Closer, CloseTest, CloseSocket, CloseStore, Closes
<1>2. -1 \in -1..MaxStarts BY ServerAssumption
<1>3. listen_fd' \in -1..MaxStarts /\ open' \subseteq Loops /\ raced' \subseteq Loops
  BY <1>2 DEF Types, TypeOK, Closer, CloseTest, CloseSocket, CloseStore
<1>4. closer' \in [0..MaxStarts -> {"idle", "test", "close", "store", "done"}]
  BY DEF Types, TypeOK, Closer, CloseTest, CloseSocket, CloseStore
<1> QED
  BY <1>1, <1>3, <1>4
     DEF Types, TypeOK, Registered, hostVars, exitVars, loopVars, sessVars

\* The loop thread.
LEMMA LoopTypes == ASSUME Types, NEW l \in Loops, Loop(l) PROVE Types'
<1> USE DEF Types, TypeOK, Registered, Loops, Goto, GoClose
<1>1. l \in 0..MaxStarts /\ l \in -1..MaxStarts /\ -1 \in -1..MaxStarts BY ServerAssumption
<1>2. <<>> \in Seq({"null"}) /\ <<>> \in Seq(Sessions \cup {"null"}) OBVIOUS
<1>3. CASE LoopInit(l)
  BY <1>2, <1>3 DEF LoopInit, hostVars, exitVars, listenVars, sessVars
<1>4. CASE LoopListen(l)
  BY <1>1, <1>4 DEF LoopListen, hostVars, sessVars, Fails, Error, ExitCode
<1> DEFINE Closers == [0..MaxStarts -> {"idle", "test", "close", "store", "done"}]
           Places == [Loops -> {"none", "new", "listen", "test", "accept", "handle", "close",
                                "destroy", "ended"}]
<1>5. CASE LoopTest(l)
  <2>1. closer' \in Closers BY <1>1, <1>5 DEF LoopTest
  <2>2. lpc' \in Places BY <1>5 DEF LoopTest
  <2>3. fd' \in [Loops -> -1..MaxStarts] BY <1>5 DEF LoopTest
  <2> QED  BY <1>5, <2>1, <2>2, <2>3 DEF LoopTest, hostVars, exitVars, sessVars
<1>6. CASE AcceptNothing(l)
  <2>1. closer' \in Closers BY <1>1, <1>6 DEF AcceptNothing
  <2>2. lpc' \in Places BY <1>6 DEF AcceptNothing
  <2>3. PICK timedout \in BOOLEAN : t' = [t EXCEPT ![l] = t[l] \/ timedout]
    BY <1>6 DEF AcceptNothing
  <2>4. t' \in [Loops -> BOOLEAN] BY <2>3, Zenon
  <2>5. code' \in {"success", "failure"} /\ failed' \subseteq Faults
    BY <1>6 DEF AcceptNothing, Fails, Error, ExitCode
  <2> QED  BY <1>6, <2>1, <2>2, <2>4, <2>5 DEF AcceptNothing, hostVars, sessVars
<1>7. ASSUME NEW s \in Sessions, AcceptPeer(l, s) PROVE Types'
  <2>1. registry' = Append(registry, "null") BY <1>7 DEF AcceptPeer, Entry
  <2>2. registry' \in Seq({"null"}) /\ registry' \in Seq(Sessions \cup {"null"})
    BY <2>1
  <2>3. closer' \in Closers BY <1>1, <1>7 DEF AcceptPeer
  <2>4. lpc' \in Places BY <1>7 DEF AcceptPeer
  <2>5. adding' \in [Loops -> Sessions \cup {"null"}]
    <3>1. adding' = adding \/ adding' = [adding EXCEPT ![l] = s] BY <1>7 DEF AcceptPeer
    <3>2. s \in Sessions \cup {"null"} /\ adding \in [Loops -> Sessions \cup {"null"}] BY <1>7
    <3> QED  BY ONLY <3>1, <3>2
  <2>6. /\ sess' \in [Sessions -> {"none", "created", "running", "freed"}]
        /\ owner' \in [Sessions -> 0..MaxStarts]
    BY <1>1, <1>7 DEF AcceptPeer
  <2>7. code' \in {"success", "failure"} /\ failed' \subseteq Faults
    BY <1>7 DEF AcceptPeer, Fails, Error, ExitCode
  <2> QED  BY <1>7, <2>2, <2>3, <2>4, <2>5, <2>6, <2>7 DEF AcceptPeer, hostVars
<1>8. CASE StoreHandle(l) BY <1>8 DEF StoreHandle, hostVars, exitVars, listenVars, sessVars
<1>9. CASE WaitSessions(l) BY <1>1, <1>9 DEF WaitSessions, hostVars, exitVars, sessVars
<1>10. CASE LoopEnd(l)
  BY <1>2, <1>10 DEF LoopEnd, hostVars, exitVars, listenVars, sessVars
<1> QED  BY <1>3, <1>4, <1>5, <1>6, <1>7, <1>8, <1>9, <1>10 DEF Loop

\* The session threads, which leave the list as it is.
LEMMA SessionTypes ==
    ASSUME Types, NEW s \in Sessions, Session(s) PROVE Types' /\ registry' = registry
<1>1. RemoveFirst(registry, s) = registry BY NothingFound DEF Types
<1>2. registry' = registry
  BY <1>1 DEF Session, LimitNumClients, SessionFails, SessionEnds
<1> USE DEF Types, TypeOK, Session, LimitNumClients, SessionFails, SessionEnds
<1>3. /\ sess' \in [Sessions -> {"none", "created", "running", "freed"}]
      /\ refused' \subseteq Sessions /\ orphans' \subseteq Sessions
      /\ code' \in {"success", "failure"} /\ failed' \subseteq Faults
  <2>1. sess' \in [Sessions -> {"none", "created", "running", "freed"}] OBVIOUS
  <2>2. refused' \subseteq Sessions OBVIOUS
  <2>3. orphans' \subseteq Sessions OBVIOUS
  <2>4. code' \in {"success", "failure"} /\ failed' \subseteq Faults
    BY DEF Fails, Error, ExitCode
  <2> QED  BY <2>1, <2>2, <2>3, <2>4
<1>4. SessionOnly BY DEF Session, LimitNumClients, SessionFails, SessionEnds
<1> QED
  BY <1>2, <1>3, <1>4
     DEF Types, TypeOK, Registered, SessionOnly, hostVars, listenVars, loopVars

\* Every step keeps the types.
LEMMA TypesStep == ASSUME Types, [Next]_vars PROVE Types'
<1>1. CASE UNCHANGED vars
  BY <1>1 DEF vars, Types, TypeOK, Registered, hostVars, exitVars, listenVars, loopVars, sessVars
<1> QED  BY <1>1, HostTypes, CloserTypes, LoopTypes, SessionTypes DEF Next

\* Every variable keeps its type, and the vector of the session manager never
\* holds the address of a session (add_session, remove_session).
THEOREM TypeCorrect == Spec => []Types
BY TypesInit, TypesStep, PTL DEF Spec

-----------------------------------------------------------------------------
(* The listeners *)

\* A loop is in its s_close exactly while it is on its way out.
Leaving == \A l \in Loops : closer[l] # "idle" <=> lpc[l] = "close"

\* listen_fd has the handle of every open listener that was not lost.
Known == \A l \in open : l \in raced \/ listen_fd = l

\* A loop that is through with its s_close has no listener left but a lost one.
LetGo ==
    \A l \in open :
        closer[l] \in {"store", "done"} \/ lpc[l] \in {"destroy", "ended"} => l \in raced

Listeners == Leaving /\ Known /\ LetGo

\* Every step keeps what is known of the listeners.
LEMMA ListenersStep == ASSUME Types, Listeners, [Next]_vars PROVE Listeners'
<1> USE DEF Listeners, Leaving, Known, LetGo
<1> DEFINE Typed == /\ open \subseteq Loops /\ DOMAIN lpc = Loops /\ DOMAIN closer = 0..MaxStarts
                    /\ lpc = [k \in Loops |-> lpc[k]]
                    /\ closer = [p \in 0..MaxStarts |-> closer[p]]
<1>t. Typed BY DEF Types, TypeOK
<1>1. Loops \subseteq 0..MaxStarts /\ 0 \notin Loops /\ 0 \in 0..MaxStarts
  BY ServerAssumption DEF Loops
<1>2. CASE UNCHANGED vars \/ \E s \in Sessions : Session(s)
  <2>1. UNCHANGED <<lpc, listenVars>>
    BY <1>2 DEF vars, loopVars, Session, LimitNumClients, SessionFails, SessionEnds, SessionOnly
  <2> QED  BY <2>1 DEF listenVars
<1>3. CASE Host \/ SetQuit
  <2>1. UNCHANGED <<listen_fd, open, raced>>
    BY <1>3 DEF Host, ConsoleStart, ConsoleJoin, ConsoleExit, StopLoop, StopWaited, CtrlHandler,
                StartLoop, SetQuit, listenVars
  <2>2. \A l \in Loops : closer'[l] = closer[l]
    BY <1>1, <1>t, <1>3 DEF Host, ConsoleStart, ConsoleJoin, ConsoleExit, StopLoop, StopWaited,
                CtrlHandler, StartLoop, SetQuit, listenVars
  <2>3. \A l \in Loops : lpc'[l] = lpc[l] \/ (lpc[l] = "none" /\ lpc'[l] = "new")
    BY <1>1, <1>t, <1>3, ServerAssumption
       DEF Host, ConsoleStart, ConsoleJoin, ConsoleExit, StopLoop, StopWaited,
           CtrlHandler, StartLoop, SetQuit, loopVars, Spawn, Loops
  <2>4. Leaving' BY ONLY <2>2, <2>3, Listeners DEF Listeners, Leaving
  <2>5. Known' BY <2>1
  <2>6. LetGo' BY ONLY <1>t, <2>1, <2>2, <2>3, Listeners DEF Listeners, LetGo
  <2> QED  BY <2>4, <2>5, <2>6
<1>4. ASSUME NEW p \in 0..MaxStarts, Closer(p) PROVE Listeners'
  <2>1. lpc' = lpc BY <1>4 DEF Closer, CloseTest, CloseSocket, CloseStore, Closes, loopVars
  <2>2. CASE CloseTest(p)
    BY <1>1, <1>t, <2>1, <2>2 DEF CloseTest, NeedsClose
  <2>3. CASE CloseSocket(p)
    BY <1>1, <1>t, <2>1, <2>3 DEF CloseSocket
  <2>4. CASE CloseStore(p)
    BY <1>1, <1>t, <2>1, <2>4 DEF CloseStore
  <2> QED  BY <1>4, <2>2, <2>3, <2>4 DEF Closer
<1>5. ASSUME NEW l \in Loops, Loop(l) PROVE Listeners'
  <2> USE <1>1, <1>t DEF Goto, GoClose
  <2>1. \A k \in Loops \ {l} : lpc'[k] = lpc[k] /\ closer'[k] = closer[k]
    BY <1>5 DEF Loop, LoopInit, LoopListen, LoopTest, AcceptNothing, AcceptPeer, StoreHandle,
                WaitSessions, LoopEnd, listenVars
  <2>2. CASE LoopListen(l)
    <3>1. lpc[l] = "listen" /\ lpc'[l] = "test" /\ closer' = closer
      BY <2>2 DEF LoopListen
    <3>2. /\ raced' = raced \cup (open \cap {listen_fd})
          /\ (listen_fd' = l /\ open' = open \cup {l}) \/ open' = open
      BY <2>2 DEF LoopListen
    <3>3. Leaving' BY <2>1, <3>1
    <3>4. Known' BY <3>2
    <3>5. LetGo' BY <2>1, <3>1, <3>2
    <3> QED  BY <3>3, <3>4, <3>5
  <2>3. CASE ~LoopListen(l)
    <3>1. UNCHANGED <<listen_fd, open, raced>>
      BY <1>5, <2>3 DEF Loop, LoopInit, LoopTest, AcceptNothing, AcceptPeer, StoreHandle,
                        WaitSessions, LoopEnd, listenVars
    <3>2. \/ closer'[l] = closer[l] /\ lpc[l] # "close" /\ lpc'[l] \notin {"close", "destroy", "ended"}
          \/ closer'[l] = closer[l] /\ lpc[l] = "destroy" /\ lpc'[l] = "ended"
          \/ closer'[l] = "test" /\ lpc[l] \in {"test", "accept"} /\ lpc'[l] = "close"
          \/ lpc[l] = "close" /\ closer[l] = "done" /\ lpc'[l] = "destroy" /\ closer'[l] = "idle"
      BY <1>5, <2>3 DEF Loop, LoopInit, LoopTest, AcceptNothing, AcceptPeer, StoreHandle,
                        WaitSessions, LoopEnd, listenVars
    <3>3. Leaving' BY <2>1, <3>2
    <3>4. Known' BY <3>1
    <3>5. LetGo' BY <2>1, <3>1, <3>2
    <3> QED  BY <3>3, <3>4, <3>5
  <2> QED  BY <2>2, <2>3
<1> QED  BY <1>2, <1>3, <1>4, <1>5 DEF Next

\* A loop that has ended has closed its listener, unless another s_close or
\* another loop's tcp_server made listen_fd forget it (loop_thread, s_close).
THEOREM ListenersReleased == Spec => []ListenerReleased
<1>1. Init => Listeners
  <2> SUFFICES ASSUME Init PROVE Listeners OBVIOUS
  <2>1. Loops \subseteq 0..MaxStarts BY ServerAssumption DEF Loops
  <2> QED  BY <2>1 DEF Init, Listeners, Leaving, Known, LetGo
<1>2. Types /\ Listeners => ListenerReleased
  BY DEF Types, Listeners, LetGo, ListenerReleased
<1> QED  BY <1>1, <1>2, ListenersStep, TypeCorrect, PTL DEF Spec

-----------------------------------------------------------------------------
(* A server that is started again *)

\* A loop that was started after exit_loop finds quit set at its first test; and
\* every session belongs to a loop that was started.
Inert ==
    /\ \A l \in late : quit /\ lpc[l] \notin {"none", "accept", "handle"}
    /\ \A s \in Sessions : owner[s] # 0 => owner[s] \in Loops /\ lpc[owner[s]] # "none"
    /\ RestartInert

\* Every step keeps a restarted loop inert.
LEMMA InertStep == ASSUME Types, Inert, [Next]_vars PROVE Inert'
<1> USE DEF Inert, RestartInert
<1>t. /\ late \subseteq Loops
      /\ lpc = [k \in Loops |-> lpc[k]] /\ owner = [s \in Sessions |-> owner[s]]
  BY DEF Types, TypeOK
<1>1. 1 \in Loops /\ 0 \notin Loops BY ServerAssumption DEF Loops
<1>2. CASE UNCHANGED vars \/ (\E s \in Sessions : Session(s)) \/ (\E p \in 0..MaxStarts : Closer(p))
  <2>1. UNCHANGED <<quit, owner, lpc, late>>
    BY <1>2 DEF vars, loopVars, sessVars, exitVars, Session, LimitNumClients, SessionFails,
                SessionEnds, SessionOnly, Closer, CloseTest, CloseSocket, CloseStore, Closes
  <2> QED  BY <2>1
<1>3. CASE Host \/ SetQuit
  <2>1. owner' = owner /\ (quit => quit')
    BY <1>3 DEF Host, ConsoleStart, ConsoleJoin, ConsoleExit, StopLoop, StopWaited, CtrlHandler,
                StartLoop, SetQuit, exitVars, sessVars
  <2>2. \/ UNCHANGED <<lpc, late>>
        \/ \E l \in Loops : Spawn(l) /\ quit' = quit
    BY <1>1, <1>3 DEF Host, ConsoleStart, ConsoleJoin, ConsoleExit, StopLoop, StopWaited,
                CtrlHandler, StartLoop, SetQuit, loopVars, exitVars
  <2>3. ASSUME NEW l \in Loops, Spawn(l), quit' = quit PROVE Inert'
    <3>1. lpc[l] = "none" /\ lpc' = [lpc EXCEPT ![l] = "new"] BY <1>t, <2>3 DEF Spawn
    <3>2. late' = late \/ (late' = late \cup {l} /\ quit) BY <1>t, <2>3 DEF Spawn
    <3>3. \A k \in Loops : lpc'[k] = lpc[k] \/ (k = l /\ lpc'[k] = "new") BY <1>t, <3>1
    <3>4. \A k \in late' : quit' /\ lpc'[k] \notin {"none", "accept", "handle"}
      BY <1>t, <2>3, <3>2, <3>3, <3>1
    <3>5. \A s \in Sessions : owner'[s] \notin late' BY <2>1, <3>1, <3>2, <1>1
    <3>6. \A s \in Sessions : owner'[s] # 0 => owner'[s] \in Loops /\ lpc'[owner'[s]] # "none"
      BY <2>1, <3>3
    <3> QED  BY <3>4, <3>5, <3>6
  <2> QED  BY <2>1, <2>2, <2>3
<1>4. ASSUME NEW l \in Loops, Loop(l) PROVE Inert'
  <2> USE <1>t DEF Goto, GoClose
  <2>1. late' = late /\ quit' = quit
    BY <1>4 DEF Loop, LoopInit, LoopListen, LoopTest, AcceptNothing, AcceptPeer, StoreHandle,
                WaitSessions, LoopEnd, exitVars
  <2>2. lpc[l] # "none"
    BY <1>4 DEF Loop, LoopInit, LoopListen, LoopTest, AcceptNothing, AcceptPeer, StoreHandle,
                WaitSessions, LoopEnd
  <2> DEFINE Open(place) == place # "none" /\ (place \in {"accept", "handle"} => l \notin late)
  <2>9. /\ Open("listen") /\ Open("test") /\ Open("close") /\ Open("destroy") /\ Open("ended")
        /\ lpc[l] = "test" /\ ~quit => Open("accept")
        /\ lpc[l] = "accept" => Open("handle")
    OBVIOUS
  <2>10. \/ \E place \in {"listen", "test", "close", "destroy", "ended"} : Goto(l, place)
         \/ lpc[l] = "test" /\ ~quit /\ Goto(l, "accept")
         \/ lpc[l] = "accept" /\ Goto(l, "handle")
    BY <1>4 DEF Loop, LoopInit, LoopListen, LoopTest, AcceptNothing, AcceptPeer, StoreHandle,
                WaitSessions, LoopEnd, Leave
  <2>11. PICK place : lpc' = [lpc EXCEPT ![l] = place] /\ Open(place)
    BY <2>9, <2>10
  <2>3. \/ owner' = owner
        \/ l \notin late /\ \E s \in Sessions : owner' = [owner EXCEPT ![s] = l]
    BY <1>4 DEF Loop, LoopInit, LoopListen, LoopTest, AcceptNothing, AcceptPeer, StoreHandle,
                WaitSessions, LoopEnd, sessVars
  <2>4. \A k \in Loops : lpc'[k] = lpc[k] \/ (k = l /\ Open(lpc'[k]))
    BY ONLY <1>t, <2>11
  <2>12. \A k \in late : k \in Loops /\ quit /\ lpc[k] \notin {"none", "accept", "handle"}
    BY <1>t
  <2>13. \A k \in late : lpc'[k] \notin {"none", "accept", "handle"}
    BY ONLY <2>4, <2>12
  <2>5. \A k \in late' : quit' /\ lpc'[k] \notin {"none", "accept", "handle"}
    BY ONLY <2>1, <2>12, <2>13
  <2>6. \A s \in Sessions : owner'[s] = owner[s] \/ (owner'[s] = l /\ l \notin late)
    BY ONLY <1>t, <2>3
  <2>7. \A s \in Sessions : owner'[s] \notin late' BY <2>1, <2>6
  <2>8. \A s \in Sessions : owner'[s] # 0 => owner'[s] \in Loops /\ lpc'[owner'[s]] # "none"
    <3>1. \A k \in Loops : lpc[k] # "none" => lpc'[k] # "none" BY ONLY <2>4
    <3>2. ASSUME NEW s \in Sessions, owner'[s] # 0
          PROVE  owner'[s] \in Loops /\ lpc'[owner'[s]] # "none"
      <4>1. \/ owner'[s] = owner[s] /\ owner[s] # 0 /\ owner[s] \in Loops /\ lpc[owner[s]] # "none"
            \/ owner'[s] = l
        BY <2>6, <3>2
      <4> QED  BY ONLY <1>4, <2>2, <3>1, <4>1
    <3> QED  BY <3>2
  <2> QED  BY <2>5, <2>7, <2>8
<1> QED  BY <1>2, <1>3, <1>4 DEF Next

\* No session is ever accepted by a loop that was started after a stop
\* (loop_thread; nothing sets quit back to zero).
THEOREM RestartServesNobody == Spec => []RestartInert
<1>1. Init => Inert BY ServerAssumption DEF Init, Inert, RestartInert
<1>2. Inert => RestartInert BY DEF Inert
<1> QED  BY <1>1, <1>2, InertStep, TypeCorrect, PTL DEF Spec

-----------------------------------------------------------------------------
(* The exit code *)

\* A fault is never forgotten.
LEMMA FaultsStay == ASSUME [Next]_vars PROVE failed \subseteq failed'
<1>1. CASE UNCHANGED vars BY <1>1 DEF vars
<1>2. CASE Host \/ SetQuit
  BY <1>2 DEF Host, ConsoleStart, ConsoleJoin, ConsoleExit, StopLoop, StopWaited, CtrlHandler,
              StartLoop, SetQuit
<1>3. CASE \E p \in 0..MaxStarts : Closer(p)
  BY <1>3 DEF Closer, CloseTest, CloseSocket, CloseStore, Closes
<1>4. CASE \E l \in Loops : Loop(l)
  BY <1>4 DEF Loop, LoopInit, LoopListen, LoopTest, AcceptNothing, AcceptPeer, StoreHandle,
              WaitSessions, LoopEnd, Fails
<1>5. CASE \E s \in Sessions : Session(s)
  BY <1>5 DEF Session, LimitNumClients, SessionFails, SessionEnds, Fails
<1> QED  BY <1>1, <1>2, <1>3, <1>4, <1>5 DEF Next

\* Loop l left because an accept failed before any had timed out.
NeverTimedOut(l) == lpc[l] \in {"close", "destroy", "ended"} /\ ~t[l]

\* What a loop did stays so: nothing but its own accept changes its flag.
LEMMA LeftForGood ==
    ASSUME Types, [Next]_vars, NEW l \in Loops, NeverTimedOut(l) PROVE NeverTimedOut(l)'
<1> USE DEF NeverTimedOut
<1>t. lpc = [k \in Loops |-> lpc[k]] /\ t = [k \in Loops |-> t[k]] BY DEF Types, TypeOK
<1>1. CASE UNCHANGED vars \/ (\E s \in Sessions : Session(s)) \/ (\E p \in 0..MaxStarts : Closer(p))
  <2>1. UNCHANGED <<lpc, t>>
    BY <1>1 DEF vars, loopVars, Session, LimitNumClients, SessionFails, SessionEnds, SessionOnly,
                Closer, CloseTest, CloseSocket, CloseStore, Closes
  <2> QED  BY <2>1
<1>2. CASE Host \/ SetQuit
  <2>1. t' = t /\ (lpc' = lpc \/ \E k \in Loops : lpc[k] = "none" /\ lpc' = [lpc EXCEPT ![k] = "new"])
    BY <1>2, ServerAssumption
       DEF Host, ConsoleStart, ConsoleJoin, ConsoleExit, StopLoop, StopWaited, CtrlHandler,
           StartLoop, SetQuit, loopVars, Spawn, Loops
  <2>2. lpc'[l] = lpc[l] BY <1>t, <2>1
  <2> QED  BY <2>1, <2>2
<1>3. ASSUME NEW k \in Loops, Loop(k) PROVE NeverTimedOut(l)'
  <2> USE DEF Goto, GoClose
  <2>1. CASE k = l
    <3>1. t' = t /\ lpc'[l] \in {"close", "destroy", "ended"}
      BY <1>3, <1>t, <2>1
         DEF Loop, LoopInit, LoopListen, LoopTest, AcceptNothing, AcceptPeer, StoreHandle,
             WaitSessions, LoopEnd
    <3> QED  BY <3>1
  <2>2. CASE k # l
    <3>1. \E place : lpc' = [lpc EXCEPT ![k] = place]
      BY <1>3 DEF Loop, LoopInit, LoopListen, LoopTest, AcceptNothing, AcceptPeer, StoreHandle,
                  WaitSessions, LoopEnd
    <3>2. \E flag : t' = [t EXCEPT ![k] = flag] \/ t' = t
      BY <1>3 DEF Loop, LoopInit, LoopListen, LoopTest, AcceptNothing, AcceptPeer, StoreHandle,
                  WaitSessions, LoopEnd
    <3>3. lpc'[l] = lpc[l] BY ONLY <1>t, <2>2, <3>1
    <3>4. t'[l] = t[l] BY ONLY <1>t, <2>2, <3>2, Zenon
    <3> QED  BY <3>3, <3>4
  <2> QED  BY <2>1, <2>2
<1> QED  BY <1>1, <1>2, <1>3 DEF Next

\* Every step keeps the cause of an exit code.
LEMMA OrderlyStep == ASSUME Types, OrderlyExit, [Next]_vars PROVE OrderlyExit'
<1>1. SUFFICES ASSUME code' = "failure", failed' = {} PROVE \E l \in Loops : NeverTimedOut(l)'
  BY DEF OrderlyExit, NeverTimedOut
<1>2. failed = {} BY <1>1, FaultsStay
<1>3. CASE code = "failure"
  <2>1. PICK l \in Loops : NeverTimedOut(l) BY <1>2, <1>3 DEF OrderlyExit, NeverTimedOut
  <2> QED  BY <2>1, LeftForGood
<1>4. CASE code # "failure"
  <2>1. code' # code BY <1>1, <1>4
  <2>2. ~Fails("listen") /\ ~Fails("accept") /\ ~Fails("thread") /\ ~Fails("session")
    BY <1>1 DEF Fails
  <2>3. \E l \in Loops : AcceptNothing(l)
    <3>1. ~UNCHANGED vars BY <2>1 DEF vars, exitVars
    <3>2. ~(Host \/ SetQuit)
      BY <2>1 DEF Host, ConsoleStart, ConsoleJoin, ConsoleExit, StopLoop, StopWaited, CtrlHandler,
                  StartLoop, SetQuit, exitVars
    <3>3. ~\E p \in 0..MaxStarts : Closer(p)
      BY <2>1 DEF Closer, CloseTest, CloseSocket, CloseStore, Closes, exitVars
    <3>4. ~\E s \in Sessions : Session(s)
      BY <2>1, <2>2, ServerAssumption
         DEF Session, LimitNumClients, SessionFails, SessionEnds, CurrClients
    <3>5. \A l \in Loops : Loop(l) => AcceptNothing(l)
      BY <2>1, <2>2 DEF Loop, LoopInit, LoopListen, LoopTest, AcceptPeer, StoreHandle,
                        WaitSessions, LoopEnd, exitVars
    <3> QED  BY <3>1, <3>2, <3>3, <3>4, <3>5 DEF Next
  <2>4. PICK l \in Loops : AcceptNothing(l) BY <2>3
  <2>5. PICK timedout \in BOOLEAN :
          /\ t' = [t EXCEPT ![l] = t[l] \/ timedout] /\ ~GoOn(timedout, l) /\ GoClose(l)
    BY <2>1, <2>4 DEF AcceptNothing
  <2>6. ~t'[l]
    <3>1. t \in [Loops -> BOOLEAN] BY DEF Types, TypeOK
    <3>2. ~(t[l] \/ timedout) BY <2>5 DEF GoOn
    <3> QED  BY <2>5, <3>1, <3>2, Zenon
  <2>7. lpc'[l] = "close" BY <2>5 DEF GoClose, Goto, Types, TypeOK
  <2> QED  BY <2>6, <2>7 DEF NeverTimedOut
<1> QED  BY <1>3, <1>4

\* The exit code of an undisturbed server is failure only when exit_loop closed
\* the listener under a loop whose accepts had never timed out (loop_thread).
THEOREM ExitCodeOrderly == Spec => []OrderlyExit
<1>1. Init => OrderlyExit BY DEF Init, OrderlyExit
<1> QED  BY <1>1, OrderlyStep, TypeCorrect, PTL DEF Spec

-----------------------------------------------------------------------------
(* A server nobody has disturbed *)

\* Nobody has called exit_loop and nothing has failed.
Undisturbed == ~quit /\ closer[0] = "idle" /\ failed = {}

\* The host has started at most one loop.
OneLoop ==
    /\ hpc \in {"idle", "poll"} /\ (mode = "console" => handle = 0)
    /\ hpc = "idle" /\ handle = 0 => \A l \in Loops : lpc[l] = "none"
    /\ \A l, k \in Loops : lpc[l] # "none" /\ lpc[k] # "none" => k = l

\* That loop serves: its listener is open and the session manager is there.
Serves(l) ==
    /\ lpc[l] \notin {"close", "destroy", "ended"}
    /\ lpc[l] \in {"test", "accept", "handle"} => listen_fd = l /\ l \in open
    /\ lpc[l] = "accept" => fd[l] = l
    /\ lpc[l] \in {"listen", "test", "accept", "handle"} => manager = "ready"

Serving ==
    /\ OneLoop
    /\ \A p \in 0..MaxStarts : closer[p] = "idle"
    /\ \A l \in Loops : Serves(l)
    /\ \A s \in Sessions : sess[s] # "none" => manager = "ready"
    /\ orphans = {}

\* The manager stays ready under the sessions as long as nobody disturbs.
ServingUndisturbed == Undisturbed => Serving

\* An undisturbed server was undisturbed before.
LEMMA UndisturbedBefore == ASSUME Types, [Next]_vars, Undisturbed' PROVE Undisturbed
<1> USE DEF Undisturbed
<1>t. 0 \in 0..MaxStarts /\ closer = [p \in 0..MaxStarts |-> closer[p]]
  BY ServerAssumption DEF Types, TypeOK
<1>1. failed = {} BY FaultsStay
<1>2. ~quit /\ closer[0] = "idle"
  <2>1. CASE UNCHANGED vars BY <2>1 DEF vars, exitVars, listenVars
  <2>2. CASE Host
    <3>1. quit' = quit /\ (closer' = closer \/ closer' = [closer EXCEPT ![0] = "test"])
      BY <2>2 DEF Host, ConsoleStart, ConsoleJoin, ConsoleExit, StopLoop, StopWaited,
                  CtrlHandler, StartLoop, exitVars, listenVars
    <3> QED  BY ONLY <1>t, <3>1, Undisturbed'
  <2>3. ~SetQuit BY DEF SetQuit
  <2>4. ASSUME NEW p \in 0..MaxStarts, Closer(p) PROVE ~quit /\ closer[0] = "idle"
    <3>1. /\ quit' = quit
          /\ \E place \in {"close", "store", "done"} : closer' = [closer EXCEPT ![p] = place]
      BY <2>4 DEF Closer, CloseTest, CloseSocket, CloseStore, Closes, exitVars
    <3> QED  BY ONLY <1>t, <3>1, Undisturbed'
  <2>5. ASSUME NEW l \in Loops, Loop(l) PROVE ~quit /\ closer[0] = "idle"
    <3>1. l # 0 BY DEF Loops
    <3>2. quit' = quit /\ (closer' = closer \/ \E place : closer' = [closer EXCEPT ![l] = place])
      BY <2>5 DEF Loop, LoopInit, LoopListen, LoopTest, AcceptNothing, AcceptPeer, StoreHandle,
                  WaitSessions, LoopEnd, GoClose, exitVars, listenVars
    <3> QED  BY ONLY <1>t, <3>1, <3>2, Undisturbed'
  <2>6. ASSUME NEW s \in Sessions, Session(s) PROVE ~quit /\ closer[0] = "idle"
    BY <2>6 DEF Session, LimitNumClients, SessionFails, SessionEnds, SessionOnly, listenVars
  <2> QED  BY <2>1, <2>2, <2>3, <2>4, <2>5, <2>6 DEF Next
<1> QED  BY <1>1, <1>2

\* Every step keeps an undisturbed server serving.
LEMMA ServingStep == ASSUME Types, ServingUndisturbed, [Next]_vars PROVE ServingUndisturbed'
<1> SUFFICES ASSUME Undisturbed' PROVE Serving' BY DEF ServingUndisturbed
<1>u. Undisturbed /\ Serving BY UndisturbedBefore DEF ServingUndisturbed
<1>t. /\ open \subseteq Loops /\ lpc = [k \in Loops |-> lpc[k]] /\ fd = [k \in Loops |-> fd[k]]
      /\ sess = [s \in Sessions |-> sess[s]] /\ 0 \in 0..MaxStarts /\ 1 \in Loops /\ 0 \notin Loops
      /\ closer = [p \in 0..MaxStarts |-> closer[p]] /\ Loops \subseteq 0..MaxStarts
  BY ServerAssumption DEF Types, TypeOK, Loops
<1> USE DEF Serving
<1>1. CASE UNCHANGED vars
  BY <1>u, <1>1 DEF vars, hostVars, exitVars, listenVars, loopVars, sessVars, OneLoop, Serves
<1>2. CASE Host
  <2>1. ~StopLoop /\ ~CtrlHandler BY <1>t DEF StopLoop, CtrlHandler, Undisturbed
  <2>2. ~ConsoleJoin /\ ~ConsoleExit /\ ~StopWaited
    BY <1>u DEF ConsoleJoin, ConsoleExit, StopWaited, OneLoop, Undisturbed
  <2>3. PICK l \in Loops :
          /\ lpc[l] = "none" /\ lpc' = [lpc EXCEPT ![l] = "new"] /\ fd' = fd
          /\ hpc = "idle" /\ handle = 0 /\ mode' = mode
          /\ \/ hpc' = "poll" /\ handle' = handle
             \/ hpc' = "idle" /\ handle' = l /\ mode # "console"
          /\ UNCHANGED <<listenVars, manager, sessVars>>
    BY <1>t, <1>u, <1>2, <2>1, <2>2 DEF Host, ConsoleStart, StartLoop, Spawn, OneLoop
  <2>4. \A k \in Loops : lpc'[k] = IF k = l THEN "new" ELSE "none"
    BY <1>t, <1>u, <2>3 DEF OneLoop
  <2>5. OneLoop' BY <1>t, <1>u, <2>3, <2>4 DEF OneLoop
  <2>6. \A k \in Loops : Serves(k)' BY <2>4 DEF Serves
  <2> QED  BY <1>u, <2>3, <2>5, <2>6 DEF listenVars, sessVars
<1>3. ~SetQuit BY DEF SetQuit, Undisturbed
<1>4. ~\E p \in 0..MaxStarts : Closer(p)
  BY <1>u DEF Closer, CloseTest, CloseSocket, CloseStore
<1>5. ASSUME NEW l \in Loops, Loop(l) PROVE Serving'
  <2> USE <1>t, <1>u DEF Goto, GoClose
  <2>1. UNCHANGED <<hostVars, closer, orphans>> /\ lpc[l] # "none"
    BY <1>5 DEF Loop, LoopInit, LoopListen, LoopTest, AcceptNothing, AcceptPeer, StoreHandle,
                WaitSessions, LoopEnd, listenVars, sessVars, Undisturbed, Leave, GoOn, Serves, Fails
  <2>2. \A k \in Loops : k # l => lpc[k] = "none" BY <2>1 DEF OneLoop
  <2>3. PICK place : lpc' = [lpc EXCEPT ![l] = place] /\ place # "none"
    BY <1>5 DEF Loop, LoopInit, LoopListen, LoopTest, AcceptNothing, AcceptPeer, StoreHandle,
                WaitSessions, LoopEnd
  <2>4. \A k \in Loops : lpc'[k] = IF k = l THEN place ELSE "none" BY ONLY <1>t, <2>2, <2>3
  <2>5. OneLoop' BY <2>1, <2>4 DEF OneLoop, hostVars
  <2>6. Serves(l)' /\ (manager = "ready" => manager' = "ready")
    BY <1>5, <2>4 DEF Loop, LoopInit, LoopListen, LoopTest, AcceptNothing, AcceptPeer, StoreHandle,
                WaitSessions, LoopEnd, listenVars, Undisturbed, Leave, GoOn, Serves, Fails
  <2>7. \A k \in Loops : Serves(k)' BY <2>4, <2>6 DEF Serves
  <2>8. \A s \in Sessions : sess'[s] # "none" => manager' = "ready"
    BY <1>5, <2>6 DEF Loop, LoopInit, LoopListen, LoopTest, AcceptNothing, AcceptPeer, StoreHandle,
                WaitSessions, LoopEnd, sessVars, Serves
  <2> QED  BY <2>1, <2>5, <2>7, <2>8
<1>6. ASSUME NEW s \in Sessions, Session(s) PROVE Serving'
  <2>1. manager = "ready" /\ UNCHANGED <<hostVars, listenVars, loopVars, manager>>
    BY <1>u, <1>6 DEF Session, LimitNumClients, SessionFails, SessionEnds, SessionOnly
  <2>2. orphans' = {}
    BY <1>u, <1>6, <2>1 DEF Session, LimitNumClients, SessionFails, SessionEnds
  <2>3. OneLoop' /\ \A l \in Loops : Serves(l)'
    BY <1>u, <2>1 DEF OneLoop, Serves, hostVars, listenVars, loopVars
  <2> QED  BY <1>u, <2>1, <2>2, <2>3 DEF listenVars
<1> QED  BY <1>1, <1>2, <1>3, <1>4, <1>5, <1>6 DEF Next

\* Only a stop or a fault lets the session manager go before a session, though
\* wait_sessions keeps no loop from destroying it (loop_thread, session_free).
THEOREM ManagerKept == Spec => []OrphanedByStop
<1>1. Init => ServingUndisturbed
  BY ServerAssumption DEF Init, ServingUndisturbed, Serving, OneLoop, Serves
<1>2. ServingUndisturbed => OrphanedByStop
  BY DEF ServingUndisturbed, Serving, Undisturbed, OrphanedByStop
<1> QED  BY <1>1, <1>2, ServingStep, TypeCorrect, PTL DEF Spec
=============================================================================
