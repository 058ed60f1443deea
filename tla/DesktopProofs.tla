---------------------------- MODULE DesktopProofs ----------------------------
(***************************************************************************)
(* The window program for every set of faults, every bound and every       *)
(* contents of the folder: which signals are lost, that the event is       *)
(* closed under a running thread only when Stop came before it had         *)
(* started, and that no interface of the shell is kept.                    *)
(* The program as a whole is a MessageThread, of which the first facts     *)
(* are proved alone; the copying adds where it is between two calls.       *)
(***************************************************************************)
EXTENDS Desktop, SequenceTheorems, FiniteSetTheorems, TLAPS

AfterStop == {"exit", "exit stop", "exit post", "exit wait", "gone"}

\* Once Stop is over the thread no longer uses the event, unless it had not
\* started.  A thread that has been started stays so.
Joins ==
    /\ main \in AfterStop => ~UsesEvent \/ "early" \in marks
    /\ event = "closed" => main \in AfterStop
    /\ main = "start" => thread = "none"

\* What is asked for while there is work comes too late for it.
Overlaps ==
    thread \in {"work", "reset"} /\ "asked" \in marks => "overlap" \in marks

Inv == TypeOK /\ Joins /\ Overlaps /\ SignalsServed

USE DEF AfterStop, vars, window, Marks, HasEvent, UsesEvent, Alive, Running, AtMain, AtThread, May

Messages == Seq({"quit", "other", "close"})

\* A message more in the queue of the thread.
LEMMA Queued ==
    ASSUME NEW q \in Messages, NEW m \in {"quit", "other", "close"}
    PROVE  Append(q, m) \in Messages
BY DEF Messages

\* A message less.
LEMMA Taken ==
    ASSUME NEW q \in Messages, q # << >>
    PROVE  Tail(q) \in Messages
BY DEF Messages

\* The window program begins with the invariant.
LEMMA Starts == Init => Inv
<1> SUFFICES ASSUME Init PROVE Inv OBVIOUS
<1> USE DEF Init
<1>1. TypeOK
  <2>1. main = "start" /\ thread = "none" /\ bStarted = 0 /\ hWnd = "null"
        /\ quitting = FALSE /\ fresh = FALSE /\ marks = {}
    OBVIOUS
  <2>2. event \in {"reset", "none"} OBVIOUS
  <2>3. queue \in Messages BY DEF Messages
  <2> QED  BY ONLY <2>1, <2>2, <2>3 DEF TypeOK, Places, Messages, Marks
<1>2. Joins /\ Overlaps /\ SignalsServed BY DEF Joins, Overlaps, SignalsServed
<1> QED  BY <1>1, <1>2 DEF Inv

\* What the four parts say, one by one.
LEMMA FromParts ==
    ASSUME TypeOK', Joins', Overlaps', SignalsServed'
    PROVE  Inv'
BY DEF Inv

\* Start, Signal, Exit, and the messages of others.
LEMMA UserKeeps ==
    ASSUME Inv, \/ Start \/ Signal \/ Exit
                \/ \E message \in {"other", "close"} : Broadcast(message)
    PROVE  Inv'
<1> USE DEF Inv
<1>1. CASE Start
  <2>1. TypeOK'
    <3>1. main' = "loop" /\ thread \notin {"window", "wait for", "work", "reset", "get",
                                           "destroy", "clear"}
      BY <1>1 DEF Start, Joins
    <3>2. thread' \in {"ole", "none"} BY <1>1 DEF Start
    <3>3. UNCHANGED <<event, bStarted, hWnd, queue, quitting, fresh, marks>> BY <1>1 DEF Start
    <3>4. TypeOK OBVIOUS
    <3>5. Marks' = Marks OBVIOUS
    <3> QED  BY ONLY <3>1, <3>2, <3>3, <3>4, <3>5 DEF TypeOK, Places
  <2>2. Joins' BY <1>1 DEF TypeOK, Places, Joins, Start
  <2>3. Overlaps' BY <1>1 DEF TypeOK, Places, Overlaps, Start
  <2>4. SignalsServed' BY <1>1 DEF TypeOK, Places, Overlaps, SignalsServed, Start
  <2> QED  BY <2>1, <2>2, <2>3, <2>4, FromParts
<1>2. CASE Signal
  <2>1. TypeOK' BY <1>2 DEF TypeOK, Places, Signal, Sets
  <2>2. Joins' BY <1>2 DEF TypeOK, Places, Joins, Signal, Sets
  <2>3. Overlaps' BY <1>2 DEF TypeOK, Places, Overlaps, Signal, Sets
  <2>4. SignalsServed' BY <1>2 DEF TypeOK, Places, Overlaps, SignalsServed, Signal, Sets
  <2> QED  BY <2>1, <2>2, <2>3, <2>4, FromParts
<1>3. CASE Exit
  <2>1. TypeOK' BY <1>3 DEF TypeOK, Places, Exit
  <2>2. Joins' BY <1>3 DEF TypeOK, Places, Joins, Exit
  <2>3. Overlaps' BY <1>3 DEF TypeOK, Places, Overlaps, Exit
  <2>4. SignalsServed' BY <1>3 DEF TypeOK, Places, Overlaps, SignalsServed, Exit
  <2> QED  BY <2>1, <2>2, <2>3, <2>4, FromParts
<1>4. CASE \E message \in {"other", "close"} : Broadcast(message)
  <2>1. TypeOK'
    <3>1. queue \in Messages BY DEF TypeOK, Places, Messages
    <3>2. queue' \in Messages BY <1>4, <3>1, Queued DEF Broadcast
    <3>3. /\ main' = main /\ thread' = thread /\ event' = event /\ hWnd' = hWnd
          /\ quitting' = quitting /\ bStarted' = bStarted /\ marks' = marks /\ fresh' = TRUE
      BY <1>4 DEF Broadcast
    <3>4. TypeOK OBVIOUS
    <3>5. fresh' \in BOOLEAN /\ marks' \subseteq Marks BY ONLY <3>3, <3>4 DEF TypeOK, Places
    <3>6. Places' BY ONLY <3>3, <3>4 DEF TypeOK, Places
    <3> QED  BY ONLY <3>2, <3>5, <3>6 DEF TypeOK, Messages, Marks
  <2>2. Joins' BY <1>4 DEF TypeOK, Places, Joins, Broadcast
  <2>3. Overlaps' BY <1>4 DEF TypeOK, Places, Overlaps, Broadcast
  <2>4. SignalsServed' BY <1>4 DEF TypeOK, Places, Overlaps, SignalsServed, Broadcast
  <2> QED  BY <2>1, <2>2, <2>3, <2>4, FromParts
<1> QED  BY <1>1, <1>2, <1>3, <1>4

\* Stop, called by wWinMain and by the destructor.
LEMMA StopKeeps ==
    ASSUME Inv, Stop \/ Destructor
    PROVE  Inv'
<1> USE DEF Inv
<1>1. CASE StopTest("stop", "post", "exit")
  <2>1. TypeOK' BY <1>1 DEF TypeOK, Places, StopTest
  <2>2. Joins' BY <1>1 DEF TypeOK, Places, Joins, StopTest
  <2>3. Overlaps' BY <1>1 DEF TypeOK, Places, Overlaps, StopTest
  <2>4. SignalsServed' BY <1>1 DEF TypeOK, Places, Overlaps, SignalsServed, StopTest
  <2> QED  BY <2>1, <2>2, <2>3, <2>4, FromParts
<1>2. CASE StopTest("exit stop", "exit post", "gone")
  <2>1. TypeOK' BY <1>2 DEF TypeOK, Places, StopTest
  <2>2. Joins' BY <1>2 DEF TypeOK, Places, Joins, StopTest
  <2>3. Overlaps' BY <1>2 DEF TypeOK, Places, Overlaps, StopTest
  <2>4. SignalsServed' BY <1>2 DEF TypeOK, Places, Overlaps, SignalsServed, StopTest
  <2> QED  BY <2>1, <2>2, <2>3, <2>4, FromParts
<1>3. CASE StopPost("post", "wait")
  <2>1. TypeOK' BY <1>3, Queued DEF TypeOK, Places, StopPost, Posted, Messages
  <2>2. Joins' BY <1>3 DEF TypeOK, Places, Joins, StopPost, Posted
  <2>3. Overlaps' BY <1>3 DEF TypeOK, Places, Overlaps, StopPost, Posted
  <2>4. SignalsServed' BY <1>3 DEF TypeOK, Places, Overlaps, SignalsServed, StopPost, Posted
  <2> QED  BY <2>1, <2>2, <2>3, <2>4, FromParts
<1>4. CASE StopPost("exit post", "exit wait")
  <2>1. TypeOK' BY <1>4, Queued DEF TypeOK, Places, StopPost, Posted, Messages
  <2>2. Joins' BY <1>4 DEF TypeOK, Places, Joins, StopPost, Posted
  <2>3. Overlaps' BY <1>4 DEF TypeOK, Places, Overlaps, StopPost, Posted
  <2>4. SignalsServed' BY <1>4 DEF TypeOK, Places, Overlaps, SignalsServed, StopPost, Posted
  <2> QED  BY <2>1, <2>2, <2>3, <2>4, FromParts
<1>5. CASE StopWaited("wait", "exit") \/ StopWaited("exit wait", "gone")
  <2>1. TypeOK' BY <1>5 DEF TypeOK, Places, StopWaited, Joined
  <2>2. Joins' BY <1>5 DEF TypeOK, Places, Joins, StopWaited, Joined
  <2>3. Overlaps' BY <1>5 DEF TypeOK, Places, Overlaps, StopWaited, Joined
  <2>4. SignalsServed' BY <1>5 DEF TypeOK, Places, Overlaps, SignalsServed, StopWaited, Joined
  <2> QED  BY <2>1, <2>2, <2>3, <2>4, FromParts
<1>6. CASE CloseEvent
  <2>1. TypeOK' BY <1>6 DEF TypeOK, Places, CloseEvent
  <2>2. Joins' BY <1>6 DEF TypeOK, Places, Joins, CloseEvent
  <2>3. Overlaps' BY <1>6 DEF TypeOK, Places, Overlaps, CloseEvent
  <2>4. SignalsServed' BY <1>6 DEF TypeOK, Places, Overlaps, SignalsServed, CloseEvent
  <2> QED  BY <2>1, <2>2, <2>3, <2>4, FromParts
<1> QED  BY <1>1, <1>2, <1>3, <1>4, <1>5, <1>6 DEF Stop, Destructor

\* The message thread keeps the invariant.
LEMMA ThreadKeeps ==
    ASSUME Inv, Thread
    PROVE  Inv'
<1> USE DEF Inv
<1>1. CASE OleInit
  <2>1. TypeOK' BY <1>1 DEF TypeOK, Places, OleInit
  <2>2. Joins' BY <1>1 DEF TypeOK, Places, Joins, OleInit
  <2>3. Overlaps' BY <1>1 DEF TypeOK, Places, Overlaps, OleInit
  <2>4. SignalsServed' BY <1>1 DEF TypeOK, Places, Overlaps, SignalsServed, OleInit
  <2> QED  BY <2>1, <2>2, <2>3, <2>4, FromParts
<1>2. CASE SetStarted \/ InitInstance
  <2>1. TypeOK' BY <1>2 DEF TypeOK, Places, SetStarted, InitInstance
  <2>2. Joins' BY <1>2 DEF TypeOK, Places, Joins, SetStarted, InitInstance
  <2>3. Overlaps' BY <1>2 DEF TypeOK, Places, Overlaps, SetStarted, InitInstance
  <2>4. SignalsServed' BY <1>2 DEF TypeOK, Places, Overlaps, SignalsServed, SetStarted, InitInstance
  <2> QED  BY <2>1, <2>2, <2>3, <2>4, FromParts
<1>3. CASE WakeForMessage
  <2>1. TypeOK' BY <1>3 DEF TypeOK, Places, WakeForMessage
  <2>2. Joins' BY <1>3 DEF TypeOK, Places, Joins, WakeForMessage
  <2>3. Overlaps' BY <1>3 DEF TypeOK, Places, Overlaps, WakeForMessage
  <2>4. SignalsServed' BY <1>3 DEF TypeOK, Places, Overlaps, SignalsServed, WakeForMessage
  <2> QED  BY <2>1, <2>2, <2>3, <2>4, FromParts
<1>4. CASE WakeForEvent
  <2>1. TypeOK' BY <1>4 DEF TypeOK, Places, WakeForEvent
  <2>2. Joins' BY <1>4 DEF TypeOK, Places, Joins, WakeForEvent
  <2>3. Overlaps' BY <1>4 DEF TypeOK, Places, Overlaps, WakeForEvent
  <2>4. SignalsServed' BY <1>4 DEF TypeOK, Places, Overlaps, SignalsServed, WakeForEvent
  <2> QED  BY <2>1, <2>2, <2>3, <2>4, FromParts
<1>5. CASE Work
  <2>1. TypeOK' BY <1>5 DEF TypeOK, Places, Work
  <2>2. Joins' BY <1>5 DEF TypeOK, Places, Joins, Work
  <2>3. Overlaps' BY <1>5 DEF TypeOK, Places, Overlaps, Work
  <2>4. SignalsServed' BY <1>5 DEF TypeOK, Places, Overlaps, SignalsServed, Work
  <2> QED  BY <2>1, <2>2, <2>3, <2>4, FromParts
<1>6. CASE ResetEvent
  <2>1. TypeOK' BY <1>6 DEF TypeOK, Places, ResetEvent
  <2>2. Joins' BY <1>6 DEF TypeOK, Places, Joins, ResetEvent
  <2>3. Overlaps' BY <1>6 DEF TypeOK, Places, Overlaps, ResetEvent
  <2>4. SignalsServed' BY <1>6 DEF TypeOK, Places, Overlaps, SignalsServed, ResetEvent
  <2> QED  BY <2>1, <2>2, <2>3, <2>4, FromParts
<1>7. CASE GetMessage
  <2>1. TypeOK'
    <3>1. queue \in Messages BY DEF TypeOK, Places, Messages
    <3>2. queue # << >> => Tail(queue) \in Messages BY <3>1, Taken
    <3>3. << >> \in Messages BY DEF Messages
    <3>4. queue' \in Messages BY <1>7, <3>1, <3>2, <3>3 DEF GetMessage, GetPosted, GetQuit
    <3>5. thread = "get" /\ thread' \in {"destroy", "wait for"}
      BY <1>7 DEF GetMessage, GetPosted, GetQuit, AfterMessage
    <3>6. hWnd' \in {hWnd, "destroyed"} /\ quitting' \in BOOLEAN /\ fresh' \in BOOLEAN
      BY <1>7 DEF TypeOK, Places, GetMessage, GetPosted, GetQuit
    <3>7. UNCHANGED <<main, event, bStarted, marks>> BY <1>7 DEF GetMessage, GetPosted, GetQuit
    <3>8. TypeOK OBVIOUS
    <3>9. Marks' = Marks OBVIOUS
    <3>a. Places' BY ONLY <3>5, <3>6, <3>7, <3>8 DEF TypeOK, Places
    <3>b. marks' \subseteq Marks' BY ONLY <3>7, <3>8, <3>9 DEF TypeOK
    <3> QED  BY ONLY <3>4, <3>a, <3>b DEF TypeOK, Messages
  <2>2. Joins' BY <1>7 DEF TypeOK, Places, Joins, GetMessage, GetPosted, GetQuit, AfterMessage
  <2>3. Overlaps' BY <1>7 DEF TypeOK, Places, Overlaps, GetMessage, GetPosted, GetQuit, AfterMessage
  <2>4. SignalsServed' BY <1>7 DEF TypeOK, Places, Overlaps, SignalsServed, GetMessage, GetPosted, GetQuit, AfterMessage
  <2> QED  BY <2>1, <2>2, <2>3, <2>4, FromParts
<1>8. CASE DestroyWindow
  <2>1. TypeOK' BY <1>8 DEF TypeOK, Places, DestroyWindow
  <2>2. Joins' BY <1>8 DEF TypeOK, Places, Joins, DestroyWindow
  <2>3. Overlaps' BY <1>8 DEF TypeOK, Places, Overlaps, DestroyWindow
  <2>4. SignalsServed' BY <1>8 DEF TypeOK, Places, Overlaps, SignalsServed, DestroyWindow
  <2> QED  BY <2>1, <2>2, <2>3, <2>4, FromParts
<1>9. CASE ClearStarted \/ OleUninit
  <2>1. TypeOK' BY <1>9 DEF TypeOK, Places, ClearStarted, OleUninit
  <2>2. Joins' BY <1>9 DEF TypeOK, Places, Joins, ClearStarted, OleUninit
  <2>3. Overlaps' BY <1>9 DEF TypeOK, Places, Overlaps, ClearStarted, OleUninit
  <2>4. SignalsServed' BY <1>9 DEF TypeOK, Places, Overlaps, SignalsServed, ClearStarted, OleUninit
  <2> QED  BY <2>1, <2>2, <2>3, <2>4, FromParts
<1> QED  BY <1>1, <1>2, <1>3, <1>4, <1>5, <1>6, <1>7, <1>8, <1>9 DEF Thread, Apart

\* Every step of the two threads keeps it.
LEMMA Keeps ==
    ASSUME Inv, [Next]_vars
    PROVE  Inv'
<1>1. CASE Others BY <1>1, UserKeeps, StopKeeps DEF Others
<1>2. CASE Thread BY <1>2, ThreadKeeps
<1>3. CASE UNCHANGED vars
  <2>1. TypeOK'
    <3>1. TypeOK BY DEF Inv
    <3>2. UNCHANGED <<main, thread, event, hWnd, quitting, fresh, queue, marks, bStarted>>
      BY <1>3
    <3>3. Marks' = Marks OBVIOUS
    <3>4. queue' \in Messages BY ONLY <3>1, <3>2 DEF TypeOK, Places, Messages
    <3>5. marks' \subseteq Marks' BY ONLY <3>1, <3>2, <3>3 DEF TypeOK, Places
    <3>6. /\ main' = main /\ thread' = thread /\ event' = event /\ hWnd' = hWnd
          /\ quitting' = quitting /\ fresh' = fresh /\ bStarted' = bStarted
      BY ONLY <3>2
    <3>7. Places BY ONLY <3>1 DEF TypeOK
    <3>8. Places' = Places BY ONLY <3>6 DEF Places
    <3> QED  BY ONLY <3>4, <3>5, <3>7, <3>8 DEF TypeOK, Messages
  <2>2. Joins' /\ Overlaps' /\ SignalsServed'
    BY <1>3 DEF Inv, Joins, Overlaps, SignalsServed
  <2> QED  BY <2>1, <2>2, FromParts
<1> QED  BY <1>1, <1>2, <1>3 DEF Next

\* So the invariant always holds of the two threads,
LEMMA Invariant == Spec => []Inv
<1>1. Init => Inv BY Starts
<1>2. Inv /\ [Next]_vars => Inv' BY Keeps
<1> QED  BY <1>1, <1>2, PTL DEF Spec

-----------------------------------------------------------------------------
(* The program as a whole *)

\* With the copying, each step is one of the main thread or of the message
\* thread, or one in the middle of its work.
LEMMA DesktopStep == [DesktopNext]_DesktopVars => [Next]_vars
BY DEF DesktopNext, DesktopThread, Serve, DesktopVars, Next, Thread

\* The window program with the copying in it implements the one in which the work
\* for a signal is one step (CMessageThread::Loop).
THEOREM CopyingIsWork == DesktopSpec => Spec
<1>1. DesktopInit => Init BY DEF DesktopInit
<1> QED  BY <1>1, DesktopStep, PTL DEF DesktopSpec, Spec

\* and of the program with its copying, whose steps are theirs.
LEMMA DesktopInvariant == DesktopSpec => []Inv
BY CopyingIsWork, Invariant, PTL

\* A Signal is lost only when it came while there was work, or without an event:
\* for every fault and every length of the queue (CMessageThread::Signal, Loop).
THEOREM SignalsAreServed == DesktopSpec => []SignalsServed
<1>1. Inv => SignalsServed BY DEF Inv
<1> QED  BY <1>1, DesktopInvariant, PTL

\* The event is closed under a running thread only when Stop found that it had
\* not started (CMessageThread::~CMessageThread).
THEOREM EventOutlives == DesktopSpec => []EventOutlivesThread
<1>1. Inv => EventOutlivesThread BY DEF Inv, Joins, EventOutlivesThread
<1> QED  BY <1>1, DesktopInvariant, PTL

\* The copying is under way exactly while the thread works, and holds nothing
\* before it begins and after it has given back what it holds.
Copies ==
    /\ thread = "work" <=> at # "idle"
    /\ at \in {"idle", "done"} => held = {}
    /\ held \subseteq Interfaces

Between == {"idle", "done"}

\* A call is in one of the chains, and what follows it is next in that one.
LEMMA InChain ==
    ASSUME NEW call \in Calls
    PROVE  \E c \in Chains : \E i \in DOMAIN c :
             c[i] = call /\ Following(call) = IF i < Len(c) THEN c[i + 1] ELSE AfterChain[call]
<1>1. \A c \in Chains : Contains(c, call) <=> \E k \in DOMAIN c : c[k] = call
  <2>1. \A c \in Chains : DOMAIN c = 1..Len(c)
    <3>1. DOMAIN Opening = 1..Len(Opening) BY DEF Opening
    <3>2. DOMAIN Source = 1..Len(Source) BY DEF Source
    <3>3. DOMAIN Copying = 1..Len(Copying) BY DEF Copying
    <3> QED  BY <3>1, <3>2, <3>3 DEF Chains
  <2> QED  BY <2>1 DEF Contains
<1>2. \E c \in Chains : Contains(c, call)
  BY <1>1 DEF Calls, ToSet
<1> DEFINE C == CHOOSE c \in Chains : Contains(c, call)
           I == CHOOSE i \in DOMAIN C : C[i] = call
<1>3. C \in Chains /\ \E k \in DOMAIN C : C[k] = call BY <1>1, <1>2
<1>4. I \in DOMAIN C /\ C[I] = call BY <1>3
<1>5. Following(call) = IF I < Len(C) THEN C[I + 1] ELSE AfterChain[call]
  BY DEF Following
<1> QED  BY <1>3, <1>4, <1>5

\* The calls before the entries are read, and those after.
Early == {"desktop", "pidl", "ftp_root", "attributes", "ftp_view", "pl",
          "source_root", "source_attributes", "plv"}
Late == {"ppcs_attributes", "item_context_menu", "invoke"}

\* After each call comes another, an enumeration or, after the last, the end.
LEMMA Goes ==
    ASSUME NEW call \in Calls
    PROVE  /\ call \in Early \cup Late
           /\ call \in Early => Following(call) \in Early \cup {"folders", "entries"}
           /\ call \in Late => Following(call) \in Late \cup {"exit"}
                              /\ (Following(call) = "exit" <=> call = "invoke")
<1>3. PICK c \in Chains : \E i \in DOMAIN c :
         c[i] = call /\ Following(call) = IF i < Len(c) THEN c[i + 1] ELSE AfterChain[call]
  BY InChain
<1>4. CASE c = Opening
  BY <1>3, <1>4 DEF Opening, AfterChain, Early, Late
<1>5. CASE c = Source
  BY <1>3, <1>5 DEF Source, AfterChain, Early, Late
<1>6. CASE c = Copying
  BY <1>3, <1>6 DEF Copying, AfterChain, Early, Late
<1> QED  BY <1>3, <1>4, <1>5, <1>6 DEF Chains

\* One step of the copying does not end it, except ExitMe, which holds nothing then.
LEMMA CopyGoes ==
    ASSUME Copies, thread = "work", Copy
    PROVE  at' # "idle" /\ (at' = "done" => held' = {}) /\ held' \subseteq Interfaces
<1>1. ASSUME NEW call \in Calls, Succeeds(call) \/ Fails(call)
      PROVE  at' \notin Between /\ held' \subseteq Interfaces
  BY <1>1, Goes DEF Copies, Succeeds, Fails, Between, Early, Late
<1>2. CASE OtherFolder \/ FoundSource \/ NoSource
  BY <1>2 DEF Copies, OtherFolder, FoundSource, NoSource, Source
<1>3. CASE NextEntry \/ \E error \in BOOLEAN : EntriesEnd(error)
  BY <1>3 DEF Copies, NextEntry, EntriesEnd, Copying
<1>4. CASE ExitMe
  BY <1>4 DEF Copies, ExitMe, Released
<1> QED  BY <1>1, <1>2, <1>3, <1>4 DEF Copy, Between

\* No copying is under way when the program begins.
LEMMA CopiesStart == DesktopInit => Copies
BY DEF DesktopInit, Init, Idle, Copies

\* A copying begins and ends with the work of the thread.
LEMMA CopiesKept ==
    ASSUME Inv, Copies, [DesktopNext]_DesktopVars
    PROVE  Copies'
<1>1. CASE WakeForEvent /\ Enter
  BY <1>1 DEF WakeForEvent, Enter, Copies, Opening
<1>2. CASE thread = "work" /\ Copy /\ UNCHANGED vars
  BY <1>2, CopyGoes DEF Copies
<1>3. CASE Work /\ Return
  BY <1>3 DEF Work, Return, Copies
<1>4. CASE Apart /\ UNCHANGED clip
  <2>1. thread # "work" /\ thread' # "work"
    BY <1>4 DEF Apart, OleInit, SetStarted, InitInstance, WakeForMessage, GetMessage, GetPosted, GetQuit,
                AfterMessage, ResetEvent, DestroyWindow, ClearStarted, OleUninit
  <2> QED  BY <1>4, <2>1 DEF Copies, clip
<1>5. CASE Others /\ UNCHANGED clip
  <2>1. thread = "work" <=> thread' = "work"
    BY <1>5 DEF Others, Inv, Joins, Start, Signal, Exit, Stop, Destructor, StopTest,
                StopPost, StopWaited, CloseEvent, Broadcast
  <2> QED  BY <1>5, <2>1 DEF Copies, clip
<1>6. CASE UNCHANGED DesktopVars
  BY <1>6 DEF DesktopVars, clip, Copies
<1> QED  BY <1>1, <1>2, <1>3, <1>4, <1>5, <1>6 DEF DesktopNext, DesktopThread, Serve

\* Nothing the shell gave is kept when the thread waits again or has ended, and
\* the program ends with something held only when Stop had found the thread not
\* started (exit_me of FtpPutIntoClipboardWithSource).
THEOREM HoldsNothing == DesktopSpec => []NothingHeld
<1>1. DesktopInit => Copies BY CopiesStart
<1>2. Inv /\ Copies /\ [DesktopNext]_DesktopVars => Copies' BY CopiesKept
<1>3. Inv /\ Copies => NothingHeld BY DEF Inv, Joins, Copies, NothingHeld
<1> QED  BY <1>1, <1>2, <1>3, DesktopInvariant, PTL DEF DesktopSpec

-----------------------------------------------------------------------------
(* What is put on the clipboard *)

\* The entries chosen so far are distinct, wanted, and no longer to be read.
Sifted ==
    /\ folder \subseteq Entries /\ unread \subseteq folder
    /\ ppcs \in Seq(Entries) /\ IsInjective(ppcs)
    /\ ToSet(ppcs) \subseteq {e \in folder \ unread : Wanted(e)}

Over == {"exit", "done"}

\* While the entries are read all wanted ones among those read are chosen, and the
\* copying is only reached with some; the answer tells whether it was reached.
Staged ==
    /\ at \in {"idle", "folders", "entries"} \cup Early \cup Late \cup Over
    /\ at \in {"idle", "folders"} \cup Early => ppcs = << >> /\ unread = folder
    /\ at \in {"entries"} \cup Late =>
         {e \in folder \ unread : Wanted(e)} \subseteq ToSet(ppcs)
    /\ at \in Late => ppcs # << >> /\ (unread = {} \/ cut)
    /\ at \in Over =>
         /\ hr = "S_OK" <=> clipboard # {}
         /\ hr = "S_OK" => clipboard = {e \in folder : Wanted(e)} \/ cut
    /\ at \notin Over => clipboard = {}

\* One more entry, which was not chosen before.
LEMMA Chooses ==
    ASSUME NEW q \in Seq(Entries), IsInjective(q), NEW e \in Entries, e \notin ToSet(q)
    PROVE  /\ q \o <<e>> \in Seq(Entries) /\ IsInjective(q \o <<e>>)
           /\ ToSet(q \o <<e>>) = ToSet(q) \cup {e}
<1> DEFINE r == q \o <<e>>
<1>1. /\ r \in Seq(Entries) /\ DOMAIN r = 1 .. Len(q) + 1 /\ DOMAIN q = 1..Len(q)
      /\ Len(q) \in Nat /\ r[Len(q) + 1] = e /\ \A i \in 1..Len(q) : r[i] = q[i]
  OBVIOUS
<1> HIDE DEF r
<1>2. ToSet(r) = ToSet(q) \cup {e} BY <1>1 DEF ToSet
<1>3. IsInjective(r)
  <2> SUFFICES ASSUME NEW i \in DOMAIN r, NEW j \in DOMAIN r, r[i] = r[j] PROVE i = j
    BY DEF IsInjective
  <2>1. \A k \in DOMAIN q : r[k] # e BY <1>1 DEF ToSet
  <2>2. CASE i \in DOMAIN q /\ j \in DOMAIN q
    <3>1. q[i] = q[j] BY <1>1, <2>2
    <3> QED  BY <2>2, <3>1 DEF IsInjective
  <2>3. CASE i = Len(q) + 1 /\ j \in DOMAIN q BY <1>1, <2>1, <2>3
  <2>4. CASE i \in DOMAIN q /\ j = Len(q) + 1 BY <1>1, <2>1, <2>4
  <2>5. i \in DOMAIN q \/ i = Len(q) + 1 BY <1>1
  <2>6. j \in DOMAIN q \/ j = Len(q) + 1 BY <1>1
  <2> QED  BY <2>2, <2>3, <2>4, <2>5, <2>6
<1> QED  BY <1>1, <1>2, <1>3 DEF r

\* A call of the shell chooses nothing: the clipboard gets what was chosen before.
LEMMA CallKeeps ==
    ASSUME Sifted, Staged, NEW call \in Calls, Succeeds(call) \/ Fails(call)
    PROVE  Sifted' /\ Staged'
<1>1. at = call /\ UNCHANGED <<folder, unread, ppcs, cut>> BY DEF Succeeds, Fails
<1>2. Sifted' BY <1>1 DEF Sifted, Wanted
<1>3. CASE Fails(call)
  <2>1. call \notin Over BY Goes DEF Early, Late, Over
  <2>2. clipboard' = {} /\ at' = "exit" /\ hr' = "error" BY <1>1, <1>3, <2>1 DEF Staged, Fails
  <2> QED  BY <1>2, <2>2 DEF Staged, Over, Early, Late
<1>4. CASE Succeeds(call) /\ call \in Early
  <2>1. call # "invoke" /\ call \notin Over BY <1>4 DEF Early, Over
  <2>2. ppcs = << >> /\ unread = folder /\ clipboard = {} BY <1>1, <1>4, <2>1 DEF Staged
  <2>3. clipboard' = {} /\ at' \in Early \cup {"folders", "entries"}
    BY <1>4, <2>1, <2>2, Goes DEF Succeeds
  <2>4. at' \notin Over \cup Late BY <2>3 DEF Early, Late, Over
  <2> QED  BY <1>1, <1>2, <2>2, <2>3, <2>4 DEF Staged
<1>5. CASE Succeeds(call) /\ call \in Late
  <2>1. /\ ppcs # << >> /\ (unread = {} \/ cut)
        /\ {e \in folder \ unread : Wanted(e)} = ToSet(ppcs)
    BY <1>1, <1>5 DEF Staged, Sifted
  <2>2. at' \in Late \cup {"exit"} /\ (at' = "exit" <=> call = "invoke") /\ hr' = "S_OK"
    BY <1>5, Goes DEF Succeeds
  <2>3. CASE call # "invoke"
    <3>1. clipboard' = {} /\ at' \in Late
      BY <1>1, <1>5, <2>2, <2>3 DEF Staged, Succeeds, Over, Late
    <3>2. at' \notin Over \cup Early \cup {"idle", "folders", "entries"}
      BY <3>1 DEF Early, Late, Over
    <3> QED  BY <1>1, <1>2, <2>1, <3>1, <3>2 DEF Staged, Wanted
  <2>4. CASE call = "invoke"
    <3>1. clipboard' = ToSet(ppcs) /\ at' = "exit" BY <1>5, <2>2, <2>4 DEF Succeeds
    <3>2. ToSet(ppcs) # {} BY <2>1 DEF Sifted, ToSet
    <3> QED  BY <1>1, <1>2, <2>1, <2>2, <3>1, <3>2 DEF Staged, Over, Early, Late, Wanted
  <2> QED  BY <2>3, <2>4
<1> QED  BY <1>3, <1>4, <1>5, Goes

\* An entry read is sifted, or the enumeration fails.
LEMMA EntryKeeps ==
    ASSUME Sifted, Staged, NextEntry
    PROVE  Sifted' /\ Staged'
<1>1. PICK entry \in unread :
         /\ unread' = unread \ {entry}
         /\ \/ hr' = "S_OK" /\ ppcs' = ppcs \o Chosen(entry) /\ at' = at
            \/ hr' = "error" /\ ppcs' = ppcs /\ at' = "exit"
  BY DEF NextEntry
<1>2. at = "entries" /\ UNCHANGED <<folder, clipboard, cut>> BY DEF NextEntry
<1>3. /\ entry \in folder /\ entry \in Entries /\ entry \notin ToSet(ppcs) /\ clipboard = {}
      /\ {e \in folder \ unread : Wanted(e)} = ToSet(ppcs)
  BY <1>2 DEF Sifted, Staged, Over
<1>4. folder \ unread' = (folder \ unread) \cup {entry} BY <1>1, <1>3
<1>5. CASE ppcs' = ppcs \o Chosen(entry) /\ at' = at
  <2>1. CASE Wanted(entry)
    <3>1. ppcs' = ppcs \o <<entry>> BY <1>5, <2>1 DEF Chosen
    <3>2. /\ ppcs' \in Seq(Entries) /\ IsInjective(ppcs')
          /\ ToSet(ppcs') = ToSet(ppcs) \cup {entry}
      BY <1>3, <3>1, Chooses DEF Sifted
    <3>3. {e \in folder' \ unread' : Wanted(e)} = ToSet(ppcs') BY <1>2, <1>3, <1>4, <2>1, <3>2
    <3> QED  BY <1>1, <1>2, <1>3, <1>5, <3>2, <3>3 DEF Sifted, Staged, Over, Early, Late
  <2>2. CASE ~Wanted(entry)
    <3>1. ppcs' = ppcs BY <1>5, <2>2 DEF Chosen, Sifted
    <3>2. {e \in folder' \ unread' : Wanted(e)} = ToSet(ppcs') BY <1>2, <1>3, <1>4, <2>2, <3>1
    <3> QED  BY <1>1, <1>2, <1>3, <1>5, <3>1, <3>2 DEF Sifted, Staged, Over, Early, Late
  <2> QED  BY <2>1, <2>2
<1>6. CASE hr' = "error" /\ ppcs' = ppcs /\ at' = "exit"
  <2>1. ToSet(ppcs') \subseteq {e \in folder' \ unread' : Wanted(e)} BY <1>2, <1>3, <1>4, <1>6
  <2> QED  BY <1>1, <1>2, <1>3, <1>6, <2>1 DEF Sifted, Staged, Over, Early, Late
<1> QED  BY <1>1, <1>5, <1>6

\* The enumeration ends with every entry sifted, or is cut short.
LEMMA EndKeeps ==
    ASSUME Sifted, Staged, NEW error \in BOOLEAN, EntriesEnd(error)
    PROVE  Sifted' /\ Staged'
<1>1. /\ at = "entries" /\ (error \/ unread = {}) /\ cut' = error
      /\ UNCHANGED <<folder, unread, ppcs, clipboard>>
  BY DEF EntriesEnd
<1>2. clipboard = {} BY <1>1 DEF Staged, Over
<1>3. Sifted' BY <1>1 DEF Sifted, Wanted
<1>4. CASE ppcs = << >>
  <2>1. at' = "exit" /\ hr' = "E_FAIL" BY <1>4 DEF EntriesEnd, AtEnd
  <2> QED  BY <1>1, <1>2, <1>3, <2>1 DEF Staged, Over, Early, Late
<1>5. CASE ppcs # << >>
  <2>1. at' = "ppcs_attributes" BY <1>5 DEF EntriesEnd, Copying
  <2>2. {e \in folder' \ unread' : Wanted(e)} \subseteq ToSet(ppcs')
    BY <1>1 DEF Staged, Wanted
  <2> QED  BY <1>1, <1>2, <1>3, <1>5, <2>1, <2>2 DEF Staged, Over, Early, Late
<1> QED  BY <1>4, <1>5

\* So does every step of the copying.
LEMMA CopyKeeps ==
    ASSUME Sifted, Staged, Copy
    PROVE  Sifted' /\ Staged'
<1>1. CASE OtherFolder \/ FoundSource \/ NoSource
  <2>1. at = "folders" /\ UNCHANGED <<folder, unread, ppcs, clipboard, cut>>
    BY <1>1 DEF OtherFolder, FoundSource, NoSource
  <2>2. at' \in {"folders", "source_root"} \/ (at' = "exit" /\ hr' # "S_OK")
    BY <1>1 DEF OtherFolder, FoundSource, NoSource, Source
  <2>3. clipboard = {} /\ ppcs = << >> /\ unread = folder BY <2>1 DEF Staged, Over
  <2> QED  BY <2>1, <2>2, <2>3 DEF Sifted, Staged, Wanted, Over, Early, Late
<1>2. CASE ExitMe
  <2>1. /\ at = "exit" /\ at' = "done"
        /\ UNCHANGED <<folder, unread, ppcs, hr, clipboard, cut>>
    BY <1>2 DEF ExitMe
  <2> QED  BY <2>1 DEF Sifted, Staged, Wanted, Over, Early, Late
<1> QED  BY <1>1, <1>2, CallKeeps, EntryKeeps, EndKeeps DEF Copy

\* Nothing is sifted when the program begins.
LEMMA SiftStarts == DesktopInit => Sifted /\ Staged
BY DEF DesktopInit, Idle, Sifted, Staged, IsInjective, ToSet, Over, Early, Late

\* Every step of the program keeps what was sifted.
LEMMA SiftKept ==
    ASSUME Sifted, Staged, [DesktopNext]_DesktopVars
    PROVE  Sifted' /\ Staged'
<1>1. CASE Enter
  <2>1. /\ at = "idle" /\ at' = "desktop" /\ folder' \subseteq Entries /\ unread' = folder'
        /\ UNCHANGED <<ppcs, clipboard>>
    BY <1>1 DEF Enter, Opening
  <2>2. ppcs = << >> /\ clipboard = {} BY <2>1 DEF Staged, Over
  <2> QED  BY <2>1, <2>2 DEF Sifted, Staged, IsInjective, ToSet, Over, Early, Late
<1>2. CASE Return
  BY <1>2 DEF Return, Sifted, Staged, IsInjective, ToSet, Over, Early, Late
<1>3. CASE UNCHANGED clip
  BY <1>3 DEF clip, Sifted, Staged, Wanted
<1>4. CASE UNCHANGED DesktopVars
  BY <1>3, <1>4 DEF DesktopVars
<1> QED  BY <1>1, <1>2, <1>3, <1>4, CopyKeeps DEF DesktopNext, DesktopThread, Serve

\* Two entries of a finite folder with the same name in theirs.
LEMMA TwoMatch ==
    ASSUME NEW name \in FileNames, NEW a \in folder, NEW b \in folder, a # b,
           folder \subseteq Entries, <<a, name>> \in Match, <<b, name>> \in Match
    PROVE  Cardinality({e \in folder : <<e, name>> \in Match}) > 1
<1> DEFINE S == {e \in folder : <<e, name>> \in Match}
<1>1. IsFiniteSet(S)
  <2>1. S \in SUBSET Entries OBVIOUS
  <2> QED  BY <2>1, FS_Subset, ClipboardAssumption
<1>2. {a} \in SUBSET S /\ {a} # S OBVIOUS
<1>3. Cardinality({a}) = 1 BY FS_Singleton
<1> HIDE DEF S
<1>4. Cardinality(S) \in Nat BY <1>1, FS_CardinalityType
<1>5. 1 <= Cardinality(S) /\ Cardinality(S) # 1 BY <1>1, <1>2, <1>3, FS_Subset
<1>6. Cardinality(S) > 1 BY <1>4, <1>5
<1> QED  BY <1>6 DEF S

\* More entries than there are names: two of them have the same name in theirs.
LEMMA MoreThanNames ==
    ASSUME Sifted, Len(ppcs) > count
    PROVE  \E name \in FileNames : Cardinality({e \in folder : <<e, name>> \in Match}) > 1
<1> DEFINE f == [i \in 1..Len(ppcs) |-> CHOOSE name \in FileNames : <<ppcs[i], name>> \in Match]
<1>1. ppcs \in Seq(Entries) /\ IsInjective(ppcs) /\ folder \subseteq Entries BY DEF Sifted
<1>2. Len(ppcs) \in Nat /\ DOMAIN ppcs = 1..Len(ppcs) BY <1>1
<1>3. \A i \in 1..Len(ppcs) :
        /\ ppcs[i] \in folder
        /\ \E name \in FileNames : <<ppcs[i], name>> \in Match
  BY <1>2 DEF Sifted, ToSet, Wanted
<1>4. f \in [1..Len(ppcs) -> FileNames] /\ \A i \in 1..Len(ppcs) : <<ppcs[i], f[i]>> \in Match
  BY <1>3
<1> HIDE DEF f
<1>5. IsFiniteSet(1..Len(ppcs)) /\ Cardinality(1..Len(ppcs)) = Len(ppcs)
  <2>1. /\ IsFiniteSet(1..Len(ppcs))
        /\ Cardinality(1..Len(ppcs)) = IF 1 > Len(ppcs) THEN 0 ELSE Len(ppcs) - 1 + 1
    BY <1>2, FS_Interval
  <2> QED  BY <1>2, <2>1
<1>6. IsFiniteSet(FileNames) /\ Cardinality(FileNames) < Cardinality(1..Len(ppcs))
  <2>1. IsFiniteSet(FileNames) BY ClipboardAssumption
  <2>2. Cardinality(FileNames) \in Nat BY <2>1, FS_CardinalityType
  <2> QED  BY <1>2, <1>5, <2>1, <2>2 DEF count
<1>7. PICK i \in 1..Len(ppcs), j \in 1..Len(ppcs) : i # j /\ f[i] = f[j]
  BY <1>4, <1>5, <1>6, FS_PigeonHole
<1>8. ppcs[i] # ppcs[j] BY <1>1, <1>2, <1>7 DEF IsInjective
<1>9. f[i] \in FileNames /\ <<ppcs[i], f[i]>> \in Match /\ <<ppcs[j], f[i]>> \in Match
  BY <1>4, <1>7
<1> QED  BY <1>1, <1>3, <1>8, <1>9, TwoMatch

\* FtpPutIntoClipboardWithSource answers S_OK exactly when it has put entries on
\* the clipboard, which are all that match unless an enumeration was cut short;
\* its array of count entries is overrun only when a name of the list is part of
\* the names of two entries.
THEOREM AnswerTellsWhatWasCopied == DesktopSpec => []SuccessMeansCopied
<1>1. DesktopInit => Sifted /\ Staged BY SiftStarts
<1>2. Sifted /\ Staged /\ [DesktopNext]_DesktopVars => Sifted' /\ Staged' BY SiftKept
<1>3. ASSUME Sifted, Staged PROVE SuccessMeansCopied
  <2>1. Len(ppcs) > count => \E name \in FileNames :
          Cardinality({e \in folder : <<e, name>> \in Match}) > 1
    BY <1>3, MoreThanNames
  <2>2. at = "done" =>
          /\ hr = "S_OK" <=> clipboard # {}
          /\ hr = "S_OK" => clipboard = {e \in folder : Wanted(e)} \/ cut
    BY <1>3 DEF Staged, Over
  <2> QED  BY Zenon, <2>1, <2>2 DEF SuccessMeansCopied
<1> QED  BY <1>1, <1>2, <1>3, PTL DEF DesktopSpec
=============================================================================
