----------------------------- MODULE MessageThread -----------------------------
(***************************************************************************)
(* The window program: its main thread (wWinMain and WndProc, CPSample.cpp)*)
(* and the message thread it starts, signals and stops                     *)
(* (CMessageThread.cpp).  They share bStarted, hWnd and an event, and      *)
(* nothing guards them.  The thread waits for the event or for a message;  *)
(* MsgWaitForMultipleObjects returns for messages that are new since the   *)
(* queue was last looked at, and the loop takes one at a time.             *)
(***************************************************************************)
EXTENDS Naturals, Sequences

CONSTANTS
    Faults,     \* what may fail: "event", "thread", "ole", "window"
    MaxQueue    \* bound on the messages that wait

ASSUME ThreadAssumption ==
    Faults \subseteq {"event", "thread", "ole", "window"} /\ MaxQueue \in Nat

VARIABLES
    main,       \* where the main thread is
    thread,     \* where the message thread is
    event,      \* hEvent: "set" or "reset", "closed", or "none" if it could not be made
    bStarted,   \* 0 or 1
    hWnd,       \* "null", "window", "destroyed"
    queue,      \* the messages posted to the message thread
    quitting,   \* has PostQuitMessage been called there?
    fresh,      \* some came since it last looked
    marks       \* history: what has happened, of Marks

Marks == {"early",      \* Stop found that the thread had not started yet
          "astray",     \* the WM_QUIT of Stop went nowhere, or to the main thread
          "asked",      \* a Signal came since the last work began
          "overlap"}    \* a Signal came while there was work

window  == <<event, bStarted, hWnd, queue, quitting, fresh>>
vars    == <<main, thread, window, marks>>

-----------------------------------------------------------------------------
(* Threads and flags *)

AtMain(from, to) == main = from /\ main' = to
AtThread(from, to) == thread = from /\ thread' = to

\* A step that may go wrong.
May(fault) == IF fault \in Faults THEN {TRUE, FALSE} ELSE {TRUE}

Alive == thread \notin {"none", "ended"}
UsesEvent == Alive /\ thread # "ole uninit"

\* CMessageThread::CMessageThread
Init ==
    /\ main = "start" /\ thread = "none"
    /\ \E made \in May("event") : event = IF made THEN "reset" ELSE "none"
    /\ bStarted = 0 /\ hWnd = "null" /\ queue = << >> /\ quitting = FALSE
    /\ fresh = FALSE /\ marks = {}

-----------------------------------------------------------------------------
(* The main thread *)

\* Start: a failed CreateThread returns NULL, which is not what is tested.
Start ==
    /\ AtMain("start", "loop")
    /\ \E made \in May("thread") : thread' = IF made THEN "ole" ELSE "none"
    /\ UNCHANGED <<window, marks>>

HasEvent == event \in {"set", "reset"}

Sets_Window == HasEvent /\ hWnd # "null"
Sets == HasEvent

\* The user chooses the menu command that calls Signal.
Signal ==
    /\ main = "loop" /\ event' = IF Sets THEN "set" ELSE event
    /\ marks' = marks \cup {"asked"}
                    \cup (IF thread \in {"work", "reset"} THEN {"overlap"} ELSE {})
    /\ UNCHANGED <<main, thread, bStarted, hWnd, queue, quitting, fresh>>

\* The user closes the window, and the message loop ends.
Exit == AtMain("loop", "stop") /\ UNCHANGED <<thread, window, marks>>

\* Stop looks at bStarted; what follows is the end of wWinMain, or of the program.
StopTest(from, post, rest) ==
    /\ AtMain(from, IF bStarted = 1 THEN post ELSE rest)
    /\ marks' = marks \cup (IF bStarted = 0 /\ UsesEvent THEN {"early"} ELSE {})
    /\ UNCHANGED <<thread, window>>

\* PostMessage to the window NULL is a message to the calling thread itself.
Posted == hWnd = "window"
StopPost(from, wait) ==
    /\ AtMain(from, wait)
    /\ IF Posted THEN queue' = Append(queue, "quit") /\ fresh' = TRUE
                 ELSE UNCHANGED <<queue, fresh>>
    /\ marks' = marks \cup (IF hWnd = "null" THEN {"astray"} ELSE {})
    /\ UNCHANGED <<thread, event, bStarted, hWnd, quitting>>

\* WaitForSingleObject without a limit.
Joined_Timeout == TRUE
Joined == thread = "ended"
StopWaited(from, rest) ==
    /\ Joined /\ AtMain(from, rest) /\ UNCHANGED <<thread, window, marks>>

\* The destructor of the only CMessageThread, when the program ends: the event
\* first, then Stop.
CloseEvent ==
    /\ AtMain("exit", "exit stop")
    /\ event' = IF HasEvent THEN "closed" ELSE event
    /\ UNCHANGED <<thread, bStarted, hWnd, queue, quitting, fresh, marks>>

Stop ==
    \/ StopTest("stop", "post", "exit") \/ StopPost("post", "wait")
    \/ StopWaited("wait", "exit")

Destructor ==
    \/ CloseEvent \/ StopTest("exit stop", "exit post", "gone")
    \/ StopPost("exit post", "exit wait") \/ StopWaited("exit wait", "gone")

-----------------------------------------------------------------------------
(* The message thread *)

Running == main # "gone"

OleInit ==
    /\ Running /\ thread = "ole"
    /\ \E good \in May("ole") : thread' = IF good THEN "started" ELSE "ended"
    /\ UNCHANGED <<main, window, marks>>

\* bStarted is set before there is a window.
SetStarted ==
    /\ Running /\ AtThread("started", "window") /\ bStarted' = 1
    /\ UNCHANGED <<main, event, hWnd, queue, quitting, fresh, marks>>

InitInstance ==
    /\ Running /\ AtThread("window", "wait for")
    /\ \E made \in May("window") : hWnd' = IF made THEN "window" ELSE "null"
    /\ UNCHANGED <<main, event, bStarted, queue, quitting, fresh, marks>>

\* The event comes first; without an event the wait fails, and is made again.
WakeForEvent ==
    /\ Running /\ AtThread("wait for", "work")
    /\ event = "set" /\ marks' = marks \ {"asked"}
    /\ UNCHANGED <<main, window>>

Wakes == event = "reset" /\ fresh

WakeForMessage ==
    /\ Running /\ AtThread("wait for", "get") /\ Wakes
    /\ UNCHANGED <<main, window, marks>>

\* FtpPutIntoClipboardWithSource returns (see Desktop for what it does before).
Work == Running /\ AtThread("work", "reset") /\ UNCHANGED <<main, window, marks>>

ResetEvent ==
    /\ Running /\ AtThread("reset", "wait for")
    /\ event' = IF event = "set" THEN "reset" ELSE event
    /\ UNCHANGED <<main, bStarted, hWnd, queue, quitting, fresh, marks>>

AfterMessage_Loop(message) == "wait for"
AfterMessage(message) == IF message = "quit" THEN "destroy" ELSE "wait for"

\* GetMessage has looked at the whole queue, and takes one message.  WM_CLOSE
\* destroys the window: WM_DESTROY calls PostQuitMessage, and what else was posted
\* to the window may be dropped.
GetPosted ==
    /\ Running /\ thread = "get" /\ queue # << >>
    /\ thread' = AfterMessage(Head(queue))
    /\ IF Head(queue) = "close" /\ hWnd = "window"
       THEN /\ hWnd' = "destroyed" /\ quitting' = TRUE /\ fresh' = TRUE
            /\ queue' \in {Tail(queue), << >>}
       ELSE queue' = Tail(queue) /\ fresh' = FALSE /\ UNCHANGED <<hWnd, quitting>>
    /\ UNCHANGED <<main, event, bStarted, marks>>

\* The WM_QUIT of PostQuitMessage comes when no posted message is left.
GetQuit ==
    /\ Running /\ thread = "get" /\ queue = << >> /\ quitting
    /\ thread' = AfterMessage("quit") /\ quitting' = FALSE /\ fresh' = FALSE
    /\ UNCHANGED <<main, event, bStarted, hWnd, queue, marks>>

GetMessage == GetPosted \/ GetQuit

DestroyWindow ==
    /\ Running /\ AtThread("destroy", "clear")
    /\ hWnd' = IF hWnd = "window" THEN "destroyed" ELSE hWnd
    /\ UNCHANGED <<main, event, bStarted, queue, quitting, fresh, marks>>

ClearStarted ==
    /\ Running /\ AtThread("clear", "ole uninit") /\ bStarted' = 0
    /\ UNCHANGED <<main, event, hWnd, queue, quitting, fresh, marks>>

OleUninit ==
    Running /\ AtThread("ole uninit", "ended") /\ UNCHANGED <<main, window, marks>>

\* All it does but the work for a signal.
Apart ==
    \/ OleInit \/ SetStarted \/ InitInstance \/ WakeForMessage \/ GetMessage
    \/ ResetEvent \/ DestroyWindow \/ ClearStarted \/ OleUninit

Thread == Apart \/ WakeForEvent \/ Work

\* Other programs, and the system, send messages to every window.
Broadcast(message) ==
    /\ Running /\ hWnd = "window" /\ Len(queue) < MaxQueue
    /\ queue' = Append(queue, message) /\ fresh' = TRUE
    /\ UNCHANGED <<main, thread, event, bStarted, hWnd, quitting, marks>>

Others ==
    \/ Start \/ Signal \/ Exit \/ Stop \/ Destructor
    \/ \E message \in {"other", "close"} : Broadcast(message)

Next == Others \/ Thread

Spec == Init /\ [][Next]_vars

-----------------------------------------------------------------------------
(* Properties *)

\* bStarted is 1 from when the thread sets it to when it clears it.
Places ==
    /\ main \in {"start", "loop", "stop", "post", "wait",
                 "exit", "exit stop", "exit post", "exit wait", "gone"}
    /\ thread \in {"none", "ole", "started", "window", "wait for", "work", "reset",
                   "get", "destroy", "clear", "ole uninit", "ended"}
    /\ event \in {"set", "reset", "closed", "none"}
    /\ hWnd \in {"null", "window", "destroyed"} /\ quitting \in BOOLEAN /\ fresh \in BOOLEAN
    /\ bStarted = IF thread \in {"window", "wait for", "work", "reset", "get",
                                  "destroy", "clear"} THEN 1 ELSE 0

TypeOK ==
    Places /\ queue \in Seq({"quit", "other", "close"}) /\ marks \subseteq Marks

\* A Signal since the last work began is still to be served, unless it came while
\* there was work and was reset with the event (ResetEvent after the work), or
\* there is no event.
SignalsServed == "asked" \in marks => event = "set" \/ "overlap" \in marks \/ ~HasEvent

\* The thread is stuck in a wait that will not end only when WM_QUIT lies behind
\* a message in a queue it has already looked at.
Buried ==
    thread = "wait for" /\ ~fresh /\ (quitting \/ "quit" \in {queue[i] : i \in DOMAIN queue})

\* When the user has closed the window the program ends, unless Stop was called
\* before the thread had started or had a window, or the thread does not see its
\* WM_QUIT: it is behind another message, or the wait fails for want of an event.
ProgramEnds ==
    (main = "stop") ~> (main = "gone" \/ {"early", "astray"} \cap marks # {} \/ Buried \/ event = "none")

\* The event is closed after the thread has left its loop, unless Stop found that
\* the thread had not started: bStarted is set by the thread itself.
EventOutlivesThread == TypeOK /\ (event = "closed" => ~UsesEvent \/ "early" \in marks)

=============================================================================
