-------------------------------- MODULE Desktop --------------------------------
(***************************************************************************)
(* The window program as a whole: the message thread (MessageThread) calls *)
(* FtpPutIntoClipboardWithSource (Clipboard) for a signal, and the calls   *)
(* of the shell that this makes interleave with the main thread, which     *)
(* signals again, stops the thread, or ends the program under it.          *)
(***************************************************************************)
EXTENDS MessageThread, Clipboard

DesktopInit == Init /\ Idle

\* The body of the loop for the event, from the wake to the return of the call.
Serve ==
    \/ WakeForEvent /\ Enter
    \/ Running /\ thread = "work" /\ Copy /\ UNCHANGED vars
    \/ Work /\ Return

DesktopThread == Serve \/ (Apart /\ UNCHANGED clip)

DesktopNext == DesktopThread \/ (Others /\ UNCHANGED clip)

DesktopVars == <<vars, clip>>

DesktopSpec == DesktopInit /\ [][DesktopNext]_DesktopVars

\* The system runs both threads; the user need not do anything.
MainWorks == Start \/ Stop \/ Destructor

DesktopFairSpec ==
    /\ DesktopSpec
    /\ WF_DesktopVars(MainWorks /\ UNCHANGED clip) /\ WF_DesktopVars(DesktopThread)

-----------------------------------------------------------------------------
(* Properties *)

\* Whatever call of the shell failed, what the thread got is released before it
\* waits again or ends.  The program ends with something held only when Stop had
\* not waited for the thread, which it found not started.
NothingHeld ==
    /\ held # {} => thread = "work"
    /\ main = "gone" /\ held # {} => "early" \in marks
=============================================================================
