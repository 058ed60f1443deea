------------------------------ MODULE LineReader ------------------------------
(***************************************************************************)
(* The proto thread between two commands: handle_proto (ftp_proto.c),      *)
(* readline, recv_peek and readn (sysutil.c), the trimming and splitting   *)
(* of strutil.c.  Bytes arrive in any portions.  The client closes, the    *)
(* connection breaks with an error, or with WSAECONNABORTED, upon which    *)
(* the three functions try again.  The handlers are FtpSession; here only  *)
(* QUIT does anything.                                                     *)
(***************************************************************************)
EXTENDS Naturals, Sequences, FiniteSets, SequencesExt

CONSTANTS
    Letters,
    Upper(_),
    QuitVerb,
    MaxSize,    \* MAX_COMMAND, the size of session->command
    MaxSent     \* bound on the bytes a client sends

ASSUME LineAssumption ==
    /\ MaxSize \in Nat \ {0, 1} /\ MaxSent \in Nat
    /\ {"space", "cr", "lf"} \cap Letters = {}
    /\ \A c \in Letters : Upper(c) \in Letters
    /\ \A c \in {"space", "cr", "lf"} : Upper(c) = c

Bytes == Letters \cup {"space", "cr", "lf"}
Room == MaxSize - 1

VARIABLES
    wire,       \* the bytes that have arrived since the connection was made
    conn,       \* "open", "closed" by the client, "reset" or "aborted"
    quit,       \* should_exit()
    pc,         \* "test", "peek", "take", "ended"
    taken,      \* the bytes of wire that were received
    line,       \* those of them in session->command
    want,       \* what readn is asked for
    last        \* the last command

reader == <<pc, taken, line, want, last>>
vars == <<wire, conn, quit, reader>>

Nothing == [verb |-> << >>, args |-> << >>]
Min2(a, b) == IF a < b THEN a ELSE b

-----------------------------------------------------------------------------
(* strutil.c *)

\* str_trim_crlf goes back over the end, to the last byte that is neither; on a
\* line of nothing else it goes on below the buffer, until it meets another byte.
Kept_OneLf(s) == IF s # << >> /\ Last(s) = "lf" THEN Len(s) - 1 ELSE Len(s)
Kept(s) == SelectLastInSeq(s, LAMBDA c : c \notin {"cr", "lf"})

\* str_split at the first space, str_upper of the left part.
Parse(s) ==
    LET text == SubSeq(s, 1, Kept(s))
        spaces == {i \in DOMAIN text : text[i] = "space"}
        first == CHOOSE i \in spaces : \A j \in spaces : i <= j
        left == IF spaces = {} THEN text ELSE SubSeq(text, 1, first - 1)
    IN [verb |-> [i \in DOMAIN left |-> Upper(left[i])],
        args |-> IF spaces = {} THEN << >> ELSE SubSeq(text, first + 1, Len(text))]

-----------------------------------------------------------------------------
Init ==
    /\ wire = << >> /\ conn = "open" /\ quit = FALSE
    /\ pc = "test" /\ taken = 0 /\ line = << >> /\ want = 0
    /\ last = Nothing

Goto(place) == pc' = place

(* The client, the network, and the server being stopped *)

Arrive(b) ==
    /\ conn = "open" /\ Len(wire) < MaxSent
    /\ wire' = Append(wire, b)
    /\ UNCHANGED <<conn, quit, reader>>

Disconnect(how) ==
    /\ conn = "open" /\ conn' = how
    /\ UNCHANGED <<wire, quit, reader>>

Stop == ~quit /\ quit' = TRUE /\ UNCHANGED <<wire, conn, reader>>

-----------------------------------------------------------------------------
(* The thread *)

Buffered == Len(wire) - taken
Readable == conn \in {"open", "closed"}

Tested == IF quit THEN "ended" ELSE "peek"

Test ==
    /\ pc = "test" /\ Goto(Tested)
    /\ line' = << >>
    /\ UNCHANGED <<wire, conn, quit, taken, want, last>>

\* What readline asks readn for, having seen n bytes: up to the line feed, if
\* there is one.
Asked_All(n) == n
Asked(n) ==
    LET feeds == {i \in 1 .. n : wire[taken + i] = "lf"}
    IN IF feeds = {} THEN n ELSE CHOOSE i \in feeds : \A j \in feeds : i <= j

\* recv with MSG_PEEK sees some of what is there.
Fill == Room - Len(line)

Peek ==
    /\ pc = "peek" /\ Readable /\ Buffered > 0
    /\ \E n \in 1 .. Min2(Buffered, Fill) : want' = Asked(n)
    /\ Goto("take")
    /\ UNCHANGED <<wire, conn, quit, taken, line, last>>

\* ret <= 0
PeekEnds_Error == conn = "reset"
PeekEnds == conn = "reset" \/ (conn = "closed" /\ Buffered = 0)

PeekFails ==
    /\ pc = "peek" /\ PeekEnds /\ Goto("ended")
    /\ UNCHANGED <<wire, conn, quit, taken, line, want, last>>

\* recv fails with WSAECONNABORTED, and is called again.
Retry ==
    /\ pc \in {"peek", "take"} /\ conn = "aborted"
    /\ UNCHANGED vars

Got == line \o SubSeq(wire, taken + 1, taken + want)
Complete(s) == Last(s) = "lf" \/ Len(s) = Room

\* do_command_map; it turns what QUIT returns into a failure, which ends the loop.
After(c) == IF c.verb = QuitVerb THEN "ended" ELSE "test"

\* readn of what was seen.
Take ==
    /\ pc = "take" /\ Readable
    /\ taken' = taken + want /\ want' = 0 /\ line' = Got
    /\ IF Complete(Got)
       THEN last' = Parse(Got) /\ Goto(After(Parse(Got)))
       ELSE Goto("peek") /\ UNCHANGED last
    /\ UNCHANGED <<wire, conn, quit>>

\* The connection broke after the peek, and what was buffered is gone.
TakeFails ==
    /\ pc = "take" /\ conn = "reset" /\ Goto("ended")
    /\ UNCHANGED <<wire, conn, quit, taken, line, want, last>>

Thread == Test \/ Peek \/ PeekFails \/ Retry \/ Take \/ TakeFails

Next ==
    \/ \E b \in Bytes : Arrive(b)
    \/ \E how \in {"closed", "reset", "aborted"} : Disconnect(how)
    \/ Stop \/ Thread

Spec == Init /\ [][Next]_vars

\* The operating system runs the thread.
FairSpec == Spec /\ WF_vars(Thread)

-----------------------------------------------------------------------------
(* Properties *)

TypeOK ==
    /\ wire \in Seq(Bytes) /\ conn \in {"open", "closed", "reset", "aborted"}
    /\ quit \in BOOLEAN /\ pc \in {"test", "peek", "take", "ended"}
    /\ taken \in 0 .. Len(wire) /\ want \in 0 .. Room
    /\ line \in Seq(Bytes) /\ Len(line) <= Room
    /\ last.verb \in Seq(Bytes) /\ last.args \in Seq(Bytes)

\* Between two calls of recv the buffer holds what was received last, without a
\* line feed and with room for a byte; and readn is asked for bytes that were
\* seen, of which at most the last is a line feed.
Reading ==
    /\ TypeOK
    /\ pc \in {"peek", "take"} =>
         /\ line = SubSeq(wire, taken - Len(line) + 1, taken) /\ Len(line) < Room
         /\ \A i \in 1 .. Len(line) : line[i] # "lf"
    /\ pc = "take" => /\ want \in 1 .. Min2(Buffered, Room - Len(line))
                      /\ \A i \in 1 .. want - 1 : wire[taken + i] # "lf"

\* However the bytes arrive, and wherever recv cuts them, the commands are those
\* of the stream: none is lost, made up, joined or cut, but for lines longer than
\* the buffer.
Stream == INSTANCE LineStream WITH
    Room <- Room,
    cut <- taken - (IF line # << >> /\ Complete(line) THEN 0 ELSE Len(line))
ImplementsStream == Stream!Spec

\* A thread whose client closed, or whose connection was reset, comes to its end;
\* one whose connection was aborted need not.
EndsWithClient == (conn \in {"closed", "reset"}) ~> (pc = "ended")
=============================================================================
