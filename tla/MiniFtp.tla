------------------------------ MODULE MiniFtp ------------------------------
(***************************************************************************)
(* CMiniFtp, which answers the callbacks of the FTP server with what the   *)
(* host program fetches (CMiniFtp.cpp).  Every proto thread that handles   *)
(* LIST or RETR calls one of DoGetList, DoGetSize and DoDownloadData; each *)
(* sends a query to the host, waits for the one event and takes what the   *)
(* members of the one object hold then.  No lock guards the object, and an *)
(* answer does not say which query it is for.                              *)
(*                                                                         *)
(* Queries are numbered, and a datum is the number of the query it answers *)
(* (0 for none).  A number also names the memory its call allocates.       *)
(***************************************************************************)
EXTENDS Integers, FiniteSets

CONSTANTS
    Callers,    \* the proto threads
    MaxQueries, \* bound on the calls
    Sizes       \* the block sizes a caller asks for

ASSUME MiniFtpAssumption == MaxQueries \in Nat /\ Sizes \subseteq Nat \ {0}

VARIABLES
    bAsyncMode,
    m_ftpcallback,  \* has the host given its callback (SetFtpCallback)?
    pc, my,         \* where each caller is, and its query
    kind,           \* what each query asks for
    list,           \* the string trans_list_common holds (cp)
    next,           \* the number of the next query
    queries,        \* the queries the host has not answered
    stored,         \* the answers stored and not yet signalled
    hEvent,         \* the auto-reset event
    rfs, info_list, \* the answers
    buffer, blocksize,
    live,           \* the blocks and strings on the heap
    size, content,  \* of each block: its size, the answer it holds
    timedout,       \* history: queries whose caller gave up
    overlapped,     \* history: two callers were in a call at a time
    wrong,          \* history: queries whose caller took something else
    harm            \* history: freed memory was used, or a block overrun

callVars == <<pc, my, kind, list, next>>
hostVars == <<queries, stored, hEvent>>
dataVars == <<rfs, info_list, buffer, blocksize>>
heapVars == <<live, size, content>>
history  == <<timedout, overlapped, wrong, harm>>
modes    == <<bAsyncMode, m_ftpcallback>>
vars == <<modes, callVars, hostVars, dataVars, heapVars, history>>

Ids == 1..MaxQueries

(* An operator whose name ends in an underscore and a word is the same code  *)
(* with the slip the word names.                                            *)

\* The event is reset by the wait that it ends.
AfterWait_Manual == TRUE
AfterWait == FALSE

\* What free(this->buffer) leaves on the heap.
Freed_Kept(mem, b) == mem
Freed(mem, b) == mem \ {b}

\* The size DoDownloadData keeps.
BlockSize(n) == n

\* The test of OnReceivedData.
Fits(length) == length <= blocksize

\* May the host's answer be signalled before it is stored?
Signals_Early(id) == id \in queries \cup stored
Signals(id) == id \in stored

Init ==
    /\ bAsyncMode \in BOOLEAN /\ m_ftpcallback \in BOOLEAN
    /\ pc = [c \in Callers |-> "idle"] /\ my = [c \in Callers |-> 0]
    /\ kind = [i \in 0..MaxQueries |-> "none"] /\ list = [c \in Callers |-> 0]
    /\ next = 1 /\ queries = {} /\ stored = {} /\ hEvent = FALSE
    /\ rfs = 0 /\ info_list = 0 /\ buffer = 0 /\ blocksize = 0
    /\ live = {} /\ size = [i \in 0..MaxQueries |-> 0]
    /\ content = [i \in 0..MaxQueries |-> 0]
    /\ timedout = {} /\ overlapped = FALSE /\ wrong = {} /\ harm = FALSE

-----------------------------------------------------------------------------
(* The three callbacks *)

Goto(c, place) == pc' = [pc EXCEPT ![c] = place]

\* The query call passes the query on to the host's callback, if there is one;
\* without it the call returns 0, which no caller looks at.
Passed(id) == IF m_ftpcallback THEN {id} ELSE {}

\* A call starts.
Enter(c, what, place) ==
    /\ pc[c] = "idle" /\ Goto(c, place)
    /\ next <= MaxQueries /\ next' = next + 1
    /\ my' = [my EXCEPT ![c] = next] /\ kind' = [kind EXCEPT ![next] = what]
    /\ overlapped' = (overlapped \/ \E d \in Callers : pc[d] # "idle")
    /\ UNCHANGED <<modes, list, stored, hEvent, info_list, buffer, heapVars,
                   timedout, wrong, harm>>

\* SendGetListInfoQuery, SendGetFileInfoQuery
AskInfo(c, what) ==
    /\ Enter(c, what, "query") /\ queries' = queries \cup Passed(next)
    /\ UNCHANGED <<rfs, blocksize>>

\* DoDownloadData up to malloc: it clears rfs, whoever waits for it.
BeginData(c, n) ==
    /\ Enter(c, "data", "alloc") /\ rfs' = 0 /\ blocksize' = BlockSize(n)
    /\ UNCHANGED queries

\* malloc of this->blocksize bytes, SendGetDataInfoQuery.
AllocAndAsk(c) ==
    /\ pc[c] = "alloc" /\ Goto(c, "query")
    /\ buffer' = my[c] /\ live' = live \cup {my[c]}
    /\ size' = [size EXCEPT ![my[c]] = blocksize]
    /\ queries' = queries \cup Passed(my[c])
    /\ UNCHANGED <<modes, my, kind, list, next, stored, hEvent, rfs, info_list,
                   blocksize, content, history>>

\* The query call returns: at once when the host answers later; in the synchronous
\* mode with the answer stored, or with none when there was nobody to ask.
QueryReturns(c) ==
    /\ pc[c] = "query"
    /\ \/ bAsyncMode /\ Goto(c, "wait")
       \/ ~bAsyncMode /\ my[c] \notin queries /\ Goto(c, "take")
    /\ UNCHANGED <<modes, my, kind, list, next, hostVars, dataVars, heapVars,
                   history>>

\* WaitForSingleObject
Wake(c) ==
    /\ pc[c] = "wait" /\ hEvent /\ hEvent' = AfterWait /\ Goto(c, "take")
    /\ UNCHANGED <<modes, my, kind, list, next, queries, stored, dataVars,
                   heapVars, history>>

\* The call fails; a block it allocated stays as it is.
TimeOut(c) ==
    /\ pc[c] = "wait" /\ ~hEvent /\ Goto(c, "idle")
    /\ timedout' = timedout \cup {my[c]}
    /\ UNCHANGED <<modes, my, kind, list, next, hostVars, dataVars, heapVars,
                   overlapped, wrong, harm>>

\* What a caller takes; it is wrong when it answers another query.
Takes(c, datum, ok) ==
    /\ wrong' = IF datum = my[c] THEN wrong ELSE wrong \cup {my[c]}
    /\ harm' = (harm \/ ~ok)
    /\ UNCHANGED <<modes, my, kind, next, hostVars, dataVars, heapVars, timedout,
                   overlapped>>

TakeSize(c) ==
    /\ pc[c] = "take" /\ kind[my[c]] = "size" /\ Goto(c, "idle") /\ Takes(c, rfs, TRUE)
    /\ UNCHANGED list

\* trans_list_common writes the string, whatever it holds now.
TakeList(c) ==
    /\ pc[c] = "take" /\ kind[my[c]] = "list" /\ Goto(c, "free")
    /\ Takes(c, info_list, info_list = 0 \/ info_list \in live)
    /\ list' = [list EXCEPT ![c] = info_list]

\* DoDownloadData sends this->blocksize bytes of this->buffer.
TakeData(c) ==
    /\ pc[c] = "take" /\ kind[my[c]] = "data" /\ Goto(c, "free")
    /\ Takes(c, content[buffer], buffer \in live /\ blocksize <= size[buffer])
    /\ UNCHANGED list

\* free(cp) in trans_list_common and free(this->buffer) in DoDownloadData.
Free(c) ==
    /\ pc[c] = "free" /\ Goto(c, "idle")
    /\ LET mem == IF kind[my[c]] = "list" THEN list[c] ELSE buffer
       IN  /\ live' = Freed(live, mem) /\ harm' = (harm \/ mem \notin live \cup {0})
    /\ UNCHANGED <<modes, my, kind, list, next, hostVars, dataVars, size, content,
                   timedout, overlapped, wrong>>

-----------------------------------------------------------------------------
(* The host answers queries in any order, and some never: OnReceivedListInfo, *)
(* OnReceivedFileInfo and OnReceivedData, each of which stores and signals.   *)

Stores(id, what) ==
    /\ id \in queries /\ kind[id] = what /\ queries' = queries \ {id}
    /\ stored' = IF bAsyncMode THEN stored \cup {id} ELSE stored
    /\ UNCHANGED <<modes, callVars, hEvent, buffer, blocksize, size, timedout,
                   overlapped, wrong>>

\* It keeps a copy of the list, and forgets the one it had.
OnReceivedListInfo(id) ==
    /\ Stores(id, "list") /\ info_list' = id /\ live' = live \cup {id}
    /\ UNCHANGED <<rfs, content, harm>>

OnReceivedFileInfo(id) ==
    /\ Stores(id, "size") /\ rfs' = id
    /\ UNCHANGED <<info_list, live, content, harm>>

\* Data longer than blocksize is not copied; it is signalled all the same.
OnReceivedData(id) ==
    /\ Stores(id, "data")
    /\ IF Fits(size[id])
       THEN /\ harm' = (harm \/ buffer \notin live \/ size[id] > size[buffer])
            /\ content' = [content EXCEPT ![buffer] = id]
       ELSE UNCHANGED <<harm, content>>
    /\ UNCHANGED <<rfs, info_list, live>>

\* SetEvent
SignalAnswer(id) ==
    /\ Signals(id) /\ stored' = stored \ {id} /\ hEvent' = TRUE
    /\ UNCHANGED <<modes, callVars, queries, dataVars, heapVars, history>>

-----------------------------------------------------------------------------
Call(c) == \/ \E what \in {"list", "size"} : AskInfo(c, what)
           \/ \E n \in Sizes : BeginData(c, n)

Step(c) == \/ AllocAndAsk(c) \/ QueryReturns(c) \/ Wake(c) \/ TimeOut(c)
           \/ TakeSize(c) \/ TakeList(c) \/ TakeData(c) \/ Free(c)

Host(id) == \/ OnReceivedListInfo(id) \/ OnReceivedFileInfo(id) \/ OnReceivedData(id)
            \/ SignalAnswer(id)

Next == \/ \E c \in Callers : Call(c) \/ Step(c)
        \/ \E id \in Ids : Host(id)

Spec == Init /\ [][Next]_vars

-----------------------------------------------------------------------------
(* Properties *)

TypeOK ==
    /\ bAsyncMode \in BOOLEAN /\ m_ftpcallback \in BOOLEAN
    /\ pc \in [Callers -> {"idle", "alloc", "query", "wait", "take", "free"}]
    /\ my \in [Callers -> 0..MaxQueries] /\ list \in [Callers -> 0..MaxQueries]
    /\ kind \in [0..MaxQueries -> {"none", "list", "size", "data"}]
    /\ next \in 1..MaxQueries + 1
    /\ queries \subseteq Ids /\ stored \subseteq Ids /\ hEvent \in BOOLEAN
    /\ rfs \in 0..MaxQueries /\ info_list \in 0..MaxQueries
    /\ buffer \in 0..MaxQueries /\ blocksize \in Sizes \cup {0}
    /\ live \subseteq Ids /\ size \in [0..MaxQueries -> Sizes \cup {0}]
    /\ content \in [0..MaxQueries -> 0..MaxQueries]
    /\ timedout \subseteq Ids /\ wrong \subseteq Ids
    /\ overlapped \in BOOLEAN /\ harm \in BOOLEAN

\* An answer came in for a call that had given up.
LateAnswer == m_ftpcallback /\ timedout \ queries # {}

\* In the synchronous mode nobody waits, and without a callback nobody answers.
Unasked == ~bAsyncMode /\ ~m_ftpcallback

\* A caller takes the answer to its own query, as long as calls do not overlap,
\* no answer comes after its call timed out, and there is a host to ask or a
\* wait that can fail.
AnswersMatch == wrong # {} => overlapped \/ LateAnswer \/ Unasked

\* Without overlap and late answers freed memory is not used and no block is
\* overrun, and all variables keep their types; with nobody to ask as well.
HeapSafe == TypeOK /\ (harm => overlapped \/ LateAnswer)

\* Without overlap a block outlives its call only when that call timed out,
\* even if late answers mislead the calls after it.
BlocksFreed ==
    ~overlapped =>
        \A id \in live : kind[id] = "data" =>
            id \in timedout \/ \E c \in Callers : my[c] = id /\ pc[c] # "idle"

\* The event is not left set for the next call: if it is set, the one caller
\* is in a call whose answer was signalled.
EventBalanced ==
    hEvent => \/ overlapped \/ LateAnswer
              \/ \E c \in Callers : /\ pc[c] \in {"query", "wait"}
                                    /\ my[c] \notin queries \cup stored
=============================================================================
