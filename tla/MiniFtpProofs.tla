---------------------------- MODULE MiniFtpProofs ----------------------------
(***************************************************************************)
(* The host program broker, for any number of callers, queries and block   *)
(* sizes: a caller takes the answer to its own query and touches no freed  *)
(* memory as long as calls do not overlap and no answer comes late.        *)
(***************************************************************************)
EXTENDS MiniFtp, TLAPS

-----------------------------------------------------------------------------
(* Queries and calls *)

Active(c) == pc[c] # "idle"

\* Every call has a number of its own, which it keeps until it ends; it has
\* sent no query before its block is there, and given up on none.
Numbered ==
    /\ queries \cup stored \cup timedout \cup live \subseteq 1..(next - 1)
    /\ queries \cap stored = {}
    /\ \A c \in Callers : Active(c) => my[c] \in 1..(next - 1) \ timedout
    /\ \A c, d \in Callers : Active(c) /\ Active(d) /\ my[c] = my[d] => c = d
    /\ \A c \in Callers :
         pc[c] = "alloc" => kind[my[c]] = "data" /\ my[c] \notin queries \cup stored
    /\ \A c \in Callers : pc[c] = "free" => kind[my[c]] \in {"list", "data"}

Base == TypeOK /\ Numbered

-----------------------------------------------------------------------------
(* Types *)

Places == {"idle", "alloc", "query", "wait", "take", "free"}

\* Where a step leaves the callers.
LEMMA Moved ==
    ASSUME TypeOK, NEW c \in Callers, NEW place, Goto(c, place)
    PROVE  \A d \in Callers : pc'[d] = IF d = c THEN place ELSE pc[d]
<1>1. pc = [d \in Callers |-> pc[d]] BY DEF TypeOK
<1> QED  BY ONLY <1>1, Goto(c, place) DEF Goto

\* The broker begins with its types and with no query numbered.
LEMMA BaseInit == Init => Base
<1> SUFFICES ASSUME Init PROVE Base OBVIOUS
<1>1. 0 \in 0..MaxQueries /\ 1 \in 1..MaxQueries + 1 BY MiniFtpAssumption
<1> QED  BY <1>1 DEF Init, Base, TypeOK, Numbered, Active

\* Every step keeps the types.
LEMMA TypesStep == ASSUME Base, [Next]_vars PROVE TypeOK'
<1> USE DEF Base, TypeOK, Goto, modes, Passed
<1>n. 0 \in 0..MaxQueries /\ Ids \subseteq 0..MaxQueries BY MiniFtpAssumption DEF Ids
<1>1. CASE UNCHANGED vars
  BY <1>1 DEF vars, modes, callVars, hostVars, dataVars, heapVars, history
<1>2. ASSUME NEW c \in Callers, Call(c) PROVE TypeOK'
  <2>1. PICK what \in {"list", "size", "data"}, place \in {"query", "alloc"} : Enter(c, what, place)
    BY <1>2 DEF Call, AskInfo, BeginData
  <2>2. next \in Ids /\ next' \in 1..MaxQueries + 1
    BY <2>1, MiniFtpAssumption DEF Enter, Ids
  <2>3. queries' \subseteq Ids /\ rfs' \in 0..MaxQueries /\ blocksize' \in Sizes \cup {0}
    BY <1>2, <1>n, <2>2 DEF Call, AskInfo, BeginData, BlockSize
  <2>4. pc' \in [Callers -> Places] /\ my' \in [Callers -> 0..MaxQueries]
    BY <1>n, <2>1, <2>2 DEF Enter, Places
  <2>5. kind' \in [0..MaxQueries -> {"none", "list", "size", "data"}] BY <2>1 DEF Enter
  <2> QED  BY <2>1, <2>2, <2>3, <2>4, <2>5 DEF Enter, heapVars, Places
<1>3. ASSUME NEW c \in Callers, Step(c) PROVE TypeOK'
  <2>1. PICK place \in Places : Goto(c, place)
    BY <1>3 DEF Step, AllocAndAsk, QueryReturns, Wake, TimeOut, TakeSize, TakeList, TakeData, Free, Places
  <2>2. pc' \in [Callers -> Places] BY <2>1 DEF Places
  <2>3. my[c] \in 0..MaxQueries /\ (Active(c) => my[c] \in Ids)
    <3>1. Active(c) => my[c] \in 1..(next - 1) BY DEF Numbered
    <3> QED  BY <3>1, MiniFtpAssumption DEF Ids
  <2>4. CASE AllocAndAsk(c)
    <3>1. my[c] \in Ids BY <2>3, <2>4 DEF AllocAndAsk, Active
    <3> QED  BY <2>2, <2>3, <2>4, <3>1 DEF AllocAndAsk, history, Places
  <2>5. CASE QueryReturns(c)
    BY <2>2, <2>5 DEF QueryReturns, hostVars, dataVars, heapVars, history, Places
  <2>6. CASE Wake(c)
    BY <2>2, <2>6 DEF Wake, AfterWait, dataVars, heapVars, history, Places
  <2>7. CASE TimeOut(c)
    <3>1. timedout' \subseteq Ids BY <2>3, <2>7 DEF TimeOut, Active
    <3> QED  BY <2>2, <2>7, <3>1 DEF TimeOut, hostVars, dataVars, heapVars, Places
  <2>8. ASSUME NEW datum, NEW ok, Takes(c, datum, ok), pc[c] = "take"
        PROVE  wrong' \subseteq Ids /\ harm' \in BOOLEAN
    BY <2>3, <2>8 DEF Takes, Active
  <2>9. CASE TakeSize(c) \/ TakeList(c) \/ TakeData(c)
    <3>1. wrong' \subseteq Ids /\ harm' \in BOOLEAN
      BY <2>8, <2>9 DEF TakeSize, TakeList, TakeData
    <3>2. list' \in [Callers -> 0..MaxQueries]
      BY <2>9 DEF TakeSize, TakeList, TakeData
    <3> QED
      BY <2>2, <2>9, <3>1, <3>2
         DEF TakeSize, TakeList, TakeData, Takes, hostVars, dataVars, heapVars, Places
  <2>10. CASE Free(c) BY <2>2, <2>10 DEF Free, Freed, hostVars, dataVars, Places
  <2> QED  BY <1>3, <2>4, <2>5, <2>6, <2>7, <2>9, <2>10 DEF Step
<1>4. ASSUME NEW id \in Ids, Host(id) PROVE TypeOK'
  <2>1. CASE OnReceivedListInfo(id)
    BY <1>n, <2>1 DEF OnReceivedListInfo, Stores, callVars, heapVars, history
  <2>2. CASE OnReceivedFileInfo(id)
    BY <1>n, <2>2 DEF OnReceivedFileInfo, Stores, callVars, heapVars, history
  <2>3. CASE OnReceivedData(id)
    BY <1>n, <2>3 DEF OnReceivedData, Stores, callVars, heapVars, history
  <2>4. CASE SignalAnswer(id)
    BY <1>n, <2>4 DEF SignalAnswer, callVars, dataVars, heapVars, history
  <2> QED  BY <1>4, <2>1, <2>2, <2>3, <2>4 DEF Host
<1> QED  BY <1>1, <1>2, <1>3, <1>4 DEF Next


\* Every step keeps the numbers of queries apart.
LEMMA NumberedStep == ASSUME Base, [Next]_vars PROVE Numbered'
<1> USE DEF Numbered, Active, Passed
<1>t. /\ next \in Nat /\ 1 <= next /\ next <= MaxQueries + 1 /\ MaxQueries \in Nat
      /\ my = [d \in Callers |-> my[d]] /\ kind = [i \in 0..MaxQueries |-> kind[i]]
  BY MiniFtpAssumption DEF Base, TypeOK
<1>m. ASSUME NEW c \in Callers, NEW place, Goto(c, place)
      PROVE  \A d \in Callers : pc'[d] = IF d = c THEN place ELSE pc[d]
  BY <1>m, Moved DEF Base
<1>n. Numbered BY DEF Base
<1>1. CASE UNCHANGED vars BY <1>n, <1>1 DEF vars, callVars, hostVars, heapVars, history
<1>2. ASSUME NEW c \in Callers, Call(c) PROVE Numbered'
  <2>1. PICK what \in {"list", "size", "data"}, place \in {"query", "alloc"} :
          /\ Enter(c, what, place) /\ (place = "alloc" => what = "data" /\ queries' = queries)
          /\ queries' \subseteq queries \cup {next}
    BY <1>2 DEF Call, AskInfo, BeginData
  <2>2. \A d \in Callers : pc'[d] = IF d = c THEN place ELSE pc[d] BY <1>m, <2>1 DEF Enter
  <2>3. \A d \in Callers : my'[d] = IF d = c THEN next ELSE my[d] BY <1>t, <2>1 DEF Enter
  <2>4. /\ next' = next + 1 /\ UNCHANGED <<stored, timedout, live>>
        /\ kind' = [kind EXCEPT ![next] = what] /\ next \in 0..MaxQueries
    BY <1>t, <2>1 DEF Enter, heapVars
  <2>5. \A i \in 1..(next - 1) : kind'[i] = kind[i] /\ i # next BY <1>t, <2>4
  <2>6. kind'[next] = what BY <1>t, <2>4
  <2>7. queries' \cup stored' \cup timedout' \cup live' \subseteq 1..(next' - 1)
    <3>1. queries \cup stored \cup timedout \cup live \subseteq 1..(next' - 1) /\ next \in 1..(next' - 1)
      BY <1>n, <1>t, <2>4
    <3> QED  BY <2>1, <2>4, <3>1
  <2>8. queries' \cap stored' = {}
    <3>1. next \notin stored BY <1>n, <2>5
    <3> QED  BY <1>n, <2>1, <2>4, <3>1
  <2>9. ASSUME NEW d \in Callers, Active(d)' PROVE my'[d] \in 1..(next' - 1) \ timedout'
    <3>1. next \in 1..(next' - 1) /\ next \notin timedout BY <1>n, <1>t, <2>4
    <3>2. ASSUME d # c PROVE my[d] \in 1..(next' - 1) \ timedout
      BY <1>n, <1>t, <2>2, <2>4, <2>9, <3>2
    <3> QED  BY <2>3, <2>4, <3>1, <3>2
  <2>10. ASSUME NEW d \in Callers, NEW e \in Callers, Active(d)', Active(e)', my'[d] = my'[e]
         PROVE  d = e
    BY <1>n, <2>2, <2>3, <2>5, <2>10
  <2>11. ASSUME NEW d \in Callers, pc'[d] = "alloc"
         PROVE  kind'[my'[d]] = "data" /\ my'[d] \notin queries' \cup stored'
    BY <1>n, <2>1, <2>2, <2>3, <2>4, <2>5, <2>6, <2>11
  <2>12. ASSUME NEW d \in Callers, pc'[d] = "free" PROVE kind'[my'[d]] \in {"list", "data"}
    BY <1>n, <2>2, <2>3, <2>5, <2>12
  <2> QED  BY <2>7, <2>8, <2>9, <2>10, <2>11, <2>12
<1>3. ASSUME NEW c \in Callers, Step(c) PROVE Numbered'
  <2>1. UNCHANGED <<my, kind, next, stored>> /\ pc[c] # "idle"
    BY <1>3 DEF Step, AllocAndAsk, QueryReturns, Wake, TimeOut, TakeSize, TakeList, TakeData, Takes, Free,
                hostVars
  <2>2. PICK place \in Places \ {"alloc"} :
          /\ Goto(c, place) /\ (place = "free" => kind[my[c]] \in {"list", "data"})
          /\ timedout' = timedout \/ (timedout' = timedout \cup {my[c]} /\ place = "idle")
    <3> DEFINE Quick(place) == Goto(c, place) /\ timedout' = timedout
    <3>1. \/ Quick("query") \/ Quick("wait") \/ Quick("take") \/ Quick("idle")
          \/ Quick("free") /\ kind[my[c]] \in {"list", "data"}
          \/ Goto(c, "idle") /\ timedout' = timedout \cup {my[c]}
      BY <1>3 DEF Step, AllocAndAsk, QueryReturns, Wake, TimeOut, TakeSize, TakeList, TakeData, Takes,
                  Free, history
    <3> QED  BY <3>1 DEF Places
  <2>3. \A d \in Callers : pc'[d] = IF d = c THEN place ELSE pc[d] BY <1>m, <2>2
  <2>4. \A d \in Callers : pc'[d] = "alloc" => pc[d] = "alloc" /\ d # c BY <2>2, <2>3
  <2>5. \/ queries' = queries
        \/ queries' \subseteq queries \cup {my[c]} /\ pc[c] = "alloc"
    BY <1>3 DEF Step, AllocAndAsk, QueryReturns, Wake, TimeOut, TakeSize, TakeList, TakeData, Takes, Free,
                hostVars
  <2>6. timedout' = timedout \/ (timedout' = timedout \cup {my[c]} /\ pc'[c] = "idle")
    BY <2>2, <2>3
  <2>7. live' \subseteq live \cup {my[c]}
    BY <1>3 DEF Step, AllocAndAsk, QueryReturns, Wake, TimeOut, TakeSize, TakeList, TakeData, Takes, Free,
                Freed, heapVars
  <2>8. pc'[c] = "free" => kind[my[c]] \in {"list", "data"} BY <2>2, <2>3
  <2>9. my[c] \in 1..(next - 1) BY <1>n, <2>1
  <2>10. queries' \cup stored' \cup timedout' \cup live' \subseteq 1..(next' - 1)
    BY <1>n, <2>1, <2>5, <2>6, <2>7, <2>9
  <2>11. queries' \cap stored' = {} BY <1>n, <2>1, <2>5
  <2>12. \A d, e \in Callers : Active(d)' /\ Active(e)' /\ my'[d] = my'[e] => d = e
    BY <1>n, <2>1, <2>3
  <2>13. ASSUME NEW d \in Callers, Active(d)' PROVE my'[d] \in 1..(next' - 1) \ timedout'
    BY <1>n, <2>1, <2>3, <2>6, <2>13
  <2>14. ASSUME NEW d \in Callers, pc'[d] = "alloc"
         PROVE  kind'[my'[d]] = "data" /\ my'[d] \notin queries' \cup stored'
    BY <1>n, <2>1, <2>4, <2>5, <2>14
  <2>15. ASSUME NEW d \in Callers, pc'[d] = "free" PROVE kind'[my'[d]] \in {"list", "data"}
    BY <1>n, <2>1, <2>3, <2>8, <2>15
  <2> QED  BY <2>10, <2>11, <2>12, <2>13, <2>14, <2>15
<1>4. ASSUME NEW id \in Ids, Host(id) PROVE Numbered'
  <2>1. UNCHANGED <<pc, my, kind, next, timedout>>
    BY <1>4 DEF Host, OnReceivedListInfo, OnReceivedFileInfo, OnReceivedData, Stores, SignalAnswer,
                callVars, history
  <2>2. \/ queries' = queries \ {id} /\ id \in queries /\ stored' \subseteq stored \cup {id}
                /\ live' \subseteq live \cup {id}
        \/ queries' = queries /\ stored' \subseteq stored /\ live' = live
    BY <1>4 DEF Host, OnReceivedListInfo, OnReceivedFileInfo, OnReceivedData, Stores, SignalAnswer, heapVars
  <2>3. queries' \cup stored' \subseteq queries \cup stored /\ live' \subseteq live \cup queries
    BY <2>2
  <2>4. queries' \cap stored' = {} BY <1>n, <2>2
  <2> QED  BY <1>n, <2>1, <2>3, <2>4
<1> QED  BY <1>1, <1>2, <1>3, <1>4 DEF Next

\* Every variable keeps its type, and every call the number of its query
\* (DoGetList, DoGetSize, DoDownloadData).
THEOREM TypeCorrect == Spec => []Base
<1>1. ASSUME Base, [Next]_vars PROVE Base' BY <1>1, TypesStep, NumberedStep DEF Base
<1> QED  BY <1>1, BaseInit, PTL DEF Spec

-----------------------------------------------------------------------------
(* Calls that do not overlap *)

OneCall == \A c, d \in Callers : Active(c) /\ Active(d) => c = d

\* The buffer is the one the call has allocated.
OwnBuffer ==
    \A c \in Callers :
        pc[c] \in {"query", "wait", "take", "free"} /\ kind[my[c]] = "data" => buffer = my[c]

Apart == ~overlapped => OneCall /\ OwnBuffer /\ BlocksFreed

\* While calls do not overlap, one call at a time has the buffer, and frees it.
LEMMA ApartStep == ASSUME Base, Apart, [Next]_vars PROVE Apart'
<1> SUFFICES ASSUME ~overlapped' PROVE OneCall' /\ OwnBuffer' /\ BlocksFreed' BY DEF Apart
<1> USE DEF OneCall, OwnBuffer, BlocksFreed, Active
<1>t. /\ my = [d \in Callers |-> my[d]] /\ kind = [i \in 0..MaxQueries |-> kind[i]]
      /\ next \in Nat
  BY DEF Base, TypeOK
<1>m. ASSUME NEW c \in Callers, NEW place, Goto(c, place)
      PROVE  \A d \in Callers : pc'[d] = IF d = c THEN place ELSE pc[d]
  BY <1>m, Moved DEF Base
<1>n. ~overlapped
  BY DEF Next, Call, AskInfo, BeginData, Enter, Step, AllocAndAsk, QueryReturns, Wake, TimeOut,
         TakeSize, TakeList, TakeData, Takes, Free, Host, OnReceivedListInfo, OnReceivedFileInfo,
         OnReceivedData, Stores, SignalAnswer, vars, history
<1>o. OneCall /\ OwnBuffer /\ BlocksFreed BY <1>n DEF Apart
<1>1. CASE UNCHANGED vars
  BY <1>o, <1>1 DEF vars, modes, callVars, hostVars, dataVars, heapVars, history
<1>2. ASSUME NEW c \in Callers, Call(c) PROVE OneCall' /\ OwnBuffer' /\ BlocksFreed'
  <2>1. PICK what \in {"list", "size", "data"}, place \in {"query", "alloc"} :
          Enter(c, what, place) /\ (place = "query" => what # "data")
    BY <1>2 DEF Call, AskInfo, BeginData
  <2>2. \A d \in Callers : pc[d] = "idle" BY <2>1 DEF Enter
  <2>3. \A d \in Callers : pc'[d] = IF d = c THEN place ELSE "idle" BY <1>m, <2>1, <2>2 DEF Enter
  <2>4. my'[c] = next /\ kind' = [kind EXCEPT ![next] = what] /\ next \in 0..MaxQueries
    BY <1>t, <2>1 DEF Enter
  <2>5. UNCHANGED <<live, timedout>> /\ live \subseteq 1..(next - 1)
    BY <2>1 DEF Enter, heapVars, Base, Numbered
  <2>6. \A id \in live : kind'[id] = kind[id] BY <1>t, <2>4, <2>5
  <2>7. OneCall' BY <2>3
  <2>8. OwnBuffer' BY <1>t, <2>1, <2>3, <2>4
  <2>9. BlocksFreed' BY <1>n, <1>o, <2>2, <2>5, <2>6
  <2> QED  BY <2>7, <2>8, <2>9
<1>3. ASSUME NEW c \in Callers, Step(c) PROVE OneCall' /\ OwnBuffer' /\ BlocksFreed'
  <2>1. UNCHANGED <<my, kind>> /\ pc[c] # "idle"
    BY <1>3 DEF Step, AllocAndAsk, QueryReturns, Wake, TimeOut, TakeSize, TakeList, TakeData, Takes, Free
  <2>2. \A d \in Callers : pc[d] # "idle" => d = c BY <1>o, <2>1
  <2>3. PICK place \in Places : Goto(c, place)
    BY <1>3 DEF Step, AllocAndAsk, QueryReturns, Wake, TimeOut, TakeSize, TakeList, TakeData, Free, Places
  <2>4. \A d \in Callers : pc'[d] = IF d = c THEN place ELSE pc[d] BY <1>m, <2>3
  <2>5. OneCall' BY <1>o, <2>1, <2>4
  <2>6. \/ pc[c] = "alloc" /\ buffer' = my[c] /\ live' \subseteq live \cup {my[c]}
        \/ pc[c] # "alloc" /\ buffer' = buffer /\ live' \subseteq live
    BY <1>3 DEF Step, AllocAndAsk, QueryReturns, Wake, TimeOut, TakeSize, TakeList, TakeData, Takes, Free,
                Freed, dataVars, heapVars
  <2>7. pc[c] \in Places BY DEF Base, TypeOK, Places
  <2>8. OwnBuffer' BY <1>o, <2>1, <2>2, <2>4, <2>6, <2>7 DEF Places
  <2>9. \/ Goto(c, "query") \/ Goto(c, "wait") \/ Goto(c, "take") \/ Goto(c, "free")
        \/ /\ Goto(c, "idle")
           /\ \/ timedout' = timedout \cup {my[c]} \/ kind[my[c]] # "data"
              \/ pc[c] = "free" /\ live' = live \ {buffer}
    BY <1>3 DEF Step, AllocAndAsk, QueryReturns, Wake, TimeOut, TakeSize, TakeList, TakeData, Free, Freed
  <2>10. \/ pc'[c] # "idle"
         \/ my[c] \in timedout' \/ kind[my[c]] # "data"
         \/ pc[c] = "free" /\ live' = live \ {buffer}
    BY <1>m, <2>9
  <2>11. timedout \subseteq timedout'
    BY <1>3 DEF Step, AllocAndAsk, QueryReturns, Wake, TimeOut, TakeSize, TakeList, TakeData, Takes, Free,
                history
  <2>12. ASSUME NEW id \in live', kind[id] = "data"
         PROVE  id \in timedout' \/ (my[c] = id /\ pc'[c] # "idle")
    <3>1. id \in timedout \/ my[c] = id BY <1>n, <1>o, <2>2, <2>6, <2>12
    <3>2. pc[c] = "free" /\ kind[my[c]] = "data" => buffer = my[c] BY <1>o
    <3> QED  BY <2>10, <2>11, <2>12, <3>1, <3>2
  <2>13. BlocksFreed' BY <2>1, <2>12
  <2> QED  BY <2>5, <2>8, <2>13
<1>4. ASSUME NEW id \in Ids, Host(id) PROVE OneCall' /\ OwnBuffer' /\ BlocksFreed'
  <2>1. UNCHANGED <<pc, my, kind, buffer, timedout>>
    BY <1>4 DEF Host, OnReceivedListInfo, OnReceivedFileInfo, OnReceivedData, Stores, SignalAnswer,
                callVars, dataVars, history
  <2>2. live' = live \/ (live' = live \cup {id} /\ kind[id] = "list")
    BY <1>4 DEF Host, OnReceivedListInfo, OnReceivedFileInfo, OnReceivedData, Stores, SignalAnswer, heapVars
  <2>3. \A i \in live' : kind[i] = "data" => i \in live BY <2>2
  <2> QED  BY <1>n, <1>o, <2>1, <2>3
<1> QED  BY <1>1, <1>2, <1>3, <1>4 DEF Next

\* Without overlap a call frees the block it allocated, and a block that stays
\* is that of a call which gave up (DoDownloadData).
THEOREM BlocksAreFreed == Spec => []BlocksFreed
<1>1. Init => Apart BY DEF Init, Apart, OneCall, OwnBuffer, BlocksFreed, Active
<1>2. Apart => BlocksFreed BY DEF Apart, BlocksFreed
<1> QED  BY <1>1, <1>2, ApartStep, TypeCorrect, PTL DEF Spec

-----------------------------------------------------------------------------
(* Answers that do not come late *)

Calm == ~overlapped /\ ~LateAnswer

\* The callback is set before the first call or not at all, and so is the mode.
LEMMA ModesStay ==
    ASSUME [Next]_vars PROVE bAsyncMode' = bAsyncMode /\ m_ftpcallback' = m_ftpcallback
BY DEF modes, Next, Call, AskInfo, BeginData, Enter, Step, AllocAndAsk, QueryReturns, Wake, TimeOut,
       TakeSize, TakeList, TakeData, Takes, Free, Host, OnReceivedListInfo, OnReceivedFileInfo,
       OnReceivedData, Stores, SignalAnswer, vars

\* Without a callback there is no answer, and who waits does not wake.
Quiet ==
    ~m_ftpcallback =>
        /\ queries = {} /\ stored = {} /\ ~hEvent /\ info_list = 0
        /\ bAsyncMode => \A c \in Callers : pc[c] # "take"

\* Nobody answers a query that was not passed on.
LEMMA QuietStep == ASSUME Base, Quiet, [Next]_vars PROVE Quiet'
<1> SUFFICES ASSUME ~m_ftpcallback
             PROVE  /\ queries' = {} /\ stored' = {} /\ ~hEvent' /\ info_list' = 0
                    /\ bAsyncMode => \A c \in Callers : pc'[c] # "take"
  BY ModesStay DEF Quiet
<1>1. queries = {} /\ stored = {} /\ ~hEvent /\ info_list = 0 BY DEF Quiet
<1>2. bAsyncMode => \A c \in Callers : pc[c] # "take" BY DEF Quiet
<1>3. CASE UNCHANGED vars BY <1>1, <1>2, <1>3 DEF vars, callVars, hostVars, dataVars
<1>4. ASSUME NEW c \in Callers, Call(c)
      PROVE  /\ queries' = {} /\ UNCHANGED <<stored, hEvent, info_list>>
             /\ Goto(c, "query") \/ Goto(c, "alloc")
  BY <1>1, <1>4 DEF Call, AskInfo, BeginData, Enter, Passed
<1>5. ASSUME NEW c \in Callers, Step(c)
      PROVE  /\ queries' = {} /\ UNCHANGED <<stored, hEvent, info_list>>
             /\ \E place \in Places : Goto(c, place) /\ (bAsyncMode => place # "take")
  BY <1>1, <1>5 DEF Step, AllocAndAsk, QueryReturns, Wake, TimeOut, TakeSize, TakeList, TakeData, Takes,
                    Free, Passed, Places, hostVars, dataVars
<1>6. ASSUME NEW id \in Ids, Host(id) PROVE FALSE
  BY <1>1, <1>6 DEF Host, OnReceivedListInfo, OnReceivedFileInfo, OnReceivedData, Stores, SignalAnswer,
                    Signals
<1>7. ASSUME NEW c \in Callers, NEW place, Goto(c, place), bAsyncMode => place # "take"
      PROVE  bAsyncMode => \A d \in Callers : pc'[d] # "take"
  BY <1>2, <1>7, Moved DEF Base
<1> QED  BY <1>1, <1>3, <1>4, <1>5, <1>6, <1>7 DEF Next

\* An answer that came late stays so.
LEMMA CalmBefore == ASSUME Base, [Next]_vars, Calm' PROVE Calm
<1>0. ~overlapped' BY DEF Calm
<1>1. ~overlapped /\ timedout \subseteq timedout'
  <2>1. ~overlapped
    BY <1>0
       DEF Next, Call, AskInfo, BeginData, Enter, Active, Step, AllocAndAsk, QueryReturns, Wake, TimeOut,
           TakeSize, TakeList, TakeData, Takes, Free, Host, OnReceivedListInfo, OnReceivedFileInfo,
           OnReceivedData, Stores, SignalAnswer, vars, history
  <2>2. timedout \subseteq timedout'
    BY DEF Next, Call, AskInfo, BeginData, Enter, Step, AllocAndAsk, QueryReturns, Wake, TimeOut,
           TakeSize, TakeList, TakeData, Takes, Free, Host, OnReceivedListInfo, OnReceivedFileInfo,
           OnReceivedData, Stores, SignalAnswer, vars, history
  <2> QED  BY <2>1, <2>2
<1>2. next \notin timedout
  <2>1. next \in Nat /\ timedout \subseteq 1..(next - 1) BY DEF Base, TypeOK, Numbered
  <2> QED  BY <2>1
<1>3. \A c \in Callers : pc[c] = "alloc" => my[c] \notin timedout BY DEF Base, Numbered, Active
<1>4. \/ queries' \subseteq queries \cup {next}
      \/ \E c \in Callers : pc[c] = "alloc" /\ queries' \subseteq queries \cup {my[c]}
  BY DEF Passed, Next, Call, AskInfo, BeginData, Step, AllocAndAsk, QueryReturns, Wake, TimeOut,
         TakeSize, TakeList, TakeData, Takes, Free, Host, OnReceivedListInfo, OnReceivedFileInfo,
         OnReceivedData, Stores, SignalAnswer, vars, hostVars
<1>5. queries' \cap timedout \subseteq queries BY <1>2, <1>3, <1>4
<1>6. m_ftpcallback' = m_ftpcallback BY ModesStay
<1> QED  BY <1>1, <1>5, <1>6 DEF Calm, LateAnswer

\* A caller that has sent its query and has not woken yet.
Asking(c) == pc[c] \in {"query", "wait"}

\* What an answered call finds is the answer to its query.
OwnDatum(c) ==
    /\ kind[my[c]] = "size" => rfs = my[c]
    /\ kind[my[c]] = "list" => info_list = my[c] /\ my[c] \in live
    /\ kind[my[c]] = "data" => content[my[c]] = my[c]

\* The block and the string of a call that has not ended are there.
OwnBlock(c) ==
    /\ pc[c] # "alloc" /\ kind[my[c]] = "data" => my[c] \in live /\ blocksize = size[my[c]]
    /\ pc[c] = "free" /\ kind[my[c]] = "list" => list[c] \in live \cup {0}

Fine(c) ==
    /\ OwnBlock(c)
    /\ pc[c] = "take" => my[c] \notin queries
    /\ m_ftpcallback /\ (Asking(c) \/ pc[c] = "take") => my[c] \in queries \/ OwnDatum(c)

\* Whatever the host still owes, or has stored, is for the one caller that asks;
\* the event is set only for it.
Owed ==
    /\ \A id \in (queries \ timedout) \cup stored : \E c \in Callers : Asking(c) /\ my[c] = id
    /\ ~bAsyncMode => stored = {} /\ ~hEvent
    /\ hEvent => \E c \in Callers : Asking(c) /\ my[c] \notin queries \cup stored

RightOnes == wrong = {} \/ Unasked

Own == Owed /\ (\A c \in Callers : Active(c) => Fine(c)) /\ RightOnes /\ ~harm

OwnWhenCalm == Calm => Own

\* The steps of the callers.
LEMMA OwnCall ==
    ASSUME Base, Apart, Calm, Own, Calm', NEW c \in Callers, Call(c) PROVE Own'
<1>t. /\ my = [d \in Callers |-> my[d]] /\ kind = [i \in 0..MaxQueries |-> kind[i]] /\ next \in Nat
  BY DEF Base, TypeOK
<1>1. PICK what \in {"list", "size", "data"}, place \in {"query", "alloc"} :
        /\ Enter(c, what, place)
        /\ \/ place = "query" /\ what # "data" /\ queries' = queries \cup Passed(next)
           \/ place = "alloc" /\ queries' = queries
  BY DEF Call, AskInfo, BeginData
<1>2. \A d \in Callers : pc[d] = "idle" BY <1>1 DEF Enter, Calm
<1>3. \A d \in Callers : pc'[d] = IF d = c THEN place ELSE "idle"
  BY <1>1, <1>2, Moved DEF Enter, Base
<1>4. my'[c] = next /\ kind'[next] = what /\ UNCHANGED <<stored, hEvent, modes, wrong, harm, timedout>>
  BY <1>1, <1>t DEF Enter, Base, TypeOK
<1>5. queries \subseteq timedout /\ stored = {} /\ ~hEvent BY <1>2 DEF Own, Owed, Asking
<1>6. Owed'
  <2>1. \A id \in (queries' \ timedout') \cup stored' : id = next /\ place = "query"
    BY <1>1, <1>4, <1>5 DEF Passed
  <2>2. \A id \in (queries' \ timedout') \cup stored' : Asking(c)' /\ my'[c] = id
    BY <1>3, <1>4, <2>1 DEF Asking
  <2> QED  BY <1>4, <1>5, <2>2 DEF Owed, modes
<1>7. Fine(c)' BY <1>1, <1>3, <1>4 DEF Fine, OwnBlock, Asking, Passed, modes
<1>9. RightOnes' BY <1>4 DEF Own, RightOnes, Unasked, modes
<1>8. \A d \in Callers : Active(d)' => d = c BY <1>3 DEF Active
<1> QED  BY <1>4, <1>6, <1>7, <1>8, <1>9 DEF Own

\* The one call under way meets only what is its own.
LEMMA OwnStep ==
    ASSUME Base, Apart, Quiet, Calm, Own, Calm', NEW c \in Callers, Step(c) PROVE Own'
<1>1. UNCHANGED <<my, kind, stored, modes, rfs, info_list, blocksize, content>> /\ pc[c] # "idle"
  BY DEF Step, AllocAndAsk, QueryReturns, Wake, TimeOut, TakeSize, TakeList, TakeData, Takes, Free, hostVars,
         dataVars, heapVars
<1>2. \A d \in Callers : pc[d] # "idle" => d = c BY <1>1 DEF Apart, Calm, OneCall, Active
<1>3. Fine(c) /\ Owed /\ RightOnes /\ ~harm BY <1>1 DEF Own, Active
<1>4. PICK place \in Places : Goto(c, place)
  BY DEF Step, AllocAndAsk, QueryReturns, Wake, TimeOut, TakeSize, TakeList, TakeData, Free, Places
<1>5. \A d \in Callers : pc'[d] = IF d = c THEN place ELSE pc[d] BY <1>4, Moved DEF Base
<1>6. \A d \in Callers : pc'[d] # "idle" => d = c BY <1>2, <1>5
<1>7. SUFFICES Owed' /\ (place # "idle" => Fine(c)') /\ RightOnes' /\ ~harm'
  BY <1>5, <1>6 DEF Own, Active
<1>8. /\ size = [i \in 0..MaxQueries |-> size[i]] /\ list = [d \in Callers |-> list[d]]
      /\ my[c] \in 0..MaxQueries
  BY DEF Base, TypeOK
<1>9. ~Asking(c) => queries \subseteq timedout /\ stored = {} /\ ~hEvent
  BY <1>2, <1>3 DEF Owed, Asking
<1>10. queries \cap stored = {} /\ my[c] \notin timedout BY <1>1 DEF Base, Numbered, Active
<1>11. kind[my[c]] = "data" /\ pc[c] # "alloc" => buffer = my[c]
  <2>1. pc[c] \in Places BY DEF Base, TypeOK, Places
  <2> QED  BY <1>1, <2>1 DEF Apart, Calm, OwnBuffer, Places
<1>m. bAsyncMode' = bAsyncMode /\ m_ftpcallback' = m_ftpcallback BY <1>1 DEF modes
<1>w. ASSUME wrong' = wrong PROVE RightOnes' BY <1>3, <1>m, <1>w DEF RightOnes, Unasked
<1>12. CASE AllocAndAsk(c)
  <2>1. pc[c] = "alloc" /\ pc'[c] = "query" /\ queries' = queries \cup Passed(my[c])
    BY <1>12, Moved DEF AllocAndAsk, Base
  <2>2. UNCHANGED <<hEvent, timedout, wrong, harm>> BY <1>12 DEF AllocAndAsk, history
  <2>3. my[c] \in live' /\ size'[my[c]] = blocksize BY <1>8, <1>12 DEF AllocAndAsk
  <2>4. Owed' BY <1>1, <1>9, <1>m, <2>1, <2>2 DEF Owed, Asking, Passed
  <2>5. Fine(c)' BY <1>1, <1>m, <2>1, <2>3 DEF Fine, OwnBlock, Asking, Passed
  <2> QED  BY <1>3, <1>w, <2>2, <2>4, <2>5
<1>13. CASE QueryReturns(c)
  <2>1. UNCHANGED <<queries, hEvent, timedout, wrong, harm, live, size, list>>
    BY <1>13 DEF QueryReturns, hostVars, heapVars, history
  <2>2. pc[c] = "query" /\ \/ bAsyncMode /\ pc'[c] = "wait"
                           \/ ~bAsyncMode /\ my[c] \notin queries /\ pc'[c] = "take"
    BY <1>13, Moved DEF QueryReturns, Base
  <2>3. Fine(c)' BY <1>1, <1>3, <1>m, <2>1, <2>2 DEF Fine, OwnBlock, OwnDatum, Asking
  <2>4. Owed'
    <3>1. CASE bAsyncMode
      BY <1>1, <1>2, <1>3, <1>5, <1>m, <2>1, <2>2, <3>1 DEF Owed, Asking
    <3>2. CASE ~bAsyncMode
      <4>1. queries \subseteq timedout /\ stored = {} /\ ~hEvent
        BY <1>2, <1>3, <2>2, <3>2 DEF Owed, Asking
      <4> QED  BY <1>1, <1>m, <2>1, <4>1 DEF Owed
    <3> QED  BY <3>1, <3>2
  <2> QED  BY <1>3, <1>w, <2>1, <2>3, <2>4
<1>14. CASE Wake(c)
  <2>1. UNCHANGED <<queries, timedout, wrong, harm, live, size, list>>
    BY <1>14 DEF Wake, heapVars, history
  <2>2. pc[c] = "wait" /\ hEvent /\ ~hEvent' /\ pc'[c] = "take"
    BY <1>14, Moved DEF Wake, AfterWait, Base
  <2>3. my[c] \notin queries \cup stored BY <1>2, <1>3, <2>2 DEF Owed, Asking
  <2>4. queries \subseteq timedout /\ stored = {} BY <1>2, <1>3, <2>3 DEF Owed, Asking
  <2>5. Owed' BY <1>1, <1>m, <2>1, <2>2, <2>4 DEF Owed
  <2>6. Fine(c)' BY <1>1, <1>3, <1>m, <2>1, <2>2, <2>3 DEF Fine, OwnBlock, OwnDatum, Asking
  <2> QED  BY <1>3, <1>w, <2>1, <2>5, <2>6
<1>15. CASE TimeOut(c)
  <2>1. /\ pc[c] = "wait" /\ ~hEvent /\ UNCHANGED <<queries, hEvent, wrong, harm>>
        /\ timedout' = timedout \cup {my[c]} /\ pc'[c] = "idle"
    BY <1>15, Moved DEF TimeOut, hostVars, Base
  <2>2. m_ftpcallback => my[c] \in queries BY <1>m, <2>1 DEF Calm, LateAnswer
  <2>3. queries \subseteq timedout' /\ stored = {}
    <3>1. CASE m_ftpcallback BY <1>2, <1>3, <1>10, <2>1, <2>2, <3>1 DEF Owed, Asking
    <3>2. CASE ~m_ftpcallback BY <3>2 DEF Quiet
    <3> QED  BY <3>1, <3>2
  <2>4. Owed' BY <1>1, <1>m, <2>1, <2>3 DEF Owed
  <2> QED  BY <1>3, <1>5, <1>w, <2>1, <2>4
<1>16. CASE TakeSize(c) \/ TakeList(c) \/ TakeData(c)
  <2>1. UNCHANGED <<queries, hEvent, timedout, live, size>> /\ pc[c] = "take"
    BY <1>16 DEF TakeSize, TakeList, TakeData, Takes, hostVars, heapVars
  <2>2. Owed' BY <1>1, <1>9, <1>m, <2>1 DEF Owed, Asking
  <2>3. m_ftpcallback => OwnDatum(c) BY <1>3, <2>1 DEF Fine
  <2>n. ~m_ftpcallback => Unasked /\ info_list = 0 BY <2>1 DEF Quiet, Unasked
  <2>r. ASSUME NEW datum, NEW ok, Takes(c, datum, ok), OwnDatum(c) => datum = my[c] PROVE RightOnes'
    <3>1. CASE m_ftpcallback
      <4>1. wrong' = wrong BY <2>3, <2>r, <3>1 DEF Takes
      <4> QED  BY <1>w, <4>1
    <3>2. CASE ~m_ftpcallback BY <1>m, <2>n, <3>2 DEF RightOnes, Unasked
    <3> QED  BY <3>1, <3>2
  <2>4. CASE TakeSize(c)
    <3>1. pc'[c] = "idle" BY <2>4, Moved DEF TakeSize, Base
    <3>2. RightOnes' BY <2>4, <2>r DEF TakeSize, OwnDatum
    <3> QED  BY <1>3, <1>5, <2>2, <2>4, <3>1, <3>2 DEF TakeSize, Takes
  <2>5. CASE TakeList(c)
    <3>1. pc'[c] = "free" /\ list'[c] = info_list /\ kind[my[c]] = "list"
      BY <1>8, <2>5, Moved DEF TakeList, Base
    <3>2. RightOnes' BY <2>5, <2>r DEF TakeList, OwnDatum
    <3>3. info_list \in live \cup {0} BY <2>3, <2>n, <3>1 DEF OwnDatum
    <3>4. ~harm' BY <1>3, <2>5, <3>3 DEF TakeList, Takes
    <3>5. Fine(c)' BY <1>1, <2>1, <3>1, <3>3 DEF Fine, OwnBlock, Asking
    <3> QED  BY <2>2, <3>2, <3>4, <3>5
  <2>6. CASE TakeData(c)
    <3>1. pc'[c] = "free" /\ kind[my[c]] = "data" BY <2>6, Moved DEF TakeData, Base
    <3>2. buffer = my[c] /\ my[c] \in live /\ blocksize = size[my[c]]
      BY <1>3, <1>11, <2>1, <3>1 DEF Fine, OwnBlock
    <3>3. RightOnes' BY <2>6, <2>r, <3>1, <3>2 DEF TakeData, OwnDatum
    <3>4. ~harm'
      <4>1. blocksize <= size[buffer]
        <5>1. blocksize \in Nat BY MiniFtpAssumption DEF Base, TypeOK
        <5> QED  BY <3>2, <5>1
      <4> QED  BY <1>3, <2>6, <3>2, <4>1 DEF TakeData, Takes
    <3>5. Fine(c)' BY <1>1, <2>1, <3>1, <3>2 DEF Fine, OwnBlock, Asking
    <3> QED  BY <2>2, <3>3, <3>4, <3>5
  <2> QED  BY <1>16, <2>4, <2>5, <2>6
<1>17. CASE Free(c)
  <2>1. /\ UNCHANGED <<queries, hEvent, timedout, wrong>> /\ pc[c] = "free" /\ pc'[c] = "idle"
        /\ harm' = (harm \/ (IF kind[my[c]] = "list" THEN list[c] ELSE buffer) \notin live \cup {0})
    BY <1>17, Moved DEF Free, hostVars, Base
  <2>2. Owed' BY <1>1, <1>9, <1>m, <2>1 DEF Owed, Asking
  <2>3. kind[my[c]] \in {"list", "data"} BY <2>1 DEF Base, Numbered
  <2>4. CASE kind[my[c]] = "list"
    <3>1. list[c] \in live \cup {0} BY <1>3, <2>1, <2>4 DEF Fine, OwnBlock
    <3> QED  BY <1>3, <1>5, <1>w, <2>1, <2>2, <2>4, <3>1
  <2>5. CASE kind[my[c]] = "data"
    <3>1. buffer \in live BY <1>3, <1>11, <2>1, <2>5 DEF Fine, OwnBlock
    <3> QED  BY <1>3, <1>5, <1>w, <2>1, <2>2, <2>5, <3>1
  <2> QED  BY <2>3, <2>4, <2>5
<1> QED  BY <1>12, <1>13, <1>14, <1>15, <1>16, <1>17 DEF Step

\* The steps of the host: while nobody is late it answers the one caller.
LEMMA OwnHost ==
    ASSUME Base, Apart, Quiet, Calm, Own, Calm', NEW id \in Ids, Host(id) PROVE Own'
<1>1. UNCHANGED <<pc, my, kind, list, bAsyncMode, m_ftpcallback, timedout, wrong, buffer, blocksize, size>>
  BY DEF Host, OnReceivedListInfo, OnReceivedFileInfo, OnReceivedData, Stores, SignalAnswer, modes,
         callVars, dataVars, heapVars, history
<1>2. id \in queries \ timedout \/ id \in stored
  <2>1. (id \in queries /\ queries' = queries \ {id}) \/ id \in stored
    BY DEF Host, OnReceivedListInfo, OnReceivedFileInfo, OnReceivedData, Stores, SignalAnswer, Signals
  <2>2. m_ftpcallback BY <2>1 DEF Quiet
  <2> QED  BY <1>1, <2>1, <2>2 DEF Calm, LateAnswer
<1>3. PICK c \in Callers : Asking(c) /\ my[c] = id BY <1>2 DEF Own, Owed
<1>4. \A d \in Callers : Active(d) => d = c BY <1>3 DEF Apart, Calm, OneCall, Active, Asking
<1>5. Fine(c) /\ Owed /\ RightOnes /\ ~harm /\ queries \cap stored = {} /\ my[c] \notin timedout
  BY <1>3 DEF Own, Active, Asking, Base, Numbered
<1>6. \A d \in Callers : Active(d)' => d = c BY <1>1, <1>4 DEF Active
<1>7. Asking(c)' /\ my'[c] = id BY <1>1, <1>3 DEF Asking
<1>8. \A i \in (queries \ timedout) \cup stored : i = id
  BY <1>3, <1>4, <1>5 DEF Owed, Asking, Active
<1>w. RightOnes' BY <1>1, <1>5 DEF RightOnes, Unasked
<1>9. SUFFICES Owed' /\ Fine(c)' /\ RightOnes' /\ ~harm' BY <1>6 DEF Own
<1>10. CASE SignalAnswer(id)
  <2>1. /\ UNCHANGED <<queries, rfs, info_list, live, content, harm>>
        /\ stored' = stored \ {id} /\ id \in stored
    BY <1>10 DEF SignalAnswer, Signals, dataVars, heapVars, history
  <2>2. id \notin queries' /\ id \notin stored' BY <1>5, <2>1
  <2>3. bAsyncMode BY <1>5, <2>1 DEF Owed
  <2>4. \A i \in (queries' \ timedout') \cup stored' : i = id BY <1>1, <1>8, <2>1
  <2>5. Owed' BY <1>1, <1>7, <2>2, <2>3, <2>4 DEF Owed
  <2>6. Fine(c)' BY <1>1, <1>5, <2>1 DEF Fine, OwnBlock, OwnDatum, Asking
  <2> QED  BY <1>1, <1>5, <1>w, <2>1, <2>5, <2>6
<1>11. ASSUME NEW what, Stores(id, what), OwnDatum(c)', live \subseteq live', harm' = harm
       PROVE  Owed' /\ Fine(c)' /\ RightOnes' /\ ~harm'
  <2>1. /\ id \in queries /\ queries' = queries \ {id} /\ hEvent' = hEvent
        /\ stored' = IF bAsyncMode THEN stored \cup {id} ELSE stored
    BY <1>11 DEF Stores
  <2>2. ~hEvent BY <1>3, <1>4, <1>5, <2>1 DEF Owed, Asking, Active
  <2>3. \A i \in (queries' \ timedout') \cup stored' : i = id BY <1>1, <1>8, <2>1
  <2>4. Owed' BY <1>1, <1>5, <1>7, <2>1, <2>2, <2>3 DEF Owed
  <2>5. Fine(c)' BY <1>1, <1>5, <1>7, <1>11 DEF Fine, OwnBlock, Asking
  <2> QED  BY <1>1, <1>5, <1>w, <1>11, <2>4, <2>5
<1>12. CASE OnReceivedListInfo(id)
  BY <1>1, <1>3, <1>11, <1>12 DEF OnReceivedListInfo, Stores, OwnDatum
<1>13. CASE OnReceivedFileInfo(id)
  BY <1>1, <1>3, <1>11, <1>13 DEF OnReceivedFileInfo, Stores, OwnDatum
<1>14. CASE OnReceivedData(id)
  <2>1. kind[my[c]] = "data" /\ id \in queries BY <1>3, <1>14 DEF OnReceivedData, Stores
  <2>2. pc[c] # "alloc" BY <1>3 DEF Asking
  <2>3. buffer = id /\ id \in live /\ blocksize = size[id]
    BY <1>3, <1>5, <2>1, <2>2 DEF Apart, Calm, OwnBuffer, Fine, OwnBlock, Asking
  <2>4. blocksize \in Nat BY MiniFtpAssumption DEF Base, TypeOK
  <2>5. content' = [content EXCEPT ![buffer] = id] /\ harm' = (harm \/ buffer \notin live \/ size[id] > size[buffer])
    BY <1>14, <2>3, <2>4 DEF OnReceivedData, Fits
  <2>6. harm' = harm BY <1>5, <2>3, <2>4, <2>5 DEF Base, TypeOK
  <2>7. OwnDatum(c)'
    <3>1. content = [i \in 0..MaxQueries |-> content[i]] /\ id \in 0..MaxQueries
      BY MiniFtpAssumption DEF Base, TypeOK, Ids
    <3> QED  BY <1>1, <1>3, <2>1, <2>3, <2>5, <3>1 DEF OwnDatum
  <2> QED  BY <1>11, <1>14, <2>6, <2>7 DEF OnReceivedData
<1> QED  BY <1>10, <1>12, <1>13, <1>14 DEF Host

\* So under the contract with the host everything stays its own.
LEMMA OwnWhenCalmStep ==
    ASSUME Base, Apart, Quiet, OwnWhenCalm, [Next]_vars PROVE OwnWhenCalm'
<1> SUFFICES ASSUME Calm' PROVE Own' BY DEF OwnWhenCalm
<1>1. Calm /\ Own BY CalmBefore DEF OwnWhenCalm
<1>2. CASE UNCHANGED vars
  BY <1>1, <1>2 DEF vars, modes, callVars, hostVars, dataVars, heapVars, history, Own, Owed, Asking, Active, Fine,
                    OwnBlock, OwnDatum, RightOnes, Unasked
<1> QED  BY <1>1, <1>2, OwnCall, OwnStep, OwnHost DEF Next

\* The invariants together.
THEOREM AnswersAreOwn == Spec => [](Base /\ Apart /\ Quiet /\ OwnWhenCalm)
<1>1. Init => Apart /\ Quiet /\ OwnWhenCalm
  BY DEF Init, Apart, OneCall, OwnBuffer, BlocksFreed, Active, Quiet, OwnWhenCalm, Own, Owed, Asking, RightOnes
<1>2. ASSUME Base, Apart, Quiet, OwnWhenCalm, [Next]_vars
      PROVE  Apart' /\ Quiet' /\ OwnWhenCalm'
  BY <1>2, ApartStep, QuietStep, OwnWhenCalmStep
<1> QED  BY <1>1, <1>2, TypeCorrect, PTL DEF Spec

\* A caller takes the answer to its own query as long as calls do not overlap and
\* no answer comes late, unless it waits for none in the synchronous mode and there
\* is no callback to ask (DoGetList, DoGetSize, DoDownloadData, SendGetListInfoQuery).
THEOREM AnswersAlwaysMatch == Spec => []AnswersMatch
<1>1. OwnWhenCalm => AnswersMatch BY DEF OwnWhenCalm, Own, RightOnes, Calm, AnswersMatch
<1> QED  BY <1>1, AnswersAreOwn, PTL

\* Without overlap and late answers freed memory is not used and no block is overrun (DoDownloadData,
\* OnReceivedData, trans_list_common).
THEOREM HeapIsSafe == Spec => []HeapSafe
<1>1. Base /\ OwnWhenCalm => HeapSafe BY DEF Base, OwnWhenCalm, Own, Calm, HeapSafe
<1> QED  BY <1>1, AnswersAreOwn, PTL

\* Then the event is set only for a caller whose answer is there (SetEvent,
\* WaitForSingleObject).
THEOREM EventIsBalanced == Spec => []EventBalanced
<1>1. OwnWhenCalm => EventBalanced
  BY DEF OwnWhenCalm, Own, Owed, Asking, Calm, EventBalanced
<1> QED  BY <1>1, AnswersAreOwn, PTL
=============================================================================
