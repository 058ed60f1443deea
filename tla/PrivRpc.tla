------------------------------ MODULE PrivRpc ------------------------------
(***************************************************************************)
(* What the private socket pair promises while its framing holds: the      *)
(* proto thread makes one call at a time to an object that owns the        *)
(* passive socket; a call is served at most once, and its answer is about  *)
(* the state of the object at that moment and is still true when it is     *)
(* used.  A data connection is asked for only right after the object was   *)
(* asked whether it listens, in the way its answer allows.                 *)
(***************************************************************************)
VARIABLES phase,      \* "idle", "called", "answered" or "hung"
          op,         \* the operation called last
          listening,  \* the object has a passive socket
          answer      \* the last answer

rpcVars == <<phase, op, listening, answer>>

Ops == {"active", "listen", "connect", "accept"}

RpcInit == phase = "idle" /\ op = "none" /\ listening = FALSE /\ answer = "none"

\* An answer is consumed by the next call, or by Return.
Call(o) ==
    /\ \/ phase = "idle" /\ o \in {"active", "listen"}
       \/ phase = "answered" /\ o = "connect" /\ op = "active" /\ answer = "no"
       \/ phase = "answered" /\ o = "accept" /\ op = "active" /\ answer = "yes"
    /\ phase' = "called" /\ op' = o /\ answer' = "none" /\ UNCHANGED listening

Serve ==
    /\ phase = "called" /\ phase' = "answered" /\ UNCHANGED op
    /\ \/ /\ op = "active" /\ UNCHANGED listening
          /\ answer' = IF listening THEN "yes" ELSE "no"
       \/ op = "listen"  /\ listening' = TRUE /\ answer' = "port"
       \/ op = "connect" /\ UNCHANGED listening /\ answer' = "socket"
       \/ op = "accept"  /\ listening /\ listening' = FALSE /\ answer' = "socket"

\* The operation fails: the caller waits for ever.
Hang ==
    /\ phase = "called" /\ op \in Ops \ {"active"}
    /\ phase' = "hung" /\ UNCHANGED <<op, answer>>
    /\ listening' = (listening /\ op = "connect")

Return ==
    /\ phase = "answered"
    /\ phase' = "idle" /\ op' = "none" /\ answer' = "none" /\ UNCHANGED listening

\* The session is over.
Release == phase = "idle" /\ listening' = FALSE /\ UNCHANGED <<phase, op, answer>>

RpcNext == (\E o \in Ops : Call(o)) \/ Serve \/ Hang \/ Return \/ Release

RpcSpec == RpcInit /\ [][RpcNext]_rpcVars

-----------------------------------------------------------------------------
\* What the caller relies on: the last answer is still true when it is used, so that
\* an accept is asked only of an object that listens, and a connection to the client
\* is made only beside none that does.
AnswerTrue ==
    /\ answer \in {"yes", "no"} => phase = "answered" /\ op = "active"
    /\ answer = "yes" => listening
    /\ answer = "no" => ~listening
    /\ op = "accept" /\ phase = "called" => listening
    /\ op = "connect" => ~listening
=============================================================================
