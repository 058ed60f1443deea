--------------------------- MODULE FtpSessionRpc ---------------------------
(***************************************************************************)
(* The two threads and the byte streams between them implement PrivRpc.    *)
(* The phase of a call is read off the bytes in flight and the position of *)
(* the nobody thread, its operation off the position of the proto thread.  *)
(***************************************************************************)
EXTENDS FtpSession

rpcOp == CASE pc = "active"                    -> "active"
           [] pc \in {"listenRes", "listenPort"} -> "listen"
           [] pc \in {"portRes", "portFd"}       -> "connect"
           [] pc \in {"acceptRes", "acceptFd"}   -> "accept"
           [] OTHER                              -> "none"

\* A failed accept answers RESULT_BAD and sends no handle.
NoAnswer == toProto = <<>> \/ (toProto = TimeoutReply /\ pc = "acceptRes")

rpcPhase == IF pc \notin Waiting THEN "idle"
            ELSE IF toNobody # <<>> \/ npc \in Serving THEN "called"
            ELSE IF NoAnswer THEN "hung" ELSE "answered"

rpcAnswer == IF rpcPhase # "answered" THEN "none"
             ELSE CASE pc = "active" -> IF toProto = IntMsg(0) THEN "no" ELSE "yes"
                    [] rpcOp = "listen" -> "port"
                    [] OTHER -> "socket"

Rpc == INSTANCE PrivRpc WITH phase <- rpcPhase, op <- rpcOp,
                             listening <- (listen_fd = "open"), answer <- rpcAnswer

\* The threads of a session implement the calls of PrivRpc.
ImplementsRpc == Rpc!RpcSpec
=============================================================================
