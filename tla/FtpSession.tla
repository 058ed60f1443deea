----------------------------- MODULE FtpSession -----------------------------
(***************************************************************************)
(* One control connection of MiniFtpServer: the two threads of a session   *)
(* (main.c session_thread, session.c private_thread), the private socket   *)
(* pair between them, and the data connection they set up.                 *)
(*                                                                         *)
(* The proto thread (handle_proto) reads commands and answers the client;  *)
(* it asks the nobody thread (handle_nobody) for everything that opens a   *)
(* socket.  An action is what a thread does up to its next blocking call.  *)
(* Memory is taken to be always available, and the file system, the type   *)
(* and the rename commands only leave a reply here (LocalCommand).         *)
(***************************************************************************)
EXTENDS PrivSock

CONSTANTS
    Faults,     \* the calls that may fail, a subset of FaultKinds
    MaxSkew,    \* bound on the accepts that fail without timing out
    MaxBlocks,  \* bound on the length of a file, in blocks of 64 KiB
    Hooks       \* SetGetFileSizePtr and SetDownloadDataPtr were called

FaultKinds == {"thread",        \* CreateThread
               "priv",          \* socketpair
               "connect",       \* connect to the address PORT gave
               "listen",        \* tcp_server on the data port
               "acceptTimeout", \* no client within tunable_accept_timeout
               "acceptError",   \* select or accept returned an error
               "file",          \* open, fstat or lseek of the file to store
               "size",          \* the size query timed out
               "data",          \* send, recv or query on the data connection
               "control"}       \* recv on the control connection

ASSUME SessionAssumption ==
    /\ Faults \subseteq FaultKinds
    /\ MaxSkew \in Nat /\ MaxSkew < IntLen
    /\ MaxBlocks \in Nat
    /\ Hooks \in BOOLEAN

VARIABLES
    quit,           \* the flag exit_loop sets
    privUp,         \* the private socket pair exists
    pc,             \* where the proto thread is
    cmd,            \* the command it handles
    ret,            \* what handle_proto returned
    replies,        \* reply codes sent since the last command was read
    port,           \* the port of the last 227 reply
    npc,            \* where the session thread is
    toNobody,       \* bytes from proto_fd to nobody_fd
    toProto,        \* bytes from nobody_fd to proto_fd
    p_addr,         \* a PORT address is stored
    listen_fd,      \* the passive socket
    data_fd,        \* the data connection
    restart_pos,    \* what REST stored
    offset, nleft, filesize,    \* the locals of fake_download_file
    is_translating_data,
    freed,          \* session_free has run
    skew,           \* history: accepts that failed without timing out
    failed,         \* history: the other faults that happened
    data_lost       \* history: data_fd was overwritten while open

protoVars == <<pc, cmd, ret, replies, port>>
privVars  == <<toNobody, toProto>>
dataVars  == <<p_addr, data_fd, data_lost>>
fileVars  == <<restart_pos, offset, nleft, filesize, is_translating_data>>
vars == <<quit, privUp, protoVars, npc, privVars, listen_fd, dataVars, fileVars,
          freed, skew, failed>>

-----------------------------------------------------------------------------
(* Commands and replies *)

Uploads   == {"STOR", "APPE"}
Transfers == {"RETR", "LIST"} \cup Uploads      \* NLST is LIST in another format

\* The replies of the commands that neither transfer data nor touch the state
\* of this module.  OPTS with another argument, and MKD when the new path cannot
\* be told, answer nothing.
LoginReplies      == {200, 331, 230}
ChdirReplies      == {250, 550}
SettingReplies    == {200, 500, 502}
FileSystemReplies == {225, 250, 257, 350, 503, 504, 550}
SiteReplies       == {200, 214, 500}
StatusReplies     == {211, 213, 214, 215, 220, 550}

\* 500 answers a command do_command_map does not know, 502 one it has no
\* handler for.
LocalReplies ==
    {<<c>> : c \in LoginReplies \cup ChdirReplies \cup SettingReplies
                   \cup FileSystemReplies \cup SiteReplies \cup StatusReplies}
    \cup {<<500>>, <<502>>, <<>>}

\* What a transfer command adds when get_trans_data_fd returns zero.
NoDataReply(c) == IF c = "RETR" THEN <<550>>
                  ELSE IF c \in Uploads THEN <<553>> ELSE <<>>

(* What the nobody thread answers; an operator whose name ends in an        *)
(* underscore and a word is the same code with the slip the word names.    *)

ActiveReply_Short(listening) == ResultMsg(IF listening THEN 1 ELSE 0)
ActiveReply(listening) == IntMsg(IF listening THEN 1 ELSE 0)

ListenReply_PortFirst == IntMsg(DATA_PORT) \o ResultMsg(RESULT_OK)
ListenReply_Twice     == ResultMsg(RESULT_OK) \o ResultMsg(RESULT_OK) \o IntMsg(DATA_PORT)
ListenReply_NoPort    == ResultMsg(RESULT_OK)
ListenReply == ResultMsg(RESULT_OK) \o IntMsg(DATA_PORT)

ConnectedReply == ResultMsg(RESULT_OK) \o ConnHandle

ErrorReply == ResultMsg(RESULT_BAD) \o ResultMsg(RESULT_OK) \o INVALID_SOCKET

TimeoutReply_FallsThrough == ErrorReply
TimeoutReply == ResultMsg(RESULT_BAD)

\* The bytes of its argument that privop_pasv_get_data_sock reads.
AddressLen_NoPort == Len(StrMsg)
AddressLen == Len(AddrMsg)

(* The data connection *)

\* get_trans_data_fd goes on with the address of PORT, or with the listener.
UsePort_First(is_pasv) == p_addr
UsePort(is_pasv) == p_addr /\ ~is_pasv
UsePasv(is_pasv) == ~p_addr /\ is_pasv

\* s_close leaves -1 in the handle it closed.
Closed_Kept(fd) == fd
Closed(fd) == "none"

\* The loop of fake_download_file after a block was sent.
NextOffset_Skips(o) == o + 2
NextOffset(o) == o + 1
NextLeft_Skips(n) == IF n > 1 THEN n - 2 ELSE n - 1
NextLeft(n) == n - 1

ListReplies_NoStart == <<226>>
ListReplies == <<150, 226>>

\* May a call fail in this way?  When it does the history says so.
Fails(kind) == kind \in Faults /\ failed' = failed \cup {kind}

-----------------------------------------------------------------------------
(* The states of the threads *)

Waiting == {"active", "listenRes", "listenPort", "portRes", "portFd",
            "acceptRes", "acceptFd"}
ProtoPc == {"none", "greet", "loop", "readline", "opened", "send", "recv",
            "done"} \cup Waiting
Serving == {"get_data_sock", "pasv_active", "pasv_listen", "pasv_accept"}
NobodyPc == {"start", "loop", "recv", "wait", "end"} \cup Serving

Init ==
    /\ quit = FALSE /\ privUp = FALSE
    /\ pc = "none" /\ cmd = "none" /\ ret = "none" /\ replies = <<>>
    /\ port = "none"
    /\ npc = "start" /\ toNobody = <<>> /\ toProto = <<>>
    /\ p_addr = FALSE /\ listen_fd = "none" /\ data_fd = "none"
    /\ restart_pos = 0 /\ offset = 0 /\ nleft = 0 /\ filesize = 0
    /\ is_translating_data = FALSE /\ freed = FALSE
    /\ skew = 0 /\ failed = {} /\ data_lost = FALSE

\* exit_loop, from the console handler or CMiniFtp::StopLoop.
ExitLoop ==
    /\ ~quit
    /\ quit' = TRUE
    /\ UNCHANGED <<privUp, protoVars, npc, privVars, listen_fd, dataVars,
                   fileVars, freed, skew, failed>>

-----------------------------------------------------------------------------
(* The session thread *)

\* session_thread up to handle_nobody: priv_sock_init, start_private.
SessionStart ==
    /\ npc = "start"
    /\ \/ privUp' = TRUE /\ pc' = "greet" /\ npc' = "loop" /\ UNCHANGED failed
       \/ privUp' = FALSE /\ pc' = "greet" /\ npc' = "loop" /\ Fails("priv")
       \/ privUp' = TRUE /\ pc' = "done" /\ npc' = "wait" /\ Fails("thread")
    /\ UNCHANGED <<quit, cmd, ret, replies, port, privVars, listen_fd,
                   dataVars, fileVars, freed, skew>>

NobodyOnly == UNCHANGED <<quit, privUp, protoVars, dataVars, fileVars>>

\* The test of handle_nobody's loop.
NobodyLoop ==
    /\ npc = "loop"
    /\ npc' = IF quit THEN "wait" ELSE "recv"
    /\ NobodyOnly /\ UNCHANGED <<privVars, listen_fd, freed, skew, failed>>

\* priv_sock_recv_cmd and the switch.  Any other byte is "Unknown command".
Operation(c) == CASE c = GET_DATA_SOCK -> "get_data_sock"
                  [] c = PASV_ACTIVE   -> "pasv_active"
                  [] c = PASV_LISTEN   -> "pasv_listen"
                  [] c = PASV_ACCEPT   -> "pasv_accept"
                  [] OTHER             -> "loop"

NobodyRecvCmd ==
    /\ npc = "recv" /\ CanRecv(privUp, toNobody, 1)
    /\ npc' = Operation(Low(Recv(privUp, toNobody, 1)))
    /\ toNobody' = Rest(privUp, toNobody, 1)
    /\ NobodyOnly /\ UNCHANGED <<toProto, listen_fd, freed, skew, failed>>

\* privop_pasv_get_data_sock.  The length of the address, at most 15, passes
\* the test of priv_sock_recv_str.  A connect that fails answers nothing.
PrivGetDataSock ==
    /\ npc = "get_data_sock" /\ CanRecv(privUp, toNobody, AddressLen)
    /\ toNobody' = Rest(privUp, toNobody, AddressLen)
    /\ \/ /\ toProto' = Sent(privUp, toProto, ConnectedReply)
          /\ UNCHANGED failed
       \/ UNCHANGED toProto /\ Fails("connect")
    /\ npc' = "loop"
    /\ NobodyOnly /\ UNCHANGED <<listen_fd, freed, skew>>

\* privop_pasv_active
PrivPasvActive ==
    /\ npc = "pasv_active"
    /\ toProto' = Sent(privUp, toProto, ActiveReply(listen_fd = "open"))
    /\ npc' = "loop"
    /\ NobodyOnly /\ UNCHANGED <<toNobody, listen_fd, freed, skew, failed>>

\* privop_pasv_listen.  It overwrites listen_fd, open or not; when the server
\* socket could not be made getsockname fails and nothing is answered.
PrivPasvListen ==
    /\ npc = "pasv_listen"
    /\ \/ /\ listen_fd' = "open"
          /\ toProto' = Sent(privUp, toProto, ListenReply)
          /\ UNCHANGED failed
       \/ listen_fd' = "none" /\ UNCHANGED toProto /\ Fails("listen")
    /\ npc' = "loop"
    /\ NobodyOnly /\ UNCHANGED <<toNobody, freed, skew>>

\* privop_pasv_accept.  A timeout answers RESULT_BAD and no handle; any other
\* error falls through and answers RESULT_BAD, RESULT_OK and the handle -1.
PrivPasvAccept ==
    /\ npc = "pasv_accept"
    /\ listen_fd' = "none"
    /\ \/ /\ listen_fd = "open"
          /\ toProto' = Sent(privUp, toProto, ConnectedReply)
          /\ UNCHANGED <<skew, failed>>
       \/ /\ listen_fd = "open" /\ Fails("acceptTimeout")
          /\ toProto' = Sent(privUp, toProto, TimeoutReply)
          /\ UNCHANGED skew
       \/ /\ listen_fd = "none" \/ "acceptError" \in Faults
          /\ skew < MaxSkew
          /\ toProto' = Sent(privUp, toProto, ErrorReply)
          /\ skew' = skew + 1 /\ UNCHANGED failed
    /\ npc' = "loop"
    /\ NobodyOnly /\ UNCHANGED <<toNobody, freed>>

\* The private thread has ended: WaitForSingleObject returns, session_free.
SessionFree ==
    /\ npc = "wait" /\ pc = "done"
    /\ npc' = "end" /\ freed' = TRUE
    /\ p_addr' = FALSE /\ listen_fd' = "none" /\ data_fd' = "none"
    /\ UNCHANGED <<quit, privUp, protoVars, privVars, data_lost, fileVars,
                   skew, failed>>

-----------------------------------------------------------------------------
(* The proto thread *)

ProtoOnly == UNCHANGED <<quit, privUp, npc, listen_fd, freed, skew>>

\* ftp_reply appends to what this command has sent.
Reply(codes) == replies' = replies \o codes

\* The command ends: do_command_map returned zero.
EndCommand == pc' = "loop" /\ UNCHANGED <<cmd, ret, port>>

\* handle_proto greets the client.
Greet ==
    /\ pc = "greet" /\ pc' = "loop" /\ Reply(<<220>>)
    /\ ProtoOnly /\ UNCHANGED <<cmd, ret, port, privVars, dataVars, fileVars,
                                failed>>

\* The test of handle_proto's loop.
ProtoLoop ==
    /\ pc = "loop"
    /\ IF quit THEN pc' = "done" /\ ret' = "success"
               ELSE pc' = "readline" /\ UNCHANGED ret
    /\ ProtoOnly /\ UNCHANGED <<cmd, replies, port, privVars, dataVars,
                                fileVars, failed>>

\* readline returned 0 (the client closed) or -1.
ControlClosed ==
    /\ pc = "readline" /\ pc' = "done"
    /\ \/ ret' = "success" /\ UNCHANGED failed
       \/ ret' = "failure" /\ Fails("control")
    /\ cmd' = "none" /\ replies' = <<>>
    /\ ProtoOnly /\ UNCHANGED <<port, privVars, dataVars, fileVars>>

\* A command without effect here.
LocalCommand ==
    /\ pc = "readline" /\ pc' = "loop" /\ cmd' = "local"
    /\ replies' \in LocalReplies
    /\ ProtoOnly /\ UNCHANGED <<ret, port, privVars, dataVars, fileVars,
                                failed>>

\* do_quit returns QUIT_SUCCESS, which do_command_map makes EXIT_FAILURE.
Quit ==
    /\ pc = "readline" /\ pc' = "done" /\ cmd' = "QUIT"
    /\ replies' = <<221>> /\ ret' = "failure"
    /\ ProtoOnly /\ UNCHANGED <<port, privVars, dataVars, fileVars, failed>>

\* do_rest
Restart(pos) ==
    /\ pc = "readline" /\ pc' = "loop" /\ cmd' = "REST"
    /\ restart_pos' = pos /\ replies' = <<350>>
    /\ ProtoOnly /\ UNCHANGED <<ret, port, privVars, dataVars, offset, nleft,
                                filesize, is_translating_data, failed>>

\* do_port: six numbers store an address; anything else is refused.
Port ==
    /\ pc = "readline" /\ pc' = "loop" /\ cmd' = "PORT"
    /\ \/ p_addr' = TRUE /\ replies' = <<200>>
       \/ UNCHANGED p_addr /\ replies' = <<500>>
    /\ ProtoOnly /\ UNCHANGED <<ret, port, privVars, data_fd, data_lost,
                                fileVars, failed>>

\* do_pasv up to its first answer.
Pasv ==
    /\ pc = "readline" /\ pc' = "listenRes" /\ cmd' = "PASV" /\ replies' = <<>>
    /\ toNobody' = Sent(privUp, toNobody, CmdMsg(PASV_LISTEN))
    /\ ProtoOnly /\ UNCHANGED <<ret, port, toProto, dataVars, fileVars, failed>>

\* do_pasv, priv_sock_recv_result
PasvResult ==
    /\ pc = "listenRes" /\ CanRecv(privUp, toProto, 1)
    /\ toProto' = Rest(privUp, toProto, 1)
    /\ IF Low(Recv(privUp, toProto, 1)) = RESULT_BAD
       THEN pc' = "loop" /\ Reply(<<500>>)
       ELSE pc' = "listenPort" /\ UNCHANGED replies
    /\ ProtoOnly /\ UNCHANGED <<cmd, ret, port, toNobody, dataVars, fileVars,
                                failed>>

\* do_pasv, priv_sock_recv_int: the port, cut to sixteen bits, goes to the client
\* (get_local_ip always knows an address).
PasvPort ==
    /\ pc = "listenPort" /\ CanRecv(privUp, toProto, IntLen)
    /\ toProto' = Rest(privUp, toProto, IntLen)
    /\ LET word == Recv(privUp, toProto, IntLen)
       IN  port' = IF word[1] = DATA_PORT /\ word[2] = 0 THEN "data" ELSE "junk"
    /\ pc' = "loop" /\ Reply(<<227>>)
    /\ ProtoOnly /\ UNCHANGED <<cmd, ret, toNobody, dataVars, fileVars, failed>>

\* RETR without the callbacks of the host program.
RetrWithoutHooks ==
    /\ pc = "readline" /\ pc' = "loop" /\ cmd' = "RETR"
    /\ ~Hooks /\ replies' = <<550>>
    /\ ProtoOnly /\ UNCHANGED <<ret, port, privVars, dataVars, fileVars,
                                failed>>

\* fake_download_file, upload_file, trans_list up to is_pasv_active's answer.
Transfer(c) ==
    /\ pc = "readline" /\ pc' = "active" /\ cmd' = c /\ replies' = <<>>
    /\ c = "RETR" => Hooks
    /\ is_translating_data' = (is_translating_data \/ c # "LIST")
    /\ toNobody' = Sent(privUp, toNobody, CmdMsg(PASV_ACTIVE))
    /\ ProtoOnly /\ UNCHANGED <<ret, port, toProto, dataVars, restart_pos,
                                offset, nleft, filesize, failed>>

\* get_trans_data_fd once is_pasv_active has its answer.
ChooseMode ==
    /\ pc = "active" /\ CanRecv(privUp, toProto, IntLen)
    /\ toProto' = Rest(privUp, toProto, IntLen)
    /\ LET is_pasv == Recv(privUp, toProto, IntLen) # IntMsg(0)
       IN  \/ /\ ~p_addr /\ ~is_pasv
              /\ pc' = "loop" /\ Reply(<<425>> \o NoDataReply(cmd))
              /\ UNCHANGED toNobody
           \/ /\ p_addr /\ is_pasv
              /\ pc' = "loop" /\ Reply(NoDataReply(cmd))
              /\ UNCHANGED toNobody
           \/ /\ UsePort(is_pasv)
              /\ toNobody' = Sent(privUp, toNobody, CmdMsg(GET_DATA_SOCK) \o AddrMsg)
              /\ pc' = "portRes" /\ UNCHANGED replies
           \/ /\ UsePasv(is_pasv)
              /\ toNobody' = Sent(privUp, toNobody, CmdMsg(PASV_ACCEPT))
              /\ pc' = "acceptRes" /\ UNCHANGED replies
    /\ ProtoOnly /\ UNCHANGED <<cmd, ret, port, dataVars, fileVars, failed>>

\* get_port_data_fd and get_pasv_data_fd: a bad result is reported, and the
\* handle is awaited all the same.
DataResult ==
    /\ pc \in {"portRes", "acceptRes"} /\ CanRecv(privUp, toProto, 1)
    /\ toProto' = Rest(privUp, toProto, 1)
    /\ IF Low(Recv(privUp, toProto, 1)) = RESULT_BAD
       THEN Reply(<<500>>) ELSE UNCHANGED replies
    /\ pc' = IF pc = "portRes" THEN "portFd" ELSE "acceptFd"
    /\ ProtoOnly /\ UNCHANGED <<cmd, ret, port, toNobody, dataVars, fileVars,
                                failed>>

\* priv_sock_recv_fd; get_port_data_fd then frees the address.
DataFd ==
    /\ pc \in {"portFd", "acceptFd"} /\ CanRecv(privUp, toProto, SockLen)
    /\ toProto' = Rest(privUp, toProto, SockLen)
    /\ LET fd == Recv(privUp, toProto, SockLen)
       IN  data_fd' = IF fd = ConnHandle THEN "conn"
                      ELSE IF fd = INVALID_SOCKET THEN "none" ELSE "junk"
    /\ data_lost' = (data_lost \/ data_fd = "conn")
    /\ p_addr' = (p_addr /\ pc # "portFd")
    /\ pc' = "opened"
    /\ ProtoOnly /\ UNCHANGED <<cmd, ret, replies, port, toNobody, fileVars,
                                failed>>

\* fake_download_file up to its loop: the size may be -1, the locals are set.
RetrBegin ==
    /\ pc = "opened" /\ cmd = "RETR" /\ pc' = "send" /\ Reply(<<150>>)
    /\ \/ filesize' \in 0..MaxBlocks /\ UNCHANGED failed
       \/ filesize' = -1 /\ Fails("size")
    /\ nleft' = filesize' /\ offset' = restart_pos
    /\ ProtoOnly /\ UNCHANGED <<cmd, ret, port, privVars, dataVars,
                                restart_pos, is_translating_data>>

\* One round of the loop: _dp sends the block at offset.
SendBlock ==
    /\ pc = "send" /\ nleft > 0 /\ data_fd = "conn"
    /\ offset' = NextOffset(offset) /\ nleft' = NextLeft(nleft)
    /\ ProtoOnly /\ UNCHANGED <<protoVars, privVars, dataVars, restart_pos,
                                filesize, is_translating_data, failed>>

\* The loop is over, or _dp returned -1; the data connection is closed.
RetrEnd ==
    /\ pc = "send"
    /\ \/ nleft <= 0 /\ Reply(<<226>>) /\ UNCHANGED failed
       \/ /\ nleft > 0 /\ Reply(<<451>>)
          /\ \/ data_fd # "conn" /\ UNCHANGED failed
             \/ data_fd = "conn" /\ Fails("data")
    /\ data_fd' = Closed(data_fd) /\ is_translating_data' = FALSE
    /\ offset' = 0 /\ nleft' = 0 /\ filesize' = 0
    /\ EndCommand /\ ProtoOnly
    /\ UNCHANGED <<privVars, p_addr, data_lost, restart_pos>>

\* upload_file opens the file.
UploadBegin ==
    /\ pc = "opened" /\ cmd \in Uploads /\ pc' = "recv" /\ Reply(<<150>>)
    /\ ProtoOnly /\ UNCHANGED <<cmd, ret, port, privVars, dataVars, fileVars,
                                failed>>

\* It cannot: it returns as it is, with a reply or (fstat, lseek) without one.
UploadGivesUp ==
    /\ pc = "opened" /\ cmd \in Uploads /\ Fails("file")
    /\ Reply(<<553>>) \/ UNCHANGED replies
    /\ EndCommand /\ ProtoOnly
    /\ UNCHANGED <<privVars, dataVars, fileVars>>

\* recv on the data connection: the end of the data, an error, or data that
\* writen then sends to the file descriptor as if it were a socket.
UploadEnd ==
    /\ pc = "recv"
    /\ \/ data_fd = "conn" /\ Reply(<<226>>) /\ UNCHANGED failed
       \/ data_fd = "conn" /\ Reply(<<451>>) /\ UNCHANGED failed
       \/ data_fd = "conn" /\ Reply(<<426>>) /\ Fails("data")
       \/ data_fd # "conn" /\ Reply(<<426>>) /\ UNCHANGED failed
    /\ data_fd' = Closed(data_fd) /\ is_translating_data' = FALSE
    /\ EndCommand /\ ProtoOnly
    /\ UNCHANGED <<privVars, p_addr, data_lost, restart_pos, offset, nleft,
                   filesize>>

\* trans_list: whatever becomes of the listing, 150 and 226.
List ==
    /\ pc = "opened" /\ cmd = "LIST" /\ Reply(ListReplies)
    /\ data_fd' = Closed(data_fd)
    /\ EndCommand /\ ProtoOnly
    /\ UNCHANGED <<privVars, p_addr, data_lost, fileVars, failed>>

-----------------------------------------------------------------------------
Nobody == \/ SessionStart \/ NobodyLoop \/ NobodyRecvCmd \/ PrivGetDataSock
          \/ PrivPasvActive \/ PrivPasvListen \/ PrivPasvAccept \/ SessionFree

\* What the client decides: its next command, or to leave.
Client == \/ ControlClosed \/ LocalCommand \/ Quit \/ Port \/ Pasv
          \/ RetrWithoutHooks
          \/ \E pos \in 0..MaxBlocks : Restart(pos)
          \/ \E c \in Transfers : Transfer(c)

Proto == \/ Greet \/ ProtoLoop \/ PasvResult \/ PasvPort \/ ChooseMode
         \/ DataResult \/ DataFd \/ RetrBegin \/ SendBlock \/ RetrEnd
         \/ UploadBegin \/ UploadGivesUp \/ UploadEnd \/ List

Next == ExitLoop \/ Nobody \/ Client \/ Proto

Spec == Init /\ [][Next]_vars

\* Both threads are scheduled; the client of a data connection connects,
\* sends and closes in the end (the network timeouts of the system otherwise).
FairSpec == Spec /\ WF_vars(Nobody) /\ WF_vars(Proto)

-----------------------------------------------------------------------------
(* Properties *)

\* The types of the variables, and the bounds of the download's locals.
TypeOK ==
    /\ quit \in BOOLEAN /\ privUp \in BOOLEAN /\ freed \in BOOLEAN
    /\ pc \in ProtoPc /\ npc \in NobodyPc
    /\ cmd \in {"none", "local", "QUIT", "REST", "PORT", "PASV"} \cup Transfers
    /\ ret \in {"none", "success", "failure"} /\ port \in {"none", "data", "junk"}
    /\ replies \in Seq(Nat)
    /\ toNobody \in Seq(0..255) /\ toProto \in Seq(0..255)
    /\ p_addr \in BOOLEAN /\ listen_fd \in {"none", "open"}
    /\ data_fd \in {"none", "conn", "junk"}
    /\ restart_pos \in 0..MaxBlocks /\ offset \in 0..2 * MaxBlocks
    /\ filesize \in -1..MaxBlocks /\ nleft \in -1..MaxBlocks
    /\ is_translating_data \in BOOLEAN /\ data_lost \in BOOLEAN
    /\ skew \in 0..MaxSkew /\ failed \subseteq Faults

(* The exchange of the two threads.  While no accept has failed in the     *)
(* middle, the bytes in flight and the positions of the threads agree:     *)
(* outside an exchange both directions are empty and the nobody thread     *)
(* serves nothing; within one, exactly one of the request, the service and *)
(* the answer is there, and the answer is the one the proto thread's next  *)
(* reads expect.                                                           *)
Asked(msg)       == toNobody = msg  /\ toProto = <<>> /\ npc \notin Serving
Served(op, rest) == toNobody = rest /\ toProto = <<>> /\ npc = op
Answer(msg)      == toNobody = <<>> /\ toProto = msg  /\ npc \notin Serving
Hung(kind)       == Answer(<<>>) /\ kind \in failed

PortExchange ==
    /\ pc = "portRes" =>
         /\ p_addr /\ listen_fd = "none"
         /\ \/ Asked(CmdMsg(GET_DATA_SOCK) \o AddrMsg)
            \/ Served("get_data_sock", AddrMsg)
            \/ Answer(ResultMsg(RESULT_OK) \o ConnHandle)
            \/ Hung("connect")
    /\ pc = "portFd" => p_addr /\ listen_fd = "none" /\ Answer(ConnHandle)

AcceptExchange ==
    /\ pc = "acceptRes" =>
         /\ ~p_addr
         /\ \/ Asked(CmdMsg(PASV_ACCEPT)) /\ listen_fd = "open"
            \/ Served("pasv_accept", <<>>) /\ listen_fd = "open"
            \/ Answer(ResultMsg(RESULT_OK) \o ConnHandle) /\ listen_fd = "none"
            \/ /\ Answer(ResultMsg(RESULT_BAD)) /\ listen_fd = "none"
               /\ "acceptTimeout" \in failed
    /\ pc = "acceptFd" =>
         /\ ~p_addr /\ listen_fd = "none"
         /\ Answer(ConnHandle) \/ Hung("acceptTimeout")

ListenExchange ==
    /\ pc = "listenRes" =>
         \/ Asked(CmdMsg(PASV_LISTEN)) \/ Served("pasv_listen", <<>>)
         \/ Answer(ResultMsg(RESULT_OK) \o IntMsg(DATA_PORT)) /\ listen_fd = "open"
         \/ Hung("listen")
    /\ pc = "listenPort" => Answer(IntMsg(DATA_PORT)) /\ listen_fd = "open"

ActiveExchange ==
    pc = "active" =>
         \/ Asked(CmdMsg(PASV_ACTIVE)) \/ Served("pasv_active", <<>>)
         \/ Answer(IntMsg(IF listen_fd = "open" THEN 1 ELSE 0))

InStep == /\ pc \notin Waiting => Answer(<<>>)
          /\ PortExchange /\ AcceptExchange /\ ListenExchange /\ ActiveExchange

Exchange == privUp /\ skew = 0 => InStep

\* Each accept that fails without a timeout leaves one byte too many for the
\* proto thread, for the rest of the session (trans_data.c reads a result and
\* a handle, priv_command.c wrote two results and a handle).
LagIsSkew ==
    pc \notin Waiting \cup {"none"} => Len(toProto) = skew /\ toNobody = <<>>

\* How many bytes the proto thread waits for.
Awaited == CASE pc \in {"active", "listenPort"} -> IntLen
             [] pc \in {"portFd", "acceptFd"}   -> SockLen
             [] OTHER                           -> 1

\* When the proto thread waits for bytes nobody will send, either an operation
\* of the nobody thread failed without an answer, or the nobody thread saw quit
\* and left in the middle of the exchange.
StallHasCause ==
    /\ pc \in Waiting /\ ~CanRecv(privUp, toProto, Awaited)
    /\ npc \notin Serving \cup {"loop"} /\ (npc = "recv" => toNobody = <<>>)
    => npc = "wait" \/ failed \cap {"connect", "listen", "acceptTimeout"} # {}

\* A transfer that goes on has a data connection, in a session whose socket
\* pair exists and where no accept failed in the middle: in spite of the
\* results get_port_data_fd and get_pasv_data_fd report and ignore.
TransferHasConnection ==
    privUp /\ skew = 0 /\ pc \in {"opened", "send", "recv"} => data_fd = "conn"

\* The reply 227 names the port on which the nobody thread really listens.
PassiveReplyTrue ==
    privUp /\ skew = 0 /\ pc = "loop" /\ replies = <<227>>
        => port = "data" /\ listen_fd = "open"

\* Once PORT and PASV are both pending, no step of either thread clears one of
\* them (both wait for a data connection, and get_trans_data_fd refuses to open
\* one): only a PASV that fails or the end of the session does.
BothPending == p_addr /\ listen_fd = "open"
BothModesStick ==
    [][privUp /\ skew' = 0 /\ BothPending /\ ~freed'
         => BothPending' \/ "listen" \in failed']_vars

\* The replies to a transfer: nothing after the completion, a completion of a
\* transfer (226, 426, 451) only after its 150, and never 150 without one
\* unless the transfer is still going on.
Completions == {226, 426, 451}
ReplyOrder ==
    /\ \A i \in DOMAIN replies :
         replies[i] \in Completions =>
             i = Len(replies) /\ i > 1 /\ replies[i - 1] = 150
    /\ (pc \in {"loop", "readline"} /\ replies # <<>>)
         => replies[Len(replies)] # 150

\* The data connection of a transfer is closed by that transfer: its handle is
\* overwritten only after an upload that could not open its file, or in a
\* session whose stream is out of step.
DataLostHasCause == data_lost => "file" \in failed \/ skew > 0

\* RETR says "Transfer complete." only when every block from the restart
\* position to the end of the file was sent (when the size is known).
CompletionTruthful ==
    [][pc = "send" /\ pc' = "loop" /\ filesize >= 0
         /\ replies' = Append(replies, 226) => offset >= filesize]_vars

\* A command is dealt with: the proto thread comes back to readline or ends,
\* unless an operation of the nobody thread failed without a full answer, or it
\* was told to quit.  (Without a socket pair it spins.)
CommandEnds ==
    (pc \notin {"readline", "done"}) ~>
        \/ pc \in {"readline", "done"} \/ npc \in {"wait", "end"}
        \/ failed \cap {"connect", "listen", "acceptTimeout"} # {}

(* What comments and documents of the repository say and the code does not do *)

\* main.c:159, "waiting for private thread to quit": when the private thread
\* has ended the session thread goes on to session_free.
SessionReleased == pc = "done" ~> freed
=============================================================================
