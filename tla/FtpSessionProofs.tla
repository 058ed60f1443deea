-------------------------- MODULE FtpSessionProofs --------------------------
(***************************************************************************)
(* The session of FtpSession for all sizes, faults and bounds.  First its  *)
(* types; then that its two threads agree on what is in the private        *)
(* stream, what a transfer and a reply 227 may take for granted because of *)
(* it, and what is left of the agreement when accepts have failed in the   *)
(* middle and the stream is out of step.  Then what a session promises: to *)
(* its client, the order of the replies to a transfer, what "Transfer      *)
(* complete." and the reply 227 mean, and when a data connection is        *)
(* forgotten; between its threads, the calls of PrivRpc.                   *)
(***************************************************************************)
EXTENDS FtpSessionRpc, SequenceTheorems, TLAPS

-----------------------------------------------------------------------------
(* The framing of the private socket pair: what the messages are, and what *)
(* receiving one message takes from a stream that starts with it           *)

Byte == 0..255

\* A word of n bytes is a sequence of n bytes (priv_sock_send_int writes
\* sizeof(int) bytes whatever the value).
LEMMA WordType ==
    ASSUME NEW v \in Byte, NEW n \in Nat
    PROVE  Word(v, n) \in Seq(Byte) /\ Len(Word(v, n)) = n
<1>1. Word(v, n) \in [1..n -> Byte] BY DEF Word, Byte
<1>2. Word(v, n) \in Seq(Byte) BY <1>1, SeqDef
<1>3. DOMAIN Word(v, n) = 1..n BY DEF Word
<1> QED BY <1>2, <1>3, LenProperties

\* The first byte of a word is its value.
LEMMA WordLow ==
    ASSUME NEW v \in Byte, NEW n \in Nat, n >= 1
    PROVE  Low(Word(v, n)) = v
BY DEF Word, Low

\* The handle -1 is SockLen bytes and is not the handle of a connection.
LEMMA HandleType ==
    /\ ConnHandle \in Seq(Byte) /\ Len(ConnHandle) = SockLen
    /\ INVALID_SOCKET \in Seq(Byte) /\ Len(INVALID_SOCKET) = SockLen
    /\ ConnHandle # INVALID_SOCKET
<1>1. INVALID_SOCKET \in [1..SockLen -> Byte]
  BY SizesAssumption DEF INVALID_SOCKET, Byte
<1>2. INVALID_SOCKET \in Seq(Byte) BY <1>1, SeqDef, SizesAssumption
<1>3. DOMAIN INVALID_SOCKET = 1..SockLen BY DEF INVALID_SOCKET
<1>4. ConnHandle \in Seq(Byte) /\ Len(ConnHandle) = SockLen
  <2>1. 4 \in Byte BY DEF Byte
  <2> QED BY <2>1, WordType, SizesAssumption DEF ConnHandle
<1>5. ConnHandle[1] = 4 /\ INVALID_SOCKET[1] = 255
  BY SizesAssumption DEF ConnHandle, Word, INVALID_SOCKET
<1> QED BY <1>2, <1>3, <1>4, <1>5, LenProperties, SizesAssumption

\* An integer is IntLen bytes, and two integers differ when their low bytes do.
LEMMA IntMsgType ==
    ASSUME NEW v \in Byte
    PROVE  IntMsg(v) \in Seq(Byte) /\ Len(IntMsg(v)) = IntLen /\ IntMsg(v)[1] = v
BY WordType, SizesAssumption DEF IntMsg, Byte, Word

\* A one-byte message.
LEMMA ByteMsgType ==
    ASSUME NEW b \in Byte
    PROVE  <<b>> \in Seq(Byte) /\ Len(<<b>>) = 1 /\ Low(<<b>>) = b
BY DEF Low

\* The address that follows GET_DATA_SOCK.
LEMMA AddrMsgType == AddrMsg \in Seq(Byte) /\ Len(AddrMsg) \in Nat
<1> DEFINE chars == [i \in 1..IpLen |-> 49]
<1>1. chars \in [1..IpLen -> Byte] BY DEF Byte
<1>2. IpLen \in Nat BY SizesAssumption
<1>3. chars \in Seq(Byte) BY <1>1, <1>2, SeqDef
<1>4. IntMsg(IpLen) \in Seq(Byte) /\ IntMsg(7) \in Seq(Byte)
  <2>1. IpLen \in Byte /\ 7 \in Byte BY SizesAssumption DEF Byte
  <2> QED BY <2>1, IntMsgType
<1>5. StrMsg \in Seq(Byte) BY <1>3, <1>4, ConcatProperties DEF StrMsg
<1> QED BY <1>4, <1>5, ConcatProperties, LenProperties DEF AddrMsg

\* Sending and receiving keep a stream a sequence of bytes.
LEMMA SentType ==
    ASSUME NEW up, NEW s \in Seq(Byte), NEW m \in Seq(Byte)
    PROVE  Sent(up, s, m) \in Seq(Byte)
BY ConcatProperties DEF Sent

\* What is left of a stream after a read is a stream.
LEMMA RestType ==
    ASSUME NEW up, NEW s \in Seq(Byte), NEW n \in Nat
    PROVE  Rest(up, s, n) \in Seq(Byte)
<1>1. Len(s) \in Nat BY LenProperties
<1>2. \A i \in (n + 1)..Len(s) : s[i] \in Byte BY <1>1, ElementOfSeq
<1>3. SubSeq(s, n + 1, Len(s)) \in Seq(Byte)
  BY <1>1, <1>2, SubSeqProperties
<1> QED BY <1>3 DEF Rest

\* A send into an empty stream of a pair that exists leaves the message.
LEMMA SentToEmpty ==
    ASSUME NEW m \in Seq(Byte) PROVE Sent(TRUE, <<>>, m) = m
BY ConcatEmptySeq DEF Sent

\* Receiving the only message of a stream.
LEMMA RecvWhole ==
    ASSUME NEW s \in Seq(Byte)
    PROVE  Recv(TRUE, s, Len(s)) = s /\ Rest(TRUE, s, Len(s)) = <<>>
<1>1. Len(s) \in Nat BY LenProperties
<1>2. SubSeq(s, Len(s) + 1, Len(s)) = <<>> BY <1>1, SubSeqEmpty
<1> QED BY <1>2, SubSeqFull DEF Recv, Rest

\* Receiving the first byte of a stream leaves what follows it.
LEMMA RecvByte ==
    ASSUME NEW b \in Byte, NEW s \in Seq(Byte)
    PROVE  /\ Recv(TRUE, <<b>> \o s, 1) = <<b>>
           /\ Rest(TRUE, <<b>> \o s, 1) = s
<1> DEFINE t == <<b>> \o s
<1>1. /\ t \in Seq(Byte) /\ Len(t) = 1 + Len(s)
      /\ \A i \in 1..(1 + Len(s)) : t[i] = IF i <= 1 THEN <<b>>[i] ELSE s[i - 1]
  BY ByteMsgType, ConcatProperties
<1>2. Len(s) \in Nat BY LenProperties
<1>3. t[1] = b BY <1>1, <1>2
<1>4. SubSeq(t, 1, 1) = <<b>>
  <2>1. \A i \in 1..1 : t[i] \in Byte BY <1>3
  <2>2. /\ SubSeq(t, 1, 1) \in Seq(Byte) /\ Len(SubSeq(t, 1, 1)) = 1
        /\ \A i \in 1..1 : SubSeq(t, 1, 1)[i] = t[i]
    BY <2>1, SubSeqProperties
  <2>3. /\ <<b>> \in Seq(Byte) /\ Len(<<b>>) = 1
        /\ \A i \in 1..1 : SubSeq(t, 1, 1)[i] = <<b>>[i]
    BY <2>2, <1>3, ByteMsgType
  <2> HIDE DEF t
  <2> QED BY <2>2, <2>3, SeqEqual
<1>5. SubSeq(t, 2, Len(t)) = s
  <2>1. \A i \in 2..Len(t) : t[i] \in Byte BY <1>1, <1>2, ElementOfSeq
  <2>2. /\ SubSeq(t, 2, Len(t)) \in Seq(Byte)
        /\ Len(SubSeq(t, 2, Len(t))) = Len(s)
        /\ \A i \in 1..Len(s) : SubSeq(t, 2, Len(t))[i] = t[i + 1]
    BY <2>1, <1>1, <1>2, SubSeqProperties
  <2>3. \A i \in 1..Len(s) : t[i + 1] = s[i] BY <1>1, <1>2
  <2> QED BY <2>2, <2>3, SeqEqual
<1> QED BY <1>4, <1>5 DEF Recv, Rest

-----------------------------------------------------------------------------
(* The messages and what receiving them yields *)

\* Every message of the two threads is a sequence of bytes.
LEMMA MessageTypes ==
    /\ \A c \in {GET_DATA_SOCK, PASV_ACTIVE, PASV_LISTEN, PASV_ACCEPT} :
         CmdMsg(c) \in Seq(Byte)
    /\ CmdMsg(GET_DATA_SOCK) \o AddrMsg \in Seq(Byte)
    /\ \A b \in BOOLEAN : ActiveReply(b) \in Seq(Byte)
    /\ ListenReply \in Seq(Byte) /\ ConnectedReply \in Seq(Byte)
    /\ TimeoutReply \in Seq(Byte) /\ ErrorReply \in Seq(Byte)
<1>1. \A b \in {0, 1, 2, 3, 4, DATA_PORT} : b \in Byte BY DEF Byte, DATA_PORT
<1>2. \A b \in Byte : <<b>> \in Seq(Byte) BY ByteMsgType
<1>3. \A b \in Byte : IntMsg(b) \in Seq(Byte) BY IntMsgType
<1>4. \A c \in {GET_DATA_SOCK, PASV_ACTIVE, PASV_LISTEN, PASV_ACCEPT} :
        CmdMsg(c) \in Seq(Byte)
  BY <1>1, <1>2 DEF CmdMsg, GET_DATA_SOCK, PASV_ACTIVE, PASV_LISTEN, PASV_ACCEPT
<1>5. CmdMsg(GET_DATA_SOCK) \o AddrMsg \in Seq(Byte)
  BY <1>4, AddrMsgType, ConcatProperties
<1>6. \A b \in BOOLEAN : ActiveReply(b) \in Seq(Byte)
  BY <1>1, <1>3 DEF ActiveReply
<1>7. ResultMsg(RESULT_OK) \in Seq(Byte) /\ ResultMsg(RESULT_BAD) \in Seq(Byte)
  BY <1>1, <1>2 DEF ResultMsg, RESULT_OK, RESULT_BAD
<1>8. ListenReply \in Seq(Byte)
  BY <1>1, <1>3, <1>7, ConcatProperties DEF ListenReply
<1>9. ConnectedReply \in Seq(Byte)
  BY <1>7, HandleType, ConcatProperties DEF ConnectedReply
<1>10. ErrorReply \in Seq(Byte)
  <2>1. ResultMsg(RESULT_BAD) \o ResultMsg(RESULT_OK) \in Seq(Byte)
    BY <1>7, ConcatProperties
  <2> QED BY <2>1, HandleType, ConcatProperties DEF ErrorReply
<1> QED BY <1>4, <1>5, <1>6, <1>7, <1>8, <1>9, <1>10 DEF TimeoutReply

\* The replies of a command are numbers.
LEMMA ReplyTypes ==
    ASSUME NEW r \in Seq(Nat)
    PROVE  /\ \A c \in Nat : r \o <<c>> \in Seq(Nat) /\ <<c>> \in Seq(Nat)
           /\ \A c, d \in Nat : r \o <<c, d>> \in Seq(Nat)
           /\ \A c : /\ r \o NoDataReply(c) \in Seq(Nat)
                     /\ r \o (<<425>> \o NoDataReply(c)) \in Seq(Nat)
           /\ <<>> \in Seq(Nat)
           /\ LocalReplies \subseteq Seq(Nat)
<1>1. \A c \in Nat : <<c>> \in Seq(Nat) OBVIOUS
<1>2. \A c, d \in Nat : <<c, d>> \in Seq(Nat) OBVIOUS
<1>3. \A c : NoDataReply(c) \in Seq(Nat) BY DEF NoDataReply
<1>4. \A c : <<425>> \o NoDataReply(c) \in Seq(Nat)
  BY <1>1, <1>3, ConcatProperties
<1>5. LocalReplies \subseteq Seq(Nat)
  <2>1. \A t \in LocalReplies : t = <<>> \/ \E c \in Nat : t = <<c>>
    BY DEF LocalReplies, LoginReplies, ChdirReplies, SettingReplies, FileSystemReplies,
           SiteReplies, StatusReplies
  <2>2. <<>> \in Seq(Nat) OBVIOUS
  <2> QED BY <2>1, <2>2, <1>1
<1> QED BY <1>1, <1>2, <1>3, <1>4, <1>5, ConcatProperties

-----------------------------------------------------------------------------
(* Types *)

\* The locals of fake_download_file while its loop runs: what it has sent and
\* what it has left make up the size it was told.
Locals == pc = "send" => offset + nleft = restart_pos + filesize

\* The invariant that makes TypeOK inductive: without Locals nothing bounds
\* the offset.
TypeInv == TypeOK /\ Locals

\* The session thread and the nobody thread keep the types.
LEMMA NobodyTypes == ASSUME TypeInv, Nobody PROVE TypeInv'
<1> USE SessionAssumption, SizesAssumption
<1> USE DEF TypeInv
<1>0. /\ toNobody \in Seq(Byte) /\ toProto \in Seq(Byte) /\ privUp \in BOOLEAN
      /\ npc \in NobodyPc
  BY DEF TypeOK, Byte
<1>1. \A n \in Nat : Rest(privUp, toNobody, n) \in Seq(0..255)
  BY <1>0, RestType DEF Byte
<1>2. \A m \in Seq(Byte) : Sent(privUp, toProto, m) \in Seq(0..255)
  BY <1>0, SentType DEF Byte
<1>3. CASE SessionStart
  <2>1. /\ privUp' \in BOOLEAN /\ pc' \in {"greet", "done"}
        /\ npc' \in {"loop", "wait"} /\ failed' \subseteq Faults
    BY <1>3 DEF SessionStart, Fails, TypeOK
  <2> QED BY <1>3, <2>1 DEF SessionStart, TypeOK, Locals, ProtoPc, NobodyPc,
              privVars, dataVars, fileVars
<1>4. CASE NobodyLoop
  BY <1>4 DEF NobodyLoop, NobodyOnly, TypeOK, Locals, NobodyPc, privVars,
              protoVars, dataVars, fileVars
<1>5. CASE NobodyRecvCmd
  <2>1. npc' \in NobodyPc
    BY <1>5 DEF NobodyRecvCmd, Operation, NobodyPc, Serving
  <2>2. toNobody' \in Seq(0..255) BY <1>5, <1>1 DEF NobodyRecvCmd
  <2> QED BY <1>5, <2>1, <2>2 DEF NobodyRecvCmd, NobodyOnly, TypeOK, Locals,
              protoVars, dataVars, fileVars
<1>6. CASE PrivGetDataSock
  <2>1. toNobody' \in Seq(0..255)
    BY <1>6, <1>1, AddrMsgType DEF PrivGetDataSock, AddressLen
  <2>2. toProto' \in Seq(0..255)
    BY <1>6, <1>2, <1>0, MessageTypes DEF PrivGetDataSock, Byte
  <2> QED BY <1>6, <2>1, <2>2 DEF PrivGetDataSock, NobodyOnly, TypeOK, Locals,
              NobodyPc, Fails, protoVars, dataVars, fileVars
<1>7. CASE PrivPasvActive
  <2>1. toProto' \in Seq(0..255)
    BY <1>7, <1>2, MessageTypes DEF PrivPasvActive
  <2> QED BY <1>7, <2>1 DEF PrivPasvActive, NobodyOnly, TypeOK, Locals,
              NobodyPc, protoVars, dataVars, fileVars
<1>8. CASE PrivPasvListen
  <2>1. toProto' \in Seq(0..255)
    BY <1>8, <1>2, <1>0, MessageTypes DEF PrivPasvListen, Byte
  <2> QED BY <1>8, <2>1 DEF PrivPasvListen, NobodyOnly, TypeOK, Locals,
              NobodyPc, Fails, protoVars, dataVars, fileVars
<1>9. CASE PrivPasvAccept
  <2>1. toProto' \in Seq(0..255)
    BY <1>9, <1>2, MessageTypes DEF PrivPasvAccept
  <2>2. skew' \in 0..MaxSkew /\ failed' \subseteq Faults
    BY <1>9 DEF PrivPasvAccept, Fails, TypeOK
  <2> QED BY <1>9, <2>1, <2>2 DEF PrivPasvAccept, NobodyOnly, TypeOK, Locals,
              NobodyPc, protoVars, dataVars, fileVars
<1>10. CASE SessionFree
  <2>1. TypeOK'
    <3>1. /\ npc' \in NobodyPc /\ freed' \in BOOLEAN /\ p_addr' \in BOOLEAN
          /\ listen_fd' \in {"none", "open"} /\ data_fd' \in {"none", "conn", "junk"}
      BY <1>10 DEF SessionFree, NobodyPc
    <3>2. UNCHANGED <<quit, privUp, protoVars, privVars, data_lost, fileVars,
                      skew, failed>>
      BY <1>10 DEF SessionFree
    <3> QED BY <3>1, <3>2 DEF TypeOK, privVars, protoVars, fileVars
  <2>2. Locals' BY <1>10 DEF SessionFree, Locals, protoVars, fileVars
  <2> QED BY <2>1, <2>2
<1> QED BY <1>3, <1>4, <1>5, <1>6, <1>7, <1>8, <1>9, <1>10 DEF Nobody

\* The commands of the client keep the types.
LEMMA ClientTypes == ASSUME TypeInv, Client PROVE TypeInv'
<1> USE SessionAssumption DEF TypeInv
<1>0. /\ toNobody \in Seq(Byte) /\ replies \in Seq(Nat) /\ privUp \in BOOLEAN
      /\ p_addr \in BOOLEAN
  BY DEF TypeOK, Byte
<1>1. \A m \in Seq(Byte) : Sent(privUp, toNobody, m) \in Seq(0..255)
  BY <1>0, SentType DEF Byte
<1>2. \A c \in Nat : <<c>> \in Seq(Nat) BY <1>0, ReplyTypes
<1>3. <<>> \in Seq(Nat) /\ LocalReplies \subseteq Seq(Nat) BY <1>0, ReplyTypes
<1>4. pc = "readline" BY DEF Client, ControlClosed, LocalCommand, Quit, Port, Pasv,
                             RetrWithoutHooks, Restart, Transfer
<1>5. CASE ControlClosed
  <2>1. ret' \in {"success", "failure"} /\ failed' \subseteq Faults
    BY <1>5 DEF ControlClosed, Fails, TypeOK
  <2> QED BY <1>5, <1>3, <2>1 DEF ControlClosed, ProtoOnly, TypeOK, Locals,
              ProtoPc, privVars, dataVars, fileVars
<1>6. CASE LocalCommand
  BY <1>6, <1>3 DEF LocalCommand, ProtoOnly, TypeOK, Locals, ProtoPc, privVars,
                    dataVars, fileVars
<1>7. CASE Quit
  BY <1>7, <1>2 DEF Quit, ProtoOnly, TypeOK, Locals, ProtoPc, privVars, dataVars,
                    fileVars
<1>8. CASE Port
  <2>1. p_addr' \in BOOLEAN BY <1>8, <1>0 DEF Port
  <2>2. replies' \in Seq(Nat)
    <3>1. PICK c \in Nat : replies' = <<c>> BY <1>8 DEF Port
    <3> QED BY <3>1, <1>2
  <2> QED BY <1>8, <2>1, <2>2 DEF Port, ProtoOnly, TypeOK, Locals, ProtoPc, privVars,
              fileVars
<1>9. CASE Pasv
  <2>1. toNobody' \in Seq(0..255) BY <1>9, <1>1, MessageTypes DEF Pasv
  <2> QED BY <1>9, <1>3, <2>1 DEF Pasv, ProtoOnly, TypeOK, Locals, ProtoPc,
              Waiting, dataVars, fileVars
<1>10. CASE RetrWithoutHooks
  BY <1>10, <1>2 DEF RetrWithoutHooks, ProtoOnly, TypeOK, Locals, ProtoPc,
                     Transfers, privVars, dataVars, fileVars
<1>11. CASE \E pos \in 0..MaxBlocks : Restart(pos)
  BY <1>11, <1>2 DEF Restart, ProtoOnly, TypeOK, Locals, ProtoPc, privVars,
                     dataVars
<1>12. CASE \E c \in Transfers : Transfer(c)
  <2>1. PICK c \in Transfers : Transfer(c) BY <1>12
  <2>2. toNobody' \in Seq(0..255) BY <2>1, <1>1, MessageTypes DEF Transfer
  <2>3. is_translating_data' \in BOOLEAN BY <2>1 DEF Transfer
  <2> QED BY <2>1, <1>3, <2>2, <2>3 DEF Transfer, ProtoOnly, TypeOK, Locals,
              ProtoPc, Waiting, dataVars
<1> QED BY <1>5, <1>6, <1>7, <1>8, <1>9, <1>10, <1>11, <1>12 DEF Client

\* The steps of the proto thread within a command keep the types.
LEMMA ProtoTypes == ASSUME TypeInv, Proto PROVE TypeInv'
<1> USE SessionAssumption, SizesAssumption DEF TypeInv
<1>0. /\ toNobody \in Seq(Byte) /\ toProto \in Seq(Byte)
      /\ replies \in Seq(Nat) /\ privUp \in BOOLEAN /\ failed \subseteq Faults
  BY DEF TypeOK, Byte
<1>1. \A m \in Seq(Byte) : Sent(privUp, toNobody, m) \in Seq(0..255)
  BY <1>0, SentType DEF Byte
<1>2. \A n \in Nat : Rest(privUp, toProto, n) \in Seq(0..255)
  BY <1>0, RestType DEF Byte
<1>3. \A c \in Nat : replies \o <<c>> \in Seq(Nat) BY <1>0, ReplyTypes
<1>4. CASE Greet
  BY <1>4, <1>3 DEF Greet, Reply, ProtoOnly, TypeOK, Locals, ProtoPc, privVars,
                    dataVars, fileVars
<1>5. CASE ProtoLoop
  <2>1. pc' \in {"done", "readline"} /\ ret' \in {"none", "success", "failure"}
    BY <1>5 DEF ProtoLoop, TypeOK
  <2> QED BY <1>5, <2>1 DEF ProtoLoop, ProtoOnly, TypeOK, Locals, ProtoPc,
              privVars, dataVars, fileVars
<1>6. CASE PasvResult
  <2>1. pc' \in {"loop", "listenPort"} BY <1>6 DEF PasvResult
  <2>2. replies' \in Seq(Nat)
    <3>1. replies \o <<500>> \in Seq(Nat) BY <1>3
    <3>2. replies' = replies \/ replies' = replies \o <<500>>
      BY <1>6 DEF PasvResult, Reply
    <3> QED BY <1>0, <3>1, <3>2, Zenon
  <2>3. toProto' \in Seq(0..255) BY <1>6, <1>2, SizesAssumption DEF PasvResult
  <2>4. /\ ProtoOnly
        /\ UNCHANGED <<cmd, ret, port, toNobody, dataVars, fileVars, failed>>
    BY <1>6 DEF PasvResult
  <2> QED BY <2>1, <2>2, <2>3, <2>4 DEF ProtoOnly, TypeOK, Locals, ProtoPc, Waiting,
              dataVars, fileVars
<1>7. CASE PasvPort
  <2>1. port' \in {"data", "junk"} BY <1>7 DEF PasvPort
  <2> QED BY <1>7, <1>2, <1>3, <2>1 DEF PasvPort, Reply, ProtoOnly, TypeOK,
              Locals, ProtoPc, dataVars, fileVars
<1>8. CASE ChooseMode
  <2>0. /\ replies \o NoDataReply(cmd) \in Seq(Nat)
        /\ replies \o (<<425>> \o NoDataReply(cmd)) \in Seq(Nat)
    BY <1>0, ReplyTypes
  <2>1. pc' \in {"loop", "portRes", "acceptRes"} BY <1>8 DEF ChooseMode
  <2>2. replies' \in Seq(Nat)
    <3>1. \/ replies' = replies \o NoDataReply(cmd)
          \/ replies' = replies \o (<<425>> \o NoDataReply(cmd))
          \/ replies' = replies
      BY <1>8 DEF ChooseMode, Reply
    <3> QED BY <1>0, <2>0, <3>1, Zenon
  <2>3. toNobody' \in Seq(0..255)
    <3>1. \/ toNobody' = toNobody
          \/ toNobody' = Sent(privUp, toNobody, CmdMsg(GET_DATA_SOCK) \o AddrMsg)
          \/ toNobody' = Sent(privUp, toNobody, CmdMsg(PASV_ACCEPT))
      BY <1>8, Zenon DEF ChooseMode
    <3>2. /\ Sent(privUp, toNobody, CmdMsg(GET_DATA_SOCK) \o AddrMsg) \in Seq(0..255)
          /\ Sent(privUp, toNobody, CmdMsg(PASV_ACCEPT)) \in Seq(0..255)
      BY <1>1, MessageTypes
    <3>3. toNobody \in Seq(0..255) BY DEF TypeOK
    <3> QED BY <3>1, <3>2, <3>3, Zenon
  <2>4. toProto' \in Seq(0..255) BY <1>8, <1>2, SizesAssumption DEF ChooseMode
  <2>5. ProtoOnly /\ UNCHANGED <<cmd, ret, port, dataVars, fileVars, failed>>
    BY <1>8 DEF ChooseMode
  <2> QED BY <2>1, <2>2, <2>3, <2>4, <2>5 DEF ProtoOnly, TypeOK, Locals, ProtoPc,
              Waiting, dataVars, fileVars
<1>9. CASE DataResult
  <2>1. pc' \in {"portFd", "acceptFd"} BY <1>9 DEF DataResult
  <2>2. replies' \in Seq(Nat)
    <3>1. replies \o <<500>> \in Seq(Nat) BY <1>3
    <3>2. replies' = replies \/ replies' = replies \o <<500>>
      BY <1>9 DEF DataResult, Reply
    <3> QED BY <1>0, <3>1, <3>2, Zenon
  <2> QED BY <1>9, <1>2, <2>1, <2>2 DEF DataResult, ProtoOnly, TypeOK, Locals, ProtoPc,
              Waiting, dataVars, fileVars
<1>10. CASE DataFd
  <2>1. /\ data_fd' \in {"none", "conn", "junk"} /\ data_lost' \in BOOLEAN
        /\ p_addr' \in BOOLEAN
    BY <1>10 DEF DataFd, TypeOK
  <2> QED BY <1>10, <1>2, <2>1 DEF DataFd, ProtoOnly, TypeOK, Locals, ProtoPc,
              fileVars
<1>11. CASE RetrBegin
  <2>1. filesize' \in -1..MaxBlocks /\ failed' \subseteq Faults
    BY <1>11 DEF RetrBegin, Fails, TypeOK
  <2>2. nleft' = filesize' /\ offset' = restart_pos /\ restart_pos' = restart_pos
    BY <1>11 DEF RetrBegin
  <2>3. offset' \in 0..2 * MaxBlocks /\ Locals'
    BY <2>1, <2>2 DEF TypeOK, Locals
  <2> QED BY <1>11, <1>3, <2>1, <2>2, <2>3 DEF RetrBegin, Reply, ProtoOnly, TypeOK,
              ProtoPc, privVars, dataVars
<1>12. CASE SendBlock
  <2>1. /\ offset' = offset + 1 /\ nleft' = nleft - 1 /\ nleft > 0
        /\ offset + nleft = restart_pos + filesize
        /\ UNCHANGED <<restart_pos, filesize>>
    BY <1>12 DEF SendBlock, NextOffset, NextLeft, Locals
  <2>2. /\ offset' \in 0..2 * MaxBlocks /\ nleft' \in -1..MaxBlocks /\ Locals'
    BY <2>1 DEF TypeOK, Locals
  <2> QED BY <1>12, <2>1, <2>2 DEF SendBlock, ProtoOnly, TypeOK, protoVars, privVars,
              dataVars
<1>13. CASE RetrEnd
  <2>1. replies' \in Seq(Nat)
    <3>1. PICK c \in Nat : replies' = replies \o <<c>> BY <1>13 DEF RetrEnd, Reply
    <3> QED BY <3>1, <1>3
  <2>2. failed' \subseteq Faults BY <1>13, <1>0 DEF RetrEnd, Fails
  <2>3. /\ pc' = "loop" /\ data_fd' = "none" /\ is_translating_data' \in BOOLEAN
        /\ offset' = 0 /\ nleft' = 0 /\ filesize' = 0
    BY <1>13 DEF RetrEnd, EndCommand, Closed
  <2>4. /\ ProtoOnly
        /\ UNCHANGED <<cmd, ret, port, privVars, p_addr, data_lost, restart_pos>>
    BY <1>13 DEF RetrEnd, EndCommand
  <2>5. Locals' BY <2>3 DEF Locals
  <2>6. TypeOK'
    BY <2>1, <2>2, <2>3, <2>4 DEF ProtoOnly, TypeOK, ProtoPc, privVars
  <2> QED BY <2>5, <2>6
<1>14. CASE UploadBegin
  BY <1>14, <1>3 DEF UploadBegin, Reply, ProtoOnly, TypeOK, Locals, ProtoPc,
                     privVars, dataVars, fileVars
<1>15. CASE UploadGivesUp
  <2>1. replies' \in Seq(Nat) /\ failed' \subseteq Faults
    <3>1. replies \o <<553>> \in Seq(Nat) BY <1>3
    <3>2. replies' = replies \/ replies' = replies \o <<553>>
      BY <1>15 DEF UploadGivesUp, Reply
    <3>3. replies' \in Seq(Nat) BY <1>0, <3>1, <3>2, Zenon
    <3> QED BY <1>15, <1>0, <3>3 DEF UploadGivesUp, Fails
  <2> QED BY <1>15, <2>1 DEF UploadGivesUp, EndCommand, ProtoOnly, TypeOK, Locals,
              ProtoPc, privVars, dataVars, fileVars
<1>16. CASE UploadEnd
  <2>1. replies' \in Seq(Nat)
    <3>1. PICK c \in Nat : replies' = replies \o <<c>> BY <1>16 DEF UploadEnd, Reply
    <3> QED BY <3>1, <1>3
  <2>2. failed' \subseteq Faults BY <1>16, <1>0 DEF UploadEnd, Fails
  <2>3. /\ pc' = "loop" /\ data_fd' = "none" /\ is_translating_data' \in BOOLEAN
    BY <1>16 DEF UploadEnd, EndCommand, Closed
  <2>4. /\ ProtoOnly
        /\ UNCHANGED <<cmd, ret, port, privVars, p_addr, data_lost, restart_pos,
                       offset, nleft, filesize>>
    BY <1>16 DEF UploadEnd, EndCommand
  <2>5. Locals' BY <2>3 DEF Locals
  <2>6. TypeOK'
    BY <2>1, <2>2, <2>3, <2>4 DEF ProtoOnly, TypeOK, ProtoPc, privVars
  <2> QED BY <2>5, <2>6
<1>17. CASE List
  <2>1. replies' \in Seq(Nat)
    BY <1>17, <1>0, ReplyTypes DEF List, Reply, ListReplies
  <2> QED BY <1>17, <2>1 DEF List, EndCommand, Closed, ProtoOnly, TypeOK, Locals,
              ProtoPc, privVars, fileVars
<1> QED BY <1>4, <1>5, <1>6, <1>7, <1>8, <1>9, <1>10, <1>11, <1>12, <1>13, <1>14,
           <1>15, <1>16, <1>17 DEF Proto

\* TypeInv is inductive.
LEMMA TypeStep == ASSUME TypeInv, [Next]_vars PROVE TypeInv'
<1>1. CASE ExitLoop
  BY <1>1 DEF ExitLoop, TypeInv, TypeOK, Locals, protoVars, privVars, dataVars,
              fileVars
<1>2. CASE UNCHANGED vars
  BY <1>2 DEF vars, TypeInv, TypeOK, Locals, protoVars, privVars, dataVars, fileVars
<1> QED BY <1>1, <1>2, NobodyTypes, ClientTypes, ProtoTypes DEF Next

\* Every reachable state of a session has the types of TypeOK: above all, the
\* offset of a download stays below twice the longest file.
THEOREM TypeCorrect == Spec => []TypeOK
<1>1. Init => TypeInv
  <2>1. <<>> \in Seq(Nat) /\ <<>> \in Seq(0..255) OBVIOUS
  <2>2. /\ 0 \in 0..MaxBlocks /\ 0 \in 0..2 * MaxBlocks /\ 0 \in -1..MaxBlocks
        /\ 0 \in 0..MaxSkew
    BY SessionAssumption
  <2> QED BY <2>1, <2>2 DEF Init, TypeInv, TypeOK, Locals, ProtoPc, NobodyPc
<1>2. TypeInv /\ [Next]_vars => TypeInv' BY TypeStep
<1>3. TypeInv => TypeOK BY DEF TypeInv
<1> QED BY <1>1, <1>2, <1>3, PTL DEF Spec

-----------------------------------------------------------------------------
(* The messages of the exchange *)

\* What the nobody thread reads as the next command: the byte that was sent,
\* and after GET_DATA_SOCK the address is what is left.
LEMMA CommandRead ==
    /\ \A c \in {PASV_ACTIVE, PASV_LISTEN, PASV_ACCEPT} :
         Low(Recv(TRUE, CmdMsg(c), 1)) = c /\ Rest(TRUE, CmdMsg(c), 1) = <<>>
    /\ LET s == CmdMsg(GET_DATA_SOCK) \o AddrMsg
       IN  Low(Recv(TRUE, s, 1)) = GET_DATA_SOCK /\ Rest(TRUE, s, 1) = AddrMsg
    /\ Rest(TRUE, AddrMsg, AddressLen) = <<>>
<1>1. \A c \in {PASV_ACTIVE, PASV_LISTEN, PASV_ACCEPT, GET_DATA_SOCK} : c \in Byte
  BY DEF Byte, PASV_ACTIVE, PASV_LISTEN, PASV_ACCEPT, GET_DATA_SOCK
<1>2. \A c \in Byte : /\ Low(Recv(TRUE, <<c>>, 1)) = c /\ Rest(TRUE, <<c>>, 1) = <<>>
  <2> TAKE c \in Byte
  <2>1. <<c>> \in Seq(Byte) /\ Len(<<c>>) = 1 /\ Low(<<c>>) = c BY ByteMsgType
  <2>2. Recv(TRUE, <<c>>, 1) = <<c>> /\ Rest(TRUE, <<c>>, 1) = <<>>
    BY <2>1, RecvWhole
  <2> QED BY <2>1, <2>2
<1>3. \A c \in Byte : /\ Low(Recv(TRUE, <<c>> \o AddrMsg, 1)) = c
                      /\ Rest(TRUE, <<c>> \o AddrMsg, 1) = AddrMsg
  BY AddrMsgType, RecvByte, ByteMsgType
<1>4. Rest(TRUE, AddrMsg, AddressLen) = <<>>
  BY AddrMsgType, RecvWhole DEF AddressLen
<1> QED BY <1>1, <1>2, <1>3, <1>4 DEF CmdMsg

\* What the proto thread reads of the answers: a result, and then an integer
\* or a handle that is all of what is left.
LEMMA AnswerRead ==
    /\ Low(Recv(TRUE, ListenReply, 1)) = RESULT_OK
    /\ Rest(TRUE, ListenReply, 1) = IntMsg(DATA_PORT)
    /\ Low(Recv(TRUE, ConnectedReply, 1)) = RESULT_OK
    /\ Rest(TRUE, ConnectedReply, 1) = ConnHandle
    /\ Rest(TRUE, TimeoutReply, 1) = <<>>
    /\ Recv(TRUE, ConnHandle, SockLen) = ConnHandle
    /\ Rest(TRUE, ConnHandle, SockLen) = <<>>
    /\ \A v \in Byte : /\ Recv(TRUE, IntMsg(v), IntLen) = IntMsg(v)
                       /\ Rest(TRUE, IntMsg(v), IntLen) = <<>>
<1>1. RESULT_OK \in Byte /\ RESULT_BAD \in Byte /\ DATA_PORT \in Byte
  BY DEF Byte, RESULT_OK, RESULT_BAD, DATA_PORT
<1>2. \A b \in Byte, s \in Seq(Byte) : /\ Low(Recv(TRUE, <<b>> \o s, 1)) = b
                                       /\ Rest(TRUE, <<b>> \o s, 1) = s
  BY RecvByte, ByteMsgType
<1>3. IntMsg(DATA_PORT) \in Seq(Byte) /\ ConnHandle \in Seq(Byte)
  BY <1>1, IntMsgType, HandleType
<1>4. Rest(TRUE, <<RESULT_BAD>>, 1) = <<>>
  BY <1>1, ByteMsgType, RecvWhole
<1>5. Recv(TRUE, ConnHandle, SockLen) = ConnHandle /\ Rest(TRUE, ConnHandle, SockLen) = <<>>
  BY HandleType, RecvWhole
<1>6. \A v \in Byte : /\ Recv(TRUE, IntMsg(v), IntLen) = IntMsg(v)
                      /\ Rest(TRUE, IntMsg(v), IntLen) = <<>>
  BY IntMsgType, RecvWhole
<1> QED BY <1>1, <1>2, <1>3, <1>4, <1>5, <1>6
        DEF ListenReply, ConnectedReply, TimeoutReply, ResultMsg

\* The commands and the results can be told apart.
LEMMA Distinct ==
    /\ Operation(PASV_ACTIVE) = "pasv_active" /\ Operation(PASV_LISTEN) = "pasv_listen"
    /\ Operation(PASV_ACCEPT) = "pasv_accept"
    /\ Operation(GET_DATA_SOCK) = "get_data_sock"
    /\ RESULT_OK # RESULT_BAD
    /\ IntMsg(1) # IntMsg(0)
    /\ IntMsg(DATA_PORT)[1] = DATA_PORT /\ IntMsg(DATA_PORT)[2] = 0
<1>1. IntMsg(1) # IntMsg(0)
  <2>1. 0 \in Byte /\ 1 \in Byte BY DEF Byte
  <2>2. IntMsg(0)[1] = 0 /\ IntMsg(1)[1] = 1 BY <2>1, IntMsgType
  <2> QED BY <2>2
<1>2. IntMsg(DATA_PORT)[1] = DATA_PORT /\ IntMsg(DATA_PORT)[2] = 0
  BY SizesAssumption DEF IntMsg, Word
<1> QED BY <1>1, <1>2 DEF Operation, PASV_ACTIVE, PASV_LISTEN, PASV_ACCEPT,
           GET_DATA_SOCK, RESULT_OK, RESULT_BAD

-----------------------------------------------------------------------------
(* The invariant *)

\* Before session_thread has made the pair, and when it could not, nothing is
\* in either direction.
NoPair == /\ npc = "start" => ~privUp
          /\ ~privUp => toNobody = <<>> /\ toProto = <<>>

\* While the threads are in step, an operation of the nobody thread runs only
\* when the proto thread waits for just that operation.
LEMMA ServingWhom ==
    ASSUME InStep, npc \in Serving
    PROVE  /\ toProto = <<>>
           /\ npc = "get_data_sock" =>
                pc = "portRes" /\ toNobody = AddrMsg /\ p_addr /\ listen_fd = "none"
           /\ npc = "pasv_active" => pc = "active" /\ toNobody = <<>>
           /\ npc = "pasv_listen" => pc = "listenRes" /\ toNobody = <<>>
           /\ npc = "pasv_accept" =>
                /\ pc = "acceptRes" /\ toNobody = <<>>
                /\ ~p_addr /\ listen_fd = "open"
BY DEF InStep, PortExchange, AcceptExchange, ListenExchange, ActiveExchange,
       Asked, Served, Answer, Hung, Serving, Waiting

\* While they are in step, a command in the stream is the one the proto thread
\* waits to be served.
LEMMA AskedWhat ==
    ASSUME InStep, npc \notin Serving, toNobody # <<>>
    PROVE  /\ toProto = <<>>
           /\ \/ /\ pc = "portRes" /\ p_addr /\ listen_fd = "none"
                 /\ toNobody = CmdMsg(GET_DATA_SOCK) \o AddrMsg
              \/ pc = "active" /\ toNobody = CmdMsg(PASV_ACTIVE)
              \/ pc = "listenRes" /\ toNobody = CmdMsg(PASV_LISTEN)
              \/ /\ pc = "acceptRes" /\ toNobody = CmdMsg(PASV_ACCEPT)
                 /\ ~p_addr /\ listen_fd = "open"
BY DEF InStep, PortExchange, AcceptExchange, ListenExchange, ActiveExchange,
       Asked, Served, Answer, Hung, Serving, Waiting

\* Without a pair a step leaves the streams empty, and the session thread makes
\* the pair when it leaves "start".
LEMMA NoPairStep == ASSUME TypeOK, NoPair, [Next]_vars PROVE NoPair'
<1> USE DEF NoPair
<1>1. CASE SessionStart
  BY <1>1 DEF SessionStart, privVars
<1>2. CASE ~SessionStart
  <2>1. privUp' = privUp /\ (npc' = "start" => npc = "start")
    BY <1>2 DEF Next, Nobody, Client, Proto, vars, ExitLoop, NobodyLoop,
       NobodyRecvCmd, Operation, PrivGetDataSock, PrivPasvActive, PrivPasvListen,
       PrivPasvAccept, SessionFree, ControlClosed, LocalCommand, Quit, Port, Pasv,
       RetrWithoutHooks, Restart, Transfer, Greet, ProtoLoop, PasvResult, PasvPort,
       ChooseMode, DataResult, DataFd, RetrBegin, SendBlock, RetrEnd, UploadBegin,
       UploadGivesUp, UploadEnd, List, NobodyOnly, ProtoOnly
  <2>2. ASSUME ~privUp PROVE toNobody' = toNobody /\ toProto' = toProto
    BY <1>2, <2>2 DEF Next, Nobody, Client, Proto, vars, ExitLoop, NobodyLoop,
       NobodyRecvCmd, PrivGetDataSock, PrivPasvActive, PrivPasvListen,
       PrivPasvAccept, SessionFree, ControlClosed, LocalCommand, Quit, Port, Pasv,
       RetrWithoutHooks, Restart, Transfer, Greet, ProtoLoop, PasvResult, PasvPort,
       ChooseMode, DataResult, DataFd, RetrBegin, SendBlock, RetrEnd, UploadBegin,
       UploadGivesUp, UploadEnd, List, NobodyOnly, ProtoOnly, privVars, Sent, Rest
  <2> QED BY <2>1, <2>2
<1> QED BY <1>1, <1>2

\* A step of the nobody thread keeps the threads in step.
LEMMA NobodyKeeps ==
    ASSUME TypeOK, NoPair, Exchange, Nobody, privUp', skew' = 0
    PROVE  InStep'
<1> USE DEF InStep, PortExchange, AcceptExchange, ListenExchange, ActiveExchange,
            Asked, Served, Answer, Hung
<1>1. CASE SessionStart
  BY <1>1 DEF SessionStart, NoPair, Waiting, Serving, privVars
<1>2. CASE ~SessionStart
  <2>1. privUp = TRUE
    BY <1>2 DEF Nobody, NobodyLoop, NobodyRecvCmd, PrivGetDataSock, PrivPasvActive,
                PrivPasvListen, PrivPasvAccept, SessionFree, NobodyOnly, TypeOK
  <2>2. skew = 0
    <3>1. skew' = skew \/ skew' = skew + 1
      BY <1>2 DEF Nobody, NobodyLoop, NobodyRecvCmd, PrivGetDataSock, PrivPasvActive,
                  PrivPasvListen, PrivPasvAccept, SessionFree
    <3>2. skew \in Nat BY SessionAssumption DEF TypeOK
    <3> QED BY <3>1, <3>2
  <2>3. InStep BY <2>1, <2>2 DEF Exchange
  <2>4. CASE NobodyLoop
    <3>1. npc = "loop" /\ npc' \in {"wait", "recv"} BY <2>4 DEF NobodyLoop
    <3>2. UNCHANGED <<pc, toNobody, toProto, p_addr, listen_fd, failed>>
      BY <2>4 DEF NobodyLoop, NobodyOnly, protoVars, privVars, dataVars
    <3> QED BY <2>3, <3>1, <3>2 DEF Serving
  <2>5. CASE NobodyRecvCmd
    <3>1. npc \notin Serving BY <2>5 DEF NobodyRecvCmd, Serving
    <3>2. toNobody # <<>>
      <4>1. CanRecv(TRUE, toNobody, 1) BY <2>5, <2>1 DEF NobodyRecvCmd
      <4>2. ~CanRecv(TRUE, <<>>, 1) BY DEF CanRecv
      <4> QED BY <4>1, <4>2
    <3>3. /\ toProto' = <<>> /\ toProto = <<>>
          /\ UNCHANGED <<pc, p_addr, listen_fd, failed>>
      BY <2>3, <2>5, <3>1, <3>2, AskedWhat
         DEF NobodyRecvCmd, NobodyOnly, protoVars, dataVars
    <3>4. \/ /\ pc = "portRes" /\ p_addr /\ listen_fd = "none"
             /\ npc' = "get_data_sock" /\ toNobody' = AddrMsg
          \/ pc = "active" /\ npc' = "pasv_active" /\ toNobody' = <<>>
          \/ pc = "listenRes" /\ npc' = "pasv_listen" /\ toNobody' = <<>>
          \/ /\ pc = "acceptRes" /\ npc' = "pasv_accept" /\ toNobody' = <<>>
             /\ ~p_addr /\ listen_fd = "open"
      <4> HIDE DEF InStep, PortExchange, AcceptExchange, ListenExchange,
                   ActiveExchange, Asked, Served, Answer, Hung
      <4>1. /\ npc' = Operation(Low(Recv(TRUE, toNobody, 1)))
            /\ toNobody' = Rest(TRUE, toNobody, 1)
        BY <2>1, <2>5 DEF NobodyRecvCmd
      <4> QED BY <2>3, <3>1, <3>2, <4>1, AskedWhat, CommandRead, Distinct
    <3> QED BY <3>3, <3>4 DEF Waiting
  <2>6. CASE PrivGetDataSock
    <3>1. /\ pc = "portRes" /\ toNobody = AddrMsg /\ p_addr /\ listen_fd = "none"
          /\ toProto = <<>>
      BY <2>3, <2>6, ServingWhom DEF PrivGetDataSock, Serving
    <3>2. toNobody' = <<>> BY <2>1, <2>6, <3>1, CommandRead DEF PrivGetDataSock
    <3>3. \/ toProto' = ConnectedReply /\ failed' = failed
          \/ toProto' = <<>> /\ "connect" \in failed'
      BY <2>1, <2>6, <3>1, SentToEmpty, MessageTypes DEF PrivGetDataSock, Fails
    <3>4. npc' = "loop" /\ UNCHANGED <<pc, p_addr, listen_fd>>
      BY <2>6 DEF PrivGetDataSock, NobodyOnly, protoVars, dataVars
    <3> QED BY <3>1, <3>2, <3>3, <3>4 DEF Serving, Waiting, ConnectedReply
  <2>7. CASE PrivPasvActive
    <3>1. pc = "active" /\ toNobody = <<>> /\ toProto = <<>>
      BY <2>3, <2>7, ServingWhom DEF PrivPasvActive, Serving
    <3>2. toProto' = ActiveReply(listen_fd = "open")
      BY <2>1, <2>7, <3>1, SentToEmpty, MessageTypes DEF PrivPasvActive
    <3>3. toProto' = IntMsg(IF listen_fd = "open" THEN 1 ELSE 0)
      BY <3>2 DEF ActiveReply
    <3> QED BY <2>7, <3>1, <3>3
            DEF PrivPasvActive, NobodyOnly, Serving, Waiting, protoVars
  <2>8. CASE PrivPasvListen
    <3>1. pc = "listenRes" /\ toNobody = <<>> /\ toProto = <<>>
      BY <2>3, <2>8, ServingWhom DEF PrivPasvListen, Serving
    <3>2. \/ toProto' = ListenReply /\ listen_fd' = "open"
          \/ toProto' = <<>> /\ "listen" \in failed'
      BY <2>1, <2>8, <3>1, SentToEmpty, MessageTypes DEF PrivPasvListen, Fails
    <3> QED BY <2>8, <3>1, <3>2
            DEF PrivPasvListen, NobodyOnly, Serving, Waiting, protoVars, ListenReply
  <2>9. CASE PrivPasvAccept
    <3>1. /\ pc = "acceptRes" /\ toNobody = <<>> /\ toProto = <<>>
          /\ ~p_addr /\ listen_fd = "open"
      BY <2>3, <2>9, ServingWhom DEF PrivPasvAccept, Serving
    <3>2. skew' # skew + 1 BY <2>2
    <3>3. \/ toProto' = Sent(TRUE, <<>>, ConnectedReply)
          \/ toProto' = Sent(TRUE, <<>>, TimeoutReply) /\ "acceptTimeout" \in failed'
      BY <2>1, <2>9, <3>1, <3>2 DEF PrivPasvAccept, Fails
    <3>4. \/ toProto' = ConnectedReply
          \/ toProto' = TimeoutReply /\ "acceptTimeout" \in failed'
      BY <3>3, SentToEmpty, MessageTypes
    <3>5. /\ npc' = "loop" /\ listen_fd' = "none"
          /\ UNCHANGED <<pc, p_addr, toNobody>>
      BY <2>9 DEF PrivPasvAccept, NobodyOnly, protoVars, dataVars
    <3> QED BY <3>1, <3>4, <3>5 DEF Serving, Waiting, ConnectedReply, TimeoutReply
  <2>10. CASE SessionFree
    BY <2>3, <2>10 DEF SessionFree, Serving, Waiting, protoVars, privVars
  <2> QED BY <1>2, <2>4, <2>5, <2>6, <2>7, <2>8, <2>9, <2>10 DEF Nobody
<1> QED BY <1>1, <1>2

\* A step of the proto thread outside an exchange neither starts one nor
\* disturbs the streams.
LEMMA Outside ==
    ASSUME InStep, pc \notin Waiting, pc' \notin Waiting,
           UNCHANGED <<toNobody, toProto, npc>>
    PROVE  InStep'
BY DEF InStep, PortExchange, AcceptExchange, ListenExchange, ActiveExchange,
       Answer, Waiting

\* What the client makes the proto thread do keeps the threads in step.
LEMMA ClientKeeps == ASSUME InStep, privUp = TRUE, Client PROVE InStep'
<1>1. pc = "readline"
  BY DEF Client, ControlClosed, LocalCommand, Quit, Port, Pasv, RetrWithoutHooks,
         Restart, Transfer
<1>2. pc \notin Waiting BY <1>1 DEF Waiting
<1>3. toNobody = <<>> /\ toProto = <<>> /\ npc \notin Serving
  BY <1>2 DEF InStep, Answer
<1>4. CASE Pasv
  <2>1. toNobody' = CmdMsg(PASV_LISTEN)
    BY <1>3, <1>4, SentToEmpty, MessageTypes DEF Pasv
  <2>2. pc' = "listenRes" /\ UNCHANGED <<npc, toProto>> BY <1>4 DEF Pasv, ProtoOnly
  <2> QED BY <1>3, <2>1, <2>2
          DEF InStep, PortExchange, AcceptExchange, ListenExchange, ActiveExchange,
              Asked, Waiting
<1>5. CASE \E c \in Transfers : Transfer(c)
  <2>1. toNobody' = CmdMsg(PASV_ACTIVE)
    BY <1>3, <1>5, SentToEmpty, MessageTypes DEF Transfer
  <2>2. pc' = "active" /\ UNCHANGED <<npc, toProto>> BY <1>5 DEF Transfer, ProtoOnly
  <2> QED BY <1>3, <2>1, <2>2
          DEF InStep, PortExchange, AcceptExchange, ListenExchange, ActiveExchange,
              Asked, Waiting
<1>6. CASE ~Pasv /\ ~\E c \in Transfers : Transfer(c)
  <2>1. pc' \in {"done", "loop"} /\ UNCHANGED <<toNobody, toProto, npc>>
    BY <1>6 DEF Client, ControlClosed, LocalCommand, Quit, Port, RetrWithoutHooks,
                Restart, ProtoOnly, privVars
  <2>2. pc' \notin Waiting BY <2>1 DEF Waiting
  <2> QED BY <1>2, <2>1, <2>2, Outside
<1> QED BY <1>4, <1>5, <1>6

\* So does every step within a command.
LEMMA ProtoKeeps == ASSUME TypeOK, InStep, privUp = TRUE, Proto PROVE InStep'
<1>1. CASE PasvResult
  <2>1. CanRecv(TRUE, toProto, 1) /\ pc = "listenRes" /\ UNCHANGED <<npc, listen_fd>>
    BY <1>1 DEF PasvResult, ProtoOnly
  <2>2. toProto # <<>> BY <2>1 DEF CanRecv
  <2>3. Answer(ListenReply) /\ listen_fd = "open"
    BY <2>1, <2>2 DEF InStep, ListenExchange, Asked, Served, Answer, Hung, ListenReply
  <2>4. toProto' = IntMsg(DATA_PORT) /\ pc' = "listenPort" /\ toNobody' = <<>>
    BY <1>1, <2>3, AnswerRead, Distinct DEF PasvResult, Answer
  <2> QED BY <2>1, <2>3, <2>4
          DEF InStep, PortExchange, AcceptExchange, ListenExchange, ActiveExchange,
              Answer, Waiting
<1>2. CASE PasvPort
  <2>1. pc = "listenPort" /\ pc' = "loop" /\ UNCHANGED <<npc, toNobody>>
    BY <1>2 DEF PasvPort, ProtoOnly
  <2>2. Answer(IntMsg(DATA_PORT)) BY <2>1 DEF InStep, ListenExchange
  <2>3. DATA_PORT \in Byte BY DEF DATA_PORT, Byte
  <2>4. toProto' = <<>> BY <1>2, <2>2, <2>3, AnswerRead DEF PasvPort, Answer
  <2> QED BY <2>1, <2>2, <2>4
          DEF InStep, PortExchange, AcceptExchange, ListenExchange, ActiveExchange,
              Answer, Waiting
<1>3. CASE ChooseMode
  <2>1. /\ CanRecv(TRUE, toProto, IntLen) /\ pc = "active"
        /\ UNCHANGED <<npc, listen_fd, p_addr>>
    BY <1>3 DEF ChooseMode, ProtoOnly, dataVars
  <2>2. toProto # <<>> BY <2>1, SizesAssumption DEF CanRecv
  <2> DEFINE v == IF listen_fd = "open" THEN 1 ELSE 0
  <2>3. Answer(IntMsg(v))
    BY <2>1, <2>2 DEF InStep, ActiveExchange, Asked, Served, Answer
  <2>4. v \in Byte BY DEF Byte
  <2>5. Recv(TRUE, toProto, IntLen) = IntMsg(v) /\ toProto' = <<>>
    BY <1>3, <2>3, <2>4, AnswerRead DEF ChooseMode, Answer
  <2>6. (Recv(TRUE, toProto, IntLen) # IntMsg(0)) <=> listen_fd = "open"
    BY <2>5, Distinct
  <2>7. \/ pc' = "loop" /\ toNobody' = toNobody
        \/ /\ pc' = "portRes" /\ p_addr /\ listen_fd # "open"
           /\ toNobody' = Sent(TRUE, toNobody, CmdMsg(GET_DATA_SOCK) \o AddrMsg)
        \/ /\ pc' = "acceptRes" /\ ~p_addr /\ listen_fd = "open"
           /\ toNobody' = Sent(TRUE, toNobody, CmdMsg(PASV_ACCEPT))
    BY <1>3, <2>6 DEF ChooseMode, UsePort, UsePasv
  <2>8. \/ pc' = "loop" /\ toNobody' = <<>>
        \/ /\ pc' = "portRes" /\ p_addr /\ listen_fd # "open"
           /\ toNobody' = CmdMsg(GET_DATA_SOCK) \o AddrMsg
        \/ /\ pc' = "acceptRes" /\ ~p_addr /\ listen_fd = "open"
           /\ toNobody' = CmdMsg(PASV_ACCEPT)
    BY <2>3, <2>7, SentToEmpty, MessageTypes DEF Answer
  <2>9. npc' \notin Serving /\ (listen_fd' # "open" => listen_fd' = "none")
    BY <2>1, <2>3 DEF Answer, TypeOK
  <2> QED BY <2>1, <2>5, <2>8, <2>9
          DEF InStep, PortExchange, AcceptExchange, ListenExchange, ActiveExchange,
              Asked, Answer, Waiting
<1>4. CASE DataResult
  <2>1. /\ CanRecv(TRUE, toProto, 1) /\ pc \in {"portRes", "acceptRes"}
        /\ pc' = IF pc = "portRes" THEN "portFd" ELSE "acceptFd"
        /\ UNCHANGED <<npc, listen_fd, p_addr, toNobody, failed>>
        /\ toProto' = Rest(TRUE, toProto, 1)
    BY <1>4 DEF DataResult, ProtoOnly, dataVars
  <2>2. toProto # <<>> BY <2>1 DEF CanRecv
  <2>3. CASE pc = "portRes"
    <3>1. Answer(ConnectedReply) /\ p_addr /\ listen_fd = "none"
      BY <2>2, <2>3 DEF InStep, PortExchange, Asked, Served, Answer, Hung, ConnectedReply
    <3>2. toProto' = ConnHandle BY <2>1, <3>1, AnswerRead DEF Answer
    <3> QED BY <2>1, <2>3, <3>1, <3>2
            DEF InStep, PortExchange, AcceptExchange, ListenExchange, ActiveExchange,
                Answer, Waiting
  <2>4. CASE pc = "acceptRes"
    <3>1. /\ ~p_addr /\ listen_fd = "none"
          /\ \/ Answer(ConnectedReply)
             \/ Answer(TimeoutReply) /\ "acceptTimeout" \in failed
      BY <2>2, <2>4 DEF InStep, AcceptExchange, Asked, Served, Answer, Hung,
                        ConnectedReply, TimeoutReply
    <3>2. \/ toProto' = ConnHandle
          \/ toProto' = <<>> /\ "acceptTimeout" \in failed
      BY <2>1, <3>1, AnswerRead DEF Answer
    <3> QED BY <2>1, <2>4, <3>1, <3>2
            DEF InStep, PortExchange, AcceptExchange, ListenExchange, ActiveExchange,
                Answer, Hung, Waiting
  <2> QED BY <2>1, <2>3, <2>4
<1>5. CASE DataFd
  <2>1. /\ CanRecv(TRUE, toProto, SockLen) /\ pc \in {"portFd", "acceptFd"}
        /\ pc' = "opened" /\ UNCHANGED <<npc, toNobody>>
        /\ toProto' = Rest(TRUE, toProto, SockLen)
    BY <1>5 DEF DataFd, ProtoOnly
  <2>2. toProto # <<>> BY <2>1, SizesAssumption DEF CanRecv
  <2>3. Answer(ConnHandle)
    BY <2>1, <2>2 DEF InStep, PortExchange, AcceptExchange, Answer, Hung
  <2>4. toProto' = <<>> BY <2>1, <2>3, AnswerRead DEF Answer
  <2> QED BY <2>1, <2>3, <2>4
          DEF InStep, PortExchange, AcceptExchange, ListenExchange, ActiveExchange,
              Answer, Waiting
<1>6. CASE ~(PasvResult \/ PasvPort \/ ChooseMode \/ DataResult \/ DataFd)
  <2>1. /\ pc \in {"greet", "loop", "opened", "send", "recv"}
        /\ pc' \in {"loop", "done", "readline", "send", "recv"}
        /\ UNCHANGED <<toNobody, toProto, npc>>
    BY <1>6 DEF Proto, Greet, ProtoLoop, RetrBegin, SendBlock, RetrEnd, UploadBegin,
                UploadGivesUp, UploadEnd, List, EndCommand, ProtoOnly, protoVars,
                privVars
  <2>2. pc \notin Waiting /\ pc' \notin Waiting BY <2>1 DEF Waiting
  <2> QED BY <2>1, <2>2, Outside
<1> QED BY <1>1, <1>2, <1>3, <1>4, <1>5, <1>6

\* Only a failing accept changes skew, and it never falls.
LEMMA SkewGrows ==
    ASSUME TypeOK, [Next]_vars, skew' = 0 PROVE skew = 0
<1>1. skew' = skew \/ skew' = skew + 1
  BY DEF Next, Nobody, Client, Proto, vars, ExitLoop, SessionStart, NobodyLoop,
     NobodyRecvCmd, PrivGetDataSock, PrivPasvActive, PrivPasvListen, PrivPasvAccept,
     SessionFree, ControlClosed, LocalCommand, Quit, Port, Pasv, RetrWithoutHooks,
     Restart, Transfer, Greet, ProtoLoop, PasvResult, PasvPort, ChooseMode, DataResult,
     DataFd, RetrBegin, SendBlock, RetrEnd, UploadBegin, UploadGivesUp, UploadEnd,
     List, ProtoOnly
<1>2. skew \in Nat BY SessionAssumption DEF TypeOK
<1> QED BY <1>1, <1>2

\* Every step keeps the threads in step.
LEMMA ExchangeStep == ASSUME TypeOK, NoPair, Exchange, [Next]_vars PROVE Exchange'
<1> SUFFICES ASSUME privUp', skew' = 0 PROVE InStep' BY DEF Exchange
<1>1. skew = 0 BY SkewGrows
<1>2. CASE Nobody BY <1>2, NobodyKeeps
<1>3. CASE ~Nobody
  <2>1. privUp' = privUp
    BY <1>3 DEF Next, Client, Proto, vars, ExitLoop, ControlClosed, LocalCommand, Quit,
       Port, Pasv, RetrWithoutHooks, Restart, Transfer, Greet, ProtoLoop, PasvResult,
       PasvPort, ChooseMode, DataResult, DataFd, RetrBegin, SendBlock, RetrEnd,
       UploadBegin, UploadGivesUp, UploadEnd, List, ProtoOnly
  <2>2. privUp = TRUE BY <2>1 DEF TypeOK
  <2>3. InStep BY <1>1, <2>2 DEF Exchange
  <2>4. CASE ExitLoop \/ UNCHANGED vars
    <3>1. UNCHANGED <<pc, npc, toNobody, toProto, p_addr, listen_fd, failed>>
      BY <2>4 DEF ExitLoop, vars, protoVars, privVars, dataVars
    <3> QED BY <2>3, <3>1 DEF InStep, PortExchange, AcceptExchange, ListenExchange,
               ActiveExchange, Asked, Served, Answer, Hung
  <2> QED BY <1>3, <2>2, <2>3, <2>4, ClientKeeps, ProtoKeeps DEF Next
<1> QED BY <1>2, <1>3

\* The data connection a transfer goes on with is the one it was given.
LEMMA ConnectionStep ==
    ASSUME TypeOK, Exchange, TransferHasConnection, [Next]_vars
    PROVE  TransferHasConnection'
<1> DEFINE Going == {"opened", "send", "recv"}
<1> SUFFICES ASSUME privUp', skew' = 0, pc' \in Going PROVE data_fd' = "conn"
  BY DEF TransferHasConnection
<1>1. skew = 0 BY SkewGrows
<1>2. CASE DataFd
  <2>1. privUp = TRUE BY <1>2 DEF DataFd, ProtoOnly, TypeOK
  <2>2. /\ CanRecv(TRUE, toProto, SockLen) /\ pc \in {"portFd", "acceptFd"}
        /\ data_fd' = LET fd == Recv(TRUE, toProto, SockLen)
                      IN  IF fd = ConnHandle THEN "conn"
                          ELSE IF fd = INVALID_SOCKET THEN "none" ELSE "junk"
    BY <1>2, <2>1 DEF DataFd
  <2>3. toProto # <<>> BY <2>2, SizesAssumption DEF CanRecv
  <2>4. InStep BY <1>1, <2>1 DEF Exchange
  <2>5. toProto = ConnHandle
    BY <2>2, <2>3, <2>4 DEF InStep, PortExchange, AcceptExchange, Answer, Hung
  <2> QED BY <2>2, <2>5, AnswerRead
<1>3. CASE ~DataFd
  <2>1. pc \in Going /\ data_fd' = data_fd /\ privUp' = privUp
    BY <1>3 DEF Next, Nobody, Client, Proto, vars, ExitLoop, SessionStart, NobodyLoop,
     NobodyRecvCmd, PrivGetDataSock, PrivPasvActive, PrivPasvListen, PrivPasvAccept,
     SessionFree, ControlClosed, LocalCommand, Quit, Port, Pasv, RetrWithoutHooks,
     Restart, Transfer, Greet, ProtoLoop, PasvResult, PasvPort, ChooseMode, DataResult,
     RetrBegin, SendBlock, RetrEnd, UploadBegin, UploadGivesUp, UploadEnd, List,
     EndCommand, NobodyOnly, ProtoOnly, protoVars, dataVars
  <2> QED BY <1>1, <2>1 DEF TransferHasConnection
<1> QED BY <1>2, <1>3

\* The exchange of the two threads: while no accept has failed in the middle,
\* the request, the service or the answer in flight is the one the proto
\* thread waits for, and there is nothing else in the stream.
THEOREM ExchangeCorrect == Spec => []Exchange
<1>1. Init => NoPair /\ Exchange BY DEF Init, NoPair, Exchange
<1>2. TypeOK /\ NoPair /\ Exchange /\ [Next]_vars => (NoPair /\ Exchange)'
  BY NoPairStep, ExchangeStep
<1> QED BY <1>1, <1>2, TypeCorrect, PTL DEF Spec

\* get_trans_data_fd never lets a transfer go on without a data connection.
THEOREM TransferConnected == Spec => []TransferHasConnection
<1>1. Init => TransferHasConnection BY DEF Init, TransferHasConnection
<1>2. TypeOK /\ Exchange /\ TransferHasConnection /\ [Next]_vars
        => TransferHasConnection'
  BY ConnectionStep
<1> QED BY <1>1, <1>2, TypeCorrect, ExchangeCorrect, PTL DEF Spec

\* Once PORT and PASV are both pending, only a PASV that fails and the end of
\* the session clear one of them: no later transfer of the session succeeds.
THEOREM BothModesStuck == Spec => BothModesStick
<1>1. TypeOK /\ Exchange /\ [Next]_vars
        => [privUp /\ skew' = 0 /\ BothPending /\ ~freed'
              => BothPending' \/ "listen" \in failed']_vars
  <2> SUFFICES ASSUME TypeOK, Exchange, [Next]_vars, privUp, skew' = 0,
                      p_addr, listen_fd = "open", ~freed', "listen" \notin failed'
               PROVE  p_addr' /\ listen_fd' = "open"
    BY DEF BothPending
  <2>1. InStep BY SkewGrows DEF Exchange
  <2>2. p_addr'
    <3>1. ~(DataFd /\ pc = "portFd") BY <2>1 DEF InStep, PortExchange
    <3>2. p_addr = TRUE BY DEF TypeOK
    <3> QED BY <3>1, <3>2 DEF Next, Nobody, Client, Proto, vars, ExitLoop, SessionStart,
     NobodyLoop, NobodyRecvCmd, PrivGetDataSock, PrivPasvActive, PrivPasvListen,
     PrivPasvAccept, SessionFree, ControlClosed, LocalCommand, Quit, Port, Pasv,
     RetrWithoutHooks, Restart, Transfer, Greet, ProtoLoop, PasvResult, PasvPort,
     ChooseMode, DataResult, DataFd, RetrBegin, SendBlock, RetrEnd, UploadBegin,
     UploadGivesUp, UploadEnd, List, NobodyOnly, ProtoOnly, dataVars
  <2>3. listen_fd' = "open"
    <3>1. ~PrivPasvAccept
      BY <2>1, ServingWhom DEF PrivPasvAccept, Serving
    <3> QED BY <3>1 DEF Next, Nobody, Client, Proto, vars, ExitLoop, SessionStart,
     NobodyLoop, NobodyRecvCmd, PrivGetDataSock, PrivPasvActive, PrivPasvListen,
     SessionFree, ControlClosed, LocalCommand, Quit, Port, Pasv, RetrWithoutHooks,
     Restart, Transfer, Greet, ProtoLoop, PasvResult, PasvPort, ChooseMode, DataResult,
     DataFd, RetrBegin, SendBlock, RetrEnd, UploadBegin, UploadGivesUp, UploadEnd,
     List, ProtoOnly, Fails
  <2> QED BY <2>2, <2>3
<1> QED BY <1>1, TypeCorrect, ExchangeCorrect, PTL DEF Spec, BothModesStick

-----------------------------------------------------------------------------
(* A stream that is out of step: every accept that fails without timing out *)
(* leaves one byte more in it, and no such byte is RESULT_BAD               *)

Clean(s) == \A i \in 1..Len(s) : s[i] # RESULT_BAD

\* The last n bytes of a stream are clean.
CleanEnd(s, n) == \A i \in 1..Len(s) : i > Len(s) - n => s[i] # RESULT_BAD

\* The bytes of a stream after a message was sent: its own, then the message's.
LEMMA SentBytes ==
    ASSUME NEW s \in Seq(Byte), NEW m \in Seq(Byte)
    PROVE  /\ Len(Sent(TRUE, s, m)) = Len(s) + Len(m) /\ Len(s) \in Nat /\ Len(m) \in Nat
           /\ \A i \in 1..(Len(s) + Len(m)) :
                Sent(TRUE, s, m)[i] = IF i <= Len(s) THEN s[i] ELSE m[i - Len(s)]
BY ConcatProperties, LenProperties DEF Sent

\* The bytes that are left after n were taken.
LEMMA RestBytes ==
    ASSUME NEW s \in Seq(Byte), NEW n \in Nat, n <= Len(s)
    PROVE  /\ Len(Rest(TRUE, s, n)) = Len(s) - n /\ Len(s) \in Nat
           /\ \A i \in 1..(Len(s) - n) : Rest(TRUE, s, n)[i] = s[i + n]
<1>1. Len(s) \in Nat BY LenProperties
<1>2. \A i \in (n + 1)..Len(s) : s[i] \in Byte BY <1>1, ElementOfSeq
<1> DEFINE t == SubSeq(s, n + 1, Len(s))
<1>3. /\ Len(t) = IF n + 1 <= Len(s) THEN Len(s) - (n + 1) + 1 ELSE 0
      /\ \A i \in 1..(Len(s) - (n + 1) + 1) : t[i] = s[n + 1 + i - 1]
  BY <1>1, <1>2, SubSeqProperties
<1>4. Rest(TRUE, s, n) = t BY DEF Rest
<1> HIDE DEF t
<1>5. Len(t) = Len(s) - n BY <1>1, <1>3
<1>6. ASSUME NEW i \in 1..(Len(s) - n) PROVE t[i] = s[i + n]
  <2>1. n + 1 + i - 1 = i + n /\ i \in 1..(Len(s) - (n + 1) + 1) BY <1>1
  <2> QED BY <1>3, <2>1
<1> QED BY <1>1, <1>4, <1>5, <1>6

\* A clean message keeps a stream clean, and so does taking bytes from it.
LEMMA CleanSent ==
    ASSUME NEW s \in Seq(Byte), NEW m \in Seq(Byte), Clean(s), Clean(m)
    PROVE  Clean(Sent(TRUE, s, m))
<1> DEFINE t == Sent(TRUE, s, m)
<1>1. /\ Len(t) = Len(s) + Len(m) /\ Len(s) \in Nat /\ Len(m) \in Nat
      /\ \A i \in 1..(Len(s) + Len(m)) : t[i] = IF i <= Len(s) THEN s[i] ELSE m[i - Len(s)]
  BY SentBytes
<1> HIDE DEF t
<1>2. ASSUME NEW i \in 1..Len(t) PROVE t[i] # RESULT_BAD
  <2>1. CASE i <= Len(s) BY <1>1, <2>1 DEF Clean
  <2>2. CASE ~(i <= Len(s))
    <3>1. i - Len(s) \in 1..Len(m) /\ t[i] = m[i - Len(s)] BY <1>1, <2>2
    <3> QED BY <3>1 DEF Clean
  <2> QED BY <2>1, <2>2
<1>3. Clean(t) BY <1>2 DEF Clean
<1> QED BY <1>3 DEF t

\* What is left of a clean stream is clean.
LEMMA CleanRest ==
    ASSUME NEW s \in Seq(Byte), NEW n \in Nat, n <= Len(s), Clean(s)
    PROVE  Clean(Rest(TRUE, s, n))
<1> DEFINE t == Rest(TRUE, s, n)
<1>1. Len(t) = Len(s) - n /\ Len(s) \in Nat /\ \A i \in 1..(Len(s) - n) : t[i] = s[i + n]
  BY RestBytes
<1> HIDE DEF t
<1>2. ASSUME NEW i \in 1..Len(t) PROVE t[i] # RESULT_BAD
  <2>1. i + n \in 1..Len(s) BY <1>1
  <2> QED BY <1>1, <2>1 DEF Clean
<1>3. Clean(t) BY <1>2 DEF Clean
<1> QED BY <1>3 DEF t

\* Taking bytes from the front leaves the end as it is; when all that is left is
\* the clean end, the stream is clean.
LEMMA CleanEndRest ==
    ASSUME NEW s \in Seq(Byte), NEW n \in Nat, n <= Len(s), NEW k \in Nat, CleanEnd(s, k)
    PROVE  /\ CleanEnd(Rest(TRUE, s, n), k)
           /\ k = Len(s) - n => Clean(Rest(TRUE, s, n))
<1> DEFINE t == Rest(TRUE, s, n)
<1>1. Len(t) = Len(s) - n /\ Len(s) \in Nat /\ \A i \in 1..(Len(s) - n) : t[i] = s[i + n]
  BY RestBytes
<1> HIDE DEF t
<1>2. ASSUME NEW i \in 1..Len(t), i > Len(t) - k PROVE t[i] # RESULT_BAD
  <2>1. i + n \in 1..Len(s) /\ i + n > Len(s) - k BY <1>1, <1>2
  <2> QED BY <1>1, <2>1 DEF CleanEnd
<1>3. CleanEnd(t, k) BY <1>2 DEF CleanEnd
<1>4. k = Len(s) - n => Clean(t) BY <1>1, <1>2 DEF Clean
<1> QED BY <1>3, <1>4 DEF t

\* Every end of a clean stream is clean.
LEMMA CleanIsCleanEnd == ASSUME NEW s, NEW k, Clean(s) PROVE CleanEnd(s, k)
BY DEF Clean, CleanEnd

\* The first byte of a clean stream is no RESULT_BAD.
LEMMA CleanFirst ==
    ASSUME NEW s \in Seq(Byte), Clean(s), 1 <= Len(s)
    PROVE  Low(Recv(TRUE, s, 1)) # RESULT_BAD
<1>1. Len(s) \in Nat BY LenProperties
<1>2. \A i \in 1..1 : s[i] \in Byte BY <1>1, ElementOfSeq
<1>3. SubSeq(s, 1, 1)[1] = s[1] BY <1>2, SubSeqProperties
<1> QED BY <1>1, <1>3 DEF Recv, Low, Clean

\* The answers, their lengths, and that only two of them have a RESULT_BAD: the
\* handle -1 which ends the answer to a failed accept is clean.
LEMMA AnswerBytes ==
    /\ Len(ConnectedReply) = 1 + SockLen /\ Clean(ConnectedReply)
    /\ Len(ListenReply) = 1 + IntLen /\ Clean(ListenReply)
    /\ \A b \in BOOLEAN : Len(ActiveReply(b)) = IntLen /\ Clean(ActiveReply(b))
    /\ Len(TimeoutReply) = 1
    /\ Len(ErrorReply) = 2 + SockLen
    /\ \A i \in 3..(2 + SockLen) : ErrorReply[i] = 255
<1>1. RESULT_OK \in Byte /\ RESULT_BAD \in Byte /\ DATA_PORT \in Byte /\ 0 \in Byte /\ 1 \in Byte
  BY DEF Byte, RESULT_OK, RESULT_BAD, DATA_PORT
<1>2. IntLen \in Nat /\ SockLen \in Nat BY SizesAssumption
<1>3. ASSUME NEW v \in Byte, NEW n \in Nat, v # RESULT_BAD PROVE Clean(Word(v, n))
  <2>1. Len(Word(v, n)) = n BY <1>3, WordType
  <2> QED BY <1>3, <2>1 DEF Clean, Word, RESULT_BAD
<1>4. ASSUME NEW b \in Byte, b # RESULT_BAD PROVE Clean(<<b>>) BY <1>4 DEF Clean
<1>5. ASSUME NEW b \in Byte, NEW m \in Seq(Byte)
      PROVE  /\ Len(<<b>> \o m) = 1 + Len(m) /\ <<b>> \o m \in Seq(Byte)
             /\ \A i \in 1..Len(m) : (<<b>> \o m)[i + 1] = m[i]
             /\ b # RESULT_BAD /\ Clean(m) => Clean(<<b>> \o m)
  <2>1. <<b>> \in Seq(Byte) /\ Len(<<b>>) = 1 BY ByteMsgType
  <2>2. Sent(TRUE, <<b>>, m) = <<b>> \o m BY DEF Sent
  <2>3. /\ Len(<<b>> \o m) = 1 + Len(m) /\ Len(m) \in Nat
        /\ \A i \in 1..(1 + Len(m)) : (<<b>> \o m)[i] = IF i <= 1 THEN <<b>>[i] ELSE m[i - 1]
    BY <2>1, <2>2, SentBytes
  <2>4. \A i \in 1..Len(m) : (<<b>> \o m)[i + 1] = m[i] BY <2>3
  <2>5. b # RESULT_BAD /\ Clean(m) => Clean(<<b>> \o m) BY <1>4, <2>1, <2>2, CleanSent
  <2> QED BY <2>1, <2>3, <2>4, <2>5, ConcatProperties
<1>6. Len(ConnectedReply) = 1 + SockLen /\ Clean(ConnectedReply)
  <2>1. 4 \in Byte /\ 4 # RESULT_BAD BY DEF Byte, RESULT_BAD
  <2>2. Clean(ConnHandle) BY <1>2, <1>3, <2>1 DEF ConnHandle
  <2> QED BY <1>1, <1>5, <2>2, HandleType DEF ConnectedReply, ResultMsg, RESULT_OK, RESULT_BAD
<1>7. Len(ListenReply) = 1 + IntLen /\ Clean(ListenReply)
  <2>1. Clean(IntMsg(DATA_PORT)) BY <1>1, <1>2, <1>3 DEF IntMsg, DATA_PORT, RESULT_BAD
  <2> QED BY <1>1, <1>5, <2>1, IntMsgType DEF ListenReply, ResultMsg, RESULT_OK, RESULT_BAD
<1>8. \A b \in BOOLEAN : Len(ActiveReply(b)) = IntLen /\ Clean(ActiveReply(b))
  <2>1. Clean(IntMsg(0)) /\ Clean(IntMsg(1)) BY <1>1, <1>2, <1>3 DEF IntMsg, RESULT_BAD
  <2> QED BY <1>1, <2>1, IntMsgType DEF ActiveReply
<1>9. Len(TimeoutReply) = 1 BY <1>1, ByteMsgType DEF TimeoutReply, ResultMsg
<1>10. Len(ErrorReply) = 2 + SockLen /\ \A i \in 3..(2 + SockLen) : ErrorReply[i] = 255
  <2> DEFINE m == <<RESULT_OK>> \o INVALID_SOCKET
  <2>1. /\ Len(m) = 1 + SockLen /\ m \in Seq(Byte)
        /\ \A i \in 1..SockLen : m[i + 1] = INVALID_SOCKET[i]
    BY <1>1, <1>5, HandleType
  <2>2. ErrorReply = <<RESULT_BAD>> \o m
    <3>1. <<RESULT_BAD>> \in Seq(Byte) /\ <<RESULT_OK>> \in Seq(Byte) BY <1>1, ByteMsgType
    <3> QED BY <3>1, HandleType, ConcatAssociative DEF ErrorReply, ResultMsg
  <2> HIDE DEF m
  <2>3. /\ Len(ErrorReply) = 1 + Len(m)
        /\ \A i \in 1..Len(m) : ErrorReply[i + 1] = m[i]
    BY <1>1, <1>5, <2>1, <2>2
  <2>4. ASSUME NEW i \in 3..(2 + SockLen) PROVE ErrorReply[i] = 255
    <3>1. i - 2 \in 1..SockLen /\ i - 1 \in 1..Len(m) /\ i - 2 + 1 = i - 1 /\ i - 1 + 1 = i
      BY <1>2, <2>1, <2>4
    <3>2. ErrorReply[i] = m[i - 1] BY <2>3, <3>1
    <3>3. m[i - 1] = INVALID_SOCKET[i - 2] BY <2>1, <3>1
    <3> QED BY <3>1, <3>2, <3>3 DEF INVALID_SOCKET
  <2> QED BY <1>2, <2>1, <2>3, <2>4
<1> QED BY <1>6, <1>7, <1>8, <1>9, <1>10

(* The states of an exchange, with so many bytes too many in the stream *)

Listing   == {"listenRes", "listenPort"}
Porting   == {"portRes", "portFd"}
Accepting == {"acceptRes", "acceptFd"}

\* The proto thread has taken a byte for the result of this exchange.
ReadRes == IF pc \in {"listenPort", "portFd", "acceptFd"} THEN 1 ELSE 0

\* The stream has n bytes of this exchange, and the ones that are too many.
Behind(n) == Len(toProto) + ReadRes = skew + n

\* The length of the answer the proto thread waits for.
AnswerLen == IF pc = "active" THEN IntLen
             ELSE IF pc \in Listing THEN 1 + IntLen ELSE 1 + SockLen

\* The nobody thread has nothing to do and nothing to read.
Quiet == toNobody = <<>> /\ npc \notin Serving

\* No exchange is going on: only the bytes too many are in the stream.
AtRest == pc \notin Waiting /\ Quiet /\ Len(toProto) = skew /\ Clean(toProto)

\* The request is on its way.
Requested ==
    /\ npc \notin Serving /\ Behind(0) /\ Clean(toProto)
    /\ \/ pc = "active" /\ toNobody = CmdMsg(PASV_ACTIVE)
       \/ pc \in Listing /\ toNobody = CmdMsg(PASV_LISTEN)
       \/ pc \in Porting /\ toNobody = CmdMsg(GET_DATA_SOCK) \o AddrMsg
       \/ pc \in Accepting /\ toNobody = CmdMsg(PASV_ACCEPT)

\* The nobody thread carries it out.
InService ==
    /\ Behind(0) /\ Clean(toProto)
    /\ \/ pc = "active" /\ toNobody = <<>> /\ npc = "pasv_active"
       \/ pc \in Listing /\ toNobody = <<>> /\ npc = "pasv_listen"
       \/ pc \in Porting /\ toNobody = AddrMsg /\ npc = "get_data_sock"
       \/ pc \in Accepting /\ toNobody = <<>> /\ npc = "pasv_accept"

\* The whole answer is there, or what the proto thread has left of it.  A RESULT_BAD
\* may be in it, but not among the bytes the next exchange will find too many.
Replied ==
    /\ pc \in Waiting /\ Quiet /\ Behind(AnswerLen) /\ CleanEnd(toProto, skew)
    /\ pc \in Listing => Clean(toProto)

\* The operation failed and answered nothing.
Silent ==
    /\ Quiet /\ Behind(0) /\ Clean(toProto)
    /\ \/ pc \in Listing /\ "listen" \in failed
       \/ pc \in Porting /\ "connect" \in failed

\* The accept timed out: RESULT_BAD is all there is.
GaveUp == pc \in Accepting /\ Quiet /\ Behind(1) /\ "acceptTimeout" \in failed

\* The exchange of the two threads, however far out of step.
Lagging == AtRest \/ Requested \/ InService \/ Replied \/ Silent \/ GaveUp

\* The inductive invariant: Lagging while the pair exists; without one no accept is
\* ever served; and the session is freed only after the proto thread has ended.
Lag ==
    /\ privUp => Lagging
    /\ ~privUp => skew = 0 /\ npc \notin Serving
    /\ npc = "end" => pc = "done"

\* A step that leaves the exchange as it is.
LEMMA LagSame ==
    ASSUME Lagging, UNCHANGED <<pc, toNobody, toProto, skew>>, failed \subseteq failed',
           npc \notin Serving, npc' \notin Serving
    PROVE  Lagging'
BY DEF Lagging, AtRest, Requested, InService, Replied, Silent, GaveUp, Quiet, Behind, ReadRes, AnswerLen,
       Serving

\* The proto thread takes a byte for a result.
LEMMA LagRead ==
    ASSUME Lagging, toProto \in Seq(Byte), skew \in Nat, 1 <= Len(toProto),
           \/ pc = "listenRes" /\ pc' = "listenPort"
           \/ pc = "portRes" /\ pc' = "portFd"
           \/ pc = "acceptRes" /\ pc' = "acceptFd",
           toProto' = Rest(TRUE, toProto, 1), UNCHANGED <<toNobody, npc, skew, failed>>
    PROVE  Lagging'
<1>1. Len(toProto') = Len(toProto) - 1 /\ Len(toProto) \in Nat BY RestBytes
<1>2. ReadRes = 0 /\ ReadRes' = 1 BY DEF ReadRes
<1>3. Clean(toProto) => Clean(toProto)' BY CleanRest DEF Clean
<1>4. CleanEnd(toProto, skew) => CleanEnd(toProto, skew)'
  <2>1. CleanEnd(toProto, skew) => CleanEnd(Rest(TRUE, toProto, 1), skew) BY <1>1, CleanEndRest
  <2> QED BY <2>1
<1>5. ASSUME NEW n \in Nat, Behind(n) PROVE Behind(n)'
  <2>1. Len(toProto) + 0 = skew + n BY <1>2, <1>5 DEF Behind
  <2>2. Len(toProto') + 1 = skew' + n BY ONLY <1>1, <2>1, skew \in Nat, skew' = skew, n \in Nat
  <2> QED BY <1>2, <2>2 DEF Behind
<1>6. AnswerLen \in Nat /\ AnswerLen' = AnswerLen
  BY SizesAssumption DEF AnswerLen, Listing
<1>7. /\ pc \in Waiting /\ pc' \in Waiting
      /\ (pc \in Listing <=> pc' \in Listing) /\ (pc \in Porting <=> pc' \in Porting)
      /\ (pc \in Accepting <=> pc' \in Accepting) /\ pc # "active"
  BY DEF Waiting, Listing, Porting, Accepting
<1>8. CASE Requested
  <2>1. Behind(0)' /\ Clean(toProto)' BY <1>3, <1>5, <1>8 DEF Requested
  <2> QED BY <1>7, <1>8, <2>1 DEF Requested, Lagging
<1>9. CASE InService
  <2>1. Behind(0)' /\ Clean(toProto)' BY <1>3, <1>5, <1>9 DEF InService
  <2> QED BY <1>7, <1>9, <2>1 DEF InService, Lagging
<1>10. CASE Replied
  <2>1. Behind(AnswerLen)' BY <1>5, <1>6, <1>10 DEF Replied, Behind
  <2> QED BY <1>3, <1>4, <1>7, <1>10, <2>1 DEF Replied, Lagging, Quiet
<1>11. CASE Silent
  <2>1. Behind(0)' /\ Clean(toProto)' BY <1>3, <1>5, <1>11 DEF Silent
  <2> QED BY <1>7, <1>11, <2>1 DEF Silent, Lagging, Quiet
<1>12. CASE GaveUp
  <2>1. Behind(1)' BY <1>5, <1>12 DEF GaveUp
  <2> QED BY <1>7, <1>12, <2>1 DEF GaveUp, Lagging, Quiet
<1> QED BY <1>7, <1>8, <1>9, <1>10, <1>11, <1>12 DEF Lagging, AtRest

\* A complete answer is taken: what was too much is left, and no more.
LEMMA LagTaken ==
    ASSUME Lagging, toProto \in Seq(Byte), skew \in Nat, skew < IntLen,
           \/ pc = "active" /\ IntLen <= Len(toProto) /\ toProto' = Rest(TRUE, toProto, IntLen)
           \/ pc = "listenPort" /\ IntLen <= Len(toProto) /\ toProto' = Rest(TRUE, toProto, IntLen)
           \/ /\ pc \in {"portFd", "acceptFd"}
              /\ SockLen <= Len(toProto) /\ toProto' = Rest(TRUE, toProto, SockLen)
    PROVE  Quiet /\ Len(toProto') = skew /\ Clean(toProto')
<1>1. Len(toProto) \in Nat /\ IntLen \in Nat /\ SockLen \in Nat /\ IntLen <= SockLen
  BY SizesAssumption, LenProperties
<1>2. PICK n \in {IntLen, SockLen} :
        /\ n <= Len(toProto) /\ toProto' = Rest(TRUE, toProto, n)
        /\ AnswerLen = n + ReadRes /\ pc \in Waiting
  <2>1. CASE pc = "active"
    <3>1. AnswerLen = IntLen + 0 /\ ReadRes = 0 BY <1>1, <2>1 DEF AnswerLen, ReadRes
    <3> QED BY <2>1, <3>1 DEF Waiting
  <2>2. CASE pc = "listenPort"
    <3>1. AnswerLen = IntLen + 1 /\ ReadRes = 1
      BY <1>1, <2>2 DEF AnswerLen, ReadRes, Listing
    <3> QED BY <2>2, <3>1 DEF Waiting
  <2>3. CASE pc \in {"portFd", "acceptFd"}
    <3>1. AnswerLen = SockLen + 1 /\ ReadRes = 1
      BY <1>1, <2>3 DEF AnswerLen, ReadRes, Listing
    <3> QED BY <2>3, <3>1 DEF Waiting
  <2> QED BY <2>1, <2>2, <2>3
<1>3. n \in Nat /\ skew < n BY <1>1
<1>4. ReadRes = 0 \/ ReadRes = 1 BY DEF ReadRes
<1>5. ~Behind(0) BY <1>1, <1>2, <1>3, <1>4 DEF Behind
<1>6. pc \in Accepting => ~Behind(1)
  <2>1. pc \in Accepting => ReadRes = 1 BY DEF Accepting, ReadRes
  <2> QED BY <1>1, <1>2, <1>3, <2>1 DEF Behind
<1>7. Replied
  BY <1>2, <1>5, <1>6 DEF Lagging, AtRest, Requested, InService, Silent, GaveUp
<1>8. Len(toProto) = skew + n
  <2>1. Len(toProto) + ReadRes = skew + (n + ReadRes) BY <1>2, <1>7 DEF Replied, Behind
  <2> QED BY <1>1, <1>3, <1>4, <2>1
<1>9. Len(toProto') = skew
  <2>1. Len(Rest(TRUE, toProto, n)) = Len(toProto) - n BY <1>2, <1>3, RestBytes
  <2>2. Len(toProto) - n = skew BY ONLY <1>3, <1>8, skew \in Nat
  <2>3. toProto' = Rest(TRUE, toProto, n) BY <1>2
  <2> QED BY ONLY <2>1, <2>2, <2>3
<1>10. Clean(toProto')
  <2>1. CleanEnd(toProto, skew) /\ skew = Len(toProto) - n BY <1>1, <1>3, <1>7, <1>8 DEF Replied
  <2>2. Clean(Rest(TRUE, toProto, n)) BY <1>2, <1>3, <2>1, CleanEndRest
  <2> QED BY <1>2, <2>2
<1> QED BY <1>7, <1>9, <1>10 DEF Replied

\* The steps of the nobody thread.
LEMMA LagNobody ==
    ASSUME TypeOK, NoPair, Lag, Nobody, privUp' PROVE Lagging'
<1>t. /\ toNobody \in Seq(Byte) /\ toProto \in Seq(Byte) /\ Len(toProto) \in Nat
      /\ skew \in Nat /\ MaxSkew \in Nat /\ MaxSkew < SockLen /\ IntLen \in Nat /\ SockLen \in Nat
  BY SizesAssumption, SessionAssumption, LenProperties DEF TypeOK, Byte
<1>1. CASE SessionStart
  <2>1. toNobody' = <<>> /\ toProto' = <<>> /\ skew' = 0 /\ pc' \notin Waiting /\ npc' \notin Serving
    BY <1>1 DEF SessionStart, NoPair, Lag, privVars, Waiting, Serving
  <2>2. Len(toProto') = 0 /\ Clean(toProto') BY <2>1 DEF Clean
  <2> QED BY <2>1, <2>2 DEF Lagging, AtRest, Quiet
<1>2. CASE ~SessionStart
  <2>1. privUp = TRUE /\ Lagging
    BY <1>2 DEF Nobody, NobodyLoop, NobodyRecvCmd, PrivGetDataSock, PrivPasvActive,
                PrivPasvListen, PrivPasvAccept, SessionFree, NobodyOnly, TypeOK, Lag
  <2>2. UNCHANGED pc
    BY <1>2 DEF Nobody, NobodyLoop, NobodyRecvCmd, PrivGetDataSock, PrivPasvActive,
                PrivPasvListen, PrivPasvAccept, SessionFree, NobodyOnly, protoVars
  <2>3. CASE NobodyLoop \/ SessionFree
    BY <2>1, <2>2, <2>3, LagSame DEF NobodyLoop, SessionFree, privVars, Serving
  <2>4. CASE NobodyRecvCmd
    <3>1. npc \notin Serving /\ toNobody # <<>>
      BY <2>1, <2>4 DEF NobodyRecvCmd, Serving, CanRecv
    <3>2. Requested BY <2>1, <3>1 DEF Lagging, AtRest, InService, Replied, Silent, GaveUp, Quiet, Serving
    <3>3. npc' = Operation(Low(Recv(TRUE, toNobody, 1))) /\ toNobody' = Rest(TRUE, toNobody, 1)
      BY <2>1, <2>4 DEF NobodyRecvCmd
    <3>4. \/ pc = "active" /\ toNobody' = <<>> /\ npc' = "pasv_active"
          \/ pc \in Listing /\ toNobody' = <<>> /\ npc' = "pasv_listen"
          \/ pc \in Porting /\ toNobody' = AddrMsg /\ npc' = "get_data_sock"
          \/ pc \in Accepting /\ toNobody' = <<>> /\ npc' = "pasv_accept"
      BY <3>2, <3>3, CommandRead, Distinct DEF Requested
    <3>5. UNCHANGED <<toProto, skew>> BY <2>4 DEF NobodyRecvCmd
    <3> QED BY <2>2, <3>2, <3>4, <3>5 DEF Lagging, Requested, InService, Behind, ReadRes
  <2>5. ASSUME npc \in Serving
        PROVE  /\ InService
               /\ npc = "pasv_active" => pc = "active" /\ toNobody = <<>>
               /\ npc = "pasv_listen" => pc \in Listing /\ toNobody = <<>>
               /\ npc = "pasv_accept" => pc \in Accepting /\ toNobody = <<>>
               /\ npc = "get_data_sock" => pc \in Porting /\ toNobody = AddrMsg
    <3>1. InService
      BY <2>1, <2>5 DEF Lagging, AtRest, Requested, Replied, Silent, GaveUp, Quiet
    <3> QED BY <3>1 DEF InService
  <2>6. ASSUME NEW m \in Seq(Byte), toProto' = Sent(TRUE, toProto, m), InService
        PROVE  Len(toProto') + ReadRes = skew + Len(m) /\ (Clean(m) => Clean(toProto'))
    <3>1. Len(toProto) + ReadRes = skew + 0 /\ Clean(toProto) BY <2>6 DEF InService, Behind
    <3>2. Len(Sent(TRUE, toProto, m)) = Len(toProto) + Len(m) /\ Len(m) \in Nat
      BY <1>t, <2>6, SentBytes
    <3>3. Clean(m) => Clean(Sent(TRUE, toProto, m)) BY <1>t, <2>6, <3>1, CleanSent
    <3>4. ReadRes \in Nat BY DEF ReadRes
    <3>5. Len(toProto) + Len(m) + ReadRes = skew + Len(m) BY ONLY <1>t, <3>1, <3>2, <3>4
    <3> QED BY ONLY <2>6, <3>2, <3>3, <3>5
  <2>7. ReadRes' = ReadRes /\ AnswerLen' = AnswerLen BY <2>2 DEF ReadRes, AnswerLen
  <2>8. ASSUME NEW m \in Seq(Byte), toProto' = Sent(TRUE, toProto, m), Len(m) = AnswerLen, Clean(m),
               InService, toNobody' = <<>>, npc' = "loop", skew' = skew, pc \in Waiting
        PROVE  Lagging'
    <3>1. Behind(AnswerLen)' BY <2>6, <2>7, <2>8 DEF Behind
    <3>2. Clean(toProto') /\ CleanEnd(toProto', skew') BY <2>6, <2>8, CleanIsCleanEnd
    <3> QED BY <2>2, <2>8, <3>1, <3>2 DEF Lagging, Replied, Quiet, Serving
  <2>9. CASE PrivGetDataSock
    <3>1. InService /\ pc \in Porting /\ toNobody = AddrMsg
      BY <2>5, <2>9 DEF PrivGetDataSock, Serving
    <3>2. toNobody' = <<>> BY <2>1, <2>9, <3>1, CommandRead DEF PrivGetDataSock
    <3>3. npc' = "loop" /\ UNCHANGED skew BY <2>9 DEF PrivGetDataSock
    <3>4. CASE toProto' = Sent(privUp, toProto, ConnectedReply)
      <4>1. AnswerLen = 1 + SockLen /\ pc \in Waiting
        BY <3>1 DEF AnswerLen, Porting, Listing, Waiting
      <4> QED BY <2>1, <2>8, <3>1, <3>2, <3>3, <3>4, <4>1, MessageTypes, AnswerBytes DEF Byte
    <3>5. CASE toProto' = toProto /\ "connect" \in failed'
      BY <2>2, <3>1, <3>2, <3>3, <3>5
         DEF Lagging, Silent, InService, Quiet, Serving, Behind, ReadRes
    <3> QED BY <2>9, <3>4, <3>5 DEF PrivGetDataSock, Fails
  <2>10. CASE PrivPasvActive
    <3>1. InService /\ pc = "active" /\ toNobody = <<>>
      BY <2>5, <2>10 DEF PrivPasvActive, Serving
    <3>2. AnswerLen = IntLen /\ pc \in Waiting BY <3>1 DEF AnswerLen, Waiting
    <3>3. /\ npc' = "loop" /\ UNCHANGED <<toNobody, skew>>
          /\ toProto' = Sent(TRUE, toProto, ActiveReply(listen_fd = "open"))
      BY <2>1, <2>10 DEF PrivPasvActive
    <3> QED BY <2>8, <3>1, <3>2, <3>3, MessageTypes, AnswerBytes DEF Byte
  <2>11. CASE PrivPasvListen
    <3>1. InService /\ pc \in Listing /\ toNobody = <<>>
      BY <2>5, <2>11 DEF PrivPasvListen, Serving
    <3>2. AnswerLen = 1 + IntLen /\ pc \in Waiting BY <3>1 DEF AnswerLen, Listing, Waiting
    <3>3. npc' = "loop" /\ UNCHANGED <<toNobody, skew>> BY <2>11 DEF PrivPasvListen
    <3>4. CASE toProto' = Sent(privUp, toProto, ListenReply)
      BY <2>1, <2>8, <3>1, <3>2, <3>3, <3>4, MessageTypes, AnswerBytes DEF Byte
    <3>5. CASE toProto' = toProto /\ "listen" \in failed'
      BY <2>2, <3>1, <3>3, <3>5 DEF Lagging, Silent, InService, Quiet, Serving, Behind, ReadRes
    <3> QED BY <2>11, <3>4, <3>5 DEF PrivPasvListen, Fails
  <2>12. CASE PrivPasvAccept
    <3>1. InService /\ pc \in Accepting /\ toNobody = <<>>
      BY <2>5, <2>12 DEF PrivPasvAccept, Serving
    <3>2. AnswerLen = 1 + SockLen /\ pc \in Waiting /\ pc \notin Listing
      BY <3>1 DEF AnswerLen, Accepting, Listing, Waiting
    <3>3. npc' = "loop" /\ UNCHANGED toNobody BY <2>12 DEF PrivPasvAccept
    <3>4. CASE toProto' = Sent(privUp, toProto, ConnectedReply) /\ skew' = skew
      BY <2>1, <2>8, <3>1, <3>2, <3>3, <3>4, MessageTypes, AnswerBytes DEF Byte
    <3>5. CASE /\ toProto' = Sent(privUp, toProto, TimeoutReply) /\ skew' = skew
               /\ "acceptTimeout" \in failed'
      <4>1. Behind(1)'
        BY <2>1, <2>6, <2>7, <3>1, <3>5, MessageTypes, AnswerBytes DEF Behind, Byte
      <4> QED BY <2>2, <3>1, <3>3, <3>5, <4>1 DEF Lagging, GaveUp, Quiet, Serving
    <3>6. CASE toProto' = Sent(privUp, toProto, ErrorReply) /\ skew' = skew + 1 /\ skew < MaxSkew
      <4>1. ErrorReply \in Seq(Byte) BY MessageTypes DEF Byte
      <4>2. Len(toProto') + ReadRes = skew + (2 + SockLen)
        BY <2>1, <2>6, <3>1, <3>6, <4>1, AnswerBytes
      <4>3. Behind(AnswerLen)'
        <5>1. skew + (2 + SockLen) = skew' + (1 + SockLen) BY ONLY <1>t, <3>6
        <5> QED BY <2>7, <3>2, <4>2, <5>1 DEF Behind
      <4>4. ASSUME NEW i \in 1..Len(toProto'), i > Len(toProto') - skew' PROVE toProto'[i] # RESULT_BAD
        <5>1. /\ Len(toProto') = Len(toProto) + (2 + SockLen)
              /\ \A j \in 1..(Len(toProto) + (2 + SockLen)) :
                   toProto'[j] = IF j <= Len(toProto) THEN toProto[j] ELSE ErrorReply[j - Len(toProto)]
          <6>1. /\ Len(Sent(TRUE, toProto, ErrorReply)) = Len(toProto) + Len(ErrorReply)
                /\ \A j \in 1..(Len(toProto) + Len(ErrorReply)) :
                     Sent(TRUE, toProto, ErrorReply)[j] =
                       IF j <= Len(toProto) THEN toProto[j] ELSE ErrorReply[j - Len(toProto)]
            BY <1>t, <4>1, SentBytes
          <6>2. Len(ErrorReply) = 2 + SockLen BY AnswerBytes
          <6>3. toProto' = Sent(TRUE, toProto, ErrorReply) BY <2>1, <3>6
          <6> QED BY ONLY <6>1, <6>2, <6>3
        <5>2. /\ i \in 1..(Len(toProto) + (2 + SockLen)) /\ ~(i <= Len(toProto))
              /\ i - Len(toProto) \in 3..(2 + SockLen)
          BY <1>t, <3>6, <4>4, <5>1
        <5>3. ErrorReply[i - Len(toProto)] = 255 BY <5>2, AnswerBytes
        <5> QED BY <5>1, <5>2, <5>3 DEF RESULT_BAD
      <4>5. CleanEnd(toProto', skew') BY <4>4 DEF CleanEnd
      <4> QED BY <2>2, <3>1, <3>2, <3>3, <4>3, <4>5 DEF Lagging, Replied, Quiet, Serving
    <3> QED BY <2>12, <3>4, <3>5, <3>6 DEF PrivPasvAccept, Fails
  <2> QED BY <1>2, <2>3, <2>4, <2>9, <2>10, <2>11, <2>12 DEF Nobody
<1> QED BY <1>1, <1>2

\* The steps of the proto thread.
LEMMA LagProto ==
    ASSUME TypeOK, Lagging, privUp = TRUE, Client \/ Proto PROVE Lagging'
<1>t. /\ toNobody \in Seq(Byte) /\ toProto \in Seq(Byte) /\ Len(toProto) \in Nat
      /\ skew \in Nat /\ skew < IntLen /\ IntLen \in Nat /\ SockLen \in Nat
  BY SizesAssumption, SessionAssumption, LenProperties DEF TypeOK, Byte
<1>0. ProtoOnly
  BY DEF Client, ControlClosed, LocalCommand, Quit, Port, Pasv, RetrWithoutHooks, Restart, Transfer,
         Proto, Greet, ProtoLoop, PasvResult, PasvPort, ChooseMode, DataResult, DataFd, RetrBegin,
         SendBlock, RetrEnd, UploadBegin, UploadGivesUp, UploadEnd, List
<1>1. UNCHANGED <<npc, skew>> BY <1>0 DEF ProtoOnly
<1>2. CASE PasvResult \/ DataResult
  <2>1. 1 <= Len(toProto) /\ toProto' = Rest(TRUE, toProto, 1) /\ UNCHANGED <<toNobody, failed>>
    BY <1>t, <1>2 DEF PasvResult, DataResult, CanRecv
  <2>2. ASSUME PasvResult PROVE pc = "listenRes" /\ pc' = "listenPort"
    <3>1. pc = "listenRes" BY <2>2 DEF PasvResult
    <3>2. Clean(toProto)
      BY <3>1 DEF Lagging, AtRest, Requested, InService, Replied, Silent, GaveUp, Waiting, Listing, Accepting
    <3>3. Low(Recv(TRUE, toProto, 1)) # RESULT_BAD BY <1>t, <2>1, <3>2, CleanFirst
    <3> QED BY <2>2, <3>1, <3>3 DEF PasvResult
  <2>3. ASSUME DataResult
        PROVE  \/ pc = "portRes" /\ pc' = "portFd"
               \/ pc = "acceptRes" /\ pc' = "acceptFd"
    BY <2>3 DEF DataResult
  <2> QED BY <1>t, <1>1, <1>2, <2>1, <2>2, <2>3, LagRead
<1>3. CASE PasvPort \/ ChooseMode \/ DataFd
  <2>1. \/ pc = "active" /\ IntLen <= Len(toProto) /\ toProto' = Rest(TRUE, toProto, IntLen)
        \/ pc = "listenPort" /\ IntLen <= Len(toProto) /\ toProto' = Rest(TRUE, toProto, IntLen)
        \/ /\ pc \in {"portFd", "acceptFd"}
           /\ SockLen <= Len(toProto) /\ toProto' = Rest(TRUE, toProto, SockLen)
    BY <1>t, <1>3 DEF PasvPort, ChooseMode, DataFd, CanRecv
  <2>2. Quiet /\ Len(toProto') = skew /\ Clean(toProto') BY <1>t, <2>1, LagTaken
  <2>3. \/ pc' \in {"loop", "opened"} /\ toNobody' = toNobody
        \/ pc' = "portRes" /\ toNobody' = Sent(TRUE, toNobody, CmdMsg(GET_DATA_SOCK) \o AddrMsg)
        \/ pc' = "acceptRes" /\ toNobody' = Sent(TRUE, toNobody, CmdMsg(PASV_ACCEPT))
    BY <1>3 DEF PasvPort, ChooseMode, DataFd
  <2>4. \/ pc' \in {"loop", "opened"} /\ toNobody' = <<>>
        \/ pc' = "portRes" /\ toNobody' = CmdMsg(GET_DATA_SOCK) \o AddrMsg
        \/ pc' = "acceptRes" /\ toNobody' = CmdMsg(PASV_ACCEPT)
    BY <2>2, <2>3, SentToEmpty, MessageTypes DEF Quiet
  <2>5. CASE pc' \in {"loop", "opened"} /\ toNobody' = <<>>
    BY <1>1, <2>2, <2>5 DEF Lagging, AtRest, Quiet, Waiting
  <2>6. CASE pc' \in {"portRes", "acceptRes"}
    <3>1. Behind(0)'
      <4>1. ReadRes' = 0 BY <2>6 DEF ReadRes
      <4> QED BY ONLY <1>t, <1>1, <2>2, <4>1 DEF Behind
    <3> QED BY <1>1, <2>2, <2>4, <2>6, <3>1 DEF Lagging, Requested, Quiet, Porting, Accepting
  <2> QED BY <2>4, <2>5, <2>6
<1>4. CASE Pasv \/ \E c \in Transfers : Transfer(c)
  <2>1. pc = "readline" /\ toProto' = toProto BY <1>4 DEF Pasv, Transfer
  <2>2. AtRest
    BY <2>1 DEF Lagging, AtRest, Requested, InService, Replied, Silent, GaveUp, Waiting, Listing,
                Porting, Accepting
  <2>3. \/ pc' = "listenRes" /\ toNobody' = Sent(TRUE, <<>>, CmdMsg(PASV_LISTEN))
        \/ pc' = "active" /\ toNobody' = Sent(TRUE, <<>>, CmdMsg(PASV_ACTIVE))
    BY <1>4, <2>2 DEF Pasv, Transfer, AtRest, Quiet
  <2>4. \/ pc' = "listenRes" /\ toNobody' = CmdMsg(PASV_LISTEN)
        \/ pc' = "active" /\ toNobody' = CmdMsg(PASV_ACTIVE)
    BY <2>3, SentToEmpty, MessageTypes
  <2>5. Behind(0)'
    <3>1. ReadRes' = 0 BY <2>4 DEF ReadRes
    <3>2. Len(toProto) = skew BY <2>2 DEF AtRest
    <3> QED BY ONLY <1>t, <1>1, <2>1, <3>1, <3>2 DEF Behind
  <2> QED BY <1>1, <2>1, <2>2, <2>4, <2>5 DEF Lagging, Requested, AtRest, Quiet, Listing
<1>5. CASE ~(PasvResult \/ DataResult \/ PasvPort \/ ChooseMode \/ DataFd \/ Pasv
               \/ \E c \in Transfers : Transfer(c))
  <2>1. /\ pc \in {"greet", "loop", "opened", "send", "recv", "readline"}
        /\ pc' \in {"loop", "done", "readline", "send", "recv"}
        /\ UNCHANGED <<toNobody, toProto>>
    BY <1>5 DEF Client, ControlClosed, LocalCommand, Quit, Port, RetrWithoutHooks, Restart, Proto, Greet,
                ProtoLoop, RetrBegin, SendBlock, RetrEnd, UploadBegin, UploadGivesUp, UploadEnd, List,
                EndCommand, protoVars, privVars
  <2>2. AtRest
    BY <2>1 DEF Lagging, AtRest, Requested, InService, Replied, Silent, GaveUp, Waiting, Listing,
                Porting, Accepting
  <2>3. pc' \notin Waiting BY <2>1 DEF Waiting
  <2> QED BY <1>1, <2>1, <2>2, <2>3 DEF Lagging, AtRest, Quiet
<1> QED BY <1>2, <1>3, <1>4, <1>5

\* No other step ends the nobody thread, serves without a pair, or undoes "done".
LEMMA LagElsewhere ==
    ASSUME TypeOK, NoPair, Lag, [Next]_vars
    PROVE  /\ privUp' # privUp => npc = "start"
           /\ npc' = "end" => pc' = "done"
           /\ ~privUp' => skew' = 0 /\ npc' \notin Serving
<1>1. ASSUME npc = "end" \/ SessionFree PROVE pc = "done" BY <1>1 DEF Lag, SessionFree
<1>2. ASSUME Nobody PROVE pc = "done" => pc' = "done" \/ npc = "start"
  BY <1>2 DEF Nobody, SessionStart, NobodyLoop, NobodyRecvCmd, PrivGetDataSock, PrivPasvActive,
              PrivPasvListen, PrivPasvAccept, SessionFree, NobodyOnly, protoVars
<1>3. ASSUME Client \/ Proto PROVE pc # "done" /\ UNCHANGED <<privUp, npc, skew>>
  BY <1>3 DEF Client, ControlClosed, LocalCommand, Quit, Port, Pasv, RetrWithoutHooks, Restart, Transfer,
              Proto, Greet, ProtoLoop, PasvResult, PasvPort, ChooseMode, DataResult, DataFd, RetrBegin,
              SendBlock, RetrEnd, UploadBegin, UploadGivesUp, UploadEnd, List, ProtoOnly
<1>4. ASSUME ExitLoop \/ UNCHANGED vars PROVE UNCHANGED <<pc, privUp, npc, skew>>
  BY <1>4 DEF ExitLoop, vars, protoVars
<1>5. ASSUME Nobody, npc # "start" PROVE UNCHANGED <<pc, privUp>>
  BY <1>5 DEF Nobody, SessionStart, NobodyLoop, NobodyRecvCmd, PrivGetDataSock, PrivPasvActive,
              PrivPasvListen, PrivPasvAccept, SessionFree, NobodyOnly, protoVars
<1>6. ASSUME Nobody, npc' = "end" PROVE SessionFree \/ npc = "end"
  <2>1. \A c : Operation(c) # "end" BY DEF Operation
  <2> QED BY <1>6, <2>1
           DEF Nobody, SessionStart, NobodyLoop, NobodyRecvCmd, PrivGetDataSock, PrivPasvActive,
               PrivPasvListen, PrivPasvAccept, SessionFree
<1>7. ASSUME Nobody, ~privUp' PROVE skew' = 0 /\ npc' \notin Serving
  <2>1. CASE SessionStart
    <3>1. skew = 0 BY <2>1 DEF SessionStart, NoPair, Lag
    <3> QED BY <2>1, <3>1 DEF SessionStart, Serving
  <2>2. CASE ~SessionStart
    <3>1. privUp = FALSE /\ skew = 0 /\ npc \notin Serving
      BY <1>7, <2>2 DEF Nobody, NobodyLoop, NobodyRecvCmd, PrivGetDataSock, PrivPasvActive,
                        PrivPasvListen, PrivPasvAccept, SessionFree, NobodyOnly, Lag, TypeOK
    <3>2. Operation(Low(Recv(FALSE, toNobody, 1))) = "loop"
      <4>1. Low(Word(0, 1)) = 0 BY DEF Low, Word
      <4> QED BY <4>1 DEF Recv, Operation, GET_DATA_SOCK, PASV_ACTIVE, PASV_LISTEN, PASV_ACCEPT
    <3> QED BY <1>7, <2>2, <3>1, <3>2
             DEF Nobody, NobodyLoop, NobodyRecvCmd, PrivGetDataSock, PrivPasvActive,
                 PrivPasvListen, PrivPasvAccept, SessionFree, Serving
  <2> QED BY <2>1, <2>2
<1>8. CASE Nobody
  <2>1. npc' = "end" => npc # "start" BY <1>1, <1>6, <1>8 DEF SessionFree
  <2> QED BY <1>1, <1>5, <1>6, <1>7, <1>8, <2>1
<1>9. CASE ~Nobody
  <2>1. UNCHANGED <<privUp, npc, skew>> /\ (pc = "done" => pc' = "done")
    BY <1>3, <1>4, <1>9 DEF Next
  <2> QED BY <2>1 DEF Lag
<1> QED BY <1>8, <1>9

\* Every step keeps the lag what it is.
LEMMA LagStep == ASSUME TypeOK, NoPair, Lag, [Next]_vars PROVE Lag'
<1>1. ASSUME privUp' PROVE Lagging'
  <2>1. CASE Nobody BY <1>1, <2>1, LagNobody
  <2>2. CASE ~Nobody
    <3>1. privUp = TRUE /\ Lagging
      <4>1. UNCHANGED privUp
        BY <2>2 DEF Next, ExitLoop, vars, Client, ControlClosed, LocalCommand, Quit, Port, Pasv,
                    RetrWithoutHooks, Restart, Transfer, Proto, Greet, ProtoLoop, PasvResult, PasvPort,
                    ChooseMode, DataResult, DataFd, RetrBegin, SendBlock, RetrEnd, UploadBegin,
                    UploadGivesUp, UploadEnd, List, ProtoOnly
      <4> QED BY <1>1, <4>1 DEF Lag, TypeOK
    <3>2. CASE Client \/ Proto BY <3>1, <3>2, LagProto
    <3>3. CASE ExitLoop \/ UNCHANGED vars
      <4>1. UNCHANGED <<pc, npc, toNobody, toProto, skew, failed>>
        BY <3>3 DEF ExitLoop, vars, protoVars, privVars
      <4> QED BY <3>1, <4>1 DEF Lagging, AtRest, Requested, InService, Replied, Silent, GaveUp, Quiet,
                  Behind, ReadRes, AnswerLen, Clean, CleanEnd
    <3> QED BY <2>2, <3>2, <3>3 DEF Next
  <2> QED BY <2>1, <2>2
<1> QED BY <1>1, LagElsewhere DEF Lag

\* So it holds throughout a session.
LEMMA LagAlways == Spec => [](TypeOK /\ NoPair /\ Lag)
<1>1. Init => NoPair /\ Lag
  BY DEF Init, NoPair, Lag, Serving
<1>2. TypeOK /\ NoPair /\ Exchange /\ Lag /\ [Next]_vars => (NoPair /\ Lag)'
  BY NoPairStep, LagStep
<1> QED BY <1>1, <1>2, TypeCorrect, ExchangeCorrect, PTL DEF Spec

\* However many accepts have failed in the middle, the stream is off by exactly
\* one byte for each of them whenever no exchange is going on: the lag of a
\* session never heals and never grows in any other way.
THEOREM LagIsSkewAlways == Spec => []LagIsSkew
<1>1. TypeOK /\ NoPair /\ Lag => LagIsSkew
  <2> SUFFICES ASSUME TypeOK, NoPair, Lag, pc \notin Waiting \cup {"none"}
               PROVE  Len(toProto) = skew /\ toNobody = <<>>
    BY DEF LagIsSkew
  <2>1. CASE privUp
    <3>1. AtRest
      BY <2>1 DEF Lag, Lagging, Requested, InService, Replied, Silent, GaveUp, Waiting, Listing, Porting,
                  Accepting
    <3> QED BY <3>1 DEF AtRest, Quiet
  <2>2. CASE ~privUp BY <2>2 DEF NoPair, Lag
  <2> QED BY <2>1, <2>2
<1> QED BY <1>1, LagAlways, PTL

\* A proto thread that waits for bytes nobody will send does so only because an
\* operation of the nobody thread failed without an answer, or because that
\* thread saw quit and left; the exchange itself never blocks both threads.
THEOREM StallsHaveCause == Spec => []StallHasCause
<1>1. TypeOK /\ NoPair /\ Lag => StallHasCause
  <2> SUFFICES ASSUME TypeOK, NoPair, Lag, pc \in Waiting, ~CanRecv(privUp, toProto, Awaited),
                      npc \notin Serving \cup {"loop"}, npc = "recv" => toNobody = <<>>, npc # "wait"
               PROVE  failed \cap {"connect", "listen", "acceptTimeout"} # {}
    BY DEF StallHasCause
  <2>1. privUp = TRUE /\ ~(Awaited <= Len(toProto))
    <3>1. Len(toProto) \in Nat BY LenProperties DEF TypeOK
    <3>2. IntLen \in Nat /\ SockLen \in Nat BY SizesAssumption
    <3>3. Awaited \in Nat BY <3>2 DEF Awaited
    <3> QED BY <3>1, <3>3 DEF CanRecv, TypeOK
  <2>2. Lagging /\ npc = "recv"
    <3>1. npc \notin {"start", "end"} BY <2>1 DEF NoPair, Lag, Waiting
    <3> QED BY <2>1, <3>1 DEF Lag, TypeOK, NobodyPc
  <2>3. ~Requested
    <3>1. \A c : CmdMsg(c) # <<>> BY DEF CmdMsg
    <3>2. CmdMsg(GET_DATA_SOCK) \o AddrMsg # <<>>
      <4>1. GET_DATA_SOCK \in Byte BY DEF Byte, GET_DATA_SOCK
      <4>2. CmdMsg(GET_DATA_SOCK) \in Seq(Byte) /\ Len(CmdMsg(GET_DATA_SOCK)) = 1
        BY <4>1, ByteMsgType DEF CmdMsg
      <4> QED BY <4>2, AddrMsgType, ConcatProperties, EmptySeq
    <3> QED BY <2>2, <3>1, <3>2 DEF Requested
  <2>4. ~Replied
    <3>1. ASSUME Replied PROVE Awaited <= Len(toProto)
      <4>1. Len(toProto) + ReadRes = skew + AnswerLen BY <3>1 DEF Replied, Behind
      <4>2. AnswerLen = Awaited + ReadRes \/ (Awaited <= AnswerLen /\ ReadRes = 0)
        <5>1. IntLen \in Nat /\ SockLen \in Nat /\ IntLen >= 2 /\ SockLen >= 2 BY SizesAssumption
        <5> QED BY <5>1 DEF Waiting, AnswerLen, Awaited, ReadRes, Listing
      <4>3. Len(toProto) \in Nat /\ skew \in Nat /\ Awaited \in Nat /\ AnswerLen \in Nat /\ ReadRes \in Nat
        <5>1. IntLen \in Nat /\ SockLen \in Nat BY SizesAssumption
        <5>2. Len(toProto) \in Nat BY LenProperties DEF TypeOK
        <5>3. skew \in Nat BY SessionAssumption DEF TypeOK
        <5> QED BY <5>1, <5>2, <5>3 DEF Awaited, AnswerLen, ReadRes
      <4> QED BY ONLY <4>1, <4>2, <4>3
    <3> QED BY <2>1, <3>1
  <2>5. Silent \/ GaveUp
    BY <2>2, <2>3, <2>4 DEF Lagging, AtRest, InService, Serving
  <2> QED BY <2>5 DEF Silent, GaveUp
<1> QED BY <1>1, LagAlways, PTL

-----------------------------------------------------------------------------
(* The replies to a command, by how far the command has come *)

Transferring == {150} \cup Completions

\* Nothing of a transfer yet, and no port.
Plain(r) == r \in Seq(Nat) /\ \A i \in 1..Len(r) : r[i] \notin Transferring \cup {227}

\* The last reply names a port.
Named(r) ==
    /\ r \in Seq(Nat) /\ Len(r) > 0 /\ r[Len(r)] = 227
    /\ \A i \in 1..Len(r) : r[i] \notin Transferring

Begun(r) ==
    /\ r \in Seq(Nat) /\ Len(r) > 0 /\ r[Len(r)] = 150
    /\ \A i \in 1..Len(r) : r[i] \notin Completions

Ended(r) ==
    /\ r \in Seq(Nat) /\ Len(r) > 1 /\ r[Len(r)] \in Completions
    /\ r[Len(r) - 1] = 150 /\ \A i \in 1..Len(r) - 1 : r[i] \notin Completions

Between == {"loop", "readline", "done"}

Stage(p, r) ==
    /\ p \in Waiting \cup {"none", "greet", "opened"} => Plain(r)
    /\ p \in {"send", "recv"} => Begun(r)
    /\ p \in Between => Plain(r) \/ Ended(r)

\* Before the session has started the proto thread is nowhere.
Asleep == npc = "start" => pc = "none"

Staged == Asleep /\ (Stage(pc, replies) \/ (pc \in Between /\ Named(replies)))

\* One reply more.
LEMMA Then ==
    ASSUME NEW r \in Seq(Nat), NEW c \in Nat
    PROVE  /\ r \o <<c>> \in Seq(Nat) /\ Len(r \o <<c>>) = Len(r) + 1
           /\ (r \o <<c>>)[Len(r) + 1] = c
           /\ \A i \in 1..Len(r) : (r \o <<c>>)[i] = r[i]
<1>1. <<c>> \in Seq(Nat) /\ Len(<<c>>) = 1 /\ <<c>>[1] = c OBVIOUS
<1>2. /\ r \o <<c>> \in Seq(Nat) /\ Len(r \o <<c>>) = Len(r) + 1
      /\ \A i \in 1 .. Len(r) + 1 :
           (r \o <<c>>)[i] = IF i <= Len(r) THEN r[i] ELSE <<c>>[i - Len(r)]
  BY ONLY <1>1, ConcatProperties
<1>3. Len(r) \in Nat OBVIOUS
<1>4. (r \o <<c>>)[Len(r) + 1] = <<c>>[Len(r) + 1 - Len(r)] BY ONLY <1>2, <1>3
<1>5. (r \o <<c>>)[Len(r) + 1] = c BY ONLY <1>1, <1>3, <1>4
<1> QED  BY ONLY <1>2, <1>3, <1>5

\* One reply more to a command that has said nothing of a transfer.
LEMMA PlainThen ==
    ASSUME NEW r, Plain(r), NEW c \in Nat
    PROVE  /\ c \notin Transferring \cup {227} => Plain(r \o <<c>>)
           /\ c = 227 => Named(r \o <<c>>)
           /\ c = 150 => Begun(r \o <<c>>)
<1> DEFINE s == r \o <<c>>
<1>1. /\ s \in Seq(Nat) /\ Len(s) = Len(r) + 1 /\ s[Len(r) + 1] = c
      /\ \A i \in 1..Len(r) : s[i] = r[i]
  BY Then DEF Plain
<1>2. Len(r) \in Nat /\ \A i \in 1..Len(r) : r[i] \notin Transferring \cup {227} BY DEF Plain
<1> HIDE DEF s
<1>3. \A i \in 1..Len(s) : s[i] = c \/ s[i] \notin Transferring \cup {227} BY <1>1, <1>2
<1>4. 150 \notin Completions /\ 227 \notin Transferring BY DEF Completions, Transferring
<1>5. c \notin Transferring \cup {227} => Plain(s) BY <1>1, <1>3 DEF Plain
<1>6. c = 227 => Named(s) BY <1>1, <1>2, <1>3, <1>4 DEF Named
<1>7. c = 150 => Begun(s) BY <1>1, <1>2, <1>3, <1>4 DEF Begun, Transferring
<1> QED  BY <1>5, <1>6, <1>7 DEF s

\* The completion of a transfer that has begun.
LEMMA BegunThen ==
    ASSUME NEW r, Begun(r), NEW c \in Completions
    PROVE  Ended(r \o <<c>>)
<1> DEFINE s == r \o <<c>>
<1>1. c \in Nat BY DEF Completions
<1>2. r \in Seq(Nat) BY DEF Begun
<1>3. /\ s \in Seq(Nat) /\ Len(s) = Len(r) + 1 /\ s[Len(r) + 1] = c
      /\ \A i \in 1..Len(r) : s[i] = r[i]
  BY <1>1, <1>2, Then
<1>4. Len(r) \in Nat /\ Len(r) > 0 /\ r[Len(r)] = 150 /\ \A i \in 1..Len(r) : r[i] \notin Completions
  BY DEF Begun
<1> HIDE DEF s
<1>5. Ended(s) BY <1>3, <1>4 DEF Ended
<1> QED  BY <1>5 DEF s

\* 150 and 226 at once.
LEMMA PlainListed ==
    ASSUME NEW r, Plain(r)
    PROVE  Ended(r \o ListReplies)
<1> DEFINE s == r \o <<150, 226>>
<1>1. r \in Seq(Nat) /\ Len(r) \in Nat BY DEF Plain
<1>2. <<150, 226>> \in Seq(Nat) /\ Len(<<150, 226>>) = 2
  OBVIOUS
<1>3. <<150, 226>>[1] = 150 /\ <<150, 226>>[2] = 226 OBVIOUS
<1>4. /\ s \in Seq(Nat) /\ Len(s) = Len(r) + 2
      /\ \A i \in 1 .. Len(r) + 2 : s[i] = IF i <= Len(r) THEN r[i] ELSE <<150, 226>>[i - Len(r)]
  BY ONLY <1>1, <1>2, ConcatProperties
<1>5. s[Len(r) + 1] = 150 /\ s[Len(r) + 2] = 226
  <2>1. s[Len(r) + 1] = <<150, 226>>[Len(r) + 1 - Len(r)] BY ONLY <1>1, <1>4
  <2>2. s[Len(r) + 2] = <<150, 226>>[Len(r) + 2 - Len(r)] BY ONLY <1>1, <1>4
  <2> QED  BY ONLY <1>1, <1>3, <2>1, <2>2
<1>6. \A i \in 1..Len(r) : s[i] \notin Completions
  BY <1>1, <1>4 DEF Plain, Transferring
<1>7. 150 \notin Completions /\ 226 \in Completions BY DEF Completions
<1> HIDE DEF s
<1>8. Ended(s) BY <1>1, <1>4, <1>5, <1>6, <1>7 DEF Ended
<1> QED  BY <1>8 DEF s, ListReplies

\* No reply, and a single one, say nothing of a transfer.
LEMMA Empty == Plain(<<>>)
BY DEF Plain

\* A single reply that is none of a transfer.
LEMMA One ==
    ASSUME NEW c \in Nat
    PROVE  c \notin Transferring \cup {227} => Plain(<<c>>)
BY DEF Plain

\* The commands that only reply never use the codes of a transfer.
LEMMA LocallyPlain == ASSUME NEW r \in LocalReplies PROVE Plain(r)
<1> DEFINE Codes == LoginReplies \cup ChdirReplies \cup SettingReplies
                      \cup FileSystemReplies \cup SiteReplies \cup StatusReplies
                      \cup {500, 502}
<1>1. \A c \in Codes : c \in Nat /\ c \notin Transferring \cup {227}
  BY DEF Transferring, Completions, LoginReplies, ChdirReplies, SettingReplies,
         FileSystemReplies, SiteReplies, StatusReplies
<1>2. r = <<>> \/ \E c \in Codes : r = <<c>> BY DEF LocalReplies
<1> HIDE DEF Codes
<1> QED  BY <1>1, <1>2, Empty, One

\* What a transfer adds that has no connection.
LEMMA RefusedPlain ==
    ASSUME NEW r, Plain(r), NEW c
    PROVE  Plain(r \o NoDataReply(c)) /\ Plain(r \o (<<425>> \o NoDataReply(c)))
<1>1. r \in Seq(Nat) BY DEF Plain
<1>2. NoDataReply(c) = <<>> \/ \E d \in {550, 553} : NoDataReply(c) = <<d>> BY DEF NoDataReply
<1>3. \A d \in {425, 550, 553} : d \in Nat /\ d \notin Transferring \cup {227}
  BY DEF Transferring, Completions
<1>4. CASE NoDataReply(c) = <<>>
  <2>1. r \o <<>> = r BY <1>1
  <2>2. <<425>> \o <<>> = <<425>> OBVIOUS
  <2>3. Plain(r \o <<425>>) BY <1>3, PlainThen
  <2> QED  BY <1>4, <2>1, <2>2, <2>3
<1>5. ASSUME NEW d \in {550, 553}, NoDataReply(c) = <<d>>
      PROVE  Plain(r \o NoDataReply(c)) /\ Plain(r \o (<<425>> \o NoDataReply(c)))
  <2>1. Plain(r \o <<d>>) BY <1>3, PlainThen
  <2>2. Plain(r \o <<425>>) BY <1>3, PlainThen
  <2>3. Plain((r \o <<425>>) \o <<d>>) BY <1>3, <2>2, PlainThen
  <2>4. r \o (<<425>> \o <<d>>) = (r \o <<425>>) \o <<d>> BY <1>1, ConcatAssociative
  <2> QED  BY <1>5, <2>1, <2>3, <2>4
<1> QED  BY <1>2, <1>4, <1>5

-----------------------------------------------------------------------------
(* Each step *)

\* The nobody thread and exit_loop say nothing to the client.
LEMMA NobodySays ==
    ASSUME Nobody \/ ExitLoop \/ UNCHANGED vars
    PROVE  /\ UNCHANGED <<replies, port>>
           /\ pc' = pc \/ (npc = "start" /\ pc' \in {"greet", "done"})
           /\ npc' = "start" => npc = "start" /\ pc' = pc
BY DEF Nobody, ExitLoop, vars, SessionStart, NobodyLoop, NobodyRecvCmd, Operation,
       PrivGetDataSock, PrivPasvActive, PrivPasvListen, PrivPasvAccept, SessionFree,
       NobodyOnly, protoVars

\* A command that comes in starts with no reply, and leaves the proto thread in a
\* stage that fits what was said.
LEMMA ClientSays ==
    ASSUME Client
    PROVE  pc = "readline" /\ npc' = npc /\ Stage(pc', replies')
<1>1. pc = "readline" /\ npc' = npc
  BY DEF Client, ControlClosed, LocalCommand, Quit, Port, Pasv, RetrWithoutHooks, Restart,
         Transfer, ProtoOnly
<1>2. \A c \in {200, 221, 350, 500, 550} : Plain(<<c>>)
  <2>1. \A c \in {200, 221, 350, 500, 550} : c \in Nat /\ c \notin Transferring \cup {227}
    BY DEF Transferring, Completions
  <2>2. ASSUME NEW c \in {200, 221, 350, 500, 550} PROVE Plain(<<c>>)
    <3>1. c \in Nat /\ c \notin Transferring \cup {227} BY <2>1
    <3> QED  BY <3>1, One
  <2> QED  BY <2>2
<1>3. /\ pc' \in Between \cup Waiting
      /\ \/ replies' \in LocalReplies \cup {<<>>}
         \/ \E c \in {200, 221, 350, 500, 550} : replies' = <<c>>
  BY DEF Client, ControlClosed, LocalCommand, Quit, Port, Pasv, RetrWithoutHooks, Restart,
         Transfer, Between, Waiting
<1>4. Plain(replies') BY <1>2, <1>3, LocallyPlain, Empty
<1> QED  BY <1>1, <1>3, <1>4 DEF Stage, Between, Waiting

\* A step of the proto thread after which a command is no further than it was:
\* what was sent is still sent.
LEMMA ProtoLoopSays ==
    ASSUME Staged, ProtoLoop
    PROVE  /\ pc' \in {"readline", "done"} /\ replies' = replies /\ pc = "loop"
           /\ Plain(replies') \/ Ended(replies') \/ Named(replies')
BY DEF Staged, ProtoLoop, Stage, Between, Waiting

\* Every step of the proto thread, but for the last of PASV, keeps the stage.
LEMMA ProtoSays ==
    ASSUME Staged, Proto, ~ProtoLoop, ~PasvPort
    PROVE  Stage(pc', replies')
<1> USE DEF Between, Waiting, Reply, EndCommand
<1>1. \A c \in {220, 500, 553} : c \in Nat /\ c \notin Transferring \cup {227}
  BY DEF Transferring, Completions
<1>2. ASSUME NEW c \in {220, 500, 553}, Plain(replies) PROVE Plain(replies \o <<c>>)
  BY <1>1, <1>2, PlainThen
<1>3. pc \in Waiting \cup {"none", "greet", "opened"} => Plain(replies)
  BY DEF Staged, Stage
<1>4. pc \in {"send", "recv"} => Begun(replies)
  BY DEF Staged, Stage
<1>5. CASE Greet BY <1>2, <1>3, <1>5 DEF Greet, Stage
<1>6. CASE PasvResult
  <2>1. Plain(replies) BY <1>3, <1>6 DEF PasvResult
  <2>2. Plain(replies \o <<500>>) BY <1>2, <2>1
  <2>3. replies' = replies \/ replies' = replies \o <<500>> BY <1>6 DEF PasvResult
  <2>4. pc' \in Waiting \cup {"loop"} BY <1>6 DEF PasvResult
  <2>5. Plain(replies') BY <2>1, <2>2, <2>3
  <2> QED  BY <2>4, <2>5 DEF Stage
<1>7. CASE ChooseMode
  <2>1. pc' \in {"loop", "portRes", "acceptRes"} /\ Plain(replies)
    BY <1>3, <1>7 DEF ChooseMode
  <2>2. \/ replies' = replies \/ replies' = replies \o NoDataReply(cmd)
        \/ replies' = replies \o (<<425>> \o NoDataReply(cmd))
    BY <1>7 DEF ChooseMode
  <2>3. /\ Plain(replies \o NoDataReply(cmd))
        /\ Plain(replies \o (<<425>> \o NoDataReply(cmd)))
    BY <2>1, RefusedPlain
  <2>4. Plain(replies') BY <2>1, <2>2, <2>3
  <2> QED  BY <2>1, <2>4 DEF Stage
<1>8. CASE DataResult
  <2>1. Plain(replies) BY <1>3, <1>8 DEF DataResult
  <2>2. Plain(replies \o <<500>>) BY <1>2, <2>1
  <2>3. replies' = replies \/ replies' = replies \o <<500>> BY <1>8 DEF DataResult
  <2>4. pc' \in Waiting \cup {"loop"} BY <1>8 DEF DataResult
  <2>5. Plain(replies') BY <2>1, <2>2, <2>3
  <2> QED  BY <2>4, <2>5 DEF Stage
<1>9. CASE DataFd BY <1>3, <1>9 DEF DataFd, Stage
<1>10. CASE RetrBegin \/ UploadBegin
  <2>1. Begun(replies \o <<150>>) BY <1>3, <1>10, PlainThen DEF RetrBegin, UploadBegin
  <2> QED  BY <1>10, <2>1 DEF RetrBegin, UploadBegin, Stage
<1>11. CASE SendBlock BY <1>4, <1>11 DEF SendBlock, Stage, protoVars
<1>12. CASE RetrEnd \/ UploadEnd
  <2>1. \A c \in Completions : Ended(replies \o <<c>>)
    BY <1>4, <1>12, BegunThen DEF RetrEnd, UploadEnd
  <2>2. \E c \in Completions : replies' = replies \o <<c>>
    BY <1>12 DEF RetrEnd, UploadEnd, Completions
  <2> QED  BY <1>12, <2>1, <2>2 DEF RetrEnd, UploadEnd, Stage
<1>13. CASE UploadGivesUp
  <2>1. Plain(replies) BY <1>3, <1>13 DEF UploadGivesUp
  <2>2. Plain(replies \o <<553>>) BY <1>2, <2>1
  <2>3. replies' = replies \/ replies' = replies \o <<553>> BY <1>13 DEF UploadGivesUp
  <2>4. pc' \in Waiting \cup {"loop"} BY <1>13 DEF UploadGivesUp
  <2>5. Plain(replies') BY <2>1, <2>2, <2>3
  <2> QED  BY <2>4, <2>5 DEF Stage
<1>14. CASE List
  <2>1. Ended(replies \o ListReplies) BY <1>3, <1>14, PlainListed DEF List
  <2> QED  BY <1>14, <2>1 DEF List, Stage
<1> QED  BY <1>5, <1>6, <1>7, <1>8, <1>9, <1>10, <1>11, <1>12, <1>13, <1>14 DEF Proto

\* PASV ends by naming the port.
LEMMA PasvPortSays ==
    ASSUME Staged, PasvPort
    PROVE  pc' = "loop" /\ Named(replies')
<1>1. Plain(replies) BY DEF Staged, Stage, PasvPort, Waiting, Between
<1> QED  BY <1>1, PlainThen DEF PasvPort, Reply

\* Where a reply came from, whatever the step.
LEMMA Said ==
    ASSUME Staged, [Next]_vars
    PROVE  /\ Asleep'
           /\ \/ Stage(pc', replies')
              \/ PasvPort /\ pc' = "loop" /\ Named(replies')
              \/ ProtoLoop /\ pc' \in {"readline", "done"} /\ Named(replies')
              \/ /\ Nobody \/ ExitLoop \/ UNCHANGED vars
                 /\ pc \in Between /\ pc' = pc /\ replies' = replies /\ Named(replies)
<1>1. CASE Nobody \/ ExitLoop \/ UNCHANGED vars
  BY <1>1, NobodySays DEF Staged, Stage, Asleep, Between, Waiting
<1>2. CASE Client
  BY <1>2, ClientSays DEF Staged, Asleep
<1>3. CASE Proto
  <2>1. pc # "none" /\ npc' = npc
    BY <1>3 DEF Proto, Greet, ProtoLoop, PasvResult, PasvPort, ChooseMode, DataResult,
                DataFd, RetrBegin, SendBlock, RetrEnd, UploadBegin, UploadGivesUp,
                UploadEnd, List, ProtoOnly, Waiting
  <2>2. Asleep' BY <2>1 DEF Staged, Asleep
  <2>3. CASE ProtoLoop BY <2>2, <2>3, ProtoLoopSays DEF Stage, Between, Waiting
  <2>4. CASE PasvPort BY <2>2, <2>4, PasvPortSays
  <2> QED  BY <1>3, <2>2, <2>3, <2>4, ProtoSays
<1> QED  BY <1>1, <1>2, <1>3 DEF Next

\* The stage is inductive.
LEMMA StagedStep == ASSUME Staged, [Next]_vars PROVE Staged'
<1>1. pc' \in {"loop", "readline", "done"} => pc' \in Between BY DEF Between
<1> QED  BY <1>1, Said DEF Staged

\* So the stage and the replies agree throughout a session.
LEMMA StagedAlways == Spec => []Staged
<1>1. Init => Staged BY Empty DEF Init, Staged, Asleep, Stage, Between, Waiting
<1> QED  BY <1>1, StagedStep, PTL DEF Spec

-----------------------------------------------------------------------------
(* Theorems *)

\* Whatever fails, 150 comes before the completion of a transfer and nothing after
\* it, and no command ends with a 150 (upload_file, fake_download_file, trans_list).
THEOREM RepliesOrdered == Spec => []ReplyOrder
<1>1. TypeOK /\ Staged => ReplyOrder
  <2> SUFFICES ASSUME TypeOK, Staged PROVE ReplyOrder OBVIOUS
  <2>1. 150 \notin Completions BY DEF Completions
  <2>2. DOMAIN replies = 1..Len(replies) /\ Len(replies) \in Nat
        /\ (replies # <<>> => Len(replies) > 0)
    BY DEF TypeOK
  <2>3. CASE Plain(replies) \/ Named(replies)
    BY <2>2, <2>3 DEF ReplyOrder, Plain, Named, Transferring
  <2>4. CASE Begun(replies) /\ pc \in {"send", "recv"}
    BY <2>2, <2>4 DEF ReplyOrder, Begun
  <2>5. CASE Ended(replies)
    <3>1. \A i \in 1..Len(replies) : replies[i] \in Completions => i = Len(replies)
      <4> DEFINE n == Len(replies)
      <4>1. n \in Nat /\ \A i \in 1 .. n - 1 : replies[i] \notin Completions
        BY <2>2, <2>5 DEF Ended
      <4> HIDE DEF n
      <4>2. \A i \in 1..n : i = n \/ i \in 1 .. n - 1 BY <4>1
      <4>3. \A i \in 1..n : replies[i] \in Completions => i = n BY ONLY <4>1, <4>2
      <4> QED  BY <4>3 DEF n
    <3>2. Len(replies) > 1 /\ replies[Len(replies) - 1] = 150 /\ replies[Len(replies)] # 150
      BY <2>1, <2>5 DEF Ended
    <3>3. ASSUME NEW i \in DOMAIN replies, replies[i] \in Completions
          PROVE  i = Len(replies) /\ i > 1 /\ replies[i - 1] = 150
      <4>1. i = Len(replies) BY <2>2, <3>1, <3>3
      <4> QED  BY <3>2, <4>1
    <3> QED  BY <3>2, <3>3 DEF ReplyOrder
  <2>6. pc \in Waiting \cup {"none", "greet", "opened", "send", "recv"} \cup Between
    BY DEF TypeOK, ProtoPc, Between
  <2> QED  BY <2>3, <2>4, <2>5, <2>6 DEF Staged, Stage
<1> QED  BY <1>1, TypeCorrect, StagedAlways, PTL

\* A reply <<227>> that is there after a step was written by it, from the answer
\* of the nobody thread, or was there before and the listener is untouched.
LEMMA PortStep ==
    ASSUME TypeOK, Staged, Exchange, PassiveReplyTrue, [Next]_vars
    PROVE  PassiveReplyTrue'
<1> SUFFICES ASSUME privUp', skew' = 0, pc' = "loop", replies' = << 227 >>
             PROVE  port' = "data" /\ listen_fd' = "open"
  BY DEF PassiveReplyTrue
<1>1. skew = 0 BY SkewGrows
<1>2. ~Stage(pc', replies')
  <2>1. Len(<<227>>) = 1 /\ <<227>>[1] = 227 OBVIOUS
  <2>2. ~Plain(<<227>>) /\ ~Ended(<<227>>) BY <2>1 DEF Plain, Ended
  <2> QED  BY <2>2 DEF Stage, Between
<1>3. CASE PasvPort
  <2>1. privUp = TRUE BY <1>3 DEF PasvPort, ProtoOnly, TypeOK
  <2>2. pc = "listenPort" BY <1>3 DEF PasvPort
  <2>3. toProto = IntMsg(DATA_PORT) /\ listen_fd = "open"
    BY <1>1, <2>1, <2>2 DEF Exchange, InStep, ListenExchange, Answer
  <2>4. Recv(TRUE, toProto, IntLen) = IntMsg(DATA_PORT)
    <3>1. DATA_PORT \in Byte BY DEF Byte, DATA_PORT
    <3> QED  BY <2>3, <3>1, AnswerRead
  <2>5. port' = "data" BY <1>3, <2>1, <2>4, Distinct DEF PasvPort
  <2> QED  BY <1>3, <2>3, <2>5 DEF PasvPort, ProtoOnly
<1>4. CASE /\ Nobody \/ ExitLoop \/ UNCHANGED vars
           /\ pc' = pc /\ replies' = replies
  <2>1. port' = port BY <1>4, NobodySays
  <2>2. privUp = TRUE
    BY <1>4 DEF Staged, Asleep, Nobody, ExitLoop, vars, SessionStart, NobodyLoop,
       NobodyRecvCmd, PrivGetDataSock, PrivPasvActive, PrivPasvListen, PrivPasvAccept,
       SessionFree, NobodyOnly, TypeOK
  <2>3. port = "data" /\ listen_fd = "open"
    BY <1>1, <1>4, <2>2 DEF PassiveReplyTrue
  <2>4. npc \notin Serving
    BY <1>1, <1>4, <2>2 DEF Exchange, InStep, Answer, Waiting
  <2>5. listen_fd' = listen_fd
    BY <1>4, <2>4 DEF Nobody, ExitLoop, vars, SessionStart, NobodyLoop,
       NobodyRecvCmd, PrivGetDataSock, PrivPasvActive, PrivPasvListen, PrivPasvAccept,
       SessionFree, Serving
  <2> QED  BY <2>1, <2>3, <2>5
<1>5. CASE ProtoLoop /\ pc' \in {"readline", "done"} BY <1>5
<1> QED  BY <1>2, <1>3, <1>4, <1>5, Said

\* While no accept failed in the middle, the reply 227 names the port that the
\* nobody thread listens on (do_pasv, privop_pasv_listen).
THEOREM PortTrue == Spec => []PassiveReplyTrue
<1>1. Init => PassiveReplyTrue BY DEF Init, PassiveReplyTrue
<1>2. TypeOK /\ Staged /\ Exchange /\ PassiveReplyTrue /\ [Next]_vars => PassiveReplyTrue'
  BY PortStep
<1> QED  BY <1>1, <1>2, TypeCorrect, StagedAlways, ExchangeCorrect, PTL DEF Spec

-----------------------------------------------------------------------------
(* The data connection *)

\* Outside a transfer the data connection is open only for a cause.
Kept == data_fd = "conn" => pc \in {"opened", "send", "recv"} \/ "file" \in failed \/ skew > 0

\* What keeps the connection, and what is lost with it, step by step.
LEMMA KeptStep ==
    ASSUME TypeOK, Staged, Kept, DataLostHasCause, [Next]_vars
    PROVE  (Kept /\ DataLostHasCause)'
<1>1. failed \subseteq failed' /\ (skew > 0 => skew' > 0)
  <2>1. skew' \in {skew, skew + 1} /\ failed \subseteq failed'
    BY DEF Next, Nobody, Client, Proto, vars, ExitLoop, SessionStart, NobodyLoop,
       NobodyRecvCmd, PrivGetDataSock, PrivPasvActive, PrivPasvListen, PrivPasvAccept,
       SessionFree, ControlClosed, LocalCommand, Quit, Port, Pasv, RetrWithoutHooks,
       Restart, Transfer, Greet, ProtoLoop, PasvResult, PasvPort, ChooseMode, DataResult,
       DataFd, RetrBegin, SendBlock, RetrEnd, UploadBegin, UploadGivesUp, UploadEnd,
       List, ProtoOnly, Fails
  <2>2. skew \in Nat BY SessionAssumption DEF TypeOK
  <2> QED  BY <2>1, <2>2
<1>2. CASE DataFd
  <2>1. pc \notin {"opened", "send", "recv"} /\ pc' = "opened" BY <1>2 DEF DataFd
  <2>2. data_lost' => data_lost \/ data_fd = "conn" BY <1>2 DEF DataFd
  <2> QED  BY <1>1, <2>1, <2>2 DEF Kept, DataLostHasCause
<1>3. CASE ~DataFd
  <2>1. data_lost' = data_lost
    BY <1>3 DEF Next, Nobody, Client, Proto, vars, ExitLoop, SessionStart, NobodyLoop,
       NobodyRecvCmd, PrivGetDataSock, PrivPasvActive, PrivPasvListen, PrivPasvAccept,
       SessionFree, ControlClosed, LocalCommand, Quit, Port, Pasv, RetrWithoutHooks,
       Restart, Transfer, Greet, ProtoLoop, PasvResult, PasvPort, ChooseMode, DataResult,
       RetrBegin, SendBlock, RetrEnd, UploadBegin, UploadGivesUp, UploadEnd,
       List, NobodyOnly, dataVars
  <2>2. data_fd' = "conn" => data_fd = "conn"
    BY <1>3 DEF Next, Nobody, Client, Proto, vars, ExitLoop, SessionStart, NobodyLoop,
       NobodyRecvCmd, PrivGetDataSock, PrivPasvActive, PrivPasvListen, PrivPasvAccept,
       SessionFree, ControlClosed, LocalCommand, Quit, Port, Pasv, RetrWithoutHooks,
       Restart, Transfer, Greet, ProtoLoop, PasvResult, PasvPort, ChooseMode, DataResult,
       RetrBegin, SendBlock, RetrEnd, UploadBegin, UploadGivesUp, UploadEnd,
       List, NobodyOnly, dataVars, Closed
  <2>3. /\ pc \in {"opened", "send", "recv"} /\ data_fd' = "conn"
        => pc' \in {"opened", "send", "recv"} \/ "file" \in failed'
    <3>1. CASE Nobody \/ ExitLoop \/ UNCHANGED vars
      BY <3>1, NobodySays DEF Staged, Asleep
    <3>2. CASE Client \/ Proto
      BY <1>3, <3>2 DEF Client, Proto, ControlClosed, LocalCommand, Quit, Port, Pasv,
         RetrWithoutHooks, Restart, Transfer, Greet, ProtoLoop, PasvResult, PasvPort,
         ChooseMode, DataResult, RetrBegin, SendBlock, RetrEnd, UploadBegin,
         UploadGivesUp, UploadEnd, List, Closed, Fails, Waiting, protoVars
    <3> QED  BY <3>1, <3>2 DEF Next
  <2> QED  BY <1>1, <2>1, <2>2, <2>3 DEF Kept, DataLostHasCause
<1> QED  BY <1>2, <1>3

\* The handle of an open data connection is overwritten only after an upload that
\* could not open its file, or out of step (upload_file, get_trans_data_fd).
THEOREM ConnectionKept == Spec => []DataLostHasCause
<1>1. Init => Kept /\ DataLostHasCause BY DEF Init, Kept, DataLostHasCause
<1>2. TypeOK /\ Staged /\ Kept /\ DataLostHasCause /\ [Next]_vars
        => (Kept /\ DataLostHasCause)'
  BY KeptStep
<1> QED  BY <1>1, <1>2, TypeCorrect, StagedAlways, PTL DEF Spec

\* The types with what bounds the offset of a download.
LEMMA TypesAlways == Spec => []TypeInv
<1>1. Init => TypeInv
  <2>1. <<>> \in Seq(Nat) /\ <<>> \in Seq(0..255) OBVIOUS
  <2>2. /\ 0 \in 0..MaxBlocks /\ 0 \in 0..2 * MaxBlocks /\ 0 \in -1..MaxBlocks
        /\ 0 \in 0..MaxSkew
    BY SessionAssumption
  <2> QED  BY <2>1, <2>2 DEF Init, TypeInv, TypeOK, Locals, ProtoPc, NobodyPc
<1> QED  BY <1>1, TypeStep, PTL DEF Spec

\* "Transfer complete." after a download of known size means that its last block
\* was sent (fake_download_file).
THEOREM CompletionMeans == Spec => CompletionTruthful
<1>1. TypeInv /\ [Next]_vars
        => [pc = "send" /\ pc' = "loop" /\ filesize >= 0
              /\ replies' = Append(replies, 226) => offset >= filesize]_vars
  <2> SUFFICES ASSUME TypeInv, [Next]_vars, pc = "send", pc' = "loop",
                      replies' = Append(replies, 226)
               PROVE  offset >= filesize
    OBVIOUS
  <2>1. RetrEnd
    BY DEF Next, Nobody, Client, Proto, vars, ExitLoop, SessionStart, NobodyLoop,
       NobodyRecvCmd, PrivGetDataSock, PrivPasvActive, PrivPasvListen, PrivPasvAccept,
       SessionFree, ControlClosed, LocalCommand, Quit, Port, Pasv, RetrWithoutHooks,
       Restart, Transfer, Greet, ProtoLoop, PasvResult, PasvPort, ChooseMode, DataResult,
       DataFd, RetrBegin, SendBlock, UploadBegin, UploadGivesUp, UploadEnd,
       List, NobodyOnly, protoVars, Waiting, TypeInv, TypeOK
  <2>2. replies \in Seq(Nat) BY DEF TypeInv, TypeOK
  <2>3. nleft <= 0
    <3>1. replies' = replies \o <<451>> => FALSE
      <4>1. (replies \o <<451>>)[Len(replies) + 1] = 451 BY <2>2, Then
      <4>2. Append(replies, 226)[Len(replies) + 1] = 226 BY <2>2
      <4> QED  BY <4>1, <4>2
    <3> QED  BY <2>1, <3>1 DEF RetrEnd, Reply
  <2>4. /\ offset + nleft = restart_pos + filesize /\ offset \in Int /\ nleft \in Int
        /\ restart_pos \in Nat /\ filesize \in Int
    BY SessionAssumption DEF TypeInv, TypeOK, Locals
  <2> QED  BY <2>3, <2>4
<1> QED  BY <1>1, TypesAlways, PTL DEF Spec, CompletionTruthful

-----------------------------------------------------------------------------
(* The exchange implements the calls of PrivRpc, when the pair can be made  *)
(* and no accept fails in the middle                                        *)

\* What the mapping makes of a state.
Viewed(p, o, a) == rpcPhase = p /\ rpcOp = o /\ rpcAnswer = a

\* The answer of the call, read off the position of the proto thread.
AnswerAt == IF pc = "active" THEN IF toProto = IntMsg(0) THEN "no" ELSE "yes"
            ELSE IF rpcOp = "listen" THEN "port" ELSE "socket"

View ==
    /\ pc \notin Waiting => Viewed("idle", "none", "none")
    /\ pc \in Waiting =>
         /\ toNobody # <<>> \/ npc \in Serving => Viewed("called", rpcOp, "none")
         /\ toNobody = <<>> /\ npc \notin Serving =>
              /\ NoAnswer  => Viewed("hung", rpcOp, "none")
              /\ ~NoAnswer => Viewed("answered", rpcOp, AnswerAt)
    /\ pc = "active" => rpcOp = "active"
    /\ pc \in Listing => rpcOp = "listen"
    /\ pc \in Porting => rpcOp = "connect"
    /\ pc \in Accepting => rpcOp = "accept"

\* The mapping, before and after a step.
LEMMA Views == View /\ View'
<1>1. View
  <2>1. /\ pc = "active" => rpcOp = "active"
        /\ pc \in Listing => rpcOp = "listen"
        /\ pc \in Porting => rpcOp = "connect"
        /\ pc \in Accepting => rpcOp = "accept"
        /\ pc \notin Waiting => rpcOp = "none"
    BY DEF rpcOp, Listing, Porting, Accepting, Waiting
  <2>2. /\ pc \notin Waiting => rpcPhase = "idle"
        /\ pc \in Waiting =>
             /\ toNobody # <<>> \/ npc \in Serving => rpcPhase = "called"
             /\ toNobody = <<>> /\ npc \notin Serving =>
                  (NoAnswer => rpcPhase = "hung") /\ (~NoAnswer => rpcPhase = "answered")
    BY DEF rpcPhase, NoAnswer
  <2>3. rpcAnswer = IF rpcPhase = "answered" THEN AnswerAt ELSE "none"
    BY <2>1 DEF rpcAnswer, AnswerAt
  <2> QED BY <2>1, <2>2, <2>3 DEF View, Viewed
<1>2. View'
  <2>1. /\ pc' = "active" => rpcOp' = "active"
        /\ pc' \in Listing => rpcOp' = "listen"
        /\ pc' \in Porting => rpcOp' = "connect"
        /\ pc' \in Accepting => rpcOp' = "accept"
        /\ pc' \notin Waiting => rpcOp' = "none"
    BY DEF rpcOp, Listing, Porting, Accepting, Waiting
  <2>2. /\ pc' \notin Waiting => rpcPhase' = "idle"
        /\ pc' \in Waiting =>
             /\ toNobody' # <<>> \/ npc' \in Serving => rpcPhase' = "called"
             /\ toNobody' = <<>> /\ npc' \notin Serving =>
                  (NoAnswer' => rpcPhase' = "hung") /\ (~NoAnswer' => rpcPhase' = "answered")
    BY DEF rpcPhase, NoAnswer
  <2>3. rpcAnswer' = IF rpcPhase' = "answered" THEN AnswerAt' ELSE "none"
    BY <2>1 DEF rpcAnswer, AnswerAt
  <2> QED BY <2>1, <2>2, <2>3 DEF View, Viewed
<1> QED BY <1>1, <1>2

\* The faults that break the framing itself: no socket pair, and an accept that
\* fails without timing out.
FramingFaults == {"priv", "acceptError"}

\* Without them the threads are in step from the start of the session to its end.
Framed ==
    /\ skew = 0 /\ InStep
    /\ IF npc = "start" THEN pc = "none" ELSE privUp = TRUE

\* The actions of the proto thread that are not the middle of an exchange.
OutsideExchange ==
    \/ Greet \/ ProtoLoop \/ RetrBegin \/ SendBlock \/ RetrEnd
    \/ UploadBegin \/ UploadGivesUp \/ UploadEnd \/ List
    \/ ControlClosed \/ LocalCommand \/ Quit \/ Port \/ RetrWithoutHooks
    \/ \E pos \in 0..MaxBlocks : Restart(pos)

\* They leave the streams, the passive socket and the nobody thread alone.
LEMMA OutsideStep ==
    ASSUME OutsideExchange
    PROVE  /\ pc \notin Waiting \cup {"none"} /\ pc' \notin Waiting
           /\ UNCHANGED <<toNobody, toProto, npc, listen_fd, privUp, skew>>
<1>1. UNCHANGED <<npc, listen_fd, privUp, skew>>
  BY DEF OutsideExchange, Greet, ProtoLoop, RetrBegin, SendBlock, RetrEnd, UploadBegin,
         UploadGivesUp, UploadEnd, List, ControlClosed, LocalCommand, Quit, Port,
         RetrWithoutHooks, Restart, ProtoOnly
<1>2. /\ pc \in {"greet", "loop", "opened", "send", "recv", "readline"}
      /\ pc' \in {"loop", "done", "readline", "send", "recv"}
      /\ UNCHANGED <<toNobody, toProto>>
  BY DEF OutsideExchange, Greet, ProtoLoop, RetrBegin, SendBlock, RetrEnd, UploadBegin,
         UploadGivesUp, UploadEnd, List, ControlClosed, LocalCommand, Quit, Port,
         RetrWithoutHooks, Restart, EndCommand, protoVars, privVars
<1> QED BY <1>1, <1>2 DEF Waiting

\* Without the framing faults every step keeps the threads in step: an accept is
\* served only while the passive socket is open, so it cannot fail for want of one.
LEMMA FramedStep ==
    ASSUME FramingFaults \cap Faults = {}, TypeOK, NoPair, Exchange, Framed, [Next]_vars
    PROVE  Framed'
<1>1. "priv" \notin Faults /\ "acceptError" \notin Faults BY DEF FramingFaults
<1>2. CASE npc = "start"
  <2>1. pc = "none" /\ toNobody = <<>> /\ toProto = <<>> BY <1>2 DEF Framed, InStep, Answer, Waiting
  <2>2. CASE ExitLoop \/ UNCHANGED vars
    <3>1. UNCHANGED <<pc, npc, toNobody, toProto, skew>>
      BY <2>2 DEF ExitLoop, vars, protoVars, privVars
    <3> QED BY <1>2, <2>1, <3>1
            DEF Framed, InStep, PortExchange, AcceptExchange, ListenExchange, ActiveExchange, Answer,
                Waiting, Serving
  <2>3. CASE Client \/ Proto
    <3>1. pc # "none"
      BY <2>3 DEF Client, ControlClosed, LocalCommand, Quit, Port, Pasv, RetrWithoutHooks, Restart,
                  Transfer, Proto, Greet, ProtoLoop, PasvResult, PasvPort, ChooseMode, DataResult,
                  DataFd, RetrBegin, SendBlock, RetrEnd, UploadBegin, UploadGivesUp, UploadEnd, List
    <3> QED BY <2>1, <3>1
  <2>4. CASE Nobody
    <3>1. SessionStart
      BY <1>2, <2>4 DEF Nobody, NobodyLoop, NobodyRecvCmd, PrivGetDataSock, PrivPasvActive,
                        PrivPasvListen, PrivPasvAccept, SessionFree
    <3>2. /\ privUp' = TRUE /\ pc' \in {"greet", "done"} /\ npc' \in {"loop", "wait"}
          /\ UNCHANGED <<toNobody, toProto, skew>>
      BY <1>1, <3>1 DEF SessionStart, Fails, privVars
    <3> QED BY <2>1, <3>2
            DEF Framed, InStep, PortExchange, AcceptExchange, ListenExchange, ActiveExchange, Answer,
                Waiting, Serving
  <2> QED BY <2>2, <2>3, <2>4 DEF Next
<1>3. CASE npc # "start"
  <2>1. privUp = TRUE /\ skew = 0 /\ InStep BY <1>3 DEF Framed
  <2>2. ~(PrivPasvAccept /\ skew' = skew + 1)
    <3>1. ASSUME PrivPasvAccept PROVE listen_fd = "open"
      BY <2>1, <3>1, ServingWhom DEF PrivPasvAccept, Serving
    <3>2. ASSUME PrivPasvAccept PROVE skew' = skew
      BY <1>1, <3>1, <3>2 DEF PrivPasvAccept
    <3> QED BY ONLY <2>1, <3>2
  <2>3. privUp' = TRUE /\ skew' = 0 /\ npc' # "start"
    <3>1. CASE Nobody
      <4>1. \A c : Operation(c) # "start" BY DEF Operation
      <4> QED BY <1>3, <2>1, <2>2, <3>1, <4>1
              DEF Nobody, SessionStart, NobodyLoop, NobodyRecvCmd, PrivGetDataSock, PrivPasvActive,
                  PrivPasvListen, PrivPasvAccept, SessionFree, NobodyOnly
    <3>2. CASE ~Nobody
      BY <1>3, <2>1, <3>2 DEF Next, ExitLoop, vars, Client, ControlClosed, LocalCommand, Quit, Port,
         Pasv, RetrWithoutHooks, Restart, Transfer, Proto, Greet, ProtoLoop, PasvResult, PasvPort,
         ChooseMode, DataResult, DataFd, RetrBegin, SendBlock, RetrEnd, UploadBegin, UploadGivesUp,
         UploadEnd, List, ProtoOnly
    <3> QED BY <3>1, <3>2
  <2>4. Exchange' BY ExchangeStep
  <2> QED BY <2>3, <2>4 DEF Exchange, Framed
<1> QED BY <1>2, <1>3

\* So they are in step throughout the session.
LEMMA FramedAlways ==
    ASSUME FramingFaults \cap Faults = {} PROVE Spec => []Framed
<1>1. Init => Framed
  BY DEF Init, Framed, InStep, PortExchange, AcceptExchange, ListenExchange, ActiveExchange, Answer,
         Waiting, Serving
<1>2. TypeOK /\ NoPair /\ Exchange /\ Lag /\ Framed /\ [Next]_vars => Framed' BY FramedStep
<1> QED BY <1>1, <1>2, LagAlways, ExchangeCorrect, PTL DEF Spec

\* Two states of one view are one state of PrivRpc.
LEMMA RpcStutter ==
    ASSUME NEW p, NEW o, NEW a, Viewed(p, o, a), Viewed(p, o, a)', UNCHANGED listen_fd
    PROVE  UNCHANGED Rpc!rpcVars
BY DEF Viewed, Rpc!rpcVars

\* Messages are never empty, and the result of a timeout is none of the answers.
LEMMA AnswersSeen ==
    /\ \A m \in {ListenReply, ConnectedReply, IntMsg(DATA_PORT), ConnHandle} :
         m # <<>> /\ m # TimeoutReply
    /\ \A b \in BOOLEAN : ActiveReply(b) # <<>>
    /\ \A c : CmdMsg(c) # <<>>
    /\ CmdMsg(GET_DATA_SOCK) \o AddrMsg # <<>>
<1>1. IntLen \in Nat /\ IntLen >= 2 /\ SockLen \in Nat /\ SockLen >= 2 /\ DATA_PORT \in Byte
  BY SizesAssumption DEF Byte, DATA_PORT
<1>2. Len(TimeoutReply) = 1 BY AnswerBytes
<1>3. \A s : s = <<>> => Len(s) = 0 BY EmptySeq
<1>4. \A m \in {ListenReply, ConnectedReply, IntMsg(DATA_PORT), ConnHandle} : Len(m) >= 2
  <2>1. Len(ListenReply) = 1 + IntLen /\ Len(ConnectedReply) = 1 + SockLen BY AnswerBytes
  <2>2. Len(IntMsg(DATA_PORT)) = IntLen /\ Len(ConnHandle) = SockLen
    BY <1>1, IntMsgType, HandleType
  <2> QED BY <1>1, <2>1, <2>2
<1>5. \A b \in BOOLEAN : Len(ActiveReply(b)) >= 2 BY <1>1, AnswerBytes
<1>6. CmdMsg(GET_DATA_SOCK) \o AddrMsg # <<>>
  <2>1. GET_DATA_SOCK \in Byte BY DEF Byte, GET_DATA_SOCK
  <2>2. CmdMsg(GET_DATA_SOCK) \in Seq(Byte) /\ Len(CmdMsg(GET_DATA_SOCK)) = 1
    BY <2>1, ByteMsgType DEF CmdMsg
  <2> QED BY <2>2, AddrMsgType, ConcatProperties, EmptySeq
<1>7. \A c : CmdMsg(c) # <<>> BY DEF CmdMsg
<1>8. \A m \in {ListenReply, ConnectedReply, IntMsg(DATA_PORT), ConnHandle} :
        m # <<>> /\ m # TimeoutReply
  <2> TAKE m \in {ListenReply, ConnectedReply, IntMsg(DATA_PORT), ConnHandle}
  <2>1. Len(m) >= 2 BY <1>4
  <2>2. Len(m) # 0 /\ Len(m) # 1 BY ONLY <2>1
  <2> QED BY ONLY <1>2, <1>3, <2>2
<1>9. \A b \in BOOLEAN : ActiveReply(b) # <<>>
  <2> TAKE b \in BOOLEAN
  <2>1. Len(ActiveReply(b)) >= 2 BY <1>5
  <2>2. Len(ActiveReply(b)) # 0 BY ONLY <2>1
  <2> QED BY ONLY <1>3, <2>2
<1> QED BY <1>6, <1>7, <1>8, <1>9

\* The nobody thread serves the call, or leaves its caller hanging.
LEMMA RpcNobody ==
    ASSUME FramingFaults \cap Faults = {}, TypeOK, Framed, Nobody
    PROVE  [Rpc!RpcNext]_(Rpc!rpcVars)
<1>1. View /\ View' BY Views
<1>2. CASE SessionStart
  <2>1. pc \notin Waiting /\ pc' \notin Waiting /\ UNCHANGED listen_fd
    BY <1>2 DEF SessionStart, Framed, Waiting
  <2> QED BY <1>1, <2>1, RpcStutter DEF View
<1>3. CASE ~SessionStart
  <2>1. privUp = TRUE /\ skew = 0 /\ InStep
    BY <1>3 DEF Nobody, NobodyLoop, NobodyRecvCmd, PrivGetDataSock, PrivPasvActive,
                PrivPasvListen, PrivPasvAccept, SessionFree, Framed
  <2>2. UNCHANGED pc
    BY <1>3 DEF Nobody, NobodyLoop, NobodyRecvCmd, PrivGetDataSock, PrivPasvActive,
                PrivPasvListen, PrivPasvAccept, SessionFree, NobodyOnly, protoVars
  <2>3. UNCHANGED rpcOp BY <2>2 DEF rpcOp
  <2>4. CASE NobodyLoop
    <3>1. UNCHANGED <<toNobody, toProto, listen_fd>> /\ npc \notin Serving /\ npc' \notin Serving
      BY <2>4 DEF NobodyLoop, privVars, Serving
    <3>2. UNCHANGED <<rpcPhase, rpcAnswer>>
      BY <2>2, <2>3, <3>1 DEF rpcPhase, rpcAnswer, NoAnswer
    <3> QED BY <2>3, <3>1, <3>2 DEF Rpc!rpcVars
  <2>5. CASE NobodyRecvCmd
    <3>1. npc \notin Serving /\ toNobody # <<>> /\ UNCHANGED listen_fd
      BY <2>1, <2>5 DEF NobodyRecvCmd, Serving, CanRecv
    <3>2. /\ npc' = Operation(Low(Recv(TRUE, toNobody, 1)))
      BY <2>1, <2>5 DEF NobodyRecvCmd
    <3>3. pc \in Waiting /\ npc' \in Serving
      BY <2>1, <3>1, <3>2, AskedWhat, CommandRead, Distinct DEF Waiting, Serving
    <3>4. Viewed("called", rpcOp, "none") /\ Viewed("called", rpcOp, "none")'
      BY <1>1, <2>2, <3>1, <3>3 DEF View
    <3> QED BY <2>3, <3>1, <3>4 DEF Viewed, Rpc!rpcVars
  <2>6. ASSUME npc \in Serving, npc' = "loop", toNobody' = <<>>, pc \in Waiting
        PROVE  /\ Viewed("called", rpcOp, "none")
               /\ NoAnswer' => Viewed("hung", rpcOp, "none")'
               /\ ~NoAnswer' => Viewed("answered", rpcOp, AnswerAt)'
    BY <1>1, <2>2, <2>6 DEF View, Serving
  <2>7. CASE PrivGetDataSock
    <3>1. pc = "portRes" /\ toProto = <<>> /\ toNobody = AddrMsg /\ npc \in Serving
      BY <2>1, <2>7, ServingWhom DEF PrivGetDataSock, Serving
    <3>2. rpcOp = "connect" /\ pc \in Waiting BY <1>1, <3>1 DEF View, Porting, Waiting
    <3>3. toNobody' = <<>> /\ npc' = "loop" /\ UNCHANGED listen_fd
      BY <2>1, <2>7, <3>1, CommandRead DEF PrivGetDataSock
    <3>4. toProto' = ConnectedReply \/ toProto' = <<>>
      BY <2>1, <2>7, <3>1, SentToEmpty, MessageTypes DEF PrivGetDataSock
    <3>5. CASE toProto' = ConnectedReply
      <4>1. Viewed("answered", rpcOp, "socket")'
        BY <2>2, <2>3, <2>6, <3>1, <3>2, <3>3, <3>5, AnswersSeen DEF NoAnswer, AnswerAt
      <4> QED BY <2>6, <3>1, <3>2, <3>3, <4>1, <2>3 DEF Viewed, Rpc!RpcNext, Rpc!Serve
    <3>6. CASE toProto' = <<>>
      <4>1. Viewed("hung", rpcOp, "none")' BY <2>6, <3>1, <3>2, <3>3, <3>6 DEF NoAnswer
      <4> QED BY <2>6, <3>1, <3>2, <3>3, <4>1, <2>3 DEF Viewed, Rpc!RpcNext, Rpc!Hang, Rpc!Ops
    <3> QED BY <3>4, <3>5, <3>6
  <2>8. CASE PrivPasvActive
    <3>1. pc = "active" /\ toProto = <<>> /\ toNobody = <<>> /\ npc \in Serving
      BY <2>1, <2>8, ServingWhom DEF PrivPasvActive, Serving
    <3>2. rpcOp = "active" /\ pc \in Waiting BY <1>1, <3>1 DEF View, Waiting
    <3>3. /\ toNobody' = <<>> /\ npc' = "loop" /\ UNCHANGED listen_fd
          /\ toProto' = ActiveReply(listen_fd = "open")
      BY <2>1, <2>8, <3>1, SentToEmpty, MessageTypes DEF PrivPasvActive
    <3>4. Viewed("answered", rpcOp, IF listen_fd = "open" THEN "yes" ELSE "no")'
      <4>1. ~NoAnswer' BY <2>2, <3>1, <3>3, AnswersSeen DEF NoAnswer
      <4>2. AnswerAt' = IF listen_fd = "open" THEN "yes" ELSE "no"
        BY <2>2, <3>1, <3>3, Distinct DEF AnswerAt, ActiveReply
      <4>3. Viewed("answered", rpcOp, AnswerAt)' BY <2>6, <3>1, <3>2, <3>3, <4>1
      <4> QED BY <3>3, <4>2, <4>3 DEF Viewed
    <3> QED BY <2>3, <2>6, <3>1, <3>2, <3>3, <3>4 DEF Viewed, Rpc!RpcNext, Rpc!Serve
  <2>9. CASE PrivPasvListen
    <3>1. pc = "listenRes" /\ toProto = <<>> /\ toNobody = <<>> /\ npc \in Serving
      BY <2>1, <2>9, ServingWhom DEF PrivPasvListen, Serving
    <3>2. rpcOp = "listen" /\ pc \in Waiting BY <1>1, <3>1 DEF View, Listing, Waiting
    <3>3. toNobody' = <<>> /\ npc' = "loop"
      BY <2>9, <3>1 DEF PrivPasvListen
    <3>4. \/ toProto' = ListenReply /\ listen_fd' = "open"
          \/ toProto' = <<>> /\ listen_fd' = "none"
      BY <2>1, <2>9, <3>1, SentToEmpty, MessageTypes DEF PrivPasvListen
    <3>5. CASE toProto' = ListenReply /\ listen_fd' = "open"
      <4>1. Viewed("answered", rpcOp, "port")'
        BY <2>2, <2>3, <2>6, <3>1, <3>2, <3>3, <3>5, AnswersSeen DEF NoAnswer, AnswerAt
      <4> QED BY <2>6, <3>1, <3>2, <3>3, <3>5, <4>1, <2>3 DEF Viewed, Rpc!RpcNext, Rpc!Serve
    <3>6. CASE toProto' = <<>> /\ listen_fd' = "none"
      <4>1. Viewed("hung", rpcOp, "none")' BY <2>6, <3>1, <3>2, <3>3, <3>6 DEF NoAnswer
      <4> QED BY <2>6, <3>1, <3>2, <3>3, <3>6, <4>1, <2>3 DEF Viewed, Rpc!RpcNext, Rpc!Hang, Rpc!Ops
    <3> QED BY <3>4, <3>5, <3>6
  <2>10. CASE PrivPasvAccept
    <3>1. pc = "acceptRes" /\ toProto = <<>> /\ toNobody = <<>> /\ npc \in Serving /\ listen_fd = "open"
      BY <2>1, <2>10, ServingWhom DEF PrivPasvAccept, Serving
    <3>2. rpcOp = "accept" /\ pc \in Waiting BY <1>1, <3>1 DEF View, Accepting, Waiting
    <3>3. toNobody' = <<>> /\ npc' = "loop" /\ listen_fd' = "none"
      BY <2>10, <3>1 DEF PrivPasvAccept
    <3>4. toProto' = ConnectedReply \/ toProto' = TimeoutReply
      BY <2>1, <2>10, <3>1, SentToEmpty, MessageTypes DEF PrivPasvAccept, FramingFaults
    <3>5. CASE toProto' = ConnectedReply
      <4>1. Viewed("answered", rpcOp, "socket")'
        BY <2>2, <2>3, <2>6, <3>1, <3>2, <3>3, <3>5, AnswersSeen DEF NoAnswer, AnswerAt
      <4> QED BY <2>6, <3>1, <3>2, <3>3, <4>1, <2>3 DEF Viewed, Rpc!RpcNext, Rpc!Serve
    <3>6. CASE toProto' = TimeoutReply
      <4>1. Viewed("hung", rpcOp, "none")' BY <2>2, <2>6, <3>1, <3>2, <3>3, <3>6 DEF NoAnswer
      <4> QED BY <2>6, <3>1, <3>2, <3>3, <4>1, <2>3 DEF Viewed, Rpc!RpcNext, Rpc!Hang, Rpc!Ops
    <3> QED BY <3>4, <3>5, <3>6
  <2>11. CASE SessionFree
    <3>1. pc = "done" /\ listen_fd' = "none" BY <2>11 DEF SessionFree
    <3>2. Viewed("idle", "none", "none") /\ Viewed("idle", "none", "none")'
      BY <1>1, <2>2, <3>1 DEF View, Waiting
    <3> QED BY <3>1, <3>2 DEF Viewed, Rpc!RpcNext, Rpc!Release
  <2> QED BY <1>3, <2>4, <2>5, <2>7, <2>8, <2>9, <2>10, <2>11 DEF Nobody
<1> QED BY <1>2, <1>3

\* The proto thread calls, and takes the answer.
LEMMA RpcProto ==
    ASSUME TypeOK, Framed, Client \/ Proto
    PROVE  [Rpc!RpcNext]_(Rpc!rpcVars)
<1>1. View /\ View' BY Views
<1>2. UNCHANGED <<npc, listen_fd>>
  BY DEF Client, ControlClosed, LocalCommand, Quit, Port, Pasv, RetrWithoutHooks, Restart, Transfer,
         Proto, Greet, ProtoLoop, PasvResult, PasvPort, ChooseMode, DataResult, DataFd, RetrBegin,
         SendBlock, RetrEnd, UploadBegin, UploadGivesUp, UploadEnd, List, ProtoOnly
<1>3. privUp = TRUE /\ InStep
  <2>1. pc # "none"
    BY DEF Client, ControlClosed, LocalCommand, Quit, Port, Pasv, RetrWithoutHooks, Restart, Transfer,
           Proto, Greet, ProtoLoop, PasvResult, PasvPort, ChooseMode, DataResult, DataFd, RetrBegin,
           SendBlock, RetrEnd, UploadBegin, UploadGivesUp, UploadEnd, List
  <2> QED BY <2>1 DEF Framed
\* A call that is answered, and not served any more.
<1>4. ASSUME pc \in Waiting, toProto # <<>>, toProto # TimeoutReply \/ pc # "acceptRes",
             npc \notin Serving, toNobody = <<>>
      PROVE  Viewed("answered", rpcOp, AnswerAt)
  BY <1>1, <1>4 DEF View, NoAnswer
<1>5. ASSUME pc' \in Waiting, toProto' # <<>>, toProto' # TimeoutReply \/ pc' # "acceptRes",
             npc \notin Serving, toNobody' = <<>>
      PROVE  Viewed("answered", rpcOp, AnswerAt)'
  BY <1>1, <1>2, <1>5 DEF View, NoAnswer
<1>6. CASE OutsideExchange
  <2>1. Viewed("idle", "none", "none") /\ Viewed("idle", "none", "none")'
    BY <1>1, <1>6, OutsideStep DEF View
  <2> QED BY <1>2, <2>1, RpcStutter
<1>7. CASE Pasv \/ \E c \in Transfers : Transfer(c)
  <2>1. /\ pc = "readline" /\ npc \notin Serving
        /\ \/ pc' = "listenRes" /\ toNobody' = CmdMsg(PASV_LISTEN)
           \/ pc' = "active" /\ toNobody' = CmdMsg(PASV_ACTIVE)
    <3>1. pc = "readline" BY <1>7 DEF Pasv, Transfer
    <3>2. npc \notin Serving /\ toNobody = <<>> BY <1>3, <3>1 DEF InStep, Answer, Waiting
    <3>3. \/ pc' = "listenRes" /\ toNobody' = Sent(TRUE, <<>>, CmdMsg(PASV_LISTEN))
          \/ pc' = "active" /\ toNobody' = Sent(TRUE, <<>>, CmdMsg(PASV_ACTIVE))
      BY <1>3, <1>7, <3>2 DEF Pasv, Transfer
    <3> QED BY <3>1, <3>2, <3>3, SentToEmpty, MessageTypes
  <2>2. Viewed("idle", "none", "none") BY <1>1, <2>1 DEF View, Waiting
  <2>3. Viewed("called", "listen", "none")' \/ Viewed("called", "active", "none")'
    BY <1>1, <2>1, AnswersSeen DEF View, Viewed, Waiting, Listing
  <2> QED BY <1>2, <2>2, <2>3 DEF Viewed, Rpc!RpcNext, Rpc!Call, Rpc!Ops
<1>8. CASE PasvResult
  <2>1. pc = "listenRes" /\ toProto # <<>> BY <1>3, <1>8 DEF PasvResult, CanRecv
  <2>2. Answer(ListenReply)
    BY <1>3, <2>1 DEF InStep, ListenExchange, Asked, Served, Answer, Hung, ListenReply
  <2>3. toProto' = IntMsg(DATA_PORT) /\ pc' = "listenPort" /\ toNobody' = <<>>
    BY <1>3, <1>8, <2>2, AnswerRead, Distinct DEF PasvResult, Answer
  <2>4. Viewed("answered", rpcOp, AnswerAt) BY <1>4, <2>1, <2>2, AnswersSeen DEF Answer, Waiting
  <2>5. Viewed("answered", rpcOp, AnswerAt)' BY <1>5, <2>2, <2>3, AnswersSeen DEF Answer, Waiting
  <2>6. rpcOp = "listen" /\ rpcOp' = "listen" BY <1>1, <2>1, <2>3 DEF View, Listing
  <2>7. AnswerAt = "port" /\ AnswerAt' = "port" BY <2>1, <2>3, <2>6 DEF AnswerAt
  <2>8. Viewed("answered", "listen", "port") /\ Viewed("answered", "listen", "port")'
    BY <2>4, <2>5, <2>6, <2>7 DEF Viewed
  <2> QED BY <1>2, <2>8, RpcStutter
<1>9. CASE PasvPort \/ DataFd
  <2>1. pc \in {"listenPort", "portFd", "acceptFd"} /\ pc' \notin Waiting /\ toProto # <<>>
    <3>1. pc \in {"listenPort", "portFd", "acceptFd"} /\ pc' \in {"loop", "opened"}
      BY <1>9 DEF PasvPort, DataFd
    <3>2. CanRecv(TRUE, toProto, IntLen) \/ CanRecv(TRUE, toProto, SockLen)
      BY <1>3, <1>9 DEF PasvPort, DataFd
    <3>3. toProto # <<>> BY <3>2, SizesAssumption DEF CanRecv
    <3> QED BY <3>1, <3>3 DEF Waiting
  <2>2. npc \notin Serving /\ toNobody = <<>>
    BY <1>3, <2>1 DEF InStep, ListenExchange, PortExchange, AcceptExchange, Answer, Hung
  <2>3. Viewed("answered", rpcOp, AnswerAt) BY <1>4, <2>1, <2>2 DEF Waiting
  <2>4. Viewed("idle", "none", "none")' BY <1>1, <2>1 DEF View
  <2> QED BY <1>2, <2>3, <2>4 DEF Viewed, Rpc!RpcNext, Rpc!Return
<1>10. CASE ChooseMode
  <2>1. CanRecv(TRUE, toProto, IntLen) /\ pc = "active" BY <1>3, <1>10 DEF ChooseMode
  <2>2. toProto # <<>> BY <2>1, SizesAssumption DEF CanRecv
  <2> DEFINE v == IF listen_fd = "open" THEN 1 ELSE 0
  <2>3. Answer(IntMsg(v)) BY <1>3, <2>1, <2>2 DEF InStep, ActiveExchange, Asked, Served, Answer
  <2>4. v \in Byte BY DEF Byte
  <2>5. Recv(TRUE, toProto, IntLen) = toProto BY <2>3, <2>4, AnswerRead DEF Answer
  <2>6. Viewed("answered", "active", IF toProto = IntMsg(0) THEN "no" ELSE "yes")
    <3>1. Viewed("answered", rpcOp, AnswerAt) BY <1>4, <2>1, <2>2, <2>3 DEF Answer, Waiting
    <3>2. rpcOp = "active" BY <1>1, <2>1 DEF View
    <3>3. AnswerAt = IF toProto = IntMsg(0) THEN "no" ELSE "yes" BY <2>1 DEF AnswerAt
    <3> QED BY <3>1, <3>2, <3>3 DEF Viewed
  <2>7. \/ pc' = "loop"
        \/ /\ pc' = "portRes" /\ toProto = IntMsg(0)
           /\ toNobody' = Sent(TRUE, <<>>, CmdMsg(GET_DATA_SOCK) \o AddrMsg)
        \/ /\ pc' = "acceptRes" /\ toProto # IntMsg(0)
           /\ toNobody' = Sent(TRUE, <<>>, CmdMsg(PASV_ACCEPT))
    BY <1>3, <1>10, <2>3, <2>5 DEF ChooseMode, UsePort, UsePasv, Answer
  <2>8. \/ Viewed("idle", "none", "none")'
        \/ Viewed("called", "connect", "none")' /\ toProto = IntMsg(0)
        \/ Viewed("called", "accept", "none")' /\ toProto # IntMsg(0)
    <3>1. CASE pc' = "loop" BY <1>1, <3>1 DEF View, Waiting
    <3>2. CASE /\ pc' = "portRes" /\ toProto = IntMsg(0)
               /\ toNobody' = Sent(TRUE, <<>>, CmdMsg(GET_DATA_SOCK) \o AddrMsg)
      <4>1. toNobody' # <<>> BY <3>2, SentToEmpty, MessageTypes, AnswersSeen
      <4> QED BY <1>1, <3>2, <4>1 DEF View, Viewed, Waiting, Porting
    <3>3. CASE /\ pc' = "acceptRes" /\ toProto # IntMsg(0)
               /\ toNobody' = Sent(TRUE, <<>>, CmdMsg(PASV_ACCEPT))
      <4>1. toNobody' # <<>> BY <3>3, SentToEmpty, MessageTypes, AnswersSeen
      <4> QED BY <1>1, <3>3, <4>1 DEF View, Viewed, Waiting, Accepting
    <3> QED BY <2>7, <3>1, <3>2, <3>3
  <2> QED BY <1>2, <2>6, <2>8 DEF Viewed, Rpc!RpcNext, Rpc!Call, Rpc!Return, Rpc!Ops
<1>11. CASE DataResult
  <2>1. /\ toProto # <<>> /\ pc \in {"portRes", "acceptRes"}
        /\ pc' = IF pc = "portRes" THEN "portFd" ELSE "acceptFd"
        /\ UNCHANGED toNobody /\ toProto' = Rest(TRUE, toProto, 1)
    BY <1>3, <1>11 DEF DataResult, CanRecv
  <2>2. Answer(ConnectedReply) \/ (pc = "acceptRes" /\ Answer(TimeoutReply))
    BY <1>3, <2>1 DEF InStep, PortExchange, AcceptExchange, Asked, Served, Answer, Hung, ConnectedReply,
                      TimeoutReply
  <2>3. /\ rpcOp \in {"connect", "accept"} /\ rpcOp' = rpcOp /\ pc \in Waiting /\ pc' \in Waiting
        /\ pc # "active" /\ pc' \notin {"active", "acceptRes"}
    BY <1>1, <2>1 DEF View, Waiting, Porting, Accepting
  <2>4. CASE Answer(ConnectedReply)
    <3>1. toProto' = ConnHandle BY <2>1, <2>4, AnswerRead DEF Answer
    <3>2. Viewed("answered", rpcOp, AnswerAt) BY <1>4, <2>1, <2>3, <2>4, AnswersSeen DEF Answer
    <3>3. Viewed("answered", rpcOp, AnswerAt)'
      BY <1>5, <2>1, <2>3, <2>4, <3>1, AnswersSeen DEF Answer
    <3>4. AnswerAt = "socket" /\ AnswerAt' = "socket" BY <2>3 DEF AnswerAt
    <3>5. Viewed("answered", rpcOp, "socket") /\ Viewed("answered", rpcOp, "socket")'
      BY <3>2, <3>3, <3>4 DEF Viewed
    <3> QED BY <1>2, <2>3, <3>5 DEF Viewed, Rpc!rpcVars
  <2>5. CASE pc = "acceptRes" /\ Answer(TimeoutReply)
    <3>1. toProto' = <<>> BY <2>1, <2>5, AnswerRead DEF Answer
    <3>2. Viewed("hung", rpcOp, "none") BY <1>1, <2>3, <2>5 DEF View, NoAnswer, Answer
    <3>3. Viewed("hung", rpcOp, "none")'
      BY <1>1, <1>2, <2>1, <2>3, <2>5, <3>1 DEF View, NoAnswer, Answer
    <3> QED BY <1>2, <2>3, <3>2, <3>3 DEF Viewed, Rpc!rpcVars
  <2> QED BY <2>2, <2>4, <2>5
<1> QED BY <1>6, <1>7, <1>8, <1>9, <1>10, <1>11 DEF Client, Proto, OutsideExchange

\* The byte streams, the two threads and their order of reads and writes promise what
\* PrivRpc states, call by call, for every size, file, command and fault but the two
\* that break the framing: a session whose socket pair could not be made, and an
\* accept that fails without timing out (priv_command.c then answers with one
\* byte more than trans_data.c reads).
THEOREM ThreadsImplementRpc ==
    ASSUME FramingFaults \cap Faults = {} PROVE Spec => ImplementsRpc
<1>1. Init => Rpc!RpcInit
  <2> SUFFICES ASSUME Init PROVE Rpc!RpcInit OBVIOUS
  <2>1. Viewed("idle", "none", "none") BY Views DEF Init, View, Waiting
  <2> QED BY <2>1 DEF Viewed, Init, Rpc!RpcInit
<1>2. TypeOK /\ Framed /\ [Next]_vars => [Rpc!RpcNext]_(Rpc!rpcVars)
  <2> SUFFICES ASSUME TypeOK, Framed, [Next]_vars PROVE [Rpc!RpcNext]_(Rpc!rpcVars)
    OBVIOUS
  <2>1. CASE ExitLoop \/ UNCHANGED vars
    <3>1. UNCHANGED <<pc, npc, toNobody, toProto, listen_fd>>
      BY <2>1 DEF ExitLoop, vars, protoVars, privVars
    <3> QED BY <3>1 DEF Rpc!rpcVars, rpcPhase, rpcOp, rpcAnswer, NoAnswer
  <2> QED BY <2>1, RpcNobody, RpcProto DEF Next
<1>3. Spec => [](TypeOK /\ Framed) BY TypeCorrect, FramedAlways, PTL
<1> QED BY <1>1, <1>2, <1>3, PTL DEF Spec, ImplementsRpc, Rpc!RpcSpec

\* What PrivRpc gives its caller it gives the proto thread: while the framing holds the
\* nobody thread still listens when the accept that get_pasv_data_fd asks for on the
\* strength of pasv_active is served, and has no passive socket when get_port_data_fd
\* asks for a connection (trans_data.c).
THEOREM AnswersStayTrue ==
    ASSUME FramingFaults \cap Faults = {} PROVE Spec => []Rpc!AnswerTrue
<1>1. Rpc!RpcInit => Rpc!AnswerTrue BY DEF Rpc!RpcInit, Rpc!AnswerTrue
<1>2. Rpc!AnswerTrue /\ [Rpc!RpcNext]_(Rpc!rpcVars) => Rpc!AnswerTrue'
  <2> SUFFICES ASSUME Rpc!AnswerTrue, [Rpc!RpcNext]_(Rpc!rpcVars) PROVE Rpc!AnswerTrue'
    OBVIOUS
  <2>1. CASE \E o \in Rpc!Ops : Rpc!Call(o) BY <2>1 DEF Rpc!AnswerTrue, Rpc!Call, Rpc!Ops
  <2>2. CASE Rpc!Serve BY <2>2 DEF Rpc!AnswerTrue, Rpc!Serve
  <2>3. CASE Rpc!Hang BY <2>3 DEF Rpc!AnswerTrue, Rpc!Hang, Rpc!Ops
  <2>4. CASE Rpc!Return BY <2>4 DEF Rpc!AnswerTrue, Rpc!Return
  <2>5. CASE Rpc!Release BY <2>5 DEF Rpc!AnswerTrue, Rpc!Release
  <2>6. CASE UNCHANGED Rpc!rpcVars BY <2>6 DEF Rpc!AnswerTrue, Rpc!rpcVars
  <2> QED BY <2>1, <2>2, <2>3, <2>4, <2>5, <2>6 DEF Rpc!RpcNext
<1>3. Spec => Rpc!RpcSpec BY ThreadsImplementRpc DEF ImplementsRpc
<1> QED BY <1>1, <1>2, <1>3, PTL DEF Rpc!RpcSpec
=============================================================================
