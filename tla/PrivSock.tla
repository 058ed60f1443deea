------------------------------ MODULE PrivSock ------------------------------
(***************************************************************************)
(* The framing of the private socket pair of a session (priv_sock.c): the  *)
(* two threads of a session exchange commands, one-byte results, integers, *)
(* strings and socket handles over a byte stream that carries no message   *)
(* boundaries.  A stream is a sequence of bytes; a message is the tuple of *)
(* bytes that one priv_sock_send_* call writes.                            *)
(***************************************************************************)
EXTENDS Integers, Sequences

CONSTANTS
    IntLen,     \* sizeof(int)
    SockLen,    \* sizeof(SOCKET): 4 in the Win32 build, 8 in the x64 build
    IpLen       \* length of the text inet_ntoa makes of the client's address

ASSUME SizesAssumption ==
    /\ IntLen \in Nat /\ IntLen >= 2
    /\ SockLen \in Nat /\ SockLen >= IntLen
    /\ IpLen \in 7..15

\* Commands and results of priv_sock.h.
GET_DATA_SOCK == 1
PASV_ACTIVE   == 2
PASV_LISTEN   == 3
PASV_ACCEPT   == 4

\* The port do_pasv listens on.
DATA_PORT == 20

RESULT_OK  == 1
RESULT_BAD == 2

\* A value below 256 as n bytes, the least significant first.
Word(v, n) == [i \in 1..n |-> IF i = 1 THEN v ELSE 0]

\* (SOCKET)-1.
INVALID_SOCKET == [i \in 1..SockLen |-> 255]

\* The handle the operating system gives to a data connection.
ConnHandle == Word(4, SockLen)

IntMsg(v) == Word(v, IntLen)
ResultMsg(r) == <<r>>
CmdMsg(c) == <<c>>

\* priv_sock_send_str: the length as an integer, then the characters.
StrMsg == IntMsg(IpLen) \o [i \in 1..IpLen |-> 49]

\* The address of the client that follows the command GET_DATA_SOCK.
AddrMsg == StrMsg \o IntMsg(7)

-----------------------------------------------------------------------------
(***************************************************************************)
(* Sending and receiving.  `up' is FALSE when priv_sock_init could not     *)
(* make the pair: both handles are -1, every send fails and changes        *)
(* nothing, and every receive fails at once and yields zero.               *)
(***************************************************************************)
Sent(up, stream, msg) == IF up THEN stream \o msg ELSE stream

\* readn(fd, buf, n) can return: n bytes are there, or the handle is invalid.
CanRecv(up, stream, n) == up => Len(stream) >= n

Recv(up, stream, n) == IF up THEN SubSeq(stream, 1, n) ELSE Word(0, n)

Rest(up, stream, n) == IF up THEN SubSeq(stream, n + 1, Len(stream)) ELSE stream

\* The value of an integer whose upper bytes are zero.
Low(word) == word[1]
=============================================================================
