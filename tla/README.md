# MiniFtpServer in TLA+

TLA+ models, TLC runs and TLAPS proofs for the FTP server library in
`src/MiniFtpServer` and the host program in `src/CPSample` (the Windows build).
File names below are those of the two directories.

The server is used in two ways: as a console program (`MiniFtpServer/main.c`)
and as a library inside a host program, whose class `CMiniFtp` starts and stops
the loop and supplies the files by callbacks. The host program is a window
program, which puts files of an FTP server on the clipboard in a thread of its
own.

## 1. The system

### Threads

| Thread | Code | Lives |
| --- | --- | --- |
| main, or the host's thread | `main.c` `main`, `start_loop`; `CMiniFtp::StartLoop`, `StopLoop` | the process |
| console handler | `main.c` `ctrl_handler` -> `exit_loop` | one call |
| loop thread | `main.c` `loop_thread` | from start to stop of the server |
| session thread = *nobody* thread | `main.c` `session_thread` -> `handle_nobody` | one control connection |
| private thread = *proto* thread | `session.c` `private_thread` -> `handle_proto` | one control connection |
| host answering queries | whoever calls `CMiniFtp::OnReceived...` | outside |
| window thread | `CPSample.cpp` `wWinMain`, `WndProc` | the window program |
| message thread | `CMessageThread.cpp` `Loop` -> `FtpPutIntoClipboardWithSource` | from `Start` to its `WM_QUIT` |

### Components

| Component | State | Operations | Hard behaviour | What makes it correct |
| --- | --- | --- | --- | --- |
| Private socket pair (`priv_sock.c`) | two byte streams | send/receive of a command byte, result byte, int, string, handle | no message boundaries: a reader one byte off stays so | every read finds the value that was sent for it |
| Session (`ftp_proto.c`, `ftp_nobody.c`, `priv_command.c`, `session.c`) | both threads' positions, `p_addr`, `listen_fd`, `data_fd` | command loop; the four privileged operations; start and release | two threads waiting for each other, operations that fail without an answer, `quit` in the middle of an exchange | a command ends; the reply tells the truth; the session is released |
| Data transfer (`trans_data.c`) | `restart_pos`, `nleft`, offset, `is_translating_data` | `get_trans_data_fd`, `fake_download_file`, `upload_file`, `trans_list` | many early returns, each with its own replies and leftovers | replies in order, data connection closed, every block sent |
| Command map (`command_map.c`) | session fields, process directory | one handler per command | the directory is the process's, not the session's | a command acts on its own session's state |
| Server loop (`main.c`) | `quit`, `exit_code`, `listen_fd` | `loop_thread`, `exit_loop`, `start_loop` | `s_close(&listen_fd)` from two threads, stop during accept, restart | listener closed once, clean exit code, loop ends |
| Session manager (`session_manager.c`) | a vector, a critical section | add, remove, wait | sessions that outlive the loop | the loop does not go before its sessions |
| Broker (`CMiniFtp.cpp`) | `rfs`, `info_list`, `buffer`, `blocksize`, `hEvent` | three callbacks, three queries, three answers | one object and one event for all sessions, late answers, timeouts | an answer reaches its query, no use of freed memory |
| Vector (`cvector.c`) | block, length, size | push, pop, insert, remove | realloc that moves or fails | it is a sequence |
| File commands (`command_map.c`, `trans_list_common`) | the drive, one current directory, `rnfr_name` | `CWD`, `CDUP`, `MKD`, `RMD`, `DELE`, `STOR`, `RNFR`, `RNTO`, `LIST` | several system calls for one command, other sessions between them | a command acts on, and a reply names, what its session means |
| Line reader (`ftp_proto.c`, `sysutil.c`, `strutil.c`) | the receive queue, `session->command` | peek, take, trim, split | bytes in any portions, a connection that closes, resets or is aborted between peek and take | the commands are the lines of the stream |
| Configuration (`configure.c`, `parse_conf.c`, `tcp_server`) | the tunables, the block of the address | load, listen, free | octal numbers, bad values, a literal that is freed | the settings are what the file says |
| Address conversion (`netutils.c`) | none | `inet_ntop`, `inet_pton` of both families | runs of zeros, limits of digits and words | text and address correspond |
| Message thread (`CMessageThread.cpp`, `CPSample.cpp`) | `bStarted`, `hWnd`, `hEvent`, the message queue | `Start`, `Signal`, `Stop`, `Loop` | flags without a lock, one message for each wake | signals are served, the program ends |
| Clipboard (`FtpPutIntoClipboardWithSource`) | the interfaces of the shell it holds, the entries chosen | a chain of shell calls | any of them fails | what was got is released, the answer tells the truth |
| Client counters, alarms and rates, test programs | - | - | not built, see section 7 | - |

The proto thread asks the nobody thread over the socket pair; both read the
global `quit`. The session thread waits for the private thread, then calls
`session_free` -> `remove_session`. `RETR` and `LIST` of a session call the
broker's callbacks, which wait for the host. All sessions share the current
directory of the process. The main thread and the message thread of the window
program share flags, an event and a message queue; the copying the message
thread does for a signal runs while the main thread goes on.

## 2. Modules

Reading order, which is also the order in which they were written:

| Module | What it is | Code |
| --- | --- | --- |
| `PrivSock` | messages as byte tuples, streams, receive | `priv_sock.c`, `readn`/`writen` of `sysutil.c` |
| `FtpSession` | one control connection, both threads | `session.c`, `ftp_proto.c`, `ftp_nobody.c`, `priv_command.c`, `trans_data.c`, part of `command_map.c` |
| `PrivRpc` | abstract: calls of one object that owns the passive socket | - |
| `FtpSessionRpc` | the refinement mapping from `FtpSession` to `PrivRpc` | - |
| `Server` | loops, `exit_loop`, sessions, session manager | `main.c`, `session_manager.c`, `CMiniFtp` StartLoop/StopLoop |
| `MiniFtp` | the broker with its event and its memory | `CMiniFtp.cpp` |
| `Vector` | abstract: a growing sequence | `cvector.h` |
| `CVector` | the block behind it | `cvector.c` |
| `FileCommands` | two sessions on one drive with one current directory | `command_map.c`, `trans_list_common` of `trans_data.c` |
| `LineStream` | abstract: a byte stream cut into lines | - |
| `LineReader` | the proto thread between two commands | `ftp_proto.c`, `readline`, `recv_peek`, `readn` of `sysutil.c`, `strutil.c` |
| `Config` | the settings from the file to `free` | `parse_conf.c`, `configure.c`, `tcp_server` of `sysutil.c` |
| `Numerals` | numbers and their digits | `str_octal_to_uint` of `strutil.c`, the C library |
| `InetText` | addresses printed and read | `netutils.c` |
| `MessageThread` | the window program's two threads | `CMessageThread.cpp`, `CPSample.cpp` |
| `Clipboard` | the copying for one signal | `FtpPutIntoClipboardWithSource` of `CMiniFtp.cpp` |
| `Desktop` | `MessageThread` and `Clipboard` composed | `CMessageThread::Loop` |
| `FtpSessionProofs` | lemmas about messages and streams, theorems about `FtpSession`, its refinement of `PrivRpc` | - |
| `ServerProofs` | theorems about `Server` | - |
| `MiniFtpProofs` | theorems about `MiniFtp` | - |
| `CVectorProofs` | theorems about `CVector`, its refinement of `Vector` | - |
| `FileCommandsProofs` | theorems about `FileCommands` | - |
| `LineReaderProofs` | a theorem about `LineReader`, its refinement of `LineStream` | - |
| `TextProofs` | theorems about `Config` and `InetText`, lemmas about `Numerals` | - |
| `DesktopProofs` | theorems about `Desktop`: the two threads, and the copying | - |
| `MC...` | constants and symmetry for TLC | - |

`FtpSession` extends `PrivSock`; `FtpSessionRpc` extends `FtpSession` and
instantiates `PrivRpc`; `CVector` instantiates `Vector` and `LineReader`
`LineStream`; `Desktop` extends `MessageThread` and `Clipboard`; `Config` and
`InetText` extend `Numerals`. `Server` sees a session
only as created, running, freed: what it does between is `FtpSession`.

### How a module corresponds to the code

*FtpSession.* `pc` is the blocking call the proto thread is in (`readline` on
the control connection, or a receive on `proto_fd`: `active`, `listenRes`,
`portFd`, ...), `npc` the same for the nobody thread. An action is what a
thread does from one blocking call to the next, with everything it writes. The
streams `toNobody` and `toProto` hold the bytes that were sent and not read; a
receive waits until they suffice (`readn`). A fault is enabled by membership in
the constant `Faults`, and recorded in `failed` (or counted in `skew`), so that
properties can say "unless this happened". The commands that only reply
(`LocalCommand`) leave a reply from `LocalReplies`.

*Server.* `lpc[l]` is the position of the loop thread `l`; a listener is named
by the loop that opened it. `s_close(&listen_fd)` is three actions
(`CloseTest`, `CloseSocket`, `CloseStore`) for each of its callers, because the
loop and `exit_loop` run it concurrently. `registry` is what `add_session`
stored: `cvector_pushback` copies the first bytes of the structure it is given,
which `session_init` had cleared, so an entry is `"null"` and not the session.

*MiniFtp.* An identifier names a query, its answer and the block allocated for
it. `rfs`, `info_list`, `buffer` and `blocksize` are the members of the one
object; `hEvent` is its auto-reset event. The host may answer in any order or
never, and an answer is stored first and signalled in a second step. `modes` are
the two settings of the object, made before the server starts: whether a call
waits, and whether there is a callback to pass the query to (`Passed`). Without
one a call that waits times out, and one that does not wait takes what is there.

*CVector.* `slots` is the block, `len` and `tot` are `cv_len` and
`cv_tot_len`. `overrun` remembers which operations wrote past the block.
`broken` marks what the code cannot come back from: `insert_at` stored the
NULL of a failed `realloc`, or an insertion used its iterator after `realloc`
had moved the block.

*FileCommands.* The drive is a set of directories and a set of files, a path the
sequence of its names. `pc[s]` is the command a session is in the middle of:
`MKD` between `_mkdir` and `_getcwd`, `LIST` between `opendir` and the last
`stat`; every other command depends on the current directory in one system call
and is one action. `Hidden` are the names that begin with a dot, which a listing
passes over (`Skipped`); `Given` bounds the names that clients give, and `Drives`
are the drives a server may start on. `view`, `named` and `made` remember what the session meant;
`astray`, `turned` and `disturbed` which sessions another one got in the way of.

*LineReader.* `wire` is all that has arrived, `taken` how much of it was
received, `line` what of that is in `session->command`. `Peek` sees any number
of the waiting bytes, `Take` is the `readn` of what was seen.

*Config.* A step for each line, in the branch of `load_config` that handles it.
A block is named by the line it was made for, the literal default by 0; `freed`
lists what `free` was given. A `free` of what was not allocated may stop the
program or not.

*InetText.* A text is what `strtol` and `sscanf` make of its characters: numerals,
which are taken whole, colons and dots (`IsText`). The two loops that walk eight
words are steps: `cursor` is the word at which a loop is, in the printer `i`, in
the reader `addr_cursor`; `readcursor` counts the tokens the reader has taken.
`inet_ntop`, `PrintWord`, `PrintRun` and `Printed_v6` print; `inet_pton`,
`ReadWord`, `SkipColon`, `Skip`, `Refuse` and `Read_v6` read. `left` is what the
caller's buffer held before: `_snprintf` ends the text after every word, but the
two colons are written over that end (`netutils.c:137`), so that a text that ends
in them goes on with what is there (`Ended`). `TurnedAway` is the call that ends
at the tests before that: a null pointer, another family, a buffer too short.

*MessageThread, Clipboard, Desktop.* `main` and `thread` are positions, one
action from one access of shared state to the next. `queue` holds the messages,
`fresh` whether some came since the thread last looked, which is when
`MsgWaitForMultipleObjects` returns. `quitting` says that `PostQuitMessage` was
called: its `WM_QUIT` is not in the queue, and `GetMessage` returns it when no
posted message is left (`GetQuit`). `at` is the next call of the shell, and
`held` the interfaces that were got. In `Desktop` the copying takes the place of
the single step `Work` of `MessageThread`.

An operator whose name ends in an underscore and a word (`ListenReply_Twice`)
is the code with a slip. No action uses it; it documents which mistake a
property would catch, and `PROJECT.json` names the property.

## 3. Runs

| Run | Module | Question | Distinct states |
| --- | --- | --- | --- |
| `session_faults` | `MCFtpSession` | what holds when any call may fail | 976 000 |
| `session_rpc` | `MCFtpSessionRpc` | do the threads implement `PrivRpc`; does a command end | 29 900 |
| `server` | `MCServer` | listeners, exit code, restart; does every loop end after a stop | 148 000 |
| `broker_safety` | `MCMiniFtp` | answers and memory | 960 000 |
| `cvector` | `MCCVector` | is it a sequence, are resizes rare | 19 000 |
| `file_commands` | `MCFileCommands` | what sessions do to each other's files | 786 000 |
| `line_reader` | `MCLineReader` | are the commands the lines of the stream; does the thread end | 100 000 |
| `desktop` | `MCDesktop` | signals, interfaces, and does the program end | 190 000 |
| `config` | `MCConfig` | are the settings those of the file, what is freed | 58 600 |
| `inet_text` | `MCInetText` | do texts and addresses correspond | 752 000 |

Two more runs are expected to be violated; see section 6.

### What they show

`session_faults` (x64: `SOCKET` of 8 bytes; every fault; two blocks; two failed
accepts)
- `LagIsSkew`: each accept that fails other than by timing out leaves exactly
  one byte too many for the proto thread, for the rest of the session.
- `StallHasCause`: a proto thread that waits for bytes nobody will send does so
  because an operation of the nobody thread failed without (all of) its answer,
  or because the nobody thread saw `quit` in the middle of the exchange.
- `TransferHasConnection`: a transfer that goes on has a data connection, though
  `get_port_data_fd` and `get_pasv_data_fd` report a bad result and carry on.
- `PassiveReplyTrue`: a 227 reply names the port that is being listened on.
- `ReplyOrder`, `CompletionTruthful`: 150 before 226/426/451, nothing after, and
  "Transfer complete." only when all blocks were sent.
- `DataLostHasCause`: an open data connection is forgotten only after an upload
  that could not open its file, or out of step.
- `BothModesStick`: PORT and PASV both pending is a trap that no step of either
  thread leaves.

`session_rpc` (Win32: `SOCKET` of 4 bytes; the faults that keep the framing;
no callbacks)
- `Exchange`: the bytes in flight and the positions of the threads agree.
- `ImplementsRpc`: refinement of `PrivRpc`, where a call is served at most once,
  and a data connection is asked for only in the way the answer to "do you
  listen" allows.
- `CommandEnds`: every command is dealt with, unless one of the operations
  failed without an answer or the server was stopped.

`server` (one session, two starts, limit one, all faults)
- `ListenerReleased`, `OrderlyExit`, `RestartInert`: what becomes of listeners,
  exit code and a restarted loop in each order of `s_close`, `tcp_server`,
  `accept` and `quit = 1`, in console and library use.
- `OrphanedByStop`: a session finds the manager destroyed only after a stop or
  the failure of a loop.
- `StopCompletes`: after a stop every loop ends, though sessions may live on.

`broker_safety` (two callers, three queries, two block sizes; with and without a
callback, waiting for answers or not)
- `AnswersMatch`, `HeapSafe`, `EventBalanced`: right as long as calls do not
  overlap and no answer comes after its call gave up. That is the contract the
  host must keep; the code does not enforce it. `AnswersMatch` has one exception
  more: in synchronous mode without a callback a caller takes what no query of its
  own brought (`Unasked`); memory is safe then.
- `BlocksFreed`: without overlap only a download that timed out leaks a block.

`cvector` (first size 2 instead of 256, up to six elements, two values,
`realloc` may fail)
- `ImplementsVector`: refinement of `Vector`: no element lost, doubled or
  reordered by shifts and resizes; a failed operation changes nothing, except as
  `Vector` says.
- `PushInside`: appending stays inside the block. `NotSparse`,
  `ResizeLeavesRoom`: the thresholds.

`file_commands` (two sessions; an empty drive, or a directory with three files in
it, one of them hidden)
- `ActsInView`: a session's names are taken from the directory its own `CWD` and
  `CDUP` lead to, unless another session changed directory.
- `MkdNamed`, `RenamesWhatWasNamed`: the reply to `MKD` names the directory that
  was made, and `RNTO` renames what `RNFR` named, but for a change of directory
  in between; of which any session is the cause.
- `ListingFaithful`: a listing describes the entries it names, all that are not
  hidden, and closes its search, unless disturbed. One entry in the root of a drive is
  missing even then: the first result is dropped as if it were a dot.

`line_reader` (a buffer of four bytes, up to four bytes sent; closed, reset,
aborted, and the server stopped, at any moment)
- `ImplementsStream`: refinement of `LineStream`: however the bytes arrive, the
  commands are the pieces of the stream, cut at line feeds or at the room there
  is, trimmed, split and put into upper case.
- `Reading`: what makes it so: the buffer holds what was received last and no
  line feed, and `readn` is asked for no more than was seen.
- `EndsWithClient`: a session whose client closed or whose connection was reset
  ends. One whose connection was aborted tries again for ever (`Retry`).

`desktop` (every failure of event, thread, OLE, window and shell; two messages;
a folder of any of three entries, two names of which one is part of both a file
and its copy)
- `SignalsServed`: a signal is lost only if it came during the work, whose event
  is reset at the end, or without an event.
- `EventOutlivesThread`: the destructor closes the event before it calls `Stop`,
  but a `Stop` came before, and it finds the thread running only if that one
  found it not started.
- `NothingHeld`: whichever call fails, the interfaces are released.
- `SuccessMeansCopied`: `S_OK` means that all matching entries are on the
  clipboard, unless an enumeration failed in the middle. The array of entries
  is overrun only if a name is part of the names of two of them.
- `ProgramEnds`: after its window is closed the program ends, unless `Stop` came
  before the thread had set its flag or made its window, or `WM_QUIT` lies
  unseen behind another message, or there is no event and the wait fails.

`config` (every file of up to three lines out of thirteen)
- `SettingsMeanFile`: the last line that says something decides each setting.
- `FreedOnce`: no block is freed twice or left; the literal default is freed
  once, by the first address line or at the end.

`inet_text` (IPv4 of six byte values, IPv6 of the words 0, 1 and ffff in every
place, each into a buffer that is empty, or holds a digit, a piece of an address
or a dot, or is too short; and texts joined of numerals, empty pieces and separators)
- `TextMeansAddress`: its parts are `RoundTrip` (what is printed is read back as
  the same address, if the text has an end), `LongestRunLeftOut` (it is printed in
  the shortest of its forms), `QuadsRead`, `MixedRead` and `WordsRead` (a text of
  four bytes, of words that end in four bytes, of eight words is read exactly when
  it is written in one of the forms, and as the address it writes down). The forms
  allow what the code allows and a reader of an address would not expect: a colon
  before the first word, a `::` that stands for no word, a dot after the fourth
  byte, anything between `::ffff` and the next colon when bytes follow.

### Bounds, and why they are enough

- `MaxBlocks` 2: a download of none, one and several blocks, and every restart
  position below, at and beyond its end. The loop treats blocks alike.
- `MaxSkew` 2 (0 where the framing is assumed): no skew, one, and its
  accumulation. It must be below `IntLen`; beyond it, whole integers shift.
- One session, two loops: the races of `Server` are between the loop, one
  `exit_loop` and one other loop; a third one meets the same handles. Sessions
  share nothing with each other there but the manager, whose entries are all
  alike (`"null"`), so that a second session adds no case.
- Three queries by two callers: one that timed out, one in progress that a late
  answer meets, and one of the other caller.
- `MIN_LEN` 2 and six elements: the block grows twice (2, 4, 8) and
  `insert_at` grows it from any of these sizes; it shrinks again, with and
  without a refusal.
- The address of the client has nine characters (`IpLen`); only its length
  matters, and the proofs allow 7 to 15.
- Two sessions, five paths, one session between `RNFR` and `RNTO`, two open
  searches: one session disturbs the other at each place, and a directory can be
  entered, left, renamed and emptied. Three sessions disturb no differently.
- Four bytes for a buffer of four: lines that are empty, full, too long by one,
  two lines in one portion, one line in several, and CR LF split between them.
- Two messages: `WM_QUIT` alone, behind another one, and before another one.
  Three entries and two names: none, one and two matches, an entry matched by
  two names and a name that matches two entries.
- Three lines: a key given twice with another between, and a third address
  after two; more repeat these. The lines hold each branch of `load_config`.
- Words 0, 1, ffff: a word that is zero, has one digit, has four. A run of zeros
  begins, ends and meets its equal in every place. Texts of up to ten words or
  gaps, where eight are read; of up to five bytes, where four are; a numeral of
  five digits, where four are read.

For what section 5 proves these bounds do not matter: the proofs hold for every
number of sessions, loops, callers and queries, every drive, folder, size of a
buffer, of a block or of an integer, and every value of the bounds themselves.

### Deadlock

`file_commands` checks for deadlock: some session can always go on. The other
runs say `CHECK_DEADLOCK FALSE`. A session really stops: it is released, or
both threads wait for bytes that never come, which is what `StallHasCause` and
`CommandEnds` are about. `Server` stops when `main` has returned and when all
bounded starts are used. The callers of `MiniFtp` and the user of `CVector` stop
when the bound on queries or an unusable vector is reached. A configuration ends
with `free_config`, a conversion when it has been read back, a line reader with
its connection, and the window program when it is gone.

## 4. Fairness

- `FtpSession` `FairSpec`: weak fairness of each of the two threads. The
  operating system runs both, every action is enabled until taken, and calls on
  the data connection end by the network's timeouts. The client's choices
  (`Client`) and `ExitLoop` are not fair: a client may stay silent for ever.
- `Server` `FairSpec`: weak fairness of each loop thread, of `exit_loop` and
  each `s_close`, and of `main`. `accept_timeout` has a bounded time. Sessions
  are not fair: nothing makes a client leave.
- `LineReader` `FairSpec`: weak fairness of the thread. Its calls return or fail;
  after an abort `Retry` is a step of it, so fairness does not help. The client
  and the network are not fair.
- `Desktop` `DesktopFairSpec`: weak fairness of what the main thread does of
  itself (`Start`, `Stop`, the destructor) and of the message thread with its
  copying; the calls of the shell return. The user and other programs are not
  fair. The wait of `Stop` has no limit, so its step is enabled only when the
  thread has ended.
- No other specification states fairness.

## 5. Theorems

All proofs are checked by `tlapm` with SMT, Zenon and LS4.

**Session** (for every size of integers of at least two bytes and of handles no
smaller, which are 4 and 8 bytes on x64 and 4 and 4 on Win32; every address
length from 7 to 15, every set of faults and every bound; fewer bytes too many
than an integer has: `SizesAssumption`, `SessionAssumption`)
- `TypeCorrect`: `Spec => []TypeOK`. The inductive invariant adds `Locals`: in
  the loop of a download, offset and what is left make up the restart position
  and the size; without it nothing bounds the offset. The streams remain byte
  sequences because every message is one (`MessageTypes`).
- `ExchangeCorrect`: `Spec => []Exchange`. The inductive invariant is
  `TypeOK /\ NoPair /\ Exchange`. `Exchange` has one conjunct for each pair of
  calls that belong together (`PortExchange`, `AcceptExchange`,
  `ListenExchange`, `ActiveExchange`); each lists the situations between request
  and answer. `NoPair` says that the streams stay empty when the pair could not
  be made. The lemmas `NobodyKeeps`, `ClientKeeps` and `ProtoKeeps` go through the
  actions; `RecvWhole`, `SentToEmpty` and `Distinct` say what a read finds.
- `TransferConnected`: `Spec => []TransferHasConnection`, from `Exchange`: the
  only handle that can be read is the one sent.
- `BothModesStuck`: `Spec => BothModesStick`, from `Exchange`: in that state the
  only request that can be under way is `PASV_ACTIVE` or `PASV_LISTEN`.
- `LagIsSkewAlways`, `StallsHaveCause`: `Exchange` says nothing once an accept has
  failed in the middle; the inductive invariant here is `Lag`, the exchange at
  any distance. It lists the situations of an exchange again (`AtRest`,
  `Requested`, `InService`, `Replied`, `Silent`, `GaveUp`), each with the
  number of bytes in the stream, of which `skew` are too many. To know how many
  bytes the proto thread takes it must know whether it reads a `RESULT_BAD`, and
  the bytes that are too many never are one: they are the end of the handle -1 or
  of an integer (`Clean`, `CleanEnd`). So each exchange takes as many bytes as it
  brings, and only the failed accept brings one more.
- `ThreadsImplementRpc`: `Spec => ImplementsRpc` if neither the socket pair nor an
  accept can fail in the middle (`FramingFaults \cap Faults = {}`, which is also
  what the run `session_rpc` has; with these faults the two threads do not
  implement calls, and `LagIsSkewAlways` says what they do instead). `FramedStep`
  shows that then the threads are in step to the end of the session: an accept is
  served only while the passive socket is open. `RpcNobody` and `RpcProto` map
  each action to a call, its service, its answer, or a stutter; `View` is the
  mapping, position by position.
- `AnswersStayTrue`: under the same assumption `Spec => []Rpc!AnswerTrue`, what the
  caller of `PrivRpc` relies on: an accept is asked only of a nobody thread that
  listens, a connection to the client only of one that does not. It is an inductive
  invariant of the abstract specification alone, and
  `ThreadsImplementRpc` brings it to the threads.
- `RepliesOrdered`: `Spec => []ReplyOrder`. The inductive invariant is `Staged`:
  how far a command has come, told by `pc`, says what it has replied: nothing of
  a transfer (`Plain`), a 150 last (`Begun`), a completion right after it
  (`Ended`), or a port (`Named`). `ReplyOrder` alone does not say that a
  transfer that goes on has sent its 150. `PlainThen` and `BegunThen` say what
  one reply more does.
- `PortTrue`: `Spec => []PassiveReplyTrue`, from `Exchange` and `Staged`: a lone
  227 comes from `PasvPort`, where `Exchange` says what the port in the stream is.
- `ConnectionKept`: `Spec => []DataLostHasCause`. It adds `Kept`: outside a
  transfer the connection is open only for one of the two causes.
- `CompletionMeans`: `Spec => CompletionTruthful`, from `Locals`: with the sum of
  offset and rest fixed, nothing left means the end of the file.

**Server** (for every number of sessions, starts and clients, and every set of
faults: `ServerAssumption`)
- `ListenersReleased`: `Spec => []ListenerReleased`, from `Listeners`: `listen_fd`
  has the handle of every open listener that was not forgotten in a race
  (`Known`), and who is through with `s_close` has let go of it (`LetGo`).
- `RestartServesNobody`: `Spec => []RestartInert`, from `Inert`: a loop started
  after `exit_loop` finds `quit` set at its first test.
- `ExitCodeOrderly`: `Spec => []OrderlyExit`. It needs the invariant only for its
  types: the loop that wrote the failure is the witness, and it does not come
  back from where that led it (`LeftForGood`).
- `ManagerKept`: `Spec => []OrphanedByStop`. What a server does that nobody has
  disturbed is stronger than the property: one loop, whose listener is open and
  whose manager is there (`ServingUndisturbed`). To be undisturbed cannot be
  regained (`UndisturbedBefore`), so the invariant may speak of such states only.
- All stand on `Types`, which adds `Registered`: the entries are all `"null"`,
  so that `remove_session` finds nothing to take out.

**Broker** (for every number of callers and queries and all sizes of blocks:
`MiniFtpAssumption`)
- `BlocksAreFreed`: `Spec => []BlocksFreed`, from `Base`, the types and the
  numbers of the queries, and `Apart`: without overlap one call is under way, and
  `buffer` is the block it has allocated.
- `AnswersAlwaysMatch`, `HeapIsSafe`, `EventIsBalanced`: from `OwnWhenCalm`. As
  long as no calls overlap and no answer is late, everything the host has stored
  or owes, and the event, are for the one caller that asks (`Owed`), and what
  that one finds and frees is its own (`Fine`). Where there is no callback nothing
  is owed, and the event stays clear (`Quiet`). The contract, once broken, stays
  broken (`CalmBefore`).

**Vector** (for every first size of at least two, every bound, every set of
elements, with or without failing reallocs: `CVectorAssumption`)
- `TypeCorrect`, `PushStaysInside`, `NeverSparse`: the inductive invariant is
  `TypeOK /\ NotSparse /\ PushInside`. `NotSparse` is needed to prove itself: what
  a removal leaves depends on how full the block was before.
- `ResizesFarApart`: `Spec => ResizeLeavesRoom`, from the same invariant.
- `BlockImplementsVector`: `Spec => ImplementsVector`. Each operation of the block
  is that operation of the sequence. The invariant adds `Clear`: the slots behind
  the length are junk; for `insert_at` behind the end makes them elements. The
  lemmas `PushSeen`, `InsertSeen`, `StretchSeen`, `RemoveSeen` and `PopSeen` say what
  a shift of the slots is on the sequence, element by element.

**File commands** (for any number of sessions and entries and every drive that is
a tree when the server starts: `FileAssumption`; whichever names are hidden)
- The inductive invariant `Inv` says that the drive is a tree and the current
  directory in it (`Planted`), and what each session that nobody got in the way of
  knows: where it is (`InView`), what it named (`Intended`), what it made
  (`Announcing`), what it has listed (`Listing`, `Chosen`), and which searches are
  open (`Counted`).
- `SessionsActInView`: `Spec => []ActsInView`. The hard part is that the drive
  stays a tree when a directory is renamed with all below it: two paths do not
  become one (`CarriedApart`), each is carried with its parent (`CarriedParent`),
  and what is above a path of a tree is in it (`AboveIsThere`, by the shortest
  beginning that is).
- `MkdNamesWhatItMade`, `RntoRenamesWhatWasNamed`: `Spec => MkdNamed` and
  `Spec => RenamesWhatWasNamed`, from the same invariant.
- `ListingsAreFaithful`: `Spec => ListingFaithful`, from `Listing`; what it
  leaves out is at most what `opendir` dropped of a root, which is one name.

**Line reader** (for every size of the buffer of at least two, every set of letters
and every client: `LineAssumption`)
- `ReadingIsSafe`: `Spec => []Reading`. The inductive invariant says of every byte
  of the buffer where it stands in the stream (`Held`), of the bytes asked for that
  they were seen and have no line feed before the last (`Sought`), and that between
  commands the buffer is a whole piece (`Finished`).
- `ReaderImplementsStream`: `Spec => ImplementsStream`, from the same invariant.
  What `str_trim_crlf` and `str_split` return is the last byte that is kept and the
  first space (`KeptIs`, `ParseIs`), as `LineStream` defines them. That there
  is a last and a first is no induction over the line: `<` is well-founded
  (`Least`, `Greatest`).

**Configuration** (for every file of any length and every strdup that fails;
numbers begin with a digit and have at most nine characters, so that they fit an
int: `ConfigAssumption`)
- `SettingsComeFromFile`: `Spec => []SettingsMeanFile`. Each step adds its line to
  those that decide a key, or leaves them alone (`OneMore`, `NoMore`). That a
  conversion returns the number whose digits the value has (`NumberMeans`)
  is an induction over the digits: after k divisions what is left is the number of
  all but the last k. The induction theorems of the library cannot be used, for
  they take a predicate; but < is well-founded, so a set of numbers has a least one
  (`Least`), and no number is the first to be missing in a set (`Ladder`) nor the
  first length that a recursive function does not have (`Recursion`).
- `EveryBlockFreedOnce`: `Spec => []FreedOnce`. The inductive invariant adds
  `Owned` and `Kept`, that the block of the address is the one block not yet
  freed, and `Blocks`, that a block of `strdup` is new.

**Address conversion** (for all bytes and words, any texts to be read and whatever
a buffer holds: `InetAssumption`, which asks of a text only that no two numerals stand
next to each other)
- `TextsMeanAddresses`: `InetSpec => []TextMeansAddress`. The inductive invariant
  `TextInv` says what holds at each place; one lemma for each action
  (`PrintWord_Keeps`, ...) restores it, one for each part of the property
  (`RoundTripFollows`, ...) draws it from there.
- Printing: `Gap(a, h, t)` is what the two passes over `runpos` find: h words, the
  longest run of zeros, t words, or no zero at all (`GapIs`, by `RunsAre`,
  `PlacesAre` and `HighestPlace`). `Drawn` is the text up to a word, token by token;
  `DrawWord` and `DrawRun` are the two branches of the loop, and `DrawnForm` says
  that the whole drawing is a form of the address.
- Reading: `Finding` has two halves. `Sound`: the reader has seen the beginning of
  some form, so that an answer means a form (`SoundWord`, `SoundColon`, `SoundGap`,
  `SoundEnd`). `OnPath`: whatever form the text has, the reader is at a place of
  it, so that it refuses no form (`PathLeadsOn`) and its words are those written
  (`Written`). The count of colons behind the gap is a cardinality
  (`ColonsOfTail`).
- Bytes after words (`MixedMeans`): `inet_pton_v6` reads on from the only place
  where bytes can begin, at once or behind the first colon, for four numbers and
  their dots have none (`QuadHasNoColon`).
- Together: what is drawn is a form without dots, so the loop reads it
  (`NoDots`, `OwnForm`); what ends in four bytes goes the other way
  (`DottedRoundTrip`). That a numeral is read as the number it was printed from
  (`PrintedIs`, `NumberIs`) uses `Recursion` and `Ladder` as above.

**Window program** (for every set of faults, every length of the queue, every
finite folder and list of names: `ThreadAssumption`, `ClipboardAssumption`)
- `CopyingIsWork`: `DesktopSpec => Spec`. Each step of the program with its
  copying is a step of `MessageThread` or a stutter of it, so what is proved of
  the two threads holds whatever the shell answers.
- `SignalsAreServed`, `EventOutlives`: the inductive invariant is
  `TypeOK /\ Joins /\ Overlaps /\ SignalsServed`. `Joins` says that once `Stop` is
  over the thread has left its loop or had not started; it needs `bStarted` to
  be 1 exactly in the loop, which is part of `TypeOK`. `Overlaps` says that what
  is asked for during the work is recorded as too late.
- `HoldsNothing`: adds `Copies`: the copying is under way exactly while the thread
  works, and holds nothing when it begins and when it is done. The lemma `Goes`
  shows that each call leads to another, to an enumeration or to `exit_me`.
- `AnswerTellsWhatWasCopied`: `DesktopSpec => []SuccessMeansCopied`, for finite
  folders and lists of names. `Sifted` says that the entries chosen are distinct
  and wanted, `Staged` that all wanted ones of those read are among them, and
  that `S_OK` is returned from the last call only. For the overrun: more entries
  than names mean two entries with one name (`MoreThanNames`, by cardinalities).

**Only model-checked.**
- Liveness under fairness is outside the prover: `CommandEnds`, `StopCompletes`,
  `EndsWithClient`, `ProgramEnds`.
- The two runs of section 6, which are counterexamples.

## 6. Where documentation and code disagree

| Run | What is said | What the code does |
| --- | --- | --- |
| `doc_session_released` | `main.c:159` "waiting for private thread to quit" | the nobody thread stays in its receive for ever: the session is never freed |
| `doc_listen_address` | `ftpserver.conf:13` "listen_address=192.168.17.140" | `done` stays 0 after `inet_aton`, and the socket is bound to every interface |

`doc_session_released` is a temporal property and runs under `FairSpec`; the
other is safety, and its shortest trace takes the default of a file that cannot be
opened, which is in numbers too (`127.0.0.1`, `configure.c:15`); an address from the
file takes the same step (`BoundTo`). What follows was read off the code and the models, and has no
run of its own:

- `trans_data.c:501` says "port over pasv"; with both pending
  `get_trans_data_fd` opens no connection (`BothModesStick`).
- Resuming (the repository's README): a resumed download asks for blocks past the
  end of the file, since `nleft` is not reduced by the restart position.
- `netutils.c:263` promises "a printable representation of an ip address"; an
  address of words whose last ones are the run left out gets no terminator. In a
  buffer that was not cleared the text goes on, and is read as another address or
  as none: `RoundTrip` has to except it (`Ended`, `left`).
- `::ffff` followed by anything up to a colon, then four bytes, is read as a mapped
  address: the first colon behind the `::` is taken for the one behind `ffff`
  (`netutils.c:173`, `Dotted`).
- Uploading: the data is sent to the file descriptor as if it were a socket;
  the answer is 451 (`UploadEnd`).
- Limits on clients: the counts of clients are zero and never change.
- `session_manager.c` removes a session that leaves; its entries never match the
  session, so the vector only grows (`registry` of `Server`).

## 7. What is abstracted, and what is left out

- Memory is always available, except for `realloc` in `CVector`, `strdup` in
  `Config` and `malloc` in the broker as far as its blocks are named.
- In `FtpSession` the file system only decides whether a call succeeds, and the
  commands that only reply (`PWD`, `SIZE`, `STAT`, `TYPE`, `SITE` and the like)
  are one action. `FileCommands` has a file system of names, without contents.
- Addresses: blanks and signs, which `sscanf` lets pass before a number, and other
  letters, which are refused as no numeral is; among them the x, for which
  `inet_pton_v6` looks before anything else (`netutils.c:148`) because `sscanf`
  would take 0x for the beginning of a number.
- Settings: a number of more than nine characters, one after spaces or a sign, and
  what a conversion that overflows returns.
- The size of a file is any number of blocks; a block is not looked into.
- `readn`, `writen` and `recv_peek` retry for ever on `WSAECONNABORTED`: an action
  of `LineReader`. In `FtpSession` a call succeeds or fails.
- `exit_with_message`, which sets the exit code back to success, is called when the
  nobody thread finds its private socket closed by the peer (`priv_sock.c:120`).
  No thread closes one under the other, which is why `SessionReleased` fails.
- The host may not change its callback or `SetAsyncMode` while the server runs, and
  the queries of the broker get their memory.
- The host's answer is taken to have the length asked for (`OnReceivedData`
  compares it with `blocksize`); the offset of a download, which overlapping
  calls overwrite as they do `rfs`, is part of the query.
- `WaitForMultipleObjects` on handles that were never stored is taken to fail
  at once.
- `session->handle` is written after the session thread was started. The step
  exists (`StoreHandle`) and the session may have been freed by then; what the
  write hits is not modelled.
- `memcpy` of overlapping memory in `cvector_rm` moves the elements, as it does
  in the C runtime of the build. What an insertion writes past its block is
  remembered, not what it hits.
- `CWD /` leaves an empty name and writes its terminator one byte before the
  buffer, and `str_trim_crlf` looks below the buffer of an empty line. The models
  have the outcome (`Stripped`, `Kept`), not the byte that is hit. `/name/` is
  taken for a relative name, as the code takes it.
- `receiver_buffer` of `upload_file` is shared by all sessions. It has no effect
  to model: no byte of it reaches a file.
- `rnfr_name` is not freed with the session, and the item lists and strings of
  the shell are not all freed in the clipboard: leaks without a later effect.
- `FtpPutIntoClipboard`, `EncodePath`, `DecodePath` of `CMiniFtp` and
  `download_file` of `trans_data.c` have no caller.
- The text of a listing's lines, the texts of replies, drawing and dialogs.
- The POSIX branch (`fork`, signals, rates and alarms of `trans_ctrl.c`, `setuid`,
  file locks) is not the build modelled here. `hash.c` and `ftp_assist.c` are not
  compiled into it; they count clients for `main-org.c`, which is in no build
  file and calls `add_pid_ip_to_hash`, which nothing defines.
  `CPSample-bake.cpp` is an older copy of `CPSample.cpp` that is not compiled.
- The test programs print, and assert nothing.

## 8. Plan

Done: the session with its socket pair, its refinement and its theorems; the
server; the broker; the vector and its refinement; file commands of several
sessions; the line reader and its refinement; configuration; address conversion;
the window program with its message thread. Every invariant and every safety
property of the runs of section 3 has its theorem.

What would come next
1. `Vector` and `LineStream`: what a user of the abstract specification relies on,
   as `AnswersStayTrue` does for `PrivRpc`.
2. The replies of the commands that only reply, as values, when one of them comes to
   depend on state.
