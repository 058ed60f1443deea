-------------------------------- MODULE Config --------------------------------
(***************************************************************************)
(* The life of the configuration in one run of the console program:        *)
(* load_config reads the file line by line into the tunables, whose        *)
(* defaults are configure.c; the loop thread binds its socket to           *)
(* tunable_listen_address and tunable_listen_port (tcp_server); and        *)
(* free_config gives the text of the address back.  The address is a       *)
(* string literal until a line replaces it by a block of strdup.           *)
(***************************************************************************)
EXTENDS Integers, SequencesExt, Numerals

CONSTANTS
    Lines,      \* the lines a file is made of: [key, value], both names
    MaxLines,   \* bound: the lines of a file
    Digits(_),  \* the characters of a value, those that are no digit as 10
    Numeric,    \* the values inet_pton takes for an address
    Resolved,   \* the values gethostbyname has an address for
    NONE

bool_array == {"pasv_enable", "port_enable"}
uint_array == {"listen_port", "max_clients", "max_per_ip", "accept_timeout",
               "connect_timeout", "idle_session_timeout", "data_connection_timeout",
               "local_umask", "upload_max_rate", "download_max_rate"}
str_array == {"listen_address"}

\* Longer numbers need not fit an int.
MaxDigits == 9

\* atoi also takes spaces and a sign before the first digit; no number here has them.
IsNumber(d) == d \in Seq(0..10) /\ Len(d) \in 1..MaxDigits /\ d[1] # 10

ASSUME ConfigAssumption ==
    /\ MaxLines \in Nat /\ Numeric \cap Resolved = {}
    /\ NONE \notin Numeric \cup {"127.0.0.1"} \cup {l.value : l \in Lines}
    /\ \A l \in Lines : l.key \in uint_array /\ l.value # "" => IsNumber(Digits(l.value))

VARIABLES
    at,     \* where the main thread is
    file,   \* the lines of ftpserver.conf
    next,   \* the next line
    tunable_bool, tunable_uint,
    tunable_listen_address,     \* its text, and the block it is in
    strdups,    \* the blocks of strdup, named by their lines
    freed,      \* the blocks given to free, in order
    bound       \* what the loop thread listens on

vars == <<at, file, next, tunable_bool, tunable_uint, tunable_listen_address,
          strdups, freed, bound>>

default == [listen_port |-> 8989, max_clients |-> 2000, max_per_ip |-> 50,
            accept_timeout |-> 60, connect_timeout |-> 60, idle_session_timeout |-> 500,
            data_connection_timeout |-> 900, local_umask |-> 63,
            upload_max_rate |-> 0, download_max_rate |-> 0]
literal == [text |-> "127.0.0.1", block |-> 0]
any == "INADDR_ANY"

Init ==
    /\ at = "start" /\ next = 1
    /\ file \in UNION {[1..n -> Lines] : n \in 0..MaxLines}
    /\ tunable_bool = [k \in bool_array |-> 1] /\ tunable_uint = default
    /\ tunable_listen_address = literal
    /\ strdups = {} /\ freed = << >> /\ bound = [address |-> NONE, port |-> 0]

-----------------------------------------------------------------------------
(* load_config *)

\* The digits a conversion takes, up to the first that is none of the base.
Leading(d, base) ==
    LET stop == SelectInSeq(d, LAMBDA c : c >= base)
    IN IF stop = 0 THEN d ELSE SubSeq(d, 1, stop - 1)

str_octal_to_uint(d) == Number(Leading(d, 8), 8)
atoi(d) == Number(Leading(d, 10), 10)

ToUint_Decimal(value) == atoi(Digits(value))
ToUint(value) ==
    IF Digits(value)[1] = 0 THEN str_octal_to_uint(Digits(value)) ELSE atoi(Digits(value))

yes == {"YES", "TRUE", "1"}
no == {"NO", "FALSE", "0"}

line == file[next]
Read == at = "loading" /\ next <= Len(file) /\ next' = next + 1

\* Without the file everything keeps its default.
OpenFile ==
    /\ at = "start" /\ at' \in {"loading", "loaded"}
    /\ UNCHANGED <<file, next, tunable_bool, tunable_uint, tunable_listen_address,
                   strdups, freed, bound>>

\* A comment, a line without a value, a key that is not known, and a bool that is
\* neither yes nor no leave everything as it is.
Ignored(l) ==
    \/ l.key \notin bool_array \cup uint_array \cup str_array
    \/ l.value = ""
    \/ l.key \in bool_array /\ l.value \notin yes \cup no

LoadNothing ==
    /\ Read /\ Ignored(line)
    /\ UNCHANGED <<at, file, tunable_bool, tunable_uint, tunable_listen_address,
                   strdups, freed, bound>>

LoadBool ==
    /\ Read /\ line.key \in bool_array /\ ~Ignored(line)
    /\ tunable_bool' = [tunable_bool EXCEPT ![line.key] = IF line.value \in yes THEN 1 ELSE 0]
    /\ UNCHANGED <<at, file, tunable_uint, tunable_listen_address, strdups, freed, bound>>

LoadUint ==
    /\ Read /\ line.key \in uint_array /\ ~Ignored(line)
    /\ tunable_uint' = [tunable_uint EXCEPT ![line.key] = ToUint(line.value)]
    /\ UNCHANGED <<at, file, tunable_bool, tunable_listen_address, strdups, freed, bound>>

\* free of what strdup did not give is undefined: the C library stops the program,
\* or it goes on.
Live == strdups \ Range(freed)

Free(addr, onward) ==
    IF addr.text = NONE THEN freed' = freed /\ at' = onward
    ELSE /\ freed' = Append(freed, addr.block)
         /\ at' \in {onward} \cup IF addr.block \in Live THEN {} ELSE {"stopped"}

Strdup == [text |-> line.value, block |-> next]

LoadStr ==
    /\ Read /\ line.key \in str_array /\ ~Ignored(line)
    /\ Free(tunable_listen_address, at)
    /\ \/ tunable_listen_address' = Strdup /\ strdups' = strdups \cup {Strdup.block}
       \/ tunable_listen_address' = [text |-> NONE, block |-> 0] /\ UNCHANGED strdups
    /\ UNCHANGED <<file, tunable_bool, tunable_uint, bound>>

Loaded ==
    /\ at = "loading" /\ next > Len(file) /\ at' = "loaded"
    /\ UNCHANGED <<file, next, tunable_bool, tunable_uint, tunable_listen_address,
                   strdups, freed, bound>>

-----------------------------------------------------------------------------
(* The server *)

\* The address of the socket: done stays 0 when inet_aton succeeds.
BoundTo(host) == IF host \in Resolved THEN host ELSE any

\* loop_thread opens its listener; that may fail, as may what comes before it.
tcp_server ==
    /\ at = "loaded" /\ at' = "running"
    /\ \/ bound' = [address |-> BoundTo(tunable_listen_address.text),
                    port |-> tunable_uint["listen_port"] % 65536]
       \/ UNCHANGED bound
    /\ UNCHANGED <<file, next, tunable_bool, tunable_uint, tunable_listen_address,
                   strdups, freed>>

\* miniftp_start, once the loop thread has ended.
FreedAtEnd_Nothing == [tunable_listen_address EXCEPT !.text = NONE]
FreedAtEnd == tunable_listen_address

free_config ==
    /\ at = "running" /\ Free(FreedAtEnd, "ended")
    /\ UNCHANGED <<file, next, tunable_bool, tunable_uint, tunable_listen_address,
                   strdups, bound>>

Next ==
    \/ OpenFile \/ LoadNothing \/ LoadBool \/ LoadUint \/ LoadStr \/ Loaded
    \/ tcp_server \/ free_config

Spec == Init /\ [][Next]_vars

-----------------------------------------------------------------------------
(* Properties *)

TypeOK ==
    /\ at \in {"start", "loading", "loaded", "running", "ended", "stopped"}
    /\ next \in 1 .. Len(file) + 1
    /\ tunable_bool \in [bool_array -> {0, 1}] /\ tunable_uint \in [uint_array -> Nat]
    /\ tunable_listen_address.block \in strdups \cup {0}
    /\ strdups \subseteq 1..MaxLines /\ bound.port \in Nat /\ bound.port < 65536

\* The last line of the file that gives a key a value decides it, the lines after
\* it that are ignored and those for other keys notwithstanding; a key of no such
\* line has its default (load_config, configure.c).
LinesFor(key) == {i \in 1 .. next - 1 : file[i].key = key /\ ~Ignored(file[i])}
Decides(key, i) == i \in LinesFor(key) /\ \A j \in LinesFor(key) : j <= i

\* The number a value stands for: printed in the base that a leading zero tells,
\* by dividing until nothing is left, it has the digits of the value.
Means(number, value) ==
    LET d    == Digits(value)
        base == IF d[1] = 0 THEN 8 ELSE 10
        rest[i \in 0 .. Len(d)] == IF i = 0 THEN number ELSE rest[i - 1] \div base
    IN \E n \in 0 .. Len(d) :
         /\ n < Len(d) => d[n + 1] >= base
         /\ \A i \in 1..n : d[i] < base /\ rest[n - i] % base = d[i]
         /\ rest[n] = 0

SettingsMeanFile ==
    /\ TypeOK
    /\ \A key \in uint_array :
         \/ LinesFor(key) = {} /\ tunable_uint[key] = default[key]
         \/ \E i \in LinesFor(key) : Decides(key, i) /\ Means(tunable_uint[key], file[i].value)
    /\ \A key \in bool_array :
         \/ LinesFor(key) = {} /\ tunable_bool[key] = 1
         \/ \E i \in LinesFor(key) :
              Decides(key, i) /\ (tunable_bool[key] = 1 <=> file[i].value \in yes)
    /\ \/ LinesFor("listen_address") = {} /\ tunable_listen_address = literal
       \/ \E i \in LinesFor("listen_address") :
            /\ Decides("listen_address", i)
            /\ tunable_listen_address.text \in {file[i].value, NONE}

\* A block of strdup is freed at most once, and by the end of a run every one was
\* (main asks the C library to report leaks); the one thing freed that was not
\* allocated is the literal, once, in every run that gets so far.
FreedOnce ==
    /\ IsInjective(freed)
    /\ at = "ended" => strdups \subseteq Range(freed)
    /\ Range(freed) \subseteq strdups \cup {literal.block}

\* The server listens on the address the file gives it, as in
\* "listen_address=192.168.17.140" (ftpserver.conf:13).
ListensAsConfigured ==
    bound.address # NONE /\ tunable_listen_address.text \in Numeric =>
      bound.address = tunable_listen_address.text
=============================================================================
