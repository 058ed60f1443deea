------------------------------ MODULE LineStream ------------------------------
(***************************************************************************)
(* What handle_proto is meant to see of a control connection: the bytes    *)
(* that have arrived are cut, from the front, into pieces that end with    *)
(* the first line feed or are Room bytes long, and each piece becomes one  *)
(* command.  Nothing is said of how the bytes arrived.                     *)
(***************************************************************************)
EXTENDS Naturals, Sequences, SequencesExt

CONSTANTS
    Letters,    \* the bytes that are none of the following
    Upper(_),   \* toupper
    Room        \* the bytes a line may have, its line feed included

Bytes == Letters \cup {"space", "cr", "lf"}

VARIABLES
    wire,       \* all that has arrived
    cut,        \* the length of what has become commands
    last        \* the last command

Nothing == [verb |-> << >>, args |-> << >>]

-----------------------------------------------------------------------------
IsPiece(p) ==
    /\ p # << >> /\ Len(p) <= Room
    /\ \A i \in 1 .. Len(p) - 1 : p[i] # "lf"
    /\ Last(p) = "lf" \/ Len(p) = Room

UpperCase(s) == [i \in DOMAIN s |-> Upper(s[i])]

\* The text of a piece is what comes before the carriage returns and line feeds
\* at its end; the verb is what comes before the first space of the text.
StandsFor(c, p) ==
    \E n \in 0 .. Len(p) :
      LET text == SubSeq(p, 1, n) IN
      /\ \A i \in n + 1 .. Len(p) : p[i] \in {"cr", "lf"}
      /\ n = 0 \/ p[n] \notin {"cr", "lf"}
      /\ "space" \notin {c.verb[i] : i \in DOMAIN c.verb}
      /\ \/ c.verb = UpperCase(text) /\ c.args = << >>
         \/ /\ Len(c.verb) < Len(text)
            /\ c.verb = UpperCase(SubSeq(text, 1, Len(c.verb)))
            /\ text = SubSeq(text, 1, Len(c.verb)) \o <<"space">> \o c.args

-----------------------------------------------------------------------------
Init == wire = << >> /\ cut = 0 /\ last = Nothing

Arrive == /\ \E b \in Bytes : wire' = Append(wire, b)
          /\ UNCHANGED <<cut, last>>

Command ==
    /\ \E n \in cut + 1 .. Len(wire) :
         /\ IsPiece(SubSeq(wire, cut + 1, n)) /\ cut' = n
         /\ StandsFor(last', SubSeq(wire, cut + 1, n))
    /\ UNCHANGED wire

Next == Arrive \/ Command

Spec == Init /\ [][Next]_<<wire, cut, last>>
=============================================================================
