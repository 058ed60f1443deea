------------------------------- MODULE InetText -------------------------------
(***************************************************************************)
(* netutils.c: IP addresses as text.  An address is its four bytes or its  *)
(* eight words in the order of the network.  A text is what strtol and     *)
(* sscanf make of its characters: numerals, which are taken whole, colons  *)
(* and dots.  An address is printed and read back, or any text is read;    *)
(* inet_pton answers with an address, or with none (the code's 0).  The    *)
(* two loops that walk a text of eight words are steps.                    *)
(***************************************************************************)
EXTENDS Integers, Sequences, FiniteSets, Numerals

CONSTANTS
    Bytes, Words,   \* what the addresses tried are made of
    Texts(_),       \* for each family, texts to be read that may be no address
    Buffers         \* what follows in the caller's buffer where a text has no end

MaxWord == 65535

Colon == <<16>>
Dot == <<17>>
Numeral == Seq(0..15) \ {<< >>}
IsText(s) ==
    /\ s \in Seq(Numeral \cup {Colon, Dot})
    /\ \A i \in 1 .. Len(s) - 1 : s[i] \notin Numeral \/ s[i + 1] \notin Numeral

ASSUME InetAssumption ==
    /\ Bytes \subseteq 0..255 /\ Words \subseteq 0..MaxWord
    /\ \A s \in Texts("AF_INET") \cup Texts("AF_INET6") \cup Buffers : IsText(s)

VARIABLES
    step, family,
    address,        \* what is printed, or none
    left,           \* what the buffer held before
    runpos, max,    \* the run of zeros that is left out, its length
    text,
    cursor,         \* the word at which a loop is
    readcursor,     \* the tokens the reader has taken
    word,           \* the words it has found
    seencompressed,
    back            \* what it answers

inetVars == <<step, family, address, left, runpos, max, text,
              cursor, readcursor, word, seencompressed, back>>

none == << >>

-----------------------------------------------------------------------------
(* Dotted addresses *)

inet_ntop_v4(a) ==
    <<Printed(a[0], 10), Dot, Printed(a[1], 10), Dot, Printed(a[2], 10), Dot, Printed(a[3], 10)>>

\* A number in decimal, then a dot or the end: the last number may have its dot too.
Fits(v) == v <= 255
Taken(s, k) ==
    /\ s[2 * k + 1] \in Seq(0..9) /\ Fits(Number(s[2 * k + 1], 10))
    /\ 2 * k + 2 <= Len(s) => s[2 * k + 2] = Dot

inet_pton_v4(s) ==
    IF Len(s) \in {7, 8} /\ \A k \in 0..3 : Taken(s, k)
    THEN [k \in 0..3 |-> Number(s[2 * k + 1], 10)]
    ELSE none

-----------------------------------------------------------------------------
(* Printing eight words *)

\* The place of each word in its run of zeros, from 1, or -1.
Place(a, i, before) ==
    IF a[i] # 0 THEN -1 ELSE IF before = -1 THEN 1 ELSE before + 1

Runs(a) ==
    LET place[i \in 0..7] == Place(a, i, IF i = 0 THEN -1 ELSE place[i - 1]) IN place

Longest(runs) ==
    LET m == CHOOSE i \in 0..7 : \A j \in 0..7 : runs[j] <= runs[i]
    IN IF runs[m] = -1 THEN 0 ELSE runs[m]

\* Where the first of the longest runs ends.
maxpos(runs) ==
    LET most == Longest(runs)
    IN IF most = 0 THEN -1
       ELSE CHOOSE i \in 0..7 : runs[i] = most /\ \A j \in 0 .. i - 1 : runs[j] < most

\* Only the longest run stays marked.
Marked(runs) ==
    LET last == maxpos(runs)
    IN [i \in 0..7 |-> IF i <= last /\ \A j \in i..last : runs[j] # -1 THEN runs[i] ELSE -1]

LowQuad(a) == [i \in 0..3 |-> LET w == a[6 + i \div 2] IN IF i % 2 = 0 THEN w \div 256 ELSE w % 256]

\* The zeros begin the address, and end before its last two words.
Compatible(a) == Marked(Runs(a))[0] = 1 /\ maxpos(Runs(a)) = 5
Mapped(a) == Marked(Runs(a))[0] = 1 /\ maxpos(Runs(a)) = 4 /\ a[5] = MaxWord

ffff == <<15, 15, 15, 15>>

ReaderIdle == UNCHANGED <<family, address, left, readcursor, word, seencompressed, back>>

inet_ntop ==
    /\ step = "address" /\ UNCHANGED cursor /\ ReaderIdle
    /\ \/ /\ family = "AF_INET" /\ step' = "text" /\ text' = inet_ntop_v4(address)
          /\ UNCHANGED <<runpos, max>>
       \/ /\ family = "AF_INET6"
          /\ runpos' = Marked(Runs(address)) /\ max' = Longest(Runs(address))
          /\ \/ /\ Compatible(address) /\ step' = "text"
                /\ text' = <<Colon, Colon>> \o inet_ntop_v4(LowQuad(address))
             \/ /\ Mapped(address) /\ step' = "text"
                /\ text' = <<Colon, Colon, ffff, Colon>> \o inet_ntop_v4(LowQuad(address))
             \/ ~Compatible(address) /\ ~Mapped(address) /\ step' = "printing" /\ UNCHANGED text

Printing == step = "printing" /\ ReaderIdle /\ UNCHANGED <<runpos, max>>

PrintWord ==
    /\ Printing /\ cursor < 8 /\ runpos[cursor] = -1
    /\ text' = text \o <<Printed(address[cursor], 16)>>
                 \o (IF cursor # 7 /\ runpos[cursor + 1] # 1 THEN <<Colon>> ELSE << >>)
    /\ cursor' = cursor + 1 /\ UNCHANGED step

PrintRun ==
    /\ Printing /\ cursor < 8 /\ runpos[cursor] = 1
    /\ text' = text \o <<Colon, Colon>> /\ cursor' = cursor + max /\ UNCHANGED step

\* _snprintf ends the text after each word.  The two colons are written over that
\* end: when they are the last the text goes on with what the buffer holds.
Ended == runpos[7] = -1

Printed_v6 ==
    /\ Printing /\ cursor = 8 /\ step' = "text" /\ UNCHANGED cursor
    /\ text' = IF Ended THEN text ELSE text \o left

-----------------------------------------------------------------------------
(* Reading eight words *)

From(s, i) == SubSeq(s, i, Len(s))
Has(s, token) == \E i \in DOMAIN s : s[i] = token

\* An address that begins with two colons and has a dot: compatible, or mapped.
Low(q, high) ==
    IF q = none THEN none
    ELSE [i \in 0..7 |-> IF i < 5 THEN 0 ELSE IF i = 5 THEN high
                         ELSE 256 * q[2 * (i - 6)] + q[2 * (i - 6) + 1]]

Dotted(s) ==
    LET colon == CHOOSE i \in DOMAIN s : s[i] = Colon /\ \A j \in 1 .. i - 1 : s[j] # Colon
    IN IF ~Has(s, Colon) THEN Low(inet_pton_v4(s), 0)
       ELSE IF s[1] = ffff THEN Low(inet_pton_v4(From(s, colon + 1)), MaxWord)
       ELSE none

WithDots(s) == Len(s) > 2 /\ s[1] = Colon /\ s[2] = Colon /\ Has(From(s, 3), Dot)

PrinterIdle == UNCHANGED <<family, address, left, runpos, max, text>>

Answer(a) ==
    /\ step' = "read" /\ back' = a
    /\ UNCHANGED <<cursor, readcursor, word, seencompressed>>

inet_pton ==
    /\ step = "text" /\ PrinterIdle
    /\ \/ family = "AF_INET" /\ Answer(inet_pton_v4(text))
       \/ family = "AF_INET6" /\ WithDots(text) /\ Answer(Dotted(From(text, 3)))
       \/ /\ family = "AF_INET6" /\ ~WithDots(text)
          /\ step' = "reading" /\ cursor' = 0 /\ UNCHANGED <<readcursor, word, seencompressed, back>>

More == step = "reading" /\ readcursor < Len(text) /\ cursor < 8 /\ PrinterIdle

token == text[readcursor + 1]
NextIs(t) == readcursor + 2 <= Len(text) /\ text[readcursor + 2] = t

\* sscanf takes four digits at most; what follows must be a colon.
IsWord(t) == t \in Numeral /\ Len(t) <= 4

ReadWord ==
    /\ More /\ IsWord(token) /\ (readcursor + 1 = Len(text) \/ NextIs(Colon))
    /\ word' = [word EXCEPT ![cursor] = Number(token, 16)]
    /\ cursor' = cursor + 1 /\ readcursor' = readcursor + 1
    /\ UNCHANGED <<step, seencompressed, back>>

SkipColon ==
    /\ More /\ token = Colon /\ ~NextIs(Colon)
    /\ readcursor' = readcursor + 1 /\ UNCHANGED <<step, cursor, word, seencompressed, back>>

\* Between two colons: the colons that follow tell how many words are left.
Following == {i \in readcursor + 3 .. Len(text) : text[i] = Colon}
coloncount == Cardinality(Following)

Again_Never(seen) == FALSE
Again(seen) == seen

Skip ==
    /\ More /\ token = Colon /\ NextIs(Colon) /\ ~Again(seencompressed)
    /\ readcursor' = readcursor + 2 /\ UNCHANGED <<step, word, back>>
    /\ \/ readcursor + 2 = Len(text) /\ cursor' = 8 /\ UNCHANGED seencompressed
       \/ /\ readcursor + 2 < Len(text) /\ coloncount + 1 <= 8 - cursor
          /\ cursor' = 8 - (coloncount + 1) /\ seencompressed' = TRUE

Refuse ==
    /\ More /\ Answer(none)
    /\ \/ token # Colon /\ ~(IsWord(token) /\ (readcursor + 1 = Len(text) \/ NextIs(Colon)))
       \/ token = Colon /\ NextIs(Colon) /\ Again(seencompressed)
       \/ /\ token = Colon /\ NextIs(Colon) /\ readcursor + 2 < Len(text)
          /\ coloncount + 1 > 8 - cursor

Read_v6 ==
    /\ step = "reading" /\ (readcursor = Len(text) \/ cursor = 8) /\ PrinterIdle
    /\ Answer(IF readcursor = Len(text) /\ cursor = 8 THEN word ELSE none)

-----------------------------------------------------------------------------
\* The call is turned away before it looks at the address or the text: a pointer is
\* null, the family is another one, or the buffer is shorter than INET_ADDRSTRLEN or
\* INET6_ADDRSTRLEN.  Nothing is written.
TurnedAway ==
    /\ step \in {"address", "text"} /\ step' = "refused"
    /\ UNCHANGED <<cursor, text, runpos, max>> /\ ReaderIdle

InetInit ==
    /\ family \in {"AF_INET", "AF_INET6"} /\ back = none
    /\ runpos = [i \in 0..7 |-> -1] /\ max = 0
    /\ cursor = 0 /\ readcursor = 0 /\ word = [i \in 0..7 |-> 0] /\ seencompressed = FALSE
    /\ \/ /\ step = "address" /\ text = << >> /\ left \in Buffers
          /\ address \in IF family = "AF_INET" THEN [0..3 -> Bytes] ELSE [0..7 -> Words]
       \/ step = "text" /\ address = none /\ left = << >> /\ text \in Texts(family)

InetNext ==
    \/ inet_ntop \/ PrintWord \/ PrintRun \/ Printed_v6
    \/ inet_pton \/ ReadWord \/ SkipColon \/ Skip \/ Refuse \/ Read_v6
    \/ TurnedAway

InetSpec == InetInit /\ [][InetNext]_inetVars

-----------------------------------------------------------------------------
(* Properties *)

\* What an answer means is said by the ways to write an address.  Four numbers of
\* a byte in decimal, and dots: one more may end the text.
ByteText(t) == t \in Seq(0..9) \ {<< >>} /\ Number(t, 10) <= 255

IsQuad(s, n) ==
    /\ s \in {<<n[0], Dot, n[1], Dot, n[2], Dot, n[3]>>,
              <<n[0], Dot, n[1], Dot, n[2], Dot, n[3], Dot>>}
    /\ \A k \in 0..3 : ByteText(n[k])

\* Words in hex and colons between them: head words, two colons that stand for
\* zeros, tail words; or, without a gap, the eight words.
Forms == [lead : 0..1, head : 0..8, tail : 0..8, gap : BOOLEAN]

Tokens(n) == IF n = 0 THEN 0 ELSE 2 * n - 1

Listed(s, p, n) ==
    \A k \in 0 .. n - 1 : IsWord(s[p + 2 * k + 1]) /\ (k > 0 => s[p + 2 * k] = Colon)

Behind(f) == f.lead + Tokens(f.head) + (IF f.gap THEN 2 ELSE 0)

\* A colon may come first, before a word; a gap may leave nothing out, but not after
\* the eighth word.
HasForm(s, f) ==
    /\ Len(s) = Behind(f) + Tokens(f.tail)
    /\ IF f.gap THEN f.head + f.tail <= 8 /\ f.head < 8 ELSE f.head = 8 /\ f.tail = 0
    /\ f.lead = 1 => s[1] = Colon /\ f.head > 0
    /\ Listed(s, f.lead, f.head) /\ Listed(s, Behind(f), f.tail)
    /\ f.gap => s[Behind(f) - 1] = Colon /\ s[Behind(f)] = Colon

Written(s, f) ==
    [i \in 0..7 |-> IF i < f.head THEN Number(s[f.lead + 2 * i + 1], 16)
                    ELSE IF i < 8 - f.tail THEN 0
                    ELSE Number(s[Behind(f) + 2 * (i - (8 - f.tail)) + 1], 16)]

\* Every answer is as wide as its family.
InetTypeOK ==
    /\ step \in {"address", "printing", "text", "reading", "read", "refused"}
    /\ cursor \in 0..8 /\ readcursor \in 0 .. Len(text)
    /\ word \in [0..7 -> 0..MaxWord]
    /\ back # none => back \in IF family = "AF_INET" THEN [0..3 -> 0..255] ELSE [0..7 -> 0..MaxWord]

\* A dotted text is read exactly when it is four numbers of a byte, as these.
QuadsRead ==
    step = "read" /\ family = "AF_INET" =>
      LET numbers == [0..3 -> {text[i] : i \in DOMAIN text} \ {Dot}] IN
      /\ back # none => \E n \in numbers : IsQuad(text, n)
      /\ \A n \in numbers : IsQuad(text, n) => back = [k \in 0..3 |-> Number(n[k], 10)]

\* Behind two colons a text of eight words may have dotted bytes, from token p on:
\* at once, or behind ffff and the first colon, whatever lies between the two.
MixedForm(s, p, n, high) ==
    /\ IsQuad(From(s, p), n) /\ \A i \in 3 .. p - 2 : s[i] # Colon
    /\ \/ p = 3 /\ high = 0
       \/ p > 4 /\ s[3] = ffff /\ s[p - 1] = Colon /\ high = MaxWord

\* Two colons and a dot: the text is read exactly when its rest is of that form.
MixedRead ==
    step = "read" /\ family = "AF_INET6" /\ WithDots(text) =>
      LET numbers == [0..3 -> {text[i] : i \in DOMAIN text} \ {Dot}] IN
      /\ back # none => \E p \in DOMAIN text, n \in numbers, high \in {0, MaxWord} :
                          MixedForm(text, p, n, high)
      /\ \A p \in DOMAIN text, n \in numbers, high \in {0, MaxWord} :
           MixedForm(text, p, n, high) => back = Low([k \in 0..3 |-> Number(n[k], 10)], high)

\* A text of words is read exactly when it has one of the forms, as the address that
\* it writes down.
WordsRead ==
    step = "read" /\ family = "AF_INET6" /\ ~WithDots(text) =>
      /\ back # none => \E f \in Forms : HasForm(text, f)
      /\ \A f \in Forms : HasForm(text, f) => back = Written(text, f)

\* Where eight words are printed a longest run of zeros is left out, and nothing
\* else: no other form of the address is shorter.
Own == IF Ended THEN text ELSE SubSeq(text, 1, Len(text) - Len(left))

LongestRunLeftOut ==
    step = "text" /\ address # none /\ family = "AF_INET6" /\ ~Compatible(address) /\ ~Mapped(address) =>
      \E f \in Forms :
        /\ HasForm(Own, f) /\ f.lead = 0 /\ Written(Own, f) = address
        /\ \A i, j \in 0..7 : i <= j /\ (\A k \in i..j : address[k] = 0) =>
             j - i + 1 <= 8 - (f.head + f.tail)

\* What inet_ntop prints inet_pton reads as the same address, if the text has an end.
RoundTrip ==
    step = "read" /\ address # none /\ (family = "AF_INET" \/ Ended \/ left = << >>) =>
      back = address

\* Texts and addresses correspond (netutils.c).  What is printed is read as the same
\* address, but where its text has no end; it is printed in the shortest form; a
\* text is read exactly when it is written in one of the forms, as that address.
TextMeansAddress ==
    /\ InetTypeOK /\ RoundTrip /\ LongestRunLeftOut
    /\ QuadsRead /\ MixedRead /\ WordsRead
=============================================================================
