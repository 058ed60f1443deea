------------------------------ MODULE MCInetText ------------------------------
(***************************************************************************)
(* InetText with every address made of the words 0, 1 and ffff, with texts *)
(* joined of a few pieces, some of them empty, too large or no number, and *)
(* with a buffer that holds nothing, digits or the end of an address.      *)
(***************************************************************************)
EXTENDS InetText

CONSTANTS MaxQuads, MaxWords, MaxNumerals

RECURSIVE Joined(_, _)
Joined(f, separator) ==
    IF Len(f) = 0 THEN << >>
    ELSE IF Len(f) = 1 THEN f[1]
    ELSE f[1] \o <<separator>> \o Joined(Tail(f), separator)

Pieces(n, piece, separator) ==
    UNION {{Joined(f, separator) : f \in [1..k -> piece]} : k \in 1..n}

Numerals(S) == {<<d>> : d \in S} \cup {<< >>}

Beginnings == {<< >>, <<ffff, Colon>>, <<ffff, Dot>>, <<ffff, Dot, Colon>>, << <<9>>, Colon >>}

MCTexts(af) ==
    IF af = "AF_INET"
    THEN Pieces(MaxQuads, Numerals({<<0, 7>>, <<2, 5, 5>>, <<2, 5, 6>>, <<10>>}), Dot)
    ELSE Pieces(MaxWords, Numerals({<<1>>}), Colon)
           \cup Pieces(MaxNumerals, Numerals({<<0>>, <<0, 0, 0, 15>>, <<0, 0, 0, 0, 1>>}), Colon)
           \cup {<<Colon, Colon>> \o p \o q : p \in Beginnings,
                                              q \in Pieces(4, Numerals({<<9>>, <<15>>}), Dot)}

MCBuffers == {<< >>, << <<1>> >>, << <<2>>, Colon, <<3>> >>, <<Dot>>}
=============================================================================
