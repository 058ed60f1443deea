---------------------------- MODULE MCFileCommands ----------------------------
EXTENDS FileCommands, TLC

CONSTANTS s1, s2, a, b, h

Two == {s1, s2}
AB == {a, b}
ABH == {a, b, h}
Dots == {h}

SessionSymmetry == Permutations(Two)

\* A directory with two names in it and one that begins with ".", which no client
\* gives, or nothing at all.
FivePaths == {<< >>, <<a>>, <<a, a>>, <<a, b>>, <<a, h>>}
Full == [dirs |-> {<< >>, <<a>>}, files |-> {<<a, a>>, <<a, b>>, <<a, h>>}]
Empty == [dirs |-> {<< >>}, files |-> {}]
Both == {Full, Empty}
=============================================================================
