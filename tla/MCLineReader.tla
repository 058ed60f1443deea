----------------------------- MODULE MCLineReader -----------------------------
EXTENDS LineReader

\* One letter in both cases; "A" is the verb that ends the session.
TwoCases == {"a", "A"}
ToUpper(c) == IF c = "a" THEN "A" ELSE c
Quit == <<"A">>
=============================================================================
