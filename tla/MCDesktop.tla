------------------------------- MODULE MCDesktop -------------------------------
EXTENDS Desktop

CONSTANTS readme, readme_bak, picture, x, y

ThreeEntries == {readme, readme_bak, picture}
TwoNames == {x, y}

\* x is part of the name of a file and of its copy, y of that copy.
Parts == {<<readme, x>>, <<readme_bak, x>>, <<readme_bak, y>>}
=============================================================================
