---------------------------- MODULE MCFSTransfer ----------------------------
EXTENDS FSTransfer
\* nothing, as much of another file, and more of one
OtherFiles == {<<Other>>, <<Other, Other, Other, Other>>}

\* the file begins with zeros, or not
StartTold == {{1, 3}, {3}}
=============================================================================
