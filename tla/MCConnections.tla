--------------------------- MODULE MCConnections ---------------------------
EXTENDS Connections

CONSTANTS f1, m1, c1, c2, metrics

MCForms == {f1}
MCMailers == {m1}
MCChats == {c1, c2}
MCSameRow == {f1, m1}
=============================================================================
