------------------------------- MODULE MCPipe -------------------------------
EXTENDS Pipe

CONSTANTS w1, r1, r2, A, B

OneWriter == {w1}
TwoReaders == {r1, r2}

\* w1 and r2 are two threads of process A, r1 is the only one of B.
TwoProcs == [t \in {w1, r1, r2} |-> IF t = r1 THEN B ELSE A]

\* r2 also asks for no bytes at all.
Counts == [t \in {w1, r1, r2} |-> IF t = r2 THEN {0, 2} ELSE {2}]
=============================================================================
