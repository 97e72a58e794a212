------------------------------ MODULE MCIngest ------------------------------
\* A log of operations 0 .. Length with prune points, forks of two operations
\* (one of them is a prune point) and an operation without a valid header.
EXTENDS Ingest

CONSTANTS Length, PrunePoints, Forks, Malformed

\* The operation which takes the place of another one in a fork.
Fork(o) == 100 + o

MCOp == (0..Length) \union {Fork(o) : o \in Forks} \union {Malformed}
MCSeqNum == [o \in MCOp |-> IF o = Malformed THEN 0 ELSE o % 100]
MCBacklink == [o \in MCOp |->
    IF o = Malformed THEN 1 ELSE IF o = 0 THEN NoOp ELSE (o % 100) - 1]
MCPruneFlag == [o \in MCOp |-> o \in PrunePoints]
=============================================================================
