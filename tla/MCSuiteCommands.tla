--------------------------- MODULE MCSuiteCommands ---------------------------
EXTENDS SuiteCommands, TLC

CONSTANTS t1, t2, t3, p1, p2

MCOrder == <<t1, t2, t3>>

Symmetry == Permutations(Proc)

\* Two tasks of one case, and a task that the release does not have.
MCCaseOf == t1 :> "c1" @@ t2 :> "c1" @@ t3 :> "c2"
=============================================================================
