--------------------------- MODULE TaskStoreApiMC ---------------------------
\* Model values for TaskStoreApi.  Its callers are interchangeable.
EXTENDS TaskStoreApi, TLC

CONSTANTS t1, t2, c1, c2

MCTask1 == {t1}
MCTask2 == {t1, t2}
MCClient1 == {c1}
MCClient2 == {c1, c2}

ClientSymmetry == Permutations(MCClient2)

=============================================================================
