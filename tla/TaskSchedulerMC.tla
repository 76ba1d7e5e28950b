-------------------------- MODULE TaskSchedulerMC --------------------------
\* Model values for TaskScheduler.
EXTENDS TaskScheduler, TLC

CONSTANTS t1, t2, w1, w2

MCTask1 == {t1}
MCTask2 == {t1, t2}
MCWorker1 == {w1}
MCWorker2 == {w1, w2}

\* Safety only: liveness is never checked under symmetry.
MCSymmetry == Permutations(MCTask2) \cup Permutations(MCWorker2)

\* Bound of the batch run: nobody cancels (the run on one task has cancels).
MCNoCancel == \A t \in Task : cancel[t].stage = "none"

=============================================================================
