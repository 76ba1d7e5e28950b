----------------------------- MODULE ChatRunMC -----------------------------
\* Model values for ChatRun.
EXTENDS ChatRun, TLC

CONSTANTS r1, r2, r3, s1, s2

MCRun2 == {r1, r2}
MCRun3 == {r1, r2, r3}
MCSlot2 == {s1, s2}
MCSymmetry == Permutations(MCRun3) \cup Permutations(MCSlot2)

=============================================================================
