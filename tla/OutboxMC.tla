------------------------------ MODULE OutboxMC ------------------------------
\* Model values for Outbox; relays are interchangeable.
EXTENDS Outbox, TLC

CONSTANTS r1, r2

MCRelay2 == {r1, r2}

RelaySymmetry == Permutations(MCRelay2)

=============================================================================
