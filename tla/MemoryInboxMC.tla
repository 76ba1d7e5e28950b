--------------------------- MODULE MemoryInboxMC ---------------------------
\* Model values for MemoryInbox.
EXTENDS MemoryInbox

CONSTANTS e1, c1, c2

MCEvent1 == {e1}
MCConsumer2 == {c1, c2}

=============================================================================
