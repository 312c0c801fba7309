------------------------------ MODULE MCXpQueue ------------------------------
\* Queues of both types for TLC.
EXTENDS XpQueue

Queue(type, locks, env) == [type |-> type, locks |-> locks, env |-> env]

\* A client that holds sections and returns them from either end; one that is
\* handed PES data it may hold, release or return from either end.
SafeSetups == {Queue("PSI", 2, {"Hold", "UnlockTail"}),
               Queue("PSI", 3, {"Hold", "UnlockTail"}),
               Queue("PES", 1, {"Hold", "Release", "UnlockFront", "UnlockTail"})}
LiveSetups == {Queue("PSI", 2, {"Hold"})}
PesHoldSetups == {Queue("PES", 2, {"Hold"})}
==============================================================================
