------------------------------ MODULE MCEventFeed ------------------------------
EXTENDS EventFeed, TLC

Perms == Permutations(Fingerprints) \cup Permutations(Streams)
=============================================================================
