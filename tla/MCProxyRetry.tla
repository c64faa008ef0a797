------------------------------ MODULE MCProxyRetry ------------------------------
EXTENDS ProxyRetry, TLC

\* The scope limits before the selection, under one key.
GlobalBefore == [r \in Requests |-> CHOOSE k \in Keys : TRUE]

NoneBefore == [r \in Requests |-> NoKey]

NoneAfter == [t \in Targets |-> NoKey]

\* The channel scope: every target belongs to the one channel.
ChannelAfter == [t \in Targets |-> CHOOSE k \in Keys : TRUE]

Perms == Permutations(Targets)
================================================================================
