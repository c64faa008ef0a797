-------------------------------- MODULE MCRouter --------------------------------
EXTENDS Router, TLC

\* Every target serves every model, and a request that names none.
ServesAll == [m \in AllModels |-> Targets]

Perms == Permutations(Requests) \cup Permutations(Targets)
================================================================================
