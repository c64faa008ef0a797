------------------------------- MODULE MCLimiter -------------------------------
(* Instances of Limiter for TLC. *)
EXTENDS Limiter, TLC

Perms == Permutations(Requests)
================================================================================
