-------------------------- MODULE MCWritePipeline --------------------------
(* Small instances of WritePipeline for TLC. *)
EXTENDS WritePipeline, TLC

CONSTANTS alice, bob

MCOwners == {alice, bob}

Accounts == Permutations(MCOwners)
=============================================================================
