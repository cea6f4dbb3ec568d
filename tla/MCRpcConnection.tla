-------------------------- MODULE MCRpcConnection --------------------------
(* Small instances of RpcConnection for TLC. *)
EXTENDS RpcConnection, TLC

CONSTANTS c1, c2

\* Callers that all pass a timeout, or none, are interchangeable.
Symmetry == Permutations(Callers)
=============================================================================
