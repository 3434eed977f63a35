---------------------------- MODULE MCAuditChain ----------------------------
(* AuditChain on small sets, for TLC. *)
EXTENDS AuditChain, TLC

\* Writers are interchangeable, and so are connections.
Interchangeable == Permutations(Writers) \cup Permutations(Connections)
=============================================================================
