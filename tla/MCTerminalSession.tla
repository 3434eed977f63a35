------------------------- MODULE MCTerminalSession -------------------------
(* TerminalSession on small sets, for TLC. *)
EXTENDS TerminalSession, TLC

\* Sockets and requests are interchangeable; sessions are ordered.
Interchangeable == Permutations(Sockets) \cup Permutations(Requests)
=============================================================================
