-------------------------- MODULE SessionServiceMC --------------------------
(* Instances of SessionService for TLC. *)
EXTENDS SessionRefinement

CONSTANTS c1, c2, here

\* Browsers behind one address
SameAddress == [c \in Clients |-> here]
=============================================================================
