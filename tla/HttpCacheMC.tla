----------------------------- MODULE HttpCacheMC -----------------------------
(* Instances of HttpCache for TLC. *)
EXTENDS HttpCache

CONSTANTS v1, v2, v3, h1, h2

\* Two contents with a hash of their own, and one that collides with the first
Collision == [b \in Bodies |-> IF b = v2 THEN h2 ELSE h1]
=============================================================================
