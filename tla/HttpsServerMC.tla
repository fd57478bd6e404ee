---------------------------- MODULE HttpsServerMC ----------------------------
(* Streams of requests for HttpsServer. *)
EXTENDS HttpsServer, TLC

CONSTANTS k1, k2

\* The streams of the connections of this instance
Only(s) == [k \in Conns |-> s[k]]

\* A piece inside a request, its last piece, and a piece the parser rejects;
\* e: where its record ends
Part(r, e) == [req |-> r, last |-> FALSE, keep |-> TRUE, junk |-> FALSE, upgrade |-> FALSE,
               end |-> e]
Last(r, e) == [Part(r, e) EXCEPT !.last = TRUE]
Upgrade(r, e) == [Last(r, e) EXCEPT !.upgrade = TRUE]
Junk(r, e) == [Part(r, e) EXCEPT !.junk = TRUE]

\* On the first connection, a record with a request, which fills its read, and the
\* whole next one; a third one in a record that takes two reads; and bytes the parser
\* rejects.  On the second, an upgrade, with which the beginning of the next request
\* is dropped, and the end of that request
Streams == Only(
    (k1 :> << Part(1, 3), Last(1, 3), Last(2, 3),
              Part(3, 6), Part(3, 6), Last(3, 6), Junk(4, 7) >>)
    @@ (k2 :> << Upgrade(1, 2), Part(2, 2), Last(2, 3) >>))
=============================================================================
