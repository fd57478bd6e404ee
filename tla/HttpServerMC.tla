---------------------------- MODULE HttpServerMC ----------------------------
(* Streams of requests for HttpServer. *)
EXTENDS HttpServer, TLC

CONSTANTS k1, k2, k3, A, B

\* The streams of the connections of this instance
Only(s) == [k \in Conns |-> s[k]]

\* A piece in the middle of a request, one that ends it, and a piece that is only the
\* end of its field
Part(r, f, c) ==
    [req |-> r, field |-> f, text |-> TRUE, cb |-> c,
     last |-> FALSE, keep |-> TRUE, upgrade |-> FALSE]
Last(r, f, c) == [Part(r, f, c) EXCEPT !.last = TRUE]
End(r, f)     == [Part(r, f, None) EXCEPT !.text = FALSE]

\* Every field in two pieces, the callback in the second half of the URL
SplitFields == Only(
    (k2 :> << Part(1, "url", None), Part(1, "url", B),
              Part(1, "body", None), Last(1, "body", None) >>))

\* A POST, a request for an upgrade, and a request that ends the connection, whose URL
\* may be cut in front of its end; a request with a cookie, and bytes the parser
\* rejects; and a client that says nothing
Mixed == Only(
    (k1 :> << Last(1, "body", None),
              [Last(2, "url", B) EXCEPT !.upgrade = TRUE],
              Part(3, "url", A),
              [End(3, "url") EXCEPT !.last = TRUE, !.keep = FALSE] >>)
    @@ (k2 :> << Part(1, "name", None), Last(1, "cookie", None), Part(2, "junk", None) >>)
    @@ (k3 :> <<>>))
=============================================================================
