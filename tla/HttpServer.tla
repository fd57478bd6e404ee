------------------------------ MODULE HttpServer ------------------------------
(***************************************************************************)
(* http_server (http_server.cpp): the select loop of the plain HTTP port,  *)
(* the reads it makes, the callbacks http_parser_execute calls while it    *)
(* parses what was read, and the reply built and written when a message is *)
(* complete.  One thread serves every connection; clients send, close and  *)
(* abort in between any two of its steps.                                  *)
(*                                                                         *)
(* What a client sends on connection k is Stream[k], a sequence of pieces. *)
(* A piece is a stretch of bytes of one field of one request that the      *)
(* network never splits; a read returns one or more pieces, at most        *)
(* MaxChunk (MAXMSG bytes in the code).  http_parser calls a data callback *)
(* once for the bytes of a field that one read returned, so a field of two *)
(* pieces reaches its callback in one call or in two; if the second is only*)
(* the byte that ends the field, that call is given no bytes.              *)
(***************************************************************************)
EXTENDS Integers, Sequences

CONSTANTS
    Conns,     \* connections the clients open, one after the other or together
    Stream,    \* Stream[k]: the pieces sent on connection k
    Leaving,   \* connections whose clients may close or reset them
    MaxFd,     \* descriptors a process may have for its clients
    MaxChunk,  \* pieces one read returns at most
    Callbacks, \* values of the "callback" parameter of a URL
    None

Fields == {"url", "name", "cookie", "body", "junk"}

\* req: the number of the request on its connection; text: the piece holds bytes of
\* its field, and is not only the byte that ends it; cb: the callback parameter of a
\* URL whose query is in this piece; last: the piece ends the message; keep: the
\* message allows the connection to go on; upgrade: it is a CONNECT, or asks for
\* another protocol, and ends with its headers
Piece == [req : Nat, field : Fields, text : BOOLEAN, cb : Callbacks \cup {None},
          last : BOOLEAN, keep : BOOLEAN, upgrade : BOOLEAN]

ASSUME StreamAssumption == Stream \in [Conns -> Seq(Piece)]
\* The requests of a connection are numbered 1, 2, 3, ..., each up to its last piece
ASSUME NumberAssumption ==
    \A k \in Conns : \A p \in DOMAIN Stream[k] :
        LET s == Stream[k] IN
        /\ p = 1 => s[p].req = 1
        /\ p + 1 \in DOMAIN s => s[p + 1].req = IF s[p].last THEN s[p].req + 1 ELSE s[p].req
        /\ \A q \in DOMAIN s : p < q => s[p].req <= s[q].req
        /\ \A q \in DOMAIN s : p < q /\ s[p].last => s[p].req < s[q].req
\* The connection ends with a message
ASSUME KeepAssumption ==
    \A k \in Conns : \A p \in DOMAIN Stream[k] : Stream[k][p].keep \/ Stream[k][p].last
ASSUME UpgradeAssumption ==
    \A k \in Conns : \A p \in DOMAIN Stream[k] :
        Stream[k][p].upgrade => Stream[k][p].last /\ Stream[k][p].field # "body"
\* The byte that ends a field comes behind the field
ASSUME EndAssumption ==
    \A k \in Conns : \A p \in DOMAIN Stream[k] :
        LET s == Stream[k] IN
        ~s[p].text =>
            /\ s[p].field \in {"url", "name", "cookie"} /\ s[p].cb = None
            /\ p > 1 /\ s[p - 1].text
            /\ s[p - 1].field = s[p].field /\ s[p - 1].req = s[p].req
ASSUME LeavingAssumption == Leaving \subseteq Conns
ASSUME BoundAssumption == MaxFd \in Nat \ {0} /\ MaxChunk \in Nat \ {0}
ASSUME NoneAssumption == None \notin Conns /\ None \notin Callbacks

VARIABLES
    pc,      \* what the server thread does: "select", "scan", "parse", "exited"
    ready,   \* read_fd_set: what select returned and the scan has not reached
    owner,   \* the connection behind each descriptor
    parser,  \* the state of the http_parser of each descriptor
    ctx,     \* _contexts
    peer,    \* the client's end of each connection
    sent,    \* pieces sent by the client
    got,     \* pieces read by the server
    done,    \* pieces the parser has consumed
    out      \* answers received by the client

vars == <<pc, ready, owner, parser, ctx, peer, sent, got, done, out>>
streams == <<sent, got, done>>

-----------------------------------------------------------------------------

Fds    == 1..MaxFd
Listen == 0              \* the listening socket has the lowest descriptor
\* The pieces, each named by its connection and its place
At     == UNION {{k} \X DOMAIN Stream[k] : k \in Conns}

Context == [url : SUBSET At, key : SUBSET At, cookie : SUBSET At,
            body : SUBSET At, cb : Callbacks \cup {None}]
Answer  == [req : Nat, url : SUBSET At, cookie : SUBSET At,
            body : SUBSET At, cb : Callbacks \cup {None}]

TypeOK ==
    /\ pc \in {"select", "scan", "parse", "exited"}
    /\ ready \in SUBSET (Fds \cup {Listen})
    /\ owner \in [Fds -> Conns \cup {None}]
    /\ parser \in [Fds -> {"start", "message", "complete", "writing", "dead", "error"}]
    /\ ctx \in [Fds -> Context]
    /\ peer \in [Conns -> {"unborn", "connecting", "open", "closed", "gone", "aborted"}]
    /\ sent \in [Conns -> Nat]
    /\ got \in [Conns -> Nat]
    /\ done \in [Conns -> Nat]
    /\ \A k \in Conns : done[k] <= got[k] /\ got[k] <= sent[k] /\ sent[k] <= Len(Stream[k])
    /\ out \in [Conns -> Seq(Answer)]

EmptyContext == [url |-> {}, key |-> {}, cookie |-> {}, body |-> {}, cb |-> None]

Init ==
    /\ pc = "select"
    /\ ready = {}
    /\ owner = [i \in Fds |-> None]
    /\ parser = [i \in Fds |-> "start"]
    /\ ctx = [i \in Fds |-> EmptyContext]
    /\ peer = [k \in Conns |-> "unborn"]
    /\ sent = [k \in Conns |-> 0]
    /\ got = [k \in Conns |-> 0]
    /\ done = [k \in Conns |-> 0]
    /\ out = [k \in Conns |-> <<>>]

-----------------------------------------------------------------------------
\* The clients

Connect(k) ==
    /\ peer[k] = "unborn"
    /\ peer' = [peer EXCEPT ![k] = "connecting"]
    /\ UNCHANGED <<pc, ready, owner, parser, ctx, streams, out>>

\* Data may be sent before the server accepts
Send(k) ==
    /\ peer[k] \in {"connecting", "open"}
    /\ sent[k] < Len(Stream[k])
    /\ sent' = [sent EXCEPT ![k] = @ + 1]
    /\ UNCHANGED <<pc, ready, owner, parser, ctx, peer, got, done, out>>

\* An orderly close: what was sent before is still delivered
Close(k) ==
    /\ peer[k] = "open"
    /\ peer' = [peer EXCEPT ![k] = "closed"]
    /\ UNCHANGED <<pc, ready, owner, parser, ctx, streams, out>>

\* A reset: what was not read is lost
Abort(k) ==
    /\ peer[k] = "open"
    /\ peer' = [peer EXCEPT ![k] = "aborted"]
    /\ UNCHANGED <<pc, ready, owner, parser, ctx, streams, out>>

-----------------------------------------------------------------------------
\* run: select, accept, read

Readable(i) ==
    IF i = Listen THEN \E k \in Conns : peer[k] = "connecting"
    ELSE /\ owner[i] # None
         /\ got[owner[i]] < sent[owner[i]] \/ peer[owner[i]] \in {"closed", "gone", "aborted"}

Select ==
    /\ pc = "select"
    /\ ready' = {i \in Fds \cup {Listen} : Readable(i)}
    /\ ready' # {}
    /\ pc' = "scan"
    /\ UNCHANGED <<owner, parser, ctx, peer, streams, out>>

\* The scan serves the descriptors in ascending order, each once
Turn(i) == pc = "scan" /\ i \in ready /\ \A j \in ready : i <= j

Leave(i) ==
    /\ ready' = ready \ {i}
    /\ pc' = IF ready' = {} THEN "select" ELSE "scan"

Free == {i \in Fds : owner[i] = None}

\* accept returns the lowest free descriptor; recordParserSocket starts its
\* parser and leaves the rest of the context as the last connection left it
Accept(k) ==
    /\ Turn(Listen)
    /\ peer[k] = "connecting"
    /\ \E i \in Free :
        /\ \A j \in Free : i <= j
        /\ owner' = [owner EXCEPT ![i] = k]
        /\ parser' = [parser EXCEPT ![i] = "start"]
    /\ peer' = [peer EXCEPT ![k] = "open"]
    /\ Leave(Listen)
    /\ UNCHANGED <<ctx, streams, out>>

\* accept fails when the process has no descriptor left
AcceptFails ==
    /\ Turn(Listen)
    /\ Free = {}
    /\ pc' = "exited"
    /\ UNCHANGED <<ready, owner, parser, ctx, peer, streams, out>>

\* Mutant: the server waits until its buffer is full
ReadFull(i, n) ==
    LET k == owner[i] IN
    /\ Turn(i) /\ i \in Fds
    /\ peer[k] # "aborted"
    /\ n = MaxChunk /\ got[k] + n <= sent[k]
    /\ got' = [got EXCEPT ![k] = @ + n]
    /\ pc' = "parse"
    /\ UNCHANGED <<ready, owner, parser, ctx, peer, sent, done, out>>

\* read_from_client: read returns n pieces
Read(i, n) ==
    LET k == owner[i] IN
    /\ Turn(i) /\ i \in Fds
    /\ peer[k] # "aborted"
    /\ n \in 1..MaxChunk /\ got[k] + n <= sent[k]
    /\ got' = [got EXCEPT ![k] = @ + n]
    /\ pc' = "parse"
    /\ UNCHANGED <<ready, owner, parser, ctx, peer, sent, done, out>>

\* Mutant: the descriptor is not closed
ReadEofLeaks(i) ==
    LET k == owner[i] IN
    /\ Turn(i) /\ i \in Fds
    /\ peer[k] \in {"closed", "gone"} /\ got[k] = sent[k]
    /\ Leave(i)
    /\ UNCHANGED <<owner, parser, ctx, peer, streams, out>>

\* read returns 0: the parser is told, and the connection is closed
ReadEof(i) ==
    LET k == owner[i] IN
    /\ Turn(i) /\ i \in Fds
    /\ peer[k] \in {"closed", "gone"} /\ got[k] = sent[k]
    /\ owner' = [owner EXCEPT ![i] = None]
    /\ Leave(i)
    /\ UNCHANGED <<parser, ctx, peer, streams, out>>

\* read returns -1: exit(EXIT_FAILURE)
ReadFails(i) ==
    /\ Turn(i) /\ i \in Fds
    /\ peer[owner[i]] = "aborted"
    /\ pc' = "exited"
    /\ UNCHANGED <<ready, owner, parser, ctx, peer, streams, out>>

-----------------------------------------------------------------------------
\* http_parser_execute on what was read, callback by callback

\* The descriptor being served, the piece the parser is at
Serving(i) == pc = "parse" /\ i \in ready /\ \A j \in ready : i <= j
Conn(i) == owner[i]
Next1(i) == done[Conn(i)] + 1
At1(i) == Stream[Conn(i)][Next1(i)]
Unparsed(i) == done[Conn(i)] < got[Conn(i)]
\* The parser is where a request begins, and not inside one whose beginning was dropped
AtRequest(i) == done[Conn(i)] > 0 => Stream[Conn(i)][done[Conn(i)]].last

\* Mutant: the body of the last request is kept
OnMessageBeginKeepsBody(i) ==
    /\ Serving(i) /\ Unparsed(i)
    /\ parser[i] = "start" /\ AtRequest(i) /\ At1(i).field # "junk"
    /\ parser' = [parser EXCEPT ![i] = "message"]
    /\ ctx' = [ctx EXCEPT ![i] = [@ EXCEPT !.url = {}, !.key = {}, !.cookie = {}]]
    /\ UNCHANGED <<pc, ready, owner, peer, streams, out>>

\* on_message_begin_server.  _params is not among the members it resets
OnMessageBegin(i) ==
    /\ Serving(i) /\ Unparsed(i)
    /\ parser[i] = "start" /\ AtRequest(i) /\ At1(i).field # "junk"
    /\ parser' = [parser EXCEPT ![i] = "message"]
    /\ ctx' = [ctx EXCEPT ![i] = [EmptyContext EXCEPT !.cb = ctx[i].cb]]
    /\ UNCHANGED <<pc, ready, owner, peer, streams, out>>

\* The places of the pieces of one field that this read returned
FieldRun(i) ==
    {q \in Next1(i)..got[Conn(i)] :
        \A x \in Next1(i)..q :
            /\ Stream[Conn(i)][x].field = At1(i).field
            /\ Stream[Conn(i)][x].req = At1(i).req}

\* A data callback: the bytes it is given, none if it meets only the end of a field
\* whose bytes an earlier read returned; and the parser behind them
Data(i) == {Conn(i)} \X {q \in FieldRun(i) : Stream[Conn(i)][q].text}

DataCallback(i, f) ==
    /\ Serving(i) /\ Unparsed(i)
    /\ parser[i] = "message" /\ At1(i).field = f
    /\ \E q \in FieldRun(i) :
        /\ \A x \in FieldRun(i) : x <= q
        /\ done' = [done EXCEPT ![Conn(i)] = q]
        /\ parser' = [parser EXCEPT ![i] =
                        IF Stream[Conn(i)][q].last THEN "complete" ELSE "message"]
    /\ UNCHANGED <<pc, ready, owner, peer, sent, got, out>>

OnUrl(i) ==
    /\ DataCallback(i, "url")
    /\ ctx' = [ctx EXCEPT ![i] = [@ EXCEPT !.url = Data(i)]]

\* All the bytes of a field of a request
Whole(k, r, f) ==
    {k} \X {q \in DOMAIN Stream[k] :
                Stream[k][q].req = r /\ Stream[k][q].field = f /\ Stream[k][q].text}

OnHeaderField(i) ==
    /\ DataCallback(i, "name")
    /\ ctx' = [ctx EXCEPT ![i] = [@ EXCEPT !.key = Data(i)]]

\* The value is stored under the last key, a cookie only when that is "Cookie"
OnHeaderValue(i) ==
    /\ DataCallback(i, "cookie")
    /\ ctx' = IF ctx[i].key = Whole(Conn(i), At1(i).req, "name")
              THEN [ctx EXCEPT ![i] = [@ EXCEPT !.cookie = Data(i)]] ELSE ctx

OnBody(i) ==
    /\ DataCallback(i, "body")
    /\ ctx' = [ctx EXCEPT ![i] = [@ EXCEPT !.body = Data(i)]]

\* Mutant: a parameter that is already in _params is not replaced
CallbackOfFirst(i) ==
    LET given == {Stream[a[1]][a[2]].cb : a \in ctx[i].url} \ {None}
    IN  IF given = {} \/ ctx[i].cb # None THEN ctx[i].cb ELSE CHOOSE c \in given : TRUE

\* service_recorder::extractParams: the callback of the URL, or the one left
\* in _params by an earlier request
CallbackOf(i) ==
    LET given == {Stream[a[1]][a[2]].cb : a \in ctx[i].url} \ {None}
    IN  IF given = {} THEN ctx[i].cb ELSE CHOOSE c \in given : TRUE

\* A cut has left nothing of the URL
UrlLost(i) ==
    ctx[i].url = {} /\ Whole(Conn(i), Stream[Conn(i)][done[Conn(i)]].req, "url") # {}

\* build_reply: extractParams reads the first part of a URL that has none, and the
\* process ends
SplitsNothing(i) ==
    /\ Serving(i)
    /\ parser[i] = "complete" /\ UrlLost(i)
    /\ pc' = "exited"
    /\ UNCHANGED <<ready, owner, parser, ctx, peer, streams, out>>

\* Mutant: of the requests one read completes, only the last is answered
ReplyToLast(i) ==
    LET k == Conn(i)
        last == Stream[k][done[k]]
        answer == [req |-> last.req, url |-> ctx[i].url, cookie |-> ctx[i].cookie,
                   body |-> ctx[i].body, cb |-> CallbackOf(i)]
    IN
    /\ Serving(i)
    /\ parser[i] \in {"complete", "writing"} /\ ~UrlLost(i)
    /\ parser' = [parser EXCEPT ![i] = IF last.keep THEN "start" ELSE "dead"]
    /\ out' = IF peer[k] = "open" /\ ~Unparsed(i) THEN [out EXCEPT ![k] = Append(@, answer)] ELSE out
    /\ done' = IF last.upgrade THEN [done EXCEPT ![k] = got[k]] ELSE done
    /\ UNCHANGED <<pc, ctx, peer, ready, owner, sent, got>>

\* on_message_complete_server: build_reply, then write, which has returned; its
\* result is ignored.  The first write to a closed peer is answered with a reset;
\* writing again can raise SIGPIPE, which nothing handles, and so can a write that
\* the close interrupts.  Behind a message that asks for an upgrade the parser
\* returns, and read_from_client drops the rest of what it read
Reply(i) ==
    LET k == Conn(i)
        last == Stream[k][done[k]]
        answer == [req |-> last.req, url |-> ctx[i].url, cookie |-> ctx[i].cookie,
                   body |-> ctx[i].body, cb |-> CallbackOf(i)]
        interrupted == parser[i] = "writing" /\ peer[k] = "closed"
    IN
    /\ Serving(i)
    /\ parser[i] \in {"complete", "writing"} /\ ~UrlLost(i)
    /\ parser' = [parser EXCEPT ![i] = IF last.keep THEN "start" ELSE "dead"]
    /\ ctx' = [ctx EXCEPT ![i] = [@ EXCEPT !.cb = CallbackOf(i)]]
    /\ out' = IF peer[k] = "open" THEN [out EXCEPT ![k] = Append(@, answer)] ELSE out
    /\ peer' = IF peer[k] = "closed" THEN [peer EXCEPT ![k] = "gone"] ELSE peer
    /\ done' = IF last.upgrade THEN [done EXCEPT ![k] = got[k]] ELSE done
    /\ pc' \in (IF interrupted \/ peer[k] \in {"gone", "aborted"} THEN {"parse", "exited"}
               ELSE {"parse"})
    /\ UNCHANGED <<ready, owner, sent, got>>

\* The socket has room for the reply, or its client is gone
OnMessageComplete(i) == parser[i] = "complete" /\ Reply(i)

\* It has none, because the client does not read: write blocks the thread
WriteBlocks(i) ==
    /\ Serving(i)
    /\ parser[i] = "complete" /\ ~UrlLost(i) /\ peer[Conn(i)] = "open"
    /\ parser' = [parser EXCEPT ![i] = "writing"]
    /\ UNCHANGED <<pc, ready, owner, ctx, peer, streams, out>>

\* ... until the client has read enough, or its end of the connection is gone
ClientReads(i) == parser[i] = "writing" /\ peer[Conn(i)] = "open" /\ Reply(i)
WriteFails(i)  == parser[i] = "writing" /\ peer[Conn(i)] # "open" /\ Reply(i)

\* Mutant: bytes that are rejected end the message
RejectCompletes(i) ==
    /\ Serving(i) /\ Unparsed(i)
    /\ \/ parser[i] \in {"dead", "error"}
       \/ parser[i] \in {"start", "message"} /\ At1(i).field = "junk"
       \/ parser[i] = "start" /\ ~AtRequest(i)
    /\ parser' = [parser EXCEPT ![i] = IF @ = "error" THEN @ ELSE "complete"]
    /\ done' = [done EXCEPT ![Conn(i)] = got[Conn(i)]]
    /\ UNCHANGED <<pc, ready, owner, ctx, peer, sent, got, out>>

\* The parser is in error, or meets bytes it rejects, or looks for a request in the
\* middle of one: the rest of what was read is dropped, and nparsed # nbytes is ignored
Reject(i) ==
    /\ Serving(i) /\ Unparsed(i)
    /\ \/ parser[i] \in {"dead", "error"}
       \/ parser[i] \in {"start", "message"} /\ At1(i).field = "junk"
       \/ parser[i] = "start" /\ ~AtRequest(i)
    /\ parser' = [parser EXCEPT ![i] = "error"]
    /\ done' = [done EXCEPT ![Conn(i)] = got[Conn(i)]]
    /\ UNCHANGED <<pc, ready, owner, ctx, peer, sent, got, out>>

\* http_parser_execute returns; read_from_client returns 0
Parsed(i) ==
    /\ Serving(i) /\ ~Unparsed(i)
    /\ parser[i] \notin {"complete", "writing"}
    /\ Leave(i)
    /\ UNCHANGED <<owner, parser, ctx, peer, streams, out>>

-----------------------------------------------------------------------------

Client ==
    \/ \E k \in Conns : Connect(k) \/ Send(k)
    \/ \E k \in Leaving : Close(k) \/ Abort(k)
    \/ \E i \in Fds : ClientReads(i)

Server ==
    \/ Select \/ AcceptFails
    \/ \E k \in Conns : Accept(k)
    \/ \E i \in Fds, n \in 1..MaxChunk : Read(i, n)
    \/ \E i \in Fds :
        \/ ReadEof(i) \/ ReadFails(i)
        \/ OnMessageBegin(i) \/ OnUrl(i) \/ OnHeaderField(i) \/ OnHeaderValue(i)
        \/ OnBody(i) \/ SplitsNothing(i) \/ OnMessageComplete(i)
        \/ WriteBlocks(i) \/ WriteFails(i)
        \/ Reject(i) \/ Parsed(i)

Next == Client \/ Server

Spec == Init /\ [][Next]_vars
\* The server thread waits only in select, and in write for a client that does not
\* read; clients may stop for ever in the middle of what they send
FairSpec == Spec /\ WF_vars(Server)
\* A client to which an answer is written reads it, or goes away
ReadingSpec == FairSpec /\ WF_vars(\E i \in Fds : ClientReads(i))

-----------------------------------------------------------------------------
(***************************************************************************)
(* Properties                                                              *)
(***************************************************************************)

Answers(k) == {out[k][j] : j \in DOMAIN out[k]}

Upgraded(k, r) == \E p \in DOMAIN Stream[k] : Stream[k][p].req = r /\ Stream[k][p].upgrade

\* Request r may be the next to be answered behind request a
Follows(k, a, r) == a < r /\ (a + 1 < r => Upgraded(k, a))

\* The answers a client gets on a connection are to its requests 1, 2, 3, ...: none
\* is repeated or overtaken, however they are pipelined, however the reads cut them,
\* and whatever the descriptor was used for before; and none is skipped, but by a
\* request for an upgrade, with which the rest of its read is dropped
AnswersInOrder ==
    \A k \in Conns : \A j \in DOMAIN out[k] :
        Follows(k, IF j = 1 THEN 0 ELSE out[k][j - 1].req, out[k][j].req)

\* No URL, cookie or body of another request or of another connection shows in an
\* answer, however the fields are cut
NothingForeign ==
    \A k \in Conns : \A a \in Answers(k) :
        /\ a.url \subseteq Whole(k, a.req, "url")
        /\ a.cookie \subseteq Whole(k, a.req, "cookie")
        /\ a.body \subseteq Whole(k, a.req, "body")

\* A field that a read may end right in front of the end of
EndCut(k, r, f) ==
    \E p \in DOMAIN Stream[k] :
        Stream[k][p].req = r /\ Stream[k][p].field = f /\ ~Stream[k][p].text

\* What an answer is computed from was sent in that request; and no field is lost,
\* however it is cut, whose name came in one piece, but a cookie that is cut right in
\* front of the byte that ends it: the callback is then called with no bytes and
\* stores nothing over what it had.  A URL lost that way is never answered
AnswersOwnRequest ==
    /\ NothingForeign
    /\ \A k \in Conns : \A a \in Answers(k) :
          /\ \A f \in {"url", "body"} : a[f] = {} => Whole(k, a.req, f) = {}
          /\ a.cookie = {} => Whole(k, a.req, "cookie") = {} \/ EndCut(k, a.req, "cookie")

\* An answer is computed from the whole URL, the whole cookie and the whole body
\* of its request
AnswersWholeRequest ==
    \A k \in Conns : \A a \in Answers(k) :
        /\ a.url = Whole(k, a.req, "url")
        /\ a.cookie = Whole(k, a.req, "cookie")
        /\ a.body = Whole(k, a.req, "body")

\* The callbacks a request asks for in its own URL
Asked(k, r) == {Stream[k][a[2]].cb : a \in Whole(k, r, "url")} \ {None}

\* A request that names a callback is answered through that one, not through the
\* callback an earlier request left in _params
OwnCallback ==
    \A k \in Conns : \A a \in Answers(k) :
        Asked(k, a.req) # {} => a.cb \in Asked(k, a.req)

\* A piece that may have been dropped with the rest of its read
BehindUpgrade(k, p) == \E u \in 1..(p - 1) : Stream[k][u].upgrade

\* No request is answered that has bytes the parser rejects, and none behind such
\* bytes or behind a message that ends the connection, if the parser has seen them
SilentAfterEnd ==
    \A k \in Conns : \A a \in Answers(k) : \A p \in DOMAIN Stream[k] :
        LET s == Stream[k][p] IN
        /\ s.req = a.req => s.field # "junk"
        /\ s.req < a.req => (s.keep /\ s.field # "junk") \/ BehindUpgrade(k, p)

Pieces(k) == {Stream[k][p] : p \in DOMAIN Stream[k]}

\* Request r of k was sent whole, on a connection that may still carry it
RequestSent(k, r) ==
    \E p \in 1..sent[k] :
        /\ Stream[k][p].req = r /\ Stream[k][p].last
        /\ \A q \in 1..p : Stream[k][q].field # "junk"
        /\ \A q \in 1..(p - 1) : Stream[k][q].keep /\ ~Stream[k][q].upgrade

Answered(k, r) == \E a \in Answers(k) : a.req = r

\* A request sent whole is answered while its client stays, even if other clients
\* stop in the middle of theirs for ever: no client makes another wait, as long as
\* each reads the answers it is given
EveryRequestAnswered ==
    \A k \in Conns : \A r \in {p.req : p \in {q \in Pieces(k) : q.last}} :
        (RequestSent(k, r) /\ peer[k] \in {"connecting", "open"})
            ~> (Answered(k, r) \/ peer[k] \notin {"connecting", "open"} \/ pc = "exited")

\* The descriptor of a client that closed goes back to the process
DescriptorReturned ==
    \A k \in Leaving :
        (peer[k] \in {"closed", "gone"})
            ~> (pc = "exited" \/ \A i \in Fds : owner[i] # k)

=============================================================================
