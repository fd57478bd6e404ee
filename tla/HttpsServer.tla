----------------------------- MODULE HttpsServer -----------------------------
(***************************************************************************)
(* http_secured_server (http_secured_server.cpp): the select loop of the   *)
(* HTTPS port.  Its sockets block: read_from_client calls SSL_accept, then *)
(* SSL_read in a loop that ends when a request has been answered or the    *)
(* connection is at its end, and the one thread serves nobody else until   *)
(* then.                                                                   *)
(*                                                                         *)
(* The clients send Stream[k] record by record: each piece names the place *)
(* at which its TLS record ends, and a record is sent whole.  SSL_read     *)
(* returns pieces of one record only, at most MaxChunk (1024 bytes); what  *)
(* is left of the record stays inside SSL, where select does not see it.   *)
(* What the callbacks store of a request is the same as in HttpServer.     *)
(***************************************************************************)
EXTENDS Integers, Sequences

CONSTANTS
    Conns,     \* connections the clients open
    Stream,    \* Stream[k]: the pieces sent on connection k
    MaxFd,     \* descriptors a process may have for its clients
    MaxChunk,  \* pieces one SSL_read returns at most
    None

\* req: the number of the request on its connection; last: the piece ends the
\* message; keep: the message allows the connection to go on; junk: bytes the
\* parser rejects; upgrade: the message is a CONNECT, or asks for another protocol,
\* and ends with its headers; end: the place of the last piece of its TLS record
Piece == [req : Nat, last : BOOLEAN, keep : BOOLEAN, junk : BOOLEAN, upgrade : BOOLEAN,
          end : Nat]

ASSUME StreamAssumption == Stream \in [Conns -> Seq(Piece)]
\* The requests of a connection are numbered 1, 2, 3, ..., each up to its last piece
ASSUME NumberAssumption ==
    \A k \in Conns : \A p \in DOMAIN Stream[k] :
        LET s == Stream[k] IN
        /\ p = 1 => s[p].req = 1
        /\ p + 1 \in DOMAIN s => s[p + 1].req = IF s[p].last THEN s[p].req + 1 ELSE s[p].req
        /\ \A q \in DOMAIN s : p < q => s[p].req <= s[q].req
        /\ \A q \in DOMAIN s : p < q /\ s[p].last => s[p].req < s[q].req
\* The connection ends with a message
ASSUME KeepAssumption ==
    \A k \in Conns : \A p \in DOMAIN Stream[k] : Stream[k][p].keep \/ Stream[k][p].last
ASSUME UpgradeAssumption ==
    \A k \in Conns : \A p \in DOMAIN Stream[k] : Stream[k][p].upgrade => Stream[k][p].last
ASSUME BoundAssumption == MaxFd \in Nat \ {0} /\ MaxChunk \in Nat \ {0}
ASSUME RecordAssumption ==
    \A k \in Conns : \A p \in DOMAIN Stream[k] :
        /\ Stream[k][p].end \in p..Len(Stream[k])
        /\ \A q \in p..Stream[k][p].end : Stream[k][q].end = Stream[k][p].end
ASSUME NoneAssumption == None \notin Conns /\ None \notin 1..MaxFd

VARIABLES
    pc,      \* what the server thread does
    ready,   \* read_fd_set: what select returned and the scan has not reached
    cur,     \* the descriptor read_from_client was called with
    caller,  \* who called it: "run", or "record" for recordParserSocket
    owner,   \* the connection behind each descriptor
    nego,    \* _ssl_nego
    replied, \* _has_build_reply
    parser,  \* the state of the http_parser of each descriptor
    peer,    \* the client's end of each connection
    tls,     \* the handshake, as the client leads it
    sent,    \* pieces sent by the client, in whole records
    got,     \* pieces SSL_read returned
    done,    \* pieces the parser has consumed
    out      \* the requests answered on each connection, as the client sees them

vars == <<pc, ready, cur, caller, owner, nego, replied, parser, peer, tls, sent, got, done, out>>
call == <<cur, caller>>
contexts == <<owner, nego, replied, parser>>
clients == <<peer, tls, sent>>
streams == <<got, done, out>>

-----------------------------------------------------------------------------

Fds    == 1..MaxFd
Listen == 0

TypeOK ==
    /\ pc \in {"select", "scan", "accept", "read", "parse", "exited"}
    /\ ready \in SUBSET (Fds \cup {Listen})
    /\ cur \in Fds \cup {None}
    /\ caller \in {"run", "record"}
    /\ owner \in [Fds -> Conns \cup {None}]
    /\ nego \in [Fds -> BOOLEAN] /\ replied \in [Fds -> BOOLEAN]
    /\ parser \in [Fds -> {"start", "message", "complete", "writing", "dead", "error"}]
    /\ peer \in [Conns -> {"unborn", "connecting", "open", "closed", "gone", "aborted"}]
    /\ tls \in [Conns -> {"none", "hello", "garbage", "failed", "done"}]
    /\ sent \in [Conns -> Nat] /\ got \in [Conns -> Nat] /\ done \in [Conns -> Nat]
    /\ \A k \in Conns : done[k] <= got[k] /\ got[k] <= sent[k] /\ sent[k] <= Len(Stream[k])
    /\ out \in [Conns -> Seq(Nat)]
    /\ pc \in {"accept", "read", "parse"} => cur # None /\ owner[cur] # None

Init ==
    /\ pc = "select" /\ ready = {} /\ cur = None /\ caller = "run"
    /\ owner = [i \in Fds |-> None]
    /\ nego = [i \in Fds |-> FALSE]
    /\ replied = [i \in Fds |-> FALSE]
    /\ parser = [i \in Fds |-> "start"]
    /\ peer = [k \in Conns |-> "unborn"]
    /\ tls = [k \in Conns |-> "none"]
    /\ sent = [k \in Conns |-> 0]
    /\ got = [k \in Conns |-> 0]
    /\ done = [k \in Conns |-> 0]
    /\ out = [k \in Conns |-> <<>>]

-----------------------------------------------------------------------------
\* The clients

Connect(k) ==
    /\ peer[k] = "unborn"
    /\ peer' = [peer EXCEPT ![k] = "connecting"]
    /\ UNCHANGED <<pc, ready, call, contexts, tls, sent, streams>>

Present(k) == peer[k] \in {"connecting", "open"}

\* The client's part of the handshake, or bytes that are none; a handshake that
\* failed cannot be taken up again
Hello(k) ==
    /\ Present(k) /\ tls[k] \in {"none", "failed"}
    /\ \E h \in {"hello", "garbage"} :
        /\ h = "hello" => tls[k] = "none"
        /\ tls' = [tls EXCEPT ![k] = h]
    /\ UNCHANGED <<pc, ready, call, contexts, peer, sent, streams>>

\* The end of the record a piece belongs to
RecordEnd(k, p) == IF p = 0 THEN 0 ELSE Stream[k][p].end
EndsRecord(k, p) == RecordEnd(k, p) = p

SendRecord(k) ==
    /\ Present(k) /\ tls[k] = "done"
    /\ sent[k] < Len(Stream[k])
    /\ sent' = [sent EXCEPT ![k] = RecordEnd(k, @ + 1)]
    /\ UNCHANGED <<pc, ready, call, contexts, peer, tls, streams>>

\* Close is an orderly close, Abort a reset that drops what the socket holds
Close(k) ==
    /\ peer[k] = "open"
    /\ peer' = [peer EXCEPT ![k] = "closed"]
    /\ UNCHANGED <<pc, ready, call, contexts, tls, sent, streams>>

Abort(k) ==
    /\ peer[k] = "open"
    /\ peer' = [peer EXCEPT ![k] = "aborted"]
    /\ UNCHANGED <<pc, ready, call, contexts, tls, sent, streams>>

-----------------------------------------------------------------------------
\* run: select and accept

Ended(k) == peer[k] \in {"closed", "gone", "aborted"}

\* Bytes in the socket: of the handshake, or of a record SSL has not begun
InSocket(k) ==
    \/ tls[k] \in {"hello", "garbage"}
    \/ sent[k] > RecordEnd(k, got[k])

Readable(i) ==
    IF i = Listen THEN \E k \in Conns : peer[k] = "connecting"
    ELSE owner[i] # None /\ (InSocket(owner[i]) \/ Ended(owner[i]))

Select ==
    /\ pc = "select"
    /\ ready' = {i \in Fds \cup {Listen} : Readable(i)}
    /\ ready' # {}
    /\ pc' = "scan"
    /\ UNCHANGED <<call, contexts, clients, streams>>

Turn(i) == pc = "scan" /\ i \in ready /\ \A j \in ready : i <= j

Free == {i \in Fds : owner[i] = None}

\* accept, SSL_new, and recordParserSocket up to its call of read_from_client;
\* _has_build_reply keeps the value an earlier connection left in it
Accept(k) ==
    /\ Turn(Listen)
    /\ peer[k] = "connecting"
    /\ \E i \in Free :
        /\ \A j \in Free : i <= j
        /\ owner' = [owner EXCEPT ![i] = k]
        /\ nego' = [nego EXCEPT ![i] = FALSE]
        /\ parser' = [parser EXCEPT ![i] = "start"]
        /\ cur' = i
    /\ peer' = [peer EXCEPT ![k] = "open"]
    /\ caller' = "record"
    /\ ready' = ready \ {Listen}
    /\ pc' = "accept"
    /\ UNCHANGED <<replied, tls, sent, streams>>

\* accept fails, for want of descriptors or memory.  Its result is not checked:
\* FD_SET and _contexts are used with -1, and the model follows no further
AcceptFails ==
    /\ Turn(Listen)
    /\ pc' = "exited"
    /\ UNCHANGED <<ready, call, contexts, clients, streams>>

\* run calls read_from_client for a descriptor with input pending
Serve(i) ==
    /\ Turn(i) /\ i # Listen
    /\ cur' = i /\ caller' = "run"
    /\ ready' = ready \ {i}
    /\ pc' = IF nego[i] THEN "read" ELSE "accept"
    /\ UNCHANGED <<contexts, clients, streams>>

-----------------------------------------------------------------------------
\* read_from_client

Conn == owner[cur]
NextScan == IF ready = {} THEN "select" ELSE "scan"

\* read_from_client returns bytes > 0
Return ==
    /\ pc' = NextScan
    /\ cur' = None

\* It returns -1: run frees the SSL state and closes the descriptor,
\* recordParserSocket ignores it
Fail ==
    /\ Return
    /\ owner' = IF caller = "run" THEN [owner EXCEPT ![cur] = None] ELSE owner

\* SSL_accept
Handshake ==
    /\ pc = "accept"
    /\ tls[Conn] = "hello" /\ peer[Conn] # "aborted"
    /\ tls' = [tls EXCEPT ![Conn] = "done"]
    /\ nego' = [nego EXCEPT ![cur] = TRUE]
    /\ pc' = "read"
    /\ UNCHANGED <<ready, call, owner, replied, parser, peer, sent, streams>>

\* Mutant: a failed handshake never closes the descriptor
HandshakeFailsKeeps ==
    /\ pc = "accept"
    /\ tls[Conn] = "garbage" \/ Ended(Conn)
    /\ tls' = [tls EXCEPT ![Conn] = "failed"]
    /\ Return
    /\ UNCHANGED <<ready, caller, contexts, peer, sent, streams>>

HandshakeFails ==
    /\ pc = "accept"
    /\ tls[Conn] = "garbage" \/ Ended(Conn)
    /\ tls' = [tls EXCEPT ![Conn] = "failed"]
    /\ Fail
    /\ UNCHANGED <<ready, caller, nego, replied, parser, peer, sent, streams>>

\* Pieces SSL_read can return now
Available(k) ==
    IF ~EndsRecord(k, got[k]) \/ peer[k] # "aborted" THEN sent[k] - got[k] ELSE 0

\* SSL_read returns what is left of a record, or the start of the next one
Read ==
    LET k == Conn
        left == RecordEnd(k, got[k] + 1) - got[k]
    IN
    /\ pc = "read"
    /\ Available(k) > 0
    /\ got' = [got EXCEPT ![k] = @ + (IF left < MaxChunk THEN left ELSE MaxChunk)]
    /\ pc' = "parse"
    /\ UNCHANGED <<ready, call, contexts, clients, done, out>>

\* Mutant: SSL_ERROR_SYSCALL does not end the loop
ReadFailsOnClose ==
    /\ pc = "read"
    /\ peer[Conn] = "closed" /\ Available(Conn) = 0
    /\ Fail
    /\ UNCHANGED <<ready, caller, nego, replied, parser, clients, streams>>

\* SSL_read meets the end of the connection.  ERR_print_errors_fp has emptied
\* the error queue, so SSL_get_error says ZERO_RETURN or SYSCALL: bytes = -1
ReadFails ==
    /\ pc = "read"
    /\ Ended(Conn) /\ Available(Conn) = 0
    /\ Fail
    /\ UNCHANGED <<ready, caller, nego, replied, parser, clients, streams>>

\* http_parser_execute, piece by piece
Unparsed == done[Conn] < got[Conn]
At1 == Stream[Conn][done[Conn] + 1]

\* The parser is where a request begins, and not inside one whose beginning was dropped
AtRequest == done[Conn] > 0 => Stream[Conn][done[Conn]].last

OnMessageBegin ==
    /\ pc = "parse" /\ Unparsed
    /\ parser[cur] = "start" /\ AtRequest /\ ~At1.junk
    /\ parser' = [parser EXCEPT ![cur] = "message"]
    /\ replied' = [replied EXCEPT ![cur] = FALSE]
    /\ UNCHANGED <<pc, ready, call, owner, nego, clients, streams>>

OnData ==
    /\ pc = "parse" /\ Unparsed
    /\ parser[cur] = "message" /\ ~At1.junk
    /\ done' = [done EXCEPT ![Conn] = @ + 1]
    /\ parser' = [parser EXCEPT ![cur] = IF At1.last THEN "complete" ELSE "message"]
    /\ UNCHANGED <<pc, ready, call, owner, nego, replied, clients, got, out>>

\* Mutant: _has_build_reply is not set
ReplyForgets ==
    LET k == Conn
        last == Stream[k][done[k]]
    IN
    /\ pc = "parse" /\ parser[cur] \in {"complete", "writing"}
    /\ parser' = [parser EXCEPT ![cur] = IF last.keep THEN "start" ELSE "dead"]
    /\ out' = IF peer[k] = "open" THEN [out EXCEPT ![k] = Append(@, last.req)] ELSE out
    /\ done' = IF last.upgrade THEN [done EXCEPT ![k] = got[k]] ELSE done
    /\ UNCHANGED <<pc, ready, call, owner, nego, replied, clients, got>>

\* on_message_complete_https_server: build_reply and SSL_write, which has returned;
\* its result is printed and dropped.  Writing again to a closed peer can raise
\* SIGPIPE, and so can a write that the close interrupts.  Behind a message that asks
\* for an upgrade the parser returns, and the rest of what was read is dropped
Reply ==
    LET k == Conn
        last == Stream[k][done[k]]
        interrupted == parser[cur] = "writing" /\ peer[k] = "closed"
    IN
    /\ pc = "parse" /\ parser[cur] \in {"complete", "writing"}
    /\ parser' = [parser EXCEPT ![cur] = IF last.keep THEN "start" ELSE "dead"]
    /\ replied' = [replied EXCEPT ![cur] = TRUE]
    /\ out' = IF peer[k] = "open" THEN [out EXCEPT ![k] = Append(@, last.req)] ELSE out
    /\ peer' = IF peer[k] = "closed" THEN [peer EXCEPT ![k] = "gone"] ELSE peer
    /\ done' = IF last.upgrade THEN [done EXCEPT ![k] = got[k]] ELSE done
    /\ pc' \in (IF interrupted \/ peer[k] \in {"gone", "aborted"} THEN {"parse", "exited"}
               ELSE {"parse"})
    /\ UNCHANGED <<ready, call, owner, nego, tls, sent, got>>

\* The socket has room for the reply, or its client is gone
OnMessageComplete == pc = "parse" /\ parser[cur] = "complete" /\ Reply

\* It has none, because the client does not read: SSL_write blocks the thread
WriteBlocks ==
    /\ pc = "parse" /\ parser[cur] = "complete" /\ peer[Conn] = "open"
    /\ parser' = [parser EXCEPT ![cur] = "writing"]
    /\ UNCHANGED <<pc, ready, call, owner, nego, replied, clients, streams>>

\* ... until the client has read enough, or its end of the connection is gone
ClientReads == pc = "parse" /\ parser[cur] = "writing" /\ peer[Conn] = "open" /\ Reply
WriteFails  == pc = "parse" /\ parser[cur] = "writing" /\ peer[Conn] # "open" /\ Reply

\* The parser is in error, or meets bytes it rejects, or looks for a request in the
\* middle of one; where it looks for one it may have called on_message_begin.  The rest
\* of what was read is dropped, and nparsed # bytes is ignored
Reject ==
    /\ pc = "parse" /\ Unparsed
    /\ \/ parser[cur] \in {"dead", "error"}
       \/ parser[cur] \in {"start", "message"} /\ At1.junk
       \/ parser[cur] = "start" /\ ~AtRequest
    /\ parser' = [parser EXCEPT ![cur] = "error"]
    /\ \/ replied' = replied
       \/ parser[cur] = "start" /\ replied' = [replied EXCEPT ![cur] = FALSE]
    /\ done' = [done EXCEPT ![Conn] = got[Conn]]
    /\ UNCHANGED <<pc, ready, call, owner, nego, clients, got, out>>

\* Mutant: one SSL_read for each call of read_from_client
ParsedOnce ==
    /\ pc = "parse" /\ ~Unparsed /\ parser[cur] \notin {"complete", "writing"}
    /\ Return
    /\ UNCHANGED <<ready, caller, contexts, clients, streams>>

\* The loop goes on unless a reply was built
Parsed ==
    /\ pc = "parse" /\ ~Unparsed /\ parser[cur] \notin {"complete", "writing"}
    /\ IF replied[cur] THEN Return ELSE pc' = "read" /\ cur' = cur
    /\ UNCHANGED <<ready, caller, contexts, clients, streams>>

-----------------------------------------------------------------------------

Client(k) == Connect(k) \/ Hello(k) \/ SendRecord(k) \/ Close(k) \/ Abort(k)

ReadFromClient ==
    \/ Handshake \/ HandshakeFails \/ Read \/ ReadFails
    \/ OnMessageBegin \/ OnData \/ OnMessageComplete \/ WriteBlocks \/ WriteFails
    \/ Reject \/ Parsed

Server ==
    \/ Select \/ AcceptFails
    \/ \E k \in Conns : Accept(k)
    \/ \E i \in Fds : Serve(i)
    \/ ReadFromClient

Next == Server \/ ClientReads \/ \E k \in Conns : Client(k)

Spec == Init /\ [][Next]_vars

\* The server runs whenever it is not blocked
FairSpec == Spec /\ WF_vars(Server)

\* A client that owes the server a handshake, the rest of a request, or an end
\* after bytes the parser rejects
Owes(k) ==
    /\ Present(k)
    /\ tls[k] = "done" /\ sent[k] > 0 /\ Stream[k][sent[k]].last
           => \E i \in Fds : owner[i] = k /\ parser[i] = "error"

\* No client is silent for ever in the middle of what it began, and one to which an
\* answer is written reads it, or goes away
DiligentSpec ==
    FairSpec /\ WF_vars(ClientReads) /\ \A k \in Conns : WF_vars(Owes(k) /\ Client(k))

-----------------------------------------------------------------------------
(***************************************************************************)
(* Properties                                                              *)
(***************************************************************************)

\* The thread waits in SSL_read only for a connection on which no request has
\* been answered yet, one has begun, or the parser has given up: a client that
\* keeps an answered connection open costs the others nothing
WaitsForRequest ==
    pc = "read" /\ Available(Conn) = 0 /\ ~Ended(Conn)
        => done[Conn] = 0 \/ ~Stream[Conn][done[Conn]].last \/ parser[cur] = "error"

\* Request r of k was sent whole, on a connection that may still carry it
RequestSent(k, r) ==
    \E p \in 1..sent[k] :
        /\ Stream[k][p].req = r /\ Stream[k][p].last
        /\ \A q \in 1..p : ~Stream[k][q].junk
        /\ \A q \in 1..(p - 1) : Stream[k][q].keep /\ ~Stream[k][q].upgrade

Answered(k, r) == \E j \in DOMAIN out[k] : out[k][j] = r

\* A read ended just behind a request and left the rest of the record inside SSL,
\* where select does not see it, and no other record has come since
Stranded(k) ==
    /\ 0 < got[k] /\ got[k] < sent[k] /\ sent[k] = RecordEnd(k, got[k])
    /\ Stream[k][got[k]].last

\* A request sent whole is answered while its client stays, with one exception: if it
\* shares its record with an earlier request, behind which a read happens to end, it
\* waits for the next record
EveryRequestAnswered ==
    \A k \in Conns : \A r \in {Stream[k][p].req : p \in DOMAIN Stream[k]} :
        (RequestSent(k, r) /\ Present(k))
            ~> (Answered(k, r) \/ Stranded(k) \/ ~Present(k) \/ pc = "exited")

\* A connection with input pending is serviced: its client gets through the
\* handshake it has asked for
PendingIsServiced ==
    \A k \in Conns : (peer[k] = "connecting" /\ tls[k] = "hello") ~> (tls[k] # "hello" \/ pc = "exited")

\* The descriptor of a client that went away is closed, although
\* recordParserSocket ignores the result of read_from_client
DescriptorReturned ==
    \A k \in Conns : Ended(k) ~> (pc = "exited" \/ \A i \in Fds : owner[i] # k)
=============================================================================
