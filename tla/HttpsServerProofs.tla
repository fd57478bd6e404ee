-------------------------- MODULE HttpsServerProofs ---------------------------
(***************************************************************************)
(* Theorems about HttpsServer for every number of connections and          *)
(* descriptors, every stream of requests and every division into records.  *)
(***************************************************************************)
EXTENDS HttpsServer, TLAPS

-----------------------------------------------------------------------------
\* What the server relies on

\* A descriptor that select returned has a connection and is not the one being
\* served; a connection has one descriptor, once it is accepted
Owned ==
    /\ \A i \in Fds : i \in ready => owner[i] # None
    /\ pc \in {"accept", "read", "parse"} => cur \notin ready
    /\ \A i, j \in Fds : owner[i] # None /\ owner[i] = owner[j] => i = j
    /\ \A i \in Fds : owner[i] # None => peer[owner[i]] \notin {"unborn", "connecting"}

\* _ssl_nego is the end of the handshake, before which nothing is sent
Negotiated ==
    /\ \A i \in Fds : owner[i] # None => (nego[i] <=> tls[owner[i]] = "done")
    /\ \A k \in Conns : tls[k] = "done" => peer[k] \notin {"unborn", "connecting"}
    /\ \A k \in Conns : tls[k] # "done" => sent[k] = 0
    /\ pc = "accept" => ~nego[cur]

\* Clients send whole records
Whole == \A k \in Conns : EndsRecord(k, sent[k])

\* What select saw is still there when the scan comes to it
Pending == \A i \in Fds : i \in ready => InSocket(owner[i]) \/ Ended(owner[i])

\* The last piece the parser took ends a message
AtEnd(k) == done[k] > 0 /\ Stream[k][done[k]].last

\* A message that has begun is not over, or is about to be continued; behind one that
\* is over _has_build_reply is set
Framed(i) ==
    /\ parser[i] = "message" /\ AtEnd(owner[i]) => pc = "parse" /\ i = cur /\ Unparsed
    /\ parser[i] = "start" /\ done[owner[i]] > 0 => replied[i]
    /\ parser[i] = "dead" => replied[i]

\* The parser is at the end of a message: its callback runs, or its SSL_write
Ending(i) == parser[i] \in {"complete", "writing"}
USE DEF Ending

\* A message is complete behind a piece of it
Completed ==
    \A i \in Fds : owner[i] # None /\ Ending(i) => done[owner[i]] # 0

TypeInv == TypeOK /\ Owned /\ Negotiated /\ Whole /\ Completed
Inv == TypeInv /\ Pending /\ (\A i \in Fds : owner[i] # None => Framed(i)) /\ WaitsForRequest

-----------------------------------------------------------------------------
\* Records

LEMMA PieceType ==
    ASSUME NEW k \in Conns, NEW p \in Nat, 1 <= p, p <= Len(Stream[k])
    PROVE  Stream[k][p] \in Piece
BY StreamAssumption

LEMMA RecordEndType ==
    ASSUME NEW k \in Conns, NEW p \in Nat, p <= Len(Stream[k])
    PROVE  /\ RecordEnd(k, p) \in Nat
           /\ p <= RecordEnd(k, p) /\ RecordEnd(k, p) <= Len(Stream[k])
           /\ EndsRecord(k, RecordEnd(k, p))
<1>1. Stream[k] \in Seq(Piece) /\ Len(Stream[k]) \in Nat
      BY StreamAssumption
<1>2. CASE p = 0
      BY <1>1, <1>2 DEF RecordEnd, EndsRecord
<1>3. CASE p # 0
  <2>1. p \in DOMAIN Stream[k]
        BY <1>1, <1>3
  <2>2. Stream[k][p] \in Piece /\ Stream[k][p].end \in p..Len(Stream[k])
        BY <1>1, <2>1, RecordAssumption
  <2>3. Stream[k][p].end \in Nat /\ Stream[k][p].end # 0
        BY <1>3, <2>2 DEF Piece
  <2>4. Stream[k][Stream[k][p].end].end = Stream[k][p].end
        BY <2>1, <2>2, RecordAssumption
  <2> QED BY <1>1, <1>3, <2>2, <2>3, <2>4 DEF RecordEnd, EndsRecord
<1> QED BY <1>2, <1>3

\* A place before the end of a record belongs to a record that ends no later
LEMMA RecordEndLeast ==
    ASSUME NEW k \in Conns, NEW p \in Nat, NEW q \in Nat, p <= q, q <= Len(Stream[k]),
           EndsRecord(k, q)
    PROVE  RecordEnd(k, p) <= q
<1>1. Stream[k] \in Seq(Piece) /\ Len(Stream[k]) \in Nat
      BY StreamAssumption
<1>2. CASE p = 0
      BY <1>2 DEF RecordEnd
<1>3. CASE p # 0
  <2>1. /\ p \in DOMAIN Stream[k] /\ q \in DOMAIN Stream[k] /\ q # 0
        BY <1>1, <1>3
  <2>2. /\ Stream[k][p].end \in Nat /\ Stream[k][q].end = q
    <3>1. Stream[k][p] \in Piece
          BY <1>1, <2>1
    <3>2. Stream[k][q].end = q
          BY <2>1 DEF EndsRecord, RecordEnd
    <3> QED BY <3>1, <3>2 DEF Piece
  <2>3. q <= Stream[k][p].end => Stream[k][q].end = Stream[k][p].end
        BY <2>1, <2>2, RecordAssumption
  <2> QED BY <1>3, <2>1, <2>2, <2>3 DEF RecordEnd
<1> QED BY <1>2, <1>3

-----------------------------------------------------------------------------
\* Types

LEMMA TypeInit == Init => TypeInv
BY NoneAssumption, StreamAssumption
   DEF Init, TypeInv, TypeOK, Owned, Negotiated, Whole, Completed, EndsRecord, RecordEnd, Fds, Listen

\* What read_from_client works on
LEMMA Serving ==
    ASSUME TypeInv, pc \in {"accept", "read", "parse"}
    PROVE  /\ cur \in Fds /\ Conn \in Conns /\ owner[cur] = Conn /\ cur \notin ready
           /\ peer[Conn] \notin {"unborn", "connecting"}
           /\ \A i \in Fds : i # cur => owner[i] # Conn
BY NoneAssumption DEF TypeInv, TypeOK, Owned, Conn, Fds

\* SSL_read returns pieces that were sent
LEMMA ReadType ==
    ASSUME TypeInv, Read
    PROVE  /\ got' \in [Conns -> Nat] /\ got[Conn] < got'[Conn] /\ got'[Conn] <= sent[Conn]
           /\ \A k \in Conns : k # Conn => got'[k] = got[k]
<1> DEFINE k == Conn
           left == RecordEnd(k, got[k] + 1) - got[k]
           n == IF left < MaxChunk THEN left ELSE MaxChunk
<1>1. k \in Conns
      BY Serving DEF Read
<1>2. /\ got[k] \in Nat /\ sent[k] \in Nat /\ sent[k] <= Len(Stream[k])
      /\ got[k] < sent[k] /\ EndsRecord(k, sent[k])
      BY <1>1 DEF TypeInv, TypeOK, Whole, Read, Available
<1>3. Len(Stream[k]) \in Nat
      BY <1>1, StreamAssumption
<1>4. /\ RecordEnd(k, got[k] + 1) \in Nat /\ got[k] + 1 <= RecordEnd(k, got[k] + 1)
      /\ RecordEnd(k, got[k] + 1) <= sent[k]
  <2>1. got[k] + 1 \in Nat /\ got[k] + 1 <= sent[k] /\ got[k] + 1 <= Len(Stream[k])
        BY <1>2, <1>3
  <2> HIDE DEF k
  <2> QED BY <1>1, <1>2, <2>1, RecordEndType, RecordEndLeast
<1>5. n \in Nat /\ 0 < n /\ got[k] + n <= sent[k]
  <2> HIDE DEF k
  <2> QED BY <1>2, <1>4, BoundAssumption
<1>6. got' = [got EXCEPT ![k] = @ + n]
      BY DEF Read
<1>7. got \in [Conns -> Nat]
      BY DEF TypeInv, TypeOK
<1> HIDE DEF k, n
<1>8. /\ got' \in [Conns -> Nat] /\ got[k] < got'[k] /\ got'[k] <= sent[k]
      /\ \A c \in Conns : c # k => got'[c] = got[c]
      BY <1>1, <1>2, <1>5, <1>6, <1>7
<1> QED BY <1>8 DEF k

\* The rest of a read may be dropped
LEMMA DropType ==
    ASSUME NEW g \in [Conns -> Nat], NEW d \in [Conns -> Nat], \A c \in Conns : d[c] <= g[c],
           NEW k \in Conns, NEW e, e = d \/ e = [d EXCEPT ![k] = g[k]]
    PROVE  /\ e \in [Conns -> Nat] /\ \A c \in Conns : e[c] <= g[c]
           /\ \A c \in Conns : c # k => e[c] = d[c]
OBVIOUS

\* Every step keeps the types
LEMMA TypeStep == TypeInv /\ [Next]_vars => TypeInv'
<1> SUFFICES ASSUME TypeInv, [Next]_vars PROVE TypeInv'
    OBVIOUS
<1> USE DEF TypeInv, TypeOK, Owned, Negotiated, Whole, Completed, contexts, clients, streams, call
<1>1. ASSUME NEW k \in Conns, Connect(k) PROVE TypeInv'
      BY <1>1 DEF Connect, EndsRecord, RecordEnd
<1>2. ASSUME NEW k \in Conns, Hello(k) PROVE TypeInv'
      BY <1>2 DEF Hello, EndsRecord, RecordEnd
<1>3. ASSUME NEW k \in Conns, SendRecord(k) PROVE TypeInv'
  <2>1. /\ sent[k] \in Nat /\ sent[k] < Len(Stream[k]) /\ Len(Stream[k]) \in Nat
        /\ sent' = [sent EXCEPT ![k] = RecordEnd(k, sent[k] + 1)] /\ tls[k] = "done"
        /\ UNCHANGED <<pc, ready, cur, caller, owner, nego, replied, parser, peer, tls, got,
                       done, out>>
        BY <1>3, StreamAssumption DEF SendRecord
  <2>2. /\ RecordEnd(k, sent[k] + 1) \in Nat /\ sent[k] < RecordEnd(k, sent[k] + 1)
        /\ RecordEnd(k, sent[k] + 1) <= Len(Stream[k])
        /\ EndsRecord(k, RecordEnd(k, sent[k] + 1))
    <3>1. sent[k] + 1 \in Nat /\ sent[k] + 1 <= Len(Stream[k]) /\ sent[k] \in Nat
          BY <2>1
    <3>2. /\ RecordEnd(k, sent[k] + 1) \in Nat /\ sent[k] + 1 <= RecordEnd(k, sent[k] + 1)
          /\ RecordEnd(k, sent[k] + 1) <= Len(Stream[k])
          /\ EndsRecord(k, RecordEnd(k, sent[k] + 1))
          BY <3>1, RecordEndType
    <3> QED BY ONLY <3>1, <3>2
  <2>3. /\ sent' \in [Conns -> Nat] /\ sent'[k] = RecordEnd(k, sent[k] + 1)
        /\ \A c \in Conns : c # k => sent'[c] = sent[c]
        BY <2>1, <2>2
  <2>4. Whole'
    <3>1. ASSUME NEW c \in Conns PROVE EndsRecord(c, sent'[c])
      <4>1. CASE c = k
            BY <2>2, <2>3, <4>1
      <4>2. CASE c # k
            BY <2>3, <4>2
      <4> QED BY <4>1, <4>2
    <3> QED BY <3>1 DEF EndsRecord, RecordEnd
  <2>5. TypeOK'
    <3>1. ASSUME NEW c \in Conns
          PROVE  got[c] <= sent'[c] /\ sent'[c] <= Len(Stream[c])
      <4>1. /\ got[c] \in Nat /\ sent[c] \in Nat /\ sent'[c] \in Nat
            /\ got[c] <= sent[c] /\ sent[c] <= Len(Stream[c])
            BY <2>3
      <4>2. CASE c = k
            BY <2>2, <2>3, <4>1, <4>2
      <4>3. CASE c # k
            BY <2>3, <4>1, <4>3
      <4> QED BY <4>2, <4>3
    <3> QED BY <2>1, <2>3, <3>1
  <2>6. Owned' /\ Negotiated' /\ Completed'
        BY <2>1, <2>3
  <2> QED BY <2>4, <2>5, <2>6
<1>4. ASSUME NEW k \in Conns, Close(k) PROVE TypeInv'
      BY <1>4 DEF Close, EndsRecord, RecordEnd
<1>5. ASSUME NEW k \in Conns, Abort(k) PROVE TypeInv'
      BY <1>5 DEF Abort, EndsRecord, RecordEnd
<1>6. ASSUME Select PROVE TypeInv'
      BY <1>6 DEF Select, Readable, EndsRecord, RecordEnd, Fds, Listen
<1>7. ASSUME AcceptFails PROVE TypeInv'
      BY <1>7 DEF AcceptFails, EndsRecord, RecordEnd
<1>8. ASSUME NEW k \in Conns, Accept(k) PROVE TypeInv'
  <2>1. PICK i \in Free : /\ owner' = [owner EXCEPT ![i] = k]
                          /\ nego' = [nego EXCEPT ![i] = FALSE]
                          /\ parser' = [parser EXCEPT ![i] = "start"]
                          /\ cur' = i
        BY <1>8 DEF Accept
  <2>2. i \in Fds /\ owner[i] = None /\ k # None /\ i \notin ready
        BY <2>1, NoneAssumption DEF Free
  <2>3. /\ ready' = ready \ {Listen} /\ pc' = "accept" /\ caller' = "record"
        /\ peer[k] = "connecting" /\ peer' = [peer EXCEPT ![k] = "open"]
        /\ UNCHANGED <<replied, tls, sent, got, done, out>>
        BY <1>8 DEF Accept
  <2>4. \A j \in Fds : owner[j] # k
        BY <2>2, <2>3
  <2>5. TypeOK'
    <3>1. cur' \in Fds /\ cur' # None /\ owner'[cur'] # None
          BY <2>1, <2>2, NoneAssumption DEF Fds
    <3> QED BY <2>1, <2>2, <2>3, <3>1
  <2>6. Owned'
        BY <2>1, <2>2, <2>3, <2>4
  <2>7. Negotiated'
        BY <2>1, <2>2, <2>3, <2>4
  <2>8. Whole' /\ Completed'
        BY <2>1, <2>2, <2>3 DEF EndsRecord, RecordEnd
  <2> QED BY <2>5, <2>6, <2>7, <2>8
<1>9. ASSUME NEW i \in Fds, Serve(i) PROVE TypeInv'
  <2>1. /\ i \in ready /\ owner[i] # None /\ i # None /\ cur' = i /\ ready' = ready \ {i}
        /\ pc' = IF nego[i] THEN "read" ELSE "accept"
        /\ caller' = "run"
        BY <1>9, NoneAssumption DEF Serve, Turn, Fds
  <2>2. UNCHANGED <<owner, nego, replied, parser, peer, tls, sent, got, done, out>>
        BY <1>9 DEF Serve
  <2>3. TypeOK'
        BY <2>1, <2>2
  <2>4. Owned'
        BY <2>1, <2>2
  <2>5. Negotiated'
    <3>1. pc' = "accept" => ~nego[i]
          BY <2>1
    <3> QED BY <2>1, <2>2, <3>1
  <2>6. Whole' /\ Completed'
        BY <2>2 DEF EndsRecord, RecordEnd
  <2> QED BY <2>3, <2>4, <2>5, <2>6
<1>10. ASSUME Handshake PROVE TypeInv'
  <2>1. /\ tls' = [tls EXCEPT ![Conn] = "done"] /\ nego' = [nego EXCEPT ![cur] = TRUE]
        /\ pc' = "read" /\ pc = "accept"
        /\ UNCHANGED <<ready, cur, caller, owner, replied, parser, peer, sent, got, done, out>>
        BY <1>10 DEF Handshake
  <2>2. /\ cur \in Fds /\ Conn \in Conns /\ owner[cur] = Conn /\ cur \notin ready
        /\ peer[Conn] \notin {"unborn", "connecting"}
        /\ \A i \in Fds : i # cur => owner[i] # Conn
        BY <2>1, Serving
  <2>3. TypeOK'
        BY <2>1, <2>2
  <2>4. Owned'
        BY <2>1, <2>2
  <2>5. Negotiated'
    <3>1. \A i \in Fds : owner[i] # None => (nego'[i] <=> tls'[owner[i]] = "done")
      <4>1. nego'[cur] /\ tls'[owner[cur]] = "done"
            BY <2>1, <2>2
      <4>2. ASSUME NEW i \in Fds, i # cur, owner[i] # None
            PROVE  nego'[i] <=> tls'[owner[i]] = "done"
        <5>1. owner[i] \in Conns /\ owner[i] # Conn
              BY <2>2, <4>2
        <5>2. nego'[i] = nego[i] /\ tls'[owner[i]] = tls[owner[i]]
              BY <2>1, <2>2, <4>2, <5>1
        <5>3. nego[i] <=> tls[owner[i]] = "done"
              BY <4>2
        <5> QED BY <5>2, <5>3, Zenon
      <4> QED BY <4>1, <4>2, Zenon
    <3> QED BY <2>1, <2>2, <3>1
  <2>6. Whole' /\ Completed'
        BY <2>1 DEF EndsRecord, RecordEnd
  <2> QED BY <2>3, <2>4, <2>5, <2>6
<1>11. ASSUME HandshakeFails PROVE TypeInv'
      BY <1>11, Serving DEF HandshakeFails, Fail, Return, NextScan, EndsRecord, RecordEnd
<1>12. ASSUME Read PROVE TypeInv'
  <2>1. /\ got' \in [Conns -> Nat] /\ got[Conn] < got'[Conn] /\ got'[Conn] <= sent[Conn]
        /\ \A k \in Conns : k # Conn => got'[k] = got[k]
        BY <1>12, ReadType
  <2>2. /\ pc = "read" /\ pc' = "parse"
        /\ UNCHANGED <<ready, cur, caller, owner, nego, replied, parser, peer, tls, sent, done,
                       out>>
        BY <1>12 DEF Read
  <2>3. Conn \in Conns
        BY <2>2, Serving
  <2>4. TypeOK'
    <3>1. ASSUME NEW k \in Conns
          PROVE  done[k] <= got'[k] /\ got'[k] <= sent[k] /\ sent[k] <= Len(Stream[k])
      <4>1. /\ done[k] \in Nat /\ got[k] \in Nat /\ got'[k] \in Nat /\ sent[k] \in Nat
            /\ done[k] <= got[k] /\ got[k] <= sent[k] /\ sent[k] <= Len(Stream[k])
            BY <2>1
      <4>2. CASE k = Conn
            BY <2>1, <4>1, <4>2
      <4>3. CASE k # Conn
            BY <2>1, <4>1, <4>3
      <4> QED BY <4>2, <4>3
    <3> QED BY <2>1, <2>2, <3>1
  <2>5. Owned' /\ Negotiated' /\ Completed'
        BY <2>2
  <2>6. Whole'
        BY <2>2 DEF EndsRecord, RecordEnd
  <2> QED BY <2>4, <2>5, <2>6
<1>13. ASSUME ReadFails PROVE TypeInv'
      BY <1>13, Serving DEF ReadFails, Fail, Return, NextScan, EndsRecord, RecordEnd
<1>14. ASSUME OnMessageBegin PROVE TypeInv'
      BY <1>14, Serving DEF OnMessageBegin, EndsRecord, RecordEnd
<1>15. ASSUME OnData PROVE TypeInv'
      BY <1>15, Serving DEF OnData, Unparsed, EndsRecord, RecordEnd
<1>16. ASSUME Reply PROVE TypeInv'
  <2> DEFINE k == Conn
             req == Stream[k][done[k]].req
  <2>1. /\ cur \in Fds /\ k \in Conns /\ owner[cur] = k
        /\ peer[k] \notin {"unborn", "connecting"}
        /\ \A i \in Fds : i # cur => owner[i] # k
        BY <1>16, Serving DEF Reply
  <2>2. req \in Nat
    <3>1. done[k] \in Nat /\ 1 <= done[k] /\ done[k] <= Len(Stream[k]) /\ Len(Stream[k]) \in Nat
      <4>1. Ending(cur) /\ owner[cur] # None
            BY <1>16 DEF Reply
      <4>2. done[k] # 0
            BY <2>1, <4>1 DEF Completed
      <4>3. /\ done[k] \in Nat /\ got[k] \in Nat /\ sent[k] \in Nat
            /\ done[k] <= got[k] /\ got[k] <= sent[k] /\ sent[k] <= Len(Stream[k])
            BY <2>1
      <4>4. Len(Stream[k]) \in Nat
            BY <2>1, StreamAssumption
      <4> HIDE DEF k
      <4> QED BY <4>2, <4>3, <4>4
    <3> QED BY <2>1, <3>1, PieceType DEF Piece
  <2>3. /\ out' \in [Conns -> Seq(Nat)]
    <3>1. out[k] \in Seq(Nat) /\ out \in [Conns -> Seq(Nat)]
          BY <2>1
    <3>2. Append(out[k], req) \in Seq(Nat)
          BY <2>2, <3>1
    <3>3. out' = out \/ out' = [out EXCEPT ![k] = Append(@, req)]
          BY <1>16 DEF Reply
    <3> HIDE DEF k, req
    <3> QED BY <2>1, <3>1, <3>2, <3>3
  <2>4. /\ parser' \in [Fds -> {"start", "message", "complete", "writing", "dead", "error"}]
        /\ replied' \in [Fds -> BOOLEAN]
        BY <1>16, <2>1 DEF Reply
  <2>5. /\ peer' \in [Conns -> {"unborn", "connecting", "open", "closed", "gone", "aborted"}]
        /\ \A c \in Conns : peer'[c] = peer[c] \/ (peer'[c] = "gone" /\ peer[c] = "closed")
        BY <1>16 DEF Reply
  <2>6. /\ pc = "parse" /\ pc' \in {"parse", "exited"}
        /\ UNCHANGED <<ready, cur, caller, owner, nego, tls, sent, got>>
        BY <1>16 DEF Reply
  <2>7. /\ done' \in [Conns -> Nat] /\ \A c \in Conns : done'[c] <= got[c]
        /\ \A c \in Conns : c # k => done'[c] = done[c]
    <3>1. done' = done \/ done' = [done EXCEPT ![k] = got[k]]
          BY <1>16 DEF Reply
    <3>2. /\ got \in [Conns -> Nat] /\ done \in [Conns -> Nat]
          /\ \A c \in Conns : done[c] <= got[c]
          OBVIOUS
    <3> HIDE DEF k
    <3>3. k \in Conns
          BY <2>1
    <3> QED BY ONLY <3>1, <3>2, <3>3, DropType
  <2>8. TypeOK'
        BY <2>3, <2>4, <2>5, <2>6, <2>7
  <2>9. Owned' /\ Negotiated'
        BY <2>1, <2>5, <2>6
  <2>10. Whole'
        BY <2>6 DEF EndsRecord, RecordEnd
  <2>11. Completed'
        BY <1>16, <2>1, <2>6, <2>7 DEF Reply
  <2> QED BY <2>8, <2>9, <2>10, <2>11
<1>20. ASSUME WriteBlocks PROVE TypeInv'
      BY <1>20, Serving DEF WriteBlocks, EndsRecord, RecordEnd
<1>17. ASSUME Reject PROVE TypeInv'
  <2>1. /\ pc = "parse" /\ parser' = [parser EXCEPT ![cur] = "error"]
        /\ replied' = replied \/ replied' = [replied EXCEPT ![cur] = FALSE]
        /\ done' = [done EXCEPT ![Conn] = got[Conn]]
        /\ UNCHANGED <<pc, ready, cur, caller, owner, nego, peer, tls, sent, got, out>>
        BY <1>17 DEF Reject
  <2>2. cur \in Fds /\ Conn \in Conns /\ owner[cur] = Conn
        BY <2>1, Serving
  <2>3. \A i \in Fds : i # cur => owner[i] # Conn
        BY <2>1, Serving
  <2>4. /\ done' \in [Conns -> Nat] /\ \A c \in Conns : done'[c] <= got[c]
        /\ \A c \in Conns : c # Conn => done'[c] = done[c]
    <3>1. /\ got \in [Conns -> Nat] /\ done \in [Conns -> Nat]
          /\ \A c \in Conns : done[c] <= got[c]
          OBVIOUS
    <3>2. done' = done \/ done' = [done EXCEPT ![Conn] = got[Conn]]
          BY <2>1
    <3>3. Conn \in Conns
          BY <2>2
    <3> QED BY ONLY <3>1, <3>2, <3>3, DropType
  <2>5. TypeOK'
    <3>1. /\ replied' \in [Fds -> BOOLEAN]
          /\ parser' \in [Fds -> {"start", "message", "complete", "writing", "dead", "error"}]
          BY <2>1
    <3> QED BY <2>1, <2>2, <2>4, <3>1
  <2>6. Owned' /\ Negotiated' /\ Whole'
        BY <2>1 DEF EndsRecord, RecordEnd
  <2>7. Completed'
        BY <2>1, <2>2, <2>3, <2>4
  <2> QED BY <2>5, <2>6, <2>7
<1>18. ASSUME Parsed PROVE TypeInv'
      BY <1>18, Serving DEF Parsed, Return, NextScan, EndsRecord, RecordEnd
<1>19. ASSUME UNCHANGED vars PROVE TypeInv'
      BY <1>19 DEF vars, EndsRecord, RecordEnd
<1> QED
    BY <1>1, <1>2, <1>3, <1>4, <1>5, <1>6, <1>7, <1>8, <1>9, <1>10, <1>11, <1>12, <1>13,
       <1>14, <1>15, <1>16, <1>17, <1>18, <1>19, <1>20
    DEF Next, Client, Server, ReadFromClient, OnMessageComplete, ClientReads, WriteFails

\* The server's bookkeeping keeps its types; read_from_client always has a connection,
\* and SSL_read never returns more than was sent (http_secured_server.cpp:218)
THEOREM TypeCorrect == Spec => []TypeOK
<1>1. TypeInv => TypeOK
      BY DEF TypeInv
<1> QED BY TypeInit, TypeStep, <1>1, PTL DEF Spec

-----------------------------------------------------------------------------
\* Waiting

\* A step that leaves the descriptors, the handshakes, the reads and the thread alone
LEMMA ClientStep ==
    ASSUME Inv, TypeInv',
           UNCHANGED <<pc, ready, cur, owner, replied, parser, got, done>>,
           \A k \in Conns : sent[k] <= sent'[k],
           \A k \in Conns : sent'[k] # sent[k] => peer'[k] = peer[k] /\ Present(k),
           \A k \in Conns : peer'[k] = peer[k] \/ peer[k] = "unborn" \/ (Ended(k))',
           \A k \in Conns : Ended(k) => (Ended(k))',
           \A k \in Conns : tls[k] \in {"hello", "garbage"} => tls'[k] \in {"hello", "garbage"}
    PROVE  Inv'
<1>1. ASSUME NEW i \in Fds, i \in ready PROVE (InSocket(owner[i]) \/ Ended(owner[i]))'
  <2>1. owner[i] \in Conns /\ owner'[i] = owner[i]
        BY <1>1 DEF Inv, TypeInv, TypeOK, Owned
  <2>2. /\ sent[owner[i]] \in Nat /\ sent'[owner[i]] \in Nat /\ got[owner[i]] \in Nat
        /\ got[owner[i]] <= Len(Stream[owner[i]])
    <3>1. /\ sent[owner[i]] \in Nat /\ sent'[owner[i]] \in Nat /\ got[owner[i]] \in Nat
          /\ got[owner[i]] <= sent[owner[i]] /\ sent[owner[i]] <= Len(Stream[owner[i]])
          BY <2>1 DEF Inv, TypeInv, TypeOK
    <3> QED BY <2>1, <3>1, StreamAssumption
  <2>3. RecordEnd(owner[i], got[owner[i]]) \in Nat
        BY <2>1, <2>2, RecordEndType
  <2>4. CASE InSocket(owner[i])
        BY <1>1, <2>1, <2>2, <2>3, <2>4 DEF InSocket, RecordEnd
  <2>5. CASE Ended(owner[i])
        BY <2>1, <2>5 DEF Ended
  <2> QED BY <1>1, <2>4, <2>5 DEF Inv, Pending
<1>2. Pending'
      BY <1>1 DEF Pending
<1>3. ASSUME NEW i \in Fds, owner'[i] # None PROVE Framed(i)'
      BY <1>3 DEF Inv, Framed, AtEnd, Unparsed, Conn
<1>4. WaitsForRequest'
  <2> SUFFICES ASSUME pc = "read", ~(Ended(Conn))', (Available(Conn) = 0)'
               PROVE  (done[Conn] = 0 \/ ~Stream[Conn][done[Conn]].last \/ parser[cur] = "error")'
      BY DEF WaitsForRequest
  <2>1. Conn \in Conns /\ Conn' = Conn /\ peer[Conn] # "unborn"
        BY Serving DEF Inv, Conn
  <2>2. ~Ended(Conn) /\ peer'[Conn] = peer[Conn]
        BY <2>1 DEF Ended
  <2>3. sent[Conn] \in Nat /\ sent'[Conn] \in Nat /\ got[Conn] \in Nat
        BY <2>1 DEF Inv, TypeInv, TypeOK
  <2>4. peer[Conn] # "aborted"
        BY <2>2 DEF Ended
  <2>5. sent'[Conn] - got[Conn] = 0
        BY <2>1, <2>2, <2>4 DEF Available
  <2>6. got[Conn] <= sent[Conn]
        BY <2>1 DEF Inv, TypeInv, TypeOK
  <2>7. Available(Conn) = 0
        BY <2>1, <2>3, <2>4, <2>5, <2>6 DEF Available
  <2>8. done[Conn] = 0 \/ ~Stream[Conn][done[Conn]].last \/ parser[cur] = "error"
        BY <2>2, <2>7 DEF Inv, WaitsForRequest
  <2> QED BY <2>1, <2>8
<1> QED BY <1>2, <1>3, <1>4 DEF Inv

\* A step of read_from_client takes nothing from what select saw of the others
LEMMA PendingStep ==
    ASSUME TypeInv, Pending, pc \in {"accept", "read", "parse"}, UNCHANGED <<ready, sent>>,
           \A i \in Fds : i # cur => owner'[i] = owner[i],
           \A k \in Conns : k # Conn => tls'[k] = tls[k] /\ got'[k] = got[k],
           \A k \in Conns : Ended(k) => (Ended(k))'
    PROVE  Pending'
<1> SUFFICES ASSUME NEW i \in Fds, i \in ready PROVE (InSocket(owner[i]) \/ Ended(owner[i]))'
    BY DEF Pending
<1>1. i # cur /\ owner[i] # Conn /\ owner[i] \in Conns
      BY Serving DEF TypeInv, TypeOK, Owned
<1>2. owner'[i] = owner[i] /\ tls'[owner[i]] = tls[owner[i]] /\ got'[owner[i]] = got[owner[i]]
      BY <1>1
<1> QED BY <1>1, <1>2 DEF Pending, InSocket, RecordEnd

\* A step that only the descriptor being served has a part in
LEMMA FrameStep ==
    ASSUME Inv, TypeInv', pc \in {"accept", "read", "parse"}, WaitsForRequest',
           UNCHANGED <<ready, sent>>, cur' \in {cur, None},
           \A i \in Fds : i # cur => /\ owner'[i] = owner[i] /\ parser'[i] = parser[i]
                                     /\ replied'[i] = replied[i],
           \A k \in Conns : k # Conn =>
               tls'[k] = tls[k] /\ got'[k] = got[k] /\ done'[k] = done[k],
           \A k \in Conns : Ended(k) => (Ended(k))',
           \A i \in Fds : i = cur /\ owner'[i] # None => Framed(i)'
    PROVE  Inv'
<1>1. Pending'
      BY PendingStep DEF Inv
<1>2. ASSUME NEW i \in Fds, owner'[i] # None PROVE Framed(i)'
  <2>1. CASE i = cur
        BY <1>2, <2>1
  <2>2. CASE i # cur
    <3>1. /\ owner[i] \in Conns /\ owner[i] # Conn /\ owner'[i] = owner[i]
          /\ parser'[i] = parser[i] /\ replied'[i] = replied[i]
      <4>1. \A j \in Fds : j # cur => owner[j] # Conn
            BY Serving DEF Inv
      <4> QED BY <1>2, <2>2, <4>1 DEF Inv, TypeInv, TypeOK
    <3>2. done'[owner[i]] = done[owner[i]]
          BY <3>1
    <3>3. Framed(i)
          BY <1>2, <3>1 DEF Inv
    <3>4. ~(parser[i] = "message" /\ AtEnd(owner[i]))
          BY <2>2, <3>3 DEF Framed
    <3> QED BY <3>1, <3>2, <3>3, <3>4 DEF Framed, AtEnd
  <2> QED BY <2>1, <2>2
<1> QED BY <1>1, <1>2 DEF Inv

LEMMA InvInit == Init => Inv
BY TypeInit DEF Init, Inv, Pending, WaitsForRequest, Fds

LEMMA InvStep == Inv /\ [Next]_vars => Inv'
<1> SUFFICES ASSUME Inv, [Next]_vars PROVE Inv'
    OBVIOUS
<1>0. TypeInv /\ TypeInv'
      BY TypeStep DEF Inv
<1> USE DEF contexts, clients, streams, call
<1>1. ASSUME NEW k \in Conns, Connect(k) PROVE Inv'
      BY <1>0, <1>1, ClientStep DEF Connect, Ended, Present, TypeInv, TypeOK
<1>2. ASSUME NEW k \in Conns, Hello(k) PROVE Inv'
      BY <1>0, <1>2, ClientStep DEF Hello, Ended, Present, TypeInv, TypeOK
<1>3. ASSUME NEW k \in Conns, SendRecord(k) PROVE Inv'
  <2>1. /\ sent[k] \in Nat /\ sent[k] < Len(Stream[k]) /\ Len(Stream[k]) \in Nat
        /\ sent' = [sent EXCEPT ![k] = RecordEnd(k, sent[k] + 1)]
        /\ Present(k)
        /\ UNCHANGED <<pc, ready, cur, owner, replied, parser, peer, tls, got, done>>
        BY <1>0, <1>3, StreamAssumption DEF SendRecord, TypeInv, TypeOK
  <2>2. RecordEnd(k, sent[k] + 1) \in Nat /\ sent[k] < RecordEnd(k, sent[k] + 1)
        BY <2>1, RecordEndType
  <2>3. \A c \in Conns : sent[c] <= sent'[c] /\ (sent'[c] # sent[c] => c = k)
        BY <1>0, <2>1, <2>2 DEF TypeInv, TypeOK
  <2> QED BY <1>0, <2>1, <2>3, ClientStep DEF Ended
<1>4. ASSUME NEW k \in Conns, Close(k) PROVE Inv'
      BY <1>0, <1>4, ClientStep DEF Close, Ended, Present, TypeInv, TypeOK
<1>5. ASSUME NEW k \in Conns, Abort(k) PROVE Inv'
      BY <1>0, <1>5, ClientStep DEF Abort, Ended, Present, TypeInv, TypeOK
<1>6. ASSUME Select PROVE Inv'
  <2>1. Pending'
        BY <1>6 DEF Select, Pending, Readable, Listen, Fds, InSocket, RecordEnd, Ended
  <2>2. ASSUME NEW i \in Fds, owner'[i] # None PROVE Framed(i)'
        BY <1>6, <2>2 DEF Select, Inv, Framed, AtEnd
  <2> QED BY <1>0, <1>6, <2>1, <2>2 DEF Select, Inv, WaitsForRequest
<1>7. ASSUME AcceptFails PROVE Inv'
  <2>1. Pending'
        BY <1>7 DEF AcceptFails, Inv, Pending, InSocket, RecordEnd, Ended
  <2>2. ASSUME NEW i \in Fds, owner'[i] # None PROVE Framed(i)'
        BY <1>7, <2>2 DEF AcceptFails, Turn, Inv, Framed, AtEnd
  <2> QED BY <1>0, <1>7, <2>1, <2>2 DEF AcceptFails, Inv, WaitsForRequest
<1>8. ASSUME NEW k \in Conns, Accept(k) PROVE Inv'
  <2>1. PICK i \in Free : /\ owner' = [owner EXCEPT ![i] = k]
                          /\ parser' = [parser EXCEPT ![i] = "start"]
        BY <1>8 DEF Accept
  <2>2. /\ pc = "scan" /\ pc' = "accept" /\ ready' = ready \ {Listen}
        /\ peer[k] = "connecting" /\ peer' = [peer EXCEPT ![k] = "open"]
        /\ UNCHANGED <<replied, tls, sent, got, done>>
        BY <1>8 DEF Accept, Turn
  <2>3. i \in Fds /\ owner[i] = None /\ i \notin ready
        BY <1>0, <2>1 DEF Free, TypeInv, Owned
  <2>4. done[k] = 0
    <3>1. tls[k] # "done"
          BY <1>0, <2>2 DEF TypeInv, Negotiated
    <3>2. sent[k] = 0 /\ done[k] \in Nat /\ got[k] \in Nat /\ done[k] <= got[k] /\ got[k] <= sent[k]
          BY <1>0, <3>1 DEF TypeInv, TypeOK, Negotiated
    <3> QED BY <3>2
  <2>5. Pending'
    <3> SUFFICES ASSUME NEW j \in Fds, j \in ready
                 PROVE  (InSocket(owner[j]) \/ Ended(owner[j]))'
        BY <2>2 DEF Pending
    <3>1. j # i /\ owner'[j] = owner[j] /\ owner[j] \in Conns /\ owner[j] # k
          BY <1>0, <2>1, <2>2, <2>3 DEF TypeInv, TypeOK, Owned
    <3>2. peer'[owner[j]] = peer[owner[j]]
          BY <2>2, <3>1
    <3> QED BY <2>2, <3>1, <3>2 DEF Inv, Pending, InSocket, RecordEnd, Ended
  <2>6. ASSUME NEW j \in Fds, owner'[j] # None PROVE Framed(j)'
    <3>1. CASE j = i
          BY <1>0, <2>1, <2>2, <2>3, <2>4, <3>1 DEF Framed, AtEnd, TypeInv, TypeOK
    <3>2. CASE j # i
      <4>1. owner'[j] = owner[j] /\ parser'[j] = parser[j] /\ Framed(j)
            BY <2>1, <2>6, <3>2 DEF Inv
      <4> QED BY <2>2, <4>1 DEF Framed, AtEnd
    <3> QED BY <3>1, <3>2
  <2> QED BY <1>0, <2>2, <2>5, <2>6 DEF Inv, WaitsForRequest
<1>9. ASSUME NEW i \in Fds, Serve(i) PROVE Inv'
  <2>1. /\ pc = "scan" /\ i \in ready /\ cur' = i /\ ready' = ready \ {i}
        /\ pc' = IF nego[i] THEN "read" ELSE "accept"
        /\ UNCHANGED <<owner, nego, replied, parser, peer, tls, sent, got, done, out>>
        BY <1>9 DEF Serve, Turn
  <2>2. Pending'
        BY <2>1 DEF Inv, Pending, InSocket, RecordEnd, Ended
  <2>3. ASSUME NEW j \in Fds, owner'[j] # None PROVE Framed(j)'
        BY <2>1, <2>3 DEF Inv, Framed, AtEnd
  <2>4. WaitsForRequest'
    <3> SUFFICES ASSUME pc' = "read", (Available(Conn) = 0)', ~(Ended(Conn))' PROVE FALSE
        BY DEF WaitsForRequest
    <3> DEFINE k == owner[i]
    <3>1. nego[i] /\ k \in Conns /\ Conn' = k
          BY <1>0, <2>1 DEF TypeInv, TypeOK, Owned, Conn
    <3>2. tls[k] = "done" /\ ~Ended(k)
          BY <1>0, <2>1, <3>1 DEF TypeInv, Negotiated, Owned, Ended
    <3>3. sent[k] > RecordEnd(k, got[k])
          BY <2>1, <3>2 DEF Inv, Pending, InSocket
    <3>4. /\ sent[k] \in Nat /\ got[k] \in Nat /\ got[k] <= sent[k] /\ sent[k] <= Len(Stream[k])
          BY <1>0, <3>1 DEF TypeInv, TypeOK
    <3>5. Len(Stream[k]) \in Nat
          BY <3>1, StreamAssumption
    <3>6. RecordEnd(k, got[k]) \in Nat /\ got[k] <= RecordEnd(k, got[k])
          BY <3>1, <3>4, <3>5, RecordEndType
    <3>7. sent[k] - got[k] = 0
          BY <2>1, <3>1, <3>2 DEF Available, Ended
    <3> HIDE DEF k
    <3> QED BY <3>3, <3>4, <3>6, <3>7
  <2> QED BY <1>0, <2>2, <2>3, <2>4 DEF Inv
<1>10. ASSUME Handshake PROVE Inv'
  <2>1. /\ tls' = [tls EXCEPT ![Conn] = "done"] /\ pc = "accept" /\ pc' = "read"
        /\ UNCHANGED <<ready, cur, owner, replied, parser, peer, sent, got, done>>
        BY <1>10 DEF Handshake
  <2>2. cur \in Fds /\ Conn \in Conns /\ owner[cur] = Conn /\ Conn' = Conn
        BY <1>0, <2>1, Serving DEF Conn
  <2>3. done[Conn] = 0
    <3>1. tls[Conn] # "done"
          BY <1>10, <1>0, <2>2 DEF Handshake
    <3>2. /\ sent[Conn] = 0 /\ done[Conn] \in Nat /\ got[Conn] \in Nat
          /\ done[Conn] <= got[Conn] /\ got[Conn] <= sent[Conn]
          BY <1>0, <2>2, <3>1 DEF TypeInv, TypeOK, Negotiated
    <3> QED BY <3>2
  <2>4. WaitsForRequest'
        BY <2>1, <2>2, <2>3 DEF WaitsForRequest
  <2>5. \A i \in Fds : i = cur /\ owner'[i] # None => Framed(i)'
        BY <2>1, <2>2, <2>3 DEF Inv, Framed, AtEnd
  <2> QED BY <1>0, <2>1, <2>2, <2>4, <2>5, FrameStep DEF TypeInv, TypeOK, Ended
<1>11. ASSUME HandshakeFails PROVE Inv'
  <2>1. /\ tls' = [tls EXCEPT ![Conn] = "failed"] /\ pc = "accept"
        /\ pc' \in {"select", "scan"} /\ cur' = None
        /\ owner' \in {owner, [owner EXCEPT ![cur] = None]}
        /\ UNCHANGED <<ready, replied, parser, peer, sent, got, done>>
        BY <1>11 DEF HandshakeFails, Fail, Return, NextScan
  <2>2. cur \in Fds /\ Conn \in Conns /\ owner[cur] = Conn
        BY <1>0, <2>1, Serving
  <2>3. WaitsForRequest'
        BY <2>1 DEF WaitsForRequest
  <2>4. \A i \in Fds : i = cur /\ owner'[i] # None => Framed(i)'
        BY <1>0, <2>1, <2>2 DEF Inv, Framed, AtEnd, TypeInv, TypeOK
  <2> QED BY <1>0, <2>1, <2>2, <2>3, <2>4, FrameStep DEF TypeInv, TypeOK, Ended
<1>12. ASSUME Read PROVE Inv'
  <2>1. /\ pc = "read" /\ pc' = "parse"
        /\ UNCHANGED <<ready, cur, owner, replied, parser, peer, tls, sent, done>>
        BY <1>12 DEF Read
  <2>2. cur \in Fds /\ Conn \in Conns /\ owner[cur] = Conn
        BY <1>0, <2>1, Serving
  <2>3. WaitsForRequest'
        BY <2>1 DEF WaitsForRequest
  <2>4. \A i \in Fds : i = cur /\ owner'[i] # None => Framed(i)'
        BY <2>1, <2>2 DEF Inv, Framed, AtEnd
  <2>5. \A k \in Conns : k # Conn => got'[k] = got[k]
        BY <1>0, <1>12, ReadType
  <2> QED BY <1>0, <2>1, <2>2, <2>3, <2>4, <2>5, FrameStep DEF Ended
<1>13. ASSUME ReadFails PROVE Inv'
  <2>1. /\ pc = "read" /\ pc' \in {"select", "scan"} /\ cur' = None
        /\ owner' \in {owner, [owner EXCEPT ![cur] = None]}
        /\ UNCHANGED <<ready, replied, parser, peer, tls, sent, got, done>>
        BY <1>13 DEF ReadFails, Fail, Return, NextScan
  <2>2. cur \in Fds /\ Conn \in Conns /\ owner[cur] = Conn
        BY <1>0, <2>1, Serving
  <2>3. WaitsForRequest'
        BY <2>1 DEF WaitsForRequest
  <2>4. \A i \in Fds : i = cur /\ owner'[i] # None => Framed(i)'
        BY <1>0, <2>1, <2>2 DEF Inv, Framed, AtEnd, TypeInv, TypeOK
  <2> QED BY <1>0, <2>1, <2>2, <2>3, <2>4, FrameStep DEF TypeInv, TypeOK, Ended
<1>14. ASSUME OnMessageBegin PROVE Inv'
  <2>1. /\ pc = "parse" /\ Unparsed /\ parser' = [parser EXCEPT ![cur] = "message"]
        /\ replied' = [replied EXCEPT ![cur] = FALSE]
        /\ UNCHANGED <<pc, ready, cur, owner, peer, tls, sent, got, done>>
        BY <1>14 DEF OnMessageBegin
  <2>2. cur \in Fds /\ Conn \in Conns /\ owner[cur] = Conn
        BY <1>0, <2>1, Serving
  <2>3. WaitsForRequest'
        BY <2>1 DEF WaitsForRequest
  <2>4. parser'[cur] = "message" /\ Unparsed'
        BY <1>0, <2>1, <2>2 DEF TypeInv, TypeOK, Unparsed, Conn
  <2>5. \A i \in Fds : i = cur => Framed(i)'
        BY <2>1, <2>4 DEF Framed
  <2> QED BY <1>0, <2>1, <2>2, <2>3, <2>5, FrameStep DEF TypeInv, TypeOK, Ended
<1>15. ASSUME OnData PROVE Inv'
  <2>1. /\ pc = "parse" /\ done' = [done EXCEPT ![Conn] = @ + 1]
        /\ parser' = [parser EXCEPT ![cur] = IF At1.last THEN "complete" ELSE "message"]
        /\ UNCHANGED <<pc, ready, cur, owner, replied, peer, tls, sent, got>>
        BY <1>15 DEF OnData
  <2>2. cur \in Fds /\ Conn \in Conns /\ owner[cur] = Conn
        BY <1>0, <2>1, Serving
  <2>3. WaitsForRequest'
        BY <2>1 DEF WaitsForRequest
  <2>4. done'[Conn] = done[Conn] + 1
        BY <1>0, <2>1, <2>2 DEF TypeInv, TypeOK
  <2>5. parser'[cur] = "complete" \/ (parser'[cur] = "message" /\ ~Stream[Conn][done'[Conn]].last)
        BY <1>0, <2>1, <2>2, <2>4 DEF TypeInv, TypeOK, At1
  <2>6. \A i \in Fds : i = cur => Framed(i)'
        BY <2>1, <2>2, <2>5 DEF Framed, AtEnd
  <2> QED BY <1>0, <2>1, <2>2, <2>3, <2>6, FrameStep DEF TypeInv, TypeOK, Ended
<1>16. ASSUME Reply PROVE Inv'
  <2>1. /\ pc = "parse" /\ pc' \in {"parse", "exited"}
        /\ parser' = [parser EXCEPT ![cur] =
                         IF Stream[Conn][done[Conn]].keep THEN "start" ELSE "dead"]
        /\ replied' = [replied EXCEPT ![cur] = TRUE]
        /\ done' = done \/ done' = [done EXCEPT ![Conn] = got[Conn]]
        /\ UNCHANGED <<ready, cur, owner, tls, sent, got>>
        BY <1>16 DEF Reply
  <2>2. cur \in Fds /\ Conn \in Conns /\ owner[cur] = Conn
        BY <1>0, <2>1, Serving
  <2>3. WaitsForRequest'
        BY <2>1 DEF WaitsForRequest
  <2>4. parser'[cur] \in {"start", "dead"} /\ replied'[cur]
        BY <1>0, <2>1, <2>2 DEF TypeInv, TypeOK
  <2>5. \A i \in Fds : i = cur => Framed(i)'
        BY <2>4 DEF Framed
  <2>6. \A k \in Conns : Ended(k) => (Ended(k))'
        BY <1>0, <1>16 DEF Reply, Ended, TypeInv, TypeOK
  <2>7. \A k \in Conns : k # Conn => done'[k] = done[k]
        BY <1>0, <2>1 DEF TypeInv, TypeOK
  <2> QED BY <1>0, <2>1, <2>2, <2>3, <2>5, <2>6, <2>7, FrameStep DEF TypeInv, TypeOK
<1>20. ASSUME WriteBlocks PROVE Inv'
  <2>1. /\ pc = "parse" /\ parser' = [parser EXCEPT ![cur] = "writing"]
        /\ UNCHANGED <<pc, ready, cur, owner, replied, peer, tls, sent, got, done>>
        BY <1>20 DEF WriteBlocks
  <2>2. cur \in Fds /\ Conn \in Conns /\ owner[cur] = Conn
        BY <1>0, <2>1, Serving
  <2>3. WaitsForRequest'
        BY <2>1 DEF WaitsForRequest
  <2>4. parser'[cur] = "writing"
        BY <1>0, <2>1, <2>2 DEF TypeInv, TypeOK
  <2>5. \A i \in Fds : i = cur => Framed(i)'
        BY <2>4 DEF Framed
  <2> QED BY <1>0, <2>1, <2>2, <2>3, <2>5, FrameStep DEF TypeInv, TypeOK, Ended
<1>17. ASSUME Reject PROVE Inv'
  <2>1. /\ pc = "parse" /\ parser' = [parser EXCEPT ![cur] = "error"]
        /\ replied' = replied \/ replied' = [replied EXCEPT ![cur] = FALSE]
        /\ done' = [done EXCEPT ![Conn] = got[Conn]]
        /\ UNCHANGED <<pc, ready, cur, owner, peer, tls, sent, got>>
        BY <1>17 DEF Reject
  <2>2. cur \in Fds /\ Conn \in Conns /\ owner[cur] = Conn
        BY <1>0, <2>1, Serving
  <2>3. WaitsForRequest'
        BY <2>1 DEF WaitsForRequest
  <2>4. parser'[cur] = "error"
        BY <1>0, <2>1, <2>2 DEF TypeInv, TypeOK
  <2>5. \A i \in Fds : i = cur => Framed(i)'
        BY <2>4 DEF Framed
  <2>6. \A i \in Fds : i # cur => replied'[i] = replied[i]
        BY <1>0, <2>1 DEF TypeInv, TypeOK
  <2> QED BY <1>0, <2>1, <2>2, <2>3, <2>5, <2>6, FrameStep DEF TypeInv, TypeOK, Ended
<1>18. ASSUME Parsed PROVE Inv'
  <2>1. /\ pc = "parse" /\ ~Unparsed /\ ~Ending(cur)
        /\ \/ pc' \in {"select", "scan"} /\ cur' = None
           \/ ~replied[cur] /\ pc' = "read" /\ cur' = cur
        /\ UNCHANGED <<ready, owner, replied, parser, peer, tls, sent, got, done>>
        BY <1>18 DEF Parsed, Return, NextScan
  <2>2. cur \in Fds /\ Conn \in Conns /\ owner[cur] = Conn /\ owner[cur] # None
        BY <1>0, <2>1, Serving DEF TypeInv, TypeOK
  <2>3. Framed(cur)
        BY <2>2 DEF Inv
  <2>4. ~(parser[cur] = "message" /\ AtEnd(Conn))
        BY <2>1, <2>2, <2>3 DEF Framed
  <2>5. WaitsForRequest'
    <3> SUFFICES ASSUME pc' = "read"
                 PROVE  (done[Conn] = 0 \/ ~Stream[Conn][done[Conn]].last \/ parser[cur] = "error")'
        BY DEF WaitsForRequest
    <3>1. cur' = cur /\ Conn' = Conn /\ ~replied[cur]
          BY <2>1 DEF Conn
    <3>2. parser[cur] \in {"start", "message", "dead", "error"} /\ done[Conn] \in Nat
          BY <1>0, <2>1, <2>2 DEF TypeInv, TypeOK
    <3>3. parser[cur] = "start" => done[Conn] = 0
          BY <2>2, <2>3, <3>1, <3>2 DEF Framed
    <3>4. parser[cur] # "dead"
          BY <2>3, <3>1 DEF Framed
    <3>5. parser[cur] = "message" => done[Conn] = 0 \/ ~Stream[Conn][done[Conn]].last
          BY <2>4, <3>2 DEF AtEnd
    <3> QED BY <2>1, <3>1, <3>2, <3>3, <3>4, <3>5
  <2>6. ASSUME NEW i \in Fds, owner'[i] # None PROVE Framed(i)'
    <3>1. Framed(i) /\ owner'[i] = owner[i]
          BY <2>1, <2>6 DEF Inv
    <3>2. ~(parser[i] = "message" /\ AtEnd(owner[i]))
          BY <2>1, <2>4, <3>1 DEF Framed, Conn
    <3> QED BY <2>1, <3>1, <3>2 DEF Framed, AtEnd
  <2>7. Pending'
        BY <2>1 DEF Inv, Pending, InSocket, RecordEnd, Ended
  <2> QED BY <1>0, <2>5, <2>6, <2>7 DEF Inv
<1>19. ASSUME UNCHANGED vars PROVE Inv'
  <2>1. Pending'
        BY <1>19 DEF vars, Inv, Pending, InSocket, RecordEnd, Ended
  <2>2. ASSUME NEW i \in Fds, owner'[i] # None PROVE Framed(i)'
        BY <1>19, <2>2 DEF vars, Inv, Framed, AtEnd, Unparsed, Conn
  <2>3. WaitsForRequest'
        BY <1>19 DEF vars, Inv, WaitsForRequest, Available, EndsRecord, RecordEnd, Conn, Ended
  <2> QED BY <1>0, <2>1, <2>2, <2>3 DEF Inv
<1> QED
    BY <1>1, <1>2, <1>3, <1>4, <1>5, <1>6, <1>7, <1>8, <1>9, <1>10, <1>11, <1>12, <1>13,
       <1>14, <1>15, <1>16, <1>17, <1>18, <1>19, <1>20
    DEF Next, Client, Server, ReadFromClient, OnMessageComplete, ClientReads, WriteFails

\* The thread waits in SSL_read only for a client that owes it the rest of a request,
\* its first one, or its end behind bytes the parser rejects
\* (http_secured_server.cpp:256)
THEOREM Waiting == Spec => []WaitsForRequest
<1>1. Inv => WaitsForRequest
      BY DEF Inv
<1> QED BY InvInit, InvStep, <1>1, PTL DEF Spec

-----------------------------------------------------------------------------
\* Answers

\* The number of the request the d-th piece of k is followed by
NextReq(k, d) ==
    IF d = 0 THEN 1
    ELSE IF Stream[k][d].last THEN Stream[k][d].req + 1 ELSE Stream[k][d].req

\* Nothing in the first p pieces of k ends the connection before them, or drops them
GoodTo(k, p) ==
    /\ \A q \in 1..p : ~Stream[k][q].junk
    /\ \A q \in 1..(p - 1) : Stream[k][q].keep /\ ~Stream[k][q].upgrade

Upgraded(k, r) == \E p \in DOMAIN Stream[k] : Stream[k][p].req = r /\ Stream[k][p].upgrade

\* Request r may be the next to be answered behind request a
Follows(k, a, r) == a < r /\ (a + 1 < r => Upgraded(k, a))

\* A piece that may have been dropped with the rest of its read
BehindUpgrade(k, p) == \E u \in 1..(p - 1) : Stream[k][u].upgrade

\* The request that was answered last, and the one a parser is at or in
LastReq(k) == IF out[k] = <<>> THEN 0 ELSE out[k][Len(out[k])]
Request(i) ==
    IF Ending(i) THEN Stream[owner[i]][done[owner[i]]].req
    ELSE NextReq(owner[i], done[owner[i]])

\* A message is complete behind its last piece
EndAt(i) == Ending(i) => AtEnd(owner[i])

\* A parser that has stopped has met what it rejects, the end of its connection or a
\* request for an upgrade; one that waits for a message is at the end of one, or has
\* met a request for an upgrade
StoppedAt(i) ==
    /\ parser[i] \in {"dead", "error"} =>
           \E q \in 1..done[owner[i]] :
               \/ Stream[owner[i]][q].junk \/ ~Stream[owner[i]][q].keep
               \/ Stream[owner[i]][q].upgrade
    /\ parser[i] = "start" =>
           \/ done[owner[i]] = 0 \/ AtEnd(owner[i])
           \/ \E q \in 1..done[owner[i]] : Stream[owner[i]][q].upgrade

\* A parser that goes on has met neither bytes it rejects nor a message that ends the
\* connection, unless they lie behind a request for an upgrade; its own message it has
\* seen from the beginning
AcceptedAt(i) ==
    parser[i] \notin {"dead", "error"} =>
        \A p \in 1..done[owner[i]] :
            /\ ~Stream[owner[i]][p].junk \/ BehindUpgrade(owner[i], p)
            /\ \/ Stream[owner[i]][p].keep \/ BehindUpgrade(owner[i], p)
               \/ p = done[owner[i]] /\ Ending(i)
            /\ parser[i] # "start" /\ Stream[owner[i]][p].req = Request(i) =>
                   ~Stream[owner[i]][p].junk

\* The message a parser is at or in is the next to be answered, while the client stays
CountedAt(i) ==
    peer[owner[i]] = "open" /\ parser[i] \notin {"dead", "error"} =>
        Follows(owner[i], LastReq(owner[i]), Request(i))

\* Every request any parser has behind it is answered, but one that is just complete
AnsweredAt(i) ==
    peer[owner[i]] = "open" =>
        \A p \in 1..done[owner[i]] :
            Stream[owner[i]][p].last /\ GoodTo(owner[i], p) =>
                \/ Answered(owner[i], Stream[owner[i]][p].req)
                \/ p = done[owner[i]] /\ Ending(i)

\* What was read is parsed before SSL_read is called again
DrainedAt(i) ==
    pc # "exited" /\ ~(pc = "parse" /\ i = cur) =>
        done[owner[i]] = got[owner[i]] /\ ~Ending(i)

\* read_from_client does not leave a message that has begun, while the client stays
BegunAt(i) ==
    parser[i] = "message" =>
        /\ ~replied[i]
        /\ pc # "exited" /\ peer[owner[i]] = "open" => pc \in {"read", "parse"} /\ i = cur

PlacedAt(i) == EndAt(i) /\ StoppedAt(i) /\ AcceptedAt(i) /\ CountedAt(i) /\ AnsweredAt(i)

SettledAt(i) == owner[i] # None => PlacedAt(i) /\ DrainedAt(i) /\ BegunAt(i)

\* A connection that is open and through its handshake has a descriptor; one not
\* accepted has had no answer
Attached ==
    \A k \in Conns : /\ peer[k] = "open" /\ tls[k] = "done" => \E i \in Fds : owner[i] = k
                     /\ peer[k] \in {"unborn", "connecting"} => out[k] = <<>>

\* The answers on a connection are to its requests 1, 2, 3, ...: none is repeated or
\* overtaken, however records and reads cut them, and none is skipped, but by a request
\* for an upgrade, with which the rest of its read is dropped
AnswersInOrder ==
    \A k \in Conns : \A j \in DOMAIN out[k] :
        Follows(k, IF j = 1 THEN 0 ELSE out[k][j - 1], out[k][j])

\* No request is answered that has bytes the parser rejects, and none behind such bytes
\* or behind a message that ends the connection, if the parser has seen them
SilentAfterEnd ==
    \A k \in Conns : \A j \in DOMAIN out[k] : \A p \in DOMAIN Stream[k] :
        LET s == Stream[k][p] IN
        /\ s.req = out[k][j] => ~s.junk
        /\ s.req < out[k][j] => (s.keep /\ ~s.junk) \/ BehindUpgrade(k, p)

AnswerInv ==
    Inv /\ (\A i \in Fds : SettledAt(i)) /\ Attached /\ AnswersInOrder /\ SilentAfterEnd

\* The server waits in select, and nothing can wake it but a client
Waits == pc = "select" /\ \A i \in Fds \cup {Listen} : ~Readable(i)

\* Whenever the server waits in select, it owes its clients nothing: every request
\* sent whole, and not behind one for an upgrade, by a client that is still there is
\* answered, unless it lies inside SSL behind the end of a read, and no descriptor is
\* held for a client that has gone
NothingOwed ==
    Waits => \A k \in Conns :
        /\ \A r \in Nat : RequestSent(k, r) /\ Present(k) => Answered(k, r) \/ Stranded(k)
        /\ Ended(k) => \A i \in Fds : owner[i] # k

LEMMA AnswerInit == Init => AnswerInv
BY InvInit, NoneAssumption
   DEF Init, AnswerInv, SettledAt, Attached, AnswersInOrder, SilentAfterEnd, Fds

\* A parser that stays where it is
LEMMA SamePlace ==
    ASSUME NEW i \in Fds, PlacedAt(i), owner'[i] = owner[i], parser'[i] = parser[i],
           done'[owner[i]] = done[owner[i]], out'[owner[i]] = out[owner[i]],
           peer'[owner[i]] = "open" => peer[owner[i]] = "open"
    PROVE  PlacedAt(i)'
<1> USE DEF PlacedAt
<1>1. EndAt(i)' /\ StoppedAt(i)'
      BY DEF EndAt, StoppedAt, AtEnd
<1>2. Request(i)' = Request(i)
      BY DEF Request, NextReq
<1>3. AcceptedAt(i)'
      BY <1>2 DEF AcceptedAt, BehindUpgrade
<1>4. CountedAt(i)'
      BY <1>2 DEF CountedAt, Follows, Upgraded, LastReq
<1>5. AnsweredAt(i)'
      BY DEF AnsweredAt, GoodTo, Answered
<1> QED BY <1>1, <1>3, <1>4, <1>5

\* A descriptor whose connection is not touched stays settled
LEMMA StaysSettled ==
    ASSUME AnswerInv, NEW i \in Fds,
           owner'[i] = owner[i], parser'[i] = parser[i], replied'[i] = replied[i],
           owner[i] # None =>
              /\ done'[owner[i]] = done[owner[i]] /\ got'[owner[i]] = got[owner[i]]
              /\ out'[owner[i]] = out[owner[i]]
              /\ peer'[owner[i]] = "open" => peer[owner[i]] = "open",
           pc' # "exited" => pc # "exited",
           pc' # "exited" /\ i = cur /\ pc = "parse" => i = cur' /\ pc' = "parse",
           pc' # "exited" /\ i = cur /\ pc = "read" => i = cur' /\ pc' \in {"read", "parse"}
    PROVE  SettledAt(i)'
<1> SUFFICES ASSUME owner[i] # None
             PROVE  (PlacedAt(i) /\ DrainedAt(i) /\ BegunAt(i))'
    BY DEF SettledAt
<1>1. PlacedAt(i)'
      BY SamePlace DEF AnswerInv, SettledAt
<1>2. DrainedAt(i)'
      BY DEF AnswerInv, SettledAt, DrainedAt
<1>3. BegunAt(i)'
      BY DEF AnswerInv, SettledAt, BegunAt
<1> QED BY <1>1, <1>2, <1>3

\* A step of read_from_client touches one connection
LEMMA OthersSettled ==
    ASSUME AnswerInv, pc \in {"accept", "read", "parse"},
           \A i \in Fds : i # cur => /\ owner'[i] = owner[i] /\ parser'[i] = parser[i]
                                     /\ replied'[i] = replied[i],
           \A k \in Conns : k # Conn =>
               /\ done'[k] = done[k] /\ got'[k] = got[k] /\ out'[k] = out[k]
               /\ peer'[k] = peer[k]
    PROVE  \A i \in Fds : i # cur => SettledAt(i)'
<1> SUFFICES ASSUME NEW i \in Fds, i # cur PROVE SettledAt(i)'
    OBVIOUS
<1>1. owner[i] # None => owner[i] \in Conns /\ owner[i] # Conn
      BY Serving DEF AnswerInv, Inv, TypeInv, TypeOK
<1> QED BY <1>1, StaysSettled

\* Steps that answer nothing and leave the connections alone
LEMMA Answerless ==
    ASSUME AnswerInv, UNCHANGED <<owner, out, tls>>,
           \A k \in Conns : peer'[k] = "open" => peer[k] = "open",
           \A k \in Conns : peer'[k] \in {"unborn", "connecting"} =>
               peer[k] \in {"unborn", "connecting"}
    PROVE  Attached' /\ AnswersInOrder' /\ SilentAfterEnd'
BY DEF AnswerInv, Attached, AnswersInOrder, SilentAfterEnd

LEMMA PieceAt ==
    ASSUME TypeInv, NEW k \in Conns, NEW p \in 1..sent[k]
    PROVE  /\ p \in DOMAIN Stream[k] /\ p \in Nat
           /\ Stream[k][p].req \in Nat
<1>1. sent[k] \in Nat /\ sent[k] <= Len(Stream[k]) /\ Stream[k] \in Seq(Piece)
      BY StreamAssumption DEF TypeInv, TypeOK
<1>2. p \in Nat /\ 1 <= p /\ p <= Len(Stream[k]) /\ Len(Stream[k]) \in Nat
      BY <1>1
<1>3. p \in DOMAIN Stream[k]
      BY <1>1, <1>2
<1>4. Stream[k][p] \in Piece
      BY <1>2, PieceType
<1> QED BY <1>2, <1>3, <1>4 DEF Piece

\* The piece the parser is at belongs to the request it is in
LEMMA NextReqIs ==
    ASSUME TypeInv, NEW k \in Conns, done[k] < sent[k]
    PROVE  Stream[k][done[k] + 1].req = NextReq(k, done[k])
<1> DEFINE d == done[k]
<1>1. d \in Nat /\ sent[k] \in Nat /\ d < sent[k]
      BY DEF TypeInv, TypeOK
<1>2. d + 1 \in DOMAIN Stream[k] /\ (d > 0 => d \in DOMAIN Stream[k])
  <2>1. d + 1 \in 1..sent[k] /\ (d > 0 => d \in 1..sent[k])
        BY <1>1
  <2> QED BY <2>1, PieceAt
<1>3. CASE d = 0
      BY <1>2, <1>3, NumberAssumption DEF NextReq
<1>4. CASE d > 0
  <2>1. Stream[k][d + 1].req = IF Stream[k][d].last THEN Stream[k][d].req + 1 ELSE Stream[k][d].req
        BY <1>2, <1>4, NumberAssumption
  <2> QED BY <2>1, <1>4 DEF NextReq
<1> QED BY <1>1, <1>3, <1>4

\* Where a request begins, nothing of it lies behind
LEMMA NothingBehind ==
    ASSUME NEW k \in Conns, NEW d \in Nat, d <= Len(Stream[k]), d > 0 => Stream[k][d].last,
           NEW q \in 1..d
    PROVE  Stream[k][q].req # NextReq(k, d)
<1>1. /\ d > 0 /\ NextReq(k, d) = Stream[k][d].req + 1
      /\ q \in DOMAIN Stream[k] /\ d \in DOMAIN Stream[k] /\ q <= d /\ q \in Nat
      BY StreamAssumption DEF NextReq
<1>2. Stream[k][q].req \in Nat /\ Stream[k][d].req \in Nat
  <2>1. Stream[k] \in Seq(Piece)
        BY StreamAssumption
  <2>2. Stream[k][q] \in Piece /\ Stream[k][d] \in Piece
        BY <1>1, <2>1
  <2> QED BY <2>2 DEF Piece
<1>3. q < d => Stream[k][q].req <= Stream[k][d].req
      BY <1>1, NumberAssumption
<1> QED BY <1>1, <1>2, <1>3

\* on_body and the other data callbacks
LEMMA DataSettled == ASSUME AnswerInv, OnData PROVE SettledAt(cur)'
<1> DEFINE k == Conn
           d == done[k]
<1>0. TypeInv
      BY DEF AnswerInv, Inv
<1>1. /\ cur \in Fds /\ k \in Conns /\ owner[cur] = k /\ owner[cur] # None
      /\ d \in Nat /\ got[k] \in Nat /\ sent[k] \in Nat /\ d < got[k] /\ got[k] <= sent[k]
      /\ parser[cur] = "message" /\ ~Stream[k][d + 1].junk /\ pc = "parse"
      BY <1>0, Serving DEF OnData, Unparsed, At1, TypeInv, TypeOK
<1>2. /\ done'[k] = d + 1
      /\ parser'[cur] = IF Stream[k][d + 1].last THEN "complete" ELSE "message"
      /\ UNCHANGED <<pc, cur, owner, replied, peer, got, out>>
      BY <1>0, <1>1 DEF OnData, At1, contexts, clients, call, streams, TypeInv, TypeOK
<1>3. /\ AcceptedAt(cur) /\ CountedAt(cur) /\ AnsweredAt(cur) /\ BegunAt(cur)
      BY <1>1 DEF AnswerInv, SettledAt, PlacedAt
<1>4. d + 1 \in DOMAIN Stream[k] /\ Stream[k][d + 1].req = NextReq(k, d)
  <2>1. d + 1 \in 1..sent[k]
        BY <1>1
  <2> QED BY <1>0, <1>1, <2>1, PieceAt, NextReqIs
<1>5. Request(cur) = NextReq(k, d)
      BY <1>1 DEF Request
<1> HIDE DEF k, d
<1>6. Request(cur)' = NextReq(k, d)
      BY <1>1, <1>2, <1>4 DEF Request, NextReq
<1>7. EndAt(cur)' /\ StoppedAt(cur)'
      BY <1>1, <1>2 DEF EndAt, StoppedAt, AtEnd
<1>8. AcceptedAt(cur)'
  <2>1. \A p \in 1..d : /\ ~Stream[k][p].junk \/ BehindUpgrade(k, p)
                        /\ Stream[k][p].keep \/ BehindUpgrade(k, p)
                        /\ Stream[k][p].req = NextReq(k, d) => ~Stream[k][p].junk
        BY <1>1, <1>3, <1>5 DEF AcceptedAt, d, k
  <2>2. Stream[k][d + 1].keep \/ Stream[k][d + 1].last
        BY <1>1, <1>4, KeepAssumption
  <2>3. \A p \in 1..(d + 1) : p \in 1..d \/ p = d + 1
        BY <1>1
  <2> QED BY <1>1, <1>2, <1>6, <2>1, <2>2, <2>3 DEF AcceptedAt
<1>9. CountedAt(cur)'
  <2>1. peer[k] = "open" => Follows(k, LastReq(k), NextReq(k, d))
        BY <1>1, <1>3, <1>5 DEF CountedAt
  <2> QED BY <1>1, <1>2, <1>6, <2>1 DEF CountedAt, LastReq
<1>10. AnsweredAt(cur)'
  <2>1. SUFFICES ASSUME peer[k] = "open", NEW p \in 1..(d + 1), Stream[k][p].last, GoodTo(k, p)
                 PROVE  \/ Answered(k, Stream[k][p].req)
                        \/ p = d + 1 /\ parser'[cur] = "complete"
        BY <1>1, <1>2 DEF AnsweredAt, GoodTo, Answered
  <2>2. CASE p = d + 1
        BY <2>1, <2>2, <1>2
  <2>3. CASE p \in 1..d
        BY <2>1, <2>3, <1>1, <1>3 DEF AnsweredAt, d, k
  <2> QED BY <1>1, <2>2, <2>3
<1>11. DrainedAt(cur)' /\ BegunAt(cur)'
      BY <1>1, <1>2, <1>3 DEF DrainedAt, BegunAt
<1> QED BY <1>7, <1>8, <1>9, <1>10, <1>11 DEF SettledAt, PlacedAt

LEMMA AppendFacts ==
    ASSUME NEW q \in Seq(Nat), NEW e \in Nat
    PROVE  /\ Append(q, e) # <<>> /\ Len(Append(q, e)) = Len(q) + 1 /\ Len(q) \in Nat
           /\ Append(q, e)[Len(q) + 1] = e /\ Len(q) + 1 \in DOMAIN Append(q, e)
           /\ \A n \in DOMAIN q : /\ Append(q, e)[n] = q[n] /\ n \in DOMAIN Append(q, e)
                                  /\ n # 1 => Append(q, e)[n - 1] = q[n - 1]
           /\ \A n \in DOMAIN Append(q, e) : n \in DOMAIN q \/ n = Len(q) + 1
           /\ q # <<>> => Len(q) # 0
           /\ q = <<>> => Len(q) = 0
OBVIOUS

\* What a reply does, and to which request
LEMMA ReplyFacts ==
    ASSUME AnswerInv, Reply, NEW k, k = Conn, NEW d, d = done[k], NEW r, r = Stream[k][d].req
    PROVE  /\ cur \in Fds /\ k \in Conns /\ owner[cur] = k /\ owner[cur] # None
           /\ d \in Nat /\ d > 0 /\ Stream[k][d].last /\ r \in Nat
           /\ Len(Stream[k]) \in Nat /\ d <= Len(Stream[k]) /\ got[k] <= Len(Stream[k])
           /\ got[k] \in Nat /\ d <= got[k] /\ Ending(cur) /\ pc = "parse"
           /\ out[k] \in Seq(Nat) /\ Request(cur) = r /\ PlacedAt(cur)
           /\ parser'[cur] = IF Stream[k][d].keep THEN "start" ELSE "dead"
           /\ pc' \in {"parse", "exited"} /\ cur' = cur /\ UNCHANGED <<owner, got>>
           /\ peer'[k] = "open" => peer[k] = "open"
           /\ \A c \in Conns : c # k => out'[c] = out[c]
           /\ out'[k] = IF peer[k] = "open" THEN Append(out[k], r) ELSE out[k]
           /\ done'[k] = IF Stream[k][d].upgrade THEN got[k] ELSE d
<1>0. TypeInv
      BY DEF AnswerInv, Inv
<1>1. /\ cur \in Fds /\ k \in Conns /\ owner[cur] = k /\ owner[cur] # None
      /\ d \in Nat /\ got[k] \in Nat /\ sent[k] \in Nat /\ d <= got[k] /\ got[k] <= sent[k]
      /\ sent[k] <= Len(Stream[k])
      /\ Ending(cur) /\ pc = "parse" /\ out[k] \in Seq(Nat)
      BY <1>0, Serving DEF Reply, TypeInv, TypeOK
<1>2. PlacedAt(cur)
      BY <1>1 DEF AnswerInv, SettledAt
<1>3. d > 0 /\ Stream[k][d].last
      BY <1>1, <1>2 DEF PlacedAt, EndAt, AtEnd
<1>4. r \in Nat /\ Len(Stream[k]) \in Nat
  <2>1. d \in 1..sent[k]
        BY <1>1, <1>3
  <2> QED BY <1>0, <1>1, <2>1, PieceAt, StreamAssumption
<1>5. Request(cur) = r
      BY <1>1 DEF Request
<1>6. /\ parser'[cur] = IF Stream[k][d].keep THEN "start" ELSE "dead"
      /\ pc' \in {"parse", "exited"} /\ cur' = cur /\ UNCHANGED <<owner, got>>
      /\ peer'[k] = "open" => peer[k] = "open"
      /\ \A c \in Conns : c # k => out'[c] = out[c]
      /\ out'[k] = IF peer[k] = "open" THEN Append(out[k], r) ELSE out[k]
      /\ done'[k] = IF Stream[k][d].upgrade THEN got[k] ELSE d
  <2>1. /\ parser' = [parser EXCEPT ![cur] = IF Stream[k][d].keep THEN "start" ELSE "dead"]
        /\ pc' \in {"parse", "exited"} /\ cur' = cur /\ UNCHANGED <<owner, got>>
        /\ peer' = IF peer[k] = "closed" THEN [peer EXCEPT ![k] = "gone"] ELSE peer
        /\ out' = IF peer[k] = "open" THEN [out EXCEPT ![k] = Append(@, r)] ELSE out
        /\ done' = IF Stream[k][d].upgrade THEN [done EXCEPT ![k] = got[k]] ELSE done
        BY DEF Reply, call
  <2>2. /\ parser \in [Fds -> {"start", "message", "complete", "writing", "dead", "error"}]
        /\ DOMAIN peer = Conns /\ DOMAIN out = Conns /\ DOMAIN done = Conns
        BY <1>0 DEF TypeInv, TypeOK
  <2> QED BY <1>1, <2>1, <2>2
<1>7. d <= Len(Stream[k]) /\ got[k] <= Len(Stream[k])
      BY <1>1, <1>4
<1> QED BY <1>1, <1>2, <1>3, <1>4, <1>5, <1>6, <1>7

\* The answer goes to a request that may be the next of its connection, whose bytes and
\* whose forerunners the parser has accepted
LEMMA ReplySettled ==
    ASSUME AnswerInv, Reply
    PROVE  SettledAt(cur)' /\ AnswersInOrder' /\ SilentAfterEnd'
<1> DEFINE k == Conn
           d == done[k]
           r == Stream[k][d].req
<1>1. /\ cur \in Fds /\ k \in Conns /\ owner[cur] = k /\ owner[cur] # None
      /\ d \in Nat /\ d > 0 /\ Stream[k][d].last /\ r \in Nat
      /\ Len(Stream[k]) \in Nat /\ d <= Len(Stream[k]) /\ got[k] <= Len(Stream[k])
      /\ got[k] \in Nat /\ d <= got[k] /\ Ending(cur) /\ pc = "parse"
      /\ out[k] \in Seq(Nat) /\ Request(cur) = r /\ PlacedAt(cur)
      BY ReplyFacts
<1>2. /\ parser'[cur] = IF Stream[k][d].keep THEN "start" ELSE "dead"
      /\ pc' \in {"parse", "exited"} /\ cur' = cur /\ UNCHANGED <<owner, got>>
      /\ peer'[k] = "open" => peer[k] = "open"
      /\ \A c \in Conns : c # k => out'[c] = out[c]
      /\ out'[k] = IF peer[k] = "open" THEN Append(out[k], r) ELSE out[k]
      /\ done'[k] = IF Stream[k][d].upgrade THEN got[k] ELSE d
      BY ReplyFacts
<1>3. AcceptedAt(cur) /\ CountedAt(cur) /\ AnsweredAt(cur)
      BY <1>1 DEF PlacedAt
<1>4. \A p \in 1..d : /\ ~Stream[k][p].junk \/ BehindUpgrade(k, p)
                      /\ Stream[k][p].keep \/ BehindUpgrade(k, p) \/ p = d
                      /\ Stream[k][p].req = r => ~Stream[k][p].junk
      BY <1>1, <1>3 DEF AcceptedAt
<1>5. peer[k] = "open" => Follows(k, LastReq(k), r)
      BY <1>1, <1>3 DEF CountedAt
<1>6. /\ d \in 1..done'[k] /\ (done'[k] = d \/ Stream[k][d].upgrade)
      /\ done'[k] \in Nat
      BY <1>1, <1>2
<1>7. DOMAIN Stream[k] = 1..Len(Stream[k])
      BY <1>1, StreamAssumption
<1> HIDE DEF k, d, r
<1>8. EndAt(cur)' /\ StoppedAt(cur)'
  <2>1. parser'[cur] = "dead" => \E q \in 1..done'[k] : ~Stream[k][q].keep
        BY <1>2, <1>6
  <2>2. Stream[k][done'[k]].last \/ \E q \in 1..done'[k] : Stream[k][q].upgrade
        BY <1>1, <1>6
  <2>3. parser'[cur] \in {"start", "dead"} /\ owner'[cur] = k /\ done'[k] > 0
        BY <1>1, <1>2, <1>6
  <2> QED BY <1>2, <2>1, <2>2, <2>3 DEF EndAt, StoppedAt, AtEnd
<1>9. AcceptedAt(cur)'
  <2>1. SUFFICES ASSUME Stream[k][d].keep, NEW p \in 1..done'[k]
                 PROVE  /\ ~Stream[k][p].junk \/ BehindUpgrade(k, p)
                        /\ Stream[k][p].keep \/ BehindUpgrade(k, p)
        BY <1>1, <1>2 DEF AcceptedAt
  <2>2. CASE p \in 1..d
        BY <2>1, <2>2, <1>4
  <2>3. CASE p \notin 1..d
    <3>1. Stream[k][d].upgrade /\ d \in 1..(p - 1)
          BY <2>1, <2>3, <1>1, <1>2
    <3> QED BY <3>1 DEF BehindUpgrade
  <2> QED BY <2>2, <2>3
<1>10. CountedAt(cur)'
  <2> DEFINE l == IF out'[k] = <<>> THEN 0 ELSE out'[k][Len(out'[k])]
  <2>1. SUFFICES ASSUME peer[k] = "open"
                 PROVE  Follows(k, l, NextReq(k, done'[k]))
    <3>1. owner'[cur'] = k /\ parser'[cur'] \in {"start", "dead"}
          BY <1>1, <1>2
    <3>2. LastReq(owner[cur])' = l
          BY <3>1 DEF LastReq
    <3>3. parser'[cur'] = "start" => Request(cur)' = NextReq(k, done'[k])
          BY <3>1 DEF Request, NextReq
    <3> HIDE DEF l
    <3> QED BY <1>2, <3>1, <3>2, <3>3 DEF CountedAt, Follows, Upgraded
  <2>2. l = r
    <3>1. out'[k] = Append(out[k], r)
          BY <2>1, <1>2
    <3>2. /\ Append(out[k], r) # <<>> /\ Len(Append(out[k], r)) = Len(out[k]) + 1
          /\ Append(out[k], r)[Len(out[k]) + 1] = r
          BY <1>1, AppendFacts
    <3> QED BY <3>1, <3>2
  <2> HIDE DEF l
  <2>3. NextReq(k, d) = r + 1
        BY <1>1 DEF NextReq, r
  <2>4. Stream[k][d].upgrade => Upgraded(k, r)
        BY <1>1, <1>7 DEF Upgraded, r
  <2>5. r < NextReq(k, got[k]) /\ NextReq(k, got[k]) \in Nat
    <3>1. CASE got[k] = d
          BY <3>1, <2>3, <1>1
    <3>2. CASE got[k] # d
      <4>1. got[k] \in DOMAIN Stream[k] /\ d \in DOMAIN Stream[k] /\ d < got[k]
            BY <3>2, <1>1, <1>7
      <4>2. r < Stream[k][got[k]].req
            BY <4>1, <1>1, NumberAssumption DEF r
      <4>3. Stream[k][got[k]].req \in Nat
            BY <4>1, <1>1, PieceType DEF Piece
      <4>4. NextReq(k, got[k]) \in {Stream[k][got[k]].req, Stream[k][got[k]].req + 1}
            BY <4>1, <1>1 DEF NextReq
      <4> QED BY <4>2, <4>3, <4>4, <1>1
    <3> QED BY <3>1, <3>2
  <2> QED BY <2>2, <2>3, <2>4, <2>5, <1>1, <1>2 DEF Follows
<1>11. AnsweredAt(cur)'
  <2>1. SUFFICES ASSUME peer'[k] = "open", NEW p \in 1..done'[k], Stream[k][p].last, GoodTo(k, p)
                 PROVE  \E n \in DOMAIN out'[k] : out'[k][n] = Stream[k][p].req
        BY <1>1, <1>2 DEF AnsweredAt, GoodTo, Answered
  <2>2. out'[k] = Append(out[k], r)
        BY <1>2, <2>1
  <2>3. CASE p = d
    <3>1. Append(out[k], r)[Len(out[k]) + 1] = r /\ Len(out[k]) + 1 \in DOMAIN Append(out[k], r)
          BY <1>1, AppendFacts
    <3>2. r = Stream[k][p].req
          BY <2>3 DEF r
    <3> QED BY <2>2, <3>1, <3>2
  <2>4. CASE p < d
    <3>1. Answered(k, Stream[k][p].req)
      <4>1. p \in 1..d /\ p # d
            BY <1>1, <2>1, <2>4
      <4> QED BY <1>1, <1>2, <1>3, <2>1, <4>1 DEF AnsweredAt, d
    <3>2. PICK n \in DOMAIN out[k] : out[k][n] = Stream[k][p].req
          BY <3>1 DEF Answered
    <3>3. n \in DOMAIN Append(out[k], r) /\ Append(out[k], r)[n] = out[k][n]
          BY <1>1, <3>2, AppendFacts
    <3> QED BY <2>2, <3>2, <3>3
  <2>5. CASE d < p
    <3>1. Stream[k][d].upgrade /\ d \in 1..(p - 1)
          BY <1>1, <1>2, <2>1, <2>5
    <3> QED BY <3>1, <2>1 DEF GoodTo
  <2> QED BY <1>1, <1>6, <2>1, <2>3, <2>4, <2>5
<1>12. DrainedAt(cur)' /\ BegunAt(cur)'
      BY <1>1, <1>2 DEF DrainedAt, BegunAt
<1>13. \A c \in Conns : \A n \in DOMAIN out'[c] :
          \/ n \in DOMAIN out[c] /\ out'[c][n] = out[c][n]
          \/ c = k /\ peer[k] = "open" /\ n = Len(out[k]) + 1 /\ out'[c][n] = r
  <2>1. ASSUME peer[k] = "open", NEW n \in DOMAIN out'[k]
        PROVE  \/ n \in DOMAIN out[k] /\ out'[k][n] = out[k][n]
               \/ n = Len(out[k]) + 1 /\ out'[k][n] = r
        BY <1>1, <1>2, <2>1, AppendFacts
  <2> QED BY <1>1, <1>2, <2>1
<1>14. AnswersInOrder'
  <2>1. SUFFICES ASSUME NEW c \in Conns, NEW n \in DOMAIN out'[c]
                 PROVE  Follows(c, IF n = 1 THEN 0 ELSE out'[c][n - 1], out'[c][n])
        BY DEF AnswersInOrder
  <2>2. CASE out'[c] = out[c]
    <3>1. Follows(c, IF n = 1 THEN 0 ELSE out[c][n - 1], out[c][n])
          BY <2>1, <2>2 DEF AnswerInv, AnswersInOrder
    <3> QED BY <2>2, <3>1
  <2>3. CASE c = k /\ peer[k] = "open" /\ n \in DOMAIN out[k]
    <3>1. out'[k][n] = out[k][n] /\ (n # 1 => out'[k][n - 1] = out[k][n - 1])
      <4>1. out'[k] = Append(out[k], r) /\ out[k] \in Seq(Nat) /\ r \in Nat
            BY <1>1, <1>2, <2>3
      <4>2. n \in DOMAIN out[k]
            BY <2>3
      <4> QED BY ONLY <4>1, <4>2, AppendFacts
    <3> QED BY <1>1, <2>3, <3>1 DEF AnswerInv, AnswersInOrder
  <2>4. CASE c = k /\ peer[k] = "open" /\ n \notin DOMAIN out[k]
    <3>1. n = Len(out[k]) + 1 /\ out'[k][n] = r
          BY <2>1, <2>4, <1>13
    <3>2. LastReq(k) = IF n = 1 THEN 0 ELSE out'[k][n - 1]
      <4>1. CASE out[k] = <<>>
            BY <1>1, <3>1, <4>1, AppendFacts DEF LastReq
      <4>2. CASE out[k] # <<>>
        <5>1. Len(out[k]) \in DOMAIN out[k] /\ n # 1 /\ n - 1 = Len(out[k])
              BY <1>1, <3>1, <4>2
        <5>2. out'[k][n - 1] = out[k][n - 1]
              BY <1>1, <1>2, <2>4, <5>1, AppendFacts
        <5> QED BY <4>2, <5>1, <5>2 DEF LastReq
      <4> QED BY <4>1, <4>2
    <3> QED BY <1>5, <2>4, <3>1, <3>2
  <2> QED BY <1>2, <2>1, <2>2, <2>3, <2>4
<1>15. \A p \in DOMAIN Stream[k] :
          /\ Stream[k][p].req = r => ~Stream[k][p].junk
          /\ Stream[k][p].req < r =>
                 (Stream[k][p].keep /\ ~Stream[k][p].junk) \/ BehindUpgrade(k, p)
  <2> SUFFICES ASSUME NEW p \in DOMAIN Stream[k]
               PROVE  /\ Stream[k][p].req = r => ~Stream[k][p].junk
                      /\ Stream[k][p].req < r =>
                             (Stream[k][p].keep /\ ~Stream[k][p].junk) \/ BehindUpgrade(k, p)
      OBVIOUS
  <2>1. p \in Nat /\ 1 <= p /\ Stream[k][p].req \in Nat
    <3>1. p \in Nat /\ 1 <= p /\ p <= Len(Stream[k])
          BY <1>1, <1>7
    <3>2. Stream[k][p] \in Piece
          BY <1>1, <3>1, PieceType
    <3> QED BY <3>1, <3>2 DEF Piece
  <2>2. CASE d < p
    <3>1. d \in DOMAIN Stream[k]
          BY <1>1, <1>7
    <3>2. r < Stream[k][p].req
          BY <1>1, <2>2, <3>1, NumberAssumption DEF r
    <3> QED BY <1>1, <2>1, <3>2
  <2>3. CASE p = d
        BY <1>1, <1>4, <2>1, <2>3 DEF r
  <2>4. CASE p < d
        BY <1>1, <1>4, <2>1, <2>4
  <2> QED BY <1>1, <2>1, <2>2, <2>3, <2>4
<1>16. SilentAfterEnd'
      BY <1>13, <1>15 DEF AnswerInv, SilentAfterEnd
<1> QED BY <1>8, <1>9, <1>10, <1>11, <1>12, <1>14, <1>16 DEF SettledAt, PlacedAt

\* An SSL_write that blocks leaves the message complete and not answered
LEMMA BlockSettled == ASSUME AnswerInv, WriteBlocks PROVE SettledAt(cur)'
<1>1. /\ cur \in Fds /\ owner[cur] # None /\ PlacedAt(cur) /\ pc = "parse"
      /\ parser[cur] = "complete" /\ parser'[cur] = "writing"
      /\ UNCHANGED <<pc, cur, owner, replied, peer, got, done, out>>
      BY Serving
      DEF WriteBlocks, AnswerInv, Inv, TypeInv, TypeOK, SettledAt, clients, call, streams
<1>2. Request(cur)' = Request(cur)
      BY <1>1 DEF Request
<1>3. EndAt(cur)' /\ StoppedAt(cur)'
      BY <1>1 DEF PlacedAt, EndAt, StoppedAt, AtEnd
<1>4. AcceptedAt(cur)'
      BY <1>1, <1>2 DEF PlacedAt, AcceptedAt
<1>5. CountedAt(cur)'
      BY <1>1, <1>2 DEF PlacedAt, CountedAt, LastReq
<1>6. AnsweredAt(cur)'
      BY <1>1 DEF PlacedAt, AnsweredAt, GoodTo, Answered
<1>7. DrainedAt(cur)' /\ BegunAt(cur)'
      BY <1>1 DEF DrainedAt, BegunAt
<1> QED BY <1>3, <1>4, <1>5, <1>6, <1>7 DEF SettledAt, PlacedAt

\* What is dropped lies behind bytes that are rejected, behind the end of the connection
\* or behind a request for an upgrade
LEMMA RejectSettled == ASSUME AnswerInv, Reject PROVE SettledAt(cur)'
<1> DEFINE k == Conn
           d == done[k]
<1>0. TypeInv
      BY DEF AnswerInv, Inv
<1>1. /\ cur \in Fds /\ k \in Conns /\ owner[cur] = k /\ owner[cur] # None
      /\ d \in Nat /\ got[k] \in Nat /\ d < got[k]
      /\ \/ parser[cur] \in {"dead", "error"} \/ Stream[k][d + 1].junk
         \/ parser[cur] = "start" /\ ~AtRequest
      /\ ~Ending(cur) /\ pc = "parse"
      BY <1>0, Serving DEF Reject, Unparsed, At1, TypeInv, TypeOK
<1>2. /\ done'[k] = got[k] /\ parser'[cur] = "error"
      /\ UNCHANGED <<pc, cur, owner, peer, got, out>>
      BY <1>0, <1>1 DEF Reject, contexts, clients, call, streams, TypeInv, TypeOK
<1>3. StoppedAt(cur) /\ AnsweredAt(cur)
      BY <1>1 DEF AnswerInv, SettledAt, PlacedAt
<1>4. PICK b \in 1..got[k] :
          /\ Stream[k][b].junk \/ ~Stream[k][b].keep \/ Stream[k][b].upgrade
          /\ b <= d \/ (b = d + 1 /\ Stream[k][b].junk)
  <2>1. CASE parser[cur] \in {"dead", "error"}
    <3>1. PICK b \in 1..d : Stream[k][b].junk \/ ~Stream[k][b].keep \/ Stream[k][b].upgrade
          BY <1>1, <1>3, <2>1 DEF StoppedAt
    <3>2. b \in 1..got[k] /\ b <= d
          BY <1>1
    <3> QED BY <3>1, <3>2
  <2>2. CASE Stream[k][d + 1].junk
    <3>1. d + 1 \in 1..got[k]
          BY <1>1
    <3> QED BY <2>2, <3>1
  <2>3. CASE parser[cur] = "start" /\ ~AtRequest
    <3>1. PICK b \in 1..d : Stream[k][b].upgrade
          BY <1>1, <1>3, <2>3 DEF StoppedAt, AtRequest, AtEnd
    <3>2. b \in 1..got[k] /\ b <= d
          BY <1>1
    <3> QED BY <3>1, <3>2
  <2> QED BY <1>1, <2>1, <2>2, <2>3
<1> HIDE DEF k, d
<1>5. EndAt(cur)' /\ CountedAt(cur)' /\ DrainedAt(cur)' /\ BegunAt(cur)' /\ AcceptedAt(cur)'
      BY <1>1, <1>2 DEF EndAt, CountedAt, DrainedAt, BegunAt, AcceptedAt
<1>6. StoppedAt(cur)'
      BY <1>1, <1>2, <1>4 DEF StoppedAt
<1>7. AnsweredAt(cur)'
  <2>1. SUFFICES ASSUME peer[k] = "open", NEW p \in 1..got[k], Stream[k][p].last, GoodTo(k, p)
                 PROVE  Answered(k, Stream[k][p].req)
        BY <1>1, <1>2 DEF AnsweredAt, GoodTo, Answered
  <2>2. p <= b /\ (p = b => ~Stream[k][b].junk)
        BY <1>1, <1>4, <2>1 DEF GoodTo
  <2>3. p \in 1..d
        BY <1>1, <1>4, <2>2
  <2> QED BY <1>1, <1>3, <2>1, <2>3 DEF AnsweredAt, d, k
<1> QED BY <1>5, <1>6, <1>7 DEF SettledAt, PlacedAt

LEMMA AnswerStep == AnswerInv /\ [Next]_vars => AnswerInv'
<1> SUFFICES ASSUME AnswerInv, [Next]_vars PROVE AnswerInv'
    OBVIOUS
<1> DEFINE Goal == (\A i \in Fds : SettledAt(i)') /\ Attached' /\ AnswersInOrder' /\ SilentAfterEnd'
<1>0. Inv /\ Inv' /\ TypeInv /\ TypeOK
      BY InvStep DEF AnswerInv, Inv, TypeInv
<1> USE DEF contexts, clients, streams, call
<1>1. ASSUME NEW k \in Conns, Connect(k) \/ SendRecord(k) \/ Close(k) \/ Abort(k) PROVE Goal
  <2>1. /\ UNCHANGED <<pc, cur, owner, parser, replied, tls, got, done, out>>
        /\ \A c \in Conns : peer'[c] = "open" => peer[c] = "open"
        /\ \A c \in Conns : peer'[c] \in {"unborn", "connecting"} =>
               peer[c] \in {"unborn", "connecting"}
        BY <1>0, <1>1 DEF Connect, SendRecord, Close, Abort, TypeOK
  <2>2. \A i \in Fds : owner[i] # None => owner[i] \in Conns
        BY <1>0 DEF TypeOK
  <2>3. \A i \in Fds : SettledAt(i)'
        BY <2>1, <2>2, StaysSettled
  <2> QED BY <2>1, <2>3, Answerless
<1>2. ASSUME NEW k \in Conns, Hello(k) PROVE Goal
  <2>1. /\ UNCHANGED <<pc, cur, owner, parser, replied, peer, got, done, out>>
        /\ \A c \in Conns : tls'[c] = "done" => tls[c] = "done"
        BY <1>0, <1>2 DEF Hello, TypeOK
  <2>2. \A i \in Fds : SettledAt(i)'
        BY <2>1, StaysSettled
  <2> QED BY <2>1, <2>2 DEF AnswerInv, Attached, AnswersInOrder, SilentAfterEnd
<1>3. ASSUME Select \/ AcceptFails \/ \E i \in Fds : Serve(i) PROVE Goal
  <2>1. /\ UNCHANGED <<owner, parser, replied, peer, tls, got, done, out>>
        /\ pc \in {"select", "scan"}
        BY <1>3 DEF Select, AcceptFails, Serve, Turn
  <2>2. \A i \in Fds : SettledAt(i)'
        BY <2>1, StaysSettled
  <2> QED BY <2>1, <2>2, Answerless
<1>4. ASSUME NEW k \in Conns, Accept(k) PROVE Goal
  <2>1. PICK i \in Free : /\ owner' = [owner EXCEPT ![i] = k]
                          /\ parser' = [parser EXCEPT ![i] = "start"]
        BY <1>4 DEF Accept
  <2>2. /\ pc = "scan" /\ pc' = "accept"
        /\ peer[k] = "connecting" /\ peer' = [peer EXCEPT ![k] = "open"]
        /\ UNCHANGED <<replied, tls, sent, got, done, out>>
        BY <1>4 DEF Accept, Turn
  <2>3. /\ i \in Fds /\ owner[i] = None /\ k # None
        /\ owner'[i] = k /\ parser'[i] = "start"
        BY <1>0, <2>1, NoneAssumption DEF Free, TypeOK
  <2>4. done[k] = 0 /\ got[k] = 0 /\ out[k] = <<>> /\ tls[k] # "done"
    <3>1. tls[k] # "done"
          BY <1>0, <2>2 DEF TypeInv, Negotiated
    <3>2. /\ sent[k] = 0 /\ done[k] \in Nat /\ got[k] \in Nat
          /\ done[k] <= got[k] /\ got[k] <= sent[k]
          BY <1>0, <3>1 DEF TypeInv, TypeOK, Negotiated
    <3> QED BY <2>2, <3>1, <3>2 DEF AnswerInv, Attached
  <2>5. ASSUME NEW j \in Fds, j # i PROVE SettledAt(j)'
    <3>1. owner'[j] = owner[j] /\ parser'[j] = parser[j]
          BY <1>0, <2>1, <2>5 DEF TypeOK
    <3>2. owner[j] # None => owner[j] \in Conns /\ owner[j] # k
          BY <1>0, <2>2 DEF TypeInv, TypeOK, Owned
    <3> QED BY <1>0, <2>2, <3>1, <3>2, StaysSettled DEF TypeOK
  <2>6. SettledAt(i)'
    <3>1. Len(<<>>) = 0 /\ 1..0 = {}
          OBVIOUS
    <3> QED BY <2>2, <2>3, <2>4, <3>1
            DEF SettledAt, PlacedAt, EndAt, StoppedAt, AcceptedAt, CountedAt, Request, NextReq,
                LastReq, Follows, AnsweredAt, DrainedAt, BegunAt
  <2>7. Attached'
    <3> SUFFICES ASSUME NEW c \in Conns
                 PROVE  /\ peer'[c] = "open" /\ tls[c] = "done" => \E j \in Fds : owner'[j] = c
                        /\ peer'[c] \in {"unborn", "connecting"} => out[c] = <<>>
        BY <2>2 DEF Attached
    <3>1. CASE c = k
          BY <1>0, <2>2, <2>4, <3>1 DEF TypeOK
    <3>2. CASE c # k
      <4>1. peer'[c] = peer[c]
            BY <2>2, <3>2
      <4>2. \A j \in Fds : owner[j] = c => j # i /\ owner'[j] = c
            BY <1>0, <2>1, <2>3, NoneAssumption DEF TypeOK
      <4> QED BY <4>1, <4>2 DEF AnswerInv, Attached
    <3> QED BY <3>1, <3>2
  <2>8. AnswersInOrder' /\ SilentAfterEnd'
        BY <2>2 DEF AnswerInv, AnswersInOrder, SilentAfterEnd
  <2> QED BY <2>5, <2>6, <2>7, <2>8
\* What read_from_client works on
<1>5. ASSUME pc \in {"accept", "read", "parse"}
      PROVE  /\ cur \in Fds /\ Conn \in Conns /\ owner[cur] = Conn /\ owner[cur] # None
             /\ \A i \in Fds : i # cur => owner[i] # Conn
             /\ peer[Conn] \notin {"unborn", "connecting"}
             /\ SettledAt(cur)
      BY <1>0, <1>5, Serving DEF TypeInv, TypeOK, AnswerInv
<1>6. ASSUME Handshake PROVE Goal
  <2>1. /\ pc = "accept" /\ pc' = "read" /\ tls' = [tls EXCEPT ![Conn] = "done"]
        /\ UNCHANGED <<cur, owner, parser, replied, peer, got, done, out>>
        BY <1>6 DEF Handshake
  <2>2. \A i \in Fds : SettledAt(i)'
        BY <2>1, StaysSettled
  <2>3. Attached'
    <3>1. \A c \in Conns : c # Conn => tls'[c] = tls[c]
          BY <1>0, <2>1 DEF TypeOK
    <3> QED BY <1>5, <2>1, <3>1 DEF AnswerInv, Attached
  <2> QED BY <2>1, <2>2, <2>3 DEF AnswerInv, AnswersInOrder, SilentAfterEnd
<1>7. ASSUME HandshakeFails \/ ReadFails PROVE Goal
  <2>1. /\ pc \in {"accept", "read"} /\ pc' \in {"select", "scan"} /\ cur' = None
        /\ owner' \in {owner, [owner EXCEPT ![cur] = None]}
        /\ UNCHANGED <<replied, parser, peer, got, done, out>>
        BY <1>7 DEF HandshakeFails, ReadFails, Fail, Return, NextScan
  <2>2. \A i \in Fds : i # cur => SettledAt(i)'
        BY <1>0, <1>5, <2>1, OthersSettled DEF TypeOK
  <2>3. tls' = [tls EXCEPT ![Conn] = "failed"] \/ (tls' = tls /\ Ended(Conn))
        BY <1>7 DEF HandshakeFails, ReadFails
  <2>4. ASSUME NEW i \in Fds, i = cur, owner'[i] # None PROVE SettledAt(i)'
    <3>1. /\ owner[i] = Conn /\ owner'[i] = owner[i]
          /\ PlacedAt(i) /\ DrainedAt(i) /\ BegunAt(i)
          BY <1>0, <1>5, <2>1, <2>4 DEF SettledAt, TypeOK
    <3>2. PlacedAt(i)'
          BY <2>1, <3>1, SamePlace
    <3>3. DrainedAt(i)'
          BY <2>1, <3>1 DEF DrainedAt
    <3>4. parser[i] = "message" => peer[Conn] # "open"
      <4>1. ASSUME pc = "accept", parser[i] = "message" PROVE peer[Conn] # "open"
            BY <3>1, <4>1 DEF BegunAt
      <4>2. ASSUME pc = "read" PROVE peer[Conn] # "open"
            BY <1>7, <4>2 DEF HandshakeFails, ReadFails, Ended
      <4> QED BY <2>1, <4>1, <4>2
    <3>5. BegunAt(i)'
          BY <2>1, <3>1, <3>4 DEF BegunAt
    <3> QED BY <3>2, <3>3, <3>5 DEF SettledAt
  <2>5. Attached'
    <3> SUFFICES ASSUME NEW c \in Conns, peer[c] = "open", tls'[c] = "done"
                 PROVE  \E j \in Fds : owner'[j] = c
        BY <2>1 DEF AnswerInv, Attached
    <3>1. c # Conn /\ tls[c] = "done"
          BY <1>0, <1>5, <2>1, <2>3 DEF TypeOK, Ended
    <3>2. PICK j \in Fds : owner[j] = c
          BY <3>1 DEF AnswerInv, Attached
    <3>3. owner'[j] = c
          BY <1>0, <1>5, <2>1, <3>1, <3>2 DEF TypeOK
    <3> QED BY <3>3
  <2>6. AnswersInOrder' /\ SilentAfterEnd'
        BY <2>1 DEF AnswerInv, AnswersInOrder, SilentAfterEnd
  <2>7. \A i \in Fds : SettledAt(i)'
        BY <2>2, <2>4 DEF SettledAt
  <2> QED BY <2>5, <2>6, <2>7
<1>8. ASSUME Read PROVE Goal
  <2>1. /\ pc = "read" /\ pc' = "parse"
        /\ UNCHANGED <<cur, owner, parser, replied, peer, tls, done, out>>
        BY <1>8 DEF Read
  <2>2. \A i \in Fds : i # cur => SettledAt(i)'
        BY <1>0, <1>8, <2>1, ReadType, OthersSettled
  <2>3. SettledAt(cur)'
    <3> SUFFICES ASSUME NEW i \in Fds, i = cur PROVE SettledAt(i)'
        BY <1>5, <2>1
    <3>1. PlacedAt(i) /\ DrainedAt(i) /\ BegunAt(i)
          BY <1>5, <2>1 DEF SettledAt
    <3>2. PlacedAt(i)'
          BY <2>1, <3>1, SamePlace
    <3> QED BY <2>1, <3>1, <3>2 DEF SettledAt, DrainedAt, BegunAt
  <2> QED BY <2>1, <2>2, <2>3, Answerless
<1>9. ASSUME OnMessageBegin PROVE Goal
  <2>1. /\ pc = "parse" /\ parser[cur] = "start" /\ AtRequest
        /\ parser' = [parser EXCEPT ![cur] = "message"]
        /\ replied' = [replied EXCEPT ![cur] = FALSE]
        /\ UNCHANGED <<pc, cur, owner, peer, tls, got, done, out>>
        BY <1>9 DEF OnMessageBegin
  <2>2. \A i \in Fds : i # cur => SettledAt(i)'
        BY <1>0, <2>1, OthersSettled DEF TypeOK
  <2>3. SettledAt(cur)'
    <3> DEFINE k == Conn
               d == done[k]
    <3>1. parser'[cur] = "message" /\ ~replied'[cur]
          BY <1>0, <1>5, <2>1 DEF TypeOK
    <3>2. AcceptedAt(cur) /\ CountedAt(cur) /\ AnsweredAt(cur) /\ owner[cur] = k /\ k \in Conns
          BY <1>5, <2>1 DEF SettledAt, PlacedAt
    <3>3. EndAt(cur)' /\ StoppedAt(cur)' /\ DrainedAt(cur)' /\ BegunAt(cur)'
          BY <2>1, <3>1 DEF EndAt, StoppedAt, DrainedAt, BegunAt
    <3>4. Request(cur)' = NextReq(k, d) /\ Request(cur) = NextReq(k, d)
          BY <2>1, <3>1, <3>2 DEF Request, NextReq
    <3>5. AcceptedAt(cur)'
      <4>1. d \in Nat /\ d <= Len(Stream[k]) /\ (d > 0 => Stream[k][d].last)
        <5>1. /\ d \in Nat /\ got[k] \in Nat /\ sent[k] \in Nat /\ Len(Stream[k]) \in Nat
              /\ d <= got[k] /\ got[k] <= sent[k] /\ sent[k] <= Len(Stream[k])
              BY <1>0, <3>2, StreamAssumption DEF TypeOK
        <5> QED BY <5>1, <2>1 DEF AtRequest
      <4>2. \A p \in 1..d : Stream[k][p].req # NextReq(k, d)
        <5> HIDE DEF d, k
        <5> QED BY <3>2, <4>1, NothingBehind
      <4> QED BY <2>1, <3>1, <3>2, <3>4, <4>2 DEF AcceptedAt
    <3>6. CountedAt(cur)'
          BY <2>1, <3>1, <3>2, <3>4 DEF CountedAt, LastReq
    <3>7. AnsweredAt(cur)'
          BY <2>1, <3>1, <3>2 DEF AnsweredAt, GoodTo, Answered
    <3> QED BY <3>3, <3>5, <3>6, <3>7 DEF SettledAt, PlacedAt
  <2> QED BY <2>1, <2>2, <2>3, Answerless
<1>10. ASSUME OnData \/ Reject \/ WriteBlocks PROVE Goal
  <2>1. /\ pc = "parse" /\ UNCHANGED <<pc, cur, owner, peer, tls, got, out>>
        /\ \A i \in Fds : i # cur => parser'[i] = parser[i] /\ replied'[i] = replied[i]
        /\ \A c \in Conns : c # Conn => done'[c] = done[c]
        BY <1>0, <1>10 DEF OnData, Reject, WriteBlocks, TypeOK
  <2>2. \A i \in Fds : i # cur => SettledAt(i)'
        BY <2>1, OthersSettled
  <2>3. SettledAt(cur)'
        BY <1>10, DataSettled, RejectSettled, BlockSettled
  <2> QED BY <2>1, <2>2, <2>3, Answerless
<1>11. ASSUME Reply PROVE Goal
  <2>1. /\ pc = "parse" /\ UNCHANGED <<cur, owner, tls, got>>
        /\ \A i \in Fds : i # cur => parser'[i] = parser[i] /\ replied'[i] = replied[i]
        /\ \A c \in Conns : c # Conn => out'[c] = out[c] /\ peer'[c] = peer[c]
        /\ peer'[Conn] \in {peer[Conn], "gone"}
        BY <1>0, <1>5, <1>11 DEF Reply, TypeOK
  <2>2. \A c \in Conns : c # Conn => done'[c] = done[c]
    <3>1. done' = done \/ done' = [done EXCEPT ![Conn] = got[Conn]]
          BY <1>11 DEF Reply
    <3> QED BY <1>0, <3>1 DEF TypeOK
  <2>3. \A i \in Fds : i # cur => SettledAt(i)'
        BY <2>1, <2>2, OthersSettled
  <2>4. Attached'
        BY <1>5, <2>1 DEF AnswerInv, Attached
  <2> QED BY <1>11, <2>1, <2>3, <2>4, ReplySettled
<1>12. ASSUME Parsed PROVE Goal
  <2>1. /\ pc = "parse" /\ ~Unparsed /\ ~Ending(cur)
        /\ \/ pc' \in {"select", "scan"} /\ cur' = None /\ replied[cur]
           \/ pc' = "read" /\ cur' = cur
        /\ UNCHANGED <<owner, replied, parser, peer, tls, got, done, out>>
        BY <1>12 DEF Parsed, Return, NextScan
  <2>2. \A i \in Fds : i # cur => SettledAt(i)'
        BY <2>1, OthersSettled
  <2>3. ASSUME NEW i \in Fds, i = cur PROVE SettledAt(i)'
    <3>1. PlacedAt(i) /\ BegunAt(i) /\ owner[i] = Conn
          BY <1>5, <2>1, <2>3 DEF SettledAt
    <3>2. PlacedAt(i)'
          BY <2>1, <3>1, SamePlace
    <3>3. done[Conn] = got[Conn]
          BY <1>0, <1>5, <2>1 DEF Unparsed, TypeOK
    <3>4. DrainedAt(i)' /\ BegunAt(i)'
          BY <2>1, <2>3, <3>1, <3>3 DEF DrainedAt, BegunAt
    <3> QED BY <3>2, <3>4 DEF SettledAt
  <2> QED BY <2>1, <2>2, <2>3, Answerless
<1>13. ASSUME UNCHANGED vars PROVE Goal
  <2>1. \A i \in Fds : SettledAt(i)'
        BY <1>13, StaysSettled DEF vars
  <2> QED BY <1>13, <2>1, Answerless DEF vars
<1> HIDE DEF Goal
<1>14. Goal
      BY <1>1, <1>2, <1>3, <1>4, <1>6, <1>7, <1>8, <1>9, <1>10, <1>11, <1>12, <1>13
      DEF Next, Client, Server, ReadFromClient, OnMessageComplete, ClientReads, WriteFails
<1> QED BY <1>0, <1>14 DEF Goal, AnswerInv

\* However records and reads cut the requests of a connection, the answers follow their
\* order, and only a request for an upgrade makes one of them be skipped
\* (http_secured_server.cpp:36, on_message_complete_https_server)
THEOREM InOrder == Spec => []AnswersInOrder
<1>1. AnswerInv => AnswersInOrder
      BY DEF AnswerInv
<1> QED BY AnswerInit, AnswerStep, <1>1, PTL DEF Spec

\* Nothing is answered behind a message that ends its connection, nor from bytes the
\* parser rejected or behind them, although read_from_client ignores both and reads on
\* (http_secured_server.cpp:235)
THEOREM Silent == Spec => []SilentAfterEnd
<1>1. AnswerInv => SilentAfterEnd
      BY DEF AnswerInv
<1> QED BY AnswerInit, AnswerStep, <1>1, PTL DEF Spec

\* A server that waits in select has forgotten no request but one that a read left
\* inside SSL, where nothing but the next record of the client brings it to light: the
\* loop ends at the first reply without a look at SSL_pending
\* (http_secured_server.cpp:256)
THEOREM NothingForgotten == Spec => []NothingOwed
<1>1. AnswerInv => NothingOwed
  <2> SUFFICES ASSUME AnswerInv, Waits, NEW k \in Conns
               PROVE  /\ \A r \in Nat : RequestSent(k, r) /\ Present(k) =>
                             Answered(k, r) \/ Stranded(k)
                      /\ Ended(k) => \A i \in Fds : owner[i] # k
      BY DEF NothingOwed
  <2>1. peer[k] # "connecting"
        BY DEF Waits, Readable
  <2>2. k # None /\ \A i \in Fds : i # Listen
        BY NoneAssumption DEF Fds, Listen
  <2>3. Ended(k) => \A i \in Fds : owner[i] # k
        BY <2>2 DEF Waits, Readable
  <2>4. ASSUME NEW r \in Nat, RequestSent(k, r), peer[k] = "open"
        PROVE  Answered(k, r) \/ Stranded(k)
    <3>0. TypeInv
          BY DEF AnswerInv, Inv
    <3>1. PICK p \in 1..sent[k] : Stream[k][p].req = r /\ Stream[k][p].last /\ GoodTo(k, p)
          BY <2>4 DEF RequestSent, GoodTo
    <3>2. /\ sent[k] \in Nat /\ got[k] \in Nat /\ done[k] \in Nat
          /\ got[k] <= sent[k] /\ sent[k] <= Len(Stream[k]) /\ Len(Stream[k]) \in Nat
          BY <3>0, StreamAssumption DEF TypeInv, TypeOK
    <3>3. tls[k] = "done"
          BY <3>0, <3>1, <3>2 DEF TypeInv, Negotiated
    <3>4. PICK i \in Fds : owner[i] = k
          BY <2>4, <3>3 DEF AnswerInv, Attached
    <3>5. EndAt(i) /\ StoppedAt(i) /\ AnsweredAt(i) /\ DrainedAt(i) /\ BegunAt(i)
          BY <2>2, <3>4 DEF AnswerInv, SettledAt, PlacedAt
    <3>6. pc = "select" /\ ~InSocket(k)
          BY <2>2, <3>4 DEF Waits, Readable
    <3>7. done[k] = got[k] /\ parser[i] \in {"start", "dead", "error"}
      <4>1. parser[i] \in {"start", "message", "complete", "writing", "dead", "error"}
            BY <3>0 DEF TypeInv, TypeOK
      <4> QED BY <2>4, <3>4, <3>5, <3>6, <4>1 DEF DrainedAt, BegunAt
    <3>8. CASE p <= done[k]
      <4>1. p \in 1..done[k]
            BY <3>1, <3>2, <3>8
      <4> QED BY <2>4, <3>1, <3>4, <3>5, <3>7, <4>1 DEF AnsweredAt
    <3>9. CASE done[k] < p
      <4>0. \A q \in 1..done[k] :
                ~Stream[k][q].junk /\ Stream[k][q].keep /\ ~Stream[k][q].upgrade
        <5>1. \A q \in 1..done[k] : q \in 1..p /\ q \in 1..(p - 1)
              BY <3>2, <3>9
        <5> QED BY <3>1, <5>1 DEF GoodTo
      <4>1. parser[i] = "start"
            BY <3>4, <3>5, <3>7, <4>0 DEF StoppedAt
      <4>2. got[k] < sent[k]
            BY <3>1, <3>2, <3>7, <3>9
      <4>3. RecordEnd(k, got[k]) <= sent[k] /\ RecordEnd(k, got[k]) \in Nat
        <5>1. EndsRecord(k, sent[k])
              BY <3>0 DEF TypeInv, Whole
        <5> QED BY <3>2, <5>1, RecordEndLeast, RecordEndType
      <4>4. sent[k] = RecordEnd(k, got[k])
            BY <3>2, <3>6, <4>3 DEF InSocket
      <4>5. got[k] > 0
            BY <3>2, <4>2, <4>4 DEF RecordEnd
      <4>6. Stream[k][got[k]].last
            BY <3>4, <3>5, <3>7, <4>0, <4>1, <4>5 DEF StoppedAt, AtEnd
      <4> QED BY <4>2, <4>4, <4>5, <4>6 DEF Stranded
    <3> QED BY <3>1, <3>2, <3>8, <3>9
  <2> QED BY <2>1, <2>3, <2>4 DEF Present
<1> QED BY AnswerInit, AnswerStep, <1>1, PTL DEF Spec

-----------------------------------------------------------------------------
\* Work that ends

\* What is left to do for the connection being served, given what was sent on it
Rank(s) ==
    IF s = "complete" THEN 3
    ELSE IF s = "writing" THEN 2
    ELSE IF s = "start" THEN 1 ELSE 0
Step(p) == IF p = "accept" THEN 2 ELSE IF p = "parse" THEN 1 ELSE 0
Left == 9 * (sent[Conn] - got[Conn]) + 5 * (got[Conn] - done[Conn]) + Rank(parser[cur]) + Step(pc)

InCall == pc \in {"accept", "read", "parse"}

\* Each step of the server that is not in select ends something: the process, a
\* descriptor's turn, a call of read_from_client, or a part of its work
WorkEnds ==
    (Server \/ ClientReads) /\ pc # "select" =>
        \/ pc' = "exited"
        \/ ready' \subseteq ready /\ ready' # ready
        \/ ready' = ready /\ InCall /\ ~InCall'
        \/ ready' = ready /\ InCall /\ InCall' /\ Left' \in Nat /\ Left' < Left

LEMMA RankType == ASSUME NEW s PROVE Rank(s) \in 0..3
BY DEF Rank

LEMMA StepType == ASSUME NEW p PROVE Step(p) \in 0..2
BY DEF Step

\* One of the three parts of the measure goes down
LEMMA LeftLess ==
    \A s, g, d, h, e \in Nat : \A a, b \in 0..3 : \A x, y \in 0..2 :
        /\ e <= h /\ h <= s
        /\ \/ g < h /\ d = e /\ a = b
           \/ g = h /\ d < e /\ x = y
           \/ g = h /\ d = e /\ b + y < a + x
        => /\ 9 * (s - h) + 5 * (h - e) + b + y < 9 * (s - g) + 5 * (g - d) + a + x
           /\ 9 * (s - h) + 5 * (h - e) + b + y \in Nat
OBVIOUS

\* A step of the server that is not in select takes a descriptor out of those select
\* returned, ends a call of read_from_client, or leaves less to do of what the client
\* of that call has sent: a call is long only if its client goes on sending, or
\* SSL_read waits for it (http_secured_server.cpp:218), or SSL_write waits for it to
\* read its answer (:45)
THEOREM Serviced == Spec => [][WorkEnds]_vars
<1>1. ASSUME Inv, Inv', [Next]_vars PROVE [WorkEnds]_vars
  <2> DEFINE Goal == \/ pc' = "exited"
                     \/ ready' \subseteq ready /\ ready' # ready
                     \/ ready' = ready /\ InCall /\ ~InCall'
                     \/ ready' = ready /\ InCall /\ InCall' /\ Left' \in Nat /\ Left' < Left
  <2> SUFFICES ASSUME Server \/ ClientReads, pc # "select" PROVE Goal
      BY DEF WorkEnds
  <2>0. TypeInv /\ TypeOK
        BY <1>1 DEF Inv, TypeInv
  <2> USE DEF contexts, clients, streams, call
  <2>1. ASSUME AcceptFails PROVE Goal
        BY <2>1 DEF AcceptFails
  <2>2. ASSUME NEW k \in Conns, Accept(k) PROVE Goal
        BY <2>2 DEF Accept, Turn
  <2>3. ASSUME NEW i \in Fds, Serve(i) PROVE Goal
        BY <2>3 DEF Serve, Turn
  <2>4. ASSUME HandshakeFails \/ ReadFails PROVE Goal
        BY <2>4 DEF HandshakeFails, ReadFails, Fail, Return, NextScan, InCall
  \* A step inside a call
  <2>5. ASSUME InCall, InCall', UNCHANGED <<ready, cur, owner, sent>>,
               \/ got[Conn] < got'[Conn] /\ done'[Conn] = done[Conn] /\ parser'[cur] = parser[cur]
               \/ /\ got'[Conn] = got[Conn] /\ done[Conn] < done'[Conn]
                  /\ pc' = pc
               \/ /\ got'[Conn] = got[Conn] /\ done'[Conn] = done[Conn]
                  /\ Rank(parser'[cur]) + Step(pc') < Rank(parser[cur]) + Step(pc)
        PROVE  Goal
    <3> DEFINE k == Conn
    <3>1. k \in Conns
          BY <2>0, <2>5, Serving DEF InCall
    <3>2. /\ sent[k] \in Nat /\ got[k] \in Nat /\ done[k] \in Nat
          /\ got'[k] \in Nat /\ done'[k] \in Nat
          /\ done'[k] <= got'[k] /\ got'[k] <= sent[k]
          BY <1>1, <2>0, <2>5, <3>1 DEF Inv, TypeInv, TypeOK
    <3>3. /\ Rank(parser[cur]) \in 0..3 /\ Rank(parser'[cur]) \in 0..3
          /\ Step(pc) \in 0..2 /\ Step(pc') \in 0..2
          BY RankType, StepType
    <3>4. \/ got[k] < got'[k] /\ done[k] = done'[k] /\ Rank(parser[cur]) = Rank(parser'[cur])
          \/ got[k] = got'[k] /\ done[k] < done'[k] /\ Step(pc) = Step(pc')
          \/ /\ got[k] = got'[k] /\ done[k] = done'[k]
             /\ Rank(parser'[cur]) + Step(pc') < Rank(parser[cur]) + Step(pc)
          BY <2>5
    <3>5. /\ 9 * (sent[k] - got'[k]) + 5 * (got'[k] - done'[k]) + Rank(parser'[cur]) + Step(pc')
                 < 9 * (sent[k] - got[k]) + 5 * (got[k] - done[k]) + Rank(parser[cur]) + Step(pc)
          /\ 9 * (sent[k] - got'[k]) + 5 * (got'[k] - done'[k]) + Rank(parser'[cur]) + Step(pc')
                 \in Nat
      <4> DEFINE g == got[k]
                 h == got'[k]
                 d == done[k]
                 e == done'[k]
                 n == sent[k]
                 a == Rank(parser[cur])
                 b == Rank(parser'[cur])
                 x == Step(pc)
                 y == Step(pc')
      <4>1. /\ n \in Nat /\ g \in Nat /\ h \in Nat /\ d \in Nat /\ e \in Nat
            /\ e <= h /\ h <= n
            /\ a \in 0..3 /\ b \in 0..3 /\ x \in 0..2 /\ y \in 0..2
            BY <3>2, <3>3
      <4>2. \/ g < h /\ d = e /\ a = b
            \/ g = h /\ d < e /\ x = y
            \/ g = h /\ d = e /\ b + y < a + x
            BY <3>4
      <4> HIDE DEF g, h, d, e, n, a, b, x, y
      <4>3. /\ 9 * (n - h) + 5 * (h - e) + b + y < 9 * (n - g) + 5 * (g - d) + a + x
            /\ 9 * (n - h) + 5 * (h - e) + b + y \in Nat
            BY <4>1, <4>2, LeftLess
      <4> QED BY <4>3 DEF g, h, d, e, n, a, b, x, y
    <3>6. Left' \in Nat /\ Left' < Left
          BY <2>5, <3>5 DEF Left, Conn, Rank, Step
    <3> QED BY <2>5, <3>6
  <2> HIDE DEF Goal
  <2>6. ASSUME Handshake PROVE Goal
    <3>1. /\ pc = "accept" /\ pc' = "read"
          /\ UNCHANGED <<ready, cur, owner, sent, got, done, parser>>
          BY <2>6 DEF Handshake
    <3>2. Rank(parser'[cur]) + Step(pc') < Rank(parser[cur]) + Step(pc)
          BY <3>1 DEF Rank, Step
    <3> QED BY <2>5, <3>1, <3>2 DEF InCall
  <2>7. ASSUME Read PROVE Goal
        BY <2>0, <2>5, <2>7, ReadType DEF Read, InCall
  <2>8. ASSUME OnMessageBegin PROVE Goal
    <3>1. /\ pc = "parse" /\ parser[cur] = "start" /\ parser' = [parser EXCEPT ![cur] = "message"]
          /\ UNCHANGED <<pc, ready, cur, owner, sent, got, done>>
          BY <2>8 DEF OnMessageBegin
    <3>2. parser'[cur] = "message"
          BY <2>0, <3>1, Serving DEF TypeOK
    <3>3. Rank(parser'[cur]) + Step(pc') < Rank(parser[cur]) + Step(pc)
          BY <3>1, <3>2 DEF Rank, Step
    <3> QED BY <2>5, <3>1, <3>3 DEF InCall
  <2>9. ASSUME OnData \/ Reject PROVE Goal
    <3>1. /\ pc = "parse" /\ done[Conn] < got[Conn]
          /\ \/ done' = [done EXCEPT ![Conn] = @ + 1]
             \/ done' = [done EXCEPT ![Conn] = got[Conn]]
          /\ UNCHANGED <<pc, ready, cur, owner, sent, got>>
          BY <2>9 DEF OnData, Reject, Unparsed
    <3>2. Conn \in Conns
          BY <2>0, <3>1, Serving
    <3>3. done[Conn] < done'[Conn]
          BY <2>0, <3>1, <3>2 DEF TypeOK
    <3> QED BY <2>5, <3>1, <3>3 DEF InCall
  <2>10. ASSUME Reply PROVE Goal
    <3>1. /\ pc = "parse" /\ pc' \in {"parse", "exited"} /\ parser[cur] \in {"complete", "writing"}
          /\ parser'[cur] \in {"start", "dead"}
          /\ done' = done \/ done' = [done EXCEPT ![Conn] = got[Conn]]
          /\ UNCHANGED <<ready, cur, owner, sent, got>>
          BY <2>0, <2>10, Serving DEF Reply, TypeOK
    <3>2. CASE pc' = "exited"
          BY <3>2 DEF Goal
    <3>3. CASE pc' = "parse" /\ done' = done
      <4>1. Rank(parser'[cur]) + Step(pc') < Rank(parser[cur]) + Step(pc)
            BY <3>1, <3>3 DEF Rank, Step
      <4> QED BY <2>5, <3>1, <3>3, <4>1 DEF InCall
    <3>4. CASE pc' = "parse" /\ done' # done
      <4>1. /\ Conn \in Conns /\ done \in [Conns -> Nat] /\ got[Conn] \in Nat
            /\ done[Conn] <= got[Conn]
            BY <2>0, <3>1, Serving DEF TypeInv, TypeOK
      <4>2. done'[Conn] = got[Conn] /\ done[Conn] # got[Conn]
            BY <3>1, <3>4, <4>1
      <4>3. done[Conn] < done'[Conn]
            BY <4>1, <4>2
      <4> QED BY <2>5, <3>1, <3>4, <4>3 DEF InCall
    <3> QED BY <3>1, <3>2, <3>3, <3>4
  <2>13. ASSUME WriteBlocks PROVE Goal
    <3>1. /\ pc = "parse" /\ parser[cur] = "complete" /\ parser' = [parser EXCEPT ![cur] = "writing"]
          /\ UNCHANGED <<pc, ready, cur, owner, sent, got, done>>
          BY <2>13 DEF WriteBlocks
    <3>2. parser'[cur] = "writing"
          BY <2>0, <3>1, Serving DEF TypeOK
    <3>3. Rank(parser'[cur]) + Step(pc') < Rank(parser[cur]) + Step(pc)
          BY <3>1, <3>2 DEF Rank, Step
    <3> QED BY <2>5, <3>1, <3>3 DEF InCall
  <2>11. ASSUME Parsed PROVE Goal
    <3>1. /\ pc = "parse" /\ UNCHANGED <<ready, owner, sent, got, done, parser>>
          /\ \/ pc' = "read" /\ cur' = cur
             \/ pc' \in {"select", "scan"}
          BY <2>11 DEF Parsed, Return, NextScan
    <3>2. CASE pc' = "read" /\ cur' = cur
      <4>1. Rank(parser'[cur]) + Step(pc') < Rank(parser[cur]) + Step(pc)
            BY <3>1, <3>2 DEF Rank, Step
      <4> QED BY <2>5, <3>1, <3>2, <4>1 DEF InCall
    <3>3. CASE pc' \in {"select", "scan"}
          BY <3>1, <3>3 DEF Goal, InCall
    <3> QED BY <3>1, <3>2, <3>3
  <2>12. ~Select
        BY DEF Select
  <2> QED BY <2>1, <2>2, <2>3, <2>4, <2>6, <2>7, <2>8, <2>9, <2>10, <2>11, <2>12, <2>13
          DEF Server, ReadFromClient, OnMessageComplete, ClientReads, WriteFails
<1>2. ASSUME Inv, [Next]_vars PROVE [WorkEnds]_vars
      BY <1>1, <1>2, InvStep
<1> QED BY InvInit, InvStep, <1>2, PTL DEF Spec
=============================================================================
