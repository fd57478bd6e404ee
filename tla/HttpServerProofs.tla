--------------------------- MODULE HttpServerProofs ---------------------------
(***************************************************************************)
(* Theorems about HttpServer for every number of connections and           *)
(* descriptors, every stream of requests and every size of a read.         *)
(***************************************************************************)
EXTENDS HttpServer, TLAPS

\* The number of the request the d-th piece of k is followed by
NextReq(k, d) ==
    IF d = 0 THEN 1
    ELSE IF Stream[k][d].last THEN Stream[k][d].req + 1 ELSE Stream[k][d].req

-----------------------------------------------------------------------------
\* What the parser of each descriptor has behind it

\* A descriptor that select returned has a connection, and a connection has one
\* descriptor, once it is accepted
Owned ==
    /\ \A i \in Fds : i \in ready => owner[i] # None
    /\ \A i, j \in Fds : owner[i] # None /\ owner[i] = owner[j] => i = j
    /\ \A i \in Fds : owner[i] # None => peer[owner[i]] \notin {"unborn", "connecting"}

\* Nothing was read before
Unheard ==
    \A k \in Conns : peer[k] \in {"unborn", "connecting"} =>
        got[k] = 0 /\ done[k] = 0 /\ out[k] = <<>>

\* The parser is at the end of a message: its callback runs, or its write
AtEnd(i) == parser[i] \in {"complete", "writing"}
USE DEF AtEnd

\* A message is complete behind its last piece
Completed ==
    \A i \in Fds : owner[i] # None /\ AtEnd(i) =>
        done[owner[i]] > 0 /\ Stream[owner[i]][done[owner[i]]].last

\* The request the context of a descriptor belongs to
Request(i) ==
    IF AtEnd(i) THEN Stream[owner[i]][done[owner[i]]].req
    ELSE NextReq(owner[i], done[owner[i]])

\* A parser that goes on has met neither bytes it rejects nor a message that ends the
\* connection, unless they lie behind a request for an upgrade; its own message it has
\* seen from the beginning
AcceptedAt(i) ==
    owner[i] # None /\ parser[i] \in {"start", "message", "complete", "writing"} =>
        \A p \in 1..done[owner[i]] :
            /\ Stream[owner[i]][p].field # "junk" \/ BehindUpgrade(owner[i], p)
            /\ \/ Stream[owner[i]][p].keep \/ BehindUpgrade(owner[i], p)
               \/ p = done[owner[i]] /\ AtEnd(i)
            /\ parser[i] # "start" /\ Stream[owner[i]][p].req = Request(i) =>
                   Stream[owner[i]][p].field # "junk"
Accepted == \A i \in Fds : AcceptedAt(i)

\* The request that was answered last
LastReq(k) == IF out[k] = <<>> THEN 0 ELSE out[k][Len(out[k])].req

\* The message a parser is at or in is the next to be answered, while the client stays
CountedAt(i) ==
    owner[i] # None /\ peer[owner[i]] = "open" =>
        /\ parser[i] \in {"start", "message"} =>
               Follows(owner[i], LastReq(owner[i]), NextReq(owner[i], done[owner[i]]))
        /\ AtEnd(i) =>
               Follows(owner[i], LastReq(owner[i]), Stream[owner[i]][done[owner[i]]].req)
Counted == \A i \in Fds : CountedAt(i)

TypeInv == TypeOK /\ Owned /\ Completed
Inv == TypeInv /\ Unheard /\ Accepted /\ Counted /\ AnswersInOrder /\ SilentAfterEnd

-----------------------------------------------------------------------------
\* The pieces

LEMMA PieceType ==
    ASSUME NEW k \in Conns, NEW p \in Nat, 1 <= p, p <= Len(Stream[k])
    PROVE  Stream[k][p] \in Piece
BY StreamAssumption

LEMMA PlaceType ==
    ASSUME NEW k \in Conns, NEW p \in Nat, 1 <= p, p <= Len(Stream[k])
    PROVE  <<k, p>> \in At
BY StreamAssumption DEF At

LEMMA AtType ==
    ASSUME NEW a \in At
    PROVE  Stream[a[1]][a[2]] \in Piece
<1>1. PICK k \in Conns : a \in {k} \X DOMAIN Stream[k]
      BY DEF At
<1>2. a[1] = k /\ a[2] \in DOMAIN Stream[k] /\ Stream[k] \in Seq(Piece)
      BY <1>1, StreamAssumption
<1> QED BY <1>2

\* What a data callback is given are pieces, all of one request; the place the
\* parser reaches is one of them
LEMMA RunType ==
    ASSUME TypeOK, NEW i \in Fds, owner[i] # None, Unparsed(i)
    PROVE  /\ FieldRun(i) \subseteq Next1(i)..got[Conn(i)]
           /\ Data(i) \in SUBSET At
           /\ Next1(i) \in Nat /\ got[Conn(i)] \in Nat /\ Next1(i) <= got[Conn(i)]
           /\ got[Conn(i)] <= Len(Stream[Conn(i)])
           /\ Conn(i) \in Conns
<1>1. Conn(i) \in Conns /\ done[Conn(i)] \in Nat /\ got[Conn(i)] \in Nat
      BY DEF TypeOK, Conn
<1>2. /\ got[Conn(i)] <= sent[Conn(i)] /\ sent[Conn(i)] <= Len(Stream[Conn(i)])
      /\ sent[Conn(i)] \in Nat /\ Len(Stream[Conn(i)]) \in Nat
      BY <1>1, StreamAssumption DEF TypeOK
<1>3. FieldRun(i) \subseteq Next1(i)..got[Conn(i)]
      BY DEF FieldRun
<1>4. Next1(i) \in Nat /\ 1 <= Next1(i) /\ Next1(i) <= got[Conn(i)]
      BY <1>1 DEF Next1, Unparsed
<1>5. ASSUME NEW q \in FieldRun(i) PROVE <<Conn(i), q>> \in At
  <2>1. q \in Nat /\ 1 <= q /\ q <= Len(Stream[Conn(i)])
        BY <1>1, <1>2, <1>3, <1>4, <1>5
  <2> QED BY <2>1, <1>1, PlaceType
<1>6. Data(i) \in SUBSET At
      BY <1>5 DEF Data
<1> QED BY <1>1, <1>2, <1>3, <1>4, <1>6

LEMMA CallbackType ==
    ASSUME TypeOK, NEW i \in Fds
    PROVE  CallbackOf(i) \in Callbacks \cup {None}
<1>1. ctx[i].url \in SUBSET At /\ ctx[i].cb \in Callbacks \cup {None}
      BY DEF TypeOK, Context
<1>2. {Stream[a[1]][a[2]].cb : a \in ctx[i].url} \subseteq Callbacks \cup {None}
      BY <1>1, AtType DEF Piece
<1> QED BY <1>1, <1>2 DEF CallbackOf

-----------------------------------------------------------------------------
\* Types

LEMMA TypeInit == Init => TypeInv
BY NoneAssumption, StreamAssumption
   DEF Init, TypeInv, TypeOK, Owned, Completed, Context, EmptyContext, Fds, Listen

LEMMA ContextType ==
    ASSUME NEW c \in Context, NEW D \in SUBSET At, NEW b \in Callbacks \cup {None}
    PROVE  /\ [c EXCEPT !.url = D] \in Context /\ [c EXCEPT !.key = D] \in Context
           /\ [c EXCEPT !.cookie = D] \in Context /\ [c EXCEPT !.body = D] \in Context
           /\ [c EXCEPT !.cb = b] \in Context
BY DEF Context

LEMMA DataType ==
    ASSUME TypeInv, NEW i \in Fds, NEW f \in Fields, DataCallback(i, f),
           ctx' \in [Fds -> Context]
    PROVE  TypeInv'
<1>1. /\ owner[i] # None /\ Unparsed(i)
      BY DEF TypeInv, Owned, DataCallback, Serving
<1>2. PICK q \in FieldRun(i) :
        /\ done' = [done EXCEPT ![Conn(i)] = q]
        /\ parser' = [parser EXCEPT ![i] =
                         IF Stream[Conn(i)][q].last THEN "complete" ELSE "message"]
      BY DEF DataCallback
<1>3. /\ q \in Nat /\ q > 0 /\ q <= got[Conn(i)] /\ Conn(i) \in Conns
      /\ Stream[Conn(i)][q] \in Piece
  <2>1. q \in Nat /\ 1 <= q /\ q <= got[Conn(i)] /\ q <= Len(Stream[Conn(i)])
        BY <1>1, <1>2, RunType, StreamAssumption DEF TypeInv, TypeOK, Next1
  <2> QED BY <2>1, <1>1, RunType, PieceType DEF TypeInv
<1>4. UNCHANGED <<pc, ready, owner, peer, sent, got, out>>
      BY DEF DataCallback
<1>5. TypeOK'
      BY <1>2, <1>3, <1>4 DEF TypeInv, TypeOK
<1>6. Owned'
      BY <1>4 DEF TypeInv, Owned
<1>7. Completed'
      BY <1>1, <1>2, <1>3, <1>4 DEF TypeInv, TypeOK, Owned, Completed, Conn
<1> QED BY <1>5, <1>6, <1>7 DEF TypeInv

\* The rest of a read may be dropped
LEMMA DropType ==
    ASSUME NEW g \in [Conns -> Nat], NEW d \in [Conns -> Nat], \A c \in Conns : d[c] <= g[c],
           NEW k \in Conns, NEW e, e = d \/ e = [d EXCEPT ![k] = g[k]]
    PROVE  e \in [Conns -> Nat] /\ \A c \in Conns : e[c] <= g[c]
OBVIOUS

\* Every step keeps the types
LEMMA TypeStep == TypeInv /\ [Next]_vars => TypeInv'
<1> SUFFICES ASSUME TypeInv, [Next]_vars PROVE TypeInv'
    OBVIOUS
<1> USE DEF TypeInv, TypeOK, Owned, Completed, streams
<1>1. ASSUME NEW k \in Conns, Connect(k) PROVE TypeInv'
      BY <1>1 DEF Connect
<1>2. ASSUME NEW k \in Conns, Send(k) PROVE TypeInv'
      BY <1>2 DEF Send
<1>3. ASSUME NEW k \in Conns, Close(k) PROVE TypeInv'
      BY <1>3 DEF Close
<1>4. ASSUME NEW k \in Conns, Abort(k) PROVE TypeInv'
      BY <1>4 DEF Abort
<1>5. ASSUME Select PROVE TypeInv'
      BY <1>5 DEF Select, Readable, Fds, Listen
<1>6. ASSUME AcceptFails PROVE TypeInv'
      BY <1>6 DEF AcceptFails
<1>7. ASSUME NEW k \in Conns, Accept(k) PROVE TypeInv'
  <2>1. PICK i \in Free : /\ owner' = [owner EXCEPT ![i] = k]
                          /\ parser' = [parser EXCEPT ![i] = "start"]
        BY <1>7 DEF Accept
  <2>2. i \in Fds /\ owner[i] = None /\ k # None /\ i \notin ready
        BY <2>1, NoneAssumption DEF Free
  <2>3. /\ ready' = ready \ {Listen} /\ pc' \in {"select", "scan"}
        /\ peer[k] = "connecting" /\ peer' = [peer EXCEPT ![k] = "open"]
        /\ UNCHANGED <<ctx, sent, got, done, out>>
        BY <1>7 DEF Accept, Leave
  <2>4. TypeOK'
        BY <2>1, <2>2, <2>3
  <2>5. Owned'
    <3>1. \A j \in Fds : owner[j] # k
          BY <2>2, <2>3
    <3> QED BY <2>1, <2>2, <2>3, <3>1
  <2>6. Completed'
        BY <2>1, <2>2, <2>3
  <2> QED BY <2>4, <2>5, <2>6
<1>8. ASSUME NEW i \in Fds, NEW n \in 1..MaxChunk, Read(i, n) PROVE TypeInv'
  <2>1. owner[i] # None /\ owner[i] \in Conns /\ n \in Nat
        BY <1>8, BoundAssumption DEF Read, Turn
  <2>2. /\ got[owner[i]] + n <= sent[owner[i]]
        /\ got' = [got EXCEPT ![owner[i]] = @ + n]
        /\ pc' = "parse" /\ UNCHANGED <<ready, owner, parser, ctx, peer, sent, done, out>>
        BY <1>8 DEF Read
  <2> QED BY <2>1, <2>2
<1>9. ASSUME NEW i \in Fds, ReadEof(i) PROVE TypeInv'
      BY <1>9 DEF ReadEof, Leave, Turn, Fds, Listen
<1>10. ASSUME NEW i \in Fds, ReadFails(i) \/ SplitsNothing(i) PROVE TypeInv'
      BY <1>10 DEF ReadFails, SplitsNothing
<1>11. ASSUME NEW i \in Fds, OnMessageBegin(i) PROVE TypeInv'
      BY <1>11 DEF OnMessageBegin, EmptyContext, Context
<1>12. ASSUME NEW i \in Fds, OnUrl(i) PROVE TypeInv'
  <2>1. Data(i) \in SUBSET At
        BY <1>12, RunType DEF OnUrl, DataCallback, Serving
  <2>3. ctx[i] \in Context /\ Fds = DOMAIN ctx
        OBVIOUS
  <2>2. ctx' \in [Fds -> Context]
        BY <1>12, <2>1, <2>3, ContextType DEF OnUrl
  <2> QED BY <1>12, <2>2, DataType DEF OnUrl, Fields
<1>13. ASSUME NEW i \in Fds, OnHeaderField(i) PROVE TypeInv'
  <2>1. Data(i) \in SUBSET At
        BY <1>13, RunType DEF OnHeaderField, DataCallback, Serving
  <2>3. ctx[i] \in Context /\ Fds = DOMAIN ctx
        OBVIOUS
  <2>2. ctx' \in [Fds -> Context]
        BY <1>13, <2>1, <2>3, ContextType DEF OnHeaderField
  <2> QED BY <1>13, <2>2, DataType DEF OnHeaderField, Fields
<1>14. ASSUME NEW i \in Fds, OnHeaderValue(i) PROVE TypeInv'
  <2>1. Data(i) \in SUBSET At
        BY <1>14, RunType DEF OnHeaderValue, DataCallback, Serving
  <2>3. ctx[i] \in Context /\ Fds = DOMAIN ctx
        OBVIOUS
  <2>2. ctx' \in [Fds -> Context]
        BY <1>14, <2>1, <2>3, ContextType DEF OnHeaderValue
  <2> QED BY <1>14, <2>2, DataType DEF OnHeaderValue, Fields
<1>15. ASSUME NEW i \in Fds, OnBody(i) PROVE TypeInv'
  <2>1. Data(i) \in SUBSET At
        BY <1>15, RunType DEF OnBody, DataCallback, Serving
  <2>3. ctx[i] \in Context /\ Fds = DOMAIN ctx
        OBVIOUS
  <2>2. ctx' \in [Fds -> Context]
        BY <1>15, <2>1, <2>3, ContextType DEF OnBody
  <2> QED BY <1>15, <2>2, DataType DEF OnBody, Fields
<1>16. ASSUME NEW i \in Fds, Reply(i) PROVE TypeInv'
  <2> DEFINE k == owner[i]
             answer == [req |-> Stream[k][done[k]].req, url |-> ctx[i].url,
                        cookie |-> ctx[i].cookie, body |-> ctx[i].body, cb |-> CallbackOf(i)]
  <2>1. k \in Conns /\ k # None /\ i \in ready /\ AtEnd(i)
        BY <1>16 DEF Reply, Serving
  <2>2. Stream[k][done[k]] \in Piece
    <3>1. done[k] \in Nat /\ 1 <= done[k] /\ done[k] <= Len(Stream[k])
          BY <2>1, StreamAssumption
    <3> QED BY <3>1, <2>1, PieceType
  <2>3. CallbackOf(i) \in Callbacks \cup {None}
        BY CallbackType
  <2>4. answer \in Answer
        BY <2>2, <2>3 DEF Answer, Piece, Context
  <2>5. out' = out \/ out' = [out EXCEPT ![k] = Append(@, answer)]
        BY <1>16 DEF Reply, Conn
  <2>6. out' \in [Conns -> Seq(Answer)]
    <3>1. out[k] \in Seq(Answer)
          BY <2>1
    <3>2. Append(out[k], answer) \in Seq(Answer)
          BY <2>4, <3>1
    <3> HIDE DEF answer
    <3> QED BY <2>1, <2>5, <3>2
  <2>7. ctx' \in [Fds -> Context]
        BY <1>16, <2>3, ContextType DEF Reply
  <2>8. /\ parser' \in [Fds -> {"start", "message", "complete", "writing", "dead", "error"}]
        /\ parser' = [parser EXCEPT ![i] = IF Stream[k][done[k]].keep THEN "start" ELSE "dead"]
        BY <1>16 DEF Reply, Conn
  <2>9. /\ peer' \in [Conns -> {"unborn", "connecting", "open", "closed", "gone", "aborted"}]
        /\ \A c \in Conns : peer'[c] = peer[c] \/ peer'[c] = "gone"
        BY <1>16 DEF Reply, Conn
  <2>10. /\ pc' \in {"parse", "exited"} /\ UNCHANGED <<ready, owner, sent, got>>
         /\ done' = done \/ done' = [done EXCEPT ![k] = got[k]]
         BY <1>16 DEF Reply, Conn
  <2>11. TypeOK'
    <3>1. /\ done' \in [Conns -> Nat]
          /\ \A c \in Conns : done'[c] <= got[c]
      <4>1. done' = done \/ done' = [done EXCEPT ![k] = got[k]]
            BY <2>10
      <4>2. /\ k \in Conns /\ got \in [Conns -> Nat] /\ done \in [Conns -> Nat]
            /\ \A c \in Conns : done[c] <= got[c]
            BY <2>1
      <4> HIDE DEF k, TypeInv, TypeOK, Owned, Completed
      <4> QED BY ONLY <4>1, <4>2, DropType
    <3>2. \A c \in Conns : done'[c] <= got'[c] /\ got'[c] <= sent'[c] /\ sent'[c] <= Len(Stream[c])
          BY <2>10, <3>1
    <3> QED BY <2>6, <2>7, <2>8, <2>9, <2>10, <3>1, <3>2
  <2>12. Owned'
         BY <2>9, <2>10
  <2>13. Completed'
         BY <2>1, <2>8, <2>10
  <2> QED BY <2>11, <2>12, <2>13
<1>17. ASSUME NEW i \in Fds, Reject(i) PROVE TypeInv'
      BY <1>17 DEF Reject, Serving, Unparsed, Conn
<1>18. ASSUME NEW i \in Fds, Parsed(i) PROVE TypeInv'
      BY <1>18 DEF Parsed, Leave, Serving
<1>20. ASSUME NEW i \in Fds, WriteBlocks(i) PROVE TypeInv'
      BY <1>20 DEF WriteBlocks
<1>19. ASSUME UNCHANGED vars PROVE TypeInv'
      BY <1>19 DEF vars
<1> QED
    BY <1>1, <1>2, <1>3, <1>4, <1>5, <1>6, <1>7, <1>8, <1>9, <1>10, <1>11, <1>12, <1>13,
       <1>14, <1>15, <1>16, <1>17, <1>18, <1>19, <1>20, LeavingAssumption
    DEF Next, Client, Server, vars, OnMessageComplete, ClientReads, WriteFails

\* The server's bookkeeping keeps its types: what the parser has consumed was read,
\* and what was read was sent (http_server.cpp:60)
THEOREM TypeCorrect == Spec => []TypeOK
<1>1. TypeInv => TypeOK
      BY DEF TypeInv
<1> QED BY TypeInit, TypeStep, <1>1, PTL DEF Spec

LEMMA NextReqIs ==
    ASSUME NEW k \in Conns, NEW d \in Nat, d + 1 <= Len(Stream[k])
    PROVE  Stream[k][d + 1].req = NextReq(k, d)
<1>1. d + 1 \in DOMAIN Stream[k] /\ (d > 0 => d \in DOMAIN Stream[k])
      BY StreamAssumption
<1>2. CASE d = 0
      BY <1>1, <1>2, NumberAssumption DEF NextReq
<1>3. CASE d > 0
  <2>1. Stream[k][d + 1].req = IF Stream[k][d].last THEN Stream[k][d].req + 1 ELSE Stream[k][d].req
        BY <1>1, <1>3, NumberAssumption
  <2> QED BY <2>1, <1>3 DEF NextReq
<1> QED BY <1>2, <1>3

\* Where a request begins, nothing of it lies behind
LEMMA NothingBehind ==
    ASSUME NEW k \in Conns, NEW d \in Nat, d <= Len(Stream[k]), d > 0 => Stream[k][d].last,
           NEW q \in 1..d
    PROVE  Stream[k][q].req # NextReq(k, d)
<1>1. /\ d > 0 /\ NextReq(k, d) = Stream[k][d].req + 1
      /\ q \in DOMAIN Stream[k] /\ d \in DOMAIN Stream[k] /\ q <= d /\ q \in Nat
      BY StreamAssumption DEF NextReq
<1>2. Stream[k][q].req \in Nat /\ Stream[k][d].req \in Nat
      BY <1>1, PieceType, StreamAssumption DEF Piece
<1>3. q < d => Stream[k][q].req <= Stream[k][d].req
      BY <1>1, NumberAssumption
<1> QED BY <1>1, <1>2, <1>3

-----------------------------------------------------------------------------
\* Answers

LEMMA AppendFacts ==
    ASSUME NEW S, NEW q \in Seq(S), NEW e
    PROVE  /\ Append(q, e) # <<>> /\ Len(Append(q, e)) = Len(q) + 1 /\ Len(q) \in Nat
           /\ Append(q, e)[Len(q) + 1] = e
           /\ \A n \in DOMAIN q : /\ Append(q, e)[n] = q[n]
                                  /\ n # 1 => Append(q, e)[n - 1] = q[n - 1]
OBVIOUS

LEMMA AppendedOne ==
    ASSUME NEW S, NEW q \in Seq(S), NEW e, NEW n \in DOMAIN Append(q, e)
    PROVE  \/ n \in DOMAIN q /\ Append(q, e)[n] = q[n]
           \/ n = Len(q) + 1 /\ Append(q, e)[n] = e
OBVIOUS

\* A parser that stays where it is
LEMMA StaysCounted ==
    ASSUME Inv, NEW j \in Fds, owner'[j] = owner[j], parser'[j] = parser[j],
           owner[j] # None =>
              /\ done'[owner[j]] = done[owner[j]] /\ out'[owner[j]] = out[owner[j]]
              /\ peer'[owner[j]] = "open" => peer[owner[j]] = "open"
    PROVE  AcceptedAt(j)' /\ CountedAt(j)'
<1>1. AcceptedAt(j)'
      BY DEF Inv, Accepted, AcceptedAt, Request, NextReq
<1>2. CountedAt(j)'
      BY DEF Inv, Counted, CountedAt, NextReq, LastReq
<1> QED BY <1>1, <1>2

\* A data callback moves the parser inside a request, or to its end
LEMMA DataStep ==
    ASSUME Inv, NEW i \in Fds, NEW f \in {"url", "name", "cookie", "body"}, DataCallback(i, f)
    PROVE  Unheard' /\ Accepted' /\ Counted' /\ AnswersInOrder' /\ SilentAfterEnd'
<1> DEFINE k == owner[i]
           d == done[k]
           r == NextReq(k, d)
<1> USE DEF Inv, TypeInv
<1>1. /\ k \in Conns /\ k # None /\ Unparsed(i) /\ parser[i] = "message"
      /\ Stream[k][d + 1].field = f /\ d \in Nat
      /\ UNCHANGED <<owner, peer, got, out>>
      BY DEF TypeOK, Owned, DataCallback, Serving, Conn, At1, Next1
<1>2. PICK q \in FieldRun(i) :
        /\ done' = [done EXCEPT ![k] = q]
        /\ parser' = [parser EXCEPT ![i] = IF Stream[k][q].last THEN "complete" ELSE "message"]
      BY DEF DataCallback, Conn
<1>3. /\ q \in Nat /\ d + 1 <= q /\ q <= Len(Stream[k]) /\ Len(Stream[k]) \in Nat
      /\ \A x \in (d + 1)..q : /\ Stream[k][x].field = f
                              /\ Stream[k][x].req = Stream[k][d + 1].req
  <2>1. /\ FieldRun(i) \subseteq (d + 1)..got[k] /\ got[k] \in Nat /\ got[k] <= Len(Stream[k])
        BY <1>1, RunType DEF Conn, Next1
  <2>2. \A x \in (d + 1)..q : Stream[k][x].field = f /\ Stream[k][x].req = Stream[k][d + 1].req
        BY <1>1, <1>2 DEF FieldRun, Conn, Next1, At1
  <2> QED BY <1>1, <1>2, <2>1, <2>2, StreamAssumption
<1>4. \A p \in 1..Len(Stream[k]) : Stream[k][p] \in Piece
      BY <1>1, StreamAssumption
<1>5. \A x \in (d + 1)..q : x < q => ~Stream[k][x].last
  <2>1. \A x \in DOMAIN Stream[k] : \A y \in DOMAIN Stream[k] :
            x < y /\ Stream[k][x].last => Stream[k][x].req < Stream[k][y].req
        BY <1>1, NumberAssumption, Zenon
  <2>2. SUFFICES ASSUME NEW x \in (d + 1)..q, x < q PROVE ~Stream[k][x].last
        OBVIOUS
  <2>3. x \in DOMAIN Stream[k] /\ q \in DOMAIN Stream[k] /\ x \in Nat
        BY <1>1, <1>3, StreamAssumption
  <2>4. Stream[k][x].req = Stream[k][q].req /\ Stream[k][x].req \in Nat
        BY <1>1, <1>3, <1>4, <2>3 DEF Piece
  <2> QED BY <2>1, <2>2, <2>3, <2>4
<1>6. Stream[k][d + 1].req = r /\ Stream[k][q].req = r
      BY <1>1, <1>3, NextReqIs
<1>7. Unheard'
      BY <1>1, <1>2 DEF Unheard, Owned, TypeOK
<1>8. /\ done'[k] = q
      /\ parser'[i] = IF Stream[k][q].last THEN "complete" ELSE "message"
      /\ \A j \in Fds : j # i => parser'[j] = parser[j]
      /\ \A c \in Conns : c # k => done'[c] = done[c]
      BY <1>1, <1>2 DEF TypeOK
<1>9. NextReq(k, q) = IF Stream[k][q].last THEN r + 1 ELSE r
      BY <1>1, <1>3, <1>6 DEF NextReq
<1>10. AcceptedAt(i)'
  <2>1. \A p \in 1..d : /\ Stream[k][p].field # "junk" \/ BehindUpgrade(k, p)
                        /\ Stream[k][p].keep \/ BehindUpgrade(k, p)
                        /\ Stream[k][p].req = r => Stream[k][p].field # "junk"
        BY <1>1 DEF Accepted, AcceptedAt, Request
  <2>2. \A p \in (d + 1)..q : Stream[k][p].keep \/ (p = q /\ Stream[k][q].last)
    <3>1. SUFFICES ASSUME NEW p \in (d + 1)..q
                   PROVE  Stream[k][p].keep \/ (p = q /\ Stream[k][q].last)
          OBVIOUS
    <3>2. p \in DOMAIN Stream[k] /\ (p = q \/ p < q)
          BY <1>1, <1>3, StreamAssumption
    <3>3. Stream[k][p].keep \/ Stream[k][p].last
          BY <1>1, <3>2, KeepAssumption
    <3> QED BY <1>5, <3>2, <3>3
  <2>3. \A p \in 1..q : p \in 1..d \/ p \in (d + 1)..q
        BY <1>1, <1>3
  <2>4. Request(i)' = r
        BY <1>1, <1>6, <1>8, <1>9 DEF Request, NextReq
  <2> QED BY <1>1, <1>3, <1>8, <2>1, <2>2, <2>3, <2>4 DEF AcceptedAt
<1>11. CountedAt(i)'
  <2>1. peer[k] = "open" => Follows(k, LastReq(k), r)
        BY <1>1 DEF Counted, CountedAt
  <2> QED BY <1>1, <1>6, <1>8, <1>9, <2>1 DEF CountedAt, LastReq, NextReq
<1>12. \A j \in Fds : j # i => AcceptedAt(j)' /\ CountedAt(j)'
  <2>1. \A j \in Fds : j # i /\ owner[j] # None => owner[j] \in Conns /\ owner[j] # k
        BY DEF TypeOK, Owned
  <2> QED BY <1>1, <1>8, <2>1, StaysCounted
<1>13. AnswersInOrder' /\ SilentAfterEnd'
      BY <1>1 DEF AnswersInOrder, SilentAfterEnd, Answers
<1> QED BY <1>7, <1>10, <1>11, <1>12, <1>13 DEF Accepted, Counted

\* An answer goes to a request that may be the next of its connection, whose bytes and
\* whose forerunners the parser has accepted
LEMMA ReplyStep ==
    ASSUME Inv, NEW i \in Fds, Reply(i)
    PROVE  Unheard' /\ Accepted' /\ Counted' /\ AnswersInOrder' /\ SilentAfterEnd'
<1> DEFINE k == owner[i]
           d == done[k]
           answer == [req |-> Stream[k][d].req, url |-> ctx[i].url, cookie |-> ctx[i].cookie,
                      body |-> ctx[i].body, cb |-> CallbackOf(i)]
<1> USE DEF Inv, TypeInv
<1>1. /\ k \in Conns /\ k # None /\ AtEnd(i) /\ d \in Nat
      /\ peer[k] \notin {"unborn", "connecting"}
      /\ \A j \in Fds : j # i => owner[j] # k
      /\ UNCHANGED <<owner, got>>
  <2>1. i \in ready
        BY DEF Reply, Serving
  <2>2. k # None
        BY <2>1 DEF Owned
  <2>3. k \in Conns /\ d \in Nat
        BY <2>2 DEF TypeOK
  <2> QED BY <2>2, <2>3 DEF Owned, Reply
<1>2. /\ parser' = [parser EXCEPT ![i] = IF Stream[k][d].keep THEN "start" ELSE "dead"]
      /\ peer' = IF peer[k] = "closed" THEN [peer EXCEPT ![k] = "gone"] ELSE peer
      /\ out' = IF peer[k] = "open" THEN [out EXCEPT ![k] = Append(@, answer)] ELSE out
      /\ done' = IF Stream[k][d].upgrade THEN [done EXCEPT ![k] = got[k]] ELSE done
      BY DEF Reply, Conn
<1>3. answer.req = Stream[k][d].req
      OBVIOUS
<1> HIDE DEF answer
<1>4. /\ parser'[i] = IF Stream[k][d].keep THEN "start" ELSE "dead"
      /\ \A j \in Fds : j # i => parser'[j] = parser[j]
      /\ \A c \in Conns : peer'[c] = peer[c] \/ (c = k /\ peer'[c] = "gone")
      /\ \A c \in Conns : c # k => out'[c] = out[c] /\ done'[c] = done[c]
      /\ peer[k] # "open" => out'[k] = out[k]
      /\ peer[k] = "open" => out'[k] = Append(out[k], answer)
      /\ done'[k] = IF Stream[k][d].upgrade THEN got[k] ELSE d
      BY <1>1, <1>2 DEF TypeOK
<1>5. /\ d > 0 /\ d <= Len(Stream[k]) /\ Stream[k][d].last
      /\ Stream[k][d].req \in Nat
      /\ got[k] \in Nat /\ d <= got[k] /\ got[k] <= Len(Stream[k]) /\ Len(Stream[k]) \in Nat
      /\ DOMAIN Stream[k] = 1..Len(Stream[k])
  <2>1. d > 0 /\ Stream[k][d].last
        BY <1>1 DEF Completed
  <2>2. /\ d <= Len(Stream[k]) /\ got[k] \in Nat /\ d <= got[k] /\ got[k] <= Len(Stream[k])
        /\ Len(Stream[k]) \in Nat /\ DOMAIN Stream[k] = 1..Len(Stream[k])
        BY <1>1, StreamAssumption DEF TypeOK
  <2>3. Stream[k][d] \in Piece
        BY <1>1, <2>1, <2>2, PieceType
  <2> QED BY <2>1, <2>2, <2>3 DEF Piece
<1>6. peer[k] = "open" => Follows(k, LastReq(k), Stream[k][d].req)
      BY <1>1 DEF Counted, CountedAt
<1>7. out[k] \in Seq(Answer)
      BY <1>1 DEF TypeOK
<1>8. Unheard'
      BY <1>1, <1>4 DEF Unheard
<1>9. /\ \A p \in 1..d : /\ Stream[k][p].field # "junk" \/ BehindUpgrade(k, p)
                         /\ Stream[k][p].keep \/ BehindUpgrade(k, p) \/ p = d
                         /\ Stream[k][p].req = Stream[k][d].req => Stream[k][p].field # "junk"
      BY <1>1 DEF Accepted, AcceptedAt, Request
<1>10. AcceptedAt(i)'
  <2>1. SUFFICES ASSUME Stream[k][d].keep, NEW p \in 1..done'[k]
                 PROVE  /\ Stream[k][p].field # "junk" \/ BehindUpgrade(k, p)
                        /\ Stream[k][p].keep \/ BehindUpgrade(k, p)
        BY <1>1, <1>4 DEF AcceptedAt
  <2>2. CASE p \in 1..d
        BY <2>1, <2>2, <1>9
  <2>3. CASE p \notin 1..d
    <3>1. Stream[k][d].upgrade /\ d \in 1..(p - 1)
          BY <2>1, <2>3, <1>1, <1>4, <1>5
    <3> QED BY <3>1 DEF BehindUpgrade
  <2> QED BY <2>2, <2>3
<1>11. CountedAt(i)'
  <2>1. SUFFICES ASSUME peer[k] = "open"
                 PROVE  Follows(k, LastReq(k)', NextReq(k, done'[k]))
        BY <1>1, <1>4 DEF CountedAt, NextReq
  <2>2. LastReq(k)' = Stream[k][d].req
    <3>1. /\ out'[k] # <<>> /\ Len(out'[k]) = Len(out[k]) + 1
          /\ out'[k][Len(out[k]) + 1] = answer
      <4>1. out'[k] = Append(out[k], answer)
            BY <2>1, <1>4
      <4>2. /\ Append(out[k], answer) # <<>>
            /\ Len(Append(out[k], answer)) = Len(out[k]) + 1
            /\ Append(out[k], answer)[Len(out[k]) + 1] = answer
            BY <1>7, AppendFacts
      <4> QED BY <4>1, <4>2
    <3> QED BY <3>1, <1>3, <1>1 DEF LastReq
  <2>3. NextReq(k, d) = Stream[k][d].req + 1
        BY <1>1, <1>5 DEF NextReq
  <2>4. Stream[k][d].upgrade => Upgraded(k, Stream[k][d].req)
        BY <1>1, <1>5 DEF Upgraded
  <2>5. Stream[k][d].req < NextReq(k, got[k]) /\ NextReq(k, got[k]) \in Nat
    <3>1. CASE got[k] = d
          BY <3>1, <2>3, <1>5
    <3>2. CASE got[k] # d
      <4>1. got[k] \in DOMAIN Stream[k] /\ d \in DOMAIN Stream[k] /\ d < got[k]
            BY <3>2, <1>1, <1>5
      <4>2. Stream[k][d].req < Stream[k][got[k]].req
            BY <4>1, <1>1, <1>5, NumberAssumption
      <4>3. Stream[k][got[k]].req \in Nat
            BY <4>1, <1>1, <1>5, PieceType DEF Piece
      <4>4. NextReq(k, got[k]) \in {Stream[k][got[k]].req, Stream[k][got[k]].req + 1}
            BY <4>1, <1>1 DEF NextReq
      <4> QED BY <4>2, <4>3, <4>4, <1>5
    <3> QED BY <3>1, <3>2
  <2> QED BY <2>2, <2>3, <2>4, <2>5, <1>4, <1>5 DEF Follows
<1>12. \A j \in Fds : j # i => AcceptedAt(j)' /\ CountedAt(j)'
  <2>1. \A j \in Fds : j # i /\ owner[j] # None => owner[j] \in Conns /\ owner[j] # k
        BY <1>1 DEF TypeOK
  <2> QED BY <1>1, <1>4, <2>1, StaysCounted
<1>13. \A c \in Conns : \A n \in DOMAIN out'[c] :
          \/ n \in DOMAIN out[c] /\ out'[c][n] = out[c][n]
          \/ c = k /\ peer[k] = "open" /\ n = Len(out[k]) + 1 /\ out'[c][n] = answer
  <2>1. SUFFICES ASSUME NEW c \in Conns, NEW n \in DOMAIN out'[c]
                 PROVE  \/ n \in DOMAIN out[c] /\ out'[c][n] = out[c][n]
                        \/ /\ c = k /\ peer[k] = "open" /\ n = Len(out[k]) + 1
                           /\ out'[c][n] = answer
        OBVIOUS
  <2>2. CASE c = k /\ peer[k] = "open"
    <3>1. out'[c] = Append(out[k], answer)
          BY <2>2, <1>4
    <3>2. \/ n \in DOMAIN out[k] /\ Append(out[k], answer)[n] = out[k][n]
          \/ n = Len(out[k]) + 1 /\ Append(out[k], answer)[n] = answer
          BY <2>1, <3>1, <1>7, AppendedOne
    <3> QED BY <2>2, <3>1, <3>2
  <2>3. CASE ~(c = k /\ peer[k] = "open")
        BY <2>1, <2>3, <1>4
  <2> QED BY <2>2, <2>3
<1>14. AnswersInOrder'
  <2>1. SUFFICES ASSUME NEW c \in Conns, NEW n \in DOMAIN out'[c]
                 PROVE  Follows(c, IF n = 1 THEN 0 ELSE out'[c][n - 1].req, out'[c][n].req)
        BY DEF AnswersInOrder
  <2>2. c = k \/ (n \in DOMAIN out[c] /\ out'[c] = out[c])
        BY <2>1, <1>4
  <2>3. CASE c = k /\ n \in DOMAIN out[k]
    <3>1. out'[k][n] = out[k][n] /\ (n # 1 => out'[k][n - 1] = out[k][n - 1])
          BY <2>1, <2>3, <1>4, <1>7, AppendFacts
    <3> QED BY <3>1, <2>3, <1>1 DEF AnswersInOrder
  <2>4. CASE c = k /\ n \notin DOMAIN out[k]
    <3>1. /\ peer[k] = "open" /\ n = Len(out[k]) + 1 /\ out'[k][n].req = Stream[k][d].req
          BY <2>1, <2>4, <1>3, <1>13
    <3>2. LastReq(k) = IF n = 1 THEN 0 ELSE out'[k][n - 1].req
          BY <3>1, <1>4, <1>7 DEF LastReq
    <3> QED BY <3>1, <3>2, <2>4, <1>6
  <2>5. CASE c # k
        BY <2>1, <2>2, <2>5 DEF AnswersInOrder
  <2> QED BY <2>3, <2>4, <2>5
<1>15. \A p \in DOMAIN Stream[k] :
          /\ Stream[k][p].req = answer.req => Stream[k][p].field # "junk"
          /\ Stream[k][p].req < answer.req =>
                 (Stream[k][p].keep /\ Stream[k][p].field # "junk") \/ BehindUpgrade(k, p)
  <2>1. SUFFICES ASSUME NEW p \in DOMAIN Stream[k]
                 PROVE  /\ Stream[k][p].req = Stream[k][d].req => Stream[k][p].field # "junk"
                        /\ Stream[k][p].req < Stream[k][d].req =>
                              \/ Stream[k][p].keep /\ Stream[k][p].field # "junk"
                              \/ BehindUpgrade(k, p)
        BY <1>3
  <2>2. p \in 1..Len(Stream[k]) /\ d \in DOMAIN Stream[k] /\ Stream[k][p].req \in Nat
    <3>1. p \in 1..Len(Stream[k]) /\ d \in DOMAIN Stream[k]
          BY <1>1, <1>5, StreamAssumption
    <3>2. Stream[k][p] \in Piece
          BY <3>1, <1>1, PieceType
    <3> QED BY <3>1, <3>2 DEF Piece
  <2>3. CASE p > d
    <3>1. Stream[k][d].req < Stream[k][p].req
          BY <2>2, <2>3, <1>1, <1>5, NumberAssumption
    <3> QED BY <3>1, <2>2, <1>5
  <2>4. CASE p <= d
    <3>1. p \in 1..d /\ (Stream[k][p].req < Stream[k][d].req => p # d)
          BY <2>2, <2>4, <1>1, <1>5
    <3> QED BY <3>1, <1>9
  <2> QED BY <2>2, <2>3, <2>4, <1>1
<1>16. SilentAfterEnd'
  <2>1. SUFFICES ASSUME NEW c \in Conns, NEW n \in DOMAIN out'[c], NEW p \in DOMAIN Stream[c]
                 PROVE  /\ Stream[c][p].req = out'[c][n].req => Stream[c][p].field # "junk"
                        /\ Stream[c][p].req < out'[c][n].req =>
                              \/ Stream[c][p].keep /\ Stream[c][p].field # "junk"
                              \/ BehindUpgrade(c, p)
        BY DEF SilentAfterEnd, Answers
  <2>2. CASE n \in DOMAIN out[c] /\ out'[c][n] = out[c][n]
    <3>1. out[c][n] \in Answers(c)
          BY <2>2 DEF Answers
    <3> QED BY <2>2, <3>1 DEF SilentAfterEnd
  <2>3. CASE c = k /\ out'[c][n] = answer
        BY <2>3, <1>15
  <2> QED BY <2>2, <2>3, <1>13
<1> QED BY <1>8, <1>10, <1>11, <1>12, <1>14, <1>16 DEF Accepted, Counted

\* A write that blocks leaves the parser at the end of its message
LEMMA BlockStep ==
    ASSUME Inv, NEW i \in Fds, WriteBlocks(i)
    PROVE  Unheard' /\ Accepted' /\ Counted' /\ AnswersInOrder' /\ SilentAfterEnd'
<1> USE DEF Inv, TypeInv
<1>1. /\ parser[i] = "complete" /\ parser' = [parser EXCEPT ![i] = "writing"]
      /\ UNCHANGED <<owner, peer, got, done, out>>
      BY DEF WriteBlocks, streams
<1>2. parser'[i] = "writing" /\ \A j \in Fds : j # i => parser'[j] = parser[j]
      BY <1>1 DEF TypeOK
<1>3. AcceptedAt(i)'
  <2>1. Request(i)' = Request(i)
        BY <1>1, <1>2 DEF Request
  <2> QED BY <1>1, <1>2, <2>1 DEF Accepted, AcceptedAt
<1>4. CountedAt(i)'
      BY <1>1, <1>2 DEF Counted, CountedAt, LastReq
<1>5. \A j \in Fds : j # i => AcceptedAt(j)' /\ CountedAt(j)'
      BY <1>1, <1>2, StaysCounted
<1>6. Unheard' /\ AnswersInOrder' /\ SilentAfterEnd'
      BY <1>1 DEF Unheard, AnswersInOrder, SilentAfterEnd, Answers
<1> QED BY <1>3, <1>4, <1>5, <1>6 DEF Accepted, Counted

LEMMA InvInit == Init => Inv
BY TypeInit, NoneAssumption
   DEF Init, Inv, Unheard, Accepted, AcceptedAt, Counted, CountedAt, AnswersInOrder,
       SilentAfterEnd, Answers

\* Steps that parse nothing and answer nothing
LEMMA QuietStep ==
    ASSUME Inv, UNCHANGED <<owner, parser, done, out>>,
           \A k \in Conns : peer'[k] # peer[k] => peer[k] \in {"unborn", "open"},
           \A k \in Conns : peer[k] = "unborn" => peer'[k] \in {"unborn", "connecting"},
           \A k \in Conns : peer[k] = "open" => peer'[k] \in {"open", "closed", "aborted"},
           \A k \in Conns : got'[k] # got[k] => peer[k] \notin {"unborn", "connecting"}
    PROVE  Unheard' /\ Accepted' /\ Counted' /\ AnswersInOrder' /\ SilentAfterEnd'
<1> USE DEF Inv, TypeInv
<1>1. Unheard'
      BY DEF Unheard
<1>2. Accepted' /\ Counted'
  <2>1. \A i \in Fds : owner[i] # None => owner[i] \in Conns
        BY DEF TypeOK
  <2>2. \A i \in Fds : owner[i] # None /\ peer'[owner[i]] = "open" => peer[owner[i]] = "open"
        BY <2>1
  <2> QED BY <2>2, StaysCounted DEF Accepted, Counted
<1>3. AnswersInOrder' /\ SilentAfterEnd'
      BY DEF AnswersInOrder, SilentAfterEnd, Answers
<1> QED BY <1>1, <1>2, <1>3

\* Every step keeps what the parsers have behind them, and the answers given
LEMMA InvStep == Inv /\ [Next]_vars => Inv'
<1> SUFFICES ASSUME Inv, [Next]_vars PROVE Inv'
    OBVIOUS
<1> DEFINE Goal == Unheard' /\ Accepted' /\ Counted' /\ AnswersInOrder' /\ SilentAfterEnd'
<1>0. TypeInv /\ TypeInv'
      BY TypeStep DEF Inv
<1> USE DEF Inv, streams
<1>1. ASSUME NEW k \in Conns, Connect(k) PROVE Goal
      BY <1>0, <1>1, QuietStep DEF Connect, TypeInv, TypeOK
<1>2. ASSUME NEW k \in Conns, Send(k) PROVE Goal
      BY <1>2, QuietStep DEF Send
<1>3. ASSUME NEW k \in Conns, Close(k) PROVE Goal
      BY <1>0, <1>3, QuietStep DEF Close, TypeInv, TypeOK
<1>4. ASSUME NEW k \in Conns, Abort(k) PROVE Goal
      BY <1>0, <1>4, QuietStep DEF Abort, TypeInv, TypeOK
<1>5. ASSUME Select PROVE Goal
      BY <1>5, QuietStep DEF Select
<1>6. ASSUME AcceptFails PROVE Goal
      BY <1>6, QuietStep DEF AcceptFails
<1>7. ASSUME NEW k \in Conns, Accept(k) PROVE Goal
  <2>1. PICK i \in Free : /\ owner' = [owner EXCEPT ![i] = k]
                          /\ parser' = [parser EXCEPT ![i] = "start"]
        BY <1>7 DEF Accept
  <2>2. /\ peer[k] = "connecting" /\ peer' = [peer EXCEPT ![k] = "open"]
        /\ UNCHANGED <<sent, got, done, out>>
        BY <1>7 DEF Accept
  <2>3. /\ i \in Fds /\ owner'[i] = k /\ parser'[i] = "start" /\ peer'[k] = "open"
        /\ done[k] = 0 /\ out[k] = <<>>
        BY <1>0, <2>1, <2>2 DEF Free, Unheard, TypeInv, TypeOK
  <2>4. \A j \in Fds : j # i =>
            /\ owner'[j] = owner[j] /\ parser'[j] = parser[j] /\ owner[j] # k
            /\ owner[j] # None => peer'[owner[j]] = peer[owner[j]]
    <3>1. ASSUME NEW j \in Fds, j # i, owner[j] # None
          PROVE  owner[j] \in Conns /\ owner[j] # k
          BY <1>0, <2>2, <3>1 DEF TypeInv, TypeOK, Owned
    <3>2. k # None
          BY NoneAssumption
    <3>3. \A j \in Fds : j # i => owner'[j] = owner[j] /\ parser'[j] = parser[j]
          BY <1>0, <2>1 DEF TypeInv, TypeOK
    <3> QED BY <1>0, <2>2, <3>1, <3>2, <3>3 DEF TypeInv, TypeOK
  <2>5. Unheard'
        BY <1>0, <2>2 DEF Unheard, TypeInv, TypeOK
  <2>6. AcceptedAt(i)'
    <3>1. done'[owner'[i]] = 0
          BY <2>2, <2>3
    <3> QED BY <3>1 DEF AcceptedAt
  <2>7. CountedAt(i)'
    <3>1. NextReq(k, done'[k]) = 1 /\ LastReq(k)' = 0
          BY <2>2, <2>3 DEF NextReq, LastReq
    <3>2. Follows(k, 0, 1)
          BY DEF Follows
    <3> QED BY <2>3, <3>1, <3>2 DEF CountedAt, NextReq
  <2>8. \A j \in Fds : j # i => AcceptedAt(j)' /\ CountedAt(j)'
        BY <2>2, <2>4, StaysCounted
  <2>9. AnswersInOrder' /\ SilentAfterEnd'
        BY <2>2 DEF AnswersInOrder, SilentAfterEnd, Answers
  <2> QED BY <2>5, <2>6, <2>7, <2>8, <2>9 DEF Accepted, Counted
<1>8. ASSUME NEW i \in Fds, NEW n \in 1..MaxChunk, Read(i, n) PROVE Goal
  <2>1. owner[i] # None /\ peer[owner[i]] \notin {"unborn", "connecting"}
        BY <1>0, <1>8 DEF Read, Turn, TypeInv, Owned
  <2>2. /\ got' = [got EXCEPT ![owner[i]] = @ + n]
        /\ UNCHANGED <<owner, parser, peer, done, out>>
        BY <1>8 DEF Read
  <2>3. \A k \in Conns : got'[k] # got[k] => peer[k] \notin {"unborn", "connecting"}
        BY <1>0, <2>1, <2>2 DEF TypeInv, TypeOK
  <2> QED BY <2>2, <2>3, QuietStep
<1>9. ASSUME NEW i \in Fds, ReadEof(i) PROVE Goal
  <2>1. owner' = [owner EXCEPT ![i] = None] /\ UNCHANGED <<parser, peer, got, done, out>>
        BY <1>9 DEF ReadEof
  <2>2. owner'[i] = None /\ \A j \in Fds : j # i => owner'[j] = owner[j]
        BY <1>0, <2>1 DEF TypeInv, TypeOK
  <2>3. AcceptedAt(i)' /\ CountedAt(i)'
        BY <2>2 DEF AcceptedAt, CountedAt
  <2>4. \A j \in Fds : j # i => AcceptedAt(j)' /\ CountedAt(j)'
        BY <2>1, <2>2, StaysCounted
  <2>5. Unheard' /\ AnswersInOrder' /\ SilentAfterEnd'
        BY <2>1 DEF Unheard, AnswersInOrder, SilentAfterEnd, Answers
  <2> QED BY <2>3, <2>4, <2>5 DEF Accepted, Counted
<1>10. ASSUME NEW i \in Fds, ReadFails(i) \/ SplitsNothing(i) PROVE Goal
      BY <1>10, QuietStep DEF ReadFails, SplitsNothing
<1>11. ASSUME NEW i \in Fds, OnMessageBegin(i) PROVE Goal
  <2> DEFINE k == owner[i]
             d == done[k]
  <2>1. /\ parser[i] = "start" /\ parser' = [parser EXCEPT ![i] = "message"]
        /\ UNCHANGED <<owner, peer, got, done, out>>
        BY <1>11 DEF OnMessageBegin
  <2>2. parser'[i] = "message" /\ \A j \in Fds : j # i => parser'[j] = parser[j]
        BY <1>0, <2>1 DEF TypeInv, TypeOK
  <2>3. k \in Conns /\ k # None /\ d \in Nat /\ (d > 0 => Stream[k][d].last)
        /\ d <= Len(Stream[k]) /\ Len(Stream[k]) \in Nat /\ DOMAIN Stream[k] = 1..Len(Stream[k])
        BY <1>0, <1>11, StreamAssumption
        DEF OnMessageBegin, Serving, AtRequest, Conn, TypeInv, TypeOK, Owned
  <2>4. AcceptedAt(i)'
    <3>1. Request(i)' = NextReq(k, d)
          BY <2>1, <2>2 DEF Request, NextReq
    <3>2. \A p \in 1..d : Stream[k][p].req # NextReq(k, d)
          BY <2>3, NothingBehind
    <3> QED BY <2>1, <2>2, <2>3, <3>1, <3>2 DEF Accepted, AcceptedAt
  <2>5. CountedAt(i)'
        BY <2>1, <2>2 DEF Counted, CountedAt, LastReq, NextReq
  <2>6. \A j \in Fds : j # i => AcceptedAt(j)' /\ CountedAt(j)'
        BY <2>1, <2>2, StaysCounted
  <2>7. Unheard' /\ AnswersInOrder' /\ SilentAfterEnd'
        BY <2>1 DEF Unheard, AnswersInOrder, SilentAfterEnd, Answers
  <2> QED BY <2>4, <2>5, <2>6, <2>7 DEF Accepted, Counted
<1>12. ASSUME NEW i \in Fds, OnUrl(i) PROVE Goal
      BY <1>12, DataStep DEF OnUrl
<1>13. ASSUME NEW i \in Fds, OnHeaderField(i) PROVE Goal
      BY <1>13, DataStep DEF OnHeaderField
<1>14. ASSUME NEW i \in Fds, OnHeaderValue(i) PROVE Goal
      BY <1>14, DataStep DEF OnHeaderValue
<1>15. ASSUME NEW i \in Fds, OnBody(i) PROVE Goal
      BY <1>15, DataStep DEF OnBody
<1>16. ASSUME NEW i \in Fds, Reply(i) PROVE Goal
      BY <1>16, ReplyStep
<1>17. ASSUME NEW i \in Fds, Reject(i) PROVE Goal
  <2> DEFINE k == owner[i]
  <2>1. /\ k \in Conns /\ peer[k] \notin {"unborn", "connecting"}
        /\ \A j \in Fds : j # i => owner[j] # k
        BY <1>0, <1>17 DEF Reject, Serving, TypeInv, TypeOK, Owned
  <2>2. /\ parser' = [parser EXCEPT ![i] = "error"] /\ done' = [done EXCEPT ![k] = got[k]]
        /\ UNCHANGED <<owner, peer, got, out>>
        BY <1>17 DEF Reject, Conn
  <2>3. /\ parser'[i] = "error" /\ \A j \in Fds : j # i => parser'[j] = parser[j]
        /\ \A c \in Conns : c # k => done'[c] = done[c]
        BY <1>0, <2>1, <2>2 DEF TypeInv, TypeOK
  <2>4. \A j \in Fds : j # i /\ owner[j] # None => done'[owner[j]] = done[owner[j]]
        BY <1>0, <2>1, <2>3 DEF TypeInv, TypeOK
  <2>5. Unheard'
        BY <2>1, <2>2, <2>3 DEF Unheard
  <2>6. AcceptedAt(i)' /\ CountedAt(i)'
        BY <2>3 DEF AcceptedAt, CountedAt
  <2>7. \A j \in Fds : j # i => AcceptedAt(j)' /\ CountedAt(j)'
        BY <2>2, <2>3, <2>4, StaysCounted
  <2>8. AnswersInOrder' /\ SilentAfterEnd'
        BY <2>2 DEF AnswersInOrder, SilentAfterEnd, Answers
  <2> QED BY <2>5, <2>6, <2>7, <2>8 DEF Accepted, Counted
<1>18. ASSUME NEW i \in Fds, Parsed(i) PROVE Goal
      BY <1>18, QuietStep DEF Parsed
<1>19. ASSUME NEW i \in Fds, WriteBlocks(i) PROVE Goal
      BY <1>19, BlockStep
<1>20. ASSUME UNCHANGED vars PROVE Goal
      BY <1>20, QuietStep DEF vars
<1> HIDE DEF Goal
<1>21. Goal
      BY <1>1, <1>2, <1>3, <1>4, <1>5, <1>6, <1>7, <1>8, <1>9, <1>10, <1>11, <1>12, <1>13,
         <1>14, <1>15, <1>16, <1>17, <1>18, <1>19, <1>20, LeavingAssumption
      DEF Next, Client, Server, OnMessageComplete, ClientReads, WriteFails
<1> QED BY <1>0, <1>21 DEF Goal

\* However requests are pipelined, cut by reads and mixed with those of other
\* connections, and whatever a descriptor served before, the answers of a connection
\* are to its requests in their order, and none is skipped but behind a request for an
\* upgrade, with which the rest of its read is dropped (http_server.cpp:82, :150)
THEOREM InOrder == Spec => []AnswersInOrder
<1>1. Inv => AnswersInOrder
      BY DEF Inv
<1> QED BY InvInit, InvStep, <1>1, PTL DEF Spec

\* Nothing is answered behind a message that ends its connection, nor from bytes
\* the parser rejected or behind them, although both ignore the parser's result
\* and leave the connection open (http_server.cpp:84)
THEOREM Silent == Spec => []SilentAfterEnd
<1>1. Inv => SilentAfterEnd
      BY DEF Inv
<1> QED BY InvInit, InvStep, <1>1, PTL DEF Spec

-----------------------------------------------------------------------------
\* Fields

\* What a context holds was sent in its request; before on_message_begin it holds
\* what an earlier request left
FilledAt(i) ==
    owner[i] # None /\ parser[i] \in {"message", "complete", "writing"} =>
        /\ ctx[i].url \subseteq Whole(owner[i], Request(i), "url")
        /\ ctx[i].cookie \subseteq Whole(owner[i], Request(i), "cookie")
        /\ ctx[i].body \subseteq Whole(owner[i], Request(i), "body")
Filled == \A i \in Fds : FilledAt(i)

FieldInv == Inv /\ Filled /\ NothingForeign

\* A data callback is given bytes of its field in the request the parser is in, and
\* leaves the parser in that request or at its end
LEMMA DataOwn ==
    ASSUME Inv, NEW i \in Fds, NEW f \in Fields, DataCallback(i, f)
    PROVE  /\ owner[i] \in Conns /\ parser[i] = "message"
           /\ Data(i) \subseteq Whole(owner[i], Request(i), f)
           /\ Request(i)' = Request(i)
           /\ \A j \in Fds : j # i /\ owner[j] # None =>
                  parser'[j] = parser[j] /\ done'[owner[j]] = done[owner[j]]
           /\ UNCHANGED <<owner, out>>
<1> DEFINE k == owner[i]
           d == done[k]
<1> USE DEF Inv, TypeInv
<1>1. /\ k \in Conns /\ k # None /\ Unparsed(i) /\ parser[i] = "message"
      /\ Stream[k][d + 1].field = f /\ d \in Nat
      /\ UNCHANGED <<owner, peer, got, out>>
      BY DEF TypeOK, Owned, DataCallback, Serving, Conn, At1, Next1
<1>2. PICK q \in FieldRun(i) :
        /\ done' = [done EXCEPT ![k] = q]
        /\ parser' = [parser EXCEPT ![i] = IF Stream[k][q].last THEN "complete" ELSE "message"]
      BY DEF DataCallback, Conn
<1>3. /\ FieldRun(i) \subseteq (d + 1)..got[k] /\ got[k] \in Nat /\ got[k] <= Len(Stream[k])
      /\ d + 1 <= Len(Stream[k])
      BY <1>1, RunType, StreamAssumption DEF Conn, Next1
<1>4. ASSUME NEW x \in FieldRun(i)
      PROVE  /\ x \in Nat /\ d + 1 <= x /\ x \in DOMAIN Stream[k]
             /\ Stream[k][x].field = f /\ Stream[k][x].req = Stream[k][d + 1].req
  <2>1. x \in Nat /\ d + 1 <= x /\ x <= Len(Stream[k])
        BY <1>1, <1>3, <1>4, StreamAssumption
  <2>2. x \in DOMAIN Stream[k]
        BY <2>1, <1>1, StreamAssumption
  <2>3. x \in (d + 1)..x
        BY <2>1, <1>1
  <2>4. Stream[k][x].field = f /\ Stream[k][x].req = Stream[k][d + 1].req
        BY <1>1, <1>4, <2>3 DEF FieldRun, Conn, Next1, At1
  <2> QED BY <2>1, <2>2, <2>4
<1>5. Request(i) = Stream[k][d + 1].req
      BY <1>1, <1>3, NextReqIs DEF Request
<1>6. Data(i) \subseteq Whole(k, Request(i), f)
      BY <1>4, <1>5 DEF Data, Whole, Conn
<1>7. Request(i)' = Request(i)
  <2>1. done'[k] = q /\ owner'[i] = k
        BY <1>1, <1>2 DEF TypeOK
  <2>2. parser'[i] = IF Stream[k][q].last THEN "complete" ELSE "message"
        BY <1>2 DEF TypeOK
  <2>3. q # 0 /\ Stream[k][q].req = Request(i)
        BY <1>1, <1>2, <1>4, <1>5
  <2> QED BY <2>1, <2>2, <2>3 DEF Request, NextReq
<1>8. \A j \in Fds : j # i /\ owner[j] # None =>
          parser'[j] = parser[j] /\ done'[owner[j]] = done[owner[j]]
      BY <1>1, <1>2 DEF TypeOK, Owned
<1> QED BY <1>1, <1>6, <1>7, <1>8

\* A context that does not change stays that of its request
LEMMA OthersFilled ==
    ASSUME Filled, NEW j \in Fds, owner'[j] = owner[j], parser'[j] = parser[j], ctx'[j] = ctx[j],
           owner[j] # None => done'[owner[j]] = done[owner[j]]
    PROVE  FilledAt(j)'
<1>1. owner[j] # None => Request(j)' = Request(j)
      BY DEF Request, NextReq
<1> QED BY <1>1 DEF Filled, FilledAt

\* Steps that answer nothing and leave the contexts alone
LEMMA QuietFields ==
    ASSUME FieldInv, UNCHANGED <<owner, parser, ctx, done, out>>
    PROVE  Filled' /\ NothingForeign'
<1>1. Filled'
      BY OthersFilled DEF FieldInv, Filled
<1> QED BY <1>1 DEF FieldInv, NothingForeign, Answers

\* A data callback stores what it is given under its own field
LEMMA DataFields ==
    ASSUME FieldInv, NEW i \in Fds, NEW f \in Fields, DataCallback(i, f),
           \A j \in Fds : j # i => ctx'[j] = ctx[j],
           ctx'[i].url = ctx[i].url \/ (f = "url" /\ ctx'[i].url = Data(i)),
           ctx'[i].cookie = ctx[i].cookie \/ (f = "cookie" /\ ctx'[i].cookie = Data(i)),
           ctx'[i].body = ctx[i].body \/ (f = "body" /\ ctx'[i].body = Data(i))
    PROVE  Filled' /\ NothingForeign'
<1>1. /\ owner[i] \in Conns /\ parser[i] = "message"
      /\ Data(i) \subseteq Whole(owner[i], Request(i), f)
      /\ Request(i)' = Request(i)
      /\ \A j \in Fds : j # i /\ owner[j] # None =>
             parser'[j] = parser[j] /\ done'[owner[j]] = done[owner[j]]
      /\ UNCHANGED <<owner, out>>
      BY DataOwn DEF FieldInv
<1>2. \A j \in Fds : j # i => parser'[j] = parser[j]
      BY DEF FieldInv, Inv, TypeInv, TypeOK, DataCallback
<1>3. owner[i] # None
      BY <1>1, NoneAssumption
<1>4. FilledAt(i)'
  <2>1. /\ ctx'[i].url \subseteq Whole(owner[i], Request(i), "url")
        /\ ctx'[i].cookie \subseteq Whole(owner[i], Request(i), "cookie")
        /\ ctx'[i].body \subseteq Whole(owner[i], Request(i), "body")
        BY <1>1, <1>3 DEF FieldInv, Filled, FilledAt
  <2> QED BY <1>1, <2>1 DEF FilledAt
<1>5. ASSUME NEW j \in Fds, j # i PROVE FilledAt(j)'
      BY <1>1, <1>2, <1>5, OthersFilled DEF FieldInv
<1>6. NothingForeign'
      BY <1>1 DEF FieldInv, NothingForeign, Answers
<1> QED BY <1>4, <1>5, <1>6 DEF Filled

\* An answer takes what it holds from the context of its request
LEMMA ReplyFields ==
    ASSUME FieldInv, NEW i \in Fds, Reply(i)
    PROVE  Filled' /\ NothingForeign'
<1> DEFINE k == owner[i]
           d == done[k]
           answer == [req |-> Stream[k][d].req, url |-> ctx[i].url, cookie |-> ctx[i].cookie,
                      body |-> ctx[i].body, cb |-> CallbackOf(i)]
<1> USE DEF FieldInv, Inv, TypeInv
<1>1. /\ k \in Conns /\ k # None /\ AtEnd(i)
      /\ UNCHANGED owner
      /\ \A j \in Fds : j # i => owner[j] # k
  <2>1. i \in ready
        BY DEF Reply, Serving
  <2>2. k # None
        BY <2>1 DEF Owned
  <2> QED BY <2>2 DEF TypeOK, Owned, Reply
<1>2. /\ parser' = [parser EXCEPT ![i] = IF Stream[k][d].keep THEN "start" ELSE "dead"]
      /\ ctx' = [ctx EXCEPT ![i] = [@ EXCEPT !.cb = CallbackOf(i)]]
      /\ out' = IF peer[k] = "open" THEN [out EXCEPT ![k] = Append(@, answer)] ELSE out
      /\ done' = IF Stream[k][d].upgrade THEN [done EXCEPT ![k] = got[k]] ELSE done
      BY DEF Reply, Conn
<1>3. /\ answer.url \subseteq Whole(k, answer.req, "url")
      /\ answer.cookie \subseteq Whole(k, answer.req, "cookie")
      /\ answer.body \subseteq Whole(k, answer.req, "body")
      BY <1>1 DEF Filled, FilledAt, Request
<1> HIDE DEF answer
<1>4. Filled'
  <2>1. FilledAt(i)'
        BY <1>2 DEF FilledAt, TypeOK
  <2>2. ASSUME NEW j \in Fds, j # i PROVE FilledAt(j)'
    <3>1. owner[j] # None => done'[owner[j]] = done[owner[j]]
          BY <1>1, <1>2, <2>2 DEF TypeOK
    <3>2. parser'[j] = parser[j] /\ ctx'[j] = ctx[j]
          BY <1>2, <2>2 DEF TypeOK
    <3> QED BY <1>1, <3>1, <3>2, OthersFilled
  <2> QED BY <2>1, <2>2 DEF Filled
<1>5. NothingForeign'
  <2>1. out[k] \in Seq(Answer)
        BY <1>1 DEF TypeOK
  <2>2. \A c \in Conns : \A n \in DOMAIN out'[c] :
            \/ n \in DOMAIN out[c] /\ out'[c][n] = out[c][n]
            \/ c = k /\ out'[c][n] = answer
        BY <1>1, <1>2, <2>1 DEF TypeOK
  <2>3. SUFFICES ASSUME NEW c \in Conns, NEW n \in DOMAIN out'[c]
                 PROVE  /\ out'[c][n].url \subseteq Whole(c, out'[c][n].req, "url")
                        /\ out'[c][n].cookie \subseteq Whole(c, out'[c][n].req, "cookie")
                        /\ out'[c][n].body \subseteq Whole(c, out'[c][n].req, "body")
        BY DEF NothingForeign, Answers
  <2>4. CASE n \in DOMAIN out[c] /\ out'[c][n] = out[c][n]
    <3>1. out[c][n] \in Answers(c)
          BY <2>4 DEF Answers
    <3> QED BY <2>4, <3>1 DEF NothingForeign
  <2>5. CASE c = k /\ out'[c][n] = answer
        BY <2>5, <1>3
  <2> QED BY <2>2, <2>4, <2>5
<1> QED BY <1>4, <1>5

LEMMA FieldInit == Init => FieldInv
BY InvInit DEF Init, FieldInv, Filled, FilledAt, NothingForeign, Answers

\* Every step keeps the contexts to their requests
LEMMA FieldStep == FieldInv /\ [Next]_vars => FieldInv'
<1> SUFFICES ASSUME FieldInv, [Next]_vars PROVE FieldInv'
    OBVIOUS
<1> DEFINE Goal == Filled' /\ NothingForeign'
<1>0. Inv /\ Inv' /\ TypeOK /\ Filled
      BY InvStep DEF FieldInv, Inv, TypeInv
<1> USE DEF streams
<1>1. ASSUME NEW k \in Conns, Connect(k) \/ Send(k) \/ Close(k) \/ Abort(k) PROVE Goal
      BY <1>1, QuietFields DEF Connect, Send, Close, Abort
<1>2. ASSUME Select \/ AcceptFails PROVE Goal
      BY <1>2, QuietFields DEF Select, AcceptFails
<1>3. ASSUME NEW k \in Conns, Accept(k) PROVE Goal
  <2>1. PICK i \in Free : /\ owner' = [owner EXCEPT ![i] = k]
                          /\ parser' = [parser EXCEPT ![i] = "start"]
        BY <1>3 DEF Accept
  <2>2. UNCHANGED <<ctx, done, out>>
        BY <1>3 DEF Accept
  <2>3. i \in Fds
        BY DEF Free
  <2>4. FilledAt(i)'
        BY <1>0, <2>1, <2>3 DEF FilledAt, TypeOK
  <2>5. ASSUME NEW j \in Fds, j # i PROVE FilledAt(j)'
        BY <1>0, <2>1, <2>2, <2>3, <2>5, OthersFilled DEF TypeOK
  <2> QED BY <2>2, <2>4, <2>5 DEF Filled, FieldInv, NothingForeign, Answers
<1>4. ASSUME NEW i \in Fds, NEW n \in 1..MaxChunk, Read(i, n) PROVE Goal
      BY <1>4, QuietFields DEF Read
<1>5. ASSUME NEW i \in Fds, ReadEof(i) PROVE Goal
  <2>1. owner' = [owner EXCEPT ![i] = None] /\ UNCHANGED <<parser, ctx, done, out>>
        BY <1>5 DEF ReadEof
  <2>2. FilledAt(i)'
        BY <1>0, <2>1 DEF FilledAt, TypeOK
  <2>3. ASSUME NEW j \in Fds, j # i PROVE FilledAt(j)'
        BY <1>0, <2>1, <2>3, OthersFilled DEF TypeOK
  <2> QED BY <2>1, <2>2, <2>3 DEF Filled, FieldInv, NothingForeign, Answers
<1>6. ASSUME NEW i \in Fds, ReadFails(i) \/ SplitsNothing(i) \/ Parsed(i)
      PROVE  Goal
      BY <1>6, QuietFields DEF ReadFails, SplitsNothing, Parsed
<1>7. ASSUME NEW i \in Fds, OnMessageBegin(i) PROVE Goal
  <2>1. /\ parser' = [parser EXCEPT ![i] = "message"]
        /\ ctx' = [ctx EXCEPT ![i] = [EmptyContext EXCEPT !.cb = ctx[i].cb]]
        /\ UNCHANGED <<owner, done, out>>
        BY <1>7 DEF OnMessageBegin
  <2>2. /\ ctx'[i].url = {} /\ ctx'[i].cookie = {} /\ ctx'[i].body = {}
        /\ \A j \in Fds : j # i => ctx'[j] = ctx[j] /\ parser'[j] = parser[j]
        BY <1>0, <2>1 DEF TypeOK, EmptyContext
  <2>3. FilledAt(i)'
        BY <2>2 DEF FilledAt
  <2>4. ASSUME NEW j \in Fds, j # i PROVE FilledAt(j)'
        BY <1>0, <2>1, <2>2, <2>4, OthersFilled
  <2> QED BY <2>1, <2>3, <2>4 DEF Filled, FieldInv, NothingForeign, Answers
<1>8. ASSUME NEW i \in Fds, OnUrl(i) PROVE Goal
  <2>1. /\ \A j \in Fds : j # i => ctx'[j] = ctx[j]
        /\ ctx'[i].url = Data(i) /\ ctx'[i].cookie = ctx[i].cookie /\ ctx'[i].body = ctx[i].body
        BY <1>0, <1>8 DEF OnUrl, TypeOK, Context
  <2> QED BY <1>8, <2>1, DataFields DEF OnUrl, Fields
<1>9. ASSUME NEW i \in Fds, OnHeaderField(i) PROVE Goal
  <2>1. /\ \A j \in Fds : j # i => ctx'[j] = ctx[j]
        /\ ctx'[i].url = ctx[i].url /\ ctx'[i].cookie = ctx[i].cookie /\ ctx'[i].body = ctx[i].body
        BY <1>0, <1>9 DEF OnHeaderField, TypeOK, Context
  <2> QED BY <1>9, <2>1, DataFields DEF OnHeaderField, Fields
<1>10. ASSUME NEW i \in Fds, OnHeaderValue(i) PROVE Goal
  <2>1. /\ \A j \in Fds : j # i => ctx'[j] = ctx[j]
        /\ ctx'[i].url = ctx[i].url /\ ctx'[i].body = ctx[i].body
        /\ ctx'[i].cookie = ctx[i].cookie \/ ctx'[i].cookie = Data(i)
        BY <1>0, <1>10 DEF OnHeaderValue, TypeOK, Context
  <2> QED BY <1>10, <2>1, DataFields DEF OnHeaderValue, Fields
<1>11. ASSUME NEW i \in Fds, OnBody(i) PROVE Goal
  <2>1. /\ \A j \in Fds : j # i => ctx'[j] = ctx[j]
        /\ ctx'[i].url = ctx[i].url /\ ctx'[i].cookie = ctx[i].cookie /\ ctx'[i].body = Data(i)
        BY <1>0, <1>11 DEF OnBody, TypeOK, Context
  <2> QED BY <1>11, <2>1, DataFields DEF OnBody, Fields
<1>12. ASSUME NEW i \in Fds, Reply(i) PROVE Goal
      BY <1>12, ReplyFields
<1>13. ASSUME NEW i \in Fds, Reject(i) PROVE Goal
  <2> DEFINE k == owner[i]
  <2>1. k \in Conns /\ \A j \in Fds : j # i => owner[j] # k
        BY <1>0, <1>13 DEF Reject, Serving, Inv, TypeInv, TypeOK, Owned
  <2>2. /\ parser' = [parser EXCEPT ![i] = "error"] /\ done' = [done EXCEPT ![k] = got[k]]
        /\ UNCHANGED <<owner, ctx, out>>
        BY <1>13 DEF Reject, Conn
  <2>3. FilledAt(i)'
        BY <1>0, <2>2 DEF FilledAt, TypeOK
  <2>4. ASSUME NEW j \in Fds, j # i PROVE FilledAt(j)'
        BY <1>0, <2>1, <2>2, <2>4, OthersFilled DEF TypeOK
  <2> QED BY <2>2, <2>3, <2>4 DEF Filled, FieldInv, NothingForeign, Answers
<1>14. ASSUME NEW i \in Fds, WriteBlocks(i) PROVE Goal
  <2>1. /\ parser[i] = "complete" /\ parser' = [parser EXCEPT ![i] = "writing"]
        /\ UNCHANGED <<owner, ctx, done, out>>
        BY <1>14 DEF WriteBlocks
  <2>2. parser'[i] = "writing" /\ \A j \in Fds : j # i => parser'[j] = parser[j]
        BY <1>0, <2>1 DEF TypeOK
  <2>3. FilledAt(i)'
    <3>1. Request(i)' = Request(i)
          BY <2>1, <2>2 DEF Request
    <3> QED BY <1>0, <2>1, <2>2, <3>1 DEF Filled, FilledAt
  <2>4. ASSUME NEW j \in Fds, j # i PROVE FilledAt(j)'
        BY <1>0, <2>1, <2>2, <2>4, OthersFilled
  <2> QED BY <2>1, <2>3, <2>4 DEF Filled, FieldInv, NothingForeign, Answers
<1>16. ASSUME UNCHANGED vars PROVE Goal
      BY <1>16, QuietFields DEF vars
<1> HIDE DEF Goal
<1>15. Goal
      BY <1>1, <1>2, <1>3, <1>4, <1>5, <1>6, <1>7, <1>8, <1>9, <1>10, <1>11, <1>12, <1>13,
         <1>14, <1>16, LeavingAssumption
      DEF Next, Client, Server, OnMessageComplete, ClientReads, WriteFails
<1> QED BY <1>0, <1>15 DEF Goal, FieldInv

\* No byte of a URL, cookie or body of another request, or of the connection a
\* descriptor served before, ever shows in an answer: the context outlives both, and
\* only on_message_begin_server empties it (http_server.cpp:99)
THEOREM OwnFields == Spec => []NothingForeign
<1>1. FieldInv => NothingForeign
      BY DEF FieldInv
<1> QED BY FieldInit, FieldStep, <1>1, PTL DEF Spec

-----------------------------------------------------------------------------
\* Nothing is lost

\* The name of a header comes in one piece, which no read ends right in front of its
\* end, and in front of its value; the query of a URL is in the last piece of its bytes
NamesWhole ==
    \A k \in Conns : \A p, q \in DOMAIN Stream[k] :
        Stream[k][p].req = Stream[k][q].req /\ Stream[k][p].field = "name" =>
            /\ Stream[k][p].text
            /\ Stream[k][q].field = "name" => p = q
            /\ Stream[k][q].field = "cookie" => p < q
QueryLast ==
    \A k \in Conns : \A p, q \in DOMAIN Stream[k] :
        /\ Stream[k][p].req = Stream[k][q].req
        /\ Stream[k][p].field = "url" /\ Stream[k][q].field = "url" /\ p < q
        /\ Stream[k][q].text
            => Stream[k][p].cb = None

\* The places of the bytes of a field that the parser has behind it in its request
Behind(i, f) ==
    {q \in 1..done[owner[i]] :
        /\ Stream[owner[i]][q].req = Request(i) /\ Stream[owner[i]][q].field = f
        /\ Stream[owner[i]][q].text}

\* Of a URL that is not lost the context has the last piece at least, of the name of a
\* header all, and something of every field that came and was not lost at its end
KeptAt(i) ==
    owner[i] # None /\ parser[i] \in {"message", "complete", "writing"} =>
        /\ ctx[i].url # {} =>
               \A q \in Behind(i, "url") :
                   (\A x \in Behind(i, "url") : x <= q) => <<owner[i], q>> \in ctx[i].url
        /\ Behind(i, "body") # {} => ctx[i].body # {} \/ EndCut(owner[i], Request(i), "body")
        /\ NamesWhole =>
               /\ ctx[i].key = {owner[i]} \X Behind(i, "name")
               /\ Behind(i, "cookie") # {} =>
                      ctx[i].cookie # {} \/ EndCut(owner[i], Request(i), "cookie")
Kept == \A i \in Fds : KeptAt(i)

\* Field f of request r is lost only at its end
LostAtEnd(k, r, f) == Whole(k, r, f) = {} \/ EndCut(k, r, f)

\* A body ends with its last byte
LEMMA NoBodyEnd == \A k \in Conns, r \in Nat : ~EndCut(k, r, "body")
BY EndAssumption DEF EndCut

NothingLost ==
    \A k \in Conns : \A a \in Answers(k) :
        /\ a.url = {} => Whole(k, a.req, "url") = {}
        /\ a.body = {} => LostAtEnd(k, a.req, "body")
        /\ NamesWhole => (a.cookie = {} => LostAtEnd(k, a.req, "cookie"))

KeptInv ==
    /\ FieldInv /\ Kept
    /\ NothingLost
    /\ QueryLast => OwnCallback

\* A parser that stays where it is, with a context that stays as it is
LEMMA OthersKept ==
    ASSUME Kept, NEW j \in Fds, owner'[j] = owner[j], parser'[j] = parser[j], ctx'[j] = ctx[j],
           owner[j] # None => done'[owner[j]] = done[owner[j]]
    PROVE  KeptAt(j)'
<1>1. owner[j] # None => Request(j)' = Request(j)
      BY DEF Request, NextReq
<1>2. owner[j] # None => \A f : Behind(j, f)' = Behind(j, f)
      BY <1>1 DEF Behind
<1> QED BY <1>1, <1>2 DEF Kept, KeptAt

LEMMA QuietKept ==
    ASSUME KeptInv, UNCHANGED <<owner, parser, ctx, done, out>>
    PROVE  Kept' /\ NothingLost' /\ (QueryLast => OwnCallback')
<1>1. Kept'
      BY OthersKept DEF KeptInv, Kept
<1> QED BY <1>1 DEF KeptInv, NothingLost, OwnCallback, Answers

\* The bytes a data callback is given
TextRun(i) == {q \in FieldRun(i) : Stream[Conn(i)][q].text}

\* What a data callback is given lies behind all the parser had behind it, and the
\* parser has it behind itself afterwards
LEMMA DataBehind ==
    ASSUME Inv, NEW i \in Fds, NEW f \in Fields, DataCallback(i, f)
    PROVE  /\ TextRun(i) # {} \/ EndCut(owner[i], Request(i), f)
           /\ TextRun(i) \subseteq Nat
           /\ \A g : g # f => Behind(i, g)' = Behind(i, g)
           /\ Behind(i, f)' = Behind(i, f) \cup TextRun(i)
           /\ \A p \in Behind(i, f), q \in TextRun(i) : p < q
           /\ Behind(i, f)' \subseteq DOMAIN Stream[owner[i]]
           /\ \A q \in Behind(i, f)' : /\ Stream[owner[i]][q].req = Request(i)
                                      /\ Stream[owner[i]][q].field = f
<1> DEFINE k == owner[i]
           d == done[k]
<1> USE DEF Inv, TypeInv
<1>1. /\ k \in Conns /\ k # None /\ Unparsed(i) /\ parser[i] = "message"
      /\ Stream[k][d + 1].field = f /\ d \in Nat
      /\ UNCHANGED <<owner, peer, got, out>>
      BY DEF TypeOK, Owned, DataCallback, Serving, Conn, At1, Next1
<1>2. PICK q \in FieldRun(i) :
        /\ \A x \in FieldRun(i) : x <= q
        /\ done' = [done EXCEPT ![k] = q]
      BY DEF DataCallback, Conn
<1>3. /\ FieldRun(i) \subseteq (d + 1)..got[k] /\ got[k] \in Nat /\ got[k] <= Len(Stream[k])
      /\ d + 1 <= Len(Stream[k]) /\ Len(Stream[k]) \in Nat /\ DOMAIN Stream[k] = 1..Len(Stream[k])
      BY <1>1, RunType, StreamAssumption DEF Conn, Next1
<1>4. /\ \A x \in (d + 1)..q : x \in FieldRun(i)
      /\ \A x \in FieldRun(i) : x \in (d + 1)..q
  <2>1. ASSUME NEW x \in (d + 1)..q PROVE x \in FieldRun(i)
        BY <1>1, <1>2, <1>3 DEF FieldRun, Conn, Next1
  <2> QED BY <2>1, <1>1, <1>2, <1>3
<1>5. \A x \in FieldRun(i) : Stream[k][x].field = f /\ Stream[k][x].req = Request(i)
  <2>1. ASSUME NEW x \in FieldRun(i)
        PROVE  Stream[k][x].field = f /\ Stream[k][x].req = Stream[k][d + 1].req
    <3>1. x \in (d + 1)..x
          BY <1>1, <1>3
    <3> QED BY <3>1, <1>1 DEF FieldRun, Conn, Next1, At1
  <2>2. Request(i) = Stream[k][d + 1].req
        BY <1>1, <1>3, NextReqIs DEF Request
  <2> QED BY <2>1, <2>2
<1>6. done'[k] = q /\ owner'[i] = k /\ Request(i)' = Request(i) /\ q \in Nat /\ d < q /\ q <= Len(Stream[k])
      BY <1>1, <1>2, <1>3, DataOwn DEF TypeOK
<1>7. \A g : Behind(i, g)' = {x \in 1..q : /\ Stream[k][x].req = Request(i)
                                          /\ Stream[k][x].field = g /\ Stream[k][x].text}
      BY <1>6 DEF Behind
<1>8. \A g : g # f => Behind(i, g)' = Behind(i, g)
  <2>1. SUFFICES ASSUME NEW g, g # f PROVE Behind(i, g)' = Behind(i, g)
        OBVIOUS
  <2>2. \A x \in 1..q : Stream[k][x].field = g => x \in 1..d
        BY <2>1, <1>1, <1>4, <1>5, <1>6
  <2>3. \A x \in 1..d : x \in 1..q
        BY <1>1, <1>6
  <2> QED BY <1>7, <2>2, <2>3 DEF Behind
<1>9. Behind(i, f)' = Behind(i, f) \cup TextRun(i)
  <2>1. \A x \in 1..q : x \in 1..d \/ x \in FieldRun(i)
    <3>1. \A x \in 1..q : x \in 1..d \/ x \in (d + 1)..q
          BY <1>1, <1>6
    <3> QED BY <1>4, <3>1, Zenon
  <2>2. \A x \in FieldRun(i) : x \in 1..q
    <3>1. \A x \in (d + 1)..q : x \in 1..q
          BY <1>1, <1>6
    <3> QED BY <1>4, <3>1, Zenon
  <2>3. \A x \in 1..d : x \in 1..q
        BY <1>1, <1>6
  <2>4. TextRun(i) = {x \in FieldRun(i) : Stream[k][x].text}
        BY DEF TextRun, Conn
  <2> QED BY <1>5, <1>7, <2>1, <2>2, <2>3, <2>4 DEF Behind
<1>10. \A p \in Behind(i, f), x \in TextRun(i) : p < x
      BY <1>1, <1>3 DEF Behind, TextRun
<1>11. /\ TextRun(i) # {} \/ EndCut(k, Request(i), f)
       /\ TextRun(i) \subseteq Nat
  <2>1. q \in FieldRun(i) /\ q \in DOMAIN Stream[k]
        BY <1>1, <1>2, <1>3
  <2>2. Stream[k][q].field = f /\ Stream[k][q].req = Request(i)
        BY <1>5, <2>1
  <2>3. Stream[k][q].text => q \in TextRun(i)
        BY <2>1 DEF TextRun, Conn
  <2>4. TextRun(i) \subseteq Nat
        BY <1>1, <1>3 DEF TextRun
  <2> QED BY <2>1, <2>2, <2>3, <2>4 DEF EndCut
<1>12. Behind(i, f)' \subseteq DOMAIN Stream[k]
      BY <1>3, <1>6, <1>7
<1>13. \A x \in Behind(i, f)' : Stream[k][x].req = Request(i) /\ Stream[k][x].field = f
      BY <1>7
<1> QED BY <1>8, <1>9, <1>10, <1>11, <1>12, <1>13

\* A data callback stores what it is given: of a field in several pieces, the last
LEMMA DataKept ==
    ASSUME KeptInv, NEW i \in Fds, NEW f \in Fields, DataCallback(i, f),
           \A j \in Fds : j # i => ctx'[j] = ctx[j],
           ctx'[i].url = IF f = "url" THEN Data(i) ELSE ctx[i].url,
           ctx'[i].body = IF f = "body" THEN Data(i) ELSE ctx[i].body,
           ctx'[i].key = IF f = "name" THEN Data(i) ELSE ctx[i].key,
           f # "cookie" => ctx'[i].cookie = ctx[i].cookie,
           f = "cookie" /\ NamesWhole => ctx'[i].cookie = Data(i)
    PROVE  Kept' /\ NothingLost' /\ (QueryLast => OwnCallback')
<1> DEFINE k == owner[i]
<1>0. Inv /\ FieldInv /\ TypeOK /\ Kept
      BY DEF KeptInv, FieldInv, Inv, TypeInv
<1>1. /\ k \in Conns /\ parser[i] = "message"
      /\ \A j \in Fds : j # i /\ owner[j] # None =>
             parser'[j] = parser[j] /\ done'[owner[j]] = done[owner[j]]
      /\ UNCHANGED <<owner, out>>
      BY <1>0, DataOwn
<1>2. /\ \A j \in Fds : j # i => parser'[j] = parser[j]
      /\ parser'[i] \in {"message", "complete"}
      BY <1>0 DEF TypeOK, DataCallback
<1>3. k # None
      BY <1>1, NoneAssumption
<1>4. /\ TextRun(i) # {} \/ EndCut(k, Request(i), f)
      /\ TextRun(i) \subseteq Nat
      /\ \A g : g # f => Behind(i, g)' = Behind(i, g)
      /\ Behind(i, f)' = Behind(i, f) \cup TextRun(i)
      /\ \A p \in Behind(i, f), q \in TextRun(i) : p < q
      /\ Behind(i, f)' \subseteq DOMAIN Stream[k]
      /\ \A q \in Behind(i, f)' : Stream[k][q].req = Request(i) /\ Stream[k][q].field = f
      BY <1>0, DataBehind
<1>5. /\ Data(i) = {k} \X TextRun(i)
      /\ Data(i) = {} => TextRun(i) = {}
      /\ TextRun(i) = {} => Data(i) = {}
  <2>1. Data(i) = {k} \X TextRun(i)
        BY DEF Data, TextRun, Conn
  <2>2. ASSUME NEW x \in TextRun(i) PROVE <<k, x>> \in Data(i)
        BY <2>1, <2>2
  <2> QED BY <2>1, <2>2
<1>6. /\ ctx[i].url # {} =>
            \A q \in Behind(i, "url") :
                (\A x \in Behind(i, "url") : x <= q) => <<k, q>> \in ctx[i].url
      /\ Behind(i, "body") # {} => ctx[i].body # {} \/ EndCut(k, Request(i), "body")
      /\ NamesWhole =>
            /\ ctx[i].key = {k} \X Behind(i, "name")
            /\ Behind(i, "cookie") # {} => ctx[i].cookie # {} \/ EndCut(k, Request(i), "cookie")
      BY <1>0, <1>1, <1>3 DEF Kept, KeptAt
<1>7. ASSUME ctx'[i].url # {}, NEW q \in Behind(i, "url")', \A x \in Behind(i, "url")' : x <= q
      PROVE  <<k, q>> \in ctx'[i].url
  <2>1. CASE f = "url"
    <3>1. q \in TextRun(i)
      <4>1. PICK x \in TextRun(i) : TRUE
            BY <2>1, <1>5, <1>7
      <4>2. x <= q /\ x \in Nat
            BY <4>1, <2>1, <1>4, <1>7
      <4>3. q \in Behind(i, "url") => q < x
            BY <4>1, <2>1, <1>4
      <4>4. q \in Nat
            BY <1>7 DEF Behind
      <4> QED BY <4>2, <4>3, <4>4, <2>1, <1>4, <1>7
    <3> QED BY <3>1, <2>1, <1>5
  <2>2. CASE f # "url"
        BY <2>2, <1>4, <1>6, <1>7
  <2> QED BY <2>1, <2>2
<1>9. (Behind(i, "body") # {})' => ctx'[i].body # {} \/ EndCut(k, Request(i), "body")
      BY <1>4, <1>5, <1>6
<1>10. ASSUME NamesWhole
       PROVE  /\ ctx'[i].key = {k} \X Behind(i, "name")'
              /\ (Behind(i, "cookie") # {})' =>
                     ctx'[i].cookie # {} \/ EndCut(k, Request(i), "cookie")
  <2>1. CASE f = "name"
    <3>1. Behind(i, "name") = {}
      <4>1. SUFFICES ASSUME NEW p \in Behind(i, "name") PROVE FALSE
            OBVIOUS
      <4>6. ~EndCut(k, Request(i), "name")
            BY <1>1, <1>10 DEF EndCut, NamesWhole
      <4>2. PICK x \in TextRun(i) : TRUE
            BY <4>6, <2>1, <1>4
      <4>3. p < x /\ x \in Nat /\ p \in Behind(i, f)' /\ x \in Behind(i, f)'
            BY <4>1, <4>2, <2>1, <1>4
      <4>4. /\ p \in DOMAIN Stream[k] /\ x \in DOMAIN Stream[k]
            /\ Stream[k][p].req = Stream[k][x].req
            /\ Stream[k][p].field = "name" /\ Stream[k][x].field = "name"
            BY <4>3, <2>1, <1>4
      <4>5. p = x
            BY <4>4, <1>1, <1>10 DEF NamesWhole
      <4> QED BY <4>3, <4>5
    <3>2. ctx'[i].key = {k} \X Behind(i, "name")'
          BY <3>1, <2>1, <1>4, <1>5
    <3> QED BY <3>2, <2>1, <1>4, <1>6, <1>10
  <2>2. CASE f # "name"
        BY <2>2, <1>4, <1>5, <1>6, <1>10
  <2> QED BY <2>1, <2>2
<1>11. KeptAt(i)'
  <2>1. (Request(i) = Request(i)')
        BY <1>0, DataOwn
  <2> QED BY <1>1, <1>7, <1>9, <1>10, <2>1 DEF KeptAt
<1>12. ASSUME NEW j \in Fds, j # i PROVE KeptAt(j)'
      BY <1>0, <1>1, <1>2, <1>12, OthersKept
<1>14. NothingLost' /\ (QueryLast => OwnCallback')
  <2>1. out' = out
        BY <1>1
  <2>2. NothingLost /\ (QueryLast => OwnCallback)
        BY DEF KeptInv
  <2> QED BY <2>1, <2>2 DEF NothingLost, OwnCallback, Answers
<1> QED BY <1>11, <1>12, <1>14 DEF Kept

\* Where the name is whole, the value of a cookie is stored
LEMMA CookieStored ==
    ASSUME KeptInv, NamesWhole, NEW i \in Fds, DataCallback(i, "cookie")
    PROVE  ctx[i].key = Whole(Conn(i), At1(i).req, "name")
<1> DEFINE k == owner[i]
           d == done[k]
<1>0. Inv /\ TypeInv /\ TypeOK /\ Kept
      BY DEF KeptInv, FieldInv, Inv, TypeInv
<1>1. /\ k \in Conns /\ k # None /\ Unparsed(i) /\ parser[i] = "message"
      /\ Stream[k][d + 1].field = "cookie" /\ d \in Nat /\ Conn(i) = k
      BY <1>0 DEF TypeInv, TypeOK, Owned, DataCallback, Serving, Conn, At1, Next1
<1>2. d + 1 <= Len(Stream[k]) /\ Len(Stream[k]) \in Nat /\ DOMAIN Stream[k] = 1..Len(Stream[k])
  <2>1. d + 1 <= got[k] /\ got[k] \in Nat /\ got[k] <= Len(Stream[k])
        BY <1>0, <1>1, RunType DEF Conn, Next1
  <2> QED BY <2>1, <1>1, StreamAssumption
<1>3. At1(i).req = Request(i)
      BY <1>1, <1>2, NextReqIs DEF Request, At1, Next1, Conn
<1>4. ctx[i].key = {k} \X Behind(i, "name")
      BY <1>0, <1>1 DEF Kept, KeptAt
<1>5. ASSUME NEW q \in DOMAIN Stream[k], Stream[k][q].req = Request(i), Stream[k][q].field = "name"
      PROVE  q \in 1..d
  <2>1. d + 1 \in DOMAIN Stream[k] /\ Stream[k][d + 1].req = Stream[k][q].req
        BY <1>1, <1>2, <1>3, <1>5 DEF At1, Next1, Conn
  <2>2. q < d + 1
        BY <2>1, <1>1, <1>5 DEF NamesWhole
  <2> QED BY <2>2, <1>1, <1>2
<1>6. \A q \in 1..d : q \in DOMAIN Stream[k]
      BY <1>1, <1>2
<1> QED BY <1>1, <1>3, <1>4, <1>5, <1>6 DEF Whole, Behind

\* When a message is complete, its whole request is behind the parser
LEMMA WholeBehind ==
    ASSUME Inv, NEW i \in Fds, owner[i] # None, AtEnd(i)
    PROVE  /\ owner[i] \in Conns
           /\ Request(i) = Stream[owner[i]][done[owner[i]]].req
           /\ \A f : Whole(owner[i], Request(i), f) = {owner[i]} \X Behind(i, f)
           /\ \A f : Behind(i, f) \subseteq DOMAIN Stream[owner[i]]
<1> DEFINE k == owner[i]
           d == done[k]
<1> USE DEF Inv, TypeInv
<1>1. k \in Conns /\ d \in Nat /\ d > 0 /\ Stream[k][d].last
      BY DEF TypeOK, Completed
<1>2. d <= Len(Stream[k]) /\ Len(Stream[k]) \in Nat /\ DOMAIN Stream[k] = 1..Len(Stream[k])
      BY <1>1, StreamAssumption DEF TypeOK
<1>3. Request(i) = Stream[k][d].req
      BY DEF Request
<1>4. ASSUME NEW q \in DOMAIN Stream[k], Stream[k][q].req = Request(i)
      PROVE  q \in 1..d
  <2>1. d \in DOMAIN Stream[k] /\ q \in Nat /\ 1 <= q /\ q <= Len(Stream[k])
        BY <1>1, <1>2
  <2>2. Stream[k][d].req \in Nat
        BY <1>1, <1>2, PieceType DEF Piece
  <2>3. d < q => Stream[k][d].req < Stream[k][q].req
        BY <1>1, <2>1, NumberAssumption
  <2> QED BY <1>1, <1>3, <1>4, <2>1, <2>2, <2>3
<1>5. \A q \in 1..d : q \in DOMAIN Stream[k]
      BY <1>1, <1>2
<1>6. \A f : Whole(k, Request(i), f) = {k} \X Behind(i, f)
      BY <1>4, <1>5 DEF Whole, Behind
<1>7. \A f : Behind(i, f) \subseteq DOMAIN Stream[k]
      BY <1>5 DEF Behind
<1> QED BY <1>1, <1>3, <1>6, <1>7

\* The callback asked for in the last piece of the URL is the one that is used
LEMMA CallbackAsked ==
    ASSUME KeptInv, QueryLast, NEW i \in Fds, owner[i] # None, AtEnd(i),
           ctx[i].url # {}, Asked(owner[i], Request(i)) # {}
    PROVE  CallbackOf(i) \in Asked(owner[i], Request(i))
<1> DEFINE k == owner[i]
           given == {Stream[a[1]][a[2]].cb : a \in ctx[i].url} \ {None}
<1>1. Inv /\ Filled /\ Kept
      BY DEF KeptInv, FieldInv
<1>2. /\ k \in Conns /\ Whole(k, Request(i), "url") = {k} \X Behind(i, "url")
      /\ Behind(i, "url") \subseteq DOMAIN Stream[k]
      BY <1>1, WholeBehind
<1>3. /\ ctx[i].url \subseteq Whole(k, Request(i), "url")
      /\ \A q \in Behind(i, "url") :
            (\A x \in Behind(i, "url") : x <= q) => <<k, q>> \in ctx[i].url
      BY <1>1 DEF Filled, FilledAt, Kept, KeptAt
<1>4. PICK a \in Whole(k, Request(i), "url") : Stream[k][a[2]].cb # None
      BY DEF Asked
<1>5. PICK q \in Behind(i, "url") : a = <<k, q>>
      BY <1>2, <1>4
<1>6. q \in DOMAIN Stream[k] /\ Stream[k][q].cb # None
      BY <1>2, <1>4, <1>5
<1>7. \A x \in Behind(i, "url") : x <= q
  <2>1. SUFFICES ASSUME NEW x \in Behind(i, "url"), ~(x <= q) PROVE FALSE
        OBVIOUS
  <2>2. /\ x \in DOMAIN Stream[k]
        /\ Stream[k][q].req = Stream[k][x].req
        /\ Stream[k][q].field = "url" /\ Stream[k][x].field = "url" /\ Stream[k][x].text
        BY <1>2, <1>5, <2>1 DEF Behind
  <2>3. q < x
        BY <2>1, <1>5 DEF Behind
  <2> QED BY <1>2, <1>6, <2>2, <2>3 DEF QueryLast
<1>8. Stream[k][q].cb \in given
      BY <1>3, <1>5, <1>6, <1>7
<1>9. given \subseteq Asked(k, Request(i))
  <2>1. ASSUME NEW b \in ctx[i].url PROVE b \in Whole(k, Request(i), "url") /\ b[1] = k
        BY <1>2, <1>3, <2>1
  <2> QED BY <2>1 DEF Asked
<1>10. CallbackOf(i) \in given
      BY <1>8 DEF CallbackOf
<1> QED BY <1>9, <1>10

\* An answer holds what the context kept
LEMMA ReplyKept ==
    ASSUME KeptInv, NEW i \in Fds, Reply(i)
    PROVE  Kept' /\ NothingLost' /\ (QueryLast => OwnCallback')
<1> DEFINE k == owner[i]
           d == done[k]
           answer == [req |-> Stream[k][d].req, url |-> ctx[i].url, cookie |-> ctx[i].cookie,
                      body |-> ctx[i].body, cb |-> CallbackOf(i)]
<1>0. Inv /\ TypeInv /\ TypeOK /\ Kept /\ FieldInv
      BY DEF KeptInv, FieldInv, Inv, TypeInv
<1>1. /\ k \in Conns /\ k # None /\ AtEnd(i)
      /\ UNCHANGED owner
      /\ \A j \in Fds : j # i => owner[j] # k
  <2>1. i \in ready
        BY DEF Reply, Serving
  <2>2. k # None
        BY <1>0, <2>1 DEF TypeInv, Owned
  <2> QED BY <1>0, <2>2 DEF TypeInv, TypeOK, Owned, Reply
<1>2. /\ parser' = [parser EXCEPT ![i] = IF Stream[k][d].keep THEN "start" ELSE "dead"]
      /\ ctx' = [ctx EXCEPT ![i] = [@ EXCEPT !.cb = CallbackOf(i)]]
      /\ out' = IF peer[k] = "open" THEN [out EXCEPT ![k] = Append(@, answer)] ELSE out
      /\ done' = IF Stream[k][d].upgrade THEN [done EXCEPT ![k] = got[k]] ELSE done
      BY DEF Reply, Conn
<1>3. /\ answer.req = Request(i)
      /\ \A f : Whole(k, Request(i), f) = {k} \X Behind(i, f)
      BY <1>0, <1>1, WholeBehind
<1>4. /\ answer.url = {} => Whole(k, answer.req, "url") = {}
      /\ answer.body = {} => LostAtEnd(k, answer.req, "body")
      /\ NamesWhole => (answer.cookie = {} => LostAtEnd(k, answer.req, "cookie"))
  <2>1. /\ Behind(i, "body") # {} => ctx[i].body # {} \/ EndCut(k, Request(i), "body")
        /\ NamesWhole => (Behind(i, "cookie") # {} =>
                             ctx[i].cookie # {} \/ EndCut(k, Request(i), "cookie"))
        BY <1>0, <1>1 DEF Kept, KeptAt
  <2>2. \A f : Behind(i, f) = {} => Whole(k, Request(i), f) = {}
        BY <1>3
  <2>3. answer.url = ctx[i].url /\ answer.cookie = ctx[i].cookie /\ answer.body = ctx[i].body
        OBVIOUS
  <2>4. ctx[i].url = {} => Whole(k, answer.req, "url") = {}
        BY DEF Reply, UrlLost, Conn
  <2> HIDE DEF answer
  <2> QED BY <1>3, <2>1, <2>2, <2>3, <2>4 DEF LostAtEnd
<1>5. QueryLast /\ Asked(k, answer.req) # {} => answer.cb \in Asked(k, answer.req)
  <2>1. answer.cb = CallbackOf(i) /\ answer.url = ctx[i].url
        OBVIOUS
  <2> HIDE DEF answer
  <2>2. Asked(k, answer.req) # {} => answer.url # {}
        BY <1>4 DEF Asked
  <2> QED BY <1>1, <1>3, <2>1, <2>2, CallbackAsked
<1> HIDE DEF answer
<1>6. Kept'
  <2>1. KeptAt(i)'
        BY <1>0, <1>2 DEF KeptAt, TypeOK
  <2>2. ASSUME NEW j \in Fds, j # i PROVE KeptAt(j)'
    <3>1. owner[j] # None => done'[owner[j]] = done[owner[j]]
          BY <1>0, <1>1, <1>2, <2>2 DEF TypeOK
    <3>2. parser'[j] = parser[j] /\ ctx'[j] = ctx[j]
          BY <1>0, <1>2, <2>2 DEF TypeOK
    <3> QED BY <1>0, <1>1, <3>1, <3>2, OthersKept
  <2> QED BY <2>1, <2>2 DEF Kept
<1>8. \A c \in Conns : \A n \in DOMAIN out'[c] :
          \/ n \in DOMAIN out[c] /\ out'[c][n] = out[c][n]
          \/ c = k /\ out'[c][n] = answer
  <2>1. out[k] \in Seq(Answer)
        BY <1>0, <1>1 DEF TypeOK
  <2> QED BY <1>0, <1>1, <1>2, <2>1 DEF TypeOK
<1>9. NothingLost'
  <2>1. SUFFICES ASSUME NEW c \in Conns, NEW n \in DOMAIN out'[c]
                 PROVE  /\ out'[c][n].url = {} => Whole(c, out'[c][n].req, "url") = {}
                        /\ out'[c][n].body = {} => LostAtEnd(c, out'[c][n].req, "body")
                        /\ NamesWhole =>
                            (out'[c][n].cookie = {} => LostAtEnd(c, out'[c][n].req, "cookie"))
        BY DEF NothingLost, Answers
  <2>2. CASE n \in DOMAIN out[c] /\ out'[c][n] = out[c][n]
    <3>1. out[c][n] \in Answers(c)
          BY <2>2 DEF Answers
    <3> QED BY <2>2, <3>1 DEF KeptInv, NothingLost
  <2>3. CASE c = k /\ out'[c][n] = answer
        BY <2>3, <1>4
  <2> QED BY <1>8, <2>2, <2>3
<1>10. ASSUME QueryLast PROVE OwnCallback'
  <2>1. SUFFICES ASSUME NEW c \in Conns, NEW n \in DOMAIN out'[c],
                        Asked(c, out'[c][n].req) # {}
                 PROVE  out'[c][n].cb \in Asked(c, out'[c][n].req)
        BY DEF OwnCallback, Answers
  <2>2. CASE n \in DOMAIN out[c] /\ out'[c][n] = out[c][n]
    <3>1. out[c][n] \in Answers(c)
          BY <2>2 DEF Answers
    <3> QED BY <2>1, <2>2, <3>1, <1>10 DEF KeptInv, OwnCallback
  <2>3. CASE c = k /\ out'[c][n] = answer
        BY <2>1, <2>3, <1>5, <1>10
  <2> QED BY <1>8, <2>2, <2>3
<1> QED BY <1>6, <1>9, <1>10

LEMMA KeptInit == Init => KeptInv
<1> SUFFICES ASSUME Init PROVE KeptInv
    OBVIOUS
<1>1. FieldInv
      BY FieldInit
<1>2. ASSUME NEW k \in Conns PROVE Answers(k) = {}
  <2>1. out[k] = <<>>
        BY DEF Init
  <2>2. DOMAIN out[k] = {}
        BY <2>1
  <2> QED BY <2>2 DEF Answers
<1>3. \A i \in Fds : owner[i] = None
      BY DEF Init
<1>4. Kept
      BY <1>3 DEF Kept, KeptAt
<1> QED BY <1>1, <1>2, <1>4 DEF KeptInv, NothingLost, OwnCallback

\* Every step keeps what came of a request until it is answered
LEMMA KeptStep == KeptInv /\ [Next]_vars => KeptInv'
<1> SUFFICES ASSUME KeptInv, [Next]_vars PROVE KeptInv'
    OBVIOUS
<1> DEFINE Goal == Kept' /\ NothingLost' /\ (QueryLast => OwnCallback')
<1>0. FieldInv /\ FieldInv' /\ Inv /\ TypeInv /\ TypeOK /\ Kept
      BY FieldStep DEF KeptInv, FieldInv, Inv, TypeInv
<1>a. ASSUME UNCHANGED out PROVE NothingLost' /\ (QueryLast => OwnCallback')
      BY <1>a DEF KeptInv, NothingLost, OwnCallback, Answers
<1> USE DEF streams
<1>1. ASSUME NEW k \in Conns, Connect(k) \/ Send(k) \/ Close(k) \/ Abort(k) PROVE Goal
      BY <1>1, QuietKept DEF Connect, Send, Close, Abort
<1>2. ASSUME Select \/ AcceptFails PROVE Goal
      BY <1>2, QuietKept DEF Select, AcceptFails
<1>3. ASSUME NEW k \in Conns, Accept(k) PROVE Goal
  <2>1. PICK i \in Free : /\ owner' = [owner EXCEPT ![i] = k]
                          /\ parser' = [parser EXCEPT ![i] = "start"]
        BY <1>3 DEF Accept
  <2>2. UNCHANGED <<ctx, done, out>> /\ peer[k] = "connecting"
        BY <1>3 DEF Accept
  <2>3. i \in Fds /\ done[k] = 0
        BY <1>0, <2>2 DEF Free, Inv, Unheard
  <2>4. KeptAt(i)'
        BY <1>0, <2>1, <2>3 DEF KeptAt, TypeOK
  <2>5. \A j \in Fds : j # i => owner'[j] = owner[j] /\ parser'[j] = parser[j]
        BY <1>0, <2>1 DEF TypeOK
  <2>6. ASSUME NEW j \in Fds, j # i PROVE KeptAt(j)'
        BY <1>0, <2>2, <2>5, <2>6, OthersKept
  <2> QED BY <1>a, <2>2, <2>4, <2>6 DEF Kept
<1>4. ASSUME NEW i \in Fds, NEW n \in 1..MaxChunk, Read(i, n) PROVE Goal
      BY <1>4, QuietKept DEF Read
<1>5. ASSUME NEW i \in Fds, ReadEof(i) PROVE Goal
  <2>1. owner' = [owner EXCEPT ![i] = None] /\ UNCHANGED <<parser, ctx, done, out>>
        BY <1>5 DEF ReadEof
  <2>2. owner'[i] = None /\ \A j \in Fds : j # i => owner'[j] = owner[j]
        BY <1>0, <2>1 DEF TypeOK
  <2>3. KeptAt(i)'
        BY <2>2 DEF KeptAt
  <2>4. ASSUME NEW j \in Fds, j # i PROVE KeptAt(j)'
        BY <1>0, <2>1, <2>2, <2>4, OthersKept
  <2> QED BY <1>a, <2>1, <2>3, <2>4 DEF Kept
<1>6. ASSUME NEW i \in Fds, ReadFails(i) \/ SplitsNothing(i) \/ Parsed(i)
      PROVE  Goal
      BY <1>6, QuietKept DEF ReadFails, SplitsNothing, Parsed
<1>7. ASSUME NEW i \in Fds, OnMessageBegin(i) PROVE Goal
  <2> DEFINE k == owner[i]
             d == done[k]
  <2>1. /\ parser[i] = "start" /\ parser' = [parser EXCEPT ![i] = "message"]
        /\ ctx' = [ctx EXCEPT ![i] = [EmptyContext EXCEPT !.cb = ctx[i].cb]]
        /\ UNCHANGED <<owner, done, out>>
        BY <1>7 DEF OnMessageBegin
  <2>2. /\ ctx'[i].url = {} /\ ctx'[i].key = {} /\ parser'[i] = "message"
        /\ \A j \in Fds : j # i => ctx'[j] = ctx[j] /\ parser'[j] = parser[j]
        BY <1>0, <2>1 DEF TypeOK, EmptyContext
  <2>3. k \in Conns /\ k # None /\ d \in Nat /\ (d > 0 => Stream[k][d].last)
        /\ d <= Len(Stream[k]) /\ Len(Stream[k]) \in Nat
    <3>1. k \in Conns /\ k # None
          BY <1>0, <1>7 DEF OnMessageBegin, Serving, TypeInv, TypeOK, Owned
    <3> QED BY <1>0, <1>7, <3>1, StreamAssumption DEF OnMessageBegin, AtRequest, Conn, TypeOK
  <2>4. \A f : Behind(i, f)' = {}
    <3>1. \A q \in 1..d : Stream[k][q].req # NextReq(k, d)
          BY <2>3, NothingBehind
    <3> QED BY <2>1, <2>2, <3>1 DEF Behind, Request, NextReq
  <2>5. KeptAt(i)'
    <3>1. owner'[i] = k /\ ctx'[i].key = {k} \X Behind(i, "name")'
          BY <2>1, <2>2, <2>4
    <3> QED BY <2>4, <3>1 DEF KeptAt
  <2>6. ASSUME NEW j \in Fds, j # i PROVE KeptAt(j)'
        BY <1>0, <2>1, <2>2, <2>6, OthersKept
  <2> QED BY <1>a, <2>1, <2>5, <2>6 DEF Kept
<1>8. ASSUME NEW i \in Fds, OnUrl(i) PROVE Goal
  <2>1. /\ \A j \in Fds : j # i => ctx'[j] = ctx[j]
        /\ ctx'[i].url = Data(i) /\ ctx'[i].key = ctx[i].key
        /\ ctx'[i].cookie = ctx[i].cookie /\ ctx'[i].body = ctx[i].body
        BY <1>0, <1>8 DEF OnUrl, TypeOK, Context
  <2> QED BY <1>8, <2>1, DataKept DEF OnUrl, Fields
<1>9. ASSUME NEW i \in Fds, OnHeaderField(i) PROVE Goal
  <2>1. /\ \A j \in Fds : j # i => ctx'[j] = ctx[j]
        /\ ctx'[i].url = ctx[i].url /\ ctx'[i].key = Data(i)
        /\ ctx'[i].cookie = ctx[i].cookie /\ ctx'[i].body = ctx[i].body
        BY <1>0, <1>9 DEF OnHeaderField, TypeOK, Context
  <2> QED BY <1>9, <2>1, DataKept DEF OnHeaderField, Fields
<1>10. ASSUME NEW i \in Fds, OnHeaderValue(i) PROVE Goal
  <2>1. DataCallback(i, "cookie")
        BY <1>10 DEF OnHeaderValue
  <2>2. /\ \A j \in Fds : j # i => ctx'[j] = ctx[j]
        /\ ctx'[i].url = ctx[i].url /\ ctx'[i].key = ctx[i].key /\ ctx'[i].body = ctx[i].body
        BY <1>0, <1>10 DEF OnHeaderValue, TypeOK, Context
  <2>3. ASSUME NamesWhole PROVE ctx'[i].cookie = Data(i)
    <3>1. ctx[i].key = Whole(Conn(i), At1(i).req, "name")
          BY <2>1, <2>3, CookieStored
    <3>2. ctx' = [ctx EXCEPT ![i] = [@ EXCEPT !.cookie = Data(i)]]
          BY <1>10, <3>1 DEF OnHeaderValue
    <3> QED BY <1>0, <3>2 DEF TypeOK, Context
  <2> QED BY <2>1, <2>2, <2>3, DataKept DEF Fields
<1>11. ASSUME NEW i \in Fds, OnBody(i) PROVE Goal
  <2>1. /\ \A j \in Fds : j # i => ctx'[j] = ctx[j]
        /\ ctx'[i].url = ctx[i].url /\ ctx'[i].key = ctx[i].key
        /\ ctx'[i].cookie = ctx[i].cookie /\ ctx'[i].body = Data(i)
        BY <1>0, <1>11 DEF OnBody, TypeOK, Context
  <2> QED BY <1>11, <2>1, DataKept DEF OnBody, Fields
<1>12. ASSUME NEW i \in Fds, Reply(i) PROVE Goal
      BY <1>12, ReplyKept
<1>13. ASSUME NEW i \in Fds, Reject(i) PROVE Goal
  <2> DEFINE k == owner[i]
  <2>1. k \in Conns /\ \A j \in Fds : j # i => owner[j] # k
        BY <1>0, <1>13 DEF Reject, Serving, TypeInv, TypeOK, Owned
  <2>2. /\ parser' = [parser EXCEPT ![i] = "error"] /\ done' = [done EXCEPT ![k] = got[k]]
        /\ UNCHANGED <<owner, ctx, out>>
        BY <1>13 DEF Reject, Conn
  <2>3. /\ parser'[i] = "error"
        /\ \A j \in Fds : j # i => parser'[j] = parser[j]
        /\ \A j \in Fds : j # i /\ owner[j] # None => done'[owner[j]] = done[owner[j]]
        BY <1>0, <2>1, <2>2 DEF TypeOK
  <2>4. KeptAt(i)'
        BY <2>3 DEF KeptAt
  <2>5. ASSUME NEW j \in Fds, j # i PROVE KeptAt(j)'
        BY <1>0, <2>2, <2>3, <2>5, OthersKept
  <2> QED BY <1>a, <2>2, <2>4, <2>5 DEF Kept
<1>16. ASSUME NEW i \in Fds, WriteBlocks(i) PROVE Goal
  <2>1. /\ parser[i] = "complete" /\ parser' = [parser EXCEPT ![i] = "writing"]
        /\ UNCHANGED <<owner, ctx, done, out>>
        BY <1>16 DEF WriteBlocks
  <2>2. parser'[i] = "writing" /\ \A j \in Fds : j # i => parser'[j] = parser[j]
        BY <1>0, <2>1 DEF TypeOK
  <2>3. KeptAt(i)'
    <3>1. Request(i)' = Request(i)
          BY <2>1, <2>2 DEF Request
    <3>2. \A f : Behind(i, f)' = Behind(i, f)
          BY <2>1, <3>1 DEF Behind
    <3> QED BY <1>0, <2>1, <2>2, <3>1, <3>2 DEF Kept, KeptAt
  <2>4. ASSUME NEW j \in Fds, j # i PROVE KeptAt(j)'
        BY <1>0, <2>1, <2>2, <2>4, OthersKept
  <2> QED BY <1>a, <2>1, <2>3, <2>4 DEF Kept
<1>14. ASSUME UNCHANGED vars PROVE Goal
      BY <1>14, QuietKept DEF vars
<1> HIDE DEF Goal
<1>15. Goal
      BY <1>1, <1>2, <1>3, <1>4, <1>5, <1>6, <1>7, <1>8, <1>9, <1>10, <1>11, <1>12, <1>13,
         <1>14, <1>16, LeavingAssumption
      DEF Next, Client, Server, OnMessageComplete, ClientReads, WriteFails
<1> QED BY <1>0, <1>15 DEF Goal, KeptInv

\* Where the name of a header comes in one piece, an answer has something of every
\* field its request has, and nothing of another, but of a cookie that is cut right in
\* front of its end: on_header_value_server finds the key the value belongs to, and
\* what is called with no bytes stores none (http_server.cpp:181)
THEOREM OwnRequest == ASSUME NamesWhole PROVE Spec => []AnswersOwnRequest
<1>1. KeptInv => AnswersOwnRequest
  <2> SUFFICES ASSUME KeptInv PROVE AnswersOwnRequest
      OBVIOUS
  <2>1. NothingForeign /\ NothingLost /\ TypeOK
        BY DEF KeptInv, FieldInv, Inv, TypeInv
  <2>2. ASSUME NEW k \in Conns, NEW a \in Answers(k), a.body = {}
        PROVE  Whole(k, a.req, "body") = {}
    <3>1. PICK j \in DOMAIN out[k] : a = out[k][j]
          BY DEF Answers
    <3>2. out[k] \in Seq(Answer)
          BY <2>1 DEF TypeOK
    <3>3. a \in Answer
          BY <3>1, <3>2
    <3>4. a.req \in Nat
          BY <3>3 DEF Answer
    <3> QED BY <2>1, <2>2, <3>4, NoBodyEnd DEF NothingLost, LostAtEnd
  <2> QED BY <2>1, <2>2, NamesWhole DEF NothingLost, LostAtEnd, AnswersOwnRequest
<1> QED BY KeptInit, KeptStep, <1>1, PTL DEF Spec

\* Where the query of a URL is in its last piece, a request that names a callback is
\* answered through that one, whatever _params still holds (service_recorder.cpp:60)
THEOREM CallbackIsOwn == ASSUME QueryLast PROVE Spec => []OwnCallback
<1>1. KeptInv => OwnCallback
      BY QueryLast DEF KeptInv
<1> QED BY KeptInit, KeptStep, <1>1, PTL DEF Spec

-----------------------------------------------------------------------------
\* Nothing is forgotten

\* Nothing in the first p pieces of k ends the connection before them, or drops them
GoodTo(k, p) ==
    /\ \A q \in 1..p : Stream[k][q].field # "junk"
    /\ \A q \in 1..(p - 1) : Stream[k][q].keep /\ ~Stream[k][q].upgrade

\* A parser that has stopped has met what it rejects, the end of its connection or a
\* request for an upgrade; one that waits for a message is at the end of one, or has
\* met a request for an upgrade
StoppedAt(i) ==
    owner[i] # None =>
        /\ parser[i] \in {"dead", "error"} =>
               \E q \in 1..done[owner[i]] :
                   \/ Stream[owner[i]][q].field = "junk" \/ ~Stream[owner[i]][q].keep
                   \/ Stream[owner[i]][q].upgrade
        /\ parser[i] = "start" =>
               \/ done[owner[i]] = 0 \/ Stream[owner[i]][done[owner[i]]].last
               \/ \E q \in 1..done[owner[i]] : Stream[owner[i]][q].upgrade

\* Every request the parser has behind it is answered, but one that is just complete
AnsweredAt(i) ==
    owner[i] # None /\ peer[owner[i]] = "open" =>
        \A p \in 1..done[owner[i]] :
            Stream[owner[i]][p].last /\ GoodTo(owner[i], p) =>
                \/ Answered(owner[i], Stream[owner[i]][p].req)
                \/ p = done[owner[i]] /\ AtEnd(i)

\* What was read is parsed before another descriptor is served
DrainedAt(i) ==
    owner[i] # None /\ pc # "exited" /\ ~Serving(i) =>
        done[owner[i]] = got[owner[i]] /\ ~AtEnd(i)

Attached == \A k \in Conns : peer[k] = "open" => \E i \in Fds : owner[i] = k
SettledAt(i) == StoppedAt(i) /\ AnsweredAt(i) /\ DrainedAt(i)

CalmInv == Inv /\ Attached /\ \A i \in Fds : SettledAt(i)

LEMMA CalmInit == Init => Attached /\ \A i \in Fds : SettledAt(i)
BY NoneAssumption DEF Init, Attached, SettledAt, StoppedAt, AnsweredAt, DrainedAt

\* A descriptor whose connection is not touched stays settled
LEMMA StaysSettled ==
    ASSUME CalmInv, NEW i \in Fds, owner'[i] = owner[i], parser'[i] = parser[i],
           owner[i] # None =>
              /\ done'[owner[i]] = done[owner[i]] /\ got'[owner[i]] = got[owner[i]]
              /\ out'[owner[i]] = out[owner[i]]
              /\ peer'[owner[i]] = "open" => peer[owner[i]] = "open",
           Serving(i)' \/ pc' = "exited" \/ (~Serving(i) /\ pc # "exited")
    PROVE  SettledAt(i)'
<1>1. StoppedAt(i)'
      BY DEF CalmInv, SettledAt, StoppedAt
<1>2. AnsweredAt(i)'
      BY DEF CalmInv, SettledAt, AnsweredAt, Answered, Answers
<1>3. DrainedAt(i)'
      BY DEF CalmInv, SettledAt, DrainedAt
<1> QED BY <1>1, <1>2, <1>3 DEF SettledAt

LEMMA OneServing ==
    ASSUME NEW i \in Fds, NEW j \in Fds, Serving(i), Serving(j)
    PROVE  i = j
<1>1. i <= j /\ j <= i /\ i \in Int /\ j \in Int
      BY DEF Serving, Fds
<1> QED BY <1>1

\* While one is parsed, the others stay settled
LEMMA OthersSettled ==
    ASSUME CalmInv, NEW i \in Fds, Serving(i), pc' \in {"parse", "exited"},
           UNCHANGED <<ready, owner, got>>,
           \A j \in Fds : j # i => parser'[j] = parser[j],
           \A c \in Conns : c # owner[i] => done'[c] = done[c] /\ out'[c] = out[c] /\ peer'[c] = peer[c],
           peer'[owner[i]] = "open" => peer[owner[i]] = "open",
           StoppedAt(i)', AnsweredAt(i)'
    PROVE  Attached' /\ \A j \in Fds : SettledAt(j)'
<1>1. owner[i] \in Conns /\ \A j \in Fds : owner[j] # None => owner[j] \in Conns
      BY DEF CalmInv, Inv, TypeInv, TypeOK, Owned, Serving
<1>2. pc' = "parse" => Serving(i)'
      BY DEF Serving
<1>3. ASSUME NEW j \in Fds, j # i PROVE SettledAt(j)'
  <2>1. owner[j] # None => owner[j] # owner[i]
        BY <1>3 DEF CalmInv, Inv, TypeInv, Owned
  <2>2. ~Serving(j) /\ pc # "exited"
        BY <1>3, OneServing DEF Serving
  <2> QED BY <1>1, <1>3, <2>1, <2>2, StaysSettled
<1>4. SettledAt(i)'
      BY <1>2 DEF SettledAt, DrainedAt
<1>5. Attached'
      BY <1>1 DEF CalmInv, Attached
<1> QED BY <1>3, <1>4, <1>5

\* Steps that parse nothing
LEMMA QuietSettled ==
    ASSUME CalmInv, UNCHANGED <<owner, parser, got, done, out>>,
           \A k \in Conns : peer'[k] = "open" => peer[k] = "open",
           \A i \in Fds : Serving(i)' \/ pc' = "exited" \/ (~Serving(i) /\ pc # "exited")
    PROVE  Attached' /\ \A i \in Fds : SettledAt(i)'
<1>1. \A j \in Fds : owner[j] # None => owner[j] \in Conns
      BY DEF CalmInv, Inv, TypeInv, TypeOK
<1>2. \A i \in Fds : SettledAt(i)'
      BY <1>1, StaysSettled
<1> QED BY <1>2 DEF CalmInv, Attached

\* A data callback takes the parser to a later place of the same connection, and
\* passes the end of a message at that place at most
LEMMA DataPlace ==
    ASSUME Inv, NEW i \in Fds, NEW f \in {"url", "name", "cookie", "body"}, DataCallback(i, f)
    PROVE  /\ parser[i] = "message" /\ owner[i] \in Conns
           /\ \A j \in Fds : j # i => parser'[j] = parser[j]
           /\ \A c \in Conns : c # owner[i] => done'[c] = done[c]
           /\ done'[owner[i]] \in Nat /\ done[owner[i]] < done'[owner[i]]
           /\ done'[owner[i]] <= got[owner[i]]
           /\ \A p \in (done[owner[i]] + 1)..done'[owner[i]] :
                  Stream[owner[i]][p].last => p = done'[owner[i]] /\ parser'[i] = "complete"
           /\ parser'[i] \in {"message", "complete"}
<1> DEFINE k == owner[i]
           d == done[k]
<1> USE DEF Inv, TypeInv
<1>1. /\ k \in Conns /\ k # None /\ parser[i] = "message"
      /\ d \in Nat /\ got[k] \in Nat /\ got[k] <= Len(Stream[k]) /\ Len(Stream[k]) \in Nat
      BY StreamAssumption DEF TypeOK, Owned, DataCallback, Serving
<1>2. PICK q \in FieldRun(i) :
        /\ done' = [done EXCEPT ![k] = q]
        /\ parser' = [parser EXCEPT ![i] = IF Stream[k][q].last THEN "complete" ELSE "message"]
      BY DEF DataCallback, Conn
<1>3. /\ q \in (d + 1)..got[k]
      /\ \A x \in (d + 1)..q : Stream[k][x].req = Stream[k][d + 1].req
      BY <1>2 DEF FieldRun, Conn, Next1, At1
<1>4. ASSUME NEW p \in (d + 1)..q, Stream[k][p].last PROVE p = q
  <2>1. SUFFICES ASSUME p < q PROVE FALSE
        BY <1>1, <1>3
  <2>2. p \in DOMAIN Stream[k] /\ q \in DOMAIN Stream[k]
        BY <1>1, <1>3, StreamAssumption
  <2>3. Stream[k][p].req < Stream[k][q].req
        BY <1>1, <1>4, <2>1, <2>2, NumberAssumption
  <2>4. Stream[k][p].req = Stream[k][q].req
        BY <1>1, <1>3
  <2>5. Stream[k][p] \in Piece
        BY <1>1, <2>2, StreamAssumption
  <2> QED BY <2>3, <2>4, <2>5 DEF Piece
<1>5. /\ done'[k] = q /\ \A c \in Conns : c # k => done'[c] = done[c]
      /\ parser'[i] = IF Stream[k][q].last THEN "complete" ELSE "message"
      /\ \A j \in Fds : j # i => parser'[j] = parser[j]
      BY <1>1, <1>2 DEF TypeOK
<1>6. q \in Nat /\ d < q /\ q <= got[k]
      BY <1>1, <1>3
<1> QED BY <1>1, <1>4, <1>5, <1>6

\* A data callback answers nothing, and leaves no message complete but the one it ends
LEMMA DataSettled ==
    ASSUME CalmInv, NEW i \in Fds, NEW f \in {"url", "name", "cookie", "body"},
           DataCallback(i, f)
    PROVE  Attached' /\ \A j \in Fds : SettledAt(j)'
<1> DEFINE k == owner[i]
           d == done[k]
<1>1. /\ parser[i] = "message" /\ k \in Conns
      /\ \A j \in Fds : j # i => parser'[j] = parser[j]
      /\ \A c \in Conns : c # k => done'[c] = done[c]
      /\ done'[k] \in Nat /\ d < done'[k]
      /\ \A p \in (d + 1)..done'[k] :
             Stream[k][p].last => p = done'[k] /\ parser'[i] = "complete"
      /\ parser'[i] \in {"message", "complete"}
      /\ d \in Nat
      BY DataPlace DEF CalmInv, Inv, TypeInv, TypeOK
<1>2. /\ Serving(i) /\ pc' = "parse" /\ UNCHANGED <<ready, owner, got, peer, out>>
      BY DEF DataCallback, Serving
<1>3. StoppedAt(i)'
      BY <1>1 DEF StoppedAt
<1>4. AnsweredAt(i)'
  <2>1. SUFFICES ASSUME peer[k] = "open", NEW p \in 1..done'[k],
                        Stream[k][p].last, GoodTo(k, p), k # None
                 PROVE  \/ Answered(k, Stream[k][p].req)
                        \/ p = done'[k] /\ parser'[i] = "complete"
        BY <1>2 DEF AnsweredAt, GoodTo, Answered, Answers
  <2>2. CASE p \in 1..d
        BY <2>1, <2>2, <1>1 DEF CalmInv, SettledAt, AnsweredAt
  <2>3. CASE p \in (d + 1)..done'[k]
        BY <2>1, <2>3, <1>1
  <2> QED BY <1>1, <2>2, <2>3
<1> QED BY <1>1, <1>2, <1>3, <1>4, OthersSettled

\* The answer to a message goes out when it is complete, if its client is there
LEMMA ReplySettled ==
    ASSUME CalmInv, NEW i \in Fds, Reply(i)
    PROVE  Attached' /\ \A j \in Fds : SettledAt(j)'
<1> DEFINE k == owner[i]
           d == done[k]
           answer == [req |-> Stream[k][d].req, url |-> ctx[i].url, cookie |-> ctx[i].cookie,
                      body |-> ctx[i].body, cb |-> CallbackOf(i)]
<1>1. /\ k \in Conns /\ k # None /\ AtEnd(i) /\ Serving(i)
      /\ d \in Nat /\ d > 0 /\ Stream[k][d].last
      /\ got[k] \in Nat /\ d <= got[k]
      /\ out[k] \in Seq(Answer)
      BY DEF Reply, Serving, CalmInv, Inv, TypeInv, TypeOK, Owned, Completed
<1>2. /\ parser' = [parser EXCEPT ![i] = IF Stream[k][d].keep THEN "start" ELSE "dead"]
      /\ peer' = IF peer[k] = "closed" THEN [peer EXCEPT ![k] = "gone"] ELSE peer
      /\ out' = IF peer[k] = "open" THEN [out EXCEPT ![k] = Append(@, answer)] ELSE out
      /\ done' = IF Stream[k][d].upgrade THEN [done EXCEPT ![k] = got[k]] ELSE done
      /\ pc' \in {"parse", "exited"} /\ UNCHANGED <<ready, owner, got>>
      BY DEF Reply, Conn
<1>7. answer.req = Stream[k][d].req
      OBVIOUS
<1> HIDE DEF answer
<1>3. /\ parser'[i] = IF Stream[k][d].keep THEN "start" ELSE "dead"
      /\ \A j \in Fds : j # i => parser'[j] = parser[j]
      /\ \A c \in Conns : c # k => done'[c] = done[c] /\ out'[c] = out[c] /\ peer'[c] = peer[c]
      /\ peer'[k] = "open" => peer[k] = "open"
      /\ peer[k] = "open" => out'[k] = Append(out[k], answer)
      /\ done'[k] = IF Stream[k][d].upgrade THEN got[k] ELSE d
      BY <1>1, <1>2 DEF CalmInv, Inv, TypeInv, TypeOK
<1>4. StoppedAt(i)'
  <2>1. d \in 1..done'[k] /\ (done'[k] = d \/ Stream[k][d].upgrade)
        BY <1>1, <1>3
  <2>2. parser'[i] = "dead" => \E q \in 1..done'[k] : ~Stream[k][q].keep
        BY <1>3, <2>1
  <2>3. Stream[k][done'[k]].last \/ \E q \in 1..done'[k] : Stream[k][q].upgrade
        BY <1>1, <2>1
  <2>4. parser'[i] \in {"start", "dead"} /\ owner'[i] = k
        BY <1>2, <1>3
  <2> HIDE DEF k, d
  <2> QED BY <2>2, <2>3, <2>4 DEF StoppedAt
<1>5. AnsweredAt(i)'
  <2>1. SUFFICES ASSUME peer'[k] = "open", NEW p \in 1..done'[k],
                        Stream[k][p].last, GoodTo(k, p)
                 PROVE  \E n \in DOMAIN out'[k] : out'[k][n].req = Stream[k][p].req
    <3>1. owner'[i] = k
          BY <1>2
    <3>2. \A p \in Nat : GoodTo(k, p) <=> GoodTo(k, p)'
          BY <3>1 DEF GoodTo
    <3> QED BY <3>1, <3>2 DEF AnsweredAt, GoodTo, Answered, Answers
  <2>2. out'[k] = Append(out[k], answer)
        BY <1>3, <2>1
  <2>3. CASE p = d
    <3>1. /\ Len(out[k]) + 1 \in DOMAIN Append(out[k], answer)
          /\ Append(out[k], answer)[Len(out[k]) + 1] = answer
          BY <1>1
    <3> QED BY <2>2, <2>3, <3>1, <1>7
  <2>4. CASE p < d
    <3>1. Answered(k, Stream[k][p].req)
          BY <1>1, <1>3, <2>1, <2>4 DEF CalmInv, SettledAt, AnsweredAt
    <3>2. PICK n \in DOMAIN out[k] : out[k][n].req = Stream[k][p].req
          BY <3>1 DEF Answered, Answers
    <3>3. n \in DOMAIN Append(out[k], answer) /\ Append(out[k], answer)[n] = out[k][n]
          BY <1>1
    <3> QED BY <2>2, <3>2, <3>3
  <2>5. CASE d < p
    <3>1. Stream[k][d].upgrade /\ d \in 1..(p - 1)
          BY <1>1, <1>3, <2>1, <2>5
    <3> QED BY <3>1, <2>1 DEF GoodTo
  <2> QED BY <1>1, <1>3, <2>1, <2>3, <2>4, <2>5
<1> QED BY <1>1, <1>2, <1>3, <1>4, <1>5, OthersSettled

\* A write that blocks leaves the message complete and not answered
LEMMA BlockSettled ==
    ASSUME CalmInv, NEW i \in Fds, WriteBlocks(i)
    PROVE  Attached' /\ \A j \in Fds : SettledAt(j)'
<1>1. /\ Serving(i) /\ parser[i] = "complete" /\ parser' = [parser EXCEPT ![i] = "writing"]
      /\ pc' = "parse" /\ UNCHANGED <<ready, owner, peer, got, done, out>>
      BY DEF WriteBlocks, Serving, streams
<1>2. parser'[i] = "writing" /\ \A j \in Fds : j # i => parser'[j] = parser[j]
      BY <1>1 DEF CalmInv, Inv, TypeInv, TypeOK
<1>3. StoppedAt(i)'
      BY <1>2 DEF StoppedAt
<1>4. AnsweredAt(i)'
      BY <1>1, <1>2 DEF CalmInv, SettledAt, AnsweredAt, GoodTo, Answered, Answers
<1> QED BY <1>1, <1>2, <1>3, <1>4, OthersSettled

\* What is dropped lies behind bytes that are rejected, behind the end of the connection
\* or behind a request for an upgrade
LEMMA RejectSettled ==
    ASSUME CalmInv, NEW i \in Fds, Reject(i)
    PROVE  Attached' /\ \A j \in Fds : SettledAt(j)'
<1> DEFINE k == owner[i]
           d == done[k]
<1>1. /\ k \in Conns /\ k # None /\ Serving(i)
      /\ d \in Nat /\ got[k] \in Nat /\ d < got[k]
      /\ ~AtEnd(i)
      BY DEF Reject, Serving, Unparsed, Conn, CalmInv, Inv, TypeInv, TypeOK, Owned
<1>2. /\ parser' = [parser EXCEPT ![i] = "error"] /\ done' = [done EXCEPT ![k] = got[k]]
      /\ pc' = "parse" /\ UNCHANGED <<ready, owner, peer, got, out>>
      BY DEF Reject, Conn, Serving
<1>3. /\ parser'[i] = "error" /\ done'[k] = got[k]
      /\ \A j \in Fds : j # i => parser'[j] = parser[j]
      /\ \A c \in Conns : c # k => done'[c] = done[c]
      BY <1>1, <1>2 DEF CalmInv, Inv, TypeInv, TypeOK
<1>4. PICK b \in 1..got[k] :
          /\ Stream[k][b].field = "junk" \/ ~Stream[k][b].keep \/ Stream[k][b].upgrade
          /\ b <= d \/ (b = d + 1 /\ Stream[k][b].field = "junk")
  <2>1. CASE parser[i] \in {"dead", "error"}
    <3>1. PICK b \in 1..d :
              Stream[k][b].field = "junk" \/ ~Stream[k][b].keep \/ Stream[k][b].upgrade
          BY <1>1, <2>1 DEF CalmInv, SettledAt, StoppedAt
    <3>2. b \in 1..got[k] /\ b <= d
          BY <1>1
    <3> QED BY <3>1, <3>2
  <2>2. CASE Stream[k][d + 1].field = "junk"
    <3>1. d + 1 \in 1..got[k]
          BY <1>1
    <3> QED BY <2>2, <3>1
  <2>3. CASE parser[i] = "start" /\ ~AtRequest(i)
    <3>1. PICK b \in 1..d : Stream[k][b].upgrade
          BY <1>1, <2>3 DEF CalmInv, SettledAt, StoppedAt, AtRequest, Conn
    <3>2. b \in 1..got[k] /\ b <= d
          BY <1>1
    <3> QED BY <3>1, <3>2
  <2> QED BY <2>1, <2>2, <2>3 DEF Reject, At1, Next1, Conn
<1>5. StoppedAt(i)'
      BY <1>2, <1>3, <1>4 DEF StoppedAt
<1>6. AnsweredAt(i)'
  <2>1. SUFFICES ASSUME peer[k] = "open", NEW p \in 1..got[k], Stream[k][p].last, GoodTo(k, p)
                 PROVE  Answered(k, Stream[k][p].req)
        BY <1>2, <1>3 DEF AnsweredAt, GoodTo, Answered, Answers
  <2>2. p <= b /\ (p = b => Stream[k][b].field # "junk")
        BY <1>1, <1>4, <2>1 DEF GoodTo
  <2>3. p \in 1..d
        BY <1>1, <1>4, <2>2
  <2> QED BY <1>1, <2>1, <2>3 DEF CalmInv, SettledAt, AnsweredAt
<1> QED BY <1>1, <1>2, <1>3, <1>5, <1>6, OthersSettled

\* A step that takes a descriptor out of the scan
LEMMA LeftBehind ==
    ASSUME TypeOK, NEW i \in Fds \cup {Listen}, NEW j \in Fds, Leave(i)
    PROVE  pc' # "exited" /\ ~Serving(j)' /\ pc' # "parse"
BY DEF Leave, Serving

LEMMA CalmStep == CalmInv /\ [Next]_vars => CalmInv'
<1> SUFFICES ASSUME CalmInv, [Next]_vars PROVE CalmInv'
    OBVIOUS
<1> DEFINE Goal == Attached' /\ \A j \in Fds : SettledAt(j)'
<1>0. Inv /\ Inv' /\ TypeOK /\ TypeInv
      BY InvStep DEF CalmInv, Inv, TypeInv
<1> USE DEF streams
<1>1. ASSUME NEW k \in Conns, Connect(k) PROVE Goal
  <2>1. /\ \A c \in Conns : peer'[c] = "open" => peer[c] = "open"
        /\ UNCHANGED <<pc, ready, owner, parser, got, done, out>>
        BY <1>0, <1>1 DEF Connect, TypeOK
  <2> QED BY <2>1, QuietSettled DEF Serving
<1>2. ASSUME NEW k \in Conns, Send(k) PROVE Goal
  <2>1. UNCHANGED <<pc, ready, owner, parser, peer, got, done, out>>
        BY <1>2 DEF Send
  <2> QED BY <2>1, QuietSettled DEF Serving
<1>3. ASSUME NEW k \in Conns, Close(k) \/ Abort(k) PROVE Goal
  <2>1. /\ \A c \in Conns : peer'[c] = "open" => peer[c] = "open"
        /\ UNCHANGED <<pc, ready, owner, parser, got, done, out>>
        BY <1>0, <1>3 DEF Close, Abort, TypeOK
  <2> QED BY <2>1, QuietSettled DEF Serving
<1>4. ASSUME Select PROVE Goal
  <2>1. /\ pc = "select" /\ pc' = "scan" /\ UNCHANGED <<owner, parser, peer, got, done, out>>
        BY <1>4 DEF Select
  <2> QED BY <2>1, QuietSettled DEF Serving
<1>5. ASSUME AcceptFails \/ \E i \in Fds : ReadFails(i) \/ SplitsNothing(i) PROVE Goal
  <2>1. pc' = "exited" /\ UNCHANGED <<owner, parser, peer, got, done, out>>
        BY <1>5 DEF AcceptFails, ReadFails, SplitsNothing
  <2> QED BY <2>1, QuietSettled
<1>6. ASSUME NEW k \in Conns, Accept(k) PROVE Goal
  <2>1. PICK i \in Free : /\ owner' = [owner EXCEPT ![i] = k]
                          /\ parser' = [parser EXCEPT ![i] = "start"]
        BY <1>6 DEF Accept
  <2>2. /\ peer[k] = "connecting" /\ peer' = [peer EXCEPT ![k] = "open"] /\ pc = "scan"
        /\ Leave(Listen) /\ UNCHANGED <<sent, got, done, out>>
        BY <1>6 DEF Accept, Turn
  <2>3. /\ i \in Fds /\ owner[i] = None /\ owner'[i] = k /\ parser'[i] = "start"
        /\ got[k] = 0 /\ done[k] = 0
        BY <1>0, <2>1, <2>2 DEF Free, Inv, Unheard, TypeOK
  <2>4. \A j \in Fds : j # i =>
            /\ owner'[j] = owner[j] /\ parser'[j] = parser[j]
            /\ owner[j] # None => peer'[owner[j]] = peer[owner[j]]
    <3>1. ASSUME NEW j \in Fds, j # i, owner[j] # None
          PROVE  owner[j] \in Conns /\ owner[j] # k
          BY <1>0, <2>2, <3>1 DEF TypeInv, TypeOK, Owned
    <3> QED BY <1>0, <2>1, <2>2, <3>1 DEF TypeOK
  <2>5. ASSUME NEW j \in Fds, j # i PROVE SettledAt(j)'
    <3>1. ~Serving(j) /\ pc # "exited"
          BY <2>2 DEF Serving
    <3> QED BY <2>2, <2>4, <2>5, <3>1, StaysSettled
  <2>6. SettledAt(i)'
    <3>1. 1..0 = {}
          OBVIOUS
    <3> QED BY <2>2, <2>3, <3>1 DEF SettledAt, StoppedAt, AnsweredAt, DrainedAt
  <2>7. Attached'
    <3>1. SUFFICES ASSUME NEW c \in Conns, peer'[c] = "open"
                   PROVE  \E j \in Fds : owner'[j] = c
          BY DEF Attached
    <3>2. CASE c = k
          BY <2>3, <3>2
    <3>3. CASE c # k
      <4>1. PICK j \in Fds : owner[j] = c
            BY <1>0, <2>2, <3>1, <3>3 DEF CalmInv, Attached, TypeOK
      <4>2. j # i
            BY <2>3, <4>1, NoneAssumption
      <4> QED BY <2>4, <4>1, <4>2
    <3> QED BY <3>2, <3>3
  <2> QED BY <2>5, <2>6, <2>7
<1>7. ASSUME NEW i \in Fds, NEW n \in 1..MaxChunk, Read(i, n) PROVE Goal
  <2>1. /\ Turn(i) /\ pc' = "parse" /\ got' = [got EXCEPT ![owner[i]] = @ + n]
        /\ UNCHANGED <<ready, owner, parser, peer, done, out>>
        BY <1>7 DEF Read
  <2>2. Serving(i)' /\ pc = "scan"
        BY <2>1 DEF Serving, Turn
  <2>3. owner[i] # None
        BY <1>0, <2>1 DEF TypeInv, Owned, Turn
  <2>4. \A j \in Fds : j # i /\ owner[j] # None => got'[owner[j]] = got[owner[j]]
    <3>1. \A j \in Fds : j # i /\ owner[j] # None => owner[j] \in Conns /\ owner[j] # owner[i]
          BY <1>0 DEF TypeInv, TypeOK, Owned
    <3> QED BY <1>0, <2>1, <3>1 DEF TypeOK
  <2>5. ASSUME NEW j \in Fds, j # i PROVE SettledAt(j)'
    <3>1. ~Serving(j) /\ pc # "exited"
          BY <2>2 DEF Serving
    <3> QED BY <2>1, <2>4, <2>5, <3>1, StaysSettled
  <2>6. SettledAt(i)'
    <3>1. StoppedAt(i)' /\ AnsweredAt(i)'
          BY <2>1 DEF CalmInv, SettledAt, StoppedAt, AnsweredAt, Answered, Answers
    <3> QED BY <2>2, <3>1 DEF SettledAt, DrainedAt
  <2>7. Attached'
        BY <2>1 DEF CalmInv, Attached
  <2> QED BY <2>5, <2>6, <2>7
<1>8. ASSUME NEW i \in Fds, ReadEof(i) PROVE Goal
  <2>1. /\ owner' = [owner EXCEPT ![i] = None] /\ pc = "scan" /\ Leave(i)
        /\ peer[owner[i]] \in {"closed", "gone"}
        /\ UNCHANGED <<parser, peer, got, done, out>>
        BY <1>8 DEF ReadEof, Turn
  <2>2. owner'[i] = None /\ \A j \in Fds : j # i => owner'[j] = owner[j]
        BY <1>0, <2>1 DEF TypeOK
  <2>3. ASSUME NEW j \in Fds, j # i PROVE SettledAt(j)'
    <3>1. ~Serving(j) /\ pc # "exited"
          BY <2>1 DEF Serving
    <3> QED BY <2>1, <2>2, <2>3, <3>1, StaysSettled
  <2>4. SettledAt(i)'
        BY <2>2 DEF SettledAt, StoppedAt, AnsweredAt, DrainedAt
  <2>5. Attached'
    <3>1. SUFFICES ASSUME NEW c \in Conns, peer[c] = "open"
                   PROVE  \E j \in Fds : owner'[j] = c
          BY <2>1 DEF Attached
    <3>2. PICK j \in Fds : owner[j] = c
          BY <3>1 DEF CalmInv, Attached
    <3>3. j # i
          BY <2>1, <3>1, <3>2
    <3> QED BY <2>2, <3>2, <3>3
  <2> QED BY <2>3, <2>4, <2>5
<1>9. ASSUME NEW i \in Fds, OnMessageBegin(i) PROVE Goal
  <2>1. /\ Serving(i) /\ parser[i] = "start" /\ parser' = [parser EXCEPT ![i] = "message"]
        /\ pc' = "parse" /\ UNCHANGED <<ready, owner, peer, got, done, out>>
        BY <1>9 DEF OnMessageBegin, Serving
  <2>2. parser'[i] = "message" /\ \A j \in Fds : j # i => parser'[j] = parser[j]
        BY <1>0, <2>1 DEF TypeOK
  <2>3. StoppedAt(i)'
        BY <2>2 DEF StoppedAt
  <2>4. AnsweredAt(i)'
        BY <2>1, <2>2 DEF CalmInv, SettledAt, AnsweredAt, GoodTo, Answered, Answers
  <2> QED BY <2>1, <2>2, <2>3, <2>4, OthersSettled
<1>10. ASSUME NEW i \in Fds, OnUrl(i) \/ OnHeaderField(i) \/ OnHeaderValue(i) \/ OnBody(i)
       PROVE Goal
      BY <1>10, DataSettled DEF OnUrl, OnHeaderField, OnHeaderValue, OnBody
<1>11. ASSUME NEW i \in Fds, Reply(i) PROVE Goal
      BY <1>11, ReplySettled
<1>12. ASSUME NEW i \in Fds, Reject(i) PROVE Goal
      BY <1>12, RejectSettled
<1>13. ASSUME NEW i \in Fds, Parsed(i) PROVE Goal
  <2>1. /\ Serving(i) /\ ~Unparsed(i) /\ ~AtEnd(i) /\ Leave(i)
        /\ UNCHANGED <<owner, parser, peer, got, done, out>>
        BY <1>13 DEF Parsed
  <2>2. owner[i] \in Conns /\ owner[i] # None /\ done[owner[i]] = got[owner[i]]
    <3>1. owner[i] # None /\ owner[i] \in Conns
          BY <1>0, <2>1 DEF TypeInv, TypeOK, Owned, Serving
    <3>2. done[owner[i]] \in Nat /\ got[owner[i]] \in Nat /\ done[owner[i]] <= got[owner[i]]
          BY <1>0, <3>1 DEF TypeOK
    <3> QED BY <2>1, <3>1, <3>2 DEF Unparsed, Conn
  <2>3. ASSUME NEW j \in Fds, j # i PROVE SettledAt(j)'
    <3>1. ~Serving(j) /\ pc # "exited"
          BY <2>1, <2>3, OneServing DEF Serving
    <3> QED BY <2>1, <3>1, StaysSettled
  <2>4. SettledAt(i)'
        BY <2>1, <2>2
        DEF CalmInv, SettledAt, StoppedAt, AnsweredAt, DrainedAt, Answered, Answers
  <2>5. Attached'
        BY <2>1 DEF CalmInv, Attached
  <2> QED BY <2>3, <2>4, <2>5
<1>16. ASSUME NEW i \in Fds, WriteBlocks(i) PROVE Goal
      BY <1>16, BlockSettled
<1>14. ASSUME UNCHANGED vars PROVE Goal
      BY <1>14, QuietSettled DEF vars, Serving
<1> HIDE DEF Goal
<1>15. Goal
      BY <1>1, <1>2, <1>3, <1>4, <1>5, <1>6, <1>7, <1>8, <1>9, <1>10, <1>11, <1>12, <1>13,
         <1>14, <1>16, LeavingAssumption
      DEF Next, Client, Server, OnMessageComplete, ClientReads, WriteFails
<1> QED BY <1>0, <1>15 DEF Goal, CalmInv

\* The server waits in select, and nothing can wake it but a client
Waits == pc = "select" /\ \A i \in Fds \cup {Listen} : ~Readable(i)

\* Whenever the server waits for its clients in select, it owes them nothing: every
\* request sent whole, and not behind one for an upgrade, by a client that is still
\* there is answered, and no descriptor is held for a client that has gone
\* (http_server.cpp:60, :150)
NothingOwed ==
    Waits => \A k \in Conns :
        /\ \A r \in Nat : RequestSent(k, r) /\ peer[k] \in {"connecting", "open"} =>
               Answered(k, r)
        /\ peer[k] \in {"closed", "gone", "aborted"} => \A i \in Fds : owner[i] # k

\* A server that waits owes nothing: neither does the loop forget a descriptor that
\* select returned, nor read_from_client a part of what it read (http_server.cpp:269)
THEOREM NothingForgotten == Spec => []NothingOwed
<1>1. CalmInv => NothingOwed
  <2>1. SUFFICES ASSUME CalmInv, Waits, NEW k \in Conns
                 PROVE  /\ \A r \in Nat :
                              RequestSent(k, r) /\ peer[k] \in {"connecting", "open"} =>
                                  Answered(k, r)
                        /\ peer[k] \in {"closed", "gone", "aborted"} =>
                              \A i \in Fds : owner[i] # k
        BY DEF NothingOwed
  <2>2. peer[k] # "connecting"
        BY <2>1 DEF Waits, Readable, Listen
  <2>3. k # None /\ \A i \in Fds : i # Listen
        BY NoneAssumption DEF Fds, Listen
  <2>4. peer[k] \in {"closed", "gone", "aborted"} => \A i \in Fds : owner[i] # k
        BY <2>1, <2>3 DEF Waits, Readable
  <2>5. ASSUME NEW r \in Nat, RequestSent(k, r), peer[k] = "open" PROVE Answered(k, r)
    <3>1. PICK i \in Fds : owner[i] = k
          BY <2>1, <2>5 DEF CalmInv, Attached
    <3>2. ~(got[k] < sent[k])
          BY <2>1, <2>3, <3>1 DEF Waits, Readable
    <3>3. pc = "select" /\ ~Serving(i)
          BY <2>1 DEF Waits, Serving
    <3>4. done[k] = got[k] /\ ~AtEnd(i)
          BY <2>1, <2>3, <3>1, <3>3 DEF CalmInv, SettledAt, DrainedAt
    <3>5. done[k] = sent[k]
          BY <2>1, <3>2, <3>4 DEF CalmInv, Inv, TypeInv, TypeOK
    <3>6. PICK p \in 1..sent[k] : Stream[k][p].req = r /\ Stream[k][p].last /\ GoodTo(k, p)
          BY <2>5 DEF RequestSent, GoodTo
    <3> QED BY <2>1, <2>3, <2>5, <3>1, <3>4, <3>5, <3>6 DEF CalmInv, SettledAt, AnsweredAt
  <2> QED BY <2>2, <2>4, <2>5
<1>2. Init => CalmInv
      BY CalmInit, InvInit DEF CalmInv
<1> QED BY <1>1, <1>2, CalmStep, PTL DEF Spec

-----------------------------------------------------------------------------
\* Work that ends

\* What is left to do for a descriptor, given what was read for it
Rank(s) ==
    IF s = "complete" THEN 3
    ELSE IF s = "writing" THEN 2
    ELSE IF s = "start" THEN 1 ELSE 0
Left(i) == 4 * (got[owner[i]] - done[owner[i]]) + Rank(parser[i])

LEMMA RankType == ASSUME NEW s PROVE Rank(s) \in 0..3
BY DEF Rank

LEMMA LeftLess ==
    \A g, d, e \in Nat : \A r, s \in 0..3 :
        d < e /\ e <= g => /\ 4 * (g - e) + s < 4 * (g - d) + r
                           /\ 4 * (g - e) + s \in Nat
OBVIOUS

LEMMA RankLess ==
    \A g, d \in Nat : \A r, s \in 0..3 :
        s < r /\ d <= g => /\ 4 * (g - d) + s < 4 * (g - d) + r
                           /\ 4 * (g - d) + s \in Nat
OBVIOUS

\* Each callback, and each return to the scan, leaves less to do
Serves(i) ==
    /\ ready' = ready /\ pc' = "parse" /\ Serving(i)'
    /\ pc = "scan" \/ (Left(i)' \in Nat /\ Left(i)' < Left(i))

\* A step of the server that is not in select, or of the client its write waits for,
\* reads for one descriptor, or leaves less to parse of what it read, or takes a
\* descriptor out of those select returned: whatever the clients send meanwhile, it
\* comes back to select and accepts the next one (http_server.cpp:269)
WorkEnds ==
    (Server \/ \E i \in Fds : ClientReads(i)) /\ pc # "select" =>
        \/ pc' = "exited"
        \/ ready' \subseteq ready /\ ready' # ready
        \/ \E i \in Fds : Serves(i)

\* No connection keeps the thread but one whose client does not read its answer: one
\* read is made for each descriptor that select returned, and http_parser_execute ends
\* (http_server.cpp:280)
THEOREM Serviced == Spec => [][WorkEnds]_vars
<1>1. ASSUME Inv, [Next]_vars PROVE [WorkEnds]_vars
  <2> SUFFICES ASSUME Server \/ \E i \in Fds : ClientReads(i), pc # "select"
               PROVE  \/ pc' = "exited"
                      \/ ready' \subseteq ready /\ ready' # ready
                      \/ \E i \in Fds : Serves(i)
      BY DEF WorkEnds
  <2> DEFINE Goal == \/ pc' = "exited"
                     \/ ready' \subseteq ready /\ ready' # ready
                     \/ \E i \in Fds : Serves(i)
  <2>0. TypeInv /\ TypeOK
        BY <1>1 DEF Inv, TypeInv
  <2> USE DEF streams
  <2>1. ASSUME NEW k \in Conns, Accept(k) PROVE Goal
        BY <2>1 DEF Accept, Leave, Turn
  <2>2. ASSUME NEW i \in Fds, ReadEof(i) \/ Parsed(i) PROVE Goal
        BY <2>2 DEF ReadEof, Parsed, Leave, Turn, Serving
  <2>3. ASSUME NEW i \in Fds, ReadFails(i) \/ SplitsNothing(i) \/ AcceptFails
        PROVE  Goal
        BY <2>3 DEF ReadFails, SplitsNothing, AcceptFails
  <2>4. ASSUME NEW i \in Fds, NEW n \in 1..MaxChunk, Read(i, n) PROVE Goal
        BY <2>4 DEF Read, Turn, Serves, Serving
  <2>5. ASSUME NEW i \in Fds, Serving(i)
        PROVE  /\ owner[i] \in Conns
               /\ got[owner[i]] \in Nat /\ done[owner[i]] \in Nat
               /\ done[owner[i]] <= got[owner[i]]
        BY <2>0, <2>5 DEF TypeInv, TypeOK, Owned, Serving
  <2>6. ASSUME NEW i \in Fds, Serving(i), UNCHANGED <<ready, owner, got>>, pc' = "parse",
               done'[owner[i]] \in Nat, done[owner[i]] < done'[owner[i]],
               done'[owner[i]] <= got[owner[i]]
        PROVE  Goal
    <3>1. /\ got[owner[i]] \in Nat /\ done[owner[i]] \in Nat
          /\ Rank(parser[i]) \in 0..3 /\ Rank(parser'[i]) \in 0..3
          BY <2>5, <2>6, RankType
    <3>2. /\ 4 * (got[owner[i]] - done'[owner[i]]) + Rank(parser'[i])
                 < 4 * (got[owner[i]] - done[owner[i]]) + Rank(parser[i])
          /\ 4 * (got[owner[i]] - done'[owner[i]]) + Rank(parser'[i]) \in Nat
          BY <2>6, <3>1, LeftLess
    <3>3. Left(i)' \in Nat /\ Left(i)' < Left(i)
          BY <2>6, <3>2 DEF Left, Rank
    <3> QED BY <2>6, <3>3 DEF Serves, Serving
  <2>7. ASSUME NEW i \in Fds, Serving(i), UNCHANGED <<ready, owner, got, done>>, pc' = "parse",
               Rank(parser'[i]) < Rank(parser[i])
        PROVE  Goal
    <3>1. /\ got[owner[i]] \in Nat /\ done[owner[i]] \in Nat /\ done[owner[i]] <= got[owner[i]]
          /\ Rank(parser[i]) \in 0..3 /\ Rank(parser'[i]) \in 0..3
          BY <2>5, <2>7, RankType
    <3>2. /\ 4 * (got[owner[i]] - done[owner[i]]) + Rank(parser'[i])
                 < 4 * (got[owner[i]] - done[owner[i]]) + Rank(parser[i])
          /\ 4 * (got[owner[i]] - done[owner[i]]) + Rank(parser'[i]) \in Nat
          BY <2>7, <3>1, RankLess
    <3>3. Left(i)' \in Nat /\ Left(i)' < Left(i)
          BY <2>7, <3>2 DEF Left, Rank
    <3> QED BY <2>7, <3>3 DEF Serves, Serving
  <2> HIDE DEF Goal
  <2>8. ASSUME NEW i \in Fds, NEW f \in {"url", "name", "cookie", "body"}, DataCallback(i, f)
        PROVE  Goal
    <3>1. /\ Serving(i) /\ pc' = "parse" /\ UNCHANGED <<ready, owner, got>>
          BY <2>8 DEF DataCallback, Serving
    <3> QED BY <1>1, <2>6, <2>8, <3>1, DataPlace
  <2>9. ASSUME NEW i \in Fds, OnMessageBegin(i) PROVE Goal
    <3>1. /\ Serving(i) /\ pc' = "parse" /\ UNCHANGED <<ready, owner, got, done>>
          /\ parser[i] = "start" /\ parser' = [parser EXCEPT ![i] = "message"]
          BY <2>9 DEF OnMessageBegin, Serving
    <3>2. Rank(parser'[i]) < Rank(parser[i])
          BY <2>0, <3>1 DEF TypeOK, Rank
    <3> QED BY <2>7, <3>1, <3>2
  <2>10. ASSUME NEW i \in Fds, Reply(i) PROVE Goal
    <3>1. /\ Serving(i) /\ pc' \in {"parse", "exited"} /\ UNCHANGED <<ready, owner, got>>
          /\ AtEnd(i) /\ parser'[i] \in {"start", "dead"}
          /\ done' = done \/ done' = [done EXCEPT ![owner[i]] = got[owner[i]]]
          BY <2>0, <2>10 DEF Reply, Serving, Conn, TypeOK
    <3>2. Rank(parser'[i]) < Rank(parser[i])
          BY <3>1 DEF Rank
    <3>3. CASE pc' = "exited"
          BY <3>3 DEF Goal
    <3>4. CASE pc' = "parse" /\ done' = done
          BY <2>7, <3>1, <3>2, <3>4
    <3>5. CASE pc' = "parse" /\ done' # done
      <4>1. done'[owner[i]] = got[owner[i]] /\ done[owner[i]] # got[owner[i]]
            BY <2>0, <2>5, <3>1, <3>5 DEF TypeOK
      <4>2. done[owner[i]] < got[owner[i]] /\ got[owner[i]] \in Nat
            BY <2>5, <3>1, <4>1
      <4> QED BY <2>6, <3>1, <3>5, <4>1, <4>2
    <3> QED BY <3>1, <3>3, <3>4, <3>5
  <2>14. ASSUME NEW i \in Fds, WriteBlocks(i) PROVE Goal
    <3>1. /\ Serving(i) /\ pc' = "parse" /\ UNCHANGED <<ready, owner, got, done>>
          /\ parser[i] = "complete" /\ parser'[i] = "writing"
          BY <2>0, <2>14 DEF WriteBlocks, Serving, TypeOK
    <3>2. Rank(parser'[i]) < Rank(parser[i])
          BY <3>1 DEF Rank
    <3> QED BY <2>7, <3>1, <3>2
  <2>11. ASSUME NEW i \in Fds, Reject(i) PROVE Goal
    <3>1. /\ Serving(i) /\ pc' = "parse" /\ UNCHANGED <<ready, owner, got>>
          /\ done[owner[i]] < got[owner[i]] /\ done' = [done EXCEPT ![owner[i]] = got[owner[i]]]
          BY <2>11 DEF Reject, Serving, Unparsed, Conn
    <3>2. done'[owner[i]] = got[owner[i]] /\ got[owner[i]] \in Nat
          BY <2>0, <2>5, <3>1 DEF TypeOK
    <3> QED BY <2>6, <3>1, <3>2
  <2>12. ~Select
        BY DEF Select
  <2>13. Goal
    <3>1. ASSUME NEW i \in Fds, OnUrl(i) \/ OnHeaderField(i) \/ OnHeaderValue(i) \/ OnBody(i)
          PROVE  Goal
          BY <2>8, <3>1 DEF OnUrl, OnHeaderField, OnHeaderValue, OnBody
    <3>2. 1 \in Fds
          BY BoundAssumption DEF Fds
    <3> QED BY <2>1, <2>2, <2>3, <2>4, <2>9, <2>10, <2>11, <2>12, <2>14, <3>1, <3>2
       DEF Server, OnMessageComplete, ClientReads, WriteFails
  <2> QED BY <2>13 DEF Goal
<1> QED BY InvInit, InvStep, <1>1, PTL DEF Spec
=============================================================================
