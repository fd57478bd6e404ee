--------------------------- MODULE SessionService ---------------------------
(***************************************************************************)
(* module_session_service<MODULE_SESSION>::proceed (recorded_service.h)    *)
(* and the rpc_session_module it drives (rpc_module.h), for the session    *)
(* module the repository ships: module_context, whose only method inc      *)
(* returns and increments a counter kept in the session.                   *)
(*                                                                         *)
(* A service object is one per process.  Its _sessions_contexts map        *)
(* (sessions) and the pointer _session of its module (session) are shared  *)
(* by every server thread that dispatches a request to it: server.cc runs  *)
(* the http_server and the http_secured_server in two threads and          *)
(* service_loader gives both engines the same service.  Nothing is locked, *)
(* so each statement that touches shared state is an action of its own.    *)
(*                                                                         *)
(* A session context is abstracted to its counter.  fromJson reads every   *)
(* number through a float, so a counter above FloatExact (2^24 in the      *)
(* build) comes back rounded.                                              *)
(***************************************************************************)
EXTENDS Integers

CONSTANTS
    Threads,    \* server threads that call proceed
    Clients,    \* browsers, each with a cookie jar
    IPs,        \* hashes of client addresses
    IPOf,       \* IPOf[c]: the address hash of client c
    Addrs,      \* addresses the allocator can return
    MaxTime,    \* bound: the last second of the clock
    FloatExact, \* largest n such that 0..n survive a float
    None,       \* null pointer, absent session, free cell, no cookie
    Empty       \* the context "" of a session being created

ASSUME IPAssumption == IPOf \in [Clients -> IPs]
ASSUME TimeAssumption == MaxTime \in Nat
ASSUME FloatAssumption == FloatExact \in Nat /\ FloatExact % 4 = 0
ASSUME SentinelAssumption ==
    /\ None \notin Nat /\ None \notin Addrs /\ Empty \notin Nat /\ None # Empty
    /\ None \notin [sec : 0..MaxTime, ip : IPs]

VARIABLES
    sessions,  \* _sessions_contexts: context stored under each hash
    session,   \* _module._session
    heap,      \* the counter held by each allocated session object
    pc,        \* the statement of proceed each thread is about to execute
    req,       \* the request each thread serves
    hash,      \* proceed's aHash
    ctx,       \* proceed's aSessionContext
    reply,     \* the reply being built
    now,       \* time()
    jar,       \* the webcjson_sessionid cookie each client holds
    up,        \* the process runs
    misuse,        \* observation: a null or freed session object was used
    incs       \* observation: calls of inc served since a hash was created

vars == <<sessions, session, heap, pc, req, hash, ctx, reply, now, jar, up, misuse, incs>>
local == <<req, hash, ctx, reply>>
world == <<now, jar, incs>>

-----------------------------------------------------------------------------

Hash  == [sec : 0..MaxTime, ip : IPs]
Count == 0..(FloatExact + 1)

\* "define": an empty or unknown function name, answered without the module;
\* "error": execute returns 1, as the stub of a method with arguments does when
\* one does not parse; "throw": decodePostBody throws, nothing catches it
Calls == {"inc", "define", "error", "throw"}
Steps == {"idle", "find", "create", "put", "init", "load", "set", "execute",
          "extract", "save", "delete", "null"}

AtMost(n, bound) == IF n <= bound THEN n ELSE bound

\* What (int) (float) does to a counter up to 2 * FloatExact: round half to even
FloatRound(n) ==
    IF n <= FloatExact \/ n % 2 = 0 THEN n
    ELSE IF n % 4 = 1 THEN n - 1 ELSE n + 1

NoRequest == [client |-> None, cookie |-> None, call |-> "define"]
NoReply   == [code |-> 400, n |-> None]

TypeOK ==
    /\ sessions \in [Hash -> Count \cup {None, Empty}]
    /\ session \in Addrs \cup {None}
    /\ heap \in [Addrs -> Count \cup {None}]
    /\ pc \in [Threads -> Steps]
    /\ req \in [Threads -> [client : Clients \cup {None},
                            cookie : Hash \cup {None}, call : Calls]]
    /\ hash \in [Threads -> Hash \cup {None}]
    /\ ctx \in [Threads -> Count \cup {Empty}]
    /\ reply \in [Threads -> [code : {200, 400}, n : Count \cup {None}]]
    /\ now \in 0..MaxTime
    /\ jar \in [Clients -> Hash \cup {None}]
    /\ up \in BOOLEAN
    /\ misuse \in BOOLEAN
    /\ incs \in [Hash -> Count]

NoSessions == [h \in Hash |-> None]
NoObjects  == [a \in Addrs |-> None]
AllIdle    == [t \in Threads |-> "idle"]
NoCalls    == [h \in Hash |-> 0]

Init ==
    /\ sessions = NoSessions /\ session = None /\ heap = NoObjects
    /\ pc = AllIdle
    /\ req = [t \in Threads |-> NoRequest]
    /\ hash = [t \in Threads |-> None]
    /\ ctx = [t \in Threads |-> Empty]
    /\ reply = [t \in Threads |-> NoReply]
    /\ incs = NoCalls
    /\ now = 0
    /\ jar = [c \in Clients |-> None]
    /\ up = TRUE
    /\ misuse = FALSE

-----------------------------------------------------------------------------
\* The statements of proceed

Goto(t, from, to) ==
    /\ up
    /\ pc[t] = from
    /\ pc' = [pc EXCEPT ![t] = to]

\* The engine dispatches a parsed request to the service
Receive(t, c, f) ==
    /\ Goto(t, "idle", "find")
    /\ req' = [req EXCEPT ![t] = [client |-> c, cookie |-> jar[c], call |-> f]]
    /\ UNCHANGED <<sessions, session, heap, hash, ctx, reply, up, misuse, world>>

\* Mutant: the cookie is believed without looking it up in the map
FindHitUnchecked(t) ==
    /\ Goto(t, "find", "load")
    /\ req[t].cookie # None
    /\ hash' = [hash EXCEPT ![t] = req[t].cookie]
    /\ UNCHANGED <<sessions, session, heap, req, ctx, reply, up, misuse, world>>

\* getCookie, then _sessions_contexts.find
Known(t) == req[t].cookie # None /\ sessions[req[t].cookie] # None

FindHit(t) ==
    /\ Goto(t, "find", "load")
    /\ Known(t)
    /\ hash' = [hash EXCEPT ![t] = req[t].cookie]
    /\ UNCHANGED <<sessions, session, heap, req, ctx, reply, up, misuse, world>>

\* The other thread may be rebalancing the tree under this find
FindMiss(t) ==
    /\ Goto(t, "find", "create")
    /\ ~Known(t) \/ \E u \in Threads \ {t} : pc[u] = "put"
    /\ UNCHANGED <<sessions, session, heap, local, up, misuse, world>>

\* Mutant: the hash is taken from the address alone
CreateReused(t) ==
    /\ Goto(t, "create", "put")
    /\ hash' = [hash EXCEPT ![t] = [sec |-> 0, ip |-> IPOf[req[t].client]]]
    /\ UNCHANGED <<sessions, session, heap, req, ctx, reply, up, misuse, world>>

\* A new hash from the second and the address, and addCookie
Create(t) ==
    /\ Goto(t, "create", "put")
    /\ hash' = [hash EXCEPT ![t] = [sec |-> now, ip |-> IPOf[req[t].client]]]
    /\ UNCHANGED <<sessions, session, heap, req, ctx, reply, up, misuse, world>>

\* The empty context is stored under the hash, whatever second it is by now
PutEmpty(t) ==
    /\ Goto(t, "put", "init")
    /\ sessions' = [sessions EXCEPT ![hash[t]] = Empty]
    /\ incs' = [incs EXCEPT ![hash[t]] = 0]
    /\ UNCHANGED <<session, heap, local, now, jar, up, misuse>>

\* _session = a new object; the old pointer is overwritten
Allocate(n) ==
    \E a \in Addrs :
        /\ heap[a] = None
        /\ heap' = [heap EXCEPT ![a] = n]
        /\ session' = a

InitSession(t) ==
    /\ Goto(t, "init", "execute")
    /\ Allocate(0)
    /\ UNCHANGED <<sessions, local, up, misuse, world>>

Load(t) ==
    /\ Goto(t, "load", "set")
    /\ ctx' = [ctx EXCEPT ![t] = sessions[req[t].cookie]]
    /\ UNCHANGED <<sessions, session, heap, req, hash, reply, up, misuse, world>>

SetContext(t) ==
    /\ ctx[t] # Empty
    /\ Goto(t, "set", "execute")
    /\ Allocate(FloatRound(ctx[t]))
    /\ UNCHANGED <<sessions, local, up, misuse, world>>

Execute(t) ==
    /\ req[t].call \in {"define", "error"}
    /\ Goto(t, "execute", "extract")
    /\ reply' = [reply EXCEPT ![t].code = IF req[t].call = "error" THEN 400 ELSE 200]
    /\ UNCHANGED <<sessions, session, heap, req, hash, ctx, up, misuse, world>>

\* inc on the object _session points to
ExecuteInc(t) ==
    /\ req[t].call = "inc"
    /\ session # None /\ heap[session] # None
    /\ Goto(t, "execute", "extract")
    /\ reply' = [reply EXCEPT ![t] = [code |-> 200, n |-> heap[session]]]
    /\ heap' = [heap EXCEPT ![session] = AtMost(@ + 1, FloatExact + 1)]
    /\ incs' = [incs EXCEPT ![hash[t]] = AtMost(@ + 1, FloatExact + 1)]
    /\ UNCHANGED <<sessions, session, req, hash, ctx, now, jar, up, misuse>>

\* Mutant: reset before the context is extracted
ExtractAfterReset(t) ==
    /\ session # None
    /\ Goto(t, "extract", "save")
    /\ ctx' = [ctx EXCEPT ![t] = 0]
    /\ heap' = [heap EXCEPT ![session] = None]
    /\ UNCHANGED <<sessions, session, req, hash, reply, up, misuse, world>>

Extract(t) ==
    /\ session # None /\ heap[session] # None
    /\ Goto(t, "extract", "save")
    /\ ctx' = [ctx EXCEPT ![t] = heap[session]]
    /\ UNCHANGED <<sessions, session, heap, req, hash, reply, up, misuse, world>>

\* inc or extractContext on memory that was freed: any value comes back
ReadFreed(t) ==
    /\ session # None /\ heap[session] = None
    /\ misuse' = TRUE
    /\ \E n \in Count :
        \/ /\ req[t].call = "inc"
           /\ Goto(t, "execute", "extract")
           /\ reply' = [reply EXCEPT ![t] = [code |-> 200, n |-> n]]
           /\ incs' = [incs EXCEPT ![hash[t]] = AtMost(@ + 1, FloatExact + 1)]
           /\ ctx' = ctx
        \/ /\ Goto(t, "extract", "save")
           /\ ctx' = [ctx EXCEPT ![t] = n]
           /\ UNCHANGED <<reply, incs>>
    /\ UNCHANGED <<sessions, session, heap, req, hash, now, jar, up>>

\* Mutant: the context is stored only for a session the client just received
SaveNewOnly(t) ==
    /\ Goto(t, "save", "delete")
    /\ sessions' = IF hash[t] = req[t].cookie THEN sessions
                   ELSE [sessions EXCEPT ![hash[t]] = ctx[t]]
    /\ UNCHANGED <<session, heap, local, up, misuse, world>>

\* Mutant: the context of a call that failed is not stored
SaveOnSuccess(t) ==
    /\ Goto(t, "save", "delete")
    /\ sessions' = IF reply[t].code # 200 THEN sessions
                   ELSE [sessions EXCEPT ![hash[t]] = ctx[t]]
    /\ UNCHANGED <<session, heap, local, up, misuse, world>>

Save(t) ==
    /\ Goto(t, "save", "delete")
    /\ sessions' = [sessions EXCEPT ![hash[t]] = ctx[t]]
    /\ UNCHANGED <<session, heap, local, up, misuse, world>>

\* Mutant: the object is freed only when it was created for a new session
DeleteNewOnly(t) ==
    /\ Goto(t, "delete", "null")
    /\ heap' = IF hash[t] = req[t].cookie THEN heap ELSE [heap EXCEPT ![session] = None]
    /\ UNCHANGED <<sessions, session, local, up, misuse, world>>

\* delete of the null pointer does nothing; of a freed object, it may go unnoticed
Delete(t) ==
    /\ Goto(t, "delete", "null")
    /\ heap' = IF session = None THEN heap ELSE [heap EXCEPT ![session] = None]
    /\ misuse' = (misuse \/ (session # None /\ heap[session] = None))
    /\ UNCHANGED <<sessions, session, local, up, world>>

\* _session = 0 and the locals die; http_format sends the cookie when addCookie
\* was called
Reset(t) ==
    /\ Goto(t, "null", "idle")
    /\ session' = None
    /\ jar' = IF hash[t] = req[t].cookie THEN jar
              ELSE [jar EXCEPT ![req[t].client] = hash[t]]
    /\ req' = [req EXCEPT ![t] = NoRequest]
    /\ hash' = [hash EXCEPT ![t] = None]
    /\ ctx' = [ctx EXCEPT ![t] = Empty]
    /\ reply' = [reply EXCEPT ![t] = NoReply]
    /\ UNCHANGED <<sessions, heap, now, up, misuse, incs>>

-----------------------------------------------------------------------------
\* The process ends: an exception nobody catches, or a signal

\* decodePostBody on a body without _nargs, fromJson(""), or no memory left
Uncaught(t) ==
    \/ pc[t] = "execute" /\ req[t].call = "throw"
    \/ pc[t] = "set" /\ ctx[t] = Empty
    \/ pc[t] \in {"init", "set"} /\ \A a \in Addrs : heap[a] # None

NullDereference(t) ==
    /\ session = None
    /\ pc[t] = "extract" \/ (pc[t] = "execute" /\ req[t].call = "inc")

DoubleFree(t) == pc[t] = "delete" /\ session # None /\ heap[session] = None

Die(t) ==
    /\ up
    /\ Uncaught(t) \/ NullDereference(t) \/ DoubleFree(t)
    /\ up' = FALSE
    /\ misuse' = (misuse \/ ~Uncaught(t))
    /\ UNCHANGED <<sessions, session, heap, pc, local, world>>

\* The operator starts the server again: the sessions were in memory only
Restart ==
    /\ ~up
    /\ up' = TRUE
    /\ sessions' = NoSessions /\ session' = None /\ heap' = NoObjects
    /\ pc' = AllIdle
    /\ req' = [t \in Threads |-> NoRequest]
    /\ hash' = [t \in Threads |-> None]
    /\ ctx' = [t \in Threads |-> Empty]
    /\ reply' = [t \in Threads |-> NoReply]
    /\ incs' = NoCalls
    /\ UNCHANGED <<now, jar, misuse>>

-----------------------------------------------------------------------------
\* The environment

Tick ==
    /\ now < MaxTime
    /\ now' = now + 1
    /\ UNCHANGED <<sessions, session, heap, pc, local, jar, up, misuse, incs>>

\* A browser is closed: the cookie has no expiry date a browser accepts
Forget(c) ==
    /\ jar[c] # None
    /\ jar' = [jar EXCEPT ![c] = None]
    /\ UNCHANGED <<sessions, session, heap, pc, local, now, up, misuse, incs>>

Proceed(t) ==
    \/ FindHit(t) \/ FindMiss(t) \/ Create(t) \/ PutEmpty(t) \/ InitSession(t)
    \/ Load(t) \/ SetContext(t) \/ Execute(t) \/ ExecuteInc(t) \/ Extract(t)
    \/ ReadFreed(t) \/ Save(t) \/ Delete(t) \/ Reset(t) \/ Die(t)

Next ==
    \/ \E t \in Threads, c \in Clients, f \in Calls : Receive(t, c, f)
    \/ \E t \in Threads : Proceed(t)
    \/ Restart
    \/ Tick
    \/ \E c \in Clients : Forget(c)

Spec == Init /\ [][Next]_vars

-----------------------------------------------------------------------------
(***************************************************************************)
(* Properties.  The first four are what the session protocol must give     *)
(* when requests are served one at a time (one server thread).             *)
(***************************************************************************)

\* proceed never reads, writes or deletes through a null or freed _session,
\* whatever sequence of requests, errors and restarts came before
NoMisuse == ~misuse

\* The only live session object is the one _session points to: no request,
\* failed or not, leaves its object behind
NoLeak == \A a \in Addrs : heap[a] # None => a = session

\* Calls of inc in one session are answered 0, 1, 2, ... since the session was
\* created, until the counter reaches what a float can carry, and that answer
\* for ever after
RepliesCount ==
    \A t \in Threads :
        pc[t] # "idle" /\ reply[t].n # None
            => reply[t].n = AtMost(incs[hash[t]] - 1, FloatExact)

\* Between requests the stored context of a session holds every inc made in
\* it, up to the float's precision
StoredContext ==
    \A h \in Hash :
        up /\ (\A t \in Threads : pc[t] = "idle") /\ sessions[h] # None
            => /\ sessions[h] # Empty
               /\ AtMost(sessions[h], FloatExact) = AtMost(incs[h], FloatExact)

\* The empty context that would make fromJson throw is in the map only while
\* the request that put it there is being served
EmptyOnlyWhileCreated ==
    \A h \in Hash :
        sessions[h] = Empty
            => \E t \in Threads : hash[t] = h /\ pc[t] \in {"init", "execute", "extract", "save"}

\* The second a hash names is over, and no request that was given the hash is
\* still on its way to the map
Settled(h) ==
    /\ h.sec < now
    /\ \A t \in Threads : ~(pc[t] = "put" /\ hash[t] = h)

\* A session is settled for as long as the server runs, and a running server never
\* forgets the calls of a settled session: browsers behind one address can empty each
\* other's session only while one of them holds a hash of that very second
SettledSessionsLast ==
    [][\A h \in Hash : up /\ Settled(h) => Settled(h)' /\ incs[h] <= incs'[h]]_vars

=============================================================================
