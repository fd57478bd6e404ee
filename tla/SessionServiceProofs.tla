------------------------ MODULE SessionServiceProofs ------------------------
(***************************************************************************)
(* Theorems about SessionService for every number of threads, clients and  *)
(* addresses, every bound of the clock and every precision of the float;   *)
(* at the end, that with one thread it implements SessionStore.            *)
(***************************************************************************)
EXTENDS SessionRefinement, TLAPS

\* What each thread knows of its request while it serves it
Serving ==
    \A t \in Threads :
        /\ pc[t] # "idle" => req[t].client \in Clients
        /\ pc[t] = "load" => req[t].cookie # None /\ sessions[req[t].cookie] # None
        /\ pc[t] \notin {"idle", "find", "create"} => hash[t] # None

TypeInv == TypeOK /\ Serving

\* The counter a float gives back is a counter again
LEMMA FloatRoundType == \A n \in Count : FloatRound(n) \in Count
BY FloatAssumption DEF FloatRound, Count

LEMMA CountType ==
    /\ 0 \in Count /\ Count \subseteq Nat
    /\ None \notin Count \cup {Empty} /\ Empty \notin Count /\ None \notin Hash
BY FloatAssumption, SentinelAssumption DEF Count, Hash

\* Every step keeps the types, and what a thread knows of its request
LEMMA TypeStep == TypeInv /\ [Next]_vars => TypeInv'
<1> SUFFICES ASSUME TypeInv, [Next]_vars PROVE TypeInv'
    OBVIOUS
<1> USE CountType
<1>1. ASSUME NEW t \in Threads, NEW c \in Clients, NEW f \in Calls, Receive(t, c, f)
      PROVE TypeInv'
      BY <1>1 DEF TypeInv, TypeOK, Serving, Receive, Goto, world, Steps, Calls
<1>2. ASSUME NEW t \in Threads, FindHit(t) PROVE TypeInv'
      BY <1>2 DEF TypeInv, TypeOK, Serving, FindHit, Known, Goto, world, Steps
<1>3. ASSUME NEW t \in Threads, FindMiss(t) PROVE TypeInv'
      BY <1>3 DEF TypeInv, TypeOK, Serving, FindMiss, Goto, world, local, Steps
<1>4. ASSUME NEW t \in Threads, Create(t) PROVE TypeInv'
      BY <1>4, IPAssumption DEF TypeInv, TypeOK, Serving, Create, Goto, world, Steps, Hash
<1>20. ASSUME NEW t \in Threads, PutEmpty(t) PROVE TypeInv'
      BY <1>20 DEF TypeInv, TypeOK, Serving, PutEmpty, Goto, local, Steps
<1>5. ASSUME NEW t \in Threads, InitSession(t) PROVE TypeInv'
      BY <1>5 DEF TypeInv, TypeOK, Serving, InitSession, Allocate, Goto, world, local, Steps
<1>6. ASSUME NEW t \in Threads, Load(t) PROVE TypeInv'
      BY <1>6 DEF TypeInv, TypeOK, Serving, Load, Goto, world, Steps
<1>7. ASSUME NEW t \in Threads, SetContext(t) PROVE TypeInv'
  <2>1. ctx[t] \in Count
        BY <1>7 DEF TypeInv, TypeOK, SetContext
  <2>2. PICK n \in Count : n = FloatRound(ctx[t])
        BY <2>1, FloatRoundType, Zenon
  <2>3. Allocate(n)
        BY <1>7, <2>2 DEF SetContext
  <2>4. /\ heap' \in [Addrs -> Count \cup {None}]
        /\ session' \in Addrs
        BY <2>3 DEF TypeInv, TypeOK, Allocate
  <2> QED
      BY <1>7, <2>4 DEF TypeInv, TypeOK, Serving, SetContext, Goto, world, local, Steps
<1>8. ASSUME NEW t \in Threads, Execute(t) PROVE TypeInv'
      BY <1>8 DEF TypeInv, TypeOK, Serving, Execute, Goto, world, Steps
<1>9. ASSUME NEW t \in Threads, ExecuteInc(t) PROVE TypeInv'
  <2>1. hash[t] \in Hash /\ heap[session] \in Count /\ session \in Addrs
        BY <1>9 DEF TypeInv, TypeOK, Serving, ExecuteInc, Goto
  <2>2. /\ heap' \in [Addrs -> Count \cup {None}]
        /\ incs' \in [Hash -> Count]
        BY <1>9, <2>1, FloatAssumption DEF TypeInv, TypeOK, ExecuteInc, AtMost, Count
  <2>3. reply' \in [Threads -> [code : {200, 400}, n : Count \cup {None}]]
        BY <1>9, <2>1 DEF TypeInv, TypeOK, ExecuteInc
  <2> QED
      BY <1>9, <2>2, <2>3 DEF TypeInv, TypeOK, Serving, ExecuteInc, Goto, Steps
<1>10. ASSUME NEW t \in Threads, Extract(t) PROVE TypeInv'
      BY <1>10 DEF TypeInv, TypeOK, Serving, Extract, Goto, world, Steps
<1>11. ASSUME NEW t \in Threads, ReadFreed(t) PROVE TypeInv'
  <2>1. hash[t] \in Hash
        BY <1>11 DEF TypeInv, TypeOK, Serving, ReadFreed, Goto
  <2>2. UNCHANGED <<sessions, session, heap, req, hash, now, jar>>
        BY <1>11 DEF ReadFreed
  <2>3. up' \in BOOLEAN /\ misuse' \in BOOLEAN
        BY <1>11, Zenon DEF ReadFreed, TypeInv, TypeOK
  <2>4. ASSUME NEW n \in Count,
               Goto(t, "execute", "extract"),
               reply' = [reply EXCEPT ![t] = [code |-> 200, n |-> n]],
               incs' = [incs EXCEPT ![hash[t]] = AtMost(@ + 1, FloatExact + 1)],
               ctx' = ctx
        PROVE  TypeInv'
    <3>1. incs' \in [Hash -> Count]
          BY <2>1, <2>4, FloatAssumption DEF TypeInv, TypeOK, AtMost, Count
    <3>2. reply' \in [Threads -> [code : {200, 400}, n : Count \cup {None}]]
          BY <2>4 DEF TypeInv, TypeOK
    <3> QED
        BY <2>2, <2>3, <2>4, <3>1, <3>2 DEF TypeInv, TypeOK, Serving, Goto, Steps
  <2>5. ASSUME NEW n \in Count,
               Goto(t, "extract", "save"),
               ctx' = [ctx EXCEPT ![t] = n],
               UNCHANGED <<reply, incs>>
        PROVE  TypeInv'
        BY <2>2, <2>3, <2>5 DEF TypeInv, TypeOK, Serving, Goto, Steps
  <2> QED
      BY <1>11, <2>4, <2>5 DEF ReadFreed
<1>12. ASSUME NEW t \in Threads, Save(t) PROVE TypeInv'
      BY <1>12 DEF TypeInv, TypeOK, Serving, Save, Goto, world, local, Steps
<1>13. ASSUME NEW t \in Threads, Delete(t) PROVE TypeInv'
      BY <1>13 DEF TypeInv, TypeOK, Serving, Delete, Goto, world, local, Steps
<1>14. ASSUME NEW t \in Threads, Reset(t) PROVE TypeInv'
      BY <1>14 DEF TypeInv, TypeOK, Serving, Reset, Goto, Steps, NoRequest, NoReply, Calls
<1>15. ASSUME NEW t \in Threads, Die(t) PROVE TypeInv'
      BY <1>15 DEF TypeInv, TypeOK, Serving, Die, world, local
<1>16. CASE Restart
      BY <1>16 DEF TypeInv, TypeOK, Serving, Restart, NoSessions, NoObjects, AllIdle, NoCalls,
                   NoRequest, NoReply, Steps, Calls
<1>17. CASE Tick
      BY <1>17, TimeAssumption DEF TypeInv, TypeOK, Serving, Tick, local
<1>18. ASSUME NEW c \in Clients, Forget(c) PROVE TypeInv'
      BY <1>18 DEF TypeInv, TypeOK, Serving, Forget, local
<1>19. CASE UNCHANGED vars
      BY <1>19 DEF TypeInv, TypeOK, Serving, vars
<1> QED
    BY <1>1, <1>2, <1>3, <1>4, <1>5, <1>6, <1>7, <1>8, <1>9, <1>10, <1>11, <1>12, <1>13,
       <1>14, <1>15, <1>16, <1>17, <1>18, <1>19, <1>20 DEF Next, Proceed

LEMMA TypeInit == Init => TypeInv
<1> SUFFICES ASSUME Init PROVE TypeInv
    OBVIOUS
<1>1. Serving
      BY DEF Init, Serving, AllIdle
<1>2. /\ req \in [Threads -> [client : Clients \cup {None}, cookie : Hash \cup {None}, call : Calls]]
      /\ reply \in [Threads -> [code : {200, 400}, n : Count \cup {None}]]
      BY DEF Init, NoRequest, NoReply, Calls
<1>3. /\ sessions \in [Hash -> Count \cup {None, Empty}]
      /\ heap \in [Addrs -> Count \cup {None}]
      /\ incs \in [Hash -> Count]
      BY CountType DEF Init, NoSessions, NoObjects, NoCalls
<1>4. /\ pc \in [Threads -> Steps]
      /\ hash \in [Threads -> Hash \cup {None}]
      /\ ctx \in [Threads -> Count \cup {Empty}]
      /\ jar \in [Clients -> Hash \cup {None}]
      BY DEF Init, AllIdle, Steps
<1>5. session \in Addrs \cup {None} /\ now \in 0..MaxTime
      BY TimeAssumption DEF Init
<1>6. up \in BOOLEAN /\ misuse \in BOOLEAN
      BY Zenon DEF Init
<1> QED
    BY <1>1, <1>2, <1>3, <1>4, <1>5, <1>6 DEF TypeInv, TypeOK

\* The state of the service stays in its types, with any number of threads
THEOREM TypeCorrect == Spec => []TypeOK
<1>1. TypeInv => TypeOK
      BY DEF TypeInv
<1> QED BY TypeInit, TypeStep, <1>1, PTL DEF Spec

-----------------------------------------------------------------------------
(***************************************************************************)
(* The empty context, with any number of threads.  A thread that reached   *)
(* the save has extracted a counter.                                       *)
(***************************************************************************)

EmptyInv ==
    /\ EmptyOnlyWhileCreated
    /\ \A t \in Threads : pc[t] = "save" => ctx[t] # Empty

LEMMA EmptyStep == TypeInv /\ EmptyInv /\ [Next]_vars => EmptyInv'
<1> SUFFICES ASSUME TypeInv, EmptyInv, [Next]_vars PROVE EmptyInv'
    OBVIOUS
<1> USE CountType DEF TypeInv, TypeOK, EmptyInv, EmptyOnlyWhileCreated, Goto, local, world
<1>1. ASSUME NEW t \in Threads, NEW c \in Clients, NEW f \in Calls, Receive(t, c, f)
      PROVE EmptyInv'
      BY <1>1 DEF Receive
<1>2. ASSUME NEW t \in Threads, FindHit(t) \/ FindMiss(t) PROVE EmptyInv'
  <2>1. CASE FindHit(t)
        BY <2>1 DEF FindHit
  <2>2. CASE FindMiss(t)
    <3>1. /\ pc[t] = "find" /\ pc' = [pc EXCEPT ![t] = "create"]
          /\ UNCHANGED <<sessions, hash, ctx>>
          BY <2>2 DEF FindMiss
    <3> QED BY <3>1
  <2> QED BY <1>2, <2>1, <2>2
<1>3. ASSUME NEW t \in Threads, Create(t) PROVE EmptyInv'
      BY <1>3 DEF Create
<1>18. ASSUME NEW t \in Threads, PutEmpty(t) PROVE EmptyInv'
  <2>1. hash[t] \in Hash /\ sessions' = [sessions EXCEPT ![hash[t]] = Empty]
        BY <1>18 DEF PutEmpty, Serving
  <2>2. pc[t] = "put" /\ pc' = [pc EXCEPT ![t] = "init"] /\ UNCHANGED <<hash, ctx>>
        BY <1>18 DEF PutEmpty
  <2>3. ASSUME NEW h \in Hash, sessions'[h] = Empty, h # hash[t]
        PROVE  \E u \in Threads \ {t} : hash[u] = h /\ pc[u] \in {"init", "execute", "extract", "save"}
        BY <2>1, <2>2, <2>3
  <2> QED
      BY <2>1, <2>2, <2>3
<1>4. ASSUME NEW t \in Threads, InitSession(t) PROVE EmptyInv'
      BY <1>4 DEF InitSession
<1>5. ASSUME NEW t \in Threads, Load(t) PROVE EmptyInv'
      BY <1>5 DEF Load
<1>6. ASSUME NEW t \in Threads, SetContext(t) PROVE EmptyInv'
      BY <1>6 DEF SetContext
<1>7. ASSUME NEW t \in Threads, Execute(t) \/ ExecuteInc(t) PROVE EmptyInv'
  <2>1. CASE Execute(t)
        BY <2>1 DEF Execute
  <2>2. CASE ExecuteInc(t)
        BY <2>2 DEF ExecuteInc
  <2> QED BY <1>7, <2>1, <2>2
<1>8. ASSUME NEW t \in Threads, Extract(t) PROVE EmptyInv'
  <2>1. heap[session] # Empty
        BY <1>8 DEF Extract
  <2> QED
      BY <1>8, <2>1 DEF Extract
<1>9. ASSUME NEW t \in Threads, ReadFreed(t) PROVE EmptyInv'
  <2>1. PICK n \in Count :
          \/ Goto(t, "execute", "extract") /\ ctx' = ctx
          \/ Goto(t, "extract", "save") /\ ctx' = [ctx EXCEPT ![t] = n]
        BY <1>9 DEF ReadFreed
  <2>2. UNCHANGED <<sessions, hash>>
        BY <1>9 DEF ReadFreed
  <2>3. CASE Goto(t, "execute", "extract") /\ ctx' = ctx
        BY <2>2, <2>3
  <2>4. CASE Goto(t, "extract", "save") /\ ctx' = [ctx EXCEPT ![t] = n]
        BY <2>2, <2>4
  <2> QED BY <2>1, <2>3, <2>4
<1>10. ASSUME NEW t \in Threads, Save(t) PROVE EmptyInv'
      BY <1>10 DEF Save
<1>11. ASSUME NEW t \in Threads, Delete(t) PROVE EmptyInv'
      BY <1>11 DEF Delete
<1>12. ASSUME NEW t \in Threads, Reset(t) PROVE EmptyInv'
      BY <1>12 DEF Reset
<1>13. ASSUME NEW t \in Threads, Die(t) PROVE EmptyInv'
      BY <1>13 DEF Die
<1>14. CASE Restart
      BY <1>14, SentinelAssumption DEF Restart, NoSessions, AllIdle
<1>15. CASE Tick
      BY <1>15 DEF Tick
<1>16. ASSUME NEW c \in Clients, Forget(c) PROVE EmptyInv'
      BY <1>16 DEF Forget
<1>17. CASE UNCHANGED vars
      BY <1>17 DEF vars
<1> QED
    BY <1>1, <1>2, <1>3, <1>4, <1>5, <1>6, <1>7, <1>8, <1>9, <1>10, <1>11, <1>12, <1>13,
       <1>14, <1>15, <1>16, <1>17, <1>18 DEF Next, Proceed

\* No request that comes after another finds the empty context fromJson throws at
THEOREM EmptyContextConfined == Spec => []EmptyOnlyWhileCreated
<1>1. Init => EmptyInv
      BY SentinelAssumption DEF Init, EmptyInv, EmptyOnlyWhileCreated, NoSessions, AllIdle
<1>2. EmptyInv => EmptyOnlyWhileCreated
      BY DEF EmptyInv
<1> QED BY TypeInit, TypeStep, EmptyStep, <1>1, <1>2, PTL DEF Spec

-----------------------------------------------------------------------------

\* The clock never goes back, and a request that is on its way to the map holds the
\* hash it was given before or one of the present second
LEMMA SettledStep ==
    ASSUME TypeInv, [Next]_vars, NEW h \in Hash, up, Settled(h) PROVE Settled(h)'
<1> USE DEF TypeInv, TypeOK, Settled, Goto, local, world, Hash
<1>1. ASSUME NEW t \in Threads, Create(t) PROVE Settled(h)'
  <2>1. /\ hash' = [hash EXCEPT ![t] = [sec |-> now, ip |-> IPOf[req[t].client]]]
        /\ pc' = [pc EXCEPT ![t] = "put"] /\ now' = now
        BY <1>1 DEF Create
  <2>2. hash'[t] # h
        BY <2>1
  <2> QED
      BY <2>1, <2>2
<1>2. ASSUME NEW t \in Threads, Proceed(t), ~Create(t) PROVE Settled(h)'
  <2>1. now' = now
        BY <1>2 DEF Proceed, FindHit, FindMiss, PutEmpty, InitSession, Load, SetContext, Execute,
                    ExecuteInc, Extract, ReadFreed, Save, Delete, Reset, Die
  <2>2. CASE Die(t)
        BY <2>2 DEF Die
  <2>3. ASSUME ~Die(t)
        PROVE  /\ pc'[t] # "put"
               /\ \A u \in Threads : u # t => pc'[u] = pc[u] /\ hash'[u] = hash[u]
    <3> HIDE DEF Settled
    <3>1. CASE FindHit(t)
          BY <3>1 DEF FindHit
    <3>2. CASE FindMiss(t)
          BY <3>2 DEF FindMiss
    <3>3. CASE PutEmpty(t)
          BY <3>3 DEF PutEmpty
    <3>4. CASE InitSession(t)
          BY <3>4 DEF InitSession
    <3>5. CASE Load(t)
          BY <3>5 DEF Load
    <3>6. CASE SetContext(t)
          BY <3>6 DEF SetContext
    <3>7. CASE Execute(t)
          BY <3>7 DEF Execute
    <3>8. CASE ExecuteInc(t)
          BY <3>8 DEF ExecuteInc
    <3>9. CASE Extract(t)
          BY <3>9 DEF Extract
    <3>10. CASE ReadFreed(t)
      <4>1. hash' = hash
            BY <3>10 DEF ReadFreed
      <4>2. pc' = [pc EXCEPT ![t] = "extract"] \/ pc' = [pc EXCEPT ![t] = "save"]
            BY <3>10 DEF ReadFreed
      <4> QED
          BY <4>1, <4>2
    <3>11. CASE Save(t)
          BY <3>11 DEF Save
    <3>12. CASE Delete(t)
          BY <3>12 DEF Delete
    <3>13. CASE Reset(t)
          BY <3>13 DEF Reset
    <3> QED
        BY <1>2, <2>3, <3>1, <3>2, <3>3, <3>4, <3>5, <3>6, <3>7, <3>8, <3>9, <3>10, <3>11,
           <3>12, <3>13 DEF Proceed
  <2> QED
      BY <2>1, <2>2, <2>3
<1>3. ASSUME NEW t \in Threads, NEW c \in Clients, NEW f \in Calls, Receive(t, c, f)
      PROVE  Settled(h)'
      BY <1>3 DEF Receive
<1>4. CASE Tick
      BY <1>4 DEF Tick
<1>5. ~Restart
      BY DEF Restart
<1>6. ASSUME NEW c \in Clients, Forget(c) PROVE Settled(h)'
      BY <1>6 DEF Forget
<1>7. CASE UNCHANGED vars
      BY <1>7 DEF vars
<1> QED
    BY <1>1, <1>2, <1>3, <1>4, <1>5, <1>6, <1>7 DEF Next

\* Only a request that still holds its hash empties the session of that hash
LEMMA CallsStep ==
    ASSUME TypeInv, [Next]_vars, NEW h \in Hash, up, Settled(h) PROVE incs[h] <= incs'[h]
<1>1. incs \in [Hash -> Count] /\ \A n \in Count : n <= n /\ n <= AtMost(n + 1, FloatExact + 1)
      BY FloatAssumption DEF TypeInv, TypeOK, AtMost, Count
<1>2. ASSUME NEW t \in Threads, NEW g \in Hash,
             incs' = [incs EXCEPT ![g] = AtMost(@ + 1, FloatExact + 1)]
      PROVE  incs[h] <= incs'[h]
      BY <1>1, <1>2
<1>3. ASSUME incs' = incs PROVE incs[h] <= incs'[h]
      BY <1>1, <1>3
<1>4. ASSUME NEW t \in Threads, PutEmpty(t) PROVE incs[h] <= incs'[h]
  <2>1. hash[t] # h /\ incs' = [incs EXCEPT ![hash[t]] = 0]
        BY <1>4 DEF PutEmpty, Goto, Settled
  <2> QED
      BY <1>1, <2>1
<1>5. ASSUME NEW t \in Threads, ExecuteInc(t) \/ ReadFreed(t) PROVE incs[h] <= incs'[h]
  <2>1. hash[t] \in Hash
    <3>1. CASE ExecuteInc(t)
          BY <3>1 DEF ExecuteInc, Goto, TypeInv, TypeOK, Serving
    <3>2. CASE ReadFreed(t)
      <4>1. pc[t] \in {"execute", "extract"}
            BY <3>2 DEF ReadFreed, Goto
      <4> QED
          BY <4>1 DEF TypeInv, TypeOK, Serving
    <3> QED BY <1>5, <3>1, <3>2
  <2>2. \/ incs' = incs
        \/ incs' = [incs EXCEPT ![hash[t]] = AtMost(@ + 1, FloatExact + 1)]
        BY <1>5 DEF ExecuteInc, ReadFreed
  <2> QED BY <1>2, <1>3, <2>1, <2>2
<1>6. ASSUME NEW t \in Threads, Proceed(t), ~PutEmpty(t), ~ExecuteInc(t), ~ReadFreed(t)
      PROVE  incs' = incs
      BY <1>6 DEF Proceed, FindHit, FindMiss, Create, InitSession, Load, SetContext, Execute,
                  Extract, Save, Delete, Reset, Die, world
<1>7. ASSUME NEW t \in Threads, NEW c \in Clients, NEW f \in Calls, Receive(t, c, f)
      PROVE  incs' = incs
      BY <1>7 DEF Receive, world
<1>8. ASSUME Tick \/ (\E c \in Clients : Forget(c)) \/ UNCHANGED vars PROVE incs' = incs
      BY <1>8 DEF Tick, Forget, vars
<1>9. ~Restart
      BY DEF Restart
<1> QED
    BY <1>3, <1>4, <1>5, <1>6, <1>7, <1>8, <1>9 DEF Next

\* However many threads race, and however late a request comes to the map with its
\* hash, the calls of a session whose second is over are never forgotten
THEOREM CallsKept == Spec => SettledSessionsLast
<1>1. ASSUME TypeInv, [Next]_vars
      PROVE  [\A h \in Hash : up /\ Settled(h) => Settled(h)' /\ incs[h] <= incs'[h]]_vars
      BY <1>1, SettledStep, CallsStep
<1> QED BY TypeInit, TypeStep, <1>1, PTL DEF Spec, SettledSessionsLast

-----------------------------------------------------------------------------
(***************************************************************************)
(* One server thread.  The module has an object exactly between the        *)
(* statement that makes it and the one that deletes it, and it is the only *)
(* object there is.                                                        *)
(***************************************************************************)

OneThread == \E t \in Threads : Threads = {t}

ObjectInv ==
    /\ ~misuse
    /\ NoLeak
    /\ \A t \in Threads :
        /\ pc[t] \in {"execute", "extract", "save", "delete"}
              => session # None /\ heap[session] # None
        /\ pc[t] \in {"idle", "find", "create", "put", "load", "init", "set"} => session = None
        /\ pc[t] = "null" => \A a \in Addrs : heap[a] = None

LEMMA ObjectStep ==
    ASSUME OneThread, TypeInv, ObjectInv, [Next]_vars PROVE ObjectInv'
<1>1. PICK t \in Threads : Threads = {t}
      BY DEF OneThread
<1> USE <1>1, CountType, SentinelAssumption
        DEF TypeInv, TypeOK, ObjectInv, NoLeak, Goto, local, world
<1>2. ASSUME NEW c \in Clients, NEW f \in Calls, Receive(t, c, f) PROVE ObjectInv'
      BY <1>2 DEF Receive
<1>3. ASSUME FindHit(t) \/ FindMiss(t) PROVE ObjectInv'
      BY <1>3 DEF FindHit, FindMiss
<1>4. ASSUME Create(t) \/ PutEmpty(t) PROVE ObjectInv'
      BY <1>4 DEF Create, PutEmpty
<1>5. ASSUME InitSession(t) PROVE ObjectInv'
      BY <1>5 DEF InitSession, Allocate
<1>6. ASSUME Load(t) PROVE ObjectInv'
      BY <1>6 DEF Load
<1>7. ASSUME SetContext(t) PROVE ObjectInv'
  <2>1. ctx[t] \in Count
        BY <1>7 DEF SetContext
  <2>2. PICK n \in Count : n = FloatRound(ctx[t])
        BY <2>1, FloatRoundType, Zenon
  <2>3. Allocate(n)
        BY <1>7, <2>2 DEF SetContext
  <2> QED
      BY <1>7, <2>3 DEF SetContext, Allocate
<1>8. ASSUME Execute(t) PROVE ObjectInv'
      BY <1>8 DEF Execute
<1>9. ASSUME ExecuteInc(t) PROVE ObjectInv'
  <2>1. session \in Addrs /\ heap[session] \in Count
        BY <1>9 DEF ExecuteInc
  <2>2. AtMost(heap[session] + 1, FloatExact + 1) \in Count
        BY <2>1, FloatAssumption DEF AtMost, Count
  <2>3. PICK n \in Count : n = AtMost(heap[session] + 1, FloatExact + 1)
        BY <2>2, Zenon
  <2>4. heap' = [heap EXCEPT ![session] = n]
        BY <1>9, <2>3 DEF ExecuteInc
  <2> QED
      BY <1>9, <2>1, <2>4 DEF ExecuteInc
<1>10. ASSUME Extract(t) PROVE ObjectInv'
      BY <1>10 DEF Extract
<1>11. ASSUME ReadFreed(t) PROVE ObjectInv'
      BY <1>11 DEF ReadFreed
<1>12. ASSUME Save(t) PROVE ObjectInv'
      BY <1>12 DEF Save
<1>13. ASSUME Delete(t) PROVE ObjectInv'
      BY <1>13 DEF Delete
<1>14. ASSUME Reset(t) PROVE ObjectInv'
      BY <1>14 DEF Reset
<1>15. ASSUME Die(t) PROVE ObjectInv'
      BY <1>15 DEF Die, NullDereference, DoubleFree
<1>16. CASE Restart
      BY <1>16 DEF Restart, NoObjects, AllIdle
<1>17. CASE Tick
      BY <1>17 DEF Tick
<1>18. ASSUME NEW c \in Clients, Forget(c) PROVE ObjectInv'
      BY <1>18 DEF Forget
<1>19. CASE UNCHANGED vars
      BY <1>19 DEF vars
<1>20. \A u \in Threads : u = t
      OBVIOUS
<1> HIDE DEF TypeInv, TypeOK, ObjectInv, NoLeak, Goto, local, world
<1> QED
    BY <1>2, <1>3, <1>4, <1>5, <1>6, <1>7, <1>8, <1>9, <1>10, <1>11, <1>12, <1>13,
       <1>14, <1>15, <1>16, <1>17, <1>18, <1>19, <1>20 DEF Next, Proceed

\* One server thread never uses a null or freed session object
THEOREM OneThreadNoMisuse == ASSUME OneThread PROVE Spec => []NoMisuse
<1>1. Init => ObjectInv
      BY SentinelAssumption DEF Init, ObjectInv, NoLeak, NoObjects, AllIdle
<1>2. ObjectInv => NoMisuse
      BY DEF ObjectInv, NoMisuse
<1> QED BY TypeInit, TypeStep, ObjectStep, <1>1, <1>2, PTL DEF Spec

\* One server thread leaves no session object behind
THEOREM OneThreadNoLeak == ASSUME OneThread PROVE Spec => []NoLeak
<1>1. Init => ObjectInv
      BY SentinelAssumption DEF Init, ObjectInv, NoLeak, NoObjects, AllIdle
<1>2. ObjectInv => NoLeak
      BY DEF ObjectInv
<1> QED BY TypeInit, TypeStep, ObjectStep, <1>1, <1>2, PTL DEF Spec

-----------------------------------------------------------------------------
(***************************************************************************)
(* One server thread.  The counter of a session is in the map between its  *)
(* requests, in the object while a request executes, and in the context    *)
(* between extract and save; wherever it is, it agrees with the calls that *)
(* were made, up to what a float carries.                                  *)
(***************************************************************************)

Agree(n, m) == AtMost(n, FloatExact) = AtMost(m, FloatExact)

Busy(h) == \E t \in Threads : hash[t] = h /\ pc[t] \in {"init", "execute", "extract", "save"}

CountInv ==
    /\ \A h \in Hash :
        sessions[h] # None /\ ~Busy(h) => sessions[h] # Empty /\ Agree(sessions[h], incs[h])
    /\ \A t \in Threads :
        /\ pc[t] \in {"idle", "find", "create", "put", "init", "load", "set"} => reply[t].n = None
        /\ pc[t] = "init" => incs[hash[t]] = 0
        /\ pc[t] = "load" => hash[t] = req[t].cookie
        /\ pc[t] = "set" => sessions[hash[t]] # None /\ ctx[t] = sessions[hash[t]]
        /\ pc[t] = "execute" => heap[session] <= FloatExact /\ reply[t].n = None
        /\ pc[t] \in {"execute", "extract"} => Agree(heap[session], incs[hash[t]])
        /\ pc[t] = "save" => Agree(ctx[t], incs[hash[t]])
        /\ reply[t].n # None => reply[t].n = AtMost(incs[hash[t]] - 1, FloatExact)

\* Reading a counter through a float keeps it, up to the float's precision
LEMMA FloatAgrees ==
    \A n \in Count : FloatRound(n) <= FloatExact /\ Agree(FloatRound(n), n)
BY FloatAssumption DEF FloatRound, AtMost, Agree, Count

\* inc on a counter that agrees with the calls made
LEMMA IncAgrees ==
    ASSUME NEW v \in Count, NEW m \in Count, v <= FloatExact, Agree(v, m)
    PROVE  /\ AtMost(v + 1, FloatExact + 1) \in Count
           /\ AtMost(m + 1, FloatExact + 1) \in Count
           /\ v = AtMost(AtMost(m + 1, FloatExact + 1) - 1, FloatExact)
           /\ Agree(AtMost(v + 1, FloatExact + 1), AtMost(m + 1, FloatExact + 1))
BY FloatAssumption DEF AtMost, Agree, Count

LEMMA CountStep ==
    ASSUME OneThread, TypeInv, ObjectInv, EmptyInv, CountInv, [Next]_vars PROVE CountInv'
<1>1. PICK t \in Threads : Threads = {t}
      BY DEF OneThread
<1> DEFINE h == hash[t]
<1> USE <1>1, CountType, SentinelAssumption
        DEF TypeInv, TypeOK, Serving, CountInv, Busy, Goto, local, world
<1>2. ASSUME NEW c \in Clients, NEW f \in Calls, Receive(t, c, f) PROVE CountInv'
      BY <1>2 DEF Receive
<1>3. ASSUME FindHit(t) PROVE CountInv'
      BY <1>3 DEF FindHit, Known
<1>4. ASSUME FindMiss(t) PROVE CountInv'
      BY <1>4 DEF FindMiss
<1>5. ASSUME PutEmpty(t) PROVE CountInv'
  <2>1. /\ h \in Hash
        /\ sessions' = [sessions EXCEPT ![h] = Empty]
        /\ incs' = [incs EXCEPT ![h] = 0]
        BY <1>5 DEF PutEmpty
  <2>2. /\ pc[t] = "put" /\ pc' = [pc EXCEPT ![t] = "init"]
        /\ UNCHANGED <<heap, session, hash, ctx, reply, req>>
        BY <1>5 DEF PutEmpty
  <2>3. ASSUME NEW g \in Hash, g # h
        PROVE  sessions'[g] = sessions[g] /\ incs'[g] = incs[g] /\ ~Busy(g)
        BY <2>1, <2>2, <2>3
  <2>4. Busy(h)'
        BY <2>1, <2>2
  <2> QED
      BY <2>1, <2>2, <2>3, <2>4
<1>22. ASSUME Create(t) PROVE CountInv'
  <2>1. /\ pc[t] = "create" /\ pc' = [pc EXCEPT ![t] = "put"]
        /\ UNCHANGED <<sessions, heap, session, ctx, reply, req, incs>>
        BY <1>22 DEF Create
  <2>2. \A g \in Hash : ~Busy(g)
        BY <2>1
  <2> QED
      BY <2>1, <2>2
<1>6. ASSUME InitSession(t) PROVE CountInv'
      BY <1>6, FloatAssumption DEF InitSession, Allocate, Agree
<1>7. ASSUME Load(t) PROVE CountInv'
      BY <1>7 DEF Load
<1>8. ASSUME SetContext(t) PROVE CountInv'
  <2>1. ctx[t] \in Count /\ h \in Hash /\ Agree(ctx[t], incs[h])
        BY <1>8 DEF SetContext
  <2>2. PICK n \in Count : n = FloatRound(ctx[t])
        BY <2>1, FloatRoundType, Zenon
  <2>3. n <= FloatExact /\ Agree(n, incs[h])
        BY <2>1, <2>2, FloatAgrees DEF Agree
  <2>4. PICK a \in Addrs : heap' = [heap EXCEPT ![a] = n] /\ session' = a
        BY <1>8, <2>2 DEF SetContext, Allocate
  <2>5. heap'[session'] = n
        BY <2>4
  <2>6. /\ pc[t] = "set" /\ pc' = [pc EXCEPT ![t] = "execute"]
        /\ UNCHANGED <<sessions, hash, ctx, reply, req, incs>>
        BY <1>8 DEF SetContext
  <2>7. Agree(heap'[session'], incs'[hash'[t]])
        BY <2>3, <2>5, <2>6
  <2> QED
      BY <2>3, <2>5, <2>6, <2>7
<1>9. ASSUME Execute(t) PROVE CountInv'
      BY <1>9 DEF Execute
<1>10. ASSUME ExecuteInc(t) PROVE CountInv'
  <2> DEFINE v == heap[session]
             m == incs[h]
  <2>1. /\ h \in Hash /\ session \in Addrs
        /\ v \in Count /\ m \in Count /\ v <= FloatExact /\ Agree(v, m)
        BY <1>10 DEF ExecuteInc
  <2>2. /\ v = AtMost(AtMost(m + 1, FloatExact + 1) - 1, FloatExact)
        /\ Agree(AtMost(v + 1, FloatExact + 1), AtMost(m + 1, FloatExact + 1))
        BY <2>1, IncAgrees
  <2>3. /\ heap'[session'] = AtMost(v + 1, FloatExact + 1)
        /\ incs'[h] = AtMost(m + 1, FloatExact + 1)
        /\ reply'[t].n = v
        BY <1>10, <2>1 DEF ExecuteInc
  <2>4. /\ pc[t] = "execute" /\ pc' = [pc EXCEPT ![t] = "extract"]
        /\ \A g \in Hash : g # h => incs'[g] = incs[g]
        /\ UNCHANGED <<sessions, hash, ctx, req>>
        BY <1>10 DEF ExecuteInc
  <2>5. /\ Agree(heap'[session'], incs'[hash'[t]])
        /\ reply'[t].n = AtMost(incs'[hash'[t]] - 1, FloatExact)
        BY <2>2, <2>3, <2>4
  <2> HIDE DEF v, m
  <2> QED
      BY <2>4, <2>5
<1>11. ASSUME Extract(t) PROVE CountInv'
      BY <1>11 DEF Extract
<1>12. ASSUME ReadFreed(t) PROVE FALSE
      BY <1>12 DEF ReadFreed, ObjectInv
<1>13. ASSUME Save(t) PROVE CountInv'
      BY <1>13 DEF Save, EmptyInv
<1>14. ASSUME Delete(t) PROVE CountInv'
      BY <1>14 DEF Delete
<1>15. ASSUME Reset(t) PROVE CountInv'
      BY <1>15 DEF Reset, NoReply
<1>16. ASSUME Die(t) PROVE CountInv'
      BY <1>16 DEF Die
<1>17. CASE Restart
      BY <1>17 DEF Restart, NoSessions, AllIdle, NoReply
<1>18. CASE Tick
      BY <1>18 DEF Tick
<1>19. ASSUME NEW c \in Clients, Forget(c) PROVE CountInv'
      BY <1>19 DEF Forget
<1>20. CASE UNCHANGED vars
      BY <1>20 DEF vars
<1>21. \A u \in Threads : u = t
      OBVIOUS
<1> HIDE DEF TypeInv, TypeOK, Serving, CountInv, Busy, Goto, local, world
<1> QED
    BY <1>2, <1>3, <1>4, <1>5, <1>6, <1>7, <1>8, <1>9, <1>10, <1>11, <1>12, <1>13,
       <1>14, <1>15, <1>16, <1>17, <1>18, <1>19, <1>20, <1>21, <1>22 DEF Next, Proceed

LEMMA CountInit == Init => CountInv
BY SentinelAssumption DEF Init, CountInv, NoSessions, AllIdle, NoReply

\* One server thread answers the calls of a session 0, 1, 2, ...
THEOREM OneThreadRepliesCount == ASSUME OneThread PROVE Spec => []RepliesCount
<1>1. Init => ObjectInv
      BY SentinelAssumption DEF Init, ObjectInv, NoLeak, NoObjects, AllIdle
<1>2. Init => EmptyInv
      BY SentinelAssumption DEF Init, EmptyInv, EmptyOnlyWhileCreated, NoSessions, AllIdle
<1>3. CountInv => RepliesCount
      BY DEF CountInv, RepliesCount
<1> QED
    BY TypeInit, TypeStep, ObjectStep, EmptyStep, CountInit, CountStep, <1>1, <1>2, <1>3, PTL
    DEF Spec

\* Between the requests of one server thread every session holds its calls
THEOREM OneThreadStoredContext == ASSUME OneThread PROVE Spec => []StoredContext
<1>1. Init => ObjectInv
      BY SentinelAssumption DEF Init, ObjectInv, NoLeak, NoObjects, AllIdle
<1>2. Init => EmptyInv
      BY SentinelAssumption DEF Init, EmptyInv, EmptyOnlyWhileCreated, NoSessions, AllIdle
<1>3. CountInv => StoredContext
      BY DEF CountInv, StoredContext, Busy, Agree
<1> QED
    BY TypeInit, TypeStep, ObjectStep, EmptyStep, CountInit, CountStep, <1>1, <1>2, <1>3, PTL
    DEF Spec

-----------------------------------------------------------------------------
\* What the map holds while a request of the session runs: what the object was made of

LoadedInv ==
    \A t \in Threads :
        /\ pc[t] = "init" => sessions[hash[t]] = Empty
        /\ pc[t] = "execute" =>
            /\ sessions[hash[t]] # None
            /\ heap[session] = IF sessions[hash[t]] = Empty THEN 0
                               ELSE AtMost(sessions[hash[t]], FloatExact)
        /\ pc[t] \in {"extract", "save"} => sessions[hash[t]] # None

LEMMA LoadedInit == Init => LoadedInv
BY DEF Init, LoadedInv, AllIdle

\* A counter a float has carried
LEMMA FloatIs == \A n \in Count : FloatRound(n) = AtMost(n, FloatExact)
BY FloatAssumption DEF FloatRound, AtMost, Count

LEMMA LoadedStep ==
    ASSUME OneThread, TypeInv, ObjectInv, EmptyInv, CountInv, LoadedInv, [Next]_vars
    PROVE  LoadedInv'
<1>1. PICK t \in Threads : Threads = {t}
      BY DEF OneThread
<1> USE <1>1, CountType, SentinelAssumption
        DEF TypeInv, TypeOK, Serving, LoadedInv, Goto, local, world
<1>2. ASSUME NEW c \in Clients, NEW f \in Calls, Receive(t, c, f) PROVE LoadedInv'
      BY <1>2 DEF Receive
<1>3. ASSUME FindHit(t) \/ FindMiss(t) PROVE LoadedInv'
      BY <1>3 DEF FindHit, FindMiss
<1>4. ASSUME Create(t) \/ PutEmpty(t) PROVE LoadedInv'
  <2>1. CASE Create(t)
        BY <2>1 DEF Create
  <2>2. CASE PutEmpty(t)
    <3>1. /\ hash[t] \in Hash /\ hash' = hash
          /\ sessions' = [sessions EXCEPT ![hash[t]] = Empty] /\ pc'[t] = "init"
          BY <2>2 DEF PutEmpty
    <3> QED BY <3>1
  <2> QED BY <1>4, <2>1, <2>2
<1>5. ASSUME InitSession(t) PROVE LoadedInv'
  <2>1. sessions[hash[t]] = Empty /\ UNCHANGED <<sessions, hash>> /\ pc'[t] = "execute"
        BY <1>5 DEF InitSession
  <2>2. heap'[session'] = 0
        BY <1>5 DEF InitSession, Allocate
  <2> QED BY <2>1, <2>2
<1>6. ASSUME Load(t) PROVE LoadedInv'
      BY <1>6 DEF Load
<1>7. ASSUME SetContext(t) PROVE LoadedInv'
  <2>1. /\ ctx[t] \in Count /\ sessions[hash[t]] # None /\ ctx[t] = sessions[hash[t]]
        /\ UNCHANGED <<sessions, hash>> /\ pc'[t] = "execute"
        BY <1>7 DEF SetContext, CountInv
  <2>2. PICK n \in Count : n = FloatRound(ctx[t])
        BY <2>1, FloatRoundType, Zenon
  <2>3. n = AtMost(ctx[t], FloatExact)
        BY <2>1, <2>2, FloatIs, Zenon
  <2>4. heap'[session'] = n
        BY <1>7, <2>2 DEF SetContext, Allocate
  <2> QED BY <2>1, <2>3, <2>4
<1>8. ASSUME Execute(t) PROVE LoadedInv'
      BY <1>8 DEF Execute
<1>9. ASSUME ExecuteInc(t) PROVE LoadedInv'
      BY <1>9 DEF ExecuteInc
<1>10. ASSUME Extract(t) PROVE LoadedInv'
      BY <1>10 DEF Extract
<1>11. ASSUME ReadFreed(t) PROVE FALSE
      BY <1>11 DEF ReadFreed, ObjectInv
<1>12. ASSUME Save(t) \/ Delete(t) PROVE LoadedInv'
      BY <1>12 DEF Save, Delete
<1>13. ASSUME Reset(t) PROVE LoadedInv'
      BY <1>13 DEF Reset
<1>14. ASSUME Die(t) PROVE LoadedInv'
      BY <1>14 DEF Die
<1>15. CASE Restart
      BY <1>15 DEF Restart, AllIdle
<1>16. CASE Tick
      BY <1>16 DEF Tick
<1>17. ASSUME NEW c \in Clients, Forget(c) PROVE LoadedInv'
      BY <1>17 DEF Forget
<1>18. CASE UNCHANGED vars
      BY <1>18 DEF vars
<1>19. \A u \in Threads : u = t
      OBVIOUS
<1> HIDE DEF TypeInv, TypeOK, Serving, LoadedInv, Goto, local, world
<1> QED
    BY <1>2, <1>3, <1>4, <1>5, <1>6, <1>7, <1>8, <1>9, <1>10, <1>11, <1>12, <1>13,
       <1>14, <1>15, <1>16, <1>17, <1>18, <1>19 DEF Next, Proceed

-----------------------------------------------------------------------------
\* The counters and the answers, with the one thread t

One(t, h) ==
    IF sessions[h] = None THEN None
    ELSE IF hash[t] = h /\ pc[t] = "extract" THEN AtMost(heap[session], FloatExact)
    ELSE IF hash[t] = h /\ pc[t] = "save" THEN AtMost(ctx[t], FloatExact)
    ELSE IF sessions[h] = Empty THEN 0
    ELSE AtMost(sessions[h], FloatExact)

Answers ==
    {[session |-> hash[t], n |-> reply[t].n] : t \in {u \in Threads : reply[u].n # None}}

LEMMA OneIs ==
    ASSUME NEW t \in Threads, Threads = {t}, NEW h
    PROVE  CountOf(h) = One(t, h) /\ CountOf(h)' = One(t, h)'
<1>1. hash[t] = h /\ pc[t] = "save" => (CHOOSE u \in Threads : hash[u] = h /\ pc[u] = "save") = t
      OBVIOUS
<1>2. hash'[t] = h /\ pc'[t] = "save"
        => (CHOOSE u \in Threads : hash'[u] = h /\ pc'[u] = "save") = t
      OBVIOUS
<1> QED BY <1>1, <1>2 DEF CountOf, One

LEMMA AnswersAre ==
    ASSUME NEW t \in Threads, Threads = {t}
    PROVE  /\ reply[t].n = None => Answers = {}
           /\ reply[t].n # None => Answers = {[session |-> hash[t], n |-> reply[t].n]}
           /\ reply'[t].n = None => Answers' = {}
           /\ reply'[t].n # None => Answers' = {[session |-> hash'[t], n |-> reply'[t].n]}
BY DEF Answers

-----------------------------------------------------------------------------
\* The steps

RefinementInv == TypeInv /\ ObjectInv /\ EmptyInv /\ CountInv /\ LoadedInv

\* A step that shows neither in a counter nor in an answer
Unseen(t) == (\A h \in Hash : One(t, h)' = One(t, h)) /\ Answers' = Answers

LEMMA UnseenStep ==
    ASSUME NEW t \in Threads, Threads = {t}, RefinementInv,
           \/ \E c \in Clients, f \in Calls : Receive(t, c, f)
           \/ FindHit(t) \/ FindMiss(t) \/ Create(t) \/ InitSession(t) \/ Load(t) \/ SetContext(t)
           \/ Execute(t) \/ Extract(t) \/ Save(t) \/ Delete(t) \/ Die(t)
           \/ Tick \/ (\E c \in Clients : Forget(c)) \/ UNCHANGED vars
    PROVE  Unseen(t)
<1> USE CountType, SentinelAssumption
<1>1. /\ TypeInv /\ ObjectInv /\ CountInv /\ LoadedInv
      /\ hash[t] \in Hash \cup {None} /\ None \notin Hash
      BY DEF RefinementInv, TypeInv, TypeOK
<1>2. \A u : reply[t].n = None /\ reply'[t].n = None => Answers' = Answers
      BY AnswersAre
<1>3. UNCHANGED <<reply, hash>> => Answers' = Answers
      BY DEF Answers
<1>4. ASSUME NEW c \in Clients, NEW f \in Calls, Receive(t, c, f) PROVE Unseen(t)
  <2>1. /\ pc[t] = "idle" /\ pc'[t] = "find" /\ UNCHANGED <<sessions, session, heap, hash, ctx, reply>>
        BY <1>1, <1>4 DEF Receive, Goto, TypeInv, TypeOK
  <2> QED BY <1>3, <2>1 DEF Unseen, One
<1>5. CASE FindHit(t)
  <2>1. /\ pc[t] = "find" /\ pc'[t] = "load" /\ UNCHANGED <<sessions, session, heap, ctx, reply>>
        BY <1>1, <1>5 DEF FindHit, Goto, TypeInv, TypeOK
  <2>2. reply[t].n = None
        BY <1>1, <2>1 DEF CountInv
  <2> QED BY <1>2, <2>1, <2>2 DEF Unseen, One
<1>6. CASE FindMiss(t)
  <2>1. /\ pc[t] = "find" /\ pc'[t] = "create" /\ UNCHANGED <<sessions, session, heap, hash, ctx, reply>>
        BY <1>1, <1>6 DEF FindMiss, Goto, TypeInv, TypeOK, local
  <2> QED BY <1>3, <2>1 DEF Unseen, One
<1>7. CASE InitSession(t) \/ SetContext(t)
  <2>1. /\ pc[t] \in {"init", "set"} /\ pc'[t] = "execute" /\ UNCHANGED <<sessions, hash, ctx, reply>>
        BY <1>1, <1>7 DEF InitSession, SetContext, Goto, TypeInv, TypeOK, local
  <2> QED BY <1>3, <2>1 DEF Unseen, One
<1>8. CASE Load(t)
  <2>1. /\ pc[t] = "load" /\ pc'[t] = "set" /\ UNCHANGED <<sessions, session, heap, hash, reply>>
        BY <1>1, <1>8 DEF Load, Goto, TypeInv, TypeOK
  <2> QED BY <1>3, <2>1 DEF Unseen, One
<1>9. CASE Execute(t)
  <2>1. /\ pc[t] = "execute" /\ pc'[t] = "extract" /\ UNCHANGED <<sessions, session, heap, hash, ctx>>
        /\ reply' = [reply EXCEPT ![t].code = IF req[t].call = "error" THEN 400 ELSE 200]
        BY <1>1, <1>9 DEF Execute, Goto, TypeInv, TypeOK
  <2>2. reply'[t].n = reply[t].n /\ reply[t].n = None
        BY <1>1, <2>1 DEF TypeInv, TypeOK, CountInv
  <2>3. heap[session] <= FloatExact /\ session \in Addrs /\ heap[session] \in Count
        BY <1>1, <2>1 DEF TypeInv, TypeOK, CountInv, ObjectInv
  <2>4. AtMost(heap[session], FloatExact) = heap[session]
        BY <2>3 DEF AtMost
  <2>5. \A h \in Hash : One(t, h)' = One(t, h)
        BY <1>1, <2>1, <2>4 DEF LoadedInv, One
  <2> QED BY <1>2, <2>2, <2>5 DEF Unseen
<1>10. CASE Extract(t)
  <2>1. /\ pc[t] = "extract" /\ pc'[t] = "save" /\ UNCHANGED <<sessions, hash, reply>>
        /\ ctx'[t] = heap[session]
        BY <1>1, <1>10 DEF Extract, Goto, TypeInv, TypeOK
  <2> QED BY <1>3, <2>1 DEF Unseen, One
<1>11. CASE Save(t)
  <2>1. /\ pc[t] = "save" /\ pc'[t] = "delete" /\ UNCHANGED <<heap, session, hash, ctx, reply>>
        /\ sessions' = [sessions EXCEPT ![hash[t]] = ctx[t]]
        BY <1>1, <1>11 DEF Save, Goto, TypeInv, TypeOK, local
  <2>2. hash[t] \in Hash /\ ctx[t] \in Count /\ sessions[hash[t]] # None
        BY <1>1, <1>11, <2>1 DEF TypeInv, TypeOK, Serving, LoadedInv, RefinementInv, EmptyInv
  <2>3. /\ sessions'[hash[t]] = ctx[t]
        /\ \A h \in Hash : h # hash[t] => sessions'[h] = sessions[h]
        BY <1>1, <2>1, <2>2 DEF TypeInv, TypeOK
  <2>4. ctx[t] # None /\ ctx[t] # Empty
        BY <2>2
  <2> QED BY <1>3, <2>1, <2>2, <2>3, <2>4 DEF Unseen, One
<1>12. CASE Delete(t)
  <2>1. /\ pc[t] = "delete" /\ pc'[t] = "null" /\ UNCHANGED <<sessions, hash, ctx, reply>>
        BY <1>1, <1>12 DEF Delete, Goto, TypeInv, TypeOK, local
  <2> QED BY <1>3, <2>1 DEF Unseen, One
<1>13. CASE Die(t) \/ Tick \/ (\E c \in Clients : Forget(c)) \/ UNCHANGED vars
  <2>1. UNCHANGED <<sessions, session, heap, pc, hash, ctx, reply>>
        BY <1>13 DEF Die, Tick, Forget, vars, local, world
  <2> QED BY <1>3, <2>1 DEF Unseen, One
<1>14. CASE Create(t)
  <2>1. /\ pc[t] = "create" /\ pc'[t] = "put" /\ UNCHANGED <<sessions, session, heap, ctx, reply>>
        BY <1>1, <1>14 DEF Create, Goto, TypeInv, TypeOK
  <2>2. reply[t].n = None
        BY <1>1, <2>1 DEF CountInv
  <2> QED BY <1>2, <2>1, <2>2 DEF Unseen, One
<1> QED BY <1>4, <1>5, <1>6, <1>7, <1>8, <1>9, <1>10, <1>11, <1>12, <1>13, <1>14

\* The empty context of a new hash opens a session
LEMMA PutOpens ==
    ASSUME NEW t \in Threads, Threads = {t}, RefinementInv, PutEmpty(t)
    PROVE  \E new \in Hash : /\ \A h \in Hash : One(t, h)' = IF h = new THEN 0 ELSE One(t, h)
                             /\ Answers' = Answers
<1>1. /\ TypeInv /\ CountInv /\ hash[t] \in Hash \cup {None} /\ Empty # None
      BY SentinelAssumption DEF RefinementInv, TypeInv, TypeOK
<1>2. PICK new \in Hash : new = hash[t] /\ sessions' = [sessions EXCEPT ![new] = Empty]
      BY <1>1 DEF PutEmpty, TypeInv, TypeOK, Serving, Goto
<1>3. /\ pc[t] = "put" /\ pc'[t] = "init" /\ UNCHANGED <<session, heap, hash, ctx, reply>>
      BY <1>1 DEF PutEmpty, Goto, TypeInv, TypeOK, local
<1>4. /\ sessions'[new] = Empty
      /\ \A h \in Hash : h # new => sessions'[h] = sessions[h]
      BY <1>1, <1>2 DEF TypeInv, TypeOK
<1>5. \A h \in Hash : One(t, h)' = IF h = new THEN 0 ELSE One(t, h)
      BY <1>1, <1>3, <1>4 DEF One
<1>6. reply[t].n = None /\ reply'[t].n = None
      BY <1>1, <1>3 DEF CountInv
<1> QED BY <1>5, <1>6, AnswersAre

\* A call of inc answers with the counter and increments it
LEMMA ExecuteIncCounts ==
    ASSUME NEW t \in Threads, Threads = {t}, RefinementInv, ExecuteInc(t)
    PROVE  \E g \in Hash :
              /\ One(t, g) # None
              /\ \A h \in Hash : One(t, h)' =
                    IF h = g THEN IF One(t, g) < FloatExact THEN One(t, g) + 1 ELSE One(t, g)
                    ELSE One(t, h)
              /\ Answers' = Answers \cup {[session |-> g, n |-> One(t, g)]}
<1> DEFINE g == hash[t]
           v == heap[session]
<1>1. /\ TypeInv /\ CountInv /\ LoadedInv /\ CountType
      BY CountType DEF RefinementInv
<1>2. /\ pc[t] = "execute" /\ pc'[t] = "extract" /\ UNCHANGED <<sessions, session, hash, ctx>>
      /\ reply' = [reply EXCEPT ![t] = [code |-> 200, n |-> v]]
      /\ heap' = [heap EXCEPT ![session] = AtMost(v + 1, FloatExact + 1)]
      BY <1>1 DEF ExecuteInc, Goto, TypeInv, TypeOK
<1>3. g \in Hash /\ session \in Addrs /\ v \in Nat /\ v <= FloatExact /\ v # None
  <2>1. session # None /\ v # None
        BY DEF ExecuteInc
  <2>2. g \in Hash /\ session \in Addrs /\ v \in Count
        BY <1>1, <1>2, <2>1 DEF TypeInv, TypeOK, Serving
  <2>3. v <= FloatExact
        BY <1>1, <1>2 DEF CountInv
  <2> QED BY <2>1, <2>2, <2>3, CountType
<1>4. heap'[session'] = v + 1 /\ reply'[t].n = v /\ reply[t].n = None
  <2>1. AtMost(v + 1, FloatExact + 1) = v + 1
        BY <1>3, FloatAssumption DEF AtMost
  <2>2. heap'[session'] = v + 1
        BY <1>1, <1>2, <1>3, <2>1 DEF TypeInv, TypeOK
  <2>3. reply'[t].n = v
        BY <1>1, <1>2 DEF TypeInv, TypeOK
  <2> QED BY <1>1, <1>2, <2>2, <2>3 DEF CountInv
<1>5. One(t, g) = v /\ sessions[g] # None
      BY <1>1, <1>2 DEF LoadedInv, One
<1>6. \A h \in Hash : h = g => One(t, h)' = IF v < FloatExact THEN v + 1 ELSE v
  <2>1. \A h \in Hash : h = g => One(t, h)' = AtMost(v + 1, FloatExact)
        BY <1>2, <1>4, <1>5 DEF One
  <2> QED BY <1>3, <2>1, FloatAssumption DEF AtMost
<1>7. \A h \in Hash : h # g => One(t, h)' = One(t, h)
      BY <1>2 DEF One
<1>8. Answers = {} /\ Answers' = {[session |-> g, n |-> v]}
      BY <1>2, <1>3, <1>4, AnswersAre
<1>9. /\ One(t, g) # None
      /\ \A h \in Hash : One(t, h)' =
            IF h = g THEN IF One(t, g) < FloatExact THEN One(t, g) + 1 ELSE One(t, g)
            ELSE One(t, h)
      /\ Answers' = Answers \cup {[session |-> g, n |-> One(t, g)]}
      BY <1>3, <1>5, <1>6, <1>7, <1>8
<1> HIDE DEF g
<1> QED BY <1>3, <1>9

\* The reply is sent
LEMMA ResetDelivers ==
    ASSUME NEW t \in Threads, Threads = {t}, RefinementInv, Reset(t)
    PROVE  /\ \A h \in Hash : One(t, h)' = One(t, h)
           /\ Answers' = Answers \/ \E a \in Answers : Answers' = Answers \ {a}
<1>1. /\ TypeInv /\ hash[t] \in Hash \cup {None} /\ None \notin Hash
      BY CountType DEF RefinementInv, TypeInv, TypeOK
<1>2. /\ pc[t] = "null" /\ pc'[t] = "idle" /\ UNCHANGED <<sessions, heap>>
      /\ reply'[t].n = None
      BY <1>1 DEF Reset, Goto, TypeInv, TypeOK, NoReply
<1>3. \A h \in Hash : One(t, h)' = One(t, h)
      BY <1>2 DEF One
<1>4. Answers' = {}
      BY <1>2, AnswersAre
<1>5. Answers = {} \/ \E a : Answers = {a}
      BY AnswersAre
<1> QED BY <1>3, <1>4, <1>5

\* A restart closes every session
LEMMA RestartStops ==
    ASSUME NEW t \in Threads, Threads = {t}, Restart
    PROVE  (\A h \in Hash : One(t, h)' = None) /\ Answers' = {}
<1>1. sessions' = NoSessions /\ reply'[t].n = None
      BY DEF Restart, NoReply
<1> QED BY <1>1, AnswersAre DEF One, NoSessions

LEMMA StoreStep ==
    ASSUME OneThread, RefinementInv, [Next]_vars
    PROVE  [Store!StoreNext]_(Store!storeVars)
<1>1. PICK t \in Threads : Threads = {t}
      BY DEF OneThread
<1> DEFINE C == [h \in Hash |-> CountOf(h)]
<1>2. /\ C = [h \in Hash |-> One(t, h)]
      /\ C' = [h \in Hash |-> One(t, h)']
  <2>1. \A h : CountOf(h) = One(t, h) /\ CountOf(h)' = One(t, h)'
        BY <1>1, OneIs
  <2> QED BY <2>1
<1> HIDE DEF C
<1>3. CASE Unseen(t)
  <2>1. C' = C /\ Answers' = Answers
        BY <1>2, <1>3 DEF Unseen
  <2> QED BY <2>1 DEF Store!storeVars, C, Answers
<1>4. CASE PutEmpty(t)
  <2>1. PICK new \in Hash : /\ \A h \in Hash : One(t, h)' = IF h = new THEN 0 ELSE One(t, h)
                            /\ Answers' = Answers
        BY <1>1, <1>4, PutOpens
  <2>2. C' = [C EXCEPT ![new] = 0]
        BY <1>2, <2>1
  <2>3. Store!Open(new)
        BY <2>1, <2>2 DEF Store!Open, C, Answers
  <2> QED BY <2>3 DEF Store!StoreNext
<1>5. CASE ExecuteInc(t)
  <2>1. PICK g \in Hash :
              /\ One(t, g) # None
              /\ \A h \in Hash : One(t, h)' =
                    IF h = g THEN IF One(t, g) < FloatExact THEN One(t, g) + 1 ELSE One(t, g)
                    ELSE One(t, h)
              /\ Answers' = Answers \cup {[session |-> g, n |-> One(t, g)]}
        BY <1>1, <1>5, ExecuteIncCounts
  <2>2. /\ C[g] = One(t, g)
        /\ C' = [C EXCEPT ![g] = IF C[g] < FloatExact THEN C[g] + 1 ELSE C[g]]
        BY <1>2, <2>1
  <2>3. /\ C[g] # None /\ Answers' = Answers \cup {[session |-> g, n |-> C[g]]}
        BY <2>1, <2>2
  <2>4. Store!Inc(g)
        BY <2>2, <2>3 DEF Store!Inc, C, Answers
  <2> QED BY <2>4 DEF Store!StoreNext
<1>6. CASE Reset(t)
  <2>1. C' = C
        BY <1>1, <1>2, <1>6, ResetDelivers
  <2>2. CASE Answers' = Answers
        BY <2>1, <2>2 DEF Store!storeVars, C, Answers
  <2>3. CASE \E a \in Answers : Answers' = Answers \ {a}
    <3>1. PICK a \in Answers : Answers' = Answers \ {a}
          BY <2>3
    <3>2. Store!Deliver(a)
          BY <2>1, <3>1 DEF Store!Deliver, C, Answers
    <3> QED BY <3>1, <3>2 DEF Store!StoreNext, Answers
  <2> QED BY <1>1, <1>6, <2>2, <2>3, ResetDelivers
<1>7. CASE Restart
  <2>1. C' = [h \in Hash |-> None] /\ Answers' = {}
        BY <1>1, <1>2, <1>7, RestartStops
  <2>2. Store!Stop
        BY <2>1 DEF Store!Stop, C, Answers
  <2> QED BY <2>2 DEF Store!StoreNext
<1>8. ~ReadFreed(t)
      BY <1>1 DEF ReadFreed, ObjectInv, RefinementInv, Goto
<1>9. \A u \in Threads : u = t
      BY <1>1
<1> QED
    BY <1>1, <1>3, <1>4, <1>5, <1>6, <1>7, <1>8, <1>9, UnseenStep DEF Next, Proceed

LEMMA StoreBegins == ASSUME OneThread, Init PROVE Store!StoreInit
<1>1. PICK t \in Threads : Threads = {t}
      BY DEF OneThread
<1>2. \A h \in Hash : CountOf(h) = None
      BY DEF Init, CountOf, NoSessions
<1>3. Answers = {}
  <2>1. reply[t].n = None
        BY DEF Init, NoReply
  <2> QED BY <1>1, <2>1, AnswersAre
<1> QED BY <1>2, <1>3 DEF Store!StoreInit, Answers

\* With one server thread proceed implements the counters the README promises: every
\* inc answers once with the counter of its own session, no call is lost, no session
\* touches another, and a restart closes them all
THEOREM OneThreadImplementsStore == ASSUME OneThread PROVE Spec => ImplementsSessionStore
<1>1. Init => RefinementInv
  <2> SUFFICES ASSUME Init PROVE RefinementInv
      OBVIOUS
  <2>1. ObjectInv
        BY SentinelAssumption DEF Init, ObjectInv, NoLeak, NoObjects, AllIdle
  <2>2. EmptyInv
        BY SentinelAssumption DEF Init, EmptyInv, EmptyOnlyWhileCreated, NoSessions, AllIdle
  <2> QED BY <2>1, <2>2, TypeInit, CountInit, LoadedInit DEF RefinementInv
<1>2. RefinementInv /\ [Next]_vars => RefinementInv'
      BY TypeStep, ObjectStep, EmptyStep, CountStep, LoadedStep DEF RefinementInv
<1>3. Init => Store!StoreInit
      BY StoreBegins
<1>4. RefinementInv /\ [Next]_vars => [Store!StoreNext]_(Store!storeVars)
      BY StoreStep
<1> QED BY <1>1, <1>2, <1>3, <1>4, PTL DEF Spec, ImplementsSessionStore, Store!StoreSpec
=============================================================================
