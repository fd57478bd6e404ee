--------------------------- MODULE HttpCacheProofs ---------------------------
(***************************************************************************)
(* Theorems about HttpCache for every number of browsers, files, contents  *)
(* and hashes, however hashes collide, and every EXPIRE_TIME shorter than a *)
(* year.                                                                   *)
(***************************************************************************)
EXTENDS HttpCache, TLAPS

\* What proceed knows of its request at each statement
Serving ==
    /\ pc \in {"hit", "add", "headers"} => body \in Bodies
    /\ pc = "deliver" /\ reply.code = 200 => body \in Bodies
    /\ pc \notin {"idle", "down"} => req.client \in Clients
    /\ pc # "deliver" => reply.code = 404

TypeInv == TypeOK /\ Serving

\* From add to the reply the entry of the body is there, and it does not
\* outlast an Expires header that is not of the year before
HeaderInv ==
    /\ pc = "headers" => entries[Hash] \in Left
    /\ pc = "deliver" /\ reply.code = 200 =>
        entries[Hash] \in Left /\ (reply.off # -1 => entries[Hash] <= reply.left)

\* An entry that is not over was made with a body that was sent whole, except
\* between add and the headers of that body
RecentInv ==
    \A h \in Hashes :
        Live(h) /\ ~(pc = "headers" /\ h = Hash) => sent[h] + entries[h] <= Expire

\* A body sent whole in the window before has an entry that covers the window,
\* except between hit and add
WindowInv ==
    \A h \in Hashes :
        missed[h] <= Expire =>
            \/ pc = "add" /\ h = Hash
            \/ entries[h] # None /\ missed[h] + entries[h] >= Expire

-----------------------------------------------------------------------------
(***************************************************************************)
(* The clock                                                               *)
(***************************************************************************)

LEMMA SoonerLeft ==
    /\ \A n \in Left : Sooner(n) \in Left /\ Sooner(n) <= n
    /\ \A n \in Left : n >= 0 => Sooner(n) = n - 1
    /\ \A n \in Left : n < 0 => Sooner(n) = n
    /\ \A m, n \in Left : m <= n => Sooner(m) <= Sooner(n)
    /\ \A n \in Dates : Sooner(n) \in Dates
    /\ \A m \in Left, n \in Dates : m <= n => Sooner(m) <= Sooner(n)
    /\ Sooner(None) = None
    /\ None \notin Left /\ None \notin Bodies
BY ExpireAssumption, YearAssumption, NoneAssumption DEF Sooner, Left, Dates

\* What formattime writes is a date, and of the three years it can give it only
\* the year before lies before EXPIRE_TIME from now
LEMMA ExpiresDate ==
    \A off \in OffBy : Expires(off) \in Dates /\ (off # -1 => Expire <= Expires(off))
BY ExpireAssumption, YearAssumption DEF OffBy, Expires, Dates

LEMMA LaterAge ==
    /\ \A n \in 0..(Expire + 1) : Later(n) \in 0..(Expire + 1) /\ n <= Later(n)
    /\ \A n \in 0..(Expire + 1) : n <= Expire => Later(n) = n + 1
    /\ \A n \in 0..(Expire + 1) : n > Expire => Later(n) = n
BY ExpireAssumption DEF Later

LEMMA NothingType == Nothing \in [code : Codes, left : Dates, off : OffBy] /\ Nothing.code = 404
BY ExpireAssumption, YearAssumption DEF Nothing, Codes, Dates, OffBy

LEMMA HashType == \A b \in Bodies : HashOf[b] \in Hashes
BY HashAssumption

-----------------------------------------------------------------------------
(***************************************************************************)
(* Types                                                                   *)
(***************************************************************************)

LEMMA TypeInit == Init => TypeInv
<1> SUFFICES ASSUME Init PROVE TypeInv
    OBVIOUS
<1>1. Serving
      BY DEF Init, Serving, Nothing
<1>2. TypeOK
      BY ExpireAssumption, YearAssumption
      DEF Init, TypeOK, NoEntries, LongAgo, Nothing, Steps, Codes, Dates, OffBy
<1> QED
    BY <1>1, <1>2 DEF TypeInv

\* Every step keeps the types, and what proceed knows of its request
LEMMA TypeStep == TypeInv /\ [Next]_vars => TypeInv'
<1> SUFFICES ASSUME TypeInv, [Next]_vars PROVE TypeInv'
    OBVIOUS
<1> USE ExpireAssumption, HashType, SoonerLeft DEF TypeInv, TypeOK, Serving, Steps, observed
<1>1. ASSUME NEW c \in Clients, NEW u \in Urls, Receive(c, u) PROVE TypeInv'
      BY <1>1 DEF Receive
<1>2. CASE Refuse
      BY <1>2, NothingType DEF Refuse, Codes
<1>3. CASE Resolve
      BY <1>3 DEF Resolve
<1>4. CASE ReadFile
      BY <1>4 DEF ReadFile
<1>5. CASE ReadThrows
      BY <1>5 DEF ReadThrows
<1>6. CASE Hit
      BY <1>6, NothingType DEF Hit, NotModified, Codes
<1>7. CASE Miss
      BY <1>7 DEF Miss, Hash
<1>8. CASE Add
      BY <1>8 DEF Add, Hash, Left
<1>9. CASE SetHeaders
      BY <1>9, ExpiresDate DEF SetHeaders, Hash, Codes
<1>10. CASE Deliver
  <2>1. copy' \in [Clients -> [Urls -> Bodies \cup {None}]]
        BY <1>10 DEF Deliver
  <2> QED
      BY <1>10, <2>1, NothingType DEF Deliver
<1>11. CASE Lose
      BY <1>11, NothingType DEF Lose
<1>12. CASE Restart
      BY <1>12, NothingType DEF Restart, NoEntries, LongAgo, Codes
<1>13. CASE Tick
  <2>1. /\ entries' \in [Hashes -> Left \cup {None}]
        /\ reply' \in [code : Codes, left : Dates, off : OffBy]
        /\ reply'.code = reply.code
        BY <1>13 DEF Tick
  <2>2. missed' \in [Hashes -> 0..(Expire + 1)] /\ sent' \in [Hashes -> 0..(Expire + 1)]
        BY <1>13, LaterAge DEF Tick
  <2> QED
      BY <1>13, <2>1, <2>2 DEF Tick
<1>14. ASSUME NEW u \in Urls, NEW b \in Bodies \cup NoFile, Edit(u, b) PROVE TypeInv'
      BY <1>14 DEF Edit
<1>15. ASSUME NEW c \in Clients, Forget(c) PROVE TypeInv'
      BY <1>15 DEF Forget
<1>16. CASE UNCHANGED vars
      BY <1>16 DEF vars
<1> QED
    BY <1>1, <1>2, <1>3, <1>4, <1>5, <1>6, <1>7, <1>8, <1>9, <1>10, <1>11, <1>12, <1>13,
       <1>14, <1>15, <1>16 DEF Next, Server, Environment, Ask

LEMMA TypeAlways == Spec => []TypeInv
BY TypeInit, TypeStep, PTL DEF Spec

\* The cache, the replies and the browsers are always well typed: what a file
\* or a clock does at any statement never leaves an entry or a header out of range
THEOREM TypeCorrect == Spec => []TypeOK
<1>1. TypeInv => TypeOK
      BY DEF TypeInv
<1> QED
    BY <1>1, TypeAlways, PTL

-----------------------------------------------------------------------------
(***************************************************************************)
(* The Expires header                                                      *)
(***************************************************************************)

LEMMA HeaderStep == TypeInv /\ HeaderInv /\ [Next]_vars => HeaderInv'
<1> SUFFICES ASSUME TypeInv, HeaderInv, [Next]_vars PROVE HeaderInv'
    OBVIOUS
<1> USE ExpireAssumption, HashType, SoonerLeft
    DEF TypeInv, TypeOK, Serving, HeaderInv, Hash, observed
<1>1. ASSUME NEW c \in Clients, NEW u \in Urls, Receive(c, u) PROVE HeaderInv'
      BY <1>1 DEF Receive
<1>2. CASE Refuse
      BY <1>2, NothingType DEF Refuse
<1>3. CASE Resolve \/ ReadThrows
      BY <1>3 DEF Resolve, ReadThrows
<1>4. CASE ReadFile
      BY <1>4 DEF ReadFile
<1>5. CASE Hit \/ Miss
      BY <1>5, NothingType DEF Hit, NotModified, Miss
<1>6. CASE Add
      BY <1>6 DEF Add, Left
<1>7. CASE SetHeaders
  <2>1. PICK off \in OffBy : reply' = [code |-> 200, off |-> off, left |-> Expires(off)]
        BY <1>7 DEF SetHeaders
  <2>2. entries' = entries /\ body' = body /\ entries[Hash] \in Left /\ entries[Hash] <= Expire
        BY <1>7 DEF SetHeaders, Left
  <2>3. pc' = "deliver" /\ reply'.off = off /\ reply'.left = Expires(off)
        BY <1>7, <2>1 DEF SetHeaders
  <2> QED
      BY <2>2, <2>3, ExpiresDate DEF Left, Dates
<1>8. CASE Deliver \/ Lose \/ Restart
      BY <1>8 DEF Deliver, Lose, Restart
<1>9. CASE Tick
  <2>1. ASSUME pc' = "headers" PROVE entries'[Hash'] \in Left
    <3>1. Hash \in Hashes /\ entries[Hash] \in Left
          BY <1>9, <2>1 DEF Tick
    <3>2. entries'[Hash'] = Sooner(entries[Hash])
          BY <1>9, <3>1 DEF Tick
    <3> QED
        BY <3>1, <3>2
  <2>2. ASSUME pc' = "deliver", reply'.code = 200
        PROVE  entries'[Hash'] \in Left /\ (reply'.off # -1 => entries'[Hash'] <= reply'.left)
    <3>1. /\ Hash \in Hashes /\ entries[Hash] \in Left /\ reply.left \in Dates
          /\ reply.off # -1 => entries[Hash] <= reply.left
          BY <1>9, <2>2 DEF Tick
    <3>2. /\ entries'[Hash'] = Sooner(entries[Hash]) /\ reply'.left = Sooner(reply.left)
          /\ reply'.off = reply.off
          BY <1>9, <3>1 DEF Tick
    <3> QED
        BY <3>1, <3>2
  <2> QED
      BY <2>1, <2>2
<1>10. CASE \E u \in Urls, b \in Bodies \cup NoFile : Edit(u, b)
      BY <1>10 DEF Edit
<1>11. CASE \E c \in Clients : Forget(c)
      BY <1>11 DEF Forget
<1>12. CASE UNCHANGED vars
      BY <1>12 DEF vars
<1> QED
    BY <1>1, <1>2, <1>3, <1>4, <1>5, <1>6, <1>7, <1>8, <1>9, <1>10, <1>11, <1>12
    DEF Next, Server, Environment, Ask

\* Whoever asks again after the Expires header of his copy finds no entry left
\* of the answer he was given, wherever the clock ticked while it was made,
\* unless the header was written in the year before
THEOREM HeadersAgree == Spec => []HeaderOutlivesEntry
<1>1. Init => HeaderInv
      BY DEF Init, HeaderInv
<1>2. HeaderInv => HeaderOutlivesEntry
      BY DEF HeaderInv, HeaderOutlivesEntry
<1> QED
    BY <1>1, <1>2, HeaderStep, TypeAlways, PTL DEF Spec

-----------------------------------------------------------------------------
(***************************************************************************)
(* When a 304 is answered                                                  *)
(***************************************************************************)

LEMMA RecentStep == TypeInv /\ RecentInv /\ [Next]_vars => RecentInv'
<1> SUFFICES ASSUME TypeInv, RecentInv, [Next]_vars, NEW h \in Hashes,
                    Live(h)', ~(pc = "headers" /\ h = Hash)'
             PROVE  (sent[h] + entries[h] <= Expire)'
    BY DEF RecentInv
<1> USE ExpireAssumption, HashType, SoonerLeft
    DEF TypeInv, TypeOK, Serving, RecentInv, Hash, Live, observed
<1>1. ASSUME NEW c \in Clients, NEW u \in Urls, Receive(c, u)
      PROVE  (sent[h] + entries[h] <= Expire)'
      BY <1>1 DEF Receive
<1>2. CASE Refuse \/ Resolve \/ ReadThrows \/ ReadFile
      BY <1>2 DEF Refuse, Resolve, ReadThrows, ReadFile
<1>3. CASE Hit
      BY <1>3 DEF Hit
<1>4. CASE Miss
      BY <1>4 DEF Miss
<1>5. CASE Add
      BY <1>5 DEF Add
<1>6. CASE SetHeaders
  <2>1. CASE h = Hash
        BY <1>6, <2>1 DEF SetHeaders, Left
  <2>2. CASE h # Hash
        BY <1>6, <2>2 DEF SetHeaders
  <2> QED
      BY <2>1, <2>2
<1>7. CASE Deliver \/ Lose
      BY <1>7 DEF Deliver, Lose
<1>8. CASE Restart
      BY <1>8 DEF Restart, NoEntries
<1>9. CASE Tick
  <2>1. entries'[h] = Sooner(entries[h]) /\ sent'[h] = Later(sent[h])
        BY <1>9 DEF Tick
  <2>2. entries[h] \in Left /\ entries'[h] = entries[h] - 1 /\ Live(h)
        BY <2>1 DEF Sooner, Left
  <2>3. sent[h] + entries[h] <= Expire
        BY <1>9, <2>2 DEF Tick
  <2> QED
      BY <2>1, <2>2, <2>3, LaterAge DEF Left
<1>10. CASE \E u \in Urls, b \in Bodies \cup NoFile : Edit(u, b)
      BY <1>10 DEF Edit
<1>11. CASE \E c \in Clients : Forget(c)
      BY <1>11 DEF Forget
<1>12. CASE UNCHANGED vars
      BY <1>12 DEF vars
<1> QED
    BY <1>1, <1>2, <1>3, <1>4, <1>5, <1>6, <1>7, <1>8, <1>9, <1>10, <1>11, <1>12
    DEF Next, Server, Environment, Ask

\* Every 304 is answered for a body that was sent whole, by this process, in the
\* EXPIRE_TIME seconds before, whatever contents share its hash
THEOREM HitsAreRecent == Spec => NotModifiedIsRecent
<1>1. Init => RecentInv
      BY DEF Init, RecentInv, Live, NoEntries
<1>2. TypeInv /\ RecentInv /\ [Next]_vars => [pc = "hit" /\ reply'.code = 304 => sent[Hash] <= Expire]_vars
  <2> SUFFICES ASSUME TypeInv, RecentInv, Next, pc = "hit", reply'.code = 304
               PROVE  sent[Hash] <= Expire
      OBVIOUS
  <2>1. CASE Hit
    <3>1. Hash \in Hashes /\ Live(Hash) /\ pc # "headers"
          BY <2>1, HashType DEF Hit, TypeInv, Serving, Hash
    <3>2. sent[Hash] \in 0..(Expire + 1) /\ entries[Hash] \in Left
          BY <3>1 DEF TypeInv, TypeOK, Live
    <3> QED
        BY <3>1, <3>2, ExpireAssumption DEF RecentInv, Live, Left
  <2>2. CASE ~Hit
    <3>1. reply.code = 404
          BY DEF TypeInv, Serving
    <3>2. reply'.code = reply.code
          BY <2>2 DEF Next, Server, Environment, Ask, Receive, Refuse, Resolve, ReadFile,
                      ReadThrows, Miss, Add, SetHeaders, Deliver, Lose, Restart, Tick, Edit,
                      Forget, TypeInv, TypeOK
    <3> QED
        BY <3>1, <3>2
  <2> QED
      BY <2>1, <2>2
<1> QED
    BY <1>1, <1>2, RecentStep, TypeAlways, PTL DEF Spec, NotModifiedIsRecent

-----------------------------------------------------------------------------
(***************************************************************************)
(* How often a body is sent whole                                          *)
(***************************************************************************)

LEMMA WindowStep == TypeInv /\ WindowInv /\ [Next]_vars => WindowInv'
<1> DEFINE Covered(h) ==
        \/ pc = "add" /\ h = Hash
        \/ entries[h] # None /\ missed[h] + entries[h] >= Expire
<1> SUFFICES ASSUME TypeInv, WindowInv, [Next]_vars, NEW h \in Hashes, (missed[h] <= Expire)'
             PROVE  Covered(h)'
    BY DEF WindowInv
<1> USE ExpireAssumption, HashType, SoonerLeft
    DEF TypeInv, TypeOK, Serving, WindowInv, Hash, observed
<1>1. ASSUME NEW c \in Clients, NEW u \in Urls, Receive(c, u) PROVE Covered(h)'
      BY <1>1 DEF Receive
<1>2. CASE Refuse \/ Resolve \/ ReadThrows \/ ReadFile
      BY <1>2 DEF Refuse, Resolve, ReadThrows, ReadFile
<1>3. CASE Hit
      BY <1>3 DEF Hit
<1>4. CASE Miss
      BY <1>4 DEF Miss
<1>5. CASE Add
  <2>1. CASE h = Hash
        BY <1>5, <2>1 DEF Add, Left
  <2>2. CASE h # Hash
        BY <1>5, <2>2 DEF Add
  <2> QED
      BY <2>1, <2>2
<1>6. CASE SetHeaders
      BY <1>6 DEF SetHeaders
<1>7. CASE Deliver \/ Lose
      BY <1>7 DEF Deliver, Lose
<1>8. CASE Restart
      BY <1>8 DEF Restart, LongAgo
<1>9. CASE Tick
  <2>1. entries'[h] = Sooner(entries[h]) /\ missed'[h] = Later(missed[h])
        BY <1>9 DEF Tick
  <2>2. missed[h] \in 0..(Expire + 1) /\ missed[h] <= Expire /\ missed'[h] = missed[h] + 1
        BY <2>1, LaterAge
  <2>3. CASE pc = "add" /\ h = Hash
        BY <1>9, <2>3 DEF Tick
  <2>4. CASE entries[h] # None /\ missed[h] + entries[h] >= Expire
    <3>1. entries[h] \in Left
          BY <2>4
    <3>2. entries[h] >= 0
          BY <2>1, <2>2, <2>4, <3>1 DEF Left
    <3>3. entries'[h] = entries[h] - 1 /\ entries'[h] # None
          BY <2>1, <3>1, <3>2
    <3> QED
        BY <2>2, <2>4, <3>1, <3>3 DEF Left
  <2> QED
      BY <2>2, <2>3, <2>4
<1>10. CASE \E u \in Urls, b \in Bodies \cup NoFile : Edit(u, b)
      BY <1>10 DEF Edit
<1>11. CASE \E c \in Clients : Forget(c)
      BY <1>11 DEF Forget
<1>12. CASE UNCHANGED vars
      BY <1>12 DEF vars
<1> QED
    BY <1>1, <1>2, <1>3, <1>4, <1>5, <1>6, <1>7, <1>8, <1>9, <1>10, <1>11, <1>12
    DEF Next, Server, Environment, Ask

\* In one process no body is sent whole twice in EXPIRE_TIME seconds
THEOREM BodiesAreSpared == Spec => FullOncePerWindow
<1>1. Init => WindowInv
      BY ExpireAssumption DEF Init, WindowInv, LongAgo
<1>2. TypeInv /\ WindowInv /\ [Next]_vars => [pc = "hit" /\ pc' = "add" => missed[Hash] > Expire]_vars
  <2> SUFFICES ASSUME TypeInv, WindowInv, Next, pc = "hit", pc' = "add"
               PROVE  missed[Hash] > Expire
      OBVIOUS
  <2>1. Miss
        BY DEF Next, Server, Environment, Ask, Receive, Refuse, Resolve, ReadFile, ReadThrows,
               Hit, Add, SetHeaders, Deliver, Lose, Restart, Tick, Edit, Forget
  <2>2. Hash \in Hashes /\ ~Live(Hash)
        BY <2>1, HashType DEF Miss, TypeInv, Serving, Hash
  <2>3. missed[Hash] \in 0..(Expire + 1) /\ entries[Hash] \in Left \cup {None}
        BY <2>2 DEF TypeInv, TypeOK
  <2> QED
      BY <2>2, <2>3, ExpireAssumption DEF WindowInv, Live, Left
<1> QED
    BY <1>1, <1>2, WindowStep, TypeAlways, PTL DEF Spec, FullOncePerWindow
=============================================================================
