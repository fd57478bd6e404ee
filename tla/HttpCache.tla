------------------------------ MODULE HttpCache ------------------------------
(***************************************************************************)
(* default_service::proceed and the http_cache it asks (http_cache.cpp):   *)
(* files are read from disk for every request, and a body whose hash was   *)
(* sent less than EXPIRE_TIME seconds ago is answered "304 Not Modified"   *)
(* without a body, whoever asks and whatever copy he holds.                *)
(*                                                                         *)
(* Every engine has a default_service, and a cache, of its own; an engine  *)
(* serves one request at a time.  Files change and clients come and go     *)
(* between any two statements of proceed, and the clock may tick between   *)
(* any two of its calls of time().  Moments are kept as the seconds left   *)
(* until them, so the clock needs no bound.                                *)
(***************************************************************************)
EXTENDS Integers

CONSTANTS
    Clients,  \* browsers, each with a copy of what it was sent
    Urls,     \* the files of htdocs
    Bodies,   \* contents a file can have
    Hashes,   \* values of http_hash::hash
    HashOf,   \* HashOf[b]: the hash of body b
    Expire,   \* EXPIRE_TIME
    Year,     \* the seconds between a date and the same date of another year
    None      \* no copy, no entry, no client

ASSUME HashAssumption == HashOf \in [Bodies -> Hashes]
ASSUME ExpireAssumption == Expire \in Nat
ASSUME YearAssumption == Year \in Nat /\ Expire < Year
ASSUME NoneAssumption == None \notin Int /\ None \notin Bodies

VARIABLES
    file,    \* what realpath, the authorized paths and the disk say of each URL
    entries, \* _map: seconds until expires_time, -1 when it has passed
    pc,      \* the statement proceed is about to execute
    req,     \* the client and the URL of the request
    body,    \* _body_reply
    reply,   \* the code of the reply, the seconds until its Expires header, and how
             \* many years that header is off
    copy,    \* the copy each client holds of each URL
    missed,  \* observation: seconds since hit last decided to send this hash whole
    sent     \* observation: seconds since a whole body of this hash was made up

vars == <<file, entries, pc, req, body, reply, copy, missed, sent>>
observed == <<missed, sent>>

-----------------------------------------------------------------------------

NoFile == {"missing", "outside"}
Steps  == {"idle", "resolve", "read", "hit", "add", "headers", "deliver", "down"}
Codes  == {200, 304, 401, 404}
Left   == -1..Expire
Dates  == -1..(Expire + Year)

\* "%G" is the year the week of a date belongs to: up to three days after New
\* Year it may still be the last one, up to three days before it the next one
OffBy  == {-1, 0, 1}

TypeOK ==
    /\ file \in [Urls -> Bodies \cup NoFile]
    /\ entries \in [Hashes -> Left \cup {None}]
    /\ pc \in Steps
    /\ req \in [client : Clients \cup {None}, url : Urls]
    /\ body \in Bodies \cup {None}
    /\ reply \in [code : Codes, left : Dates, off : OffBy]
    /\ copy \in [Clients -> [Urls -> Bodies \cup {None}]]
    /\ missed \in [Hashes -> 0..(Expire + 1)]
    /\ sent \in [Hashes -> 0..(Expire + 1)]

NoEntries == [h \in Hashes |-> None]
LongAgo   == [h \in Hashes |-> Expire + 1]
Nothing   == [code |-> 404, left |-> -1, off |-> 0]
NotModified == [Nothing EXCEPT !.code = 304]

Init ==
    /\ file \in [Urls -> Bodies \cup NoFile]
    /\ entries = NoEntries
    /\ pc = "idle"
    /\ req \in [client : {None}, url : Urls]
    /\ body = None
    /\ reply = Nothing
    /\ copy = [c \in Clients |-> [u \in Urls |-> None]]
    /\ missed = LongAgo /\ sent = LongAgo

-----------------------------------------------------------------------------
\* proceed

Receive(c, u) ==
    /\ pc = "idle"
    /\ pc' = "resolve"
    /\ req' = [client |-> c, url |-> u]
    /\ UNCHANGED <<file, entries, body, reply, copy, observed>>

\* resolve and files::exists fail: 404; validate_security fails: 401
Refuse ==
    /\ pc = "resolve"
    /\ file[req.url] \in NoFile
    /\ pc' = "deliver"
    /\ reply' = [Nothing EXCEPT !.code = IF file[req.url] = "outside" THEN 401 ELSE 404]
    /\ UNCHANGED <<file, entries, req, body, copy, observed>>

Resolve ==
    /\ pc = "resolve"
    /\ file[req.url] \in Bodies
    /\ pc' = "read"
    /\ UNCHANGED <<file, entries, req, body, reply, copy, observed>>

\* files::get_file_contents of a file that is still there
ReadFile ==
    /\ pc = "read"
    /\ file[req.url] \in Bodies
    /\ pc' = "hit"
    /\ body' = file[req.url]
    /\ UNCHANGED <<file, entries, req, reply, copy, observed>>

\* get_file_contents throws errno, and nothing catches it
ReadThrows ==
    /\ pc = "read"
    /\ file[req.url] \in NoFile
    /\ pc' = "down"
    /\ UNCHANGED <<file, entries, req, body, reply, copy, observed>>

Hash == HashOf[body]
Live(h) == entries[h] # None /\ entries[h] >= 0

\* Mutant: an entry that has expired still hits
HitForEver ==
    /\ pc = "hit"
    /\ entries[Hash] # None
    /\ pc' = "deliver"
    /\ reply' = NotModified
    /\ UNCHANGED <<file, entries, req, body, copy, observed>>

\* Mutant: a hit makes the entry last EXPIRE_TIME more
HitRefreshes ==
    /\ pc = "hit"
    /\ Live(Hash)
    /\ pc' = "deliver"
    /\ reply' = NotModified
    /\ entries' = [entries EXCEPT ![Hash] = Expire]
    /\ UNCHANGED <<file, req, body, copy, observed>>

\* hit finds an entry with expires_time >= rawtime
Hit ==
    /\ pc = "hit"
    /\ Live(Hash)
    /\ pc' = "deliver"
    /\ reply' = NotModified
    /\ UNCHANGED <<file, entries, req, body, copy, observed>>

\* Mutant: an entry is dropped in the second it expires, not after it
MissAtExpiry ==
    /\ pc = "hit"
    /\ ~(Live(Hash) /\ entries[Hash] > 0)
    /\ pc' = "add"
    /\ entries' = [entries EXCEPT ![Hash] = None]
    /\ missed' = [missed EXCEPT ![Hash] = 0]
    /\ UNCHANGED <<file, req, body, reply, copy, sent>>

\* No entry, or an expired one, which hit erases
Miss ==
    /\ pc = "hit"
    /\ ~Live(Hash)
    /\ pc' = "add"
    /\ entries' = [entries EXCEPT ![Hash] = None]
    /\ missed' = [missed EXCEPT ![Hash] = 0]
    /\ UNCHANGED <<file, req, body, reply, copy, sent>>

Add ==
    /\ pc = "add"
    /\ pc' = "headers"
    /\ entries' = [entries EXCEPT ![Hash] = Expire]
    /\ UNCHANGED <<file, req, body, reply, copy, observed>>

\* formattime: the second EXPIRE_TIME from now, in the year of its week.  A date
\* that has passed is -1.
Expires(off) == IF off = -1 THEN -1 ELSE Expire + off * Year

\* Mutant: Expires is taken from the time of an earlier statement
SetHeadersEarly ==
    \E off \in OffBy :
        /\ pc = "headers"
        /\ pc' = "deliver"
        /\ reply' = [code |-> 200, off |-> off, left |-> IF off = 0 THEN Expire - 1 ELSE Expires(off)]
        /\ sent' = [sent EXCEPT ![Hash] = 0]
        /\ UNCHANGED <<file, entries, req, body, copy, missed>>

\* Etag, Date, Expires and Cache-Control, on any day of the year
SetHeaders ==
    \E off \in OffBy :
        /\ pc = "headers"
        /\ pc' = "deliver"
        /\ reply' = [code |-> 200, off |-> off, left |-> Expires(off)]
        /\ sent' = [sent EXCEPT ![Hash] = 0]
        /\ UNCHANGED <<file, entries, req, body, copy, missed>>

-----------------------------------------------------------------------------
\* The environment

\* The client gets the reply, keeps the body of a 200 and its copy on a 304
Deliver ==
    /\ pc = "deliver"
    /\ pc' = "idle"
    /\ copy' = CASE reply.code = 200 -> [copy EXCEPT ![req.client][req.url] = body]
                 [] reply.code = 304 -> copy
                 [] OTHER            -> [copy EXCEPT ![req.client][req.url] = None]
    /\ req' = [req EXCEPT !.client = None]
    /\ body' = None
    /\ reply' = Nothing
    /\ UNCHANGED <<file, entries, observed>>

\* The connection ends before the reply is through; write's result is ignored
Lose ==
    /\ pc = "deliver"
    /\ pc' = "idle"
    /\ req' = [req EXCEPT !.client = None]
    /\ body' = None
    /\ reply' = Nothing
    /\ UNCHANGED <<file, entries, copy, observed>>

\* The process starts again after an exception, with an empty cache
Restart ==
    /\ pc = "down"
    /\ pc' = "idle"
    /\ entries' = NoEntries
    /\ req' = [req EXCEPT !.client = None]
    /\ body' = None
    /\ reply' = Nothing
    /\ missed' = LongAgo /\ sent' = LongAgo
    /\ UNCHANGED <<file, copy>>

\* Somebody edits, removes or restores a file
Edit(u, b) ==
    /\ file' = [file EXCEPT ![u] = b]
    /\ file' # file
    /\ UNCHANGED <<entries, pc, req, body, reply, copy, observed>>

\* A browser empties its cache
Forget(c) ==
    /\ copy' = [copy EXCEPT ![c] = [u \in Urls |-> None]]
    /\ copy' # copy
    /\ UNCHANGED <<file, entries, pc, req, body, reply, observed>>

Sooner(n) == IF n = None \/ n < 0 THEN n ELSE n - 1

Later(n)  == IF n > Expire THEN n ELSE n + 1

Tick ==
    /\ entries' = [h \in Hashes |-> Sooner(entries[h])]
    /\ reply' = [reply EXCEPT !.left = Sooner(@)]
    /\ missed' = [h \in Hashes |-> Later(missed[h])]
    /\ sent' = [h \in Hashes |-> Later(sent[h])]
    /\ UNCHANGED <<file, pc, req, body, copy>>

Ask == \E c \in Clients, u \in Urls : Receive(c, u)
Server ==
    \/ Refuse \/ Resolve \/ ReadFile \/ ReadThrows
    \/ Hit \/ Miss \/ Add \/ SetHeaders
Environment ==
    \/ Ask \/ Deliver \/ Lose \/ Restart \/ Tick
    \/ \E u \in Urls, b \in Bodies \cup NoFile : Edit(u, b)
    \/ \E c \in Clients : Forget(c)

Next == Server \/ Environment

Spec == Init /\ [][Next]_vars

\* The server thread runs, time passes, the operator restarts a server that is
\* down, the clients keep asking, and not every connection breaks
FairSpec ==
    /\ Spec
    /\ WF_vars(Server) /\ WF_vars(Tick) /\ WF_vars(Restart)
    /\ WF_vars(Ask) /\ WF_vars(Deliver \/ Lose) /\ SF_vars(reply.code = 200 /\ Deliver)

-----------------------------------------------------------------------------
(***************************************************************************)
(* Properties                                                              *)
(***************************************************************************)

\* A 304 is decided only for a body that was sent whole, by this process, in
\* the EXPIRE_TIME seconds before: an expired entry, or one of an earlier
\* process, never withholds a file
NotModifiedIsRecent ==
    [][pc = "hit" /\ reply'.code = 304 => sent[Hash] <= Expire]_vars

\* In one process, a body is sent whole at most once in any EXPIRE_TIME seconds
FullOncePerWindow ==
    [][pc = "hit" /\ pc' = "add" => missed[Hash] > Expire]_vars

\* Unless its week still belongs to the year before, when it is a year in the
\* past, the Expires header of a body never lies before the end of its entry,
\* wherever the clock ticks in between: a browser that asks again after Expires
\* finds no entry left of the answer it was given
HeaderOutlivesEntry ==
    pc = "deliver" /\ reply.code = 200 /\ reply.off # -1 => entries[Hash] <= reply.left

\* If a file changes no more and its only client keeps asking, the client has
\* the file again and again, although answers were lost, its cache was emptied
\* and 304 answered while it had no copy
CopyHeals ==
    \A c \in Clients, u \in Urls, b \in Bodies :
        <>[](file[u] = b) => []<>(copy[c][u] = b)
=============================================================================
