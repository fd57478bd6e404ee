----------------------------- MODULE SessionStore -----------------------------
(***************************************************************************)
(* What the README promises as "JSON Session Context", for the counter of  *)
(* module_context: every open session owns one counter, a call of inc      *)
(* answers with it and increments it in one step, and touches no other     *)
(* session.  A counter stops at Most.  Stopping the server closes every    *)
(* session.                                                                *)
(***************************************************************************)
EXTENDS Integers

CONSTANTS
    Session,  \* the names a session can have
    Most,     \* the last value a counter takes
    Closed    \* the counter of a session that is not open

VARIABLES
    count,    \* the counter of each session
    answers   \* answers of inc on their way to a client

storeVars == <<count, answers>>

StoreInit ==
    /\ count = [s \in Session |-> Closed]
    /\ answers = {}

Open(s) ==
    /\ count' = [count EXCEPT ![s] = 0]
    /\ UNCHANGED answers

Inc(s) ==
    /\ count[s] # Closed
    /\ answers' = answers \cup {[session |-> s, n |-> count[s]]}
    /\ count' = [count EXCEPT ![s] = IF @ < Most THEN @ + 1 ELSE @]

Deliver(a) ==
    /\ answers' = answers \ {a}
    /\ UNCHANGED count

Stop ==
    /\ count' = [s \in Session |-> Closed]
    /\ answers' = {}

StoreNext ==
    \/ \E s \in Session : Open(s) \/ Inc(s)
    \/ \E a \in answers : Deliver(a)
    \/ Stop

StoreSpec == StoreInit /\ [][StoreNext]_storeVars
=============================================================================
