-------------------------- MODULE SessionRefinement --------------------------
(***************************************************************************)
(* With one server thread, the load - execute - extract - save protocol of *)
(* module_session_service::proceed implements the atomic counters of       *)
(* SessionStore.                                                           *)
(***************************************************************************)
EXTENDS SessionService

CountOf(h) ==
    IF sessions[h] = None THEN None
    ELSE IF \E t \in Threads : hash[t] = h /\ pc[t] = "extract"
         THEN AtMost(heap[session], FloatExact)
    ELSE IF \E t \in Threads : hash[t] = h /\ pc[t] = "save"
         THEN AtMost(ctx[CHOOSE t \in Threads : hash[t] = h /\ pc[t] = "save"], FloatExact)
    ELSE IF sessions[h] = Empty THEN 0
    ELSE AtMost(sessions[h], FloatExact)

Store == INSTANCE SessionStore WITH
    Session <- Hash,
    Most    <- FloatExact,
    Closed  <- None,
    count   <- [h \in Hash |-> CountOf(h)],
    answers <- {[session |-> hash[t], n |-> reply[t].n] :
                    t \in {u \in Threads : reply[u].n # None}}

\* One thread serves every session as if inc were atomic: no inc is lost or
\* answered twice, and no request changes a session it does not belong to
ImplementsSessionStore == Store!StoreSpec
=============================================================================
