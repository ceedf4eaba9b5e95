--------------------------- MODULE MCWaitObjects ---------------------------
(***************************************************************************)
(* WaitObjects for TLC: two threads that fight for an event and both       *)
(* listen to a waitable, one before and one after the event.               *)
(***************************************************************************)
EXTENDS WaitObjects

CONSTANTS t1, t2, a, ev

MCThreads == {t1, t2}

MCWaitables == {a}

MCObjects == [t \in MCThreads |-> IF t = t1 THEN <<ev, a>> ELSE <<a, ev>>]

\* For the run on one question: both threads listen to a alone.
SharedObjects == [t \in MCThreads |-> <<a>>]
=============================================================================
