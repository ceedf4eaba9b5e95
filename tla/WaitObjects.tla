---------------------------- MODULE WaitObjects ----------------------------
(***************************************************************************)
(* Waiting for several objects at once (src/libnx/wait.cpp, wait.h): a     *)
(* thread waits in one system call for kernel events and, by way of a      *)
(* cancellation of that call, for user-mode objects ("waitables") whose    *)
(* listener lists live on the stacks of the waiting threads.               *)
(*                                                                         *)
(* The kernel (WaitSynchronization, CancelSynchronization, ResetSignal)    *)
(* and the methods of a waitable (beginWait, onSignal, onTimeout, and who  *)
(* signals it) are external; they are modelled from how wait.cpp uses      *)
(* them: as a user-mode event that clears itself when a wait takes it.     *)
(***************************************************************************)
EXTENDS Integers, Sequences, FiniteSets, FiniteSetsExt

CONSTANTS
    Threads, Waitables, Events,
    Objects,        \* Objects[t]: what t waits for, in the order of its array
    AutoClear,      \* the Events waited for as WaiterType_HandleWithClear
    Timers,         \* the Waitables that may ask for an earlier timeout
    Impatient,      \* the Threads that call with a timeout
    SpuriousCas,    \* a weak compare-exchange may fail without reason
    MaxFires,       \* bound: firings of each event and each waitable
    None            \* -1, no index

ASSUME ObjectsAssumption ==
    /\ Objects \in [Threads -> Seq(Waitables \cup Events)]
    /\ Waitables \cap Events = {}
    /\ AutoClear \subseteq Events /\ Timers \subseteq Waitables /\ Impatient \subseteq Threads
    /\ SpuriousCas \in BOOLEAN
    /\ MaxFires \in Nat
    /\ None \notin Threads \cup Waitables \cup Nat

VARIABLES
    pc, index,      \* where each thread is; its loop index
    triggered,      \* triggered_idx, on its stack, written by signallers
    added,          \* waiters_added
    timerIdx,       \* end_tick_idx
    polling,        \* the round was begun with a timeout of 0
    rc, idxOut,     \* the result and *idx_out
    expired,        \* the thread's deadline has passed
    cancel,         \* the kernel's pending cancellation of the thread
    nxt, prv,       \* the links of the listener lists
    signalled,      \* waitables and events that are signalled
    cursor,         \* where _waitableSignalAllListeners is; None if nobody signals
    sending,        \* the thread it is about to cancel, or None
    fires, taken,   \* firings of, and successful waits for, each object
    \* History, read by no action: what two flaws of the code have touched.
    disordered,     \* waitables from whose list another than the first node was removed
    missed          \* nodes passed over by a compare-exchange without reason

own == <<pc, index, triggered, added, timerIdx, polling, rc, idxOut>>
locals == <<added, timerIdx, polling>>
lists == <<nxt, prv, disordered>>
signaller == <<cursor, sending, missed>>
vars == <<pc, index, triggered, added, timerIdx, polling, rc, idxOut, expired, cancel,
          nxt, prv, signalled, cursor, sending, fires, taken, disordered, missed>>

Indices(t) == DOMAIN Objects[t]
Nodes == UNION {{<<t, i>> : i \in Indices(t)} : t \in Threads}

\* A listener node is neither the head of a list nor the mark of a free mutex.
ASSUME NodesAssumption == Nodes \cap (Waitables \cup {None}) = {}

Free(w) == cursor[w] = None         \* w's mutex
Target(t) == Objects[t][index[t]]

Cancelled == "cancelled"    \* 118
TimedOut == "timedOut"      \* 117
Success == "success"

Init ==
    /\ pc = [t \in Threads |-> "idle"]
    /\ index = [t \in Threads |-> 1]
    /\ triggered = [t \in Threads |-> None]
    /\ added = [t \in Threads |-> {}]
    /\ timerIdx = [t \in Threads |-> None]
    /\ polling = [t \in Threads |-> FALSE]
    /\ rc = [t \in Threads |-> Success]
    /\ idxOut = [t \in Threads |-> None]
    /\ expired = [t \in Threads |-> FALSE]
    /\ cancel = [t \in Threads |-> FALSE]
    /\ nxt = [n \in Nodes \cup Waitables |-> n]
    /\ prv = [n \in Nodes \cup Waitables |-> n]
    /\ signalled = {}
    /\ cursor = [w \in Waitables |-> None]
    /\ sending = [w \in Waitables |-> None]
    /\ fires = [o \in Waitables \cup Events |-> 0]
    /\ taken = [o \in Waitables \cup Events |-> 0]
    /\ disordered = {} /\ missed = {}

-----------------------------------------------------------------------------
\* A round of _waitObjectsImpl begins with its locals as declared.
Locals(t, place, poll) ==
    /\ pc' = [pc EXCEPT ![t] = place]
    /\ index' = [index EXCEPT ![t] = 1]
    /\ triggered' = [triggered EXCEPT ![t] = None]
    /\ added' = [added EXCEPT ![t] = {}]
    /\ timerIdx' = [timerIdx EXCEPT ![t] = None]
    /\ polling' = [polling EXCEPT ![t] = poll]
    /\ rc' = [rc EXCEPT ![t] = Success]
    /\ idxOut' = [idxOut EXCEPT ![t] = None]

Call(t) ==
    /\ pc[t] = "idle"
    /\ Locals(t, "begin", FALSE)
    /\ UNCHANGED <<expired, cancel, lists, signalled, signaller, fires, taken>>

RetryFullTimeout(t) ==                      \* mutant: the timeout starts anew
    /\ pc[t] = "cleanUp" /\ added[t] = {} /\ rc[t] = Cancelled
    /\ Locals(t, "begin", FALSE)
    /\ UNCHANGED <<expired, cancel, lists, signalled, signaller, fires, taken>>

\* _waitLoop after a round: only 118 goes round again.
Retry(t) ==
    /\ pc[t] = "cleanUp" /\ added[t] = {} /\ rc[t] = Cancelled
    /\ Locals(t, "begin", expired[t])
    /\ UNCHANGED <<expired, cancel, lists, signalled, signaller, fires, taken>>

Return(t) ==
    /\ pc[t] = "cleanUp" /\ added[t] = {} /\ rc[t] # Cancelled
    /\ Locals(t, "idle", FALSE)
    /\ expired' = [expired EXCEPT ![t] = FALSE]
    /\ UNCHANGED <<cancel, lists, signalled, signaller, fires, taken>>

\* The round ends with result r and index i; the listeners are to be removed.
\* What the round reads no more is put back, which spares TLC states.
EndRound(t, r, i) ==
    /\ pc' = [pc EXCEPT ![t] = "cleanUp"]
    /\ timerIdx' = [timerIdx EXCEPT ![t] = None]
    /\ polling' = [polling EXCEPT ![t] = FALSE]
    /\ rc' = [rc EXCEPT ![t] = r]
    /\ idxOut' = [idxOut EXCEPT ![t] = i]

Take(o) ==
    /\ signalled' = signalled \ {o}
    /\ taken' = [taken EXCEPT ![o] = @ + 1]

-----------------------------------------------------------------------------
\* The loop over the objects.

BeginHandle(t) ==
    /\ pc[t] = "begin" /\ index[t] \in Indices(t) /\ Target(t) \in Events
    /\ index' = [index EXCEPT ![t] = @ + 1]
    /\ UNCHANGED <<pc, triggered, locals, rc, idxOut, expired, cancel,
                   lists, signalled, signaller, fires, taken>>

\* beginWait finds the object signalled and adds no listener.
BeginSignalled(t) ==
    /\ pc[t] = "begin" /\ index[t] \in Indices(t)
    /\ Target(t) \in Waitables \cap signalled /\ Free(Target(t))
    /\ EndRound(t, Success, index[t])
    /\ Take(Target(t))
    /\ UNCHANGED <<index, triggered, added, expired, cancel, lists,
                   signaller, fires>>

\* _waiterNodeAdd
LinkNode(n, w) ==
    /\ nxt' = [nxt EXCEPT ![n] = nxt[w], ![w] = n]
    /\ prv' = [prv EXCEPT ![n] = w]

BeginListenUnchecked(t) ==                  \* mutant: a listener on a signalled object
    /\ pc[t] = "begin" /\ index[t] \in Indices(t)
    /\ Target(t) \in Waitables /\ Free(Target(t))
    /\ LinkNode(<<t, index[t]>>, Target(t))
    /\ added' = [added EXCEPT ![t] = @ \cup {index[t]}]
    /\ index' = [index EXCEPT ![t] = @ + 1]
    /\ UNCHANGED <<pc, triggered, timerIdx, polling, rc, idxOut, expired, cancel,
                   signalled, signaller, fires, taken, disordered>>

BeginListen(t) ==
    /\ pc[t] = "begin" /\ index[t] \in Indices(t)
    /\ Target(t) \in Waitables \ signalled /\ Free(Target(t))
    /\ LinkNode(<<t, index[t]>>, Target(t))
    /\ added' = [added EXCEPT ![t] = @ \cup {index[t]}]
    /\ \/ UNCHANGED timerIdx
       \/ /\ Target(t) \in Timers /\ ~polling[t]
          /\ timerIdx' = [timerIdx EXCEPT ![t] = index[t]]
    /\ index' = [index EXCEPT ![t] = @ + 1]
    /\ UNCHANGED <<pc, triggered, polling, rc, idxOut, expired, cancel, signalled,
                   signaller, fires, taken, disordered>>

BeginDone(t) ==
    /\ pc[t] = "begin" /\ index[t] \notin Indices(t)
    /\ pc' = [pc EXCEPT ![t] = "wait"]
    /\ UNCHANGED <<index, triggered, locals, rc, idxOut, expired, cancel,
                   lists, signalled, signaller, fires, taken>>

-----------------------------------------------------------------------------
\* The system call, and what is done with its result.

Ready(t) == {i \in Indices(t) : Objects[t][i] \in Events \cap signalled}

WaitReady(t) ==
    /\ pc[t] = "wait" /\ Ready(t) # {}
    /\ IF Objects[t][Min(Ready(t))] \in AutoClear
       THEN /\ pc' = [pc EXCEPT ![t] = "clear"]
            /\ idxOut' = [idxOut EXCEPT ![t] = Min(Ready(t))]
            /\ UNCHANGED <<rc, timerIdx, polling>>
       ELSE EndRound(t, Success, Min(Ready(t)))
    /\ UNCHANGED <<index, triggered, added, expired, cancel, lists,
                   signalled, signaller, fires, taken>>

ClearEventAnyway(t) ==                      \* mutant: the 125 is not looked at
    /\ pc[t] = "clear"
    /\ Take(Objects[t][idxOut[t]])
    /\ EndRound(t, Success, idxOut[t])
    /\ UNCHANGED <<index, triggered, added, expired, cancel, lists, signaller, fires>>

\* ResetSignal fails with 125 when another thread has been first; the wait is
\* then to be retried.
ClearEvent(t) ==
    /\ pc[t] = "clear"
    /\ LET e == Objects[t][idxOut[t]]
       IN  IF e \in signalled
           THEN Take(e) /\ EndRound(t, Success, idxOut[t])
           ELSE EndRound(t, Cancelled, idxOut[t]) /\ UNCHANGED <<signalled, taken>>
    /\ UNCHANGED <<index, triggered, added, expired, cancel, lists,
                   signaller, fires>>

WaitTimesOut(t) ==
    /\ pc[t] = "wait" /\ Ready(t) = {}
    /\ IF timerIdx[t] = None
       THEN expired[t] /\ EndRound(t, TimedOut, idxOut[t])
       ELSE pc' = [pc EXCEPT ![t] = "onTimeout"] /\ UNCHANGED <<rc, idxOut, timerIdx, polling>>
    /\ UNCHANGED <<index, triggered, added, expired, cancel, lists,
                   signalled, signaller, fires, taken>>

OnTimeout(t) ==
    /\ pc[t] = "onTimeout" /\ Free(Objects[t][timerIdx[t]])
    /\ \/ EndRound(t, Success, timerIdx[t])
       \/ EndRound(t, Cancelled, idxOut[t])
    /\ UNCHANGED <<index, triggered, added, expired, cancel, lists,
                   signalled, signaller, fires, taken>>

WaitCancelled(t) ==
    /\ pc[t] = "wait" /\ cancel[t]
    /\ cancel' = [cancel EXCEPT ![t] = FALSE]
    /\ IF triggered[t] = None
       THEN EndRound(t, Cancelled, idxOut[t])
       ELSE pc' = [pc EXCEPT ![t] = "onSignal"] /\ UNCHANGED <<rc, idxOut, timerIdx, polling>>
    /\ UNCHANGED <<index, triggered, added, expired, lists, signalled,
                   signaller, fires, taken>>

OnSignal(t) ==
    /\ pc[t] = "onSignal"
    /\ LET w == Objects[t][triggered[t]]
       IN  /\ Free(w)
           /\ IF w \in signalled
              THEN Take(w) /\ EndRound(t, Success, triggered[t])
              ELSE EndRound(t, Cancelled, idxOut[t]) /\ UNCHANGED <<signalled, taken>>
    /\ UNCHANGED <<index, triggered, added, expired, cancel, lists,
                   signaller, fires>>

UnlinkBackOnly(n) ==                        \* mutant: the forward link stays
    UNCHANGED nxt /\ prv' = [prv EXCEPT ![nxt[n]] = prv[n]]

\* _waiterNodeRemove, under the object's mutex, in the order of the array.
UnlinkNode(n) ==
    LET without == [nxt EXCEPT ![prv[n]] = nxt[n]]
    IN  nxt' = without /\ prv' = [prv EXCEPT ![without[n]] = prv[n]]

CleanUp(t) ==
    /\ pc[t] = "cleanUp" /\ added[t] # {}
    /\ LET i == Min(added[t])
           w == Objects[t][i]
       IN  /\ Free(w)
           /\ UnlinkNode(<<t, i>>)
           /\ added' = [added EXCEPT ![t] = @ \ {i}]
           /\ disordered' = disordered \cup {v \in {w} : nxt[v] # <<t, i>>}
           /\ missed' = missed \ {<<t, i>>}
    /\ UNCHANGED <<pc, index, triggered, timerIdx, polling, rc, idxOut, expired, cancel,
                   signalled, cursor, sending, fires, taken>>

-----------------------------------------------------------------------------
\* _waitableSignalAllListeners, called with the mutex of w held.

Signal(w) ==
    /\ Free(w) /\ fires[w] < MaxFires
    /\ signalled' = signalled \cup {w}
    /\ fires' = [fires EXCEPT ![w] = @ + 1]
    /\ cursor' = [cursor EXCEPT ![w] = nxt[w]]
    /\ UNCHANGED <<own, expired, cancel, lists, sending, taken, missed>>

\* Swap -1 for the listener's index; who wins cancels the listener's wait.
Notify(w) ==
    /\ ~Free(w) /\ cursor[w] # w /\ sending[w] = None
    /\ LET t == cursor[w][1]
           i == cursor[w][2]
       IN  \/ /\ triggered[t] = None
              /\ triggered' = [triggered EXCEPT ![t] = i]
              /\ sending' = [sending EXCEPT ![w] = t]
              /\ UNCHANGED <<cursor, missed>>
           \/ /\ triggered[t] # None \/ SpuriousCas
              /\ cursor' = [cursor EXCEPT ![w] = nxt[@]]
              /\ missed' = missed \cup {n \in {cursor[w]} : triggered[t] = None}
              /\ UNCHANGED <<triggered, sending>>
    /\ UNCHANGED <<pc, index, locals, rc, idxOut, expired, cancel, lists,
                   signalled, fires, taken>>

CancelNobody(w) ==                          \* mutant: the index is left, no call made
    /\ ~Free(w) /\ sending[w] # None
    /\ sending' = [sending EXCEPT ![w] = None]
    /\ cursor' = [cursor EXCEPT ![w] = nxt[@]]
    /\ UNCHANGED <<own, expired, cancel, lists, signalled, fires, taken, missed>>

CancelAgain(w) ==                           \* mutant: the walk leaves while sending
    /\ ~Free(w) /\ sending[w] # None /\ cursor[w] # w
    /\ cancel' = [cancel EXCEPT ![sending[w]] = TRUE]
    /\ cursor' = [cursor EXCEPT ![w] = nxt[@]]
    /\ UNCHANGED <<own, expired, lists, signalled, sending, fires, taken, missed>>

Cancel(w) ==
    /\ ~Free(w) /\ sending[w] # None
    /\ cancel' = [cancel EXCEPT ![sending[w]] = TRUE]
    /\ sending' = [sending EXCEPT ![w] = None]
    /\ cursor' = [cursor EXCEPT ![w] = nxt[@]]
    /\ UNCHANGED <<own, expired, lists, signalled, fires, taken, missed>>

SignalDone(w) ==
    /\ ~Free(w) /\ cursor[w] = w
    /\ cursor' = [cursor EXCEPT ![w] = None]
    /\ UNCHANGED <<own, expired, cancel, lists, signalled, sending, fires, taken, missed>>

Fire(e) ==
    /\ fires[e] < MaxFires
    /\ signalled' = signalled \cup {e}
    /\ fires' = [fires EXCEPT ![e] = @ + 1]
    /\ UNCHANGED <<own, expired, cancel, lists, signaller, taken>>

Expire(t) ==
    /\ t \in Impatient /\ pc[t] # "idle" /\ ~expired[t]
    /\ expired' = [expired EXCEPT ![t] = TRUE]
    /\ UNCHANGED <<own, cancel, lists, signalled, signaller, fires, taken>>

-----------------------------------------------------------------------------
Wait(t) ==
    \/ Retry(t) \/ Return(t) \/ BeginHandle(t) \/ BeginSignalled(t) \/ BeginListen(t)
    \/ BeginDone(t) \/ WaitReady(t) \/ ClearEvent(t) \/ OnTimeout(t) \/ WaitCancelled(t)
    \/ OnSignal(t) \/ CleanUp(t)

SignalStep(w) == Notify(w) \/ Cancel(w) \/ SignalDone(w)

Next ==
    \/ \E t \in Threads : Call(t) \/ Wait(t) \/ WaitTimesOut(t) \/ Expire(t)
    \/ \E w \in Waitables : Signal(w) \/ SignalStep(w)
    \/ \E e \in Events : Fire(e)

Spec == Init /\ [][Next]_vars

\* A thread that has called goes on, a signaller finishes, and time passes.
Fairness ==
    /\ \A t \in Threads : WF_vars(Wait(t)) /\ WF_vars(WaitTimesOut(t))
    /\ \A w \in Waitables : WF_vars(SignalStep(w))

FairSpec == Spec /\ Fairness

-----------------------------------------------------------------------------
\* Properties.

TypeOK ==
    /\ \A t \in Threads :
          /\ index[t] \in 1..(Len(Objects[t]) + 1)
          /\ added[t] \subseteq Indices(t)
          /\ {triggered[t], timerIdx[t], idxOut[t]} \subseteq Indices(t) \cup {None}
          /\ rc[t] \in {Success, Cancelled, TimedOut}
          /\ pc[t] \in {"idle", "begin", "wait", "clear", "onTimeout", "onSignal",
                        "cleanUp"}
    /\ \A n \in DOMAIN nxt : {nxt[n], prv[n]} \subseteq Nodes \cup Waitables
    /\ signalled \subseteq Waitables \cup Events
    /\ \A w \in Waitables : cursor[w] = None => sending[w] = None
    /\ disordered \subseteq Waitables /\ missed \subseteq Nodes

NodesOf(w) == {n \in Nodes : Objects[n[1]][n[2]] = w}
Listeners(w) == {n \in NodesOf(w) : n[2] \in added[n[1]]}

\* The nodes met from the list head of w before it is met again: the least set
\* that holds the first one and, with each node, the next.
Links == Nodes \cup Waitables
Closed(w, S) == ({nxt[w]} \cup {nxt[n] : n \in S}) \ {w} \subseteq S
Chain(w) == {n \in NodesOf(w) : \A S \in SUBSET NodesOf(w) : Closed(w, S) => n \in S}

\* The list of a waitable holds the listeners that were added and not yet
\* removed, and nothing else: none is dropped by the removal of another, and
\* no node stays behind on the stack of a thread that has gone on
\* (_waiterNodeAdd: "Add WaiterNode to the parent's linked list").
EveryListIntact == \A w \in Waitables : Chain(w) = Listeners(w)

\* As the code keeps it, for any number of listeners: as long as they leave the
\* list of a waitable in the opposite order to that in which they came, the list
\* is intact.  What the first to leave in another order does to it is shown by
\* the run wait_lists.
ListsIntact == \A w \in Waitables \ disordered : Chain(w) = Listeners(w)

\* No wake-up is lost: when a thread sleeps in the system call on a waitable
\* that is signalled and whose signaller has finished, its cancellation has
\* been sent or is being sent.  The code loses it on a disordered list, and when
\* the weak compare-exchange fails at the thread's node although its index was
\* still to be written (wait.h:45).
NoLostWakeUp ==
    \A t \in Threads : \A i \in added[t] :
        /\ pc[t] = "wait" /\ Objects[t][i] \in signalled /\ Free(Objects[t][i])
        /\ Objects[t][i] \notin disordered /\ <<t, i>> \notin missed
        => cancel[t] \/ \E w \in Waitables : sending[w] = t

\* One firing of an event that clears itself releases one thread.
OneTakerPerFiring == \A o \in Waitables \cup AutoClear : taken[o] <= fires[o]

\* The deadline of the whole call is kept, whatever retries it goes through
\* (_waitLoop), unless a list it needs is disordered: a signaller may go round in
\* such a list for ever, with the mutex held.
DeadlineKept ==
    \A t \in Impatient :
        expired[t] /\ pc[t] # "idle" ~>
            pc[t] = "idle" \/ \E i \in Indices(t) : Objects[t][i] \in disordered

\* A thread does not sleep for ever while something it listens to is signalled,
\* if the list is not disordered and no compare-exchange at its node failed
\* without reason.
SignalWakes ==
    \A t \in Threads :
        pc[t] = "wait" /\ (\E i \in added[t] : Objects[t][i] \in signalled) ~>
            \/ pc[t] # "wait"
            \/ \E i \in added[t] : Objects[t][i] \in disordered \/ <<t, i>> \in missed
=============================================================================
