------------------------- MODULE WaitObjectsProofs -------------------------
(***************************************************************************)
(* Theorems about WaitObjects for any number of threads, objects and       *)
(* firings, with and without compare-exchanges that fail without reason.   *)
(* The lists are proved intact as long as their listeners leave in the     *)
(* opposite order to that in which they came: they are stacks then (Order),*)
(* and the walk of a signaller comes down the stack, from the newest       *)
(* listener to the oldest, leaving nobody untold behind.  _waiterNodeAdd   *)
(* does not set the back link of the old head, so that no more is true;    *)
(* the run wait_lists shows it.                                            *)
(***************************************************************************)
EXTENDS WaitObjects, RecursionLemmas

Places == {"idle", "begin", "wait", "clear", "onTimeout", "onSignal", "cleanUp"}
All == Waitables \cup Events
Results == {Success, Cancelled, TimedOut}

Typed ==
    /\ pc \in [Threads -> Places]
    /\ index \in [Threads -> Nat]
    /\ triggered \in [Threads -> Nat \cup {None}]
    /\ added \in [Threads -> SUBSET Nat]
    /\ timerIdx \in [Threads -> Nat \cup {None}]
    /\ idxOut \in [Threads -> Nat \cup {None}]
    /\ rc \in [Threads -> Results]
    /\ cancel \in [Threads -> BOOLEAN]
    /\ nxt \in [Links -> Links] /\ prv \in [Links -> Links]
    /\ signalled \subseteq All
    /\ cursor \in [Waitables -> Links \cup {None}]
    /\ sending \in [Waitables -> Threads \cup {None}]
    /\ fires \in [All -> Nat] /\ taken \in [All -> Nat]
    /\ disordered \subseteq Waitables /\ missed \subseteq Nodes

\* The indices a thread holds point into its array, where its place needs one
\* there is one, and it has listeners only for waitables, only in a round, and
\* while the round begins only behind the loop index.
Fit(t) ==
    /\ index[t] \in 1..(Len(Objects[t]) + 1)
    /\ added[t] \subseteq Indices(t)
    /\ \A i \in added[t] : Objects[t][i] \in Waitables
    /\ triggered[t] \in Indices(t) \cup {None}
    /\ timerIdx[t] \in Indices(t) \cup {None}
    /\ idxOut[t] \in Indices(t) \cup {None}
    /\ pc[t] = "begin" => \A i \in added[t] : i < index[t]
    /\ pc[t] = "idle" => added[t] = {}
    /\ pc[t] = "clear" => idxOut[t] # None /\ Objects[t][idxOut[t]] \in Events
    /\ pc[t] = "onTimeout" => timerIdx[t] # None
    /\ pc[t] = "onSignal" => triggered[t] # None

IndicesFit == \A t \in Threads : Fit(t)

\* A signaller that is about to cancel a thread stands on that thread's node.
SenderOnNode ==
    \A w \in Waitables : sending[w] # None =>
        /\ cursor[w] \in Nodes
        /\ sending[w] = cursor[w][1]

\* Links never leave the list they belong to, however it is damaged.
Home(x) == IF x \in Waitables THEN x ELSE Objects[x[1]][x[2]]
Homes ==
    /\ \A x \in Links : Home(nxt[x]) = Home(x) /\ Home(prv[x]) = Home(x)
    /\ \A w \in Waitables : cursor[w] # None => Home(cursor[w]) = w

Shape == Typed /\ IndicesFit /\ SenderOnNode
TypeInv == Shape /\ Homes

\* Each take was paid for by a firing, and what is signalled has one to spend.
Ledger ==
    \A o \in All : /\ taken[o] <= fires[o]
                   /\ o \in signalled => taken[o] < fires[o]

\* Element i of the list of w whose listeners are s, oldest first, or its head.
At(w, s, i) == IF i = 0 THEN w ELSE s[i]

\* The list of w is a stack of its k listeners: the head leads to the newest, each
\* to the one before it, and the oldest back to the head.  Of the back links only
\* that of the newest is right (_waiterNodeAdd leaves the others behind).
Stacked(w, k, s) ==
    /\ s \in [1..k -> Nodes]
    /\ Listeners(w) = {s[i] : i \in 1..k}
    /\ \A i, j \in 1..k : s[i] = s[j] => i = j
    /\ nxt[w] = At(w, s, k)
    /\ \A i \in 1..k : nxt[s[i]] = At(w, s, i - 1)
    /\ prv[At(w, s, k)] = w

Waiting(t) == pc[t] \in {"begin", "wait"}

\* The thread of the node n waits for something that is signalled, and no
\* compare-exchange at n failed without reason.
Due(w, n) == Waiting(n[1]) /\ w \in signalled /\ n \notin missed

\* The walk through the list of w stands at place p (0 when there is none): the
\* listeners it has passed were told, and the one it is about to cancel was too.
Walked(w, k, s, p) ==
    /\ p \in 0..k
    /\ cursor[w] = At(w, s, p) \/ (cursor[w] = None /\ p = 0)
    /\ \A q \in (p + 1)..k : Due(w, s[q]) => triggered[s[q][1]] # None
    /\ sending[w] # None => triggered[sending[w]] # None

Order(w) ==
    \E k \in Nat : \E s \in [1..k -> Nodes], p \in 0..k : Stacked(w, k, s) /\ Walked(w, k, s, p)

Orders == \A w \in Waitables \ disordered : Order(w)

\* Who was told is cancelled, or about to be.
ToldIsSent ==
    \A t \in Threads :
        Waiting(t) /\ triggered[t] # None => cancel[t] \/ \E w \in Waitables : sending[w] = t

WakeInv == TypeInv /\ Orders /\ ToldIsSent

-----------------------------------------------------------------------------
\* Lemmas on the operators of the module.

LEMMA IndicesAre ==
    ASSUME NEW t \in Threads
    PROVE  /\ Len(Objects[t]) \in Nat /\ Indices(t) = 1..Len(Objects[t])
           /\ Indices(t) \subseteq Nat
           /\ \A i \in Indices(t) : Objects[t][i] \in All
           /\ None \notin Indices(t)
<1>1. Objects[t] \in Seq(Waitables \cup Events)
  BY ObjectsAssumption
<1>2. Len(Objects[t]) \in Nat /\ DOMAIN Objects[t] = 1..Len(Objects[t])
  BY <1>1
<1>3. \A i \in 1..Len(Objects[t]) : Objects[t][i] \in Waitables \cup Events
  BY <1>1
<1>4. QED
  BY <1>2, <1>3, ObjectsAssumption DEF Indices, All

LEMMA NodesAre ==
    /\ \A t \in Threads : \A i \in Indices(t) : <<t, i>> \in Nodes
    /\ \A n \in Nodes : n[1] \in Threads /\ n[2] \in Indices(n[1]) /\ n = <<n[1], n[2]>>
BY DEF Nodes

LEMMA HeadsAre ==
    \A w \in Waitables : w \in Links /\ w \notin Nodes /\ w # None
BY NodesAssumption, ObjectsAssumption DEF Links

LEMMA MinOf ==
    ASSUME NEW S, S \subseteq Nat, S # {}
    PROVE  Min(S) \in S /\ \A k \in S : Min(S) <= k
<1>1. \E m \in S : \A k \in S : m <= k
  BY LeastNatural
<1>2. QED
  BY <1>1 DEF Min

LEMMA ReadyIs ==
    ASSUME NEW t \in Threads, Ready(t) # {}
    PROVE  /\ Min(Ready(t)) \in Indices(t)
           /\ Objects[t][Min(Ready(t))] \in Events \cap signalled
<1>1. Ready(t) \subseteq Nat
  BY IndicesAre DEF Ready
<1>2. Min(Ready(t)) \in Ready(t)
  BY <1>1, MinOf
<1>3. QED
  BY <1>2 DEF Ready

-----------------------------------------------------------------------------
\* Type correctness.

LEMMA TypeInit == Init => TypeInv
<1> SUFFICES ASSUME Init PROVE TypeInv
  OBVIOUS
<1>1. Typed
  BY ObjectsAssumption DEF Init, Typed, Places, All, Links, Results
<1>2. IndicesFit
  BY IndicesAre DEF Init, IndicesFit, Fit
<1>3. SenderOnNode
  BY DEF Init, SenderOnNode
<1>4. Homes
  BY DEF Init, Homes, Links
<1>5. QED
  BY <1>1, <1>2, <1>3, <1>4 DEF TypeInv, Shape

\* What a step leaves of a thread, as far as Fit looks at it.
Kept(t) ==
    /\ pc'[t] = pc[t] /\ index'[t] = index[t] /\ triggered'[t] = triggered[t]
    /\ added'[t] = added[t] /\ timerIdx'[t] = timerIdx[t] /\ idxOut'[t] = idxOut[t]

LEMMA FitKept == ASSUME NEW t \in Threads, Fit(t), Kept(t) PROVE Fit(t)'
BY DEF Fit, Kept, Indices

LEMMA FitAtStart ==
    ASSUME NEW t \in Threads, Locals(t, "begin", FALSE) \/ Locals(t, "begin", expired[t])
                              \/ Locals(t, "idle", FALSE), Typed
    PROVE  Fit(t)'
<1>1. /\ index'[t] = 1 /\ triggered'[t] = None /\ added'[t] = {} /\ timerIdx'[t] = None
      /\ idxOut'[t] = None /\ pc'[t] \in {"begin", "idle"}
  BY DEF Locals, Typed
<1>2. 1 \in 1..(Len(Objects[t]) + 1)
  BY IndicesAre
<1>3. QED
  BY <1>1, <1>2 DEF Fit

LEMMA FitAtEnd ==
    ASSUME NEW t \in Threads, Fit(t), pc'[t] = "cleanUp",
           idxOut'[t] \in Indices(t) \cup {None},
           timerIdx'[t] = None, UNCHANGED <<index, triggered, added>>
    PROVE  Fit(t)'
BY DEF Fit, Indices

LEMMA LocalsDo ==
    ASSUME Typed, NEW t \in Threads, NEW place \in Places, NEW poll, Locals(t, place, poll)
    PROVE  /\ pc' \in [Threads -> Places] /\ pc'[t] = place
           /\ index' \in [Threads -> Nat] /\ index'[t] = 1
           /\ triggered' \in [Threads -> Nat \cup {None}] /\ triggered'[t] = None
           /\ added' \in [Threads -> SUBSET Nat] /\ added'[t] = {}
           /\ timerIdx' \in [Threads -> Nat \cup {None}] /\ timerIdx'[t] = None
           /\ idxOut' \in [Threads -> Nat \cup {None}] /\ idxOut'[t] = None
           /\ rc' \in [Threads -> Results]
           /\ \A u \in Threads \ {t} : Kept(u)
BY DEF Typed, Locals, Kept, Results

LEMMA EndRoundDoes ==
    ASSUME Typed, NEW t \in Threads, NEW r \in Results, NEW i \in Nat \cup {None},
           EndRound(t, r, i)
    PROVE  /\ pc' \in [Threads -> Places] /\ pc'[t] = "cleanUp"
           /\ rc' \in [Threads -> Results] /\ rc'[t] = r
           /\ idxOut' \in [Threads -> Nat \cup {None}] /\ idxOut'[t] = i
           /\ timerIdx' \in [Threads -> Nat \cup {None}] /\ timerIdx'[t] = None
           /\ \A u \in Threads \ {t} :
                 pc'[u] = pc[u] /\ idxOut'[u] = idxOut[u] /\ timerIdx'[u] = timerIdx[u]
BY DEF Typed, EndRound, Places

LEMMA TakeDoes ==
    ASSUME Typed, NEW o \in signalled, Take(o)
    PROVE  /\ signalled' \subseteq All /\ signalled' = signalled \ {o}
           /\ taken' \in [All -> Nat] /\ taken'[o] = taken[o] + 1
           /\ \A x \in All \ {o} : taken'[x] = taken[x]
BY DEF Typed, Take

LEMMA LinkDoes ==
    ASSUME Typed, NEW n \in Nodes, NEW w \in Waitables, LinkNode(n, w)
    PROVE  /\ nxt' \in [Links -> Links] /\ prv' \in [Links -> Links]
           /\ nxt'[w] = n /\ nxt'[n] = nxt[w] /\ prv'[n] = w
           /\ \A x \in Links \ {n, w} : nxt'[x] = nxt[x]
           /\ \A x \in Links \ {n} : prv'[x] = prv[x]
<1>1. n \in Links /\ w \in Links /\ n # w
  BY HeadsAre DEF Links
<1>2. nxt[w] \in Links
  BY <1>1 DEF Typed
<1>3. QED
  BY <1>1, <1>2 DEF Typed, LinkNode

LEMMA UnlinkDoes ==
    ASSUME Typed, NEW n \in Nodes, UnlinkNode(n)
    PROVE  /\ nxt' \in [Links -> Links] /\ prv' \in [Links -> Links]
           /\ nxt' = [nxt EXCEPT ![prv[n]] = nxt[n]]
           /\ prv' = [prv EXCEPT ![nxt'[n]] = prv[n]]
<1>1. n \in Links /\ prv[n] \in Links /\ nxt[n] \in Links
  BY DEF Links, Typed
<1>2. nxt' = [nxt EXCEPT ![prv[n]] = nxt[n]] /\ nxt' \in [Links -> Links]
  BY <1>1 DEF UnlinkNode, Typed
<1>3. prv' = [prv EXCEPT ![nxt'[n]] = prv[n]]
  BY <1>2 DEF UnlinkNode
<1>4. QED
  BY <1>1, <1>2, <1>3 DEF Typed

LEMMA ShapeStep ==
    TypeInv /\ [Next]_vars => Shape'
<1> SUFFICES ASSUME TypeInv, [Next]_vars PROVE Shape'
  OBVIOUS
<1> USE DEF TypeInv, Shape, own, locals, lists, signaller
<1>1. ASSUME NEW t \in Threads, Call(t) PROVE Shape'
  <2>1. Typed'
    BY <1>1, LocalsDo DEF Call, Typed, Places
  <2>2. \A u \in Threads \ {t} : Kept(u)
    BY <1>1, LocalsDo DEF Call, Typed, Kept, Places
  <2>3. Fit(t)'
    BY <1>1, FitAtStart DEF Call
  <2>4. SenderOnNode'
    BY <1>1 DEF Call, SenderOnNode, Places
  <2>5. QED
    BY <2>1, <2>2, <2>3, <2>4, FitKept DEF IndicesFit
<1>2. ASSUME NEW t \in Threads, Retry(t) PROVE Shape'
  <2>1. Typed'
    BY <1>2, LocalsDo DEF Retry, Typed, Places
  <2>2. \A u \in Threads \ {t} : Kept(u)
    BY <1>2, LocalsDo DEF Retry, Typed, Kept, Places
  <2>3. Fit(t)'
    BY <1>2, FitAtStart DEF Retry
  <2>4. SenderOnNode'
    BY <1>2 DEF Retry, SenderOnNode, Places
  <2>5. QED
    BY <2>1, <2>2, <2>3, <2>4, FitKept DEF IndicesFit
<1>3. ASSUME NEW t \in Threads, Return(t) PROVE Shape'
  <2>1. Typed'
    BY <1>3, LocalsDo DEF Return, Typed, Places
  <2>2. \A u \in Threads \ {t} : Kept(u)
    BY <1>3, LocalsDo DEF Return, Typed, Kept, Places
  <2>3. Fit(t)'
    BY <1>3, FitAtStart DEF Return
  <2>4. SenderOnNode'
    BY <1>3 DEF Return, SenderOnNode, Places
  <2>5. QED
    BY <2>1, <2>2, <2>3, <2>4, FitKept DEF IndicesFit
<1>4. ASSUME NEW t \in Threads, BeginHandle(t) PROVE Shape'
  <2>1. Typed'
    BY <1>4 DEF BeginHandle, Typed
  <2>2. \A u \in Threads \ {t} : Kept(u)
    BY <1>4 DEF BeginHandle, Typed, Kept
  <2>3. Fit(t)'
    BY <1>4, IndicesAre DEF BeginHandle, Typed, IndicesFit, Fit, Indices
  <2>4. SenderOnNode'
    BY <1>4 DEF BeginHandle, SenderOnNode
  <2>5. QED
    BY <2>1, <2>2, <2>3, <2>4, FitKept DEF IndicesFit
<1>5. ASSUME NEW t \in Threads, BeginSignalled(t) PROVE Shape'
  <2>1. Typed'
    BY <1>5, EndRoundDoes, TakeDoes, IndicesAre DEF BeginSignalled, Typed, Results
  <2>2. \A u \in Threads \ {t} : Kept(u)
    BY <1>5, EndRoundDoes, TakeDoes, IndicesAre DEF BeginSignalled, Typed, Kept, Results
  <2>3. Fit(t)'
    <3>1. pc'[t] = "cleanUp" /\ timerIdx'[t] = None /\ idxOut'[t] = index[t]
      BY <1>5, IndicesAre, EndRoundDoes DEF BeginSignalled, Results
    <3>2. QED
      BY <1>5, <3>1, FitAtEnd DEF BeginSignalled, IndicesFit
  <2>4. SenderOnNode'
    BY <1>5 DEF BeginSignalled, SenderOnNode, Results
  <2>5. QED
    BY <2>1, <2>2, <2>3, <2>4, FitKept DEF IndicesFit
<1>6. ASSUME NEW t \in Threads, BeginListen(t) PROVE Shape'
  <2>0. /\ Target(t) \in Waitables /\ LinkNode(<<t, index[t]>>, Target(t))
        /\ <<t, index[t]>> \in Nodes
    BY <1>6, NodesAre DEF BeginListen
  <2>1. Typed'
    <3>1. nxt' \in [Links -> Links] /\ prv' \in [Links -> Links]
      BY <2>0, LinkDoes
    <3>2. added' \in [Threads -> SUBSET Nat] /\ index' \in [Threads -> Nat]
      BY <1>6 DEF BeginListen, Typed
    <3>3. timerIdx' \in [Threads -> Nat \cup {None}]
      BY <1>6 DEF BeginListen, Typed
    <3>4. QED
      BY <1>6, <3>1, <3>2, <3>3 DEF BeginListen, Typed
  <2>2. \A u \in Threads \ {t} : Kept(u)
    BY <1>6, LinkDoes, NodesAre, IndicesAre DEF BeginListen, Typed, Kept, Target
  <2>3. Fit(t)'
    BY SMTT(30), <1>6, LinkDoes, NodesAre, IndicesAre DEF BeginListen, Typed, IndicesFit, Fit, Indices, Target
  <2>4. SenderOnNode'
    BY <1>6 DEF BeginListen, SenderOnNode, Target
  <2>5. QED
    BY <2>1, <2>2, <2>3, <2>4, FitKept DEF IndicesFit
<1>7. ASSUME NEW t \in Threads, BeginDone(t) PROVE Shape'
  <2>1. Typed'
    BY <1>7 DEF BeginDone, Typed, Places
  <2>2. \A u \in Threads \ {t} : Kept(u)
    BY <1>7 DEF BeginDone, Typed, Kept, Places
  <2>3. Fit(t)'
    BY <1>7, IndicesAre DEF BeginDone, Typed, IndicesFit, Fit, Indices, Places
  <2>4. SenderOnNode'
    BY <1>7 DEF BeginDone, SenderOnNode, Places
  <2>5. QED
    BY <2>1, <2>2, <2>3, <2>4, FitKept DEF IndicesFit
<1>8. ASSUME NEW t \in Threads, WaitReady(t) PROVE Shape'
  <2>0. PICK m \in Indices(t) : m = Min(Ready(t)) /\ Objects[t][m] \in Events
    BY <1>8, ReadyIs DEF WaitReady
  <2>1. m \in Nat /\ m # None
    BY IndicesAre
  <2>2. /\ UNCHANGED <<index, triggered, added, cancel, nxt, prv, signalled, cursor, sending>>
        /\ UNCHANGED <<fires, taken, disordered, missed>>
    BY <1>8 DEF WaitReady
  <2>3. SenderOnNode'
    BY <2>2 DEF SenderOnNode
  <2>4. CASE EndRound(t, Success, m)
    <3>1. /\ pc' \in [Threads -> Places] /\ pc'[t] = "cleanUp"
          /\ rc' \in [Threads -> Results] /\ idxOut' \in [Threads -> Nat \cup {None}]
          /\ timerIdx' \in [Threads -> Nat \cup {None}] /\ timerIdx'[t] = None /\ idxOut'[t] = m
          /\ \A u \in Threads \ {t} :
                pc'[u] = pc[u] /\ idxOut'[u] = idxOut[u] /\ timerIdx'[u] = timerIdx[u]
      BY <2>1, <2>4, EndRoundDoes DEF Results
    <3>2. Typed'
      BY <2>2, <3>1 DEF Typed
    <3>3. Fit(t)'
      BY <2>2, <3>1, FitAtEnd DEF IndicesFit
    <3>4. \A u \in Threads \ {t} : Kept(u)
      BY <2>2, <3>1 DEF Kept
    <3>5. QED
      BY <2>3, <3>2, <3>3, <3>4, FitKept DEF IndicesFit
  <2>5. CASE /\ pc' = [pc EXCEPT ![t] = "clear"] /\ idxOut' = [idxOut EXCEPT ![t] = m]
             /\ UNCHANGED <<rc, timerIdx>>
    <3>1. Typed'
      BY <2>1, <2>2, <2>5 DEF Typed, Places
    <3>2. pc'[t] = "clear" /\ idxOut'[t] = m /\ UNCHANGED <<index, triggered, added, timerIdx>>
      BY <2>2, <2>5 DEF Typed
    <3>3. Fit(t)'
      BY <2>0, <2>1, <3>2 DEF IndicesFit, Fit, Indices
    <3>4. \A u \in Threads \ {t} : Kept(u)
      BY <2>2, <2>5 DEF Kept, Typed
    <3>5. QED
      BY <2>3, <3>1, <3>3, <3>4, FitKept DEF IndicesFit
  <2>6. QED
    BY <1>8, <2>0, <2>4, <2>5 DEF WaitReady
<1>9. ASSUME NEW t \in Threads, ClearEvent(t) PROVE Shape'
  <2>1. Typed'
    BY <1>9, EndRoundDoes, TakeDoes, IndicesAre DEF ClearEvent, Typed, Results
  <2>2. \A u \in Threads \ {t} : Kept(u)
    BY <1>9, EndRoundDoes, TakeDoes, IndicesAre DEF ClearEvent, Typed, Kept, Results
  <2>3. Fit(t)'
    <3>1. idxOut[t] \in Indices(t)
      BY <1>9 DEF ClearEvent, IndicesFit, Fit
    <3>2. idxOut[t] \in Nat \cup {None}
      BY DEF Typed
    <3>3. pc'[t] = "cleanUp" /\ timerIdx'[t] = None /\ idxOut'[t] = idxOut[t]
      BY <1>9, <3>2, EndRoundDoes DEF ClearEvent, Results
    <3>4. QED
      BY <1>9, <3>1, <3>3, FitAtEnd DEF ClearEvent, IndicesFit
  <2>4. SenderOnNode'
    BY <1>9 DEF ClearEvent, SenderOnNode, Results
  <2>5. QED
    BY <2>1, <2>2, <2>3, <2>4, FitKept DEF IndicesFit
<1>10. ASSUME NEW t \in Threads, OnTimeout(t) PROVE Shape'
  <2>1. Typed'
    BY <1>10, EndRoundDoes, IndicesAre DEF OnTimeout, Typed, Results
  <2>2. \A u \in Threads \ {t} : Kept(u)
    BY <1>10, EndRoundDoes, IndicesAre DEF OnTimeout, Typed, Kept, Results
  <2>3. Fit(t)'
    <3>1. {timerIdx[t], idxOut[t]} \subseteq Indices(t) \cup {None}
      BY DEF IndicesFit, Fit
    <3>2. {timerIdx[t], idxOut[t]} \subseteq Nat \cup {None}
      BY DEF Typed
    <3>3. pc'[t] = "cleanUp" /\ timerIdx'[t] = None /\ idxOut'[t] \in {timerIdx[t], idxOut[t]}
      BY <1>10, <3>2, EndRoundDoes DEF OnTimeout, Results
    <3>4. QED
      BY <1>10, <3>1, <3>3, FitAtEnd DEF OnTimeout, IndicesFit
  <2>4. SenderOnNode'
    BY <1>10 DEF OnTimeout, SenderOnNode, Results
  <2>5. QED
    BY <2>1, <2>2, <2>3, <2>4, FitKept DEF IndicesFit
<1>11. ASSUME NEW t \in Threads, WaitCancelled(t) PROVE Shape'
  <2>1. Typed'
    BY <1>11, EndRoundDoes, IndicesAre DEF WaitCancelled, Typed, Results, Places
  <2>2. \A u \in Threads \ {t} : Kept(u)
    BY <1>11, EndRoundDoes, IndicesAre DEF WaitCancelled, Typed, Kept, Results, Places
  <2>3. Fit(t)'
    <3>1. idxOut[t] \in Indices(t) \cup {None} /\ idxOut[t] \in Nat \cup {None} /\ Fit(t)
      BY DEF IndicesFit, Fit, Typed
    <3>2. CASE triggered[t] = None
      <4>1. pc'[t] = "cleanUp" /\ timerIdx'[t] = None /\ idxOut'[t] = idxOut[t]
        BY <1>11, <3>1, <3>2, EndRoundDoes DEF WaitCancelled, Results
      <4>2. QED
        BY <1>11, <3>1, <4>1, FitAtEnd DEF WaitCancelled
    <3>3. CASE triggered[t] # None
      BY <1>11, <3>1, <3>3 DEF WaitCancelled, Typed, Fit, Indices
    <3>4. QED
      BY <3>2, <3>3
  <2>4. SenderOnNode'
    BY <1>11 DEF WaitCancelled, SenderOnNode, Results, Places
  <2>5. QED
    BY <2>1, <2>2, <2>3, <2>4, FitKept DEF IndicesFit
<1>12. ASSUME NEW t \in Threads, OnSignal(t) PROVE Shape'
  <2>1. Typed'
    BY <1>12, EndRoundDoes, TakeDoes, IndicesAre DEF OnSignal, Typed, Results
  <2>2. \A u \in Threads \ {t} : Kept(u)
    BY <1>12, EndRoundDoes, TakeDoes, IndicesAre DEF OnSignal, Typed, Kept, Results
  <2>3. Fit(t)'
    <3>1. {triggered[t], idxOut[t]} \subseteq Indices(t) \cup {None}
      BY DEF IndicesFit, Fit
    <3>2. {triggered[t], idxOut[t]} \subseteq Nat \cup {None}
      BY DEF Typed
    <3>3. pc'[t] = "cleanUp" /\ timerIdx'[t] = None /\ idxOut'[t] \in {triggered[t], idxOut[t]}
      BY <1>12, <3>2, EndRoundDoes DEF OnSignal, Results
    <3>4. QED
      BY <1>12, <3>1, <3>3, FitAtEnd DEF OnSignal, IndicesFit
  <2>4. SenderOnNode'
    BY <1>12 DEF OnSignal, SenderOnNode, Results
  <2>5. QED
    BY <2>1, <2>2, <2>3, <2>4, FitKept DEF IndicesFit
<1>13. ASSUME NEW t \in Threads, CleanUp(t) PROVE Shape'
  <2>0. Min(added[t]) \in added[t] /\ <<t, Min(added[t])>> \in Nodes
    BY <1>13, MinOf, NodesAre DEF CleanUp, Typed, IndicesFit, Fit
  <2>1. Typed'
    <3>1. nxt' \in [Links -> Links] /\ prv' \in [Links -> Links]
      BY <1>13, <2>0, UnlinkDoes DEF CleanUp
    <3>2. added' \in [Threads -> SUBSET Nat]
      BY <1>13 DEF CleanUp, Typed
    <3>3. disordered' \subseteq Waitables /\ missed' \subseteq Nodes
      <4>1. Objects[t][Min(added[t])] \in Waitables
        BY <2>0 DEF IndicesFit, Fit
      <4>2. QED
        BY <1>13, <4>1 DEF CleanUp, Typed
    <3>4. UNCHANGED <<pc, index, triggered, timerIdx, rc, idxOut, cancel, signalled, cursor,
                      sending, fires, taken>>
      BY <1>13 DEF CleanUp
    <3>5. QED
      BY <3>1, <3>2, <3>3, <3>4 DEF Typed
  <2>2. \A u \in Threads \ {t} : Kept(u)
    BY <1>13, UnlinkDoes, MinOf, IndicesAre, NodesAre DEF CleanUp, Typed, Kept
  <2>3. Fit(t)'
    BY <1>13, UnlinkDoes, MinOf, IndicesAre, NodesAre, IndicesAre DEF CleanUp, Typed, IndicesFit, Fit, Indices
  <2>4. SenderOnNode'
    BY <1>13 DEF CleanUp, SenderOnNode
  <2>5. QED
    BY <2>1, <2>2, <2>3, <2>4, FitKept DEF IndicesFit
<1>14. ASSUME NEW t \in Threads, WaitTimesOut(t) PROVE Shape'
  <2>1. Typed'
    BY <1>14, EndRoundDoes, IndicesAre DEF WaitTimesOut, Typed, Results, Places
  <2>2. \A u \in Threads \ {t} : Kept(u)
    BY <1>14, EndRoundDoes, IndicesAre DEF WaitTimesOut, Typed, Kept, Results, Places
  <2>3. Fit(t)'
    <3>1. idxOut[t] \in Indices(t) \cup {None} /\ idxOut[t] \in Nat \cup {None} /\ Fit(t)
      BY DEF IndicesFit, Fit, Typed
    <3>2. CASE timerIdx[t] = None
      <4>1. pc'[t] = "cleanUp" /\ timerIdx'[t] = None /\ idxOut'[t] = idxOut[t]
        BY <1>14, <3>1, <3>2, EndRoundDoes DEF WaitTimesOut, Results
      <4>2. QED
        BY <1>14, <3>1, <4>1, FitAtEnd DEF WaitTimesOut
    <3>3. CASE timerIdx[t] # None
      BY <1>14, <3>1, <3>3 DEF WaitTimesOut, Typed, Fit, Indices
    <3>4. QED
      BY <3>2, <3>3
  <2>4. SenderOnNode'
    BY <1>14 DEF WaitTimesOut, SenderOnNode, Results, Places
  <2>5. QED
    BY <2>1, <2>2, <2>3, <2>4, FitKept DEF IndicesFit
<1>15. ASSUME NEW t \in Threads, Expire(t) PROVE Shape'
  <2>1. Typed'
    BY <1>15 DEF Expire, Typed
  <2>2. \A u \in Threads \ {t} : Kept(u)
    BY <1>15 DEF Expire, Typed, Kept
  <2>3. Fit(t)'
    BY <1>15, IndicesAre DEF Expire, Typed, IndicesFit, Fit, Indices
  <2>4. SenderOnNode'
    BY <1>15 DEF Expire, SenderOnNode
  <2>5. QED
    BY <2>1, <2>2, <2>3, <2>4, FitKept DEF IndicesFit
<1>16. ASSUME NEW w \in Waitables, Signal(w) PROVE Shape'
  <2>0. w \in Links /\ nxt[w] \in Links
    BY HeadsAre DEF Typed
  <2>1. Typed'
    BY <1>16, <2>0 DEF Signal, Typed, All
  <2>2. \A u \in Threads : Kept(u)
    BY <1>16 DEF Signal, Kept
  <2>3. sending[w] = None
    BY <1>16, NodesAssumption DEF Signal, Free, SenderOnNode
  <2>4. SenderOnNode'
    BY <1>16, <2>3 DEF Signal, SenderOnNode, Typed
  <2>5. QED
    BY <2>1, <2>2, <2>4, FitKept DEF IndicesFit
<1>17. ASSUME NEW w \in Waitables, Notify(w) PROVE Shape'
  <2>0. cursor[w] \in Nodes /\ cursor[w] \in Links
    BY <1>17 DEF Notify, Free, Typed, Links, Homes, Home
  <2>1. PICK t \in Threads : t = cursor[w][1] /\ cursor[w][2] \in Indices(t)
    BY <2>0, NodesAre
  <2>2. nxt[cursor[w]] \in Links /\ cursor[w][2] \in Nat
    BY <2>0, <2>1, IndicesAre DEF Typed
  <2>3. CASE triggered' = [triggered EXCEPT ![t] = cursor[w][2]]
             /\ sending' = [sending EXCEPT ![w] = t] /\ UNCHANGED cursor
    <3>0. UNCHANGED <<pc, index, added, timerIdx, rc, idxOut, cancel, nxt, prv, signalled,
                      fires, taken, disordered>>
      BY <1>17 DEF Notify
    <3>1. Typed'
      <4>1. missed' \subseteq Nodes
        BY <1>17, <2>0 DEF Notify, Typed
      <4>2. triggered' \in [Threads -> Nat \cup {None}]
        BY <2>2, <2>3 DEF Typed
      <4>3. sending' \in [Waitables -> Threads \cup {None}]
        BY <2>3 DEF Typed
      <4>4. QED
        BY <2>3, <3>0, <4>1, <4>2, <4>3 DEF Typed
    <3>2. SenderOnNode'
      BY <2>0, <2>1, <2>3 DEF SenderOnNode, Typed
    <3>3. \A u \in Threads \ {t} : Kept(u)
      BY <1>17, <2>3 DEF Notify, Kept, Typed
    <3>4. Fit(t)'
      BY <1>17, <2>1, <2>3 DEF Notify, IndicesFit, Fit, Typed, Indices
    <3>5. ASSUME NEW u \in Threads PROVE Fit(u)'
      <4>1. CASE u = t
        BY <3>4, <4>1
      <4>2. CASE u # t
        BY <3>3, <4>2, FitKept DEF IndicesFit
      <4>3. QED
        BY <4>1, <4>2
    <3>6. QED
      BY <3>1, <3>2, <3>5 DEF IndicesFit
  <2>4. CASE cursor' = [cursor EXCEPT ![w] = nxt[@]] /\ UNCHANGED <<triggered, sending>>
    <3>0. UNCHANGED <<pc, index, added, timerIdx, rc, idxOut, cancel, nxt, prv, signalled,
                      fires, taken, disordered>>
      BY <1>17 DEF Notify
    <3>1. Typed'
      <4>1. missed' \subseteq Nodes
        BY <1>17, <2>0 DEF Notify, Typed
      <4>2. cursor' \in [Waitables -> Links \cup {None}]
        BY <2>2, <2>4 DEF Typed
      <4>3. QED
        BY <2>4, <3>0, <4>1, <4>2 DEF Typed
    <3>2. SenderOnNode'
      BY <1>17, <2>4 DEF Notify, SenderOnNode, Typed
    <3>3. \A u \in Threads : Kept(u)
      BY <1>17, <2>4 DEF Notify, Kept
    <3>4. QED
      BY <3>1, <3>2, <3>3, FitKept DEF IndicesFit
  <2>5. QED
    BY <1>17, <2>1, <2>3, <2>4 DEF Notify
<1>18. ASSUME NEW w \in Waitables, Cancel(w) PROVE Shape'
  <2>0. cursor[w] \in Nodes /\ cursor[w] \in Links
    BY <1>18 DEF Cancel, SenderOnNode, Typed, Links
  <2>1. nxt[cursor[w]] \in Links
    BY <2>0 DEF Typed
  <2>2. Typed'
    BY <1>18, <2>1 DEF Cancel, Typed
  <2>3. \A u \in Threads : Kept(u)
    BY <1>18 DEF Cancel, Kept
  <2>4. SenderOnNode'
    BY <1>18 DEF Cancel, SenderOnNode, Typed
  <2>5. QED
    BY <2>2, <2>3, <2>4, FitKept DEF IndicesFit
<1>19. ASSUME NEW w \in Waitables, SignalDone(w) PROVE Shape'
  <2>1. Typed'
    BY <1>19 DEF SignalDone, Typed
  <2>2. \A u \in Threads : Kept(u)
    BY <1>19 DEF SignalDone, Kept
  <2>3. sending[w] = None
    BY <1>19, HeadsAre DEF SignalDone, SenderOnNode
  <2>4. SenderOnNode'
    BY <1>19, <2>3 DEF SignalDone, SenderOnNode, Typed
  <2>5. QED
    BY <2>1, <2>2, <2>4, FitKept DEF IndicesFit
<1>20. ASSUME NEW e \in Events, Fire(e) PROVE Shape'
  <2>1. Typed'
    BY <1>20 DEF Fire, Typed, All
  <2>2. \A u \in Threads : Kept(u)
    BY <1>20 DEF Fire, Kept
  <2>3. SenderOnNode'
    BY <1>20 DEF Fire, SenderOnNode
  <2>4. QED
    BY <2>1, <2>2, <2>3, FitKept DEF IndicesFit
<1>21. CASE UNCHANGED vars
  <2>1. Typed' /\ SenderOnNode'
    BY <1>21 DEF Typed, SenderOnNode, vars
  <2>2. \A u \in Threads : Kept(u)
    BY <1>21 DEF Kept, vars
  <2>3. QED
    BY <2>1, <2>2, FitKept DEF IndicesFit
<1>22. QED
  BY <1>1, <1>2, <1>3, <1>4, <1>5, <1>6, <1>7, <1>8, <1>9, <1>10, <1>11, <1>12, <1>13,
     <1>14, <1>15, <1>16, <1>17, <1>18, <1>19, <1>20, <1>21 DEF Next, Wait, SignalStep

\* The steps of a thread that leave every list and every walk alone.
LEMMA ListsKept ==
    ASSUME NEW t \in Threads,
           \/ Call(t) \/ Retry(t) \/ Return(t) \/ BeginHandle(t) \/ BeginSignalled(t)
           \/ BeginDone(t) \/ WaitReady(t) \/ ClearEvent(t) \/ OnTimeout(t)
           \/ WaitCancelled(t) \/ OnSignal(t) \/ WaitTimesOut(t) \/ Expire(t)
    PROVE  UNCHANGED <<nxt, prv, cursor, sending>>
BY DEF lists, signaller, Call, Retry, Return, BeginHandle, BeginSignalled, BeginDone,
       WaitReady, ClearEvent, OnTimeout, WaitCancelled, OnSignal, WaitTimesOut,
       Expire

LEMMA HomesStep ==
    TypeInv /\ [Next]_vars => Homes'
<1> SUFFICES ASSUME TypeInv, [Next]_vars PROVE Homes'
  OBVIOUS
<1> USE DEF TypeInv, Shape, lists
<1>0. /\ \A x \in Links : nxt[x] \in Links /\ prv[x] \in Links
      /\ \A w \in Waitables : w \in Links /\ Home(w) = w
  BY HeadsAre DEF Typed, Home
<1>1. CASE UNCHANGED <<nxt, prv, cursor>>
  BY <1>1 DEF Homes
<1>2. ASSUME NEW t \in Threads, BeginListen(t) PROVE Homes'
  <2> DEFINE n == <<t, index[t]>>
  <2>1. n \in Nodes /\ Target(t) \in Waitables /\ LinkNode(n, Target(t))
    BY <1>2, NodesAre DEF BeginListen
  <2>2. n \in Links /\ n \notin Waitables /\ Home(n) = Target(t)
    BY <2>1, NodesAssumption DEF Links, Home, Target
  <2> HIDE DEF n
  <2>3. /\ nxt'[Target(t)] = n /\ nxt'[n] = nxt[Target(t)] /\ prv'[n] = Target(t)
        /\ \A x \in Links \ {n, Target(t)} : nxt'[x] = nxt[x]
        /\ \A x \in Links \ {n} : prv'[x] = prv[x]
    BY <2>1, LinkDoes
  <2>4. \A x \in Links : Home(nxt'[x]) = Home(x) /\ Home(prv'[x]) = Home(x)
    BY <1>0, <2>1, <2>2, <2>3 DEF Homes
  <2>5. UNCHANGED cursor
    BY <1>2 DEF BeginListen, signaller
  <2>6. QED
    BY <2>4, <2>5 DEF Homes
<1>3. ASSUME NEW t \in Threads, CleanUp(t) PROVE Homes'
  <2> DEFINE n == <<t, Min(added[t])>>
  <2>1. n \in Nodes /\ UnlinkNode(n)
    BY <1>3, MinOf, NodesAre DEF CleanUp, Typed, IndicesFit, Fit
  <2> HIDE DEF n
  <2>2. n \in Links
    BY <2>1 DEF Links
  <2>3. /\ nxt' \in [Links -> Links]
        /\ nxt' = [nxt EXCEPT ![prv[n]] = nxt[n]]
        /\ prv' = [prv EXCEPT ![nxt'[n]] = prv[n]]
    BY <2>1, UnlinkDoes
  <2>4. \A x \in Links : Home(nxt'[x]) = Home(x)
    BY <1>0, <2>2, <2>3 DEF Homes, Typed
  <2>5. \A x \in Links : Home(prv'[x]) = Home(x)
    BY <1>0, <2>2, <2>3, <2>4 DEF Homes, Typed
  <2>6. UNCHANGED cursor
    BY <1>3 DEF CleanUp, signaller
  <2>7. QED
    BY <2>4, <2>5, <2>6 DEF Homes
<1>4. ASSUME NEW w \in Waitables, Signal(w) PROVE Homes'
  BY <1>0, <1>4 DEF Signal, Homes, Typed
<1>5. ASSUME NEW w \in Waitables, SignalStep(w) PROVE Homes'
  <2>1. UNCHANGED <<nxt, prv>>
    BY <1>5 DEF SignalStep, Notify, Cancel, SignalDone
  <2>2. cursor[w] # None /\ cursor[w] \in Links
    BY <1>5 DEF SignalStep, Notify, Cancel, SignalDone, Free, Typed
  <2>3. \/ UNCHANGED cursor
        \/ cursor' = [cursor EXCEPT ![w] = nxt[@]]
        \/ cursor' = [cursor EXCEPT ![w] = None]
    BY <1>5 DEF SignalStep, Notify, Cancel, SignalDone
  <2>4. Home(nxt[cursor[w]]) = w
    BY <2>2 DEF Homes
  <2>5. QED
    BY <2>1, <2>2, <2>3, <2>4 DEF Homes, Typed
<1>6. ASSUME NEW e \in Events, Fire(e) PROVE Homes'
  BY <1>1, <1>6 DEF Fire, signaller
<1>7. CASE UNCHANGED vars
  BY <1>1, <1>7 DEF vars
<1>8. QED
  BY <1>1, <1>2, <1>3, <1>4, <1>5, <1>6, <1>7, ListsKept DEF Next, Wait

\* The types, the places where an index is needed, and that no list loses its
\* way into another one hold in every reachable state.
LEMMA TypeInvAlways == Spec => []TypeInv
<1>1. TypeInv /\ [Next]_vars => TypeInv'
  BY ShapeStep, HomesStep DEF TypeInv
<1>2. QED
  BY TypeInit, <1>1, PTL DEF Spec

\* Every step leaves the variables in their types: loop indices stay within the
\* array, listeners and results point into it, and nobody is about to be
\* cancelled by a waitable whose mutex is free (wait.cpp:98, waitImpl).
THEOREM TypeCorrect == Spec => []TypeOK
<1>1. TypeInv => TypeOK
  <2> SUFFICES ASSUME TypeInv PROVE TypeOK
    OBVIOUS
  <2>1. Typed /\ IndicesFit /\ SenderOnNode
    BY DEF TypeInv, Shape
  <2>2. \A n \in DOMAIN nxt : {nxt[n], prv[n]} \subseteq Nodes \cup Waitables
    BY <2>1 DEF Typed, Links
  <2>3. \A w \in Waitables : cursor[w] = None => sending[w] = None
    BY <2>1, NodesAssumption DEF SenderOnNode
  <2>4. QED
    BY <2>1, <2>2, <2>3 DEF TypeOK, Typed, IndicesFit, Fit, Places, Results, All
<1>2. QED
  BY TypeInvAlways, <1>1, PTL

-----------------------------------------------------------------------------
\* Firings and takes.

LEMMA LedgerStep ==
    TypeInv /\ Ledger /\ [Next]_vars => Ledger'
<1> SUFFICES ASSUME TypeInv, Ledger, [Next]_vars PROVE Ledger'
  OBVIOUS
<1> USE DEF TypeInv, Shape
<1>1. CASE UNCHANGED <<signalled, fires, taken>>
  BY <1>1 DEF Ledger
<1>2. ASSUME NEW o \in signalled, Take(o), UNCHANGED fires PROVE Ledger'
  <2>1. \A x \in All : taken[x] \in Nat /\ fires[x] \in Nat
    BY DEF Typed
  <2>2. o \in All /\ taken'[o] = taken[o] + 1 /\ signalled' = signalled \ {o}
        /\ \A x \in All \ {o} : taken'[x] = taken[x]
    BY <1>2, TakeDoes DEF Typed
  <2>3. QED
    BY <1>2, <2>1, <2>2 DEF Ledger
<1>3. ASSUME NEW o \in All, signalled' = signalled \cup {o}, UNCHANGED taken,
             fires' = [fires EXCEPT ![o] = @ + 1]
      PROVE  Ledger'
  <2>1. \A x \in All : taken[x] \in Nat /\ fires[x] \in Nat
    BY DEF Typed
  <2>2. fires'[o] = fires[o] + 1 /\ \A x \in All \ {o} : fires'[x] = fires[x]
    BY <1>3 DEF Typed
  <2>3. QED
    BY <1>3, <2>1, <2>2 DEF Ledger
<1>4. ASSUME NEW t \in Threads,
             BeginSignalled(t) \/ ClearEvent(t) \/ OnSignal(t)
      PROVE  Ledger'
  BY <1>1, <1>2, <1>4 DEF BeginSignalled, ClearEvent, OnSignal
<1>5. ASSUME NEW t \in Threads,
             \/ Call(t) \/ Retry(t) \/ Return(t) \/ BeginHandle(t) \/ BeginListen(t)
             \/ BeginDone(t) \/ WaitReady(t) \/ OnTimeout(t) \/ WaitCancelled(t)
             \/ CleanUp(t) \/ WaitTimesOut(t) \/ Expire(t)
      PROVE  Ledger'
  BY <1>1, <1>5 DEF Call, Retry, Return, BeginHandle, BeginListen, BeginDone, WaitReady,
     OnTimeout, WaitCancelled, CleanUp, WaitTimesOut, Expire
<1>6. ASSUME NEW w \in Waitables, Signal(w) PROVE Ledger'
  BY <1>3, <1>6 DEF Signal, All
<1>7. ASSUME NEW w \in Waitables, SignalStep(w) PROVE Ledger'
  BY <1>1, <1>7 DEF SignalStep, Notify, Cancel, SignalDone
<1>8. ASSUME NEW e \in Events, Fire(e) PROVE Ledger'
  BY <1>3, <1>8 DEF Fire, All
<1>9. CASE UNCHANGED vars
  BY <1>1, <1>9 DEF vars
<1>10. QED
  BY <1>4, <1>5, <1>6, <1>7, <1>8, <1>9 DEF Next, Wait

\* One firing of an object releases at most one waiter, however many threads
\* find it signalled at once: the loser of the race for ResetSignal or for
\* onSignal goes round again (wait.cpp:78, :105).
THEOREM OneTaker == Spec => []OneTakerPerFiring
<1>1. Init => Ledger
  BY DEF Init, Ledger, All
<1>2. TypeInv /\ Ledger => OneTakerPerFiring
  BY ObjectsAssumption DEF Ledger, OneTakerPerFiring, All
<1>3. QED
  BY TypeInvAlways, LedgerStep, <1>1, <1>2, PTL DEF Spec

-----------------------------------------------------------------------------
\* The listener lists and the walks through them.

LEMMA ListenersAre ==
    ASSUME TypeInv, NEW w \in Waitables, NEW n \in Listeners(w)
    PROVE  /\ n \in Nodes /\ n \in Links /\ n # w /\ Home(n) = w
           /\ n[1] \in Threads /\ n[2] \in added[n[1]]
BY HeadsAre, NodesAssumption, NodesAre DEF Listeners, NodesOf, Home, Links

LEMMA ListenersKept ==
    ASSUME \A t \in Threads : added'[t] = added[t]
    PROVE  \A w \in Waitables : Listeners(w)' = Listeners(w)
BY NodesAre DEF Listeners, NodesOf

\* What a step leaves of a list, as far as Order looks at it.
Same(w) ==
    /\ Listeners(w)' = Listeners(w)
    /\ \A x \in Links : Home(x) = w => nxt'[x] = nxt[x] /\ prv'[x] = prv[x]
    /\ cursor'[w] = cursor[w] /\ sending'[w] = sending[w]
    /\ \A n \in Listeners(w) :
          /\ Due(w, n)' => Due(w, n)
          /\ triggered[n[1]] # None => triggered'[n[1]] # None

LEMMA PlacesAre ==
    ASSUME TypeInv, NEW w \in Waitables, NEW k \in Nat, NEW s, Stacked(w, k, s)
    PROVE  /\ \A i \in 1..k : s[i] \in Listeners(w) /\ s[i] \in Links /\ s[i] # w /\ s[i] # None
           /\ \A i \in 0..k : At(w, s, i) \in Links /\ Home(At(w, s, i)) = w
           /\ \A i \in 0..k : At(w, s, i) # None
<1>1. \A i \in 1..k : s[i] \in Listeners(w)
  BY DEF Stacked
<1>2. \A i \in 1..k : s[i] \in Links /\ s[i] # w /\ s[i] # None /\ Home(s[i]) = w
  BY <1>1, ListenersAre, NodesAssumption
<1>3. w \in Links /\ Home(w) = w /\ w # None
  BY HeadsAre DEF Home
<1>4. \A i \in 0..k : i = 0 \/ i \in 1..k
  OBVIOUS
<1>5. QED
  BY <1>1, <1>2, <1>3, <1>4 DEF At

\* The thread that is about to be cancelled is that of the node the walk is at.
LEMMA SentListens ==
    ASSUME TypeInv, NEW w \in Waitables, sending[w] # None,
           NEW k \in Nat, NEW s, NEW p, Stacked(w, k, s), Walked(w, k, s, p)
    PROVE  p \in 1..k /\ sending[w] = s[p][1] /\ s[p] \in Listeners(w)
<1>1. cursor[w] \in Nodes /\ sending[w] = cursor[w][1]
  BY DEF TypeInv, Shape, SenderOnNode
<1>2. cursor[w] # None /\ cursor[w] # w
  BY <1>1, HeadsAre, NodesAssumption
<1>3. p \in 1..k /\ cursor[w] = s[p]
  BY <1>2 DEF Walked, At
<1>4. QED
  BY <1>1, <1>3, PlacesAre

LEMMA StackedKept ==
    ASSUME TypeInv, NEW w \in Waitables, NEW k \in Nat, NEW s, Stacked(w, k, s),
           Listeners(w)' = Listeners(w),
           \A x \in Links : Home(x) = w => nxt'[x] = nxt[x] /\ prv'[x] = prv[x]
    PROVE  Stacked(w, k, s)'
<1>1. /\ \A i \in 1..k : s[i] \in Links /\ Home(s[i]) = w
      /\ w \in Links /\ Home(w) = w
      /\ At(w, s, k) \in Links /\ Home(At(w, s, k)) = w
  BY PlacesAre, ListenersAre, HeadsAre DEF Home
<1>2. /\ nxt'[w] = nxt[w] /\ prv'[At(w, s, k)] = prv[At(w, s, k)]
      /\ \A i \in 1..k : nxt'[s[i]] = nxt[s[i]]
  BY <1>1
<1>3. QED
  BY <1>2 DEF Stacked, At

LEMMA OrderKept ==
    ASSUME TypeInv, NEW w \in Waitables, Order(w), Same(w)
    PROVE  Order(w)'
<1>1. PICK k \in Nat : \E s \in [1..k -> Nodes], p \in 0..k :
                         Stacked(w, k, s) /\ Walked(w, k, s, p)
  BY DEF Order
<1>2. PICK s \in [1..k -> Nodes], p \in 0..k : Stacked(w, k, s) /\ Walked(w, k, s, p)
  BY <1>1
<1>3. Stacked(w, k, s)'
  BY <1>2, StackedKept DEF Same
<1>4. \A q \in (p + 1)..k : Due(w, s[q])' => triggered'[s[q][1]] # None
  <2> SUFFICES ASSUME NEW q \in (p + 1)..k, Due(w, s[q])'
               PROVE  triggered'[s[q][1]] # None
    OBVIOUS
  <2>1. s[q] \in Listeners(w)
    BY <1>2, PlacesAre
  <2>2. Due(w, s[q])
    BY <2>1 DEF Same
  <2>3. triggered[s[q][1]] # None
    BY <1>2, <2>2 DEF Walked
  <2>4. QED
    BY <2>1, <2>3 DEF Same
<1>5. sending'[w] # None => triggered'[sending'[w]] # None
  <2> SUFFICES ASSUME sending[w] # None PROVE triggered'[sending[w]] # None
    BY DEF Same
  <2>1. sending[w] = s[p][1] /\ s[p] \in Listeners(w)
    BY <1>2, SentListens
  <2>2. triggered[sending[w]] # None
    BY <1>2 DEF Walked
  <2>3. QED
    BY <2>1, <2>2 DEF Same
<1>6. Walked(w, k, s, p)'
  BY <1>2, <1>4, <1>5 DEF Walked, Same, At
<1>7. QED
  BY <1>3, <1>6 DEF Order

\* The steps of a thread that leave every list and every walk alone leave to
\* every list its order: who begins a round anew has no listener.
LEMMA ThreadKeeps ==
    ASSUME TypeInv, NEW w \in Waitables, NEW t \in Threads,
           \/ Call(t) \/ Retry(t) \/ Return(t) \/ BeginHandle(t) \/ BeginSignalled(t)
           \/ BeginDone(t) \/ WaitReady(t) \/ ClearEvent(t) \/ OnTimeout(t)
           \/ WaitCancelled(t) \/ OnSignal(t) \/ WaitTimesOut(t) \/ Expire(t)
    PROVE  Same(w)
<1> USE DEF TypeInv, Shape
<1>1. UNCHANGED <<nxt, prv, cursor, sending, missed>>
  BY DEF lists, signaller, Call, Retry, Return, BeginHandle, BeginSignalled, BeginDone,
     WaitReady, ClearEvent, OnTimeout, WaitCancelled, OnSignal, WaitTimesOut, Expire
<1>2. CASE Call(t) \/ Retry(t) \/ Return(t)
  <2>1. added[t] = {} /\ signalled' = signalled
    BY <1>2 DEF Call, Retry, Return, IndicesFit, Fit
  <2>2. /\ added' = [added EXCEPT ![t] = {}]
        /\ \A u \in Threads \ {t} : pc'[u] = pc[u] /\ triggered'[u] = triggered[u]
    BY <1>2 DEF Call, Retry, Return, Locals, Typed
  <2>3. Listeners(w)' = Listeners(w)
    BY <2>1, <2>2, ListenersKept DEF Typed
  <2>4. \A n \in Listeners(w) : n[1] \in Threads \ {t}
    BY <2>1, ListenersAre
  <2>5. QED
    BY <1>1, <2>1, <2>2, <2>3, <2>4 DEF Same, Due, Waiting
<1>3. CASE ~(Call(t) \/ Retry(t) \/ Return(t))
  <2>1. UNCHANGED <<added, triggered>>
    BY <1>3 DEF own, locals, BeginHandle, BeginSignalled, BeginDone, WaitReady, ClearEvent,
       OnTimeout, WaitCancelled, OnSignal, WaitTimesOut, Expire
  <2>2. signalled' \subseteq signalled
    BY <1>3 DEF BeginHandle, BeginSignalled, BeginDone, WaitReady, ClearEvent,
       OnTimeout, WaitCancelled, OnSignal, WaitTimesOut, Expire, Take
  <2>3. \A u \in Threads : Waiting(u)' => Waiting(u)
    <3>1. CASE BeginHandle(t) \/ BeginDone(t) \/ Expire(t)
      BY <3>1 DEF BeginHandle, BeginDone, Expire, own, Waiting, Typed
    <3>2. CASE BeginSignalled(t) \/ ClearEvent(t) \/ OnSignal(t) \/ WaitReady(t)
      BY <3>2 DEF BeginSignalled, ClearEvent, OnSignal, WaitReady, EndRound, Waiting, Typed
    <3>3. CASE OnTimeout(t) \/ WaitCancelled(t) \/ WaitTimesOut(t)
      BY <3>3 DEF OnTimeout, WaitCancelled, WaitTimesOut, EndRound, Waiting, Typed
    <3>4. QED
      BY <1>3, <3>1, <3>2, <3>3
  <2>4. Listeners(w)' = Listeners(w)
    BY <2>1, ListenersKept
  <2>5. \A n \in Listeners(w) : n[1] \in Threads
    BY ListenersAre
  <2>6. QED
    BY <1>1, <2>1, <2>2, <2>3, <2>4, <2>5 DEF Same, Due
<1>4. QED
  BY <1>2, <1>3

\* A new listener is put on top of its list, and the others stay as they are.
LEMMA ListenKeeps ==
    ASSUME TypeInv, NEW w \in Waitables, NEW t \in Threads, BeginListen(t), Order(w)
    PROVE  Order(w)'
<1> USE DEF TypeInv, Shape
<1>0. <<t, index[t]>> \in Nodes /\ Target(t) \in Waitables
      /\ LinkNode(<<t, index[t]>>, Target(t))
  BY NodesAre DEF BeginListen
<1>1. PICK n \in Nodes, v \in Waitables :
        n = <<t, index[t]>> /\ v = Target(t) /\ LinkNode(n, v) /\ n[1] = t /\ n[2] = index[t]
  BY <1>0
<1>2. n \in Links /\ n \notin Waitables /\ Home(n) = v /\ n \in NodesOf(v)
  BY <1>1, NodesAssumption DEF Links, Home, Target, NodesOf
<1>3. /\ index[t] \notin added[t] /\ added' = [added EXCEPT ![t] = @ \cup {index[t]}]
      /\ cursor[v] = None /\ v \notin signalled
      /\ UNCHANGED <<pc, triggered, signalled, cursor, sending, missed>>
  BY <1>1 DEF BeginListen, IndicesFit, Fit, Free, signaller
<1>4. \A m \in Nodes : m[2] \in added'[m[1]] <=> m[2] \in added[m[1]] \/ m = n
  <2> SUFFICES ASSUME NEW m \in Nodes
               PROVE  m[2] \in added'[m[1]] <=> m[2] \in added[m[1]] \/ m = n
    OBVIOUS
  <2>1. m[1] \in Threads /\ m = <<m[1], m[2]>>
    BY NodesAre
  <2>2. CASE m[1] = t
    <3>1. added'[t] = added[t] \cup {n[2]}
      BY <1>1, <1>3 DEF Typed
    <3>2. m = n <=> m[2] = n[2]
      BY <1>1, <2>1, <2>2
    <3>3. QED
      BY <2>2, <3>1, <3>2
  <2>3. CASE m[1] # t
    BY <1>1, <1>3, <2>1, <2>3 DEF Typed
  <2>4. QED
    BY <2>2, <2>3
<1>5. Listeners(v)' = Listeners(v) \cup {n} /\ n \notin Listeners(v)
  BY <1>1, <1>2, <1>3, <1>4 DEF Listeners, NodesOf
<1>6. /\ nxt'[v] = n /\ nxt'[n] = nxt[v] /\ prv'[n] = v
      /\ \A x \in Links \ {n, v} : nxt'[x] = nxt[x]
      /\ \A x \in Links \ {n} : prv'[x] = prv[x]
  BY <1>1, LinkDoes
<1>7. CASE w # v
  <2>1. Listeners(w)' = Listeners(w)
    BY <1>2, <1>4, <1>7 DEF Listeners, NodesOf
  <2>2. \A x \in Links : Home(x) = w => x # n /\ x # v
    BY <1>2, <1>7 DEF Home
  <2>3. Same(w)
    BY <1>3, <1>6, <2>1, <2>2 DEF Same, Due, Waiting
  <2>4. QED
    BY <2>3, OrderKept
<1>8. CASE w = v
  <2>1. PICK k \in Nat : \E s \in [1..k -> Nodes], p \in 0..k :
                           Stacked(v, k, s) /\ Walked(v, k, s, p)
    BY <1>8 DEF Order
  <2>2. PICK s \in [1..k -> Nodes], p \in 0..k : Stacked(v, k, s) /\ Walked(v, k, s, p)
    BY <2>1
  <2>3. PICK z : z = [i \in 1..(k + 1) |-> IF i = k + 1 THEN n ELSE s[i]]
    OBVIOUS
  <2>4. /\ z \in [1..(k + 1) -> Nodes] /\ z[k + 1] = n
        /\ \A i \in 1..k : z[i] = s[i] /\ i \in 1..(k + 1)
        /\ \A i \in 1..(k + 1) : i = k + 1 \/ i \in 1..k
        /\ k + 1 \in 1..(k + 1) /\ k + 1 # 0
    BY <2>3
  <2>5. \A i \in 1..k : s[i] \in Listeners(v) /\ s[i] \in Links \ {n, v}
    BY <1>5, <2>2, PlacesAre
  <2>6. \A i \in 0..k : At(v, z, i) = At(v, s, i)
    BY <2>4 DEF At
  <2>7. Stacked(v, k + 1, z)'
    <3>1. Listeners(v)' = {z[i] : i \in 1..(k + 1)}
      BY <1>5, <2>2, <2>4 DEF Stacked
    <3>2. \A i, j \in 1..(k + 1) : z[i] = z[j] => i = j
      BY <2>2, <2>4, <2>5 DEF Stacked
    <3>3. nxt'[v] = At(v, z, k + 1) /\ prv'[At(v, z, k + 1)] = v
      BY <1>6, <2>4 DEF At
    <3>4. ASSUME NEW i \in 1..(k + 1) PROVE nxt'[z[i]] = At(v, z, i - 1)
      <4>1. CASE i = k + 1
        <5>1. nxt[v] = At(v, s, k) /\ i - 1 = k /\ k \in 0..k
          BY <2>2, <4>1 DEF Stacked
        <5>2. QED
          BY <1>6, <2>4, <2>6, <4>1, <5>1
      <4>2. CASE i \in 1..k
        <5>1. nxt'[s[i]] = nxt[s[i]] /\ i - 1 \in 0..k
          BY <1>6, <2>5, <4>2
        <5>2. nxt[s[i]] = At(v, s, i - 1)
          BY <2>2, <4>2 DEF Stacked
        <5>3. QED
          BY <2>4, <2>6, <4>2, <5>1, <5>2
      <4>3. QED
        BY <2>4, <4>1, <4>2
    <3>5. QED
      BY <2>4, <3>1, <3>2, <3>3, <3>4 DEF Stacked, At
  <2>8. Walked(v, k + 1, z, 0)'
    BY <1>3, <2>2 DEF Walked, Due
  <2>9. QED
    BY <1>8, <2>4, <2>7, <2>8 DEF Order
<1>9. QED
  BY <1>7, <1>8

\* The newest listener is taken off its list and leaves it as it was before it
\* came; the removal of another leaves a disordered list.
LEMMA CleanUpKeeps ==
    ASSUME TypeInv, NEW w \in Waitables, NEW t \in Threads, CleanUp(t),
           w \notin disordered', Order(w)
    PROVE  Order(w)'
<1> USE DEF TypeInv, Shape
<1>0. Min(added[t]) \in added[t] /\ added[t] # {}
  BY MinOf DEF CleanUp, Typed
<1>1. PICK n \in Nodes, v \in Waitables :
        /\ n = <<t, Min(added[t])>> /\ v = Objects[t][Min(added[t])] /\ UnlinkNode(n)
        /\ n[1] = t /\ n[2] = Min(added[t])
  <2>1. <<t, Min(added[t])>> \in Nodes /\ Objects[t][Min(added[t])] \in Waitables
    BY <1>0, NodesAre DEF IndicesFit, Fit
  <2>2. QED
    BY <2>1 DEF CleanUp
<1>2. n \in Listeners(v) /\ n \in Links /\ v \in Links /\ n # v /\ Home(n) = v /\ Home(v) = v
  BY <1>0, <1>1, HeadsAre, NodesAssumption DEF Listeners, NodesOf, Links, Home
<1>3. /\ added' = [added EXCEPT ![t] = @ \ {n[2]}] /\ cursor[v] = None
      /\ disordered' = disordered \cup {u \in {v} : nxt[u] # n} /\ missed' = missed \ {n}
      /\ UNCHANGED <<pc, triggered, signalled, cursor, sending>>
  BY <1>1 DEF CleanUp, Free
<1>4. \A m \in Nodes : m[2] \in added'[m[1]] <=> m[2] \in added[m[1]] /\ m # n
  <2> SUFFICES ASSUME NEW m \in Nodes
               PROVE  m[2] \in added'[m[1]] <=> m[2] \in added[m[1]] /\ m # n
    OBVIOUS
  <2>1. m[1] \in Threads /\ m = <<m[1], m[2]>>
    BY NodesAre
  <2>2. CASE m[1] = t
    BY <1>1, <1>3, <2>1, <2>2 DEF Typed
  <2>3. CASE m[1] # t
    BY <1>1, <1>3, <2>1, <2>3 DEF Typed
  <2>4. QED
    BY <2>2, <2>3
<1>5. Listeners(v)' = Listeners(v) \ {n}
  BY <1>1, <1>4 DEF Listeners, NodesOf
<1>6. /\ nxt' = [nxt EXCEPT ![prv[n]] = nxt[n]] /\ prv' = [prv EXCEPT ![nxt'[n]] = prv[n]]
      /\ nxt' \in [Links -> Links]
  BY <1>1, UnlinkDoes
<1>7. CASE w # v
  <2>1. Listeners(w)' = Listeners(w)
    BY <1>1, <1>4, <1>7 DEF Listeners, NodesOf
  <2>2. Home(prv[n]) = v /\ Home(nxt[n]) = v /\ prv[n] \in Links /\ nxt[n] \in Links
    BY <1>2 DEF Homes, Typed
  <2>3. Home(nxt'[n]) = v
    BY <1>2, <1>6, <2>2 DEF Typed
  <2>4. \A x \in Links : Home(x) = w => nxt'[x] = nxt[x] /\ prv'[x] = prv[x]
    BY <1>6, <1>7, <2>2, <2>3 DEF Typed
  <2>5. \A m \in Listeners(w) : m \notin missed => m \notin missed'
    BY <1>3
  <2>6. \A m \in Listeners(w) : m # n
    BY <1>2, <1>7, ListenersAre
  <2>7. Same(w)
    BY <1>3, <2>1, <2>4, <2>6 DEF Same, Due, Waiting
  <2>8. QED
    BY <2>7, OrderKept
<1>8. CASE w = v
  <2>1. PICK k \in Nat : \E s \in [1..k -> Nodes], p \in 0..k :
                           Stacked(v, k, s) /\ Walked(v, k, s, p)
    BY <1>8 DEF Order
  <2>2. PICK s \in [1..k -> Nodes], p \in 0..k : Stacked(v, k, s) /\ Walked(v, k, s, p)
    BY <2>1
  <2>3. nxt[v] = n
    BY <1>3, <1>8
  <2>4. k \in 1..k /\ k - 1 \in Nat /\ s[k] = n
    BY <1>2, <2>2, <2>3 DEF Stacked, At
  <2>5. PICK z : z = [i \in 1..(k - 1) |-> s[i]]
    OBVIOUS
  <2>6. /\ z \in [1..(k - 1) -> Nodes]
        /\ \A i \in 1..(k - 1) : z[i] = s[i] /\ i \in 1..k /\ i # k
        /\ \A i \in 1..k : i = k \/ i \in 1..(k - 1)
    BY <2>4, <2>5
  <2>7. ASSUME NEW i \in 1..(k - 1) PROVE s[i] \in Listeners(v) /\ s[i] \in Links \ {n, v}
    <3>1. i \in 1..k /\ i # k
      BY <2>6
    <3>2. s[i] \in Listeners(v) /\ s[i] \in Links /\ s[i] # v
      BY <2>2, <3>1, PlacesAre
    <3>3. s[i] # n
      BY <2>2, <2>4, <3>1 DEF Stacked
    <3>4. QED
      BY <3>2, <3>3
  <2>8. \A i \in 0..(k - 1) : At(v, z, i) = At(v, s, i) /\ i \in 0..k /\ (i = 0 \/ i \in 1..(k - 1))
    BY <2>4, <2>6 DEF At
  <2>9. prv[n] = v /\ nxt[n] = At(v, s, k - 1)
    BY <2>2, <2>4 DEF Stacked, At
  <2>10. At(v, s, k - 1) \in Links /\ At(v, s, k - 1) # n
    <3>1. At(v, s, k - 1) \in Links
      BY <2>2, <2>4, PlacesAre
    <3>2. At(v, s, k - 1) # n
      BY <1>2, <2>4, <2>7 DEF At
    <3>3. QED
      BY <3>1, <3>2
  <2>11. /\ nxt'[v] = At(v, s, k - 1) /\ prv'[At(v, s, k - 1)] = v
         /\ \A x \in Links \ {v} : nxt'[x] = nxt[x]
    <3>1. nxt' = [nxt EXCEPT ![v] = At(v, s, k - 1)]
      BY <1>6, <2>9
    <3>2. nxt'[n] = At(v, s, k - 1) /\ nxt'[v] = At(v, s, k - 1)
          /\ \A x \in Links \ {v} : nxt'[x] = nxt[x]
      BY <1>2, <2>9, <3>1 DEF Typed
    <3>3. prv' = [prv EXCEPT ![At(v, s, k - 1)] = v]
      BY <1>6, <2>9, <3>2
    <3>4. QED
      BY <2>10, <3>2, <3>3 DEF Typed
  <2>12. Stacked(v, k - 1, z)'
    <3>1. Listeners(v)' = {z[i] : i \in 1..(k - 1)}
      BY <1>5, <2>2, <2>4, <2>6, <2>7 DEF Stacked
    <3>2. \A i, j \in 1..(k - 1) : z[i] = z[j] => i = j
      BY <2>2, <2>6 DEF Stacked
    <3>3. nxt'[v] = At(v, z, k - 1) /\ prv'[At(v, z, k - 1)] = v
      BY <2>4, <2>8, <2>11
    <3>4. ASSUME NEW i \in 1..(k - 1) PROVE nxt'[z[i]] = At(v, z, i - 1)
      <4>1. nxt'[s[i]] = nxt[s[i]]
        BY <2>7, <2>11
      <4>2. nxt[s[i]] = At(v, s, i - 1) /\ i - 1 \in 0..(k - 1)
        BY <2>2, <2>6 DEF Stacked
      <4>3. QED
        BY <2>6, <2>8, <4>1, <4>2
    <3>5. QED
      BY <2>6, <3>1, <3>2, <3>3, <3>4 DEF Stacked, At
  <2>13. Walked(v, k - 1, z, 0)'
    <3>1. \A q \in 1..(k - 1) : Due(v, z[q])' => triggered'[z[q][1]] # None
      <4> SUFFICES ASSUME NEW q \in 1..(k - 1), Due(v, z[q])'
                   PROVE  triggered[s[q][1]] # None
        BY <1>3, <2>6
      <4>1. Due(v, s[q])
        BY <1>3, <2>6, <2>7 DEF Due, Waiting
      <4>2. p = 0
        BY <1>3, <2>2, PlacesAre DEF Walked
      <4>3. q \in (p + 1)..k
        BY <2>6, <4>2
      <4>4. QED
        BY <2>2, <4>1, <4>3 DEF Walked
    <3>2. QED
      BY <1>3, <2>2, <2>4, <3>1 DEF Walked
  <2>14. QED
    BY <1>8, <2>4, <2>6, <2>12, <2>13 DEF Order
<1>9. QED
  BY <1>7, <1>8

\* A walk begins at the newest listener, tells each it passes, and ends at the head.
LEMMA WalkKeeps ==
    ASSUME TypeInv, NEW w \in Waitables, NEW v \in Waitables, Signal(v) \/ SignalStep(v), Order(w)
    PROVE  Order(w)'
<1> USE DEF TypeInv, Shape
<1>1. UNCHANGED <<pc, added, nxt, prv>>
  BY DEF own, locals, lists, Signal, SignalStep, Notify, Cancel, SignalDone
<1>2. \A u \in Waitables : Listeners(u)' = Listeners(u)
  BY <1>1, ListenersKept
<1>3. /\ \A u \in Waitables \ {v} : cursor'[u] = cursor[u] /\ sending'[u] = sending[u]
      /\ \A u \in Waitables \ {v} : u \in signalled' => u \in signalled
      /\ missed \subseteq missed'
  BY DEF Signal, SignalStep, Notify, Cancel, SignalDone, Typed
<1>4. \A u \in Threads : triggered[u] # None => triggered'[u] # None
  <2>1. CASE UNCHANGED triggered
    BY <2>1
  <2>2. CASE ~UNCHANGED triggered
    <3>1. Notify(v) /\ triggered' = [triggered EXCEPT ![cursor[v][1]] = cursor[v][2]]
      BY <2>2 DEF own, Signal, SignalStep, Notify, Cancel, SignalDone
    <3>2. cursor[v] \in Nodes
      BY <3>1 DEF Notify, Free, Typed, Links, Homes, Home
    <3>3. cursor[v][2] # None
      BY <3>2, NodesAre, IndicesAre
    <3>4. QED
      BY <3>1, <3>3 DEF Typed
  <2>3. QED
    BY <2>1, <2>2
<1>5. CASE w # v
  <2>1. \A n \in Listeners(w) : n[1] \in Threads
    BY ListenersAre
  <2>2. Same(w)
    BY <1>1, <1>2, <1>3, <1>4, <1>5, <2>1 DEF Same, Due, Waiting
  <2>3. QED
    BY <2>2, OrderKept
<1>6. CASE w = v
  <2>1. PICK k \in Nat : \E s \in [1..k -> Nodes], p \in 0..k :
                           Stacked(w, k, s) /\ Walked(w, k, s, p)
    BY DEF Order
  <2>2. PICK s \in [1..k -> Nodes], p \in 0..k : Stacked(w, k, s) /\ Walked(w, k, s, p)
    BY <2>1
  <2>3. Stacked(w, k, s)'
    BY <1>1, <1>2, <2>2, StackedKept
  <2>4. /\ \A q \in 1..k : s[q] \in Listeners(w) /\ s[q] # w /\ s[q] # None /\ s[q][1] \in Threads
        /\ w # None
    BY <2>2, PlacesAre, ListenersAre, HeadsAre
  <2>5. CASE Signal(w)
    <3>1. cursor' = [cursor EXCEPT ![w] = nxt[w]] /\ sending[w] = None /\ sending' = sending
      BY <2>5, NodesAssumption DEF Signal, Free, SenderOnNode
    <3>2. cursor'[w] = At(w, s, k)
      BY <2>2, <3>1 DEF Stacked, Typed
    <3>3. Walked(w, k, s, k)'
      BY <3>1, <3>2 DEF Walked, At
    <3>4. k \in 0..k
      OBVIOUS
    <3>5. QED
      BY <2>3, <3>3, <3>4 DEF Order
  <2>6. CASE SignalDone(w)
    <3>1. /\ cursor' = [cursor EXCEPT ![w] = None] /\ cursor[w] = w
          /\ UNCHANGED <<sending, triggered, signalled, missed>>
      BY <2>6 DEF SignalDone, own
    <3>2. p = 0
      BY <2>2, <2>4, <3>1 DEF Walked, At
    <3>3. cursor'[w] = None
      BY <3>1 DEF Typed
    <3>4. Walked(w, k, s, 0)'
      BY <1>1, <2>2, <3>1, <3>2, <3>3 DEF Walked, Due, Waiting
    <3>5. QED
      BY <2>2, <2>3, <3>2, <3>4 DEF Order
  <2>7. CASE Notify(w) /\ UNCHANGED cursor
    <3>1. /\ cursor[w] # w /\ cursor[w] # None /\ UNCHANGED signalled
          /\ triggered' = [triggered EXCEPT ![cursor[w][1]] = cursor[w][2]]
          /\ sending' = [sending EXCEPT ![w] = cursor[w][1]] /\ UNCHANGED missed
      <4>1. cursor[w] # None /\ cursor[w] # w /\ UNCHANGED signalled
        BY <2>7 DEF Notify, Free
      <4>2. cursor'[w] = cursor[w]
        BY <2>7
      <4>3. p \in 1..k /\ cursor[w] = s[p]
        BY <2>2, <4>1 DEF Walked, At
      <4>4. nxt[s[p]] = At(w, s, p - 1) /\ p - 1 \in 0..k
        BY <2>2, <4>3 DEF Stacked
      <4>5. nxt[s[p]] # s[p]
        BY <2>2, <2>4, <4>3, <4>4 DEF Stacked, At
      <4>6. [cursor EXCEPT ![w] = nxt[@]][w] = nxt[s[p]]
        BY <4>3 DEF Typed
      <4>7. QED
        BY <2>7, <4>1, <4>2, <4>3, <4>5, <4>6 DEF Notify
    <3>2. p \in 1..k /\ cursor[w] = s[p]
      BY <2>2, <3>1 DEF Walked, At
    <3>3. s[p][1] \in Threads /\ s[p][2] # None
      BY <2>4, <3>2, NodesAre, IndicesAre DEF Stacked
    <3>4. sending'[w] = s[p][1] /\ triggered'[s[p][1]] # None
      BY <3>1, <3>2, <3>3 DEF Typed
    <3>5. \A q \in (p + 1)..k : Due(w, s[q])' => triggered'[s[q][1]] # None
      <4> SUFFICES ASSUME NEW q \in (p + 1)..k, Due(w, s[q])' PROVE triggered'[s[q][1]] # None
        OBVIOUS
      <4>1. Due(w, s[q]) /\ q \in 1..k
        BY <1>1, <3>1, <3>2 DEF Due, Waiting
      <4>2. triggered[s[q][1]] # None
        BY <2>2, <4>1 DEF Walked
      <4>3. QED
        BY <1>4, <2>4, <4>1, <4>2
    <3>6. Walked(w, k, s, p)'
      BY <2>2, <2>7, <3>4, <3>5 DEF Walked, At
    <3>7. QED
      BY <2>3, <3>6 DEF Order
  <2>8. CASE (Notify(w) \/ Cancel(w)) /\ cursor' = [cursor EXCEPT ![w] = nxt[@]]
             /\ UNCHANGED triggered
    <3>1. p \in 1..k /\ cursor[w] = s[p]
      <4>1. cursor[w] # None /\ cursor[w] # w
        BY <2>8, HeadsAre, NodesAssumption DEF Notify, Cancel, Free, SenderOnNode
      <4>2. QED
        BY <2>2, <4>1 DEF Walked, At
    <3>2. nxt[s[p]] = At(w, s, p - 1) /\ p - 1 \in 0..k
      BY <2>2, <3>1 DEF Stacked
    <3>3. cursor'[w] = At(w, s, p - 1)
      BY <2>8, <3>1, <3>2 DEF Typed
    <3>4. triggered[s[p][1]] # None \/ s[p] \in missed'
      <4>1. CASE Notify(w)
        <5>1. \/ /\ triggered' = [triggered EXCEPT ![s[p][1]] = s[p][2]]
                 /\ triggered[s[p][1]] = None
              \/ missed' = missed \cup {n \in {s[p]} : triggered[s[p][1]] = None}
          BY <3>1, <4>1 DEF Notify
        <5>2. s[p][1] \in Threads /\ s[p][2] # None
          BY <2>4, <3>1, NodesAre, IndicesAre DEF Stacked
        <5>3. QED
          BY <2>8, <5>1, <5>2 DEF Typed
      <4>2. CASE Cancel(w)
        <5>1. sending[w] # None
          BY <4>2 DEF Cancel
        <5>2. sending[w] = s[p][1]
          BY <2>2, <5>1, SentListens
        <5>3. QED
          BY <2>2, <5>1, <5>2 DEF Walked
      <4>3. QED
        BY <2>8, <4>1, <4>2
    <3>5. UNCHANGED signalled
      BY <2>8 DEF Notify, Cancel
    <3>6. \A q \in ((p - 1) + 1)..k : Due(w, s[q])' => triggered'[s[q][1]] # None
      <4> SUFFICES ASSUME NEW q \in ((p - 1) + 1)..k, Due(w, s[q])'
                   PROVE  triggered[s[q][1]] # None
        BY <2>8
      <4>1. Due(w, s[q]) /\ s[q] \notin missed' /\ (q = p \/ q \in (p + 1)..k)
        BY <1>1, <1>3, <3>1, <3>5 DEF Due, Waiting
      <4>2. QED
        BY <2>2, <3>4, <4>1 DEF Walked
    <3>7. sending'[w] # None => triggered'[sending'[w]] # None
      <4>1. CASE Notify(w)
        <5>1. sending[w] = None
          BY <4>1 DEF Notify
        <5>2. sending'[w] = None
          <6>1. sending'[w] = s[p][1] => triggered' = [triggered EXCEPT ![s[p][1]] = s[p][2]]
                                         \/ UNCHANGED sending
            BY <3>1, <4>1 DEF Notify
          <6>2. UNCHANGED sending \/ (triggered[s[p][1]] = None
                    /\ triggered' = [triggered EXCEPT ![s[p][1]] = s[p][2]])
            BY <3>1, <4>1 DEF Notify
          <6>3. s[p][1] \in Threads /\ s[p][2] # None
            BY <2>4, <3>1, NodesAre, IndicesAre DEF Stacked
          <6>4. QED
            BY <2>8, <5>1, <6>2, <6>3 DEF Typed
        <5>3. QED
          BY <5>2
      <4>2. CASE Cancel(w)
        BY <4>2 DEF Cancel, Typed
      <4>3. QED
        BY <2>8, <4>1, <4>2
    <3>8. Walked(w, k, s, p - 1)'
      BY <3>1, <3>2, <3>3, <3>6, <3>7 DEF Walked, At
    <3>9. QED
      BY <2>3, <3>2, <3>8 DEF Order
  <2>9. QED
    BY <1>6, <2>5, <2>6, <2>7, <2>8 DEF SignalStep, Notify, Cancel, own
<1>7. QED
  BY <1>5, <1>6

LEMMA OrdersStep == TypeInv /\ Orders /\ [Next]_vars => Orders'
<1> SUFFICES ASSUME TypeInv, Orders, [Next]_vars, NEW w \in Waitables, w \notin disordered'
             PROVE  Order(w)'
  BY DEF Orders
<1>1. disordered \subseteq disordered'
  BY DEF lists, vars, Next, Wait, SignalStep, Call, Retry, Return, BeginHandle, BeginSignalled,
     BeginListen, BeginDone, WaitReady, ClearEvent, OnTimeout, WaitCancelled, OnSignal, CleanUp,
     WaitTimesOut, Expire, Signal, Notify, Cancel, SignalDone, Fire
<1>2. Order(w)
  BY <1>1 DEF Orders
<1>3. ASSUME NEW t \in Threads,
             \/ Call(t) \/ Retry(t) \/ Return(t) \/ BeginHandle(t) \/ BeginSignalled(t)
             \/ BeginDone(t) \/ WaitReady(t) \/ ClearEvent(t) \/ OnTimeout(t)
             \/ WaitCancelled(t) \/ OnSignal(t) \/ WaitTimesOut(t) \/ Expire(t)
      PROVE  Order(w)'
  <2>1. Same(w)
    BY <1>3, ThreadKeeps
  <2>2. QED
    BY <1>2, <2>1, OrderKept
<1>4. ASSUME NEW t \in Threads, BeginListen(t) PROVE Order(w)'
  BY <1>2, <1>4, ListenKeeps
<1>5. ASSUME NEW t \in Threads, CleanUp(t) PROVE Order(w)'
  BY <1>2, <1>5, CleanUpKeeps
<1>6. ASSUME NEW v \in Waitables, Signal(v) \/ SignalStep(v) PROVE Order(w)'
  BY <1>2, <1>6, WalkKeeps
<1>7. ASSUME UNCHANGED <<pc, triggered, added, nxt, prv, cursor, sending, missed>>,
             w \in signalled' => w \in signalled
      PROVE  Order(w)'
  <2>1. Listeners(w)' = Listeners(w)
    BY <1>7, ListenersKept
  <2>2. Same(w)
    BY <1>7, <2>1 DEF Same, Due, Waiting
  <2>3. QED
    BY <1>2, <2>2, OrderKept
<1>8. ASSUME NEW e \in Events, Fire(e) PROVE Order(w)'
  BY <1>7, <1>8, ObjectsAssumption DEF Fire, own, lists, signaller
<1>9. CASE UNCHANGED vars
  BY <1>7, <1>9 DEF vars
<1>10. QED
  BY <1>3, <1>4, <1>5, <1>6, <1>8, <1>9 DEF Next, Wait

LEMMA OrdersInit == Init => Orders
<1> SUFFICES ASSUME Init, NEW w \in Waitables PROVE Order(w)
  BY DEF Orders
<1>1. PICK s : s = [i \in 1..0 |-> w]
  OBVIOUS
<1>2. 1..0 = {} /\ s \in [1..0 -> Nodes]
  BY <1>1
<1>3. Listeners(w) = {}
  BY NodesAre DEF Init, Listeners, NodesOf
<1>4. nxt[w] = w /\ prv[w] = w
  BY HeadsAre DEF Init, Links
<1>5. Stacked(w, 0, s)
  BY <1>2, <1>3, <1>4 DEF Stacked, At
<1>6. Walked(w, 0, s, 0)
  <2>1. cursor[w] = None /\ sending[w] = None
    BY DEF Init
  <2>2. (0 + 1)..0 = {} /\ 0 \in 0..0
    OBVIOUS
  <2>3. \A q \in (0 + 1)..0 : Due(w, s[q]) => triggered[s[q][1]] # None
    BY <2>2
  <2>4. QED
    BY <2>1, <2>2, <2>3 DEF Walked
<1>7. PICK k \in Nat : k = 0
  OBVIOUS
<1>8. s \in [1..k -> Nodes] /\ k \in 0..k /\ Stacked(w, k, s) /\ Walked(w, k, s, k)
  BY <1>2, <1>5, <1>6, <1>7
<1>9. QED
  BY <1>8 DEF Order

\* Only the end of its wait in the kernel clears a thread's cancellation, and a
\* signaller leaves a node only when it has cancelled the thread it told.
LEMMA ToldStep == TypeInv /\ ToldIsSent /\ [Next]_vars => ToldIsSent'
<1> SUFFICES ASSUME TypeInv, ToldIsSent, [Next]_vars PROVE ToldIsSent'
  OBVIOUS
<1> USE DEF TypeInv, Shape
<1>1. ASSUME UNCHANGED sending,
             \A u \in Threads : Waiting(u)' /\ triggered'[u] # None =>
                 Waiting(u) /\ triggered[u] # None /\ cancel'[u] = cancel[u]
      PROVE  ToldIsSent'
  BY <1>1 DEF ToldIsSent
<1>2. ASSUME NEW t \in Threads, Call(t) \/ Retry(t) \/ Return(t) PROVE ToldIsSent'
  <2>1. /\ triggered'[t] = None /\ UNCHANGED <<sending, cancel>>
        /\ \A u \in Threads \ {t} : pc'[u] = pc[u] /\ triggered'[u] = triggered[u]
    BY <1>2 DEF Call, Retry, Return, Locals, signaller, Typed
  <2>2. QED
    BY <1>1, <2>1 DEF Waiting
<1>3. ASSUME NEW t \in Threads,
             \/ BeginHandle(t) \/ BeginSignalled(t) \/ BeginListen(t) \/ BeginDone(t)
             \/ WaitReady(t) \/ ClearEvent(t) \/ OnTimeout(t) \/ OnSignal(t) \/ CleanUp(t)
             \/ WaitTimesOut(t) \/ Expire(t)
      PROVE  ToldIsSent'
  <2>1. UNCHANGED <<sending, cancel, triggered>>
    BY <1>3 DEF own, signaller, BeginHandle, BeginSignalled, BeginListen, BeginDone, WaitReady,
       ClearEvent, OnTimeout, OnSignal, CleanUp, WaitTimesOut, Expire
  <2>2. \A u \in Threads : Waiting(u)' => Waiting(u)
    <3>1. CASE BeginHandle(t) \/ BeginListen(t) \/ BeginDone(t) \/ CleanUp(t) \/ Expire(t)
      BY <3>1 DEF BeginHandle, BeginListen, BeginDone, CleanUp, Expire, own, Waiting, Typed
    <3>2. CASE BeginSignalled(t) \/ ClearEvent(t) \/ OnSignal(t) \/ WaitReady(t)
      BY <3>2 DEF BeginSignalled, ClearEvent, OnSignal, WaitReady, EndRound, Waiting, Typed
    <3>3. CASE OnTimeout(t) \/ WaitTimesOut(t)
      BY <3>3 DEF OnTimeout, WaitTimesOut, EndRound, Waiting, Typed
    <3>4. QED
      BY <1>3, <3>1, <3>2, <3>3
  <2>3. QED
    BY <1>1, <2>1, <2>2
<1>4. ASSUME NEW t \in Threads, WaitCancelled(t) PROVE ToldIsSent'
  <2>1. UNCHANGED <<sending, triggered>> /\ \A u \in Threads \ {t} : cancel'[u] = cancel[u]
    BY <1>4 DEF WaitCancelled, signaller, Typed
  <2>2. /\ pc'[t] \in {"cleanUp", "onSignal"}
        /\ \A u \in Threads \ {t} : pc'[u] = pc[u]
    BY <1>4 DEF WaitCancelled, EndRound, Typed
  <2>3. QED
    BY <1>1, <2>1, <2>2 DEF Waiting
<1>5. ASSUME NEW w \in Waitables, Signal(w) \/ SignalDone(w) PROVE ToldIsSent'
  BY <1>1, <1>5 DEF Signal, SignalDone, own, Waiting
<1>6. ASSUME NEW w \in Waitables, Notify(w) PROVE ToldIsSent'
  <2>1. UNCHANGED <<pc, cancel>> /\ sending[w] = None
    BY <1>6 DEF Notify
  <2>2. CASE UNCHANGED <<triggered, sending>>
    BY <1>1, <2>1, <2>2 DEF Waiting
  <2>3. CASE /\ triggered' = [triggered EXCEPT ![cursor[w][1]] = cursor[w][2]]
             /\ sending' = [sending EXCEPT ![w] = cursor[w][1]]
    <3>1. sending'[w] = cursor[w][1] /\ \A v \in Waitables \ {w} : sending'[v] = sending[v]
      BY <2>3 DEF Typed
    <3>2. \A u \in Threads \ {cursor[w][1]} : triggered'[u] = triggered[u]
      BY <2>3 DEF Typed
    <3>3. \A u \in Threads : u # None
      BY ObjectsAssumption
    <3>4. QED
      BY <2>1, <3>1, <3>2, <3>3 DEF ToldIsSent, Waiting
  <2>4. QED
    BY <1>6, <2>2, <2>3 DEF Notify
<1>7. ASSUME NEW w \in Waitables, Cancel(w) PROVE ToldIsSent'
  <2>1. UNCHANGED <<pc, triggered>> /\ sending[w] \in Threads
    BY <1>7 DEF Cancel, own, Typed
  <2>2. cancel'[sending[w]] = TRUE /\ \A u \in Threads : cancel[u] => cancel'[u]
    BY <1>7, <2>1 DEF Cancel, Typed
  <2>3. \A v \in Waitables \ {w} : sending'[v] = sending[v]
    BY <1>7 DEF Cancel, Typed
  <2>4. QED
    BY <2>1, <2>2, <2>3 DEF ToldIsSent, Waiting
<1>8. ASSUME NEW e \in Events, Fire(e) PROVE ToldIsSent'
  BY <1>1, <1>8 DEF Fire, own, signaller, Waiting
<1>9. CASE UNCHANGED vars
  BY <1>1, <1>9 DEF vars, Waiting
<1>10. QED
  BY <1>2, <1>3, <1>4, <1>5, <1>6, <1>7, <1>8, <1>9 DEF Next, Wait, SignalStep

LEMMA WakeInvAlways == Spec => []WakeInv
<1>1. Init => WakeInv
  <2>1. Init => ToldIsSent
    BY DEF Init, ToldIsSent
  <2>2. QED
    BY <2>1, TypeInit, OrdersInit DEF WakeInv
<1>2. WakeInv /\ [Next]_vars => WakeInv'
  BY ShapeStep, HomesStep, OrdersStep, ToldStep DEF WakeInv, TypeInv
<1>3. QED
  BY <1>1, <1>2, PTL DEF Spec

\* What the links of a stack reach from its head is the stack.
LEMMA ChainIsStack ==
    ASSUME TypeInv, NEW w \in Waitables, NEW k \in Nat, NEW s, Stacked(w, k, s)
    PROVE  Chain(w) = Listeners(w)
<1>1. \A i \in 1..k : s[i] \in Listeners(w) /\ s[i] # w
  BY PlacesAre
<1>2. Listeners(w) \subseteq NodesOf(w)
  BY DEF Listeners
<1>3. Closed(w, Listeners(w))
  <2>1. \A i \in 0..k : At(w, s, i) \in Listeners(w) \cup {w}
    BY <1>1 DEF At
  <2>2. nxt[w] \in Listeners(w) \cup {w}
    BY <2>1 DEF Stacked
  <2>3. ASSUME NEW n \in Listeners(w) PROVE nxt[n] \in Listeners(w) \cup {w}
    <3>1. PICK i \in 1..k : n = s[i]
      BY DEF Stacked
    <3>2. nxt[n] = At(w, s, i - 1) /\ i - 1 \in 0..k
      BY <3>1 DEF Stacked
    <3>3. QED
      BY <2>1, <3>2
  <2>4. QED
    BY <2>2, <2>3 DEF Closed
<1>4. Chain(w) \subseteq Listeners(w)
  BY <1>2, <1>3 DEF Chain
<1>5. ASSUME NEW S \in SUBSET NodesOf(w), Closed(w, S), NEW j \in 1..k, s[j] \notin S PROVE FALSE
  <2> DEFINE T == {d \in 0..(k - 1) : s[k - d] \notin S}
  <2>1. T \subseteq Nat /\ k - j \in T
    BY <1>5
  <2>2. PICK d \in T : \A e \in T : d <= e
    <3> HIDE DEF T
    <3> QED
      BY <2>1, LeastNatural
  <2>3. d \in 0..(k - 1) /\ s[k - d] \notin S /\ k - d \in 1..k
    OBVIOUS
  <2>4. s[k - d] # w
    BY <1>1, <2>3
  <2>5. CASE d = 0
    <3>1. nxt[w] = s[k]
      BY <2>3, <2>5 DEF Stacked, At
    <3>2. QED
      BY <1>5, <2>3, <2>4, <2>5, <3>1 DEF Closed
  <2>6. CASE d # 0
    <3>1. d - 1 \in 0..(k - 1) /\ d - 1 \notin T
      BY <2>2, <2>3, <2>6
    <3>2. s[k - (d - 1)] \in S /\ k - (d - 1) \in 1..k
      BY <2>3, <3>1, <2>6
    <3>3. nxt[s[k - (d - 1)]] = At(w, s, (k - (d - 1)) - 1)
      BY <3>2 DEF Stacked
    <3>4. nxt[s[k - (d - 1)]] = s[k - d]
      BY <2>3, <3>3 DEF At
    <3>5. QED
      BY <1>5, <2>3, <2>4, <3>2, <3>4 DEF Closed
  <2>7. QED
    BY <2>5, <2>6
<1>6. Listeners(w) \subseteq Chain(w)
  <2> SUFFICES ASSUME NEW n \in Listeners(w) PROVE n \in Chain(w)
    OBVIOUS
  <2>1. PICK j \in 1..k : n = s[j]
    BY DEF Stacked
  <2>2. \A S \in SUBSET NodesOf(w) : Closed(w, S) => n \in S
    BY <1>5, <2>1
  <2>3. QED
    BY <1>2, <2>2 DEF Chain
<1>7. QED
  BY <1>4, <1>6

\* Any number of threads may listen to any number of waitables: as long as no
\* listener has left the list of a waitable before one that came later did, the
\* list holds exactly those that listen (wait.h:62, _waiterNodeAdd, and :69,
\* _waiterNodeRemove).  Without that condition the statement is false: the run
\* wait_lists refutes it.
THEOREM ListsStayIntact == Spec => []ListsIntact
<1>1. WakeInv => ListsIntact
  <2> SUFFICES ASSUME WakeInv, NEW w \in Waitables \ disordered
               PROVE  Chain(w) = Listeners(w)
    BY DEF ListsIntact
  <2>1. TypeInv /\ Order(w)
    BY DEF WakeInv, Orders
  <2>2. PICK k \in Nat : \E s \in [1..k -> Nodes], p \in 0..k :
                           Stacked(w, k, s) /\ Walked(w, k, s, p)
    BY <2>1 DEF Order
  <2>3. QED
    BY <2>1, <2>2, ChainIsStack
<1>2. QED
  BY <1>1, WakeInvAlways, PTL

\* A thread asleep in the kernel that listens to a signalled waitable whose
\* signaller has finished was cancelled, or is about to be by another signaller.
\* Two conditions, which the code fails to ensure, remain: the list is not
\* disordered, and the weak compare-exchange (wait.h:45) did not fail without
\* reason at the thread's own node.
THEOREM WakeUpsArrive == Spec => []NoLostWakeUp
<1>1. WakeInv => NoLostWakeUp
  <2> SUFFICES ASSUME WakeInv, NEW t \in Threads, NEW i \in added[t], pc[t] = "wait",
                      Objects[t][i] \in signalled, Free(Objects[t][i]),
                      Objects[t][i] \notin disordered, <<t, i>> \notin missed
               PROVE  cancel[t] \/ \E v \in Waitables : sending[v] = t
    BY DEF NoLostWakeUp
  <2>1. TypeInv /\ Orders /\ ToldIsSent
    BY DEF WakeInv
  <2>2. PICK w \in Waitables, n \in Nodes :
          w = Objects[t][i] /\ n = <<t, i>> /\ n[1] = t /\ n[2] = i
    <3>1. i \in Indices(t) /\ Objects[t][i] \in Waitables
      BY <2>1 DEF TypeInv, Shape, IndicesFit, Fit
    <3>2. QED
      BY <3>1, NodesAre
  <2>3. n \in Listeners(w)
    BY <2>2 DEF Listeners, NodesOf
  <2>4. PICK k \in Nat : \E s \in [1..k -> Nodes], p \in 0..k :
                           Stacked(w, k, s) /\ Walked(w, k, s, p)
    BY <2>1, <2>2 DEF Orders, Order
  <2>5. PICK s \in [1..k -> Nodes], p \in 0..k : Stacked(w, k, s) /\ Walked(w, k, s, p)
    BY <2>4
  <2>6. PICK q \in 1..k : n = s[q]
    BY <2>3, <2>5 DEF Stacked
  <2>7. cursor[w] = None
    BY <2>2 DEF Free
  <2>8. p = 0
    BY <2>1, <2>5, <2>7, PlacesAre DEF Walked
  <2>9. Due(w, s[q]) /\ q \in (p + 1)..k
    BY <2>2, <2>6, <2>8 DEF Due, Waiting
  <2>10. triggered[t] # None
    BY <2>2, <2>5, <2>6, <2>9 DEF Walked
  <2>11. QED
    BY <2>1, <2>10 DEF ToldIsSent, Waiting
<1>2. QED
  BY <1>1, WakeInvAlways, PTL
=============================================================================
