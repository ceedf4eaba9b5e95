---------------------------- MODULE ServiceProofs ----------------------------
(***************************************************************************)
(* Theorems about the guard of a service, and about who owns its handles   *)
(* and objects, for any number of threads, handles, objects and commands.  *)
(***************************************************************************)
EXTENDS Service, RecursionLemmas, SequenceTheorems, FiniteSetTheorems, TLAPS

Places == {"out", "lock", "open", "settle", "in", "exit", "send", "wait", "parse"}
Commands == (UNION {CommandsOf(t, s) : t \in Threads, s \in {"srv", "sub"}}) \cup {NoCall}
Requests == [op : {"query", "convert", "dispatch", "clone", "close"}, slot : {"srv", "sub"},
             cmd : Commands, is_domain : BOOLEAN, result : {"none", "ok", "failed"}]

Calling(t) == pc[t] \in {"send", "wait", "parse"}
Active == serviceIsActive(srv)

IsUser(t) ==
    \/ pc[t] \in {"in", "exit"}
    \/ call[t].op \in {"dispatch", "clone"}
    \/ call[t].op = "close" /\ call[t].slot = "sub"

\* In the guard's critical section: it initialises the service or closes it.
InGuard(t) ==
    \/ pc[t] \in {"open", "settle"}
    \/ call[t].op \in {"query", "convert"}
    \/ call[t].op = "close" /\ call[t].slot = "srv"

Shape ==
    /\ pc \in [Threads -> Places] /\ rc \in [Threads -> {"ok", "failed"}]
    /\ owner \in Threads \cup {NoThread} /\ refCount \in Nat
    /\ DOMAIN srv = {"session", "own_handle", "object_id", "pointer_buffer_size"}
    /\ DOMAIN call = Threads
    /\ \A t \in Threads :
        /\ Calling(t) => call[t] \in Requests
        /\ ~Calling(t) => call[t] = NoCall
        /\ pc[t] = "parse" => call[t].result \in {"ok", "failed"}

\* What the one in the guard knows at each place.
Phase(t) ==
    /\ pc[t] = "open" => refCount = 1 /\ Users = {} /\ ~Active /\ rc[t] = "ok"
    /\ call[t].op \in {"query", "convert"} =>
           refCount = 1 /\ Users = {} /\ Active /\ rc[t] = "ok"
    /\ pc[t] = "settle" /\ rc[t] = "ok" => refCount = Cardinality(Users) + 1 /\ Active
    /\ pc[t] = "settle" /\ rc[t] = "failed" => refCount = 1 /\ Users = {}
    /\ call[t].op = "close" =>
           Users = {} /\ refCount = IF rc[t] = "failed" THEN 1 ELSE 0

\* The strengthening of GuardCounts: the mutex is held exactly in the critical
\* section, and its holder's share of the count depends on how far he is.
GuardInv ==
    /\ Shape
    /\ \A t \in Threads : InGuard(t) <=> owner = t
    /\ \A t \in Threads : owner # t => rc[t] = "ok"
    /\ \A t \in Threads : owner = t => Phase(t)
    /\ owner = NoThread => refCount = Cardinality(Users) /\ (Active <=> refCount > 0)
    /\ Users # {} => Active

-----------------------------------------------------------------------------
\* Users, and how one step of one thread changes them.

LEMMA UsersAre == Users = {t \in Threads : IsUser(t)} /\ IsFiniteSet(Users)
<1>1. Users = {t \in Threads : IsUser(t)}
  BY DEF Users, IsUser
<1>2. Users \subseteq Threads
  BY <1>1
<1> QED
  BY <1>1, <1>2, FS_Subset, ThreadsAssumption

Alone(t) == \A u \in Threads \ {t} : pc'[u] = pc[u] /\ call'[u] = call[u] /\ rc'[u] = rc[u]

LEMMA UsersAfter ==
    ASSUME NEW t \in Threads, Alone(t)
    PROVE  /\ (IsUser(t)' <=> IsUser(t)) => Users' = Users
           /\ IsUser(t)' => Users' = Users \cup {t}
           /\ ~IsUser(t)' => Users' = Users \ {t}
<1>1. \A u \in Threads \ {t} : IsUser(u)' <=> IsUser(u)
  BY DEF Alone, IsUser
<1>2. Users' = {u \in Threads : IsUser(u)'}
  BY DEF Users, IsUser
<1>3. Users = {u \in Threads : IsUser(u)}
  BY UsersAre
<1> QED
  BY <1>1, <1>2, <1>3

\* A step outside the guard's own operations.
LEMMA StepKeeps ==
    ASSUME GuardInv, Shape', NEW t \in Threads, Alone(t),
           UNCHANGED <<owner, refCount>>,
           IsUser(t)' <=> IsUser(t), InGuard(t)' <=> InGuard(t),
           owner # t => srv' = srv /\ rc' = rc,
           Users # {} => (Active' <=> Active),
           owner = t => Phase(t)'
    PROVE  GuardInv'
<1>1. Users' = Users
  BY UsersAfter
<1>2. \A u \in Threads : InGuard(u)' <=> owner' = u
  BY DEF GuardInv, Alone, InGuard
<1>3. \A u \in Threads : owner' # u => rc'[u] = "ok"
  BY DEF GuardInv, Alone
<1>4. \A u \in Threads : owner' = u => Phase(u)'
  <2> SUFFICES ASSUME NEW u \in Threads, owner' = u, u # t PROVE Phase(u)'
    OBVIOUS
  <2>1. pc'[u] = pc[u] /\ call'[u] = call[u] /\ rc'[u] = rc[u] /\ srv' = srv
    BY DEF Alone
  <2>2. Phase(u)
    BY DEF GuardInv
  <2> QED
    BY <1>1, <2>1, <2>2 DEF Phase, Active
<1>5. owner' = NoThread => refCount' = Cardinality(Users)' /\ (Active' <=> refCount' > 0)
  BY <1>1, ThreadsAssumption DEF GuardInv, Active
<1>6. Users' # {} => Active'
  BY <1>1 DEF GuardInv
<1> QED
  BY <1>2, <1>3, <1>4, <1>5, <1>6 DEF GuardInv

-----------------------------------------------------------------------------
LEMMA GuardInit == Init => GuardInv
<1> SUFFICES ASSUME Init PROVE GuardInv
  OBVIOUS
<1>1. Shape
  BY DEF Init, Shape, Places, NoService, Calling
<1>2. \A t \in Threads : pc[t] = "out" /\ call[t].op = "none"
  BY DEF Init, NoCall
<1>3. Users = {}
  BY <1>2 DEF Users
<1>4. Cardinality(Users) = 0
  BY <1>3, FS_EmptySet
<1>5. ~Active
  BY DEF Init, Active, serviceIsActive, NoService
<1> QED
  BY <1>1, <1>2, <1>3, <1>4, <1>5, ThreadsAssumption DEF Init, GuardInv, InGuard

-----------------------------------------------------------------------------
\* Requests, returns and moves of a thread.

Operations == {"query", "convert", "dispatch", "clone", "close"}

LEMMA RequestIs ==
    ASSUME Shape, NEW t \in Threads, NEW op \in Operations, NEW slot \in {"srv", "sub"},
           NEW message, NEW cmd \in Commands, NEW is_domain \in BOOLEAN,
           Request(t, op, slot, message, cmd, is_domain)
    PROVE  /\ pc' = [pc EXCEPT ![t] = "send"] /\ DOMAIN call' = Threads
           /\ call'[t] \in Requests /\ call'[t].op = op /\ call'[t].slot = slot
           /\ \A u \in Threads \ {t} : call'[u] = call[u]
BY DEF Request, GoTo, Requests, Operations, Shape

LEMMA ReturnIs ==
    ASSUME Shape, NEW t \in Threads, NEW label, Return(t, label)
    PROVE  /\ pc' = [pc EXCEPT ![t] = label] /\ DOMAIN call' = Threads
           /\ call'[t] = NoCall /\ call'[t].op = "none"
           /\ \A u \in Threads \ {t} : call'[u] = call[u]
BY DEF Return, GoTo, NoCall, Shape

\* The answer of a server, or of the kernel in its place.
LEMMA ResultIs ==
    ASSUME Shape, NEW t \in Threads, Calling(t), NEW result \in {"ok", "failed"},
           call' = [call EXCEPT ![t].result = result]
    PROVE  /\ DOMAIN call' = Threads
           /\ call'[t] \in Requests /\ call'[t].op = call[t].op
           /\ call'[t].slot = call[t].slot /\ call'[t].result = result
           /\ \A u \in Threads \ {t} : call'[u] = call[u]
<1>1. call[t] \in Requests
  BY DEF Shape
<1>2. call'[t] = [call[t] EXCEPT !.result = result]
  BY DEF Shape
<1> QED
  BY <1>1, <1>2 DEF Requests, Shape

LEMMA NoCallIn == NoCall \in Commands
BY DEF Commands

LEMMA IdleIs ==
    ASSUME Shape, NEW t \in Threads, ~Calling(t) PROVE call[t].op = "none"
BY DEF Shape, NoCall

LEMMA ShapeAfter ==
    ASSUME Shape, NEW t \in Threads, NEW label \in Places, pc' = [pc EXCEPT ![t] = label],
           DOMAIN call' = Threads, \A u \in Threads \ {t} : call'[u] = call[u],
           rc' \in [Threads -> {"ok", "failed"}],
           owner' \in Threads \cup {NoThread}, refCount' \in Nat,
           DOMAIN srv' = DOMAIN srv,
           IF label \in {"send", "wait", "parse"} THEN call'[t] \in Requests ELSE call'[t] = NoCall,
           label = "parse" => call'[t].result \in {"ok", "failed"}
    PROVE  Shape'
<1>1. pc'[t] = label /\ \A u \in Threads \ {t} : pc'[u] = pc[u]
  BY DEF Shape
<1>2. pc' \in [Threads -> Places]
  BY DEF Shape
<1>3. \A u \in Threads :
        /\ Calling(u)' => call'[u] \in Requests
        /\ ~Calling(u)' => call'[u] = NoCall
        /\ pc'[u] = "parse" => call'[u].result \in {"ok", "failed"}
  BY <1>1 DEF Shape, Calling
<1> QED
  BY <1>2, <1>3 DEF Shape

-----------------------------------------------------------------------------
\* Steps that leave the guard and its service alone.

\* A request that is on its way stays the request it is.
LEMMA SendKeeps == ASSUME GuardInv, NEW t \in Threads, Send(t) \/ Serves(t) PROVE GuardInv'
<1>0. \/ Send(t)
      \/ pc[t] = "wait" /\ \E result \in {"ok", "failed"} : \E answer : Reply(t, result, answer)
  <2>1. ServeDispatch(t) => pc[t] = "wait" /\ \E answer : Reply(t, "ok", answer)
    BY Zenon DEF ServeDispatch, Waits
  <2>2. Refuse(t) => pc[t] = "wait" /\ \E answer : Reply(t, "failed", answer)
    BY Zenon DEF Refuse
  <2>3. ServeQuery(t) \/ ServeConvert(t) \/ ServeClone(t) \/ ServeClose(t)
           => pc[t] = "wait" /\ \E answer : Reply(t, "ok", answer)
    BY Zenon DEF ServeQuery, ServeConvert, ServeClone, ServeClose, Waits
  <2> QED
    BY <2>1, <2>2, <2>3, Zenon DEF Serves
<1>1. UNCHANGED <<owner, refCount, srv, rc>> /\ pc[t] \in {"send", "wait"}
  BY <1>0, Zenon DEF Send, Reply, guard
<1>2. \/ pc' = [pc EXCEPT ![t] = "wait"] /\ call' = call
      \/ pc' = [pc EXCEPT ![t] = "parse"] /\
         \E result \in {"ok", "failed"} : call' = [call EXCEPT ![t].result = result]
  BY <1>0, Zenon DEF Send, Reply, GoTo
<1>3. Shape /\ Calling(t) /\ call[t] \in Requests
  BY <1>1 DEF GuardInv, Shape, Calling
<1>4. /\ DOMAIN call' = Threads /\ \A u \in Threads \ {t} : call'[u] = call[u]
      /\ call'[t] \in Requests /\ call'[t].op = call[t].op /\ call'[t].slot = call[t].slot
      /\ pc' = [pc EXCEPT ![t] = "parse"] => call'[t].result \in {"ok", "failed"}
  <2>1. CASE call' = call /\ pc' = [pc EXCEPT ![t] = "wait"]
    BY <1>3, <2>1 DEF Shape
  <2>2. CASE pc' = [pc EXCEPT ![t] = "parse"] /\
             \E result \in {"ok", "failed"} : call' = [call EXCEPT ![t].result = result]
    BY <1>3, <2>2, ResultIs
  <2> QED
    BY <1>2, <2>1, <2>2
<1>5. PICK label \in {"wait", "parse"} : pc' = [pc EXCEPT ![t] = label]
  BY <1>2
<1>6. pc'[t] = label /\ Alone(t)
  BY <1>1, <1>3, <1>4, <1>5 DEF Alone, Shape
<1>7. Shape'
  <2>1. label = "parse" => call'[t].result \in {"ok", "failed"}
    BY <1>4, <1>5
  <2>2. /\ rc' \in [Threads -> {"ok", "failed"}] /\ DOMAIN srv' = DOMAIN srv
        /\ owner' \in Threads \cup {NoThread} /\ refCount' \in Nat /\ label \in Places
    BY <1>1, <1>3 DEF Shape, Places
  <2> QED
    BY <1>3, <1>4, <1>5, <2>1, <2>2, ShapeAfter
<1>8. (IsUser(t)' <=> IsUser(t)) /\ (InGuard(t)' <=> InGuard(t))
  BY <1>1, <1>4, <1>6 DEF IsUser, InGuard
<1>9. Users' = Users
  BY <1>6, <1>8, UsersAfter
<1>10. owner = t => Phase(t)'
  BY <1>1, <1>4, <1>6, <1>9 DEF GuardInv, Phase, Active
<1> QED
  BY SMTT(30), <1>1, <1>6, <1>7, <1>8, <1>10, StepKeeps DEF Active

\* The calls of a user, which begin and end inside ...
LEMMA UserKeeps ==
    ASSUME GuardInv, NEW t \in Threads,
           nameInitialize(t) \/ nameExit(t) \/ CloseKept(t)
    PROVE  GuardInv'
<1>1. UNCHANGED <<owner, refCount, srv, rc, call>>
  BY DEF nameInitialize, nameExit, CloseKept, guard, threads
<1>2. Shape
  BY DEF GuardInv
<1>3. \/ pc[t] = "out" /\ pc' = [pc EXCEPT ![t] = "lock"]
      \/ pc[t] = "in" /\ pc' = [pc EXCEPT ![t] = "exit"]
      \/ pc' = pc
  BY DEF nameInitialize, nameExit, CloseKept, GoTo, threads
<1>4. Alone(t)
  BY <1>1, <1>2, <1>3 DEF Alone, Shape
<1>5. pc[t] # pc'[t] => ~Calling(t) /\ ~Calling(t)'
  BY <1>2, <1>3 DEF Shape, Calling
<1>6. Shape'
  BY <1>1, <1>2, <1>3, <1>5 DEF Shape, Places, Calling
<1>7. (IsUser(t)' <=> IsUser(t)) /\ (InGuard(t)' <=> InGuard(t))
  BY <1>1, <1>2, <1>3 DEF IsUser, InGuard, Shape
<1>8. Users' = Users
  BY <1>4, <1>7, UsersAfter
<1>9. owner = t => Phase(t)'
  BY <1>1, <1>2, <1>3, <1>8 DEF GuardInv, Phase, Active, InGuard, Shape
<1> QED
  BY <1>1, <1>4, <1>6, <1>7, <1>9, StepKeeps DEF Active

\* ... and those that send a request.
LEMMA CallKeeps ==
    ASSUME GuardInv, NEW t \in Threads,
           serviceClone(t) \/ CloseSub(t)
           \/ \E slot \in {"srv", "sub"} : \E cmd \in CommandsOf(t, slot) :
                   serviceDispatch(t, slot, cmd)
    PROVE  GuardInv'
<1>1. UNCHANGED <<owner, refCount, srv, rc>> /\ pc[t] = "in"
  BY DEF serviceClone, CloseSub, serviceDispatch, guard
<1>2. Shape /\ call[t].op = "none"
  BY <1>1, IdleIs DEF GuardInv, Calling
<1> DEFINE Sends(op, slot) ==
                /\ pc' = [pc EXCEPT ![t] = "send"] /\ DOMAIN call' = Threads
                /\ call'[t] \in Requests /\ call'[t].op = op /\ call'[t].slot = slot
                /\ \A u \in Threads \ {t} : call'[u] = call[u]
<1>4. PICK op \in {"clone", "close", "dispatch"}, slot \in {"srv", "sub"} :
         Sends(op, slot) /\ (op = "close" => slot = "sub")
  <2>1. CASE serviceClone(t)
    <3>1. PICK tagged \in BOOLEAN :
             Request(t, "clone", "srv",
                     IF tagged THEN cmifMakeControlRequest(4, 4) ELSE cmifMakeControlRequest(2, 0),
                     NoCall, FALSE)
      BY <2>1 DEF serviceClone
    <3>2. Sends("clone", "srv")
      BY <1>2, <3>1, NoCallIn, RequestIs DEF Operations
    <3> QED
      BY <3>2
  <2>2. CASE CloseSub(t)
    <3>1. Sends("close", "sub")
      BY <1>2, <2>2, NoCallIn, RequestIs DEF CloseSub, serviceClose, Operations
    <3> QED
      BY <3>1
  <2>3. ASSUME NEW slot \in {"srv", "sub"}, NEW cmd \in CommandsOf(t, slot),
               serviceDispatch(t, slot, cmd)
        PROVE  Sends("dispatch", slot)
    <3>1. cmd \in Commands
      BY DEF Commands
    <3> DEFINE s == IF slot = "srv" THEN srv ELSE sub[t]
    <3>2. Request(t, "dispatch", slot, serviceMakeRequest(s, cmd), cmd, s.object_id # 0)
      BY <2>3 DEF serviceDispatch
    <3>3. (s.object_id # 0) \in BOOLEAN
      OBVIOUS
    <3> HIDE DEF s
    <3> QED
      BY <1>2, <3>1, <3>2, <3>3, RequestIs DEF Operations
  <2> QED
    BY <2>1, <2>2, <2>3
<1>5. pc'[t] = "send" /\ Alone(t)
  BY <1>1, <1>2, <1>4 DEF Alone, Shape
<1>6. Shape'
  <2>1. /\ rc' \in [Threads -> {"ok", "failed"}] /\ DOMAIN srv' = DOMAIN srv
        /\ owner' \in Threads \cup {NoThread} /\ refCount' \in Nat /\ "send" \in Places
    BY <1>1, <1>2 DEF Shape, Places
  <2> QED
    BY <1>2, <1>4, <2>1, ShapeAfter
<1>7. IsUser(t) /\ IsUser(t)' /\ ~InGuard(t) /\ ~InGuard(t)'
  BY <1>1, <1>2, <1>4, <1>5 DEF IsUser, InGuard
<1>8. owner # t
  BY <1>7 DEF GuardInv
<1> QED
  BY <1>1, <1>5, <1>6, <1>7, <1>8, StepKeeps DEF Active

\* Back to the user: a command, a clone or the close of his own service is done.
LEMMA BackKeeps ==
    ASSUME GuardInv, NEW t \in Threads,
           FinishDispatch(t) \/ FinishClone(t) \/ (FinishClose(t) /\ call[t].slot = "sub")
    PROVE  GuardInv'
<1>1. UNCHANGED <<owner, refCount, srv, rc>> /\ pc[t] = "parse" /\ Return(t, "in")
  BY DEF FinishDispatch, FinishClone, FinishClose, Parses, guard
<1>2. \/ call[t].op \in {"dispatch", "clone"}
      \/ call[t].op = "close" /\ call[t].slot = "sub"
  BY DEF FinishDispatch, FinishClone, FinishClose, Parses
<1>3. Shape
  BY DEF GuardInv
<1>4. /\ pc' = [pc EXCEPT ![t] = "in"] /\ DOMAIN call' = Threads
      /\ call'[t] = NoCall /\ call'[t].op = "none"
      /\ \A u \in Threads \ {t} : call'[u] = call[u]
  BY <1>1, <1>3, ReturnIs
<1>5. pc'[t] = "in" /\ Alone(t)
  BY <1>1, <1>3, <1>4 DEF Alone, Shape
<1>6. Shape'
  <2>1. /\ rc' \in [Threads -> {"ok", "failed"}] /\ DOMAIN srv' = DOMAIN srv
        /\ owner' \in Threads \cup {NoThread} /\ refCount' \in Nat /\ "in" \in Places
    BY <1>1, <1>3 DEF Shape, Places
  <2> QED
    BY <1>3, <1>4, <2>1, ShapeAfter
<1>7. IsUser(t) /\ IsUser(t)' /\ ~InGuard(t) /\ ~InGuard(t)'
  BY <1>1, <1>2, <1>4, <1>5 DEF IsUser, InGuard
<1>8. owner # t
  BY <1>7 DEF GuardInv
<1> QED
  BY <1>1, <1>5, <1>6, <1>7, <1>8, StepKeeps DEF Active

-----------------------------------------------------------------------------
\* The guard's own steps.  A thread in the guard is its owner, at one place.

LEMMA OwnerIs ==
    ASSUME GuardInv, NEW t \in Threads, InGuard(t)
    PROVE  owner = t /\ Phase(t) /\ Shape /\ ~IsUser(t)
<1>1. owner = t /\ Phase(t) /\ Shape
  BY DEF GuardInv
<1>2. ~IsUser(t)
  BY <1>1 DEF InGuard, IsUser, Shape, Calling, NoCall
<1> QED
  BY <1>1, <1>2

\* A step of the owner that keeps the mutex, at another place of the guard.
LEMMA OwnerKeeps ==
    ASSUME GuardInv, NEW t \in Threads, InGuard(t),
           UNCHANGED <<owner, refCount>>, Shape', Alone(t), rc' \in [Threads -> {"ok", "failed"}],
           InGuard(t)', ~IsUser(t)', Users # {} => srv' = srv,
           Users' = Users => Phase(t)'
    PROVE  GuardInv'
<1>1. owner = t /\ ~IsUser(t)
  BY OwnerIs
<1>2. Users' = Users
  BY <1>1, UsersAfter
<1> QED
  BY <1>1, <1>2, StepKeeps DEF Active

LEMMA NoSessionKeeps == ASSUME GuardInv, NEW t \in Threads, NoSession(t) PROVE GuardInv'
<1>1. /\ pc[t] = "open" /\ pc' = [pc EXCEPT ![t] = "settle"] /\ rc' = [rc EXCEPT ![t] = "failed"]
      /\ UNCHANGED <<owner, refCount, srv, call>>
  BY DEF NoSession, GoTo, guard
<1>2. InGuard(t)
  BY <1>1 DEF InGuard
<1>3. owner = t /\ Phase(t) /\ Shape /\ ~IsUser(t) /\ call[t].op = "none"
  BY <1>1, <1>2, OwnerIs, IdleIs DEF Calling
<1>4. Alone(t) /\ pc'[t] = "settle" /\ rc'[t] = "failed"
  BY <1>1, <1>3 DEF Alone, Shape
<1>5. rc' \in [Threads -> {"ok", "failed"}]
  BY <1>1, <1>3 DEF Shape
<1>6. Shape'
  BY <1>1, <1>3, <1>5 DEF Shape, Places, Calling
<1>7. InGuard(t)' /\ ~IsUser(t)'
  BY <1>1, <1>3, <1>4 DEF InGuard, IsUser
<1>8. Users' = Users => Phase(t)'
  BY <1>1, <1>3, <1>4 DEF Phase
<1> QED
  BY <1>1, <1>2, <1>4, <1>5, <1>6, <1>7, <1>8, OwnerKeeps

LEMMA CreateKeeps == ASSUME GuardInv, NEW t \in Threads, serviceCreate(t) PROVE GuardInv'
<1>1. /\ pc[t] = "open" /\ UNCHANGED <<owner, refCount, rc>>
      /\ Request(t, "query", "srv", cmifMakeControlRequest(3, 0), NoCall, FALSE)
  BY DEF serviceCreate, guard
<1>2. PICK h \in Handles : srv' = [NoService EXCEPT !.session = h, !.own_handle = 1]
  BY DEF serviceCreate
<1>3. DOMAIN srv' = {"session", "own_handle", "object_id", "pointer_buffer_size"} /\ Active'
  <2>1. srv'.session = h /\ DOMAIN srv' = {"session", "own_handle", "object_id", "pointer_buffer_size"}
    BY <1>2 DEF NoService
  <2> QED
    BY <2>1, HandlesAssumption DEF Active, serviceIsActive
<1>4. InGuard(t)
  BY <1>1 DEF InGuard
<1>5. owner = t /\ Phase(t) /\ Shape /\ ~IsUser(t) /\ call[t].op = "none"
  BY <1>1, <1>4, OwnerIs, IdleIs DEF Calling
<1>6. /\ pc' = [pc EXCEPT ![t] = "send"] /\ DOMAIN call' = Threads
      /\ call'[t] \in Requests /\ call'[t].op = "query" /\ call'[t].slot = "srv"
      /\ \A u \in Threads \ {t} : call'[u] = call[u]
  BY <1>1, <1>5, NoCallIn, RequestIs DEF Operations
<1>7. Alone(t) /\ pc'[t] = "send"
  BY <1>1, <1>5, <1>6 DEF Alone, Shape
<1>8. Shape'
  <2>1. /\ rc' \in [Threads -> {"ok", "failed"}] /\ DOMAIN srv' = DOMAIN srv
        /\ owner' \in Threads \cup {NoThread} /\ refCount' \in Nat /\ "send" \in Places
    BY <1>1, <1>3, <1>5 DEF Shape, Places
  <2> QED
    BY <1>5, <1>6, <2>1, ShapeAfter
<1>9. InGuard(t)' /\ ~IsUser(t)'
  BY <1>6, <1>7 DEF InGuard, IsUser
<1>10. Users = {} /\ (Users' = Users => Phase(t)')
  BY <1>1, <1>3, <1>5, <1>6, <1>7 DEF Phase
<1> QED
  BY <1>1, <1>4, <1>7, <1>8, <1>9, <1>10, OwnerKeeps DEF Shape

\* The answers to the requests of an initialisation.
LEMMA QueryKeeps == ASSUME GuardInv, NEW t \in Threads, FinishQuery(t) PROVE GuardInv'
<1>1. /\ pc[t] = "parse" /\ call[t].op = "query" /\ UNCHANGED <<owner, refCount, rc>>
      /\ \E size : srv' = [srv EXCEPT !.pointer_buffer_size = size]
  BY DEF FinishQuery, Parses, guard
<1>2. InGuard(t)
  BY <1>1 DEF InGuard
<1>3. owner = t /\ Phase(t) /\ Shape /\ ~IsUser(t)
  BY <1>2, OwnerIs
<1>4. Users = {} /\ refCount = 1 /\ Active /\ rc[t] = "ok"
  BY <1>1, <1>3 DEF Phase
<1>5. DOMAIN srv' = DOMAIN srv /\ Active'
  <2>1. DOMAIN srv' = DOMAIN srv /\ srv'.session = srv.session
    BY <1>1, <1>3 DEF Shape
  <2> QED
    BY <1>4, <2>1 DEF Active, serviceIsActive
<1>6. /\ DOMAIN call' = Threads /\ \A u \in Threads \ {t} : call'[u] = call[u]
      /\ \/ pc' = [pc EXCEPT ![t] = "send"] /\ call'[t] \in Requests /\ call'[t].op = "convert"
         \/ pc' = [pc EXCEPT ![t] = "settle"] /\ call'[t] = NoCall /\ call'[t].op = "none"
  <2>1. CASE Request(t, "convert", "srv", cmifMakeControlRequest(0, 0), NoCall, FALSE)
    BY <1>3, <2>1, NoCallIn, RequestIs DEF Operations
  <2>2. CASE Return(t, "settle")
    BY <1>3, <2>2, ReturnIs
  <2> QED
    BY <2>1, <2>2 DEF FinishQuery
<1>7. PICK label \in {"send", "settle"} : pc' = [pc EXCEPT ![t] = label]
  BY <1>6
<1>8. Alone(t) /\ pc'[t] = label
  BY <1>1, <1>3, <1>6, <1>7 DEF Alone, Shape
<1>9. \/ label = "send" /\ call'[t] \in Requests /\ call'[t].op = "convert"
      \/ label = "settle" /\ call'[t] = NoCall /\ call'[t].op = "none"
  BY <1>3, <1>6, <1>7, <1>8 DEF Shape
<1>10. Shape'
  <2>1. /\ rc' \in [Threads -> {"ok", "failed"}] /\ label \in Places
        /\ owner' \in Threads \cup {NoThread} /\ refCount' \in Nat
    BY <1>1, <1>3 DEF Shape, Places
  <2> QED
    BY <1>3, <1>5, <1>6, <1>7, <1>9, <2>1, ShapeAfter
<1>11. InGuard(t)' /\ ~IsUser(t)'
  BY <1>8, <1>9 DEF InGuard, IsUser
<1>12. Cardinality({}) = 0
  BY FS_EmptySet
<1>13. Users' = Users => Phase(t)'
  BY <1>1, <1>4, <1>5, <1>8, <1>9, <1>12 DEF Phase
<1> QED
  BY <1>1, <1>2, <1>3, <1>4, <1>8, <1>10, <1>11, <1>13, OwnerKeeps DEF Shape

LEMMA ConvertKeeps == ASSUME GuardInv, NEW t \in Threads, FinishConvert(t) PROVE GuardInv'
<1>1. /\ pc[t] = "parse" /\ call[t].op = "convert" /\ UNCHANGED <<owner, refCount>>
      /\ rc' = [rc EXCEPT ![t] = call[t].result] /\ Return(t, "settle")
      /\ srv' = srv \/ \E id : srv' = [srv EXCEPT !.object_id = id]
  BY DEF FinishConvert, Parses, guard
<1>2. InGuard(t)
  BY <1>1 DEF InGuard
<1>3. owner = t /\ Phase(t) /\ Shape /\ ~IsUser(t)
  BY <1>2, OwnerIs
<1>4. Users = {} /\ refCount = 1 /\ Active
  BY <1>1, <1>3 DEF Phase
<1>5. DOMAIN srv' = DOMAIN srv /\ Active'
  <2>1. DOMAIN srv' = DOMAIN srv /\ srv'.session = srv.session
    BY <1>1, <1>3 DEF Shape
  <2> QED
    BY <1>4, <2>1 DEF Active, serviceIsActive
<1>6. /\ pc' = [pc EXCEPT ![t] = "settle"] /\ DOMAIN call' = Threads
      /\ call'[t] = NoCall /\ call'[t].op = "none"
      /\ \A u \in Threads \ {t} : call'[u] = call[u]
  BY <1>1, <1>3, ReturnIs
<1>7. Alone(t) /\ pc'[t] = "settle" /\ rc' \in [Threads -> {"ok", "failed"}]
  BY <1>1, <1>3, <1>6 DEF Alone, Shape
<1>8. Shape'
  <2>1. "settle" \in Places /\ owner' \in Threads \cup {NoThread} /\ refCount' \in Nat
    BY <1>1, <1>3 DEF Shape, Places
  <2> QED
    BY <1>3, <1>5, <1>6, <1>7, <2>1, ShapeAfter
<1>9. InGuard(t)' /\ ~IsUser(t)'
  BY <1>6, <1>7 DEF InGuard, IsUser
<1>10. Cardinality({}) = 0
  BY FS_EmptySet
<1>11. Users' = Users => Phase(t)'
  BY <1>1, <1>4, <1>5, <1>6, <1>7, <1>10 DEF Phase
<1> QED
  BY <1>1, <1>2, <1>4, <1>7, <1>8, <1>9, <1>11, OwnerKeeps

-----------------------------------------------------------------------------
\* The steps that take the mutex or release it.

LEMMA LockStep ==
    ASSUME GuardInv, Shape', NEW t \in Threads, Alone(t),
           owner \in {NoThread, t}, owner' \in {NoThread, t},
           InGuard(t)' <=> owner' = t,
           owner' # t => rc'[t] = "ok",
           owner' = t => Phase(t)',
           owner' = NoThread => refCount' = Cardinality(Users') /\ (Active' <=> refCount' > 0),
           Users' # {} => Active'
    PROVE  GuardInv'
<1>1. \A u \in Threads \ {t} : (InGuard(u)' <=> InGuard(u)) /\ ~InGuard(u) /\ rc'[u] = "ok"
  BY ThreadsAssumption DEF GuardInv, Alone, InGuard
<1>2. \A u \in Threads : InGuard(u)' <=> owner' = u
  BY <1>1, ThreadsAssumption
<1>3. \A u \in Threads : owner' # u => rc'[u] = "ok"
  BY <1>1
<1>4. \A u \in Threads : owner' = u => Phase(u)'
  BY ThreadsAssumption
<1> QED
  BY <1>2, <1>3, <1>4 DEF GuardInv

LEMMA BeginInitKeeps ==
    ASSUME GuardInv, NEW t \in Threads, serviceGuardBeginInit(t) PROVE GuardInv'
<1>1. /\ pc[t] = "lock" /\ owner = NoThread /\ owner' = t /\ refCount' = refCount + 1
      /\ pc' = [pc EXCEPT ![t] = IF refCount = 0 THEN "open" ELSE "settle"]
      /\ UNCHANGED <<srv, call, rc>>
  BY DEF serviceGuardBeginInit, GoTo
<1>2. Shape /\ call[t].op = "none" /\ rc[t] = "ok"
  BY <1>1, IdleIs, ThreadsAssumption DEF GuardInv, Calling
<1>3. Alone(t) /\ pc'[t] = IF refCount = 0 THEN "open" ELSE "settle"
  BY <1>1, <1>2 DEF Alone, Shape
<1>4. Shape'
  BY <1>1, <1>2 DEF Shape, Places, Calling
<1>5. InGuard(t)' /\ ~IsUser(t)' /\ ~IsUser(t)
  BY <1>1, <1>2, <1>3 DEF InGuard, IsUser
<1>6. Users' = Users
  BY <1>3, <1>5, UsersAfter
<1>7. refCount = Cardinality(Users) /\ (Active <=> refCount > 0) /\ (Users # {} => Active)
  BY <1>1 DEF GuardInv
<1>8. refCount = 0 => Users = {}
  BY <1>7
<1>9. Phase(t)'
  BY <1>1, <1>2, <1>3, <1>6, <1>7, <1>8 DEF Phase, Active, Shape
<1>10. Users' # {} => Active'
  BY <1>1, <1>6, <1>7 DEF Active
<1> QED
  BY <1>1, <1>3, <1>4, <1>5, <1>9, <1>10, LockStep, ThreadsAssumption

LEMMA EndInitKeeps ==
    ASSUME GuardInv, NEW t \in Threads, serviceGuardEndInit(t) PROVE GuardInv'
<1>1. pc[t] = "settle" /\ srv' = srv
  BY DEF serviceGuardEndInit
<1>2. InGuard(t)
  BY <1>1 DEF InGuard
<1>3. owner = t /\ Phase(t) /\ Shape /\ ~IsUser(t) /\ call[t].op = "none"
  BY <1>1, <1>2, OwnerIs, IdleIs DEF Calling
<1>4. CASE rc[t] = "ok"
  <2>1. owner' = NoThread /\ pc' = [pc EXCEPT ![t] = "in"] /\ UNCHANGED <<refCount, call, rc>>
    BY <1>4 DEF serviceGuardEndInit, GoTo
  <2>2. Alone(t) /\ pc'[t] = "in"
    BY <1>3, <2>1 DEF Alone, Shape
  <2>3. Shape'
    BY <1>1, <1>3, <2>1 DEF Shape, Places, Calling
  <2>4. IsUser(t)' /\ ~InGuard(t)'
    BY <1>3, <2>1, <2>2 DEF IsUser, InGuard
  <2>5. Users' = Users \cup {t} /\ t \notin Users
    BY <1>3, <2>2, <2>4, UsersAfter, UsersAre
  <2>6. Cardinality(Users') = Cardinality(Users) + 1
    BY <2>5, UsersAre, FS_AddElement
  <2>7. refCount' = Cardinality(Users') /\ refCount' > 0 /\ Active'
    BY <1>1, <1>3, <1>4, <2>1, <2>6, UsersAre, FS_CardinalityType DEF Phase, Active
  <2> QED
    BY <1>3, <1>4, <2>1, <2>2, <2>3, <2>4, <2>7, LockStep, ThreadsAssumption
<1>5. CASE rc[t] # "ok"
  <2>1. rc[t] = "failed" /\ refCount = 1 /\ Users = {}
    BY <1>1, <1>3, <1>5 DEF Shape, Phase
  <2>2. CASE Active
    <3>1. /\ Request(t, "close", "srv",
                      cmifMakeCloseRequest(IF srv.own_handle = 1 THEN 0 ELSE srv.object_id),
                      NoCall, FALSE)
          /\ UNCHANGED <<owner, refCount, rc>>
      BY <1>5, <2>2 DEF serviceGuardEndInit, serviceClose, Active, guard
    <3>2. /\ pc' = [pc EXCEPT ![t] = "send"] /\ DOMAIN call' = Threads
          /\ call'[t] \in Requests /\ call'[t].op = "close" /\ call'[t].slot = "srv"
          /\ \A u \in Threads \ {t} : call'[u] = call[u]
      BY <1>3, <3>1, NoCallIn, RequestIs DEF Operations
    <3>3. Alone(t) /\ pc'[t] = "send"
      BY <1>3, <3>1, <3>2 DEF Alone, Shape
    <3>4. Shape'
      <4>1. /\ rc' \in [Threads -> {"ok", "failed"}] /\ DOMAIN srv' = DOMAIN srv
            /\ owner' \in Threads \cup {NoThread} /\ refCount' \in Nat /\ "send" \in Places
        BY <1>1, <1>3, <3>1 DEF Shape, Places
      <4> QED
        BY <1>3, <3>2, <4>1, ShapeAfter
    <3>5. InGuard(t)' /\ ~IsUser(t)'
      BY <3>2, <3>3 DEF InGuard, IsUser
    <3>6. Users' = Users => Phase(t)'
      BY <2>1, <3>1, <3>2, <3>3 DEF Phase
    <3> QED
      BY <1>2, <1>3, <2>1, <3>1, <3>3, <3>4, <3>5, <3>6, OwnerKeeps DEF Shape
  <2>3. CASE ~Active
    <3>1. /\ refCount' = refCount - 1 /\ owner' = NoThread /\ call' = call
          /\ pc' = [pc EXCEPT ![t] = "out"] /\ rc' = [rc EXCEPT ![t] = "ok"]
      BY <1>5, <2>3 DEF serviceGuardEndInit, GoTo, Active
    <3>2. Alone(t) /\ pc'[t] = "out" /\ rc'[t] = "ok"
      BY <1>3, <3>1 DEF Alone, Shape
    <3>3. Shape'
      BY <1>1, <1>3, <2>1, <3>1 DEF Shape, Places, Calling
    <3>4. ~IsUser(t)' /\ ~InGuard(t)'
      BY <1>3, <3>1, <3>2 DEF IsUser, InGuard
    <3>5. Users' = {} /\ Cardinality(Users') = 0
      BY <2>1, <3>2, <3>4, UsersAfter, FS_EmptySet
    <3>6. refCount' = 0 /\ ~Active'
      BY <1>1, <2>1, <2>3, <3>1 DEF Active
    <3> QED
      BY <1>3, <3>1, <3>2, <3>3, <3>4, <3>5, <3>6, LockStep, ThreadsAssumption
  <2> QED
    BY <2>2, <2>3
<1> QED
  BY <1>4, <1>5

LEMMA ExitKeeps == ASSUME GuardInv, NEW t \in Threads, serviceGuardExit(t) PROVE GuardInv'
<1>1. /\ pc[t] = "exit" /\ owner = NoThread /\ UNCHANGED <<srv, rc>>
      /\ refCount' = IF refCount = 0 THEN 0 ELSE refCount - 1
  BY DEF serviceGuardExit
<1>2. Shape /\ call[t].op = "none" /\ rc[t] = "ok"
  BY <1>1, IdleIs, ThreadsAssumption DEF GuardInv, Calling
<1>3. IsUser(t) /\ t \in Users
  BY <1>1, UsersAre DEF IsUser
<1>4. refCount = Cardinality(Users) /\ Active
  BY <1>1, <1>3 DEF GuardInv
<1>5. Cardinality(Users \ {t}) = Cardinality(Users) - 1 /\ IsFiniteSet(Users \ {t})
  BY <1>3, UsersAre, FS_RemoveElement
<1>6. Cardinality(Users \ {t}) \in Nat
  BY <1>5, FS_CardinalityType
<1>7. refCount > 0 /\ refCount' = Cardinality(Users \ {t})
  BY <1>1, <1>2, <1>4, <1>5, <1>6 DEF Shape
<1>8. CASE refCount = 1
  <2>1. Users \ {t} = {}
    BY <1>1, <1>5, <1>7, <1>8, FS_EmptySet
  <2>2. /\ owner' = t
        /\ Request(t, "close", "srv",
                   cmifMakeCloseRequest(IF srv.own_handle = 1 THEN 0 ELSE srv.object_id),
                   NoCall, FALSE)
    BY <1>8 DEF serviceGuardExit, serviceClose
  <2>3. /\ pc' = [pc EXCEPT ![t] = "send"] /\ DOMAIN call' = Threads
        /\ call'[t] \in Requests /\ call'[t].op = "close" /\ call'[t].slot = "srv"
        /\ \A u \in Threads \ {t} : call'[u] = call[u]
    BY <1>2, <2>2, NoCallIn, RequestIs DEF Operations
  <2>4. Alone(t) /\ pc'[t] = "send"
    BY <1>1, <1>2, <2>3 DEF Alone, Shape
  <2>5. Shape'
    <3>1. /\ rc' \in [Threads -> {"ok", "failed"}] /\ DOMAIN srv' = DOMAIN srv
          /\ owner' \in Threads \cup {NoThread} /\ refCount' \in Nat /\ "send" \in Places
      BY <1>1, <1>2, <1>6, <1>7, <2>2 DEF Shape, Places
    <3> QED
      BY <1>2, <2>3, <3>1, ShapeAfter
  <2>6. InGuard(t)' /\ ~IsUser(t)'
    BY <2>3, <2>4 DEF InGuard, IsUser
  <2>7. Users' = {}
    BY <2>1, <2>4, <2>6, UsersAfter
  <2>8. Phase(t)'
    BY <1>1, <1>2, <1>8, <2>3, <2>4, <2>7 DEF Phase
  <2> QED
    BY <1>1, <2>2, <2>4, <2>5, <2>6, <2>7, <2>8, LockStep, ThreadsAssumption
<1>9. CASE refCount # 1
  <2>1. pc' = [pc EXCEPT ![t] = "out"] /\ UNCHANGED <<owner, call>>
    BY <1>9 DEF serviceGuardExit, GoTo
  <2>2. Alone(t) /\ pc'[t] = "out"
    BY <1>1, <1>2, <2>1 DEF Alone, Shape
  <2>3. Shape'
    BY <1>1, <1>2, <1>6, <1>7, <2>1 DEF Shape, Places, Calling
  <2>4. ~InGuard(t)' /\ ~IsUser(t)'
    BY <1>2, <2>1, <2>2 DEF InGuard, IsUser
  <2>5. Users' = Users \ {t}
    BY <2>2, <2>4, UsersAfter
  <2>6. refCount' = Cardinality(Users') /\ refCount' > 0 /\ Active'
    BY <1>1, <1>2, <1>4, <1>7, <1>9, <2>5 DEF Shape, Active
  <2> QED
    BY <1>1, <1>2, <2>1, <2>2, <2>3, <2>4, <2>6, LockStep, ThreadsAssumption
<1> QED
  BY <1>8, <1>9

\* The guarded service is closed.
LEMMA CloseKeeps ==
    ASSUME GuardInv, NEW t \in Threads, FinishClose(t), call[t].slot = "srv" PROVE GuardInv'
<1>1. /\ pc[t] = "parse" /\ call[t].op = "close" /\ srv' = NoService /\ owner' = NoThread
      /\ refCount' = IF rc[t] = "failed" THEN refCount - 1 ELSE refCount
      /\ Return(t, "out") /\ rc' = [rc EXCEPT ![t] = "ok"]
  BY DEF FinishClose, Parses
<1>2. InGuard(t)
  BY <1>1 DEF InGuard
<1>3. owner = t /\ Phase(t) /\ Shape /\ ~IsUser(t)
  BY <1>2, OwnerIs
<1>4. Users = {} /\ refCount' = 0
  BY <1>1, <1>3 DEF Phase
<1>5. /\ pc' = [pc EXCEPT ![t] = "out"] /\ DOMAIN call' = Threads
      /\ call'[t] = NoCall /\ call'[t].op = "none"
      /\ \A u \in Threads \ {t} : call'[u] = call[u]
  BY <1>1, <1>3, ReturnIs
<1>6. Alone(t) /\ pc'[t] = "out" /\ rc'[t] = "ok"
  BY <1>1, <1>3, <1>5 DEF Alone, Shape
<1>7. Shape'
  <2>1. /\ rc' \in [Threads -> {"ok", "failed"}] /\ DOMAIN srv' = DOMAIN srv
        /\ owner' \in Threads \cup {NoThread} /\ refCount' \in Nat /\ "out" \in Places
    BY <1>1, <1>3, <1>4 DEF Shape, Places, NoService
  <2> QED
    BY <1>3, <1>5, <2>1, ShapeAfter
<1>8. ~InGuard(t)' /\ ~IsUser(t)'
  BY <1>5, <1>6 DEF InGuard, IsUser
<1>9. Users' = {} /\ Cardinality(Users') = 0
  BY <1>4, <1>6, <1>8, UsersAfter, FS_EmptySet
<1>10. ~Active'
  BY <1>1 DEF Active, serviceIsActive, NoService
<1> QED
  BY <1>1, <1>3, <1>4, <1>6, <1>7, <1>8, <1>9, <1>10, LockStep, ThreadsAssumption

-----------------------------------------------------------------------------
LEMMA StutterKeeps == ASSUME GuardInv, UNCHANGED vars PROVE GuardInv'
<1>1. UNCHANGED <<owner, refCount, srv, pc, call, rc>>
  BY DEF vars, guard, threads
<1>2. Users' = Users /\ Shape'
  BY <1>1 DEF GuardInv, Users, Shape, Calling
<1> QED
  BY <1>1, <1>2 DEF GuardInv, InGuard, Phase, Active

LEMMA GuardNext == GuardInv /\ [Next]_vars => GuardInv'
<1> SUFFICES ASSUME GuardInv, [Next]_vars PROVE GuardInv'
  OBVIOUS
<1>1. ASSUME NEW t \in Threads, Locks(t) PROVE GuardInv'
  BY <1>1, BeginInitKeeps, ExitKeeps DEF Locks
<1>2. ASSUME NEW t \in Threads, Runs(t) PROVE GuardInv'
  <2>1. CASE FinishClose(t)
    <3>1. call[t] \in Requests
      BY <2>1 DEF FinishClose, Parses, GuardInv, Shape, Calling
    <3>2. call[t].slot \in {"srv", "sub"}
      BY <3>1 DEF Requests
    <3> QED
      BY <2>1, <3>2, CloseKeeps, BackKeeps
  <2> QED
    BY <1>2, <2>1, NoSessionKeeps, CreateKeeps, EndInitKeeps, SendKeeps, QueryKeeps, ConvertKeeps,
       BackKeeps DEF Runs
<1>3. ASSUME NEW t \in Threads, Serves(t) PROVE GuardInv'
  BY <1>3, SendKeeps
<1>4. ASSUME NEW t \in Threads, Calls(t) PROVE GuardInv'
  BY <1>4, UserKeeps, CallKeeps DEF Calls
<1> QED
  BY <1>1, <1>2, <1>3, <1>4, StutterKeeps DEF Next

\* With the mutex free refCount is the number of users, and there is a session
\* exactly as long as there is one; no user is ever without it, for any number
\* of threads that come, fail to and leave (service_guard.h).
THEOREM GuardCorrect == Spec => []GuardCounts
<1>1. GuardInv => GuardCounts
  BY DEF GuardInv, GuardCounts, Active
<1> QED
  BY <1>1, GuardInit, GuardNext, PTL DEF Spec

\* One thread at a time initialises the service or closes it.
OneInGuard == \A t, u \in Threads : InGuard(t) /\ InGuard(u) => t = u

\* The mutex does its duty: no two threads are between serviceGuardBeginInit and
\* serviceGuardEndInit, or in the clean-up of serviceGuardExit, at a time.
THEOREM GuardExcludes == Spec => []OneInGuard
<1>1. GuardInv => OneInGuard
  BY DEF GuardInv, OneInGuard
<1> QED
  BY <1>1, GuardInit, GuardNext, PTL DEF Spec

-----------------------------------------------------------------------------
\* Who has what: the handles and the domain objects of each thread.

\* The handles and objects a successful answer to a call has to bring.
ObjectIsHandle(c) == c.op = "dispatch" /\ ~c.is_domain /\ c.cmd.out_objects > 0
ObjectIsId(c) == c.op = "dispatch" /\ c.is_domain /\ c.cmd.out_objects > 0
CopiesOf(c) == IF c.op = "clone" THEN 0 ELSE HandlesOf(c.cmd, "Copy")
MovesOf(c) ==
    IF c.op = "clone" THEN 1
    ELSE HandlesOf(c.cmd, "Move") + (IF ObjectIsHandle(c) THEN 1 ELSE 0)

\* Where they are found in it, and the i-th handle, the copies before the moves.
Answer(c, answer) ==
    cmifParseResponse(answer, c.is_domain, IF c.op = "clone" THEN 0 ELSE c.cmd.out_size)
HandleAt(c, answer, i) == Nth(answer, Answer(c, answer).copy_handles, i)
ObjectAt(c, answer) == Nth(answer, Answer(c, answer).objects, 1)

\* It is laid out as it will be parsed, and gives nothing twice.
Laid(c, answer) ==
    LET n == CopiesOf(c) + MovesOf(c)
        at == Answer(c, answer)
    IN  /\ at.copy_handles \in Nat
        /\ at.move_handles = at.copy_handles + 4 * CopiesOf(c)
        /\ {p \in DOMAIN answer.memory : p < answer.data} = Words(at.copy_handles, n)
        /\ {p \in DOMAIN answer.memory : p >= answer.data}
              = Words(at.objects, IF ObjectIsId(c) THEN 1 ELSE 0)
        /\ ObjectIsId(c) => ObjectAt(c, answer) \in ObjectIds \cup {0}
        /\ \A i \in 1..n : \/ HandleAt(c, answer, i) \in Handles
                           \/ /\ HandleAt(c, answer, i) = 0
                              /\ ObjectIsHandle(c) /\ i = CopiesOf(c) + 1
        /\ \A i, j \in 1..n : HandleAt(c, answer, i) = HandleAt(c, answer, j) => i = j

Carries(t) == Replied(t, "clone") \/ Replied(t, "dispatch")
InAnswer(t, places) == {tls[t].memory[p] : p \in places} \ {0}

OwnHandle(t) == IF Owns(sub[t]) THEN {sub[t].session} ELSE {}
AnswerHandles(t) == IF Carries(t) THEN InAnswer(t, HandlePlaces(t)) ELSE {}
HandlesWith == [t \in Threads |-> OwnHandle(t) \cup kept[t] \cup AnswerHandles(t)]

OwnObject(t) == IF sub[t].own_handle = 0 /\ ~Gone(t) THEN {sub[t].object_id} \ {0} ELSE {}
AnswerObject(t) ==
    IF Replied(t, "convert") THEN {tls[t].value} \ {0}
    ELSE IF Replied(t, "dispatch") THEN InAnswer(t, ObjectPlaces(t)) ELSE {}
ObjectsWith == [t \in Threads |-> OwnObject(t) \cup AnswerObject(t)]

\* all is shared out between one and the threads, nothing to two of them.
SharedOut(all, one, with) ==
    /\ all = one \cup UNION {with[t] : t \in Threads}
    /\ \A t \in Threads : with[t] \cap one = {}
    /\ \A t, u \in Threads : t # u => with[t] \cap with[u] = {}

SessionOf(s) == {s.session} \ {0}
ObjectOf(s) == {s.object_id} \ {0}

\* What a thread has of its own.
Keeps(t) ==
    /\ OwnHandle(t) \cap kept[t] = {}
    /\ AnswerHandles(t) \cap (OwnHandle(t) \cup kept[t]) = {}
    /\ ~IsUser(t) \/ pc[t] = "exit" => sub[t] = NoService /\ kept[t] = {}
    /\ sub[t].own_handle = 0 =>
           \/ sub[t] = NoService
           \/ sub[t].session = srv.session /\ sub[t].object_id # 0 /\ srv.object_id # 0
    /\ sub[t].own_handle = 1 => sub[t].object_id \in {0, srv.object_id}

\* What a request on its way is for.
Asks(t) ==
    /\ call[t].op \in {"query", "convert", "clone"} => call[t].slot = "srv" /\ ~call[t].is_domain
    /\ call[t].op \in {"query", "convert"} => srv.object_id = 0
    /\ call[t].op = "clone" => sub[t].own_handle = 1 /\ sub[t].session = 0
    /\ call[t].op = "close" => serviceIsActive(Target(t))
    /\ call[t].op = "dispatch" =>
           /\ call[t].cmd \in DispatchParams
           /\ serviceIsActive(Target(t)) /\ call[t].is_domain = (Target(t).object_id # 0)
           /\ call[t].cmd.out_objects > 0 => sub[t] = NoService /\ call[t].slot = "srv"
    /\ pc[t] = "send" =>
           tls[t].object_id = IF call[t].op = "dispatch" THEN Target(t).object_id
                              ELSE IF call[t].op = "close" /\ Target(t).own_handle = 0
                              THEN Target(t).object_id ELSE 0

\* What an answer says.
Hears(t) ==
    /\ Replied(t, "query") => tls[t].value \in PointerSizes
    /\ Replied(t, "convert") => tls[t].value \in ObjectIds
    /\ Carries(t) => Laid(call[t], tls[t])
    /\ pc[t] = "parse" /\ call[t].op = "close" => Succeeded(t)

\* The guarded service.
Guarded ==
    /\ srv \in Services
    /\ IF Active THEN srv.own_handle = 1 ELSE srv = NoService
    /\ objects # {} => srv.session \in DOMAIN open /\ open[srv.session]

Stores ==
    /\ sub \in [Threads -> Services] /\ kept \in [Threads -> SUBSET Handles]
    /\ DOMAIN tls = Threads
    /\ DOMAIN open \subseteq Handles /\ objects \subseteq ObjectIds

OwnInv ==
    /\ Stores /\ Guarded
    /\ \A t \in Threads : Keeps(t) /\ Asks(t) /\ Hears(t)
    /\ SharedOut(DOMAIN open, SessionOf(srv), HandlesWith)
    /\ SharedOut(objects, ObjectOf(srv), ObjectsWith)

-----------------------------------------------------------------------------
\* An answer of a server is laid out as it is parsed.

LEMMA AlignUpIs == \A n \in Nat : AlignUp(n, 16) \in Nat /\ n <= AlignUp(n, 16)
BY DEF AlignUp

LEMMA WordsAre ==
    ASSUME NEW from \in Nat, NEW n \in Nat
    PROVE  /\ \A i \in 1..n : from + 4 * (i - 1) \in Words(from, n) /\ WordOf(from, from + 4 * (i - 1)) = i
           /\ \A p \in Words(from, n) : p \in Nat /\ from <= p /\ p < from + 4 * n
BY DEF Words, WordOf

\* A message with one run of words before data and one behind it.
Splits(memory, data, from, one, to, two) ==
    /\ {p \in DOMAIN memory : p < data} = Words(from, Len(one))
    /\ {p \in DOMAIN memory : p >= data} = Words(to, Len(two))
    /\ \A i \in 1..Len(one) : memory[from + 4 * (i - 1)] = one[i]
    /\ \A i \in 1..Len(two) : memory[to + 4 * (i - 1)] = two[i]

LEMMA MemoryIs ==
    ASSUME NEW from \in Nat, NEW one, NEW n \in Nat, n = Len(one),
           NEW to \in Nat, NEW two, NEW k \in Nat, k = Len(two),
           NEW data \in Nat, from + 4 * n <= data, data <= to,
           NEW memory, memory = Memory(from, one, to, two)
    PROVE  Splits(memory, data, from, one, to, two)
<1>0. memory = [p \in Words(from, n) \cup Words(to, k) |->
                  IF p \in Words(from, n) THEN one[WordOf(from, p)] ELSE two[WordOf(to, p)]]
  BY DEF Memory
<1>1. ASSUME NEW p \in Words(from, n) PROVE p < data /\ ~(p >= data)
  <2>1. p \in Nat /\ p < from + 4 * n
    BY WordsAre
  <2> QED
    BY <2>1
<1>2. ASSUME NEW p \in Words(to, k) PROVE p >= data /\ ~(p < data)
  <2>1. p \in Nat /\ to <= p
    BY WordsAre
  <2> QED
    BY <2>1
<1>3. DOMAIN memory = Words(from, n) \cup Words(to, k)
  BY <1>0
<1>4. ASSUME NEW i \in 1..n PROVE memory[from + 4 * (i - 1)] = one[i]
  <2>1. from + 4 * (i - 1) \in Words(from, n) /\ WordOf(from, from + 4 * (i - 1)) = i
    BY WordsAre
  <2> DEFINE p == from + 4 * (i - 1)
  <2> HIDE DEF p
  <2>2. memory[p] = one[WordOf(from, p)]
    BY <1>0, <1>1, <2>1 DEF p
  <2> QED
    BY <2>1, <2>2 DEF p
<1>5. ASSUME NEW i \in 1..k PROVE memory[to + 4 * (i - 1)] = two[i]
  <2>1. to + 4 * (i - 1) \in Words(to, k) /\ WordOf(to, to + 4 * (i - 1)) = i
    BY WordsAre
  <2> DEFINE p == to + 4 * (i - 1)
  <2> HIDE DEF p
  <2>2. memory[p] = two[WordOf(to, p)]
    BY <1>0, <1>1, <1>2, <2>1 DEF p
  <2> QED
    BY <2>1, <2>2 DEF p
<1> QED
  BY <1>1, <1>2, <1>3, <1>4, <1>5 DEF Splits

\* An answer is parsed as so many copies among the handles given, and the ids.
ParsedAs(answer, at, copies, given, ids) ==
    /\ at.copy_handles \in Nat /\ at.move_handles = at.copy_handles + 4 * copies
    /\ {p \in DOMAIN answer.memory : p < answer.data} = Words(at.copy_handles, Len(given))
    /\ {p \in DOMAIN answer.memory : p >= answer.data} = Words(at.objects, Len(ids))
    /\ \A i \in 1..Len(given) : answer.memory[at.copy_handles + 4 * (i - 1)] = given[i]
    /\ \A i \in 1..Len(ids) : answer.memory[at.objects + 4 * (i - 1)] = ids[i]

LEMMA ResponseLaid ==
    ASSUME NEW domain \in BOOLEAN, NEW size \in Nat, NEW S,
           NEW ids \in Seq(S), NEW copies \in Seq(S), NEW moves \in Seq(S),
           NEW answer, answer = Response(domain, size, ids, copies, moves),
           NEW at, at = cmifParseResponse(answer, domain, size),
           NEW given, given = copies \o moves
    PROVE  ParsedAs(answer, at, Len(copies), given, ids)
<1> DEFINE special == given # <<>>
           begin == HeaderSize(special, FALSE)
           n == Len(given)
           data == AlignUp(begin + 4 * n, 16) + (IF domain THEN DomainHeader ELSE 0) + CmifHeader
<1>1. /\ n = Len(copies) + Len(moves) /\ n \in Nat /\ Len(copies) \in Nat /\ Len(moves) \in Nat
      /\ Len(ids) \in Nat
      /\ ~special => Len(copies) = 0 /\ Len(moves) = 0
  OBVIOUS
<1>2. begin \in Nat
  BY DEF HeaderSize
<1>3. /\ answer.data = data
      /\ answer.header = [special |-> special, send_pid |-> FALSE, send_statics |-> 0,
                          copy_handles |-> Len(copies), move_handles |-> Len(moves)]
      /\ answer.memory = Memory(begin, given, data + size, ids)
  BY Zenon DEF Response
<1> HIDE DEF begin, n, special
<1>4. data \in Nat /\ begin + 4 * n <= data /\ data + size \in Nat /\ data <= data + size
  <2>1. begin + 4 * n \in Nat
    BY <1>1, <1>2
  <2> DEFINE start == AlignUp(begin + 4 * n, 16)
  <2>2. start \in Nat /\ begin + 4 * n <= start
    BY <2>1, AlignUpIs
  <2> HIDE DEF start
  <2>3. data = start + (IF domain THEN 16 ELSE 0) + 16
    BY DEF start, DomainHeader, CmifHeader
  <2> HIDE DEF data
  <2> QED
    BY <1>1, <1>2, <2>2, <2>3
<1>5. /\ at.copy_handles = begin /\ at.move_handles = begin + 4 * Len(copies)
      /\ at.objects = data + size
  <2> DEFINE header == answer.header
             parsed == hipcParseResponse(header)
  <2>1. /\ header.special = special /\ header.send_pid = FALSE /\ header.send_statics = 0
        /\ header.copy_handles = Len(copies) /\ header.move_handles = Len(moves)
    BY <1>3
  <2>2. /\ parsed.copy_handles = begin /\ parsed.move_handles = begin + 4 * Len(copies)
        /\ parsed.data_words = begin + 4 * n
    <3>1. HeaderSize(header.special, header.send_pid) = begin
      BY <2>1 DEF HeaderSize, begin
    <3>2. /\ (IF header.special THEN header.copy_handles ELSE 0) = Len(copies)
          /\ (IF header.special THEN header.move_handles ELSE 0) = Len(moves)
      BY <1>1, <2>1
    <3> DEFINE c == IF header.special THEN header.copy_handles ELSE 0
               m == IF header.special THEN header.move_handles ELSE 0
    <3>3. /\ parsed.copy_handles = HeaderSize(header.special, header.send_pid)
          /\ parsed.move_handles = HeaderSize(header.special, header.send_pid) + 4 * c
          /\ parsed.data_words = HeaderSize(header.special, header.send_pid) + 4 * (c + m)
                                    + 8 * header.send_statics
      BY Zenon DEF hipcParseResponse
    <3>4. c = Len(copies) /\ m = Len(moves)
      BY <3>2
    <3> HIDE DEF c, m, parsed
    <3> QED
      BY <1>1, <1>2, <2>1, <3>1, <3>3, <3>4
  <2> HIDE DEF data
  <2>3. /\ at.copy_handles = parsed.copy_handles /\ at.move_handles = parsed.move_handles
        /\ at.objects = AlignUp(parsed.data_words, 16) + (IF domain THEN DomainHeader ELSE 0)
                           + CmifHeader + size
    BY Zenon DEF cmifParseResponse, cmifGetAlignedDataStart
  <2> QED
    BY <2>2, <2>3 DEF data
<1> HIDE DEF data
<1>6. /\ {p \in DOMAIN answer.memory : p < data} = Words(begin, n)
      /\ {p \in DOMAIN answer.memory : p >= data} = Words(data + size, Len(ids))
      /\ \A i \in 1..n : answer.memory[begin + 4 * (i - 1)] = given[i]
      /\ \A i \in 1..Len(ids) : answer.memory[data + size + 4 * (i - 1)] = ids[i]
  <2>1. PICK memory : memory = answer.memory
    OBVIOUS
  <2>2. PICK to \in Nat, k \in Nat : to = data + size /\ k = Len(ids) /\ data <= to
    BY <1>1, <1>4
  <2>3. memory = Memory(begin, given, to, ids) /\ n = Len(given)
    BY <1>3, <2>1, <2>2 DEF n
  <2>4. Splits(memory, data, begin, given, to, ids)
    BY <1>1, <1>2, <1>4, <2>2, <2>3, MemoryIs
  <2>5. Splits(answer.memory, data, begin, given, data + size, ids)
    BY <2>1, <2>2, <2>4
  <2> QED
    BY <2>5 DEF Splits, n
<1>7. n = Len(given)
  BY DEF n
<1>8. answer.data = data
  BY <1>3
<1> QED
  BY <1>2, <1>5, <1>6, <1>7, <1>8 DEF ParsedAs

-----------------------------------------------------------------------------
\* One step of one thread: what the others have and know stays.

Apart(t) ==
    \A u \in Threads \ {t} :
        /\ sub'[u] = sub[u] /\ kept'[u] = kept[u]
        /\ pc'[u] = pc[u] /\ call'[u] = call[u] /\ tls'[u] = tls[u]

LEMMA MembersAre ==
    ASSUME NEW all, NEW one, NEW with, SharedOut(all, one, with)
    PROVE  \A x : (x \in all) <=> (x \in one \/ \E u \in Threads : x \in with[u])
BY DEF SharedOut

\* What t and one have is exchanged: gone is given away, new was nobody's.
LEMMA SharedAfter ==
    ASSUME NEW all, NEW one, NEW with, SharedOut(all, one, with),
           NEW all2, NEW one2, NEW with2, NEW t \in Threads,
           \A u \in Threads \ {t} : with2[u] = with[u],
           NEW gone, gone \subseteq one \cup with[t],
           NEW new, new \cap all = {},
           one2 \cup with2[t] = ((one \cup with[t]) \ gone) \cup new,
           with2[t] \cap one2 = {},
           all2 = (all \ gone) \cup new
    PROVE  SharedOut(all2, one2, with2)
<1>1. \A x : (x \in all) <=> (x \in one \/ \E u \in Threads : x \in with[u])
  BY MembersAre
<1>2. /\ \A u \in Threads : with[u] \cap one = {}
      /\ \A u, v \in Threads : u # v => with[u] \cap with[v] = {}
  BY Zenon DEF SharedOut
<1>3. ASSUME NEW u \in Threads \ {t}
      PROVE  with2[u] = with[u] /\ with[u] \cap (one2 \cup with2[t]) = {}
  <2>1. with[u] \cap (one \cup with[t]) = {} /\ with[u] \cap new = {}
    BY <1>1, <1>2
  <2> QED
    BY <2>1
<1>4. ASSUME NEW x PROVE (x \in all2) <=> (x \in one2 \/ \E u \in Threads : x \in with2[u])
  <2>1. CASE x \in new
    BY <2>1
  <2>2. CASE x \in gone
    <3>1. x \notin new
      BY <1>1, <2>2
    <3>2. x \notin one2 /\ x \notin with2[t]
      BY <2>2, <3>1
    <3>3. \A u \in Threads \ {t} : x \notin with[u]
      BY <1>2, <2>2
    <3> QED
      BY <1>3, <2>2, <3>1, <3>2, <3>3
  <2>3. CASE x \notin new /\ x \notin gone
    <3>1. (x \in one2 \/ x \in with2[t]) <=> (x \in one \/ x \in with[t])
      BY <2>3
    <3>2. (x \in all2) <=> (x \in all)
      BY <2>3
    <3> QED
      BY <1>1, <1>3, <3>1, <3>2
  <2> QED
    BY <2>1, <2>2, <2>3
<1>5. all2 = one2 \cup UNION {with2[u] : u \in Threads}
  BY <1>4
<1>6. \A u \in Threads : with2[u] \cap one2 = {}
  BY <1>3
<1>7. \A u, v \in Threads : u # v => with2[u] \cap with2[v] = {}
  <2> SUFFICES ASSUME NEW u \in Threads, NEW v \in Threads, u # v PROVE with2[u] \cap with2[v] = {}
    OBVIOUS
  <2>1. CASE u = t
    BY <1>3, <2>1
  <2>2. CASE v = t
    BY <1>3, <2>2
  <2>3. CASE u # t /\ v # t
    BY <1>2, <1>3, <2>3
  <2> QED
    BY <2>1, <2>2, <2>3
<1> QED
  BY <1>5, <1>6, <1>7 DEF SharedOut

LEMMA SharedSame ==
    ASSUME NEW all, NEW one, NEW with, SharedOut(all, one, with),
           NEW with2, \A u \in Threads : with2[u] = with[u]
    PROVE  SharedOut(all, one, with2)
BY DEF SharedOut

LEMMA WithAre ==
    ASSUME NEW t \in Threads
    PROVE  /\ HandlesWith[t] = OwnHandle(t) \cup kept[t] \cup AnswerHandles(t)
           /\ ObjectsWith[t] = OwnObject(t) \cup AnswerObject(t)
BY DEF HandlesWith, ObjectsWith

LEMMA WithAfter ==
    ASSUME NEW t \in Threads
    PROVE  /\ HandlesWith'[t] = OwnHandle(t)' \cup kept'[t] \cup AnswerHandles(t)'
           /\ ObjectsWith'[t] = OwnObject(t)' \cup AnswerObject(t)'
BY DEF HandlesWith, ObjectsWith

LEMMA ApartHas ==
    ASSUME NEW t \in Threads, Apart(t), NEW u \in Threads \ {t}
    PROVE  /\ OwnHandle(u)' = OwnHandle(u) /\ AnswerHandles(u)' = AnswerHandles(u)
           /\ OwnObject(u)' = OwnObject(u) /\ AnswerObject(u)' = AnswerObject(u)
           /\ HandlesWith'[u] = HandlesWith[u] /\ ObjectsWith'[u] = ObjectsWith[u]
           /\ Hears(u)' <=> Hears(u)
           /\ (IsUser(u)' <=> IsUser(u)) /\ (InGuard(u)' <=> InGuard(u))
<1>1. /\ sub'[u] = sub[u] /\ kept'[u] = kept[u]
      /\ pc'[u] = pc[u] /\ call'[u] = call[u] /\ tls'[u] = tls[u]
  BY DEF Apart
<1>2. \A op \in Operations : Replied(u, op)' <=> Replied(u, op)
  BY <1>1 DEF Replied, Succeeded
<1>3. (Carries(u)' <=> Carries(u)) /\ (Gone(u)' <=> Gone(u))
  BY <1>1, <1>2 DEF Carries, Gone, Operations
<1>4. OwnHandle(u)' = OwnHandle(u)
  BY <1>1 DEF OwnHandle, Owns
<1>5. OwnObject(u)' = OwnObject(u)
  BY <1>1, <1>3 DEF OwnObject
<1>6. HandlePlaces(u)' = HandlePlaces(u) /\ ObjectPlaces(u)' = ObjectPlaces(u)
  BY <1>1 DEF HandlePlaces, ObjectPlaces
<1>7. AnswerHandles(u)' = AnswerHandles(u)
  BY <1>1, <1>3, <1>6 DEF AnswerHandles, InAnswer
<1>8. AnswerObject(u)' = AnswerObject(u)
  BY <1>1, <1>2, <1>6 DEF AnswerObject, InAnswer, Operations
<1>9. HandlesWith'[u] = HandlesWith[u]
  BY <1>1, <1>4, <1>7, WithAre, WithAfter
<1>10. ObjectsWith'[u] = ObjectsWith[u]
  BY <1>5, <1>8, WithAre, WithAfter
<1>11. Hears(u)' <=> Hears(u)
  BY <1>1, <1>2, <1>3 DEF Hears, Operations, Succeeded
<1>12. (IsUser(u)' <=> IsUser(u)) /\ (InGuard(u)' <=> InGuard(u))
  BY <1>1 DEF IsUser, InGuard
<1> QED
  BY <1>4, <1>5, <1>7, <1>8, <1>9, <1>10, <1>11, <1>12

LEMMA ApartKeeps ==
    ASSUME GuardInv, NEW t \in Threads, Apart(t), NEW u \in Threads \ {t}, Keeps(u), Asks(u),
           srv' = srv \/ (~IsUser(u) /\ ~InGuard(u))
    PROVE  Keeps(u)' /\ Asks(u)'
<1>1. /\ sub'[u] = sub[u] /\ kept'[u] = kept[u]
      /\ pc'[u] = pc[u] /\ call'[u] = call[u] /\ tls'[u] = tls[u]
  BY DEF Apart
<1>2. /\ OwnHandle(u)' = OwnHandle(u) /\ AnswerHandles(u)' = AnswerHandles(u)
      /\ (IsUser(u)' <=> IsUser(u))
  BY ApartHas
<1>3. CASE srv' = srv
  <2>1. Target(u)' = Target(u)
    BY <1>1, <1>3 DEF Target
  <2> QED
    BY <1>1, <1>2, <1>3, <2>1 DEF Keeps, Asks
<1>4. CASE ~IsUser(u) /\ ~InGuard(u)
  <2>1. sub[u] = NoService /\ kept[u] = {}
    BY <1>4 DEF Keeps
  <2>2. call[u].op \notin Operations /\ pc[u] # "send"
    <3>1. Calling(u) => call[u] \in Requests
      BY DEF GuardInv, Shape
    <3>2. call[u] \in Requests => call[u].op \in Operations /\ call[u].slot \in {"srv", "sub"}
      BY DEF Requests, Operations
    <3>3. call[u].op \in Operations => call[u] \in Requests
      BY DEF GuardInv, Shape, NoCall, Operations
    <3> QED
      BY <1>4, <3>1, <3>2, <3>3 DEF IsUser, InGuard, Calling, Operations
  <2>3. Keeps(u)'
    BY <1>1, <1>2, <2>1 DEF Keeps, NoService
  <2>4. Asks(u)'
    BY <1>1, <2>2 DEF Asks, Operations
  <2> QED
    BY <2>3, <2>4
<1> QED
  BY <1>3, <1>4

\* The invariant after a step of t, from what the step does to t, to the
\* guarded service, and to the handles and objects there are.
LEMMA StepOwns ==
    ASSUME OwnInv, GuardInv, NEW t \in Threads, Apart(t),
           srv' = srv \/ (InGuard(t) /\ Users = {}),
           Stores', Guarded', Keeps(t)', Asks(t)', Hears(t)',
           SharedOut(DOMAIN open', SessionOf(srv)', HandlesWith'),
           SharedOut(objects', ObjectOf(srv)', ObjectsWith')
    PROVE  OwnInv'
<1>1. ASSUME NEW u \in Threads \ {t} PROVE Keeps(u)' /\ Asks(u)' /\ Hears(u)'
  <2>1. Keeps(u) /\ Asks(u) /\ Hears(u)
    BY DEF OwnInv
  <2>2. srv' = srv \/ (~IsUser(u) /\ ~InGuard(u))
    BY UsersAre DEF GuardInv
  <2> QED
    BY <2>1, <2>2, ApartKeeps, ApartHas
<1>2. \A u \in Threads : Keeps(u)' /\ Asks(u)' /\ Hears(u)'
  BY <1>1
<1> QED
  BY <1>2 DEF OwnInv

-----------------------------------------------------------------------------
\* The handles and objects there are, after a step of t.

LEMMA OwnAre ==
    ASSUME OwnInv
    PROVE  /\ SharedOut(DOMAIN open, SessionOf(srv), HandlesWith)
           /\ SharedOut(objects, ObjectOf(srv), ObjectsWith)
           /\ Stores /\ Guarded
           /\ \A u \in Threads : Keeps(u) /\ Asks(u) /\ Hears(u)
BY DEF OwnInv

LEMMA HasShare ==
    ASSUME NEW all, NEW one, NEW with, SharedOut(all, one, with), NEW t \in Threads
    PROVE  one \subseteq all /\ with[t] \subseteq all /\ with[t] \cap one = {}
BY DEF SharedOut

LEMMA HandlesAfter ==
    ASSUME OwnInv, NEW t \in Threads, Apart(t),
           NEW gone, gone \subseteq SessionOf(srv) \cup HandlesWith[t],
           NEW new, new \cap DOMAIN open = {},
           SessionOf(srv)' \cup HandlesWith'[t]
              = ((SessionOf(srv) \cup HandlesWith[t]) \ gone) \cup new,
           HandlesWith'[t] \cap SessionOf(srv)' = {},
           DOMAIN open' = (DOMAIN open \ gone) \cup new
    PROVE  SharedOut(DOMAIN open', SessionOf(srv)', HandlesWith')
<1>1. \A u \in Threads \ {t} : HandlesWith'[u] = HandlesWith[u]
  BY ApartHas
<1>2. SharedOut(DOMAIN open, SessionOf(srv), HandlesWith)
  BY OwnAre
<1>3. PICK all, all2 : all = DOMAIN open /\ all2 = DOMAIN open'
  OBVIOUS
<1>4. SharedOut(all, SessionOf(srv), HandlesWith) /\ new \cap all = {} /\ all2 = (all \ gone) \cup new
  BY <1>2, <1>3
<1>5. SharedOut(all2, SessionOf(srv)', HandlesWith')
  BY <1>1, <1>4, SharedAfter
<1> QED
  BY <1>3, <1>5

LEMMA ObjectsAfter ==
    ASSUME OwnInv, NEW t \in Threads, Apart(t),
           NEW gone, gone \subseteq ObjectOf(srv) \cup ObjectsWith[t],
           NEW new, new \cap objects = {},
           ObjectOf(srv)' \cup ObjectsWith'[t]
              = ((ObjectOf(srv) \cup ObjectsWith[t]) \ gone) \cup new,
           ObjectsWith'[t] \cap ObjectOf(srv)' = {},
           objects' = (objects \ gone) \cup new
    PROVE  SharedOut(objects', ObjectOf(srv)', ObjectsWith')
<1>1. \A u \in Threads \ {t} : ObjectsWith'[u] = ObjectsWith[u]
  BY ApartHas
<1>2. SharedOut(objects, ObjectOf(srv), ObjectsWith)
  BY OwnAre
<1> QED
  BY <1>1, <1>2, SharedAfter

LEMMA HandlesSame ==
    ASSUME OwnInv, NEW t \in Threads, Apart(t), DOMAIN open' = DOMAIN open,
           SessionOf(srv)' = SessionOf(srv), HandlesWith'[t] = HandlesWith[t]
    PROVE  SharedOut(DOMAIN open', SessionOf(srv)', HandlesWith')
<1>1. \A u \in Threads : HandlesWith'[u] = HandlesWith[u]
  BY ApartHas
<1>2. SharedOut(DOMAIN open, SessionOf(srv), HandlesWith)
  BY OwnAre
<1> QED
  BY <1>1, <1>2, SharedSame

LEMMA ObjectsSame ==
    ASSUME OwnInv, NEW t \in Threads, Apart(t), objects' = objects,
           ObjectOf(srv)' = ObjectOf(srv), ObjectsWith'[t] = ObjectsWith[t]
    PROVE  SharedOut(objects', ObjectOf(srv)', ObjectsWith')
<1>1. \A u \in Threads : ObjectsWith'[u] = ObjectsWith[u]
  BY ApartHas
<1>2. SharedOut(objects, ObjectOf(srv), ObjectsWith)
  BY OwnAre
<1> QED
  BY <1>1, <1>2, SharedSame

-----------------------------------------------------------------------------
\* Steps that move nothing: t has no answer before, and none with a handle or
\* an object after.

Bare(t) == ~Carries(t) /\ ~Replied(t, "convert") /\ ~Gone(t)

LEMMA BareHas ==
    ASSUME NEW t \in Threads, Bare(t)
    PROVE  /\ AnswerHandles(t) = {} /\ AnswerObject(t) = {}
           /\ HandlesWith[t] = OwnHandle(t) \cup kept[t]
           /\ OwnObject(t) = IF sub[t].own_handle = 0 THEN {sub[t].object_id} \ {0} ELSE {}
           /\ ObjectsWith[t] = OwnObject(t)
<1>1. AnswerHandles(t) = {} /\ AnswerObject(t) = {}
  BY DEF Bare, AnswerHandles, AnswerObject, Carries
<1> QED
  BY <1>1, WithAre DEF Bare, OwnObject

LEMMA BareAfter ==
    ASSUME NEW t \in Threads, Bare(t)'
    PROVE  /\ AnswerHandles(t)' = {} /\ AnswerObject(t)' = {}
           /\ HandlesWith'[t] = OwnHandle(t)' \cup kept'[t]
           /\ OwnObject(t)' = IF sub'[t].own_handle = 0 THEN {sub'[t].object_id} \ {0} ELSE {}
           /\ ObjectsWith'[t] = OwnObject(t)'
<1>1. AnswerHandles(t)' = {} /\ AnswerObject(t)' = {}
  BY DEF Bare, AnswerHandles, AnswerObject, Carries
<1> QED
  BY <1>1, WithAfter DEF Bare, OwnObject

LEMMA QuietOwns ==
    ASSUME OwnInv, GuardInv, NEW t \in Threads, Apart(t), UNCHANGED <<srv, sub, kept, server>>,
           DOMAIN tls' = Threads, Bare(t), Bare(t)',
           ~IsUser(t)' \/ pc'[t] = "exit" => sub[t] = NoService /\ kept[t] = {},
           Asks(t)', Hears(t)'
    PROVE  OwnInv'
<1>1. Stores /\ Guarded /\ Keeps(t)
  BY OwnAre
<1>2. UNCHANGED <<srv, sub, kept, open, objects>>
  BY DEF server
<1>3. Stores' /\ Guarded'
  BY <1>1, <1>2 DEF Stores, Guarded, Active
<1>4. OwnHandle(t)' = OwnHandle(t) /\ kept'[t] = kept[t] /\ sub'[t] = sub[t]
  BY <1>2 DEF OwnHandle, Owns
<1>5. HandlesWith'[t] = HandlesWith[t] /\ ObjectsWith'[t] = ObjectsWith[t]
  <2>1. HandlesWith[t] = OwnHandle(t) \cup kept[t] /\ HandlesWith'[t] = OwnHandle(t)' \cup kept'[t]
    BY BareHas, BareAfter
  <2>2. ObjectsWith[t] = OwnObject(t) /\ ObjectsWith'[t] = OwnObject(t)' /\ OwnObject(t)' = OwnObject(t)
    BY <1>4, BareHas, BareAfter
  <2> QED
    BY <1>4, <2>1, <2>2
<1>6. Keeps(t)'
  BY <1>1, <1>2, <1>4, BareAfter DEF Keeps
<1>7. SharedOut(DOMAIN open', SessionOf(srv)', HandlesWith')
  BY <1>2, <1>5, HandlesSame DEF SessionOf
<1>8. SharedOut(objects', ObjectOf(srv)', ObjectsWith')
  BY <1>2, <1>5, ObjectsSame DEF ObjectOf
<1> QED
  BY <1>2, <1>3, <1>6, <1>7, <1>8, StepOwns

-----------------------------------------------------------------------------
LEMMA OwnInit == Init => OwnInv
<1> SUFFICES ASSUME Init PROVE OwnInv
  OBVIOUS
<1>1. /\ srv = NoService /\ objects = {} /\ DOMAIN open = {} /\ DOMAIN tls = Threads
      /\ sub = [t \in Threads |-> NoService] /\ kept = [t \in Threads |-> {}]
      /\ \A t \in Threads : sub[t] = NoService /\ kept[t] = {} /\ pc[t] = "out" /\ call[t].op = "none"
  BY DEF Init, NoCall
<1>2. NoService \in Services
  BY DEF NoService, Services
<1>3. Stores /\ Guarded
  BY <1>1, <1>2 DEF Stores, Guarded, Active, serviceIsActive, NoService
<1>4. ASSUME NEW t \in Threads
      PROVE  /\ Keeps(t) /\ Asks(t) /\ Hears(t)
             /\ HandlesWith[t] = {} /\ ObjectsWith[t] = {}
  <2>1. Bare(t)
    BY <1>1 DEF Bare, Carries, Replied, Gone
  <2>2. OwnHandle(t) = {} /\ OwnObject(t) = {}
    BY <1>1, <2>1, BareHas DEF OwnHandle, Owns, NoService
  <2>3. HandlesWith[t] = {} /\ ObjectsWith[t] = {}
    BY <1>1, <2>1, <2>2, BareHas
  <2>4. Keeps(t)
    BY <1>1, <2>1, <2>2, BareHas DEF Keeps, NoService
  <2>5. Asks(t) /\ Hears(t)
    BY <1>1, <2>1 DEF Asks, Hears, Bare, Carries, Replied
  <2> QED
    BY <2>3, <2>4, <2>5
<1>5. SessionOf(srv) = {} /\ ObjectOf(srv) = {}
  BY <1>1 DEF SessionOf, ObjectOf, NoService
<1>6. SharedOut({}, {}, HandlesWith) /\ SharedOut({}, {}, ObjectsWith)
  BY <1>4 DEF SharedOut
<1> QED
  BY <1>1, <1>3, <1>4, <1>5, <1>6 DEF OwnInv

-----------------------------------------------------------------------------
\* Moves, requests, and answers that bring nothing.

LEMMA IdleHas ==
    ASSUME GuardInv, NEW t \in Threads, ~Calling(t)
    PROVE  /\ Bare(t) /\ call[t] = NoCall /\ call[t].op = "none"
           /\ IsUser(t) <=> pc[t] \in {"in", "exit"}
<1>1. call[t] = NoCall /\ call[t].op = "none"
  BY IdleIs DEF GuardInv, Shape
<1>2. pc[t] # "parse"
  BY DEF Calling
<1> QED
  BY <1>1, <1>2 DEF Bare, Carries, Replied, Gone, IsUser

LEMMA StrangerHas ==
    ASSUME OwnInv, NEW t \in Threads, ~IsUser(t) \/ pc[t] = "exit"
    PROVE  sub[t] = NoService /\ kept[t] = {}
BY OwnAre DEF Keeps

LEMMA MoveOwns ==
    ASSUME OwnInv, GuardInv, NEW t \in Threads, ~Calling(t), ~Calling(t)',
           NEW label, GoTo(t, label), UNCHANGED <<srv, sub, kept, call, tls, server>>,
           sub[t] = NoService /\ kept[t] = {}
    PROVE  OwnInv'
<1>1. DOMAIN pc = Threads /\ DOMAIN tls = Threads
  BY OwnAre DEF GuardInv, Shape, Stores
<1>2. Apart(t)
  BY <1>1 DEF Apart, GoTo
<1>3. Bare(t) /\ call[t].op = "none"
  BY IdleHas
<1>4. Bare(t)' /\ call'[t].op = "none" /\ pc'[t] \notin {"send", "parse"}
  BY <1>3 DEF Bare, Carries, Replied, Gone, Calling
<1>5. Asks(t)'
  BY <1>4 DEF Asks
<1>6. Hears(t)'
  BY <1>4 DEF Hears, Bare, Replied
<1> QED
  BY <1>1, <1>2, <1>3, <1>4, <1>5, <1>6, QuietOwns

\* The message of a request that t makes.
LEMMA RequestMakes ==
    ASSUME GuardInv, NEW t \in Threads, DOMAIN tls = Threads,
           NEW op \in Operations, NEW slot \in {"srv", "sub"},
           NEW message, NEW cmd, NEW is_domain,
           Request(t, op, slot, message, cmd, is_domain)
    PROVE  /\ pc'[t] = "send" /\ DOMAIN tls' = Threads /\ tls'[t] = message
           /\ call'[t].op = op /\ call'[t].slot = slot /\ call'[t].cmd = cmd
           /\ call'[t].is_domain = is_domain
           /\ \A u \in Threads \ {t} : pc'[u] = pc[u] /\ call'[u] = call[u] /\ tls'[u] = tls[u]
BY DEF Request, GoTo, GuardInv, Shape

\* To whom a request goes, said of a slot.
ServiceIn(t, slot) == IF slot = "srv" THEN srv ELSE sub[t]

LEMMA RequestOwns ==
    ASSUME OwnInv, GuardInv, NEW t \in Threads, ~Calling(t),
           NEW op \in {"close", "dispatch"}, NEW slot \in {"srv", "sub"},
           NEW message, NEW cmd, NEW is_domain, NEW s, s = ServiceIn(t, slot),
           Request(t, op, slot, message, cmd, is_domain),
           UNCHANGED <<srv, sub, kept, server>>,
           serviceIsActive(s),
           message.object_id = IF op = "dispatch" \/ s.own_handle = 0 THEN s.object_id ELSE 0,
           op = "dispatch" => /\ cmd \in DispatchParams /\ is_domain = (s.object_id # 0)
                              /\ cmd.out_objects > 0 => sub[t] = NoService /\ slot = "srv",
           op = "close" /\ slot = "srv" => sub[t] = NoService /\ kept[t] = {}
    PROVE  OwnInv'
<1>1. DOMAIN tls = Threads
  BY OwnAre DEF Stores
<1>2. /\ pc'[t] = "send" /\ DOMAIN tls' = Threads /\ tls'[t] = message
      /\ call'[t].op = op /\ call'[t].slot = slot /\ call'[t].cmd = cmd
      /\ call'[t].is_domain = is_domain
      /\ \A u \in Threads \ {t} : pc'[u] = pc[u] /\ call'[u] = call[u] /\ tls'[u] = tls[u]
  BY <1>1, RequestMakes DEF Operations
<1>3. Apart(t)
  BY <1>2 DEF Apart
<1>4. Bare(t) /\ Bare(t)'
  BY <1>2, IdleHas DEF Bare, Carries, Replied, Gone
<1>5. Target(t)' = s
  BY <1>2 DEF Target, ServiceIn
<1>6. ~IsUser(t)' => op = "close" /\ slot = "srv"
  BY <1>2 DEF IsUser
<1>7. Asks(t)'
  <2>1. serviceIsActive(Target(t))'
    BY <1>5 DEF serviceIsActive
  <2> QED
    BY <1>2, <1>5, <2>1 DEF Asks
<1>8. Hears(t)'
  BY <1>2, <1>4 DEF Hears, Replied, Carries
<1> QED
  BY <1>2, <1>3, <1>4, <1>6, <1>7, <1>8, QuietOwns

\* What a close request says of whom it closes.
LEMMA CloseNames ==
    ASSUME NEW s
    PROVE  cmifMakeCloseRequest(IF s.own_handle = 1 THEN 0 ELSE s.object_id).object_id
              = IF s.own_handle = 1 THEN 0 ELSE s.object_id
<1>1. \A id : cmifMakeCloseRequest(id).object_id = id
  BY DEF cmifMakeCloseRequest, Plain
<1> QED
  BY <1>1

\* What a dispatched request says.
LEMMA RequestNames ==
    ASSUME NEW s, NEW cmd
    PROVE  serviceMakeRequest(s, cmd).object_id = s.object_id
<1> DEFINE empty == cmifMakeRequest(Format(s, cmd))
<1>1. empty.object_id = s.object_id
  BY DEF cmifMakeRequest, Format
<1> HIDE DEF empty
<1>2. PICK put, size, id, request :
         /\ request = serviceMakeRequest(s, cmd)
         /\ request = [empty EXCEPT !.put = put, !.pointer_size = size, !.cur_in_ptr_id = id]
  BY Zenon DEF serviceMakeRequest, empty
<1>3. PICK one, two : one = [empty EXCEPT !.put = put] /\ two = [one EXCEPT !.pointer_size = size]
  OBVIOUS
<1>4. request = [two EXCEPT !.cur_in_ptr_id = id]
  BY <1>2, <1>3, Zenon
<1>5. /\ request.object_id = two.object_id /\ two.object_id = one.object_id
      /\ one.object_id = empty.object_id
  BY <1>3, <1>4
<1> QED
  BY <1>1, <1>2, <1>5

\* Where a request goes there is a session, and in a domain an object.
LEMMA TargetLives ==
    ASSUME OwnInv, GuardInv, NEW t \in Threads, Calling(t)
    PROVE  /\ Target(t) \in Services /\ serviceIsActive(Target(t))
           /\ Target(t).session \in DOMAIN open
           /\ Target(t).object_id # 0 /\ ~Gone(t) => Target(t).object_id \in objects
<1>1. /\ call[t].op \in Operations /\ call[t].slot \in {"srv", "sub"}
      /\ Keeps(t) /\ Asks(t) /\ Stores /\ Guarded
  BY OwnAre DEF GuardInv, Shape, Requests, Operations
<1>2. /\ SessionOf(srv) \subseteq DOMAIN open /\ HandlesWith[t] \subseteq DOMAIN open
      /\ ObjectOf(srv) \subseteq objects /\ ObjectsWith[t] \subseteq objects
  BY OwnAre, HasShare
<1>3. IsUser(t) => Active
  BY UsersAre DEF GuardInv
<1>4. Active => srv.session \in DOMAIN open
  BY <1>2 DEF Active, serviceIsActive, SessionOf
<1>5. srv.object_id # 0 => srv.object_id \in objects
  BY <1>2 DEF ObjectOf
<1>6. CASE call[t].slot = "srv"
  <2>1. Target(t) = srv
    BY <1>6 DEF Target
  <2>2. Active
    <3>1. CASE call[t].op \in {"dispatch", "close"}
      BY <1>1, <2>1, <3>1 DEF Asks, Active
    <3>2. CASE call[t].op = "clone"
      BY <1>3, <3>2 DEF IsUser
    <3>3. CASE call[t].op \in {"query", "convert"}
      <4>1. Phase(t)
        BY <3>3, OwnerIs DEF InGuard
      <4> QED
        BY <3>3, <4>1 DEF Phase
    <3> QED
      BY <1>1, <3>1, <3>2, <3>3 DEF Operations
  <2> QED
    BY <1>1, <1>4, <1>5, <2>1, <2>2 DEF Guarded, Active
<1>7. CASE call[t].slot = "sub"
  <2>1. Target(t) = sub[t] /\ sub[t] \in Services
    BY <1>1, <1>7 DEF Target, Stores
  <2>2. call[t].op \in {"dispatch", "close"} /\ serviceIsActive(sub[t]) /\ IsUser(t)
    BY <1>1, <1>7, <2>1 DEF Asks, Operations, IsUser
  <2>3. sub[t].own_handle \in {0, 1} /\ sub[t] # NoService
    BY <2>1, <2>2 DEF Services, serviceIsActive, NoService
  <2>4. CASE sub[t].own_handle = 0
    <3>1. sub[t].session = srv.session /\ sub[t].object_id # 0
      BY <1>1, <2>3, <2>4 DEF Keeps
    <3>2. ~Gone(t) => sub[t].object_id \in ObjectsWith[t]
      BY <2>4, <3>1, WithAre DEF OwnObject
    <3> QED
      BY <1>2, <1>3, <1>4, <2>1, <2>2, <3>1, <3>2
  <2>5. CASE sub[t].own_handle = 1
    <3>1. sub[t].session \in HandlesWith[t]
      BY <2>2, <2>5, WithAre DEF OwnHandle, Owns
    <3>2. sub[t].object_id \in {0, srv.object_id}
      BY <1>1, <2>5 DEF Keeps
    <3> QED
      BY <1>2, <1>5, <2>1, <2>2, <3>1, <3>2
  <2> QED
    BY <2>3, <2>4, <2>5
<1> QED
  BY <1>1, <1>6, <1>7

LEMMA SendOwns == ASSUME OwnInv, GuardInv, NEW t \in Threads, Send(t) PROVE OwnInv'
<1>1. /\ pc[t] = "send" /\ Calling(t) /\ UNCHANGED <<srv, sub, kept, server, tls>>
      /\ Target(t).session \in DOMAIN open
  BY TargetLives DEF Send, Calling
<1>2. pc' = [pc EXCEPT ![t] = "wait"] /\ call' = call
  BY <1>1 DEF Send, GoTo
<1>3. DOMAIN pc = Threads /\ DOMAIN tls = Threads /\ Keeps(t) /\ Asks(t)
  BY OwnAre DEF GuardInv, Shape, Stores
<1>4. Apart(t) /\ pc'[t] = "wait" /\ call'[t] = call[t]
  BY <1>1, <1>2, <1>3 DEF Apart
<1>5. Bare(t) /\ Bare(t)'
  BY <1>1, <1>4 DEF Bare, Carries, Replied, Gone
<1>6. (IsUser(t)' <=> IsUser(t))
  BY <1>1, <1>4 DEF IsUser
<1>7. Asks(t)'
  <2>1. Target(t)' = Target(t)
    BY <1>1, <1>4 DEF Target
  <2> QED
    BY <1>1, <1>3, <1>4, <2>1 DEF Asks
<1>8. Hears(t)'
  BY <1>4 DEF Hears, Carries, Replied
<1> QED
  BY <1>1, <1>3, <1>4, <1>5, <1>6, <1>7, <1>8, QuietOwns DEF Keeps

\* What a reply makes of the call it is to.
LEMMA ReplyIs ==
    ASSUME OwnInv, GuardInv, NEW t \in Threads, pc[t] = "wait", NEW result \in {"ok", "failed"},
           NEW answer, Reply(t, result, answer)
    PROVE  /\ UNCHANGED <<srv, sub, kept>> /\ Apart(t) /\ DOMAIN tls' = Threads
           /\ pc'[t] = "parse" /\ tls'[t] = answer /\ call'[t].result = result
           /\ call'[t].op = call[t].op /\ call'[t].slot = call[t].slot
           /\ call'[t].cmd = call[t].cmd /\ call'[t].is_domain = call[t].is_domain
           /\ Bare(t) /\ (IsUser(t)' <=> IsUser(t))
           /\ Target(t)' = Target(t) /\ Asks(t)'
<1>1. /\ DOMAIN pc = Threads /\ DOMAIN tls = Threads /\ DOMAIN call = Threads
      /\ call[t] \in Requests /\ Asks(t)
  BY OwnAre DEF GuardInv, Shape, Stores, Calling
<1>2. /\ tls' = [tls EXCEPT ![t] = answer] /\ pc' = [pc EXCEPT ![t] = "parse"]
      /\ call' = [call EXCEPT ![t].result = result] /\ UNCHANGED <<srv, sub, kept>>
  BY DEF Reply, GoTo
<1>3. /\ pc'[t] = "parse" /\ tls'[t] = answer /\ DOMAIN tls' = Threads
      /\ call'[t] = [call[t] EXCEPT !.result = result]
      /\ \A u \in Threads \ {t} : pc'[u] = pc[u] /\ call'[u] = call[u] /\ tls'[u] = tls[u]
  BY <1>1, <1>2
<1>4. /\ call'[t].result = result
      /\ call'[t].op = call[t].op /\ call'[t].slot = call[t].slot
      /\ call'[t].cmd = call[t].cmd /\ call'[t].is_domain = call[t].is_domain
  BY <1>1, <1>3 DEF Requests
<1>5. Apart(t)
  BY <1>2, <1>3 DEF Apart
<1>6. Bare(t)
  BY DEF Bare, Carries, Replied, Gone
<1>7. (IsUser(t)' <=> IsUser(t))
  BY <1>3, <1>4 DEF IsUser
<1>8. Target(t)' = Target(t)
  BY <1>2, <1>4 DEF Target
<1>9. Asks(t)'
  BY <1>1, <1>2, <1>3, <1>4, <1>8 DEF Asks
<1> QED
  BY <1>2, <1>3, <1>4, <1>5, <1>6, <1>7, <1>8, <1>9

LEMMA RefuseOwns == ASSUME OwnInv, GuardInv, NEW t \in Threads, Refuse(t) PROVE OwnInv'
<1>1. pc[t] = "wait" /\ call[t].op # "close" /\ UNCHANGED server /\ Reply(t, "failed", NoMessage)
  BY DEF Refuse
<1>2. /\ UNCHANGED <<srv, sub, kept>> /\ Apart(t) /\ DOMAIN tls' = Threads
      /\ pc'[t] = "parse" /\ call'[t].result = "failed" /\ call'[t].op = call[t].op
      /\ Bare(t) /\ (IsUser(t)' <=> IsUser(t)) /\ Asks(t)'
  BY <1>1, ReplyIs
<1>3. Bare(t)' /\ Hears(t)'
  BY <1>1, <1>2 DEF Bare, Hears, Carries, Replied, Succeeded, Gone
<1> QED
  BY <1>1, <1>2, <1>3, OwnAre, QuietOwns DEF Keeps

LEMMA ServeQueryOwns == ASSUME OwnInv, GuardInv, NEW t \in Threads, ServeQuery(t) PROVE OwnInv'
<1>1. PICK size \in PointerSizes :
         pc[t] = "wait" /\ call[t].op = "query" /\ UNCHANGED server /\ Reply(t, "ok", DataResponse(size))
  BY DEF ServeQuery, Waits
<1>2. /\ UNCHANGED <<srv, sub, kept>> /\ Apart(t) /\ DOMAIN tls' = Threads
      /\ pc'[t] = "parse" /\ call'[t].op = "query" /\ tls'[t] = DataResponse(size)
      /\ Bare(t) /\ (IsUser(t)' <=> IsUser(t)) /\ Asks(t)'
  BY <1>1, ReplyIs
<1>3. tls'[t].value = size
  BY <1>2 DEF DataResponse
<1>4. Bare(t)' /\ Hears(t)'
  BY <1>1, <1>2, <1>3 DEF Bare, Hears, Carries, Replied, Succeeded, Gone
<1> QED
  BY <1>1, <1>2, <1>4, OwnAre, QuietOwns DEF Keeps

LEMMA MovesOwn ==
    ASSUME OwnInv, GuardInv, NEW t \in Threads,
           nameInitialize(t) \/ serviceGuardBeginInit(t) \/ NoSession(t) \/ nameExit(t)
    PROVE  OwnInv'
<1>1. UNCHANGED <<srv, sub, kept, call, tls, server>>
  BY DEF nameInitialize, serviceGuardBeginInit, NoSession, nameExit
<1>2. PICK label \in {"lock", "open", "settle", "exit"} : GoTo(t, label)
  BY DEF nameInitialize, serviceGuardBeginInit, NoSession, nameExit
<1>3. pc[t] \in {"out", "lock", "open", "in"} /\ ~Calling(t)
  BY DEF nameInitialize, serviceGuardBeginInit, NoSession, nameExit, Calling
<1>4. pc'[t] = label /\ ~Calling(t)'
  BY <1>2 DEF GuardInv, Shape, GoTo, Calling
<1>5. sub[t] = NoService /\ kept[t] = {}
  <2>1. CASE pc[t] = "in"
    BY <2>1 DEF nameInitialize, serviceGuardBeginInit, NoSession, nameExit
  <2>2. CASE pc[t] # "in"
    BY <1>3, <2>2, IdleHas, StrangerHas
  <2> QED
    BY <2>1, <2>2
<1> QED
  BY <1>1, <1>2, <1>3, <1>4, <1>5, MoveOwns

\* The guarded service is closed with its own handle.
LEMMA CloseSrvOwns ==
    ASSUME OwnInv, GuardInv, NEW t \in Threads, pc[t] \in {"settle", "exit"}, Active,
           serviceClose(t, "srv", srv), UNCHANGED <<srv, sub, kept, server>>
    PROVE  OwnInv'
<1>1. ~Calling(t)
  BY DEF Calling
<1>2. sub[t] = NoService /\ kept[t] = {}
  BY <1>1, IdleHas, StrangerHas
<1>3. srv.own_handle = 1 /\ serviceIsActive(srv)
  BY OwnAre DEF Guarded, Active
<1>4. PICK message : /\ message = cmifMakeCloseRequest(IF srv.own_handle = 1 THEN 0 ELSE srv.object_id)
                     /\ Request(t, "close", "srv", message, NoCall, FALSE)
  BY DEF serviceClose
<1>5. message.object_id = 0
  BY <1>3, <1>4, CloseNames
<1>6. PICK s : s = srv /\ s = ServiceIn(t, "srv")
  BY DEF ServiceIn
<1>7. serviceIsActive(s) /\ message.object_id = IF s.own_handle = 0 THEN s.object_id ELSE 0
  BY <1>3, <1>5, <1>6
<1> QED
  BY <1>1, <1>2, <1>4, <1>6, <1>7, RequestOwns

LEMMA EndInitOwns ==
    ASSUME OwnInv, GuardInv, NEW t \in Threads, serviceGuardEndInit(t) PROVE OwnInv'
<1>1. pc[t] = "settle" /\ ~Calling(t) /\ UNCHANGED <<srv, sub, kept, server>>
  BY DEF serviceGuardEndInit, Calling
<1>2. sub[t] = NoService /\ kept[t] = {}
  BY <1>1, IdleHas, StrangerHas
<1>3. CASE rc[t] = "ok" \/ ~serviceIsActive(srv)
  <2>1. PICK label \in {"in", "out"} : GoTo(t, label) /\ UNCHANGED <<call, tls>>
    BY <1>3 DEF serviceGuardEndInit
  <2>2. ~Calling(t)'
    BY <2>1 DEF GuardInv, Shape, GoTo, Calling
  <2> QED
    BY <1>1, <1>2, <2>1, <2>2, MoveOwns
<1>4. CASE rc[t] # "ok" /\ serviceIsActive(srv)
  <2>1. serviceClose(t, "srv", srv)
    BY <1>4 DEF serviceGuardEndInit
  <2> QED
    BY <1>1, <1>4, <2>1, CloseSrvOwns DEF Active
<1> QED
  BY <1>3, <1>4

LEMMA ExitOwns == ASSUME OwnInv, GuardInv, NEW t \in Threads, serviceGuardExit(t) PROVE OwnInv'
<1>1. pc[t] = "exit" /\ ~Calling(t) /\ UNCHANGED <<srv, sub, kept, server>>
  BY DEF serviceGuardExit, Calling
<1>2. sub[t] = NoService /\ kept[t] = {} /\ Active
  BY <1>1, StrangerHas, IdleHas, UsersAre DEF GuardInv
<1>3. CASE refCount = 1
  <2>1. serviceClose(t, "srv", srv)
    BY <1>3 DEF serviceGuardExit
  <2> QED
    BY <1>1, <1>2, <2>1, CloseSrvOwns
<1>4. CASE refCount # 1
  <2>1. GoTo(t, "out") /\ UNCHANGED <<call, tls>>
    BY <1>4 DEF serviceGuardExit
  <2>2. ~Calling(t)'
    BY <2>1 DEF GuardInv, Shape, GoTo, Calling
  <2> QED
    BY <1>1, <1>2, <2>1, <2>2, MoveOwns
<1> QED
  BY <1>3, <1>4

LEMMA CloseSubOwns == ASSUME OwnInv, GuardInv, NEW t \in Threads, CloseSub(t) PROVE OwnInv'
<1>1. /\ ~Calling(t) /\ UNCHANGED <<srv, sub, kept, server>>
      /\ serviceIsActive(sub[t]) /\ serviceClose(t, "sub", sub[t])
  BY DEF CloseSub, Calling, guard
<1>2. sub[t] \in Services /\ sub[t].own_handle \in {0, 1}
  BY OwnAre DEF Stores, Services
<1>3. PICK message :
         /\ message = cmifMakeCloseRequest(IF sub[t].own_handle = 1 THEN 0 ELSE sub[t].object_id)
         /\ Request(t, "close", "sub", message, NoCall, FALSE)
  BY <1>1 DEF serviceClose
<1>4. message.object_id = IF sub[t].own_handle = 0 THEN sub[t].object_id ELSE 0
  BY <1>2, <1>3, CloseNames
<1>5. PICK s : s = sub[t] /\ s = ServiceIn(t, "sub")
  BY DEF ServiceIn
<1>6. message.object_id = IF s.own_handle = 0 THEN s.object_id ELSE 0
  BY <1>4, <1>5
<1> QED
  BY <1>1, <1>3, <1>5, <1>6, RequestOwns

LEMMA DispatchOwns ==
    ASSUME OwnInv, GuardInv, NEW t \in Threads, NEW slot \in {"srv", "sub"},
           NEW cmd \in CommandsOf(t, slot), serviceDispatch(t, slot, cmd)
    PROVE  OwnInv'
<1>1. PICK s : s = ServiceIn(t, slot)
  OBVIOUS
<1>2. /\ pc[t] = "in" /\ serviceIsActive(s) /\ UNCHANGED <<srv, sub, kept, server>>
      /\ cmd.out_objects > 0 => sub[t] = NoService
      /\ Request(t, "dispatch", slot, serviceMakeRequest(s, cmd), cmd, s.object_id # 0)
  BY <1>1 DEF serviceDispatch, ServiceIn
<1>3. cmd \in DispatchParams
  BY CommandsAssumption
<1>4. cmd.out_objects > 0 => slot = "srv"
  BY <1>1, <1>2 DEF ServiceIn, serviceIsActive, NoService
<1>5. PICK message : message = serviceMakeRequest(s, cmd)
  OBVIOUS
<1>6. message.object_id = s.object_id
  BY <1>5, RequestNames
<1>7. PICK is_domain : is_domain = (s.object_id # 0)
  OBVIOUS
<1>8. ~Calling(t)
  BY <1>2 DEF Calling
<1>9. Request(t, "dispatch", slot, message, cmd, is_domain)
  BY <1>2, <1>5, <1>7
<1> QED
  BY <1>1, <1>2, <1>3, <1>4, <1>6, <1>7, <1>8, <1>9, RequestOwns

-----------------------------------------------------------------------------
\* The guard makes its service.

LEMMA OpenedIs ==
    ASSUME NEW handles, NEW domain
    PROVE  /\ DOMAIN Opened(handles, domain) = DOMAIN open \cup {handles[i] : i \in DOMAIN handles}
           /\ \A h \in DOMAIN open : Opened(handles, domain)[h] = open[h]
BY DEF Opened, Range

\* After a return nothing is on its way.
LEMMA ReturnMakes ==
    ASSUME OwnInv, GuardInv, NEW t \in Threads, NEW label \in {"settle", "out", "in"},
           Return(t, label)
    PROVE  /\ pc'[t] = label /\ call'[t].op = "none" /\ DOMAIN tls' = Threads
           /\ \A u \in Threads \ {t} : pc'[u] = pc[u] /\ call'[u] = call[u] /\ tls'[u] = tls[u]
           /\ Bare(t)' /\ Asks(t)' /\ Hears(t)' /\ (IsUser(t)' <=> label = "in")
<1>1. DOMAIN pc = Threads /\ DOMAIN call = Threads /\ DOMAIN tls = Threads
  BY OwnAre DEF GuardInv, Shape, Stores
<1>2. /\ pc'[t] = label /\ call'[t].op = "none" /\ DOMAIN tls' = Threads
      /\ \A u \in Threads \ {t} : pc'[u] = pc[u] /\ call'[u] = call[u] /\ tls'[u] = tls[u]
  BY <1>1 DEF Return, GoTo, NoCall
<1>3. Bare(t)'
  BY <1>2 DEF Bare, Carries, Replied, Gone
<1>4. Asks(t)' /\ Hears(t)'
  BY <1>2, <1>3 DEF Asks, Hears, Bare, Replied
<1>5. (IsUser(t)' <=> label = "in")
  BY <1>2 DEF IsUser
<1> QED
  BY <1>2, <1>3, <1>4, <1>5

\* In the guard a thread has nothing.
LEMMA InGuardHas ==
    ASSUME OwnInv, GuardInv, NEW t \in Threads, InGuard(t)
    PROVE  /\ ~IsUser(t) /\ sub[t] = NoService /\ kept[t] = {}
           /\ OwnHandle(t) = {} /\ OwnObject(t) = {}
<1>1. ~IsUser(t) /\ sub[t] = NoService /\ kept[t] = {}
  BY OwnerIs, StrangerHas
<1> QED
  BY <1>1 DEF OwnHandle, Owns, OwnObject, NoService

\* ... and it keeps having nothing as long as it does not touch it.
LEMMA NothingKept ==
    ASSUME OwnInv, NEW t \in Threads, Bare(t)', UNCHANGED <<sub, kept>>,
           sub[t] = NoService, kept[t] = {}
    PROVE  Keeps(t)' /\ HandlesWith'[t] = {} /\ ObjectsWith'[t] = {}
<1>1. /\ sub'[t] = NoService /\ kept'[t] = {} /\ OwnHandle(t)' = {}
      /\ OwnObject(t)' = {}
  BY BareAfter DEF OwnHandle, Owns, NoService
<1> QED
  BY <1>1, BareAfter DEF Keeps, NoService

LEMMA CreateOwns == ASSUME OwnInv, GuardInv, NEW t \in Threads, serviceCreate(t) PROVE OwnInv'
<1>1. PICK h \in Handles \ DOMAIN open :
         /\ open' = Opened(<<h>>, FALSE) /\ srv' = [NoService EXCEPT !.session = h, !.own_handle = 1]
         /\ pc[t] = "open" /\ UNCHANGED <<sub, kept, objects>>
         /\ Request(t, "query", "srv", cmifMakeControlRequest(3, 0), NoCall, FALSE)
  BY DEF serviceCreate
<1>2. PICK message, is_domain :
         /\ message = cmifMakeControlRequest(3, 0) /\ is_domain = FALSE
         /\ Request(t, "query", "srv", message, NoCall, is_domain)
  BY <1>1
<1>3. message.object_id = 0
  BY <1>2 DEF cmifMakeControlRequest, Plain
<1>4. InGuard(t) /\ ~Calling(t)
  BY <1>1 DEF InGuard, Calling
<1>5. /\ sub[t] = NoService /\ kept[t] = {} /\ OwnHandle(t) = {} /\ OwnObject(t) = {}
      /\ Users = {} /\ ~Active
  BY <1>1, <1>4, InGuardHas, OwnerIs DEF Phase
<1>6. Stores /\ Guarded /\ srv = NoService
  BY <1>5, OwnAre DEF Guarded
<1>7. /\ pc'[t] = "send" /\ DOMAIN tls' = Threads /\ tls'[t] = message
      /\ call'[t].op = "query" /\ call'[t].slot = "srv" /\ call'[t].is_domain = is_domain
      /\ \A u \in Threads \ {t} : pc'[u] = pc[u] /\ call'[u] = call[u] /\ tls'[u] = tls[u]
  BY <1>2, <1>6, RequestMakes DEF Operations, Stores
<1>8. Apart(t) /\ Bare(t) /\ Bare(t)'
  BY <1>1, <1>4, <1>7, IdleHas DEF Apart, Bare, Carries, Replied, Gone
<1>9. DOMAIN open' = DOMAIN open \cup {h}
  <2>1. {(<<h>>)[i] : i \in DOMAIN <<h>>} = {h}
    OBVIOUS
  <2> QED
    BY <1>1, <2>1, OpenedIs
<1>10. objects = {} /\ objects' = {}
  BY <1>1, <1>6, HandlesAssumption DEF Guarded, NoService, Stores
<1>11. /\ srv'.session = h /\ srv'.own_handle = 1 /\ srv'.object_id = 0 /\ srv' \in Services
       /\ h # 0
  <2>1. srv' = [session |-> h, own_handle |-> 1, object_id |-> 0, pointer_buffer_size |-> 0]
    BY <1>1 DEF NoService
  <2>2. 1 \in 0..1 /\ 0 \in ObjectIds \cup {0} /\ 0 \in PointerSizes \cup {0}
    OBVIOUS
  <2> QED
    BY <2>1, <2>2, HandlesAssumption DEF Services
<1>12. Stores' /\ Guarded'
  BY <1>1, <1>6, <1>7, <1>9, <1>10, <1>11 DEF Stores, Guarded, Active, serviceIsActive
<1>13. Asks(t)' /\ Hears(t)'
  BY <1>2, <1>3, <1>7, <1>11 DEF Asks, Hears, Carries, Replied
<1>14. Keeps(t)' /\ HandlesWith'[t] = {} /\ ObjectsWith'[t] = {}
  BY <1>1, <1>5, <1>8, NothingKept
<1>15. HandlesWith[t] = {} /\ ObjectsWith[t] = {}
  BY <1>5, <1>8, BareHas
<1>16. /\ SessionOf(srv) = {} /\ SessionOf(srv)' = {h}
       /\ ObjectOf(srv) = {} /\ ObjectOf(srv)' = {}
  BY <1>6, <1>11 DEF SessionOf, ObjectOf, NoService
<1>17. SharedOut(DOMAIN open', SessionOf(srv)', HandlesWith')
  <2> DEFINE gone == {}
             new == {h}
  <2>1. /\ gone \subseteq SessionOf(srv) \cup HandlesWith[t] /\ new \cap DOMAIN open = {}
        /\ SessionOf(srv)' \cup HandlesWith'[t] = ((SessionOf(srv) \cup HandlesWith[t]) \ gone) \cup new
        /\ HandlesWith'[t] \cap SessionOf(srv)' = {}
        /\ DOMAIN open' = (DOMAIN open \ gone) \cup new
    BY <1>9, <1>14, <1>15, <1>16
  <2> HIDE DEF gone, new
  <2> QED
    BY <1>8, <2>1, HandlesAfter
<1>18. SharedOut(objects', ObjectOf(srv)', ObjectsWith')
  BY <1>8, <1>10, <1>14, <1>15, <1>16, ObjectsSame
<1> QED
  BY <1>4, <1>5, <1>8, <1>12, <1>13, <1>14, <1>17, <1>18, StepOwns

LEMMA FinishQueryOwns ==
    ASSUME OwnInv, GuardInv, NEW t \in Threads, FinishQuery(t) PROVE OwnInv'
<1>1. /\ pc[t] = "parse" /\ call[t].op = "query" /\ UNCHANGED <<sub, kept, server>>
      /\ srv' = [srv EXCEPT !.pointer_buffer_size = IF Succeeded(t) THEN tls[t].value ELSE 0]
  BY DEF FinishQuery, Parses
<1>2. InGuard(t)
  BY <1>1 DEF InGuard
<1>3. /\ sub[t] = NoService /\ kept[t] = {} /\ OwnHandle(t) = {} /\ OwnObject(t) = {}
      /\ Users = {} /\ Active
  BY <1>1, <1>2, InGuardHas, OwnerIs DEF Phase
<1>4. Stores /\ Guarded /\ Asks(t) /\ Hears(t) /\ srv.object_id = 0
  BY <1>1, OwnAre DEF Asks
<1>5. Succeeded(t) => tls[t].value \in PointerSizes
  BY <1>1, <1>4 DEF Hears, Replied
<1>6. /\ srv' \in Services /\ srv'.session = srv.session /\ srv'.own_handle = srv.own_handle
      /\ srv'.object_id = 0
  BY <1>1, <1>4, <1>5 DEF Guarded, Services
<1>7. PICK label \in {"send", "settle"} :
         /\ pc'[t] = label /\ DOMAIN tls' = Threads
         /\ \A u \in Threads \ {t} : pc'[u] = pc[u] /\ call'[u] = call[u] /\ tls'[u] = tls[u]
         /\ Bare(t)' /\ Asks(t)' /\ Hears(t)'
  <2>1. CASE Request(t, "convert", "srv", cmifMakeControlRequest(0, 0), NoCall, FALSE)
    <3>1. PICK message, is_domain :
             /\ message = cmifMakeControlRequest(0, 0) /\ is_domain = FALSE
             /\ Request(t, "convert", "srv", message, NoCall, is_domain)
      BY <2>1
    <3>2. message.object_id = 0
      BY <3>1 DEF cmifMakeControlRequest, Plain
    <3>3. /\ pc'[t] = "send" /\ DOMAIN tls' = Threads /\ tls'[t] = message
          /\ call'[t].op = "convert" /\ call'[t].slot = "srv" /\ call'[t].is_domain = is_domain
          /\ \A u \in Threads \ {t} : pc'[u] = pc[u] /\ call'[u] = call[u] /\ tls'[u] = tls[u]
      BY <1>4, <3>1, RequestMakes DEF Operations, Stores
    <3>4. Bare(t)' /\ Asks(t)' /\ Hears(t)'
      BY <1>6, <3>1, <3>2, <3>3 DEF Bare, Asks, Hears, Carries, Replied, Gone
    <3> QED
      BY <3>3, <3>4
  <2>2. CASE Return(t, "settle")
    BY <2>2, ReturnMakes
  <2> QED
    BY <2>1, <2>2 DEF FinishQuery
<1>8. Apart(t) /\ Bare(t)
  BY <1>1, <1>7 DEF Apart, Bare, Carries, Replied, Gone
<1>9. Keeps(t)' /\ HandlesWith'[t] = {} /\ ObjectsWith'[t] = {}
  BY <1>1, <1>3, <1>7, NothingKept
<1>10. HandlesWith[t] = {} /\ ObjectsWith[t] = {}
  BY <1>3, <1>8, BareHas
<1>11. open' = open /\ objects' = objects
  BY <1>1 DEF server
<1>12. Stores' /\ Guarded'
  BY <1>1, <1>3, <1>4, <1>6, <1>7, <1>11 DEF Stores, Guarded, Active, serviceIsActive
<1>13. SessionOf(srv)' = SessionOf(srv) /\ ObjectOf(srv)' = ObjectOf(srv)
  BY <1>4, <1>6 DEF SessionOf, ObjectOf
<1>14. SharedOut(DOMAIN open', SessionOf(srv)', HandlesWith')
  BY <1>8, <1>9, <1>10, <1>11, <1>13, HandlesSame
<1>15. SharedOut(objects', ObjectOf(srv)', ObjectsWith')
  BY <1>8, <1>9, <1>10, <1>11, <1>13, ObjectsSame
<1> QED
  BY <1>2, <1>3, <1>7, <1>8, <1>9, <1>12, <1>14, <1>15, StepOwns

LEMMA FinishConvertOwns ==
    ASSUME OwnInv, GuardInv, NEW t \in Threads, FinishConvert(t) PROVE OwnInv'
<1>1. /\ pc[t] = "parse" /\ call[t].op = "convert" /\ UNCHANGED <<sub, kept, server>>
      /\ srv' = IF Succeeded(t) THEN [srv EXCEPT !.object_id = tls[t].value] ELSE srv
      /\ Return(t, "settle")
  BY DEF FinishConvert, Parses
<1>2. InGuard(t)
  BY <1>1 DEF InGuard
<1>3. /\ sub[t] = NoService /\ kept[t] = {} /\ OwnHandle(t) = {} /\ OwnObject(t) = {}
      /\ Users = {} /\ Active
  BY <1>1, <1>2, InGuardHas, OwnerIs DEF Phase
<1>4. Stores /\ Guarded /\ Asks(t) /\ Hears(t) /\ srv.object_id = 0
  BY <1>1, OwnAre DEF Asks
<1>5. Succeeded(t) => tls[t].value \in ObjectIds
  BY <1>1, <1>4 DEF Hears, Replied
<1>6. /\ srv' \in Services /\ srv'.session = srv.session /\ srv'.own_handle = srv.own_handle
      /\ srv'.object_id = IF Succeeded(t) THEN tls[t].value ELSE 0
  BY <1>1, <1>4, <1>5 DEF Guarded, Services
<1>7. /\ pc'[t] = "settle" /\ DOMAIN tls' = Threads
      /\ \A u \in Threads \ {t} : pc'[u] = pc[u] /\ call'[u] = call[u] /\ tls'[u] = tls[u]
      /\ Bare(t)' /\ Asks(t)' /\ Hears(t)'
  BY <1>1, ReturnMakes
<1>8. Apart(t)
  BY <1>1, <1>7 DEF Apart
<1>9. Keeps(t)' /\ HandlesWith'[t] = {} /\ ObjectsWith'[t] = {}
  BY <1>1, <1>3, <1>7, NothingKept
<1>10. AnswerHandles(t) = {} /\ AnswerObject(t) = IF Succeeded(t) THEN {tls[t].value} \ {0} ELSE {}
  BY <1>1 DEF AnswerHandles, AnswerObject, Carries, Replied
<1>11. HandlesWith[t] = {} /\ ObjectsWith[t] = AnswerObject(t)
  BY <1>3, <1>10, WithAre
<1>12. open' = open /\ objects' = objects
  BY <1>1 DEF server
<1>13. Stores' /\ Guarded'
  BY <1>1, <1>3, <1>4, <1>6, <1>7, <1>12 DEF Stores, Guarded, Active, serviceIsActive
<1>14. /\ SessionOf(srv)' = SessionOf(srv)
       /\ ObjectOf(srv) = {} /\ ObjectOf(srv)' = AnswerObject(t)
  BY <1>4, <1>6, <1>10 DEF SessionOf, ObjectOf
<1>15. SharedOut(DOMAIN open', SessionOf(srv)', HandlesWith')
  BY <1>8, <1>9, <1>11, <1>12, <1>14, HandlesSame
<1>16. SharedOut(objects', ObjectOf(srv)', ObjectsWith')
  <2> DEFINE gone == {}
             new == {}
  <2>1. /\ gone \subseteq ObjectOf(srv) \cup ObjectsWith[t] /\ new \cap objects = {}
        /\ ObjectOf(srv)' \cup ObjectsWith'[t] = ((ObjectOf(srv) \cup ObjectsWith[t]) \ gone) \cup new
        /\ ObjectsWith'[t] \cap ObjectOf(srv)' = {}
        /\ objects' = (objects \ gone) \cup new
    BY <1>9, <1>11, <1>12, <1>14
  <2> HIDE DEF gone, new
  <2> QED
    BY <1>8, <2>1, ObjectsAfter
<1> QED
  BY <1>2, <1>3, <1>7, <1>8, <1>9, <1>13, <1>15, <1>16, StepOwns

-----------------------------------------------------------------------------
\* Answers that bring something.

LEMMA NewObjectIs ==
    ASSUME objects # ObjectIds, objects \subseteq ObjectIds
    PROVE  NewObject \in ObjectIds \ objects /\ NewObject # 0
<1>1. ObjectIds \ objects # {} /\ ObjectIds \ objects \subseteq Nat \ {0}
  BY ObjectIdsAssumption
<1>2. \E m \in ObjectIds \ objects : \A k \in ObjectIds \ objects : m <= k
  BY <1>1, LeastNatural
<1>3. NewObject \in ObjectIds \ objects
  BY <1>2 DEF NewObject, Min
<1> QED
  BY <1>1, <1>3

LEMMA AnswerOwns ==
    ASSUME OwnInv, GuardInv, NEW t \in Threads, Bare(t), Apart(t), UNCHANGED <<srv, sub, kept>>,
           DOMAIN tls' = Threads, pc'[t] = "parse", IsUser(t)' <=> IsUser(t), pc[t] # "exit",
           Asks(t)', Hears(t)', ~Gone(t)',
           NEW handles, handles \subseteq Handles \ DOMAIN open, AnswerHandles(t)' = handles,
           DOMAIN open' = DOMAIN open \cup handles, \A h \in DOMAIN open : open[h] => open'[h],
           NEW ids, ids \subseteq ObjectIds \ objects, AnswerObject(t)' = ids,
           objects' = objects \cup ids,
           ids # {} => srv.session \in DOMAIN open /\ open'[srv.session]
    PROVE  OwnInv'
<1>1. Stores /\ Guarded /\ Keeps(t)
  BY OwnAre
<1>2. /\ HandlesWith[t] \subseteq DOMAIN open /\ HandlesWith[t] \cap SessionOf(srv) = {}
      /\ SessionOf(srv) \subseteq DOMAIN open
      /\ ObjectsWith[t] \subseteq objects /\ ObjectsWith[t] \cap ObjectOf(srv) = {}
      /\ ObjectOf(srv) \subseteq objects
  BY OwnAre, HasShare
<1>3. HandlesWith[t] = OwnHandle(t) \cup kept[t] /\ ObjectsWith[t] = OwnObject(t)
  BY BareHas
<1>4. OwnHandle(t)' = OwnHandle(t) /\ OwnObject(t)' = OwnObject(t)
  BY DEF OwnHandle, Owns, OwnObject, Bare
<1>5. /\ HandlesWith'[t] = HandlesWith[t] \cup handles
      /\ ObjectsWith'[t] = ObjectsWith[t] \cup ids
  BY <1>3, <1>4, WithAfter
<1>6. SessionOf(srv)' = SessionOf(srv) /\ ObjectOf(srv)' = ObjectOf(srv)
  BY DEF SessionOf, ObjectOf
<1>7. Stores' /\ Guarded'
  BY <1>1 DEF Stores, Guarded, Active
<1>8. Keeps(t)'
  <2>1. handles \cap (OwnHandle(t) \cup kept[t]) = {}
    BY <1>2, <1>3
  <2> QED
    BY <1>1, <1>4, <2>1 DEF Keeps
<1>9. SharedOut(DOMAIN open', SessionOf(srv)', HandlesWith')
  <2> DEFINE gone == {}
  <2>1. /\ gone \subseteq SessionOf(srv) \cup HandlesWith[t] /\ handles \cap DOMAIN open = {}
        /\ SessionOf(srv)' \cup HandlesWith'[t]
              = ((SessionOf(srv) \cup HandlesWith[t]) \ gone) \cup handles
        /\ HandlesWith'[t] \cap SessionOf(srv)' = {}
        /\ DOMAIN open' = (DOMAIN open \ gone) \cup handles
    BY <1>2, <1>5, <1>6
  <2> HIDE DEF gone
  <2> QED
    BY <2>1, HandlesAfter
<1>10. SharedOut(objects', ObjectOf(srv)', ObjectsWith')
  <2> DEFINE gone == {}
  <2>1. /\ gone \subseteq ObjectOf(srv) \cup ObjectsWith[t] /\ ids \cap objects = {}
        /\ ObjectOf(srv)' \cup ObjectsWith'[t] = ((ObjectOf(srv) \cup ObjectsWith[t]) \ gone) \cup ids
        /\ ObjectsWith'[t] \cap ObjectOf(srv)' = {}
        /\ objects' = (objects \ gone) \cup ids
    BY <1>2, <1>5, <1>6
  <2> HIDE DEF gone
  <2> QED
    BY <2>1, ObjectsAfter
<1> QED
  BY <1>7, <1>8, <1>9, <1>10, StepOwns

LEMMA ServeConvertOwns ==
    ASSUME OwnInv, GuardInv, NEW t \in Threads, ServeConvert(t) PROVE OwnInv'
<1>1. /\ pc[t] = "wait" /\ call[t].op = "convert" /\ ObjectIds # objects
      /\ Reply(t, "ok", DataResponse(NewObject))
      /\ open' = [open EXCEPT ![srv.session] = TRUE] /\ objects' = objects \cup {NewObject}
  BY DEF ServeConvert, Waits
<1>2. /\ UNCHANGED <<srv, sub, kept>> /\ Apart(t) /\ DOMAIN tls' = Threads
      /\ pc'[t] = "parse" /\ call'[t].op = "convert" /\ call'[t].result = "ok"
      /\ tls'[t] = DataResponse(NewObject)
      /\ Bare(t) /\ (IsUser(t)' <=> IsUser(t)) /\ Asks(t)'
  BY <1>1, ReplyIs
<1>3. NewObject \in ObjectIds \ objects /\ NewObject # 0
  BY <1>1, OwnAre, NewObjectIs DEF Stores
<1>4. tls'[t].value = NewObject
  BY <1>2 DEF DataResponse
<1>5. Replied(t, "convert")' /\ ~Carries(t)' /\ ~Gone(t)'
  BY <1>2 DEF Replied, Succeeded, Carries, Gone
<1>6. Hears(t)'
  BY <1>2, <1>3, <1>4, <1>5 DEF Hears, Replied
<1>7. AnswerHandles(t)' = {} /\ AnswerObject(t)' = {NewObject}
  BY <1>3, <1>4, <1>5 DEF AnswerHandles, AnswerObject
<1>8. srv.session \in DOMAIN open
  <2>1. Asks(t) /\ Calling(t)
    BY <1>1, OwnAre DEF Calling
  <2>2. Target(t) = srv
    BY <1>1, <2>1 DEF Asks, Target
  <2> QED
    BY <2>1, <2>2, TargetLives
<1>9. DOMAIN open' = DOMAIN open \cup {} /\ \A h \in DOMAIN open : open[h] => open'[h]
  BY <1>1
<1>10. open'[srv.session]
  BY <1>1, <1>8
<1>11. PICK handles, ids : handles = {} /\ ids = {NewObject}
  OBVIOUS
<1>12. /\ handles \subseteq Handles \ DOMAIN open /\ DOMAIN open' = DOMAIN open \cup handles
       /\ ids \subseteq ObjectIds \ objects /\ objects' = objects \cup ids
  BY <1>1, <1>3, <1>9, <1>11
<1> QED
  BY <1>1, <1>2, <1>5, <1>6, <1>7, <1>8, <1>9, <1>10, <1>11, <1>12, AnswerOwns

-----------------------------------------------------------------------------
\* Responses with handles.

LEMMA TableIs ==
    ASSUME NEW n \in Nat, NEW S, NEW f \in [1..n -> S]
    PROVE  f \in Seq(S) /\ Len(f) = n
<1>1. f \in Seq(S)
  BY SeqDef
<1> QED
  BY <1>1

LEMMA CountIs ==
    ASSUME NEW cmd \in DispatchParams, NEW kind
    PROVE  HandlesOf(cmd, kind) \in Nat /\ Len(cmd.out_handles) \in Nat
<1>1. cmd.out_handles \in Seq({"Copy", "Move"})
  BY DEF DispatchParams, UpToEight
<1>2. Len(cmd.out_handles) \in Nat
  BY <1>1
<1>3. IsFiniteSet(1..Len(cmd.out_handles))
  BY <1>2, FS_Interval
<1> DEFINE these == {i \in 1..Len(cmd.out_handles) : cmd.out_handles[i] = kind}
<1>4. IsFiniteSet(these)
  BY <1>3, FS_Subset
<1>5. Cardinality(these) \in Nat
  BY <1>4, FS_CardinalityType
<1> QED
  BY <1>2, <1>5 DEF HandlesOf, HandlesUpTo

\* The handles and ids that an answer to c brings.
Brings(c, given, ids) ==
    /\ \A i \in 1..Len(given) : \/ given[i] \in Handles
                                \/ given[i] = 0 /\ ObjectIsHandle(c) /\ i = CopiesOf(c) + 1
    /\ \A i, j \in 1..Len(given) : given[i] = given[j] => i = j
    /\ Len(ids) = IF ObjectIsId(c) THEN 1 ELSE 0
    /\ ObjectIsId(c) => ids[1] \in ObjectIds \cup {0}

LEMMA ConcatIs ==
    ASSUME NEW S, NEW s \in Seq(S), NEW t \in Seq(S)
    PROVE  /\ Len(s \o t) = Len(s) + Len(t) /\ Len(s \o t) \in Nat
           /\ \A i \in 1..Len(s) + Len(t) : (s \o t)[i] = IF i <= Len(s) THEN s[i] ELSE t[i - Len(s)]
OBVIOUS

HandlePart(answer) == {p \in DOMAIN answer.memory : p < answer.data}
ObjectPart(answer) == {p \in DOMAIN answer.memory : p >= answer.data}
Held(answer, places) == {answer.memory[p] : p \in places}
Entries(s) == {s[i] : i \in 1..Len(s)}

LEMMA ParsedHolds ==
    ASSUME NEW answer, NEW at, NEW copies, NEW given, NEW ids,
           ParsedAs(answer, at, copies, given, ids)
    PROVE  /\ Held(answer, HandlePart(answer)) = Entries(given)
           /\ Held(answer, ObjectPart(answer)) = Entries(ids)
<1>0. ASSUME NEW s, NEW from, \A i \in 1..Len(s) : answer.memory[from + 4 * (i - 1)] = s[i]
      PROVE  Held(answer, Words(from, Len(s))) = Entries(s)
  <2>1. PICK n, memory : n = Len(s) /\ memory = answer.memory
    OBVIOUS
  <2>2. \A i \in 1..n : memory[from + 4 * (i - 1)] = s[i]
    BY <1>0, <2>1
  <2>3. {memory[p] : p \in {from + 4 * (i - 1) : i \in 1..n}} = {s[i] : i \in 1..n}
    BY <2>2
  <2> QED
    BY <2>1, <2>3, Zenon DEF Held, Entries, Words
<1>1. Held(answer, Words(at.copy_handles, Len(given))) = Entries(given)
  BY <1>0 DEF ParsedAs
<1>2. Held(answer, Words(at.objects, Len(ids))) = Entries(ids)
  BY <1>0 DEF ParsedAs
<1> QED
  BY <1>1, <1>2 DEF ParsedAs, HandlePart, ObjectPart

\* An answer to c with copies and moves, which together are given, and ids.
Answers(c, domain, size, S, copies, moves, given, ids, answer) ==
    /\ domain \in BOOLEAN /\ domain = c.is_domain
    /\ size \in Nat /\ size = IF c.op = "clone" THEN 0 ELSE c.cmd.out_size
    /\ ids \in Seq(S) /\ copies \in Seq(S) /\ moves \in Seq(S)
    /\ Len(copies) = CopiesOf(c) /\ Len(moves) = MovesOf(c)
    /\ given = copies \o moves /\ Brings(c, given, ids)
    /\ answer = Response(domain, size, ids, copies, moves)

\* What is in the places of an answer.
LEMMA AnswerHolds ==
    ASSUME NEW c, NEW domain, NEW size, NEW S, NEW copies, NEW moves, NEW given, NEW ids, NEW answer,
           Answers(c, domain, size, S, copies, moves, given, ids, answer)
    PROVE  /\ Laid(c, answer)
           /\ Held(answer, HandlePart(answer)) = Entries(given)
           /\ Held(answer, ObjectPart(answer)) = Entries(ids)
<1>0. /\ domain \in BOOLEAN /\ domain = c.is_domain /\ size \in Nat
      /\ size = IF c.op = "clone" THEN 0 ELSE c.cmd.out_size
      /\ ids \in Seq(S) /\ copies \in Seq(S) /\ moves \in Seq(S)
      /\ given = copies \o moves /\ Brings(c, given, ids)
      /\ answer = Response(domain, size, ids, copies, moves)
  BY DEF Answers
<1>a. PICK n \in Nat, k \in Nat :
         n = Len(copies) /\ k = Len(moves) /\ n = CopiesOf(c) /\ k = MovesOf(c)
  BY <1>0 DEF Answers
<1>1. PICK at : at = Answer(c, answer) /\ at = cmifParseResponse(answer, domain, size)
  BY <1>0 DEF Answer
<1>2. ParsedAs(answer, at, Len(copies), given, ids)
  BY <1>0, <1>1, ResponseLaid
<1>3. ParsedAs(answer, at, n, given, ids)
  BY <1>2, <1>a, Zenon
<1>4. Len(given) = n + k /\ Len(given) \in Nat
  BY <1>0, <1>a, ConcatIs
<1>5. \A i \in 1..Len(given) : HandleAt(c, answer, i) = given[i]
  BY <1>0, <1>1, <1>3 DEF HandleAt, Nth, ParsedAs
<1>6. ObjectIsId(c) => ObjectAt(c, answer) = ids[1]
  BY <1>0, <1>1, <1>3 DEF ObjectAt, Nth, ParsedAs, Brings
<1>7. Laid(c, answer)
  <2>1. /\ at.copy_handles \in Nat /\ at.move_handles = at.copy_handles + 4 * n
        /\ {p \in DOMAIN answer.memory : p < answer.data} = Words(at.copy_handles, n + k)
        /\ {p \in DOMAIN answer.memory : p >= answer.data}
              = Words(at.objects, IF ObjectIsId(c) THEN 1 ELSE 0)
    BY <1>0, <1>3, <1>4 DEF ParsedAs, Brings
  <2>2. ObjectIsId(c) => ObjectAt(c, answer) \in ObjectIds \cup {0}
    BY <1>0, <1>6 DEF Brings
  <2>3. /\ \A i \in 1..n + k :
              \/ HandleAt(c, answer, i) \in Handles
              \/ HandleAt(c, answer, i) = 0 /\ ObjectIsHandle(c) /\ i = n + 1
        /\ \A i, j \in 1..n + k : HandleAt(c, answer, i) = HandleAt(c, answer, j) => i = j
    <3>1. 1..n + k = 1..Len(given)
      BY <1>4
    <3>2. \A i \in 1..Len(given) : \/ given[i] \in Handles
                                   \/ given[i] = 0 /\ ObjectIsHandle(c) /\ i = n + 1
      BY <1>0, <1>a DEF Brings
    <3>3. \A i, j \in 1..Len(given) : given[i] = given[j] => i = j
      BY <1>0, <1>a DEF Brings
    <3>4. ASSUME NEW i \in 1..n + k
          PROVE  \/ HandleAt(c, answer, i) \in Handles
                 \/ HandleAt(c, answer, i) = 0 /\ ObjectIsHandle(c) /\ i = n + 1
      <4>1. i \in 1..Len(given)
        BY <3>1
      <4> QED
        BY <1>5, <3>2, <4>1
    <3>5. ASSUME NEW i \in 1..n + k, NEW j \in 1..n + k,
                 HandleAt(c, answer, i) = HandleAt(c, answer, j)
          PROVE  i = j
      <4>1. i \in 1..Len(given) /\ j \in 1..Len(given)
        BY <3>1
      <4>2. given[i] = given[j]
        BY <1>5, <3>5, <4>1
      <4> QED
        BY <3>3, <4>1, <4>2
    <3> QED
      BY <3>4, <3>5
  <2> QED
    BY <1>1, <1>a, <2>1, <2>2, <2>3 DEF Laid
<1>8. /\ Held(answer, HandlePart(answer)) = Entries(given)
      /\ Held(answer, ObjectPart(answer)) = Entries(ids)
  BY <1>3, ParsedHolds
<1> QED
  BY <1>7, <1>8

\* What a successful answer to a clone or a command brings is taken over.
LEMMA CarriesOwns ==
    ASSUME OwnInv, GuardInv, NEW t \in Threads, pc[t] = "wait",
           NEW op \in {"clone", "dispatch"}, call[t].op = op,
           NEW answer, Reply(t, "ok", answer), NEW c, c = call'[t], Laid(c, answer),
           NEW given, Held(answer, HandlePart(answer)) = Entries(given),
           NEW ids, Held(answer, ObjectPart(answer)) = Entries(ids),
           NEW handles, handles \subseteq Handles \ DOMAIN open, Entries(given) \ {0} = handles,
           DOMAIN open' = DOMAIN open \cup handles, \A h \in DOMAIN open : open[h] => open'[h],
           NEW some, some \subseteq ObjectIds \ objects,
           some = IF op = "clone" THEN {} ELSE Entries(ids) \ {0},
           objects' = objects \cup some,
           some # {} => srv.session \in DOMAIN open /\ open'[srv.session]
    PROVE  OwnInv'
<1>1. /\ UNCHANGED <<srv, sub, kept>> /\ Apart(t) /\ DOMAIN tls' = Threads
      /\ pc'[t] = "parse" /\ tls'[t] = answer /\ call'[t].op = op /\ call'[t].result = "ok"
      /\ Bare(t) /\ (IsUser(t)' <=> IsUser(t)) /\ Asks(t)'
  BY ReplyIs
<1>2. Carries(t)' /\ ~Gone(t)' /\ ~Replied(t, "convert")' /\ ~Replied(t, "query")'
      /\ (Replied(t, "dispatch")' <=> op = "dispatch")
  BY <1>1 DEF Carries, Replied, Succeeded, Gone
<1>3. HandlePlaces(t)' = HandlePart(answer) /\ ObjectPlaces(t)' = ObjectPart(answer)
  BY <1>1 DEF HandlePlaces, ObjectPlaces, HandlePart, ObjectPart
<1>4. /\ InAnswer(t, HandlePlaces(t))' = Held(answer, HandlePart(answer)) \ {0}
      /\ InAnswer(t, ObjectPlaces(t))' = Held(answer, ObjectPart(answer)) \ {0}
  BY <1>1, <1>3 DEF InAnswer, Held
<1>5. AnswerHandles(t)' = handles /\ AnswerObject(t)' = some
  BY <1>2, <1>4 DEF AnswerHandles, AnswerObject
<1>6. Hears(t)'
  BY <1>1, <1>2 DEF Hears
<1> QED
  BY <1>1, <1>2, <1>5, <1>6, AnswerOwns

\* New handles are free, and each of them is given once.
LEMMA FreshIs ==
    ASSUME NEW n \in Nat, Fresh(n) # {}, NEW handle, handle = NewHandles(n)
    PROVE  /\ handle \in [1..n -> Handles \ DOMAIN open]
           /\ \A i, j \in 1..n : handle[i] = handle[j] => i = j
<1>1. NewHandles(n) \in Fresh(n)
  BY DEF NewHandles
<1> QED
  BY <1>1 DEF Fresh, Free

\* The first n of the handles.
Taken(handle, n) == {handle[i] : i \in 1..n}

LEMMA OpenedNew ==
    ASSUME NEW n \in Nat, NEW S, NEW handle \in [1..n -> S], NEW domain,
           open' = Opened(handle, domain)
    PROVE  /\ DOMAIN open' = DOMAIN open \cup Taken(handle, n)
           /\ \A h \in DOMAIN open : open'[h] = open[h]
<1>1. DOMAIN handle = 1..n
  OBVIOUS
<1> QED
  BY <1>1, OpenedIs DEF Taken

\* A server hands out n handles, the first m of them as copies and the rest as
\* k moves, before which it may leave one place empty.
HandsOut(handle, n, S, T, copies, m, moves, k, missing, given) ==
    /\ m \in Nat /\ k \in Nat /\ missing \in {0, 1} /\ missing <= k
    /\ n \in Nat /\ n = m + k - missing
    /\ 0 \notin S /\ handle \in [1..n -> S]
    /\ \A i, j \in 1..n : handle[i] = handle[j] => i = j
    /\ copies \in [1..m -> T] /\ moves \in [1..k -> T]
    /\ \A i \in 1..m : copies[i] = handle[i]
    /\ \A i \in 1..k : moves[i] = IF i <= missing THEN 0 ELSE handle[m + i - missing]
    /\ given = copies \o moves

LEMMA HandedOut ==
    ASSUME NEW handle, NEW n, NEW S, NEW T, NEW one, NEW m, NEW two, NEW k, NEW missing,
           NEW given, HandsOut(handle, n, S, T, one, m, two, k, missing, given)
    PROVE  /\ one \in Seq(T) /\ two \in Seq(T) /\ Len(one) = m /\ Len(two) = k
           /\ \A i \in 1..Len(given) : given[i] \in S \/ (given[i] = 0 /\ missing = 1 /\ i = m + 1)
           /\ \A i, j \in 1..Len(given) : given[i] = given[j] => i = j
           /\ Entries(given) \ {0} = Taken(handle, n)
<1>0. /\ m \in Nat /\ k \in Nat /\ missing \in {0, 1} /\ missing <= k
      /\ n \in Nat /\ n = m + k - missing
      /\ 0 \notin S /\ handle \in [1..n -> S]
      /\ \A i, j \in 1..n : handle[i] = handle[j] => i = j
      /\ one \in [1..m -> T] /\ two \in [1..k -> T]
      /\ \A i \in 1..m : one[i] = handle[i]
      /\ \A i \in 1..k : two[i] = IF i <= missing THEN 0 ELSE handle[m + i - missing]
      /\ given = one \o two
  BY DEF HandsOut
<1>1. one \in Seq(T) /\ two \in Seq(T) /\ Len(one) = m /\ Len(two) = k
  BY <1>0, TableIs
<1>2. /\ Len(given) = m + k
      /\ \A i \in 1..m + k : given[i] = IF i <= m THEN one[i] ELSE two[i - m]
  <2>1. /\ Len(given) = Len(one) + Len(two)
        /\ \A i \in 1..Len(one) + Len(two) :
              given[i] = IF i <= Len(one) THEN one[i] ELSE two[i - Len(one)]
    <3>1. /\ Len(one \o two) = Len(one) + Len(two)
          /\ \A i \in 1..Len(one) + Len(two) :
                (one \o two)[i] = IF i <= Len(one) THEN one[i] ELSE two[i - Len(one)]
      BY <1>1, ConcatIs
    <3> QED
      BY <1>0, <3>1, Zenon
  <2> QED
    BY <1>1, <2>1
\* Which of the handles is in which place.
<1> DEFINE from(i) == IF i <= m THEN i ELSE i - missing
           empty(i) == missing = 1 /\ i = m + 1
<1>3. ASSUME NEW i \in 1..m + k, ~empty(i)
      PROVE  from(i) \in 1..n /\ given[i] = handle[from(i)] /\ given[i] \in S
  <2>1. CASE i <= m
    <3>1. i \in 1..m /\ i \in 1..n
      BY <1>0, <2>1
    <3>2. given[i] = handle[i]
      BY <1>0, <1>2, <2>1, <3>1
    <3> QED
      BY <1>0, <2>1, <3>1, <3>2
  <2>2. CASE ~(i <= m)
    <3>1. i - m \in 1..k /\ ~(i - m <= missing) /\ i - missing \in 1..n /\ m + (i - m) - missing = i - missing
      BY <1>0, <1>3, <2>2
    <3>2. two[i - m] = handle[m + (i - m) - missing]
      BY <1>0, <3>1
    <3>3. given[i] = handle[i - missing]
      BY <1>0, <1>2, <2>2, <3>1, <3>2
    <3> QED
      BY <1>0, <2>2, <3>1, <3>3
  <2> QED
    BY <1>0, <2>1, <2>2
<1>4. ASSUME NEW i \in 1..m + k, empty(i) PROVE given[i] = 0
  <2>1. i - m \in 1..k /\ i - m <= missing /\ ~(i <= m)
    BY <1>0, <1>4
  <2> QED
    BY <1>0, <1>2, <2>1
<1>5. ASSUME NEW i \in 1..m + k, NEW j \in 1..m + k, given[i] = given[j] PROVE i = j
  <2>1. CASE empty(i) \/ empty(j)
    BY <1>0, <1>3, <1>4, <1>5, <2>1
  <2>2. CASE ~empty(i) /\ ~empty(j)
    <3>1. from(i) = from(j)
      <4>1. from(i) \in 1..n /\ from(j) \in 1..n /\ handle[from(i)] = handle[from(j)]
        BY <1>0, <1>3, <1>5, <2>2
      <4> HIDE DEF from
      <4> QED
        BY <1>0, <4>1
    <3> QED
      BY <1>0, <2>2, <3>1
  <2> QED
    BY <1>0, <2>1, <2>2
<1>6. ASSUME NEW j \in 1..n PROVE \E i \in 1..m + k : given[i] = handle[j] /\ given[i] \in S
  <2>1. PICK i \in 1..m + k : from(i) = j /\ ~empty(i)
    <3>1. CASE j <= m
      <4>1. j \in 1..m + k /\ from(j) = j /\ ~empty(j)
        BY <1>0, <3>1
      <4> QED
        BY <1>0, <4>1
    <3>2. CASE ~(j <= m)
      <4>1. j + missing \in 1..m + k /\ from(j + missing) = j /\ ~empty(j + missing)
        BY <1>0, <3>2
      <4> QED
        BY <1>0, <4>1
    <3> QED
      BY <1>0, <3>1, <3>2
  <2>2. given[i] = handle[from(i)] /\ given[i] \in S
    BY <1>0, <1>3, <2>1
  <2> QED
    BY <1>0, <2>1, <2>2
<1>7. 1..Len(given) = 1..m + k
  BY <1>0, <1>2
<1>8. Entries(given) \ {0} = Taken(handle, n)
  <2>1. ASSUME NEW x \in Entries(given) \ {0} PROVE x \in Taken(handle, n)
    <3>1. PICK i \in 1..m + k : x = given[i]
      BY <1>0, <1>7 DEF Entries
    <3>2. ~empty(i)
      BY <1>0, <1>4, <2>1, <3>1
    <3>3. from(i) \in 1..n /\ x = handle[from(i)]
      BY <1>0, <1>3, <3>1, <3>2
    <3> HIDE DEF from
    <3> QED
      BY <1>0, <3>3 DEF Taken
  <2>2. ASSUME NEW x \in Taken(handle, n) PROVE x \in Entries(given) \ {0}
    <3>1. PICK j \in 1..n : x = handle[j]
      BY DEF Taken
    <3>2. PICK i \in 1..m + k : given[i] = x /\ x \in S
      BY <1>0, <1>6, <3>1
    <3> QED
      BY <1>0, <1>7, <3>2 DEF Entries
  <2> QED
    BY <1>0, <2>1, <2>2
<1>9. \A i \in 1..m + k : given[i] \in S \/ (given[i] = 0 /\ missing = 1 /\ i = m + 1)
  BY <1>0, <1>3, <1>4
<1> QED
  BY <1>0, <1>1, <1>5, <1>7, <1>8, <1>9

LEMMA ServeCloneOwns ==
    ASSUME OwnInv, GuardInv, NEW t \in Threads, ServeClone(t) PROVE OwnInv'
<1>1. PICK handle, domain, answer :
         /\ handle = NewHandles(1) /\ answer = Response(FALSE, 0, <<>>, <<>>, handle)
         /\ pc[t] = "wait" /\ call[t].op = "clone" /\ Fresh(1) # {} /\ objects' = objects
         /\ Reply(t, "ok", answer) /\ open' = Opened(handle, domain)
  BY DEF ServeClone, Waits
<1>2. /\ handle \in [1..1 -> Handles \ DOMAIN open]
      /\ \A i, j \in 1..1 : handle[i] = handle[j] => i = j
  BY <1>1, FreshIs
<1>a. PICK n \in Nat, m \in Nat, k \in Nat, missing \in {0, 1} : n = 1 /\ m = 0 /\ k = 1 /\ missing = 0
  OBVIOUS
<1>d. n \in Nat /\ m \in Nat /\ k \in Nat /\ missing \in {0, 1}
  BY <1>a
<1>b. PICK S : S = Handles \ DOMAIN open
  OBVIOUS
<1>3. S = Handles \ DOMAIN open /\ n = 1 /\ m = 0 /\ k = 1 /\ missing = 0
  BY <1>a, <1>b
<1>4. 0 \notin S
  BY <1>3, HandlesAssumption
<1>c. PICK none, ids : none = <<>> /\ ids = <<>>
  OBVIOUS
<1>5. PICK T, given : T = S \cup {0} /\ given = none \o handle
  OBVIOUS
<1>6. /\ none \in [1..m -> T] /\ handle \in [1..k -> T] /\ none \in Seq(T) /\ ids \in Seq(T)
      /\ \A i \in 1..m : none[i] = handle[i]
      /\ \A i \in 1..k : handle[i] = IF i <= missing THEN 0 ELSE handle[m + i - missing]
  BY <1>2, <1>3, <1>5, <1>c
<1>7. /\ handle \in Seq(T) /\ Len(none) = m /\ Len(handle) = k
      /\ \A i \in 1..Len(given) : given[i] \in S
      /\ \A i, j \in 1..Len(given) : given[i] = given[j] => i = j
      /\ Entries(given) \ {0} = Taken(handle, n)
  <2>1. handle \in [1..n -> S] /\ \A i, j \in 1..n : handle[i] = handle[j] => i = j
    BY <1>2, <1>3
  <2>2. n = m + k - missing /\ missing <= k
    BY <1>3
  <2>3. /\ handle \in Seq(T) /\ Len(none) = m /\ Len(handle) = k
        /\ \A i \in 1..Len(given) : given[i] \in S \/ (given[i] = 0 /\ missing = 1 /\ i = m + 1)
        /\ \A i, j \in 1..Len(given) : given[i] = given[j] => i = j
        /\ Entries(given) \ {0} = Taken(handle, n)
    <3>1. HandsOut(handle, n, S, T, none, m, handle, k, missing, given)
      BY <1>4, <1>5, <1>6, <1>d, <2>1, <2>2 DEF HandsOut
    <3> QED
      BY <3>1, HandedOut
  <2> QED
    BY <1>3, <2>3
<1>8. PICK c : c = call'[t]
  OBVIOUS
<1>9. c.op = "clone" /\ c.is_domain = FALSE
  <2>1. Asks(t) /\ call[t] \in Requests
    BY <1>1, OwnAre DEF GuardInv, Shape, Calling
  <2>2. call[t].is_domain = FALSE
    BY <1>1, <2>1 DEF Asks, Requests
  <2> QED
    BY <1>1, <1>8, <2>2, ReplyIs
<1>10. Brings(c, given, ids)
  BY <1>3, <1>5, <1>7, <1>9, <1>c DEF Brings, ObjectIsId
<1>11. /\ Laid(c, answer) /\ Held(answer, HandlePart(answer)) = Entries(given)
       /\ Held(answer, ObjectPart(answer)) = Entries(ids)
  <2>1. m = CopiesOf(c) /\ k = MovesOf(c)
    BY <1>3, <1>9 DEF CopiesOf, MovesOf
  <2>2. PICK domain2 \in BOOLEAN, size \in Nat : domain2 = FALSE /\ size = 0
    OBVIOUS
  <2>4. domain2 \in BOOLEAN /\ size \in Nat
    BY <2>2
  <2>3. /\ domain2 = c.is_domain /\ size = IF c.op = "clone" THEN 0 ELSE c.cmd.out_size
        /\ answer = Response(domain2, size, ids, none, handle)
    BY <1>1, <1>9, <1>c, <2>2
  <2> QED
    <3>1. Answers(c, domain2, size, T, none, handle, given, ids, answer)
      BY <1>5, <1>6, <1>7, <1>10, <2>1, <2>3, <2>4 DEF Answers
    <3> QED
      BY <3>1, AnswerHolds
<1>12. PICK handles, some : handles = Taken(handle, n) /\ some = {}
  OBVIOUS
<1>13. handles \subseteq S /\ DOMAIN open' = DOMAIN open \cup handles
       /\ \A h \in DOMAIN open : open[h] => open'[h]
  <2>1. handle \in [1..n -> S] /\ open' = Opened(handle, domain)
    BY <1>1, <1>2, <1>3
  <2>2. DOMAIN open' = DOMAIN open \cup Taken(handle, n) /\ \A h \in DOMAIN open : open'[h] = open[h]
    BY <2>1, OpenedNew
  <2>3. Taken(handle, n) \subseteq S
    BY <2>1 DEF Taken
  <2> QED
    BY <1>12, <2>2, <2>3
<1>14. Entries(given) \ {0} = handles /\ handles \subseteq Handles \ DOMAIN open
  BY <1>3, <1>7, <1>12, <1>13
<1>15. /\ some \subseteq ObjectIds \ objects /\ objects' = objects \cup some
       /\ some = {}
  BY <1>1, <1>12
<1>16. PICK op \in {"clone", "dispatch"} : op = "clone"
  OBVIOUS
<1> QED
  BY <1>1, <1>8, <1>11, <1>13, <1>14, <1>15, <1>16, CarriesOwns

LEMMA ServeDispatchOwns ==
    ASSUME OwnInv, GuardInv, NEW t \in Threads, ServeDispatch(t) PROVE OwnInv'
<1>1. PICK cmd, domain, object : /\ cmd = call[t].cmd /\ domain = (Target(t).object_id # 0)
                                 /\ object = (cmd.out_objects > 0)
  OBVIOUS
<1>2. pc[t] = "wait" /\ call[t].op = "dispatch" /\ (domain => Target(t).object_id \in objects)
  BY <1>1 DEF ServeDispatch, Waits
<1>3. /\ cmd \in DispatchParams /\ call[t].is_domain = domain
      /\ object => call[t].slot = "srv"
  BY <1>1, <1>2, OwnAre DEF Asks
<1>4. domain \in BOOLEAN /\ object \in BOOLEAN /\ cmd.out_size \in Nat
  BY <1>1, <1>3 DEF DispatchParams
<1>5. PICK m, k : /\ m = HandlesOf(cmd, "Copy")
                  /\ k = HandlesOf(cmd, "Move") + (IF object /\ ~domain THEN 1 ELSE 0)
  OBVIOUS
<1>6. m \in Nat /\ k \in Nat /\ (object /\ ~domain => 1 <= k)
  BY <1>3, <1>5, CountIs
<1> DEFINE Serve(c, o, d, copied, moved, no) ==
         LET id == IF o /\ d /\ ~no THEN NewObject ELSE 0
             missing == IF o /\ ~d /\ no THEN 1 ELSE 0
             n == copied + moved - missing
             handle == NewHandles(n)
         IN  /\ o /\ d /\ ~no => ObjectIds # objects
             /\ Fresh(n) # {}
             /\ objects' = objects \cup ({id} \ {0})
             /\ open' = Opened(handle, FALSE)
             /\ Reply(t, "ok", Response(d, c.out_size, IF o /\ d THEN <<id>> ELSE <<>>,
                                        [i \in 1..copied |-> handle[i]],
                                        [i \in 1..moved |-> IF i <= missing THEN 0
                                                            ELSE handle[copied + i - missing]]))
<1>s. PICK none \in BOOLEAN : Serve(cmd, object, domain, m, k, none)
  <2>1. \E no \in BOOLEAN :
           Serve(call[t].cmd, call[t].cmd.out_objects > 0, Target(t).object_id # 0,
                 HandlesOf(call[t].cmd, "Copy"),
                 HandlesOf(call[t].cmd, "Move")
                    + (IF call[t].cmd.out_objects > 0 /\ ~(Target(t).object_id # 0) THEN 1 ELSE 0), no)
    BY Zenon DEF ServeDispatch
  <2> HIDE DEF Serve
  <2> QED
    BY <1>1, <1>5, <2>1, Zenon
<1>7. LET id == IF object /\ domain /\ ~none THEN NewObject ELSE 0
          missing == IF object /\ ~domain /\ none THEN 1 ELSE 0
          n == m + k - missing
          handle == NewHandles(n)
      IN  /\ object /\ domain /\ ~none => ObjectIds # objects
          /\ Fresh(n) # {}
          /\ objects' = objects \cup ({id} \ {0})
          /\ open' = Opened(handle, FALSE)
          /\ Reply(t, "ok", Response(domain, cmd.out_size, IF object /\ domain THEN <<id>> ELSE <<>>,
                                     [i \in 1..m |-> handle[i]],
                                     [i \in 1..k |-> IF i <= missing THEN 0
                                                     ELSE handle[m + i - missing]]))
  BY <1>s, Zenon
<1>8. PICK id, missing : /\ id = IF object /\ domain /\ ~none THEN NewObject ELSE 0
                         /\ missing = IF object /\ ~domain /\ none THEN 1 ELSE 0
  OBVIOUS
<1>9. PICK n : n = m + k - missing
  OBVIOUS
<1>10. PICK handle, ids, copies, moves :
          /\ handle = NewHandles(n) /\ ids = IF object /\ domain THEN <<id>> ELSE <<>>
          /\ copies = [i \in 1..m |-> handle[i]]
          /\ moves = [i \in 1..k |-> IF i <= missing THEN 0 ELSE handle[m + i - missing]]
  OBVIOUS
<1>11. PICK answer, given, shared :
          /\ answer = Response(domain, cmd.out_size, ids, copies, moves)
          /\ given = copies \o moves /\ shared = FALSE
  OBVIOUS
<1>12. /\ object /\ domain /\ ~none => ObjectIds # objects
       /\ Fresh(n) # {} /\ objects' = objects \cup ({id} \ {0})
       /\ open' = Opened(handle, shared) /\ Reply(t, "ok", answer)
  BY <1>7, <1>8, <1>9, <1>10, <1>11, Zenon
<1>13. missing \in {0, 1} /\ missing <= k /\ n \in Nat
       /\ (missing = 1 => object /\ ~domain)
  BY <1>6, <1>8, <1>9
<1>14. PICK S : S = Handles \ DOMAIN open
  OBVIOUS
<1>15. S \subseteq Nat \ {0}
  BY <1>14, HandlesAssumption
<1>16. /\ handle \in [1..n -> S]
       /\ \A i, j \in 1..n : handle[i] = handle[j] => i = j
  BY <1>10, <1>12, <1>13, <1>14, FreshIs
<1>17. /\ id \in ObjectIds \cup {0} /\ {id} \ {0} \subseteq ObjectIds \ objects
       /\ id # 0 => object /\ domain
       /\ ids \in Seq(Nat) /\ Len(ids) = (IF object /\ domain THEN 1 ELSE 0)
       /\ (object /\ domain => ids[1] = id)
       /\ Entries(ids) \ {0} = {id} \ {0}
  <2>1. id = 0 \/ (id \in ObjectIds \ objects /\ id # 0 /\ object /\ domain)
    BY <1>8, <1>12, OwnAre, NewObjectIs DEF Stores
  <2>2. id \in Nat
    <3>1. \A x \in ObjectIds : x \in Nat
      BY ObjectIdsAssumption
    <3>2. id \in ObjectIds => id \in Nat
      BY <3>1, Zenon
    <3>3. id = 0 => id \in Nat
      OBVIOUS
    <3> QED
      BY <2>1, <3>2, <3>3, Zenon
  <2>3. CASE object /\ domain
    <3>1. ids = <<id>>
      BY <1>10, <2>3
    <3>2. ids \in Seq(Nat) /\ Len(ids) = 1 /\ ids[1] = id
      BY <2>2, <3>1
    <3>3. Entries(ids) = {id}
      BY <3>2 DEF Entries
    <3> QED
      BY <2>1, <2>3, <3>2, <3>3
  <2>4. CASE ~(object /\ domain)
    <3>1. ids = <<>>
      BY <1>10, <2>4
    <3>2. ids \in Seq(Nat) /\ Len(ids) = 0
      BY <3>1
    <3>3. Entries(ids) = {}
      BY <3>2 DEF Entries
    <3> QED
      BY <2>1, <2>4, <3>2, <3>3
  <2> QED
    BY <2>3, <2>4
<1>18. HandsOut(handle, n, S, Nat, copies, m, moves, k, missing, given)
  <2>1. copies \in [1..m -> Nat] /\ \A i \in 1..m : copies[i] = handle[i]
    <3>1. \A i \in 1..m : i \in 1..n
      BY <1>6, <1>9, <1>13
    <3>2. \A i \in 1..m : handle[i] \in Nat
      BY <1>15, <1>16, <3>1
    <3> QED
      BY <1>10, <3>2
  <2>2. /\ moves \in [1..k -> Nat]
        /\ \A i \in 1..k : moves[i] = IF i <= missing THEN 0 ELSE handle[m + i - missing]
    <3>1. \A i \in 1..k : ~(i <= missing) => m + i - missing \in 1..n
      BY <1>6, <1>9, <1>13
    <3>2. \A i \in 1..k : ~(i <= missing) => handle[m + i - missing] \in Nat
      BY <1>15, <1>16, <3>1
    <3> QED
      BY <1>10, <3>2
  <2> QED
    BY <1>6, <1>9, <1>11, <1>13, <1>15, <1>16, <2>1, <2>2 DEF HandsOut
<1>19. /\ copies \in Seq(Nat) /\ moves \in Seq(Nat) /\ Len(copies) = m /\ Len(moves) = k
       /\ \A i \in 1..Len(given) : given[i] \in S \/ (given[i] = 0 /\ missing = 1 /\ i = m + 1)
       /\ \A i, j \in 1..Len(given) : given[i] = given[j] => i = j
       /\ Entries(given) \ {0} = Taken(handle, n)
  BY <1>18, HandedOut
<1>20. PICK c : c = call'[t]
  OBVIOUS
<1>21. c.op = "dispatch" /\ c.cmd = cmd /\ c.is_domain = domain
  BY <1>1, <1>2, <1>3, <1>12, <1>20, ReplyIs
<1>22. /\ CopiesOf(c) = m /\ MovesOf(c) = k
       /\ (ObjectIsHandle(c) <=> object /\ ~domain) /\ (ObjectIsId(c) <=> object /\ domain)
  BY <1>1, <1>5, <1>21 DEF CopiesOf, MovesOf, ObjectIsHandle, ObjectIsId
<1>23. Brings(c, given, ids)
  <2>1. S \subseteq Handles
    BY <1>14
  <2>2. \A i \in 1..Len(given) : given[i] \in Handles
                                 \/ (given[i] = 0 /\ ObjectIsHandle(c) /\ i = CopiesOf(c) + 1)
    BY <1>13, <1>19, <1>22, <2>1
  <2>3. Len(ids) = IF ObjectIsId(c) THEN 1 ELSE 0
    BY <1>17, <1>22
  <2>4. ObjectIsId(c) => ids[1] \in ObjectIds \cup {0}
    BY <1>17, <1>22
  <2> QED
    BY <1>19, <2>2, <2>3, <2>4 DEF Brings
<1>24. /\ Laid(c, answer) /\ Held(answer, HandlePart(answer)) = Entries(given)
       /\ Held(answer, ObjectPart(answer)) = Entries(ids)
  <2>1. PICK size : size = cmd.out_size
    OBVIOUS
  <2>2. Answers(c, domain, size, Nat, copies, moves, given, ids, answer)
    BY <1>4, <1>11, <1>17, <1>19, <1>21, <1>22, <1>23, <2>1 DEF Answers
  <2> QED
    BY <2>2, AnswerHolds
<1>25. PICK handles, some : handles = Taken(handle, n) /\ some = {id} \ {0}
  OBVIOUS
<1>26. handles \subseteq S /\ DOMAIN open' = DOMAIN open \cup handles
       /\ \A h \in DOMAIN open : open'[h] = open[h]
  <2>1. DOMAIN open' = DOMAIN open \cup Taken(handle, n) /\ \A h \in DOMAIN open : open'[h] = open[h]
    BY <1>12, <1>13, <1>16, OpenedNew
  <2>2. Taken(handle, n) \subseteq S
    BY <1>16 DEF Taken
  <2> QED
    BY <1>25, <2>1, <2>2
<1>27. some # {} => srv.session \in DOMAIN open /\ open'[srv.session]
  <2>1. some # {} => objects # {}
    BY <1>2, <1>17, <1>25
  <2>2. objects # {} => srv.session \in DOMAIN open /\ open[srv.session]
    BY OwnAre DEF Guarded
  <2> QED
    BY <1>26, <2>1, <2>2
<1>28. Entries(given) \ {0} = handles /\ handles \subseteq Handles \ DOMAIN open
  BY <1>14, <1>19, <1>25, <1>26
<1>29. PICK op \in {"clone", "dispatch"} : op = "dispatch"
  OBVIOUS
<1>30. /\ some \subseteq ObjectIds \ objects /\ objects' = objects \cup some
       /\ some = IF op = "clone" THEN {} ELSE Entries(ids) \ {0}
  BY <1>12, <1>17, <1>25, <1>29
<1>31. \A h \in DOMAIN open : open[h] => open'[h]
  BY <1>26
<1>32. op \in {"clone", "dispatch"} /\ call[t].op = op /\ pc[t] = "wait" /\ Reply(t, "ok", answer)
       /\ DOMAIN open' = DOMAIN open \cup handles
  BY <1>2, <1>12, <1>26, <1>29
<1> QED
  BY <1>20, <1>24, <1>27, <1>28, <1>30, <1>31, <1>32, CarriesOwns

LEMMA ServeCloseOwns ==
    ASSUME OwnInv, GuardInv, NEW t \in Threads, ServeClose(t) PROVE OwnInv'
<1>1. /\ pc[t] = "wait" /\ call[t].op = "close" /\ Reply(t, "ok", NoMessage) /\ open' = open
      /\ objects' = objects \ (IF Target(t).own_handle = 0 THEN {Target(t).object_id} ELSE {})
  BY DEF ServeClose, Waits
<1>2. /\ UNCHANGED <<srv, sub, kept>> /\ Apart(t) /\ DOMAIN tls' = Threads
      /\ pc'[t] = "parse" /\ call'[t].op = "close" /\ call'[t].result = "ok"
      /\ call'[t].slot = call[t].slot
      /\ Bare(t) /\ (IsUser(t)' <=> IsUser(t)) /\ Asks(t)'
  BY <1>1, ReplyIs
<1>3. Hears(t)' /\ ~Carries(t)' /\ ~Replied(t, "convert")'
      /\ (Gone(t)' <=> call[t].slot = "sub")
  BY <1>2 DEF Hears, Carries, Replied, Succeeded, Gone
<1>4. Asks(t) /\ Keeps(t) /\ Stores /\ Guarded /\ call[t].slot \in {"srv", "sub"}
  BY <1>1, OwnAre DEF GuardInv, Shape, Calling, Requests
<1>5. CASE call[t].slot = "srv"
  <2>1. Target(t) = srv /\ srv.own_handle = 1
    BY <1>1, <1>4, <1>5 DEF Target, Asks, Guarded, Active
  <2>2. UNCHANGED server
    BY <1>1, <2>1 DEF server
  <2>3. Bare(t)'
    BY <1>3, <1>5 DEF Bare
  <2> QED
    BY <1>1, <1>2, <1>3, <1>4, <2>2, <2>3, QuietOwns DEF Keeps
<1>6. CASE call[t].slot = "sub"
  <2>1. Target(t) = sub[t] /\ serviceIsActive(sub[t])
    BY <1>1, <1>4, <1>6 DEF Target, Asks
  <2>2. OwnObject(t) = IF sub[t].own_handle = 0 THEN {sub[t].object_id} ELSE {}
    <3>1. sub[t].own_handle = 0 => sub[t].object_id # 0
      BY <1>4, <2>1 DEF Keeps, serviceIsActive, NoService
    <3> QED
      BY <1>2, <3>1, BareHas
  <2>3. OwnObject(t)' = {} /\ AnswerObject(t)' = {} /\ AnswerHandles(t)' = {}
    BY <1>3, <1>6 DEF OwnObject, AnswerObject, AnswerHandles, Carries
  <2>4. OwnHandle(t)' = OwnHandle(t) /\ kept'[t] = kept[t] /\ sub'[t] = sub[t]
    BY <1>2 DEF OwnHandle, Owns
  <2>5. HandlesWith'[t] = HandlesWith[t] /\ ObjectsWith'[t] = {} /\ ObjectsWith[t] = OwnObject(t)
    BY <1>2, <2>3, <2>4, BareHas, WithAfter
  <2>6. objects' = objects \ OwnObject(t)
    BY <1>1, <2>1, <2>2
  <2>7. Stores' /\ Guarded'
    BY <1>1, <1>2, <1>4, <2>6 DEF Stores, Guarded, Active
  <2>8. Keeps(t)'
    BY <1>1, <1>2, <1>4, <2>3, <2>4 DEF Keeps
  <2>9. SharedOut(DOMAIN open', SessionOf(srv)', HandlesWith')
    BY <1>1, <1>2, <2>5, HandlesSame DEF SessionOf
  <2>10. SharedOut(objects', ObjectOf(srv)', ObjectsWith')
    <3>1. ObjectOf(srv)' = ObjectOf(srv) /\ ObjectsWith[t] \cap ObjectOf(srv) = {}
      BY <1>2, OwnAre, HasShare DEF ObjectOf
    <3> DEFINE gone == OwnObject(t)
               new == {}
    <3>2. /\ gone \subseteq ObjectOf(srv) \cup ObjectsWith[t] /\ new \cap objects = {}
          /\ ObjectOf(srv)' \cup ObjectsWith'[t] = ((ObjectOf(srv) \cup ObjectsWith[t]) \ gone) \cup new
          /\ ObjectsWith'[t] \cap ObjectOf(srv)' = {}
          /\ objects' = (objects \ gone) \cup new
      BY <2>5, <2>6, <3>1
    <3> HIDE DEF gone, new
    <3> QED
      BY <1>2, <3>2, ObjectsAfter
  <2> QED
    BY <1>2, <1>3, <2>7, <2>8, <2>9, <2>10, StepOwns
<1> QED
  BY <1>4, <1>5, <1>6

-----------------------------------------------------------------------------
\* Closing.

\* The last to leave finds nothing but the session of the service.
LEMMA LastHas ==
    ASSUME OwnInv, GuardInv, NEW t \in Threads, Parses(t, "close"), call[t].slot = "srv"
    PROVE  /\ InGuard(t) /\ Users = {} /\ sub[t] = NoService /\ kept[t] = {}
           /\ OwnHandle(t) = {} /\ OwnObject(t) = {}
           /\ HandlesWith[t] = {} /\ ObjectsWith[t] = {}
           /\ DOMAIN open = SessionOf(srv) /\ objects = ObjectOf(srv)
<1>1. InGuard(t) /\ call[t].op = "close"
  BY DEF InGuard, Parses
<1>2. owner = t /\ Users = {}
  BY <1>1, OwnerIs DEF Phase
<1>3. /\ sub[t] = NoService /\ kept[t] = {} /\ OwnHandle(t) = {} /\ OwnObject(t) = {}
  BY <1>1, InGuardHas
<1>4. ASSUME NEW u \in Threads PROVE HandlesWith[u] = {} /\ ObjectsWith[u] = {}
  <2>1. ~IsUser(u)
    BY <1>2, UsersAre
  <2>2. sub[u] = NoService /\ kept[u] = {}
    BY <2>1, StrangerHas
  <2>3. OwnHandle(u) = {} /\ OwnObject(u) = {}
    BY <2>2 DEF OwnHandle, OwnObject, Owns, NoService
  <2>4. ~Carries(u) /\ ~Replied(u, "dispatch")
    BY <2>1 DEF Carries, Replied, IsUser
  <2>5. ~Replied(u, "convert")
    <3>1. CASE u = t
      BY <1>1, <3>1 DEF Replied
    <3>2. CASE u # t
      <4>1. ~InGuard(u)
        BY <1>2, <3>2 DEF GuardInv
      <4> QED
        BY <4>1 DEF InGuard, Replied
    <3> QED
      BY <3>1, <3>2
  <2> QED
    BY <2>2, <2>3, <2>4, <2>5, WithAre DEF AnswerHandles, AnswerObject
<1>5. ASSUME NEW all, NEW one, NEW with, SharedOut(all, one, with), \A u \in Threads : with[u] = {}
      PROVE  all = one
  BY <1>5 DEF SharedOut
<1>6. DOMAIN open = SessionOf(srv)
  <2>1. PICK all : all = DOMAIN open
    OBVIOUS
  <2>2. SharedOut(all, SessionOf(srv), HandlesWith)
    BY <2>1, OwnAre
  <2> QED
    BY <1>4, <1>5, <2>1, <2>2
<1>7. objects = ObjectOf(srv)
  BY <1>4, <1>5, OwnAre
<1> QED
  BY <1>1, <1>2, <1>3, <1>4, <1>6, <1>7

LEMMA CloseLastOwns ==
    ASSUME OwnInv, GuardInv, NEW t \in Threads, FinishClose(t), call[t].slot = "srv" PROVE OwnInv'
<1>1. /\ Parses(t, "close") /\ Closed(srv) /\ srv' = NoService /\ UNCHANGED <<sub, kept>>
      /\ Return(t, "out")
  BY DEF FinishClose, Target
<1>2. /\ InGuard(t) /\ Users = {} /\ sub[t] = NoService /\ kept[t] = {}
      /\ OwnHandle(t) = {} /\ OwnObject(t) = {}
      /\ HandlesWith[t] = {} /\ ObjectsWith[t] = {}
      /\ DOMAIN open = SessionOf(srv) /\ objects = ObjectOf(srv)
  BY <1>1, LastHas
<1>3. Stores /\ Guarded /\ Asks(t)
  BY OwnAre
<1>4. srv.own_handle = 1
  BY <1>1, <1>3 DEF Parses, Asks, Target, Guarded, Active
<1>5. DOMAIN open' = {} /\ objects' = {}
  BY <1>1, <1>2, <1>4 DEF Closed, SessionOf
<1>6. /\ pc'[t] = "out" /\ DOMAIN tls' = Threads
      /\ \A u \in Threads \ {t} : pc'[u] = pc[u] /\ call'[u] = call[u] /\ tls'[u] = tls[u]
      /\ Bare(t)' /\ Asks(t)' /\ Hears(t)'
  BY <1>1, ReturnMakes
<1>7. Apart(t)
  BY <1>1, <1>6 DEF Apart
<1>8. Keeps(t)' /\ HandlesWith'[t] = {} /\ ObjectsWith'[t] = {}
  BY <1>1, <1>2, <1>6, NothingKept
<1>9. NoService \in Services
  BY DEF NoService, Services
<1>10. Stores' /\ Guarded'
  BY <1>1, <1>3, <1>5, <1>6, <1>9 DEF Stores, Guarded, Active, serviceIsActive, NoService
<1>11. SessionOf(srv)' = {} /\ ObjectOf(srv)' = {}
  BY <1>1 DEF SessionOf, ObjectOf, NoService
<1>12. SharedOut(DOMAIN open', SessionOf(srv)', HandlesWith')
  <2> DEFINE gone == SessionOf(srv)
             new == {}
  <2>1. /\ gone \subseteq SessionOf(srv) \cup HandlesWith[t] /\ new \cap DOMAIN open = {}
        /\ SessionOf(srv)' \cup HandlesWith'[t] = ((SessionOf(srv) \cup HandlesWith[t]) \ gone) \cup new
        /\ HandlesWith'[t] \cap SessionOf(srv)' = {}
        /\ DOMAIN open' = (DOMAIN open \ gone) \cup new
    BY <1>2, <1>5, <1>8, <1>11
  <2> HIDE DEF gone, new
  <2> QED
    BY <1>7, <2>1, HandlesAfter
<1>13. SharedOut(objects', ObjectOf(srv)', ObjectsWith')
  <2> DEFINE gone == ObjectOf(srv)
             new == {}
  <2>1. /\ gone \subseteq ObjectOf(srv) \cup ObjectsWith[t] /\ new \cap objects = {}
        /\ ObjectOf(srv)' \cup ObjectsWith'[t] = ((ObjectOf(srv) \cup ObjectsWith[t]) \ gone) \cup new
        /\ ObjectsWith'[t] \cap ObjectOf(srv)' = {}
        /\ objects' = (objects \ gone) \cup new
    BY <1>2, <1>5, <1>8, <1>11
  <2> HIDE DEF gone, new
  <2> QED
    BY <1>7, <2>1, ObjectsAfter
<1> QED
  BY <1>2, <1>6, <1>7, <1>8, <1>10, <1>12, <1>13, StepOwns

\* Handles of t are closed, while the service stays.
GivesUp(t, gone) ==
    /\ gone \subseteq HandlesWith[t] /\ HandlesWith'[t] = HandlesWith[t] \ gone
    /\ DOMAIN open' = DOMAIN open \ gone /\ \A h \in DOMAIN open \ gone : open'[h] = open[h]
    /\ ObjectsWith'[t] = ObjectsWith[t] /\ objects' = objects

LEMMA ClosedOwns ==
    ASSUME OwnInv, GuardInv, NEW t \in Threads, Apart(t), srv' = srv, DOMAIN tls' = Threads,
           sub' \in [Threads -> Services], kept' \in [Threads -> SUBSET Handles],
           Keeps(t)', Asks(t)', Hears(t)', NEW gone, GivesUp(t, gone)
    PROVE  OwnInv'
<1>0. /\ gone \subseteq HandlesWith[t] /\ HandlesWith'[t] = HandlesWith[t] \ gone
      /\ DOMAIN open' = DOMAIN open \ gone /\ \A h \in DOMAIN open \ gone : open'[h] = open[h]
      /\ ObjectsWith'[t] = ObjectsWith[t] /\ objects' = objects
  BY DEF GivesUp
<1>1. Stores /\ Guarded /\ HandlesWith[t] \cap SessionOf(srv) = {}
  BY OwnAre, HasShare
<1>2. objects # {} => srv.session \in DOMAIN open' /\ open'[srv.session]
  <2>1. objects # {} => srv.session \in DOMAIN open /\ open[srv.session]
    BY <1>1 DEF Guarded
  <2>2. srv.session \in DOMAIN open => srv.session \notin gone
    BY <1>0, <1>1, HandlesAssumption DEF SessionOf, Stores
  <2> QED
    BY <1>0, <2>1, <2>2
<1>3. Stores' /\ Guarded'
  BY <1>0, <1>1, <1>2 DEF Stores, Guarded, Active
<1>4. SessionOf(srv)' = SessionOf(srv) /\ ObjectOf(srv)' = ObjectOf(srv)
  BY DEF SessionOf, ObjectOf
<1>5. SharedOut(DOMAIN open', SessionOf(srv)', HandlesWith')
  <2> DEFINE new == {}
  <2>1. /\ gone \subseteq SessionOf(srv) \cup HandlesWith[t] /\ new \cap DOMAIN open = {}
        /\ SessionOf(srv)' \cup HandlesWith'[t] = ((SessionOf(srv) \cup HandlesWith[t]) \ gone) \cup new
        /\ HandlesWith'[t] \cap SessionOf(srv)' = {}
        /\ DOMAIN open' = (DOMAIN open \ gone) \cup new
    BY <1>0, <1>1, <1>4
  <2> HIDE DEF new
  <2> QED
    BY <2>1, HandlesAfter
<1>6. SharedOut(objects', ObjectOf(srv)', ObjectsWith')
  BY <1>0, <1>4, ObjectsSame
<1> QED
  BY <1>3, <1>5, <1>6, StepOwns

LEMMA CloseOwnOwns ==
    ASSUME OwnInv, GuardInv, NEW t \in Threads, FinishClose(t), call[t].slot = "sub" PROVE OwnInv'
<1>1. /\ Parses(t, "close") /\ Closed(sub[t]) /\ sub' = [sub EXCEPT ![t] = NoService]
      /\ Return(t, "in") /\ UNCHANGED <<srv, kept>>
  BY DEF FinishClose, Target
<1>2. Stores /\ Guarded /\ Asks(t) /\ Keeps(t) /\ sub[t] \in Services
  BY OwnAre DEF Stores
<1>3. serviceIsActive(sub[t]) /\ sub[t].own_handle \in {0, 1}
  BY <1>1, <1>2 DEF Parses, Asks, Target, Services
<1>4. /\ Gone(t) /\ ~Carries(t) /\ ~Replied(t, "convert")
  BY <1>1 DEF Parses, Gone, Carries, Replied
<1>5. AnswerHandles(t) = {} /\ AnswerObject(t) = {} /\ OwnObject(t) = {}
  BY <1>4 DEF AnswerHandles, AnswerObject, OwnObject, Carries
<1>6. HandlesWith[t] = OwnHandle(t) \cup kept[t] /\ ObjectsWith[t] = {}
  BY <1>5, WithAre
<1>7. /\ pc'[t] = "in" /\ DOMAIN tls' = Threads
      /\ \A u \in Threads \ {t} : pc'[u] = pc[u] /\ call'[u] = call[u] /\ tls'[u] = tls[u]
      /\ Bare(t)' /\ Asks(t)' /\ Hears(t)' /\ IsUser(t)'
  BY <1>1, ReturnMakes
<1>8. NoService \in Services
  BY DEF NoService, Services
<1>9. /\ sub'[t] = NoService /\ sub' \in [Threads -> Services] /\ kept' \in [Threads -> SUBSET Handles]
      /\ \A u \in Threads \ {t} : sub'[u] = sub[u]
  BY <1>1, <1>2, <1>8 DEF Stores
<1>10. Apart(t)
  BY <1>1, <1>7, <1>9 DEF Apart
<1>11. OwnHandle(t)' = {} /\ OwnObject(t)' = {}
  BY <1>9 DEF OwnHandle, OwnObject, Owns, NoService
<1>12. HandlesWith'[t] = kept[t] /\ ObjectsWith'[t] = {}
  BY <1>1, <1>7, <1>11, BareAfter
<1>13. Keeps(t)'
  BY <1>7, <1>9, <1>11, BareAfter DEF Keeps, NoService
<1>14. OwnHandle(t) \cap kept[t] = {}
  BY <1>2 DEF Keeps
<1>15. HandlesWith[t] \subseteq DOMAIN open /\ HandlesWith[t] \cap SessionOf(srv) = {}
  BY OwnAre, HasShare
<1>16. /\ DOMAIN open' = DOMAIN open \ OwnHandle(t)
       /\ \A h \in DOMAIN open \ OwnHandle(t) : open'[h] = open[h]
       /\ objects' = objects
  <2>1. CASE sub[t].own_handle = 1
    <3>1. OwnHandle(t) = {sub[t].session}
      BY <1>3, <2>1 DEF OwnHandle, Owns
    <3>2. /\ open' = [h \in DOMAIN open \ {sub[t].session} |-> open[h]]
          /\ objects' = IF \E h \in DOMAIN open \ {sub[t].session} : open[h] THEN objects ELSE {}
      BY <1>1, <2>1 DEF Closed
    <3>3. objects # {} => srv.session \in DOMAIN open \ {sub[t].session} /\ open[srv.session]
      <4>1. objects # {} => srv.session \in DOMAIN open /\ open[srv.session] /\ srv.session # 0
        BY <1>2, HandlesAssumption DEF Guarded, Stores
      <4>2. srv.session # 0 => srv.session # sub[t].session
        BY <1>6, <1>15, <3>1 DEF SessionOf
      <4> QED
        BY <4>1, <4>2
    <3>4. objects' = objects
      BY <3>2, <3>3
    <3> QED
      BY <3>1, <3>2, <3>4
  <2>2. CASE sub[t].own_handle = 0
    <3>1. OwnHandle(t) = {} /\ UNCHANGED server
      BY <1>1, <2>2 DEF OwnHandle, Owns, Closed
    <3> QED
      BY <3>1 DEF server
  <2> QED
    BY <1>3, <2>1, <2>2
<1>17. PICK gone : gone = OwnHandle(t)
  OBVIOUS
<1>18. /\ gone \subseteq HandlesWith[t] /\ HandlesWith'[t] = HandlesWith[t] \ gone
       /\ DOMAIN open' = DOMAIN open \ gone /\ \A h \in DOMAIN open \ gone : open'[h] = open[h]
  BY <1>6, <1>12, <1>14, <1>16, <1>17
<1>19. ObjectsWith'[t] = ObjectsWith[t] /\ objects' = objects
  BY <1>6, <1>12, <1>16
<1>20. GivesUp(t, gone)
  BY <1>18, <1>19, Zenon DEF GivesUp
<1>21. /\ srv' = srv /\ DOMAIN tls' = Threads /\ Asks(t)' /\ Hears(t)'
       /\ sub' \in [Threads -> Services] /\ kept' \in [Threads -> SUBSET Handles]
  BY <1>1, <1>7, <1>9, Zenon
<1> QED
  BY <1>10, <1>13, <1>20, <1>21, ClosedOwns

LEMMA CloseKeptOwns == ASSUME OwnInv, GuardInv, NEW t \in Threads, CloseKept(t) PROVE OwnInv'
<1>1. PICK h \in kept[t] :
         /\ kept' = [kept EXCEPT ![t] = @ \ {h}] /\ open' = [o \in DOMAIN open \ {h} |-> open[o]]
         /\ pc[t] = "in" /\ UNCHANGED <<srv, sub, pc, call, tls, objects>>
  BY DEF CloseKept, threads
<1>2. Stores /\ Keeps(t) /\ Asks(t) /\ Hears(t)
  BY OwnAre
<1>3. /\ kept'[t] = kept[t] \ {h} /\ kept' \in [Threads -> SUBSET Handles]
      /\ \A u \in Threads \ {t} : kept'[u] = kept[u]
  BY <1>1, <1>2 DEF Stores
<1>4. Apart(t) /\ DOMAIN tls' = Threads /\ sub' \in [Threads -> Services]
  BY <1>1, <1>2, <1>3 DEF Apart, Stores
<1>5. Bare(t)
  BY <1>1, IdleHas DEF Calling
<1>6. Bare(t)' /\ (IsUser(t)' <=> IsUser(t)) /\ (Hears(t)' <=> Hears(t)) /\ (Asks(t)' <=> Asks(t))
  BY <1>1, <1>5 DEF Bare, Carries, Replied, Succeeded, Gone, IsUser, Hears, Asks, Target
<1>7. OwnHandle(t)' = OwnHandle(t) /\ sub'[t] = sub[t] /\ pc'[t] = pc[t]
  BY <1>1 DEF OwnHandle, Owns
<1>8. HandlesWith[t] = OwnHandle(t) \cup kept[t] /\ OwnHandle(t) \cap kept[t] = {}
  BY <1>2, <1>5, BareHas DEF Keeps
<1>9. HandlesWith'[t] = OwnHandle(t) \cup kept'[t] /\ ObjectsWith'[t] = ObjectsWith[t]
  BY <1>5, <1>6, <1>7, BareHas, BareAfter
<1>10. Keeps(t)'
  BY <1>1, <1>2, <1>3, <1>6, <1>7, BareAfter DEF Keeps
<1>11. PICK gone : gone = {h}
  OBVIOUS
<1>12. /\ gone \subseteq HandlesWith[t] /\ HandlesWith'[t] = HandlesWith[t] \ gone
       /\ DOMAIN open' = DOMAIN open \ gone /\ \A o \in DOMAIN open \ gone : open'[o] = open[o]
  BY <1>1, <1>3, <1>8, <1>9, <1>11
<1>13. GivesUp(t, gone)
  BY <1>1, <1>9, <1>12 DEF GivesUp
<1> QED
  BY <1>1, <1>2, <1>3, <1>4, <1>6, <1>10, <1>13, ClosedOwns

-----------------------------------------------------------------------------
\* What a thread gets becomes its own.

LEMMA TakesOwns ==
    ASSUME OwnInv, GuardInv, NEW t \in Threads, Apart(t), UNCHANGED <<srv, server>>,
           DOMAIN tls' = Threads,
           sub' \in [Threads -> Services], kept' \in [Threads -> SUBSET Handles],
           Keeps(t)', Asks(t)', Hears(t)',
           HandlesWith'[t] = HandlesWith[t], ObjectsWith'[t] = ObjectsWith[t]
    PROVE  OwnInv'
<1>1. open' = open /\ objects' = objects
  BY DEF server
<1>2. PICK gone : gone = {}
  OBVIOUS
<1>3. /\ gone \subseteq HandlesWith[t] /\ HandlesWith'[t] = HandlesWith[t] \ gone
      /\ DOMAIN open' = DOMAIN open \ gone /\ \A h \in DOMAIN open \ gone : open'[h] = open[h]
  BY <1>1, <1>2
<1>4. GivesUp(t, gone)
  BY <1>1, <1>3, Zenon DEF GivesUp
<1> QED
  BY <1>4, ClosedOwns

LEMMA CloneOwns == ASSUME OwnInv, GuardInv, NEW t \in Threads, serviceClone(t) PROVE OwnInv'
<1>1. PICK s, message, is_domain, cmd :
         /\ s = [srv EXCEPT !.session = 0, !.own_handle = 1] /\ message.object_id = 0
         /\ is_domain = FALSE /\ cmd = NoCall
         /\ pc[t] = "in" /\ sub[t] = NoService /\ sub' = [sub EXCEPT ![t] = s]
         /\ UNCHANGED <<srv, kept, server>>
         /\ Request(t, "clone", "srv", message, cmd, is_domain)
  <2>1. \A n, k : cmifMakeControlRequest(n, k).object_id = 0
    BY DEF cmifMakeControlRequest, Plain
  <2>2. PICK tagged \in BOOLEAN :
           Request(t, "clone", "srv",
                   IF tagged THEN cmifMakeControlRequest(4, 4) ELSE cmifMakeControlRequest(2, 0),
                   NoCall, FALSE)
    BY DEF serviceClone
  <2>3. PICK message : /\ message = IF tagged THEN cmifMakeControlRequest(4, 4)
                                    ELSE cmifMakeControlRequest(2, 0)
    OBVIOUS
  <2>4. message.object_id = 0
    BY <2>1, <2>3
  <2>5. Request(t, "clone", "srv", message, NoCall, FALSE)
    BY <2>2, <2>3, Zenon
  <2> QED
    BY <2>4, <2>5, Zenon DEF serviceClone
<1>2. Stores /\ Guarded /\ ~Calling(t)
  BY <1>1, OwnAre DEF Calling
<1>3. s \in Services /\ s.session = 0 /\ s.own_handle = 1 /\ s.object_id = srv.object_id
  <2>1. srv \in [session : Handles \cup {0}, own_handle : 0..1, object_id : ObjectIds \cup {0},
                 pointer_buffer_size : PointerSizes \cup {0}]
    BY <1>2 DEF Guarded, Services
  <2>2. s = [session |-> 0, own_handle |-> 1, object_id |-> srv.object_id,
             pointer_buffer_size |-> srv.pointer_buffer_size]
    BY <1>1, <2>1
  <2> QED
    BY <2>1, <2>2 DEF Services
<1>4. /\ sub'[t] = s /\ sub' \in [Threads -> Services] /\ kept' \in [Threads -> SUBSET Handles]
      /\ kept'[t] = kept[t] /\ \A u \in Threads \ {t} : sub'[u] = sub[u] /\ kept'[u] = kept[u]
  BY <1>1, <1>2, <1>3 DEF Stores
<1>5. /\ pc'[t] = "send" /\ DOMAIN tls' = Threads /\ tls'[t] = message
      /\ call'[t].op = "clone" /\ call'[t].slot = "srv" /\ call'[t].is_domain = is_domain
      /\ \A u \in Threads \ {t} : pc'[u] = pc[u] /\ call'[u] = call[u] /\ tls'[u] = tls[u]
  BY <1>1, <1>2, RequestMakes DEF Operations, Stores
<1>6. Apart(t) /\ Bare(t) /\ Bare(t)' /\ IsUser(t)'
  BY <1>2, <1>4, <1>5, IdleHas DEF Apart, Bare, Carries, Replied, Gone, IsUser
<1>7. OwnHandle(t) = {} /\ OwnHandle(t)' = {} /\ OwnObject(t) = {} /\ OwnObject(t)' = {}
  BY <1>1, <1>3, <1>4, <1>6, BareHas, BareAfter DEF OwnHandle, Owns, serviceIsActive, NoService
<1>8. HandlesWith'[t] = HandlesWith[t] /\ ObjectsWith'[t] = ObjectsWith[t]
  BY <1>4, <1>6, <1>7, BareHas, BareAfter
<1>9. Keeps(t)'
  BY <1>1, <1>3, <1>4, <1>5, <1>6, <1>7, BareAfter DEF Keeps
<1>10. Asks(t)'
  BY <1>1, <1>3, <1>4, <1>5 DEF Asks
<1>11. Hears(t)'
  BY <1>5 DEF Hears, Carries, Replied
<1> QED
  BY <1>1, <1>4, <1>5, <1>6, <1>8, <1>9, <1>10, <1>11, TakesOwns

\* The handles in an answer, by their number.
LEMMA AnswerIs ==
    ASSUME NEW t \in Threads, Carries(t), NEW c, c = call[t], NEW answer, answer = tls[t],
           Laid(c, answer), NEW n, n = CopiesOf(c) + MovesOf(c)
    PROVE  /\ AnswerHandles(t) = {HandleAt(c, answer, i) : i \in 1..n} \ {0}
           /\ Replied(t, "dispatch") => AnswerObject(t) = (IF ObjectIsId(c) THEN {ObjectAt(c, answer)} ELSE {}) \ {0}
<1>1. PICK at : at = Answer(c, answer)
  OBVIOUS
<1>2. HandlePlaces(t) = Words(at.copy_handles, n)
  BY <1>1 DEF HandlePlaces, Laid
<1>3. {answer.memory[p] : p \in Words(at.copy_handles, n)} = {HandleAt(c, answer, i) : i \in 1..n}
  BY <1>1 DEF Words, HandleAt, Nth
<1>4. AnswerHandles(t) = {HandleAt(c, answer, i) : i \in 1..n} \ {0}
  <2>1. AnswerHandles(t) = InAnswer(t, HandlePlaces(t))
    BY DEF AnswerHandles
  <2>2. InAnswer(t, HandlePlaces(t)) = {answer.memory[p] : p \in Words(at.copy_handles, n)} \ {0}
    BY <1>2 DEF InAnswer
  <2> QED
    BY <1>3, <2>1, <2>2
<1>5. ObjectPlaces(t) = Words(at.objects, IF ObjectIsId(c) THEN 1 ELSE 0)
  BY <1>1 DEF ObjectPlaces, Laid
<1>6. {answer.memory[p] : p \in Words(at.objects, IF ObjectIsId(c) THEN 1 ELSE 0)}
         = IF ObjectIsId(c) THEN {ObjectAt(c, answer)} ELSE {}
  <2>1. CASE ObjectIsId(c)
    <3>1. Words(at.objects, 1) = {at.objects + 4 * (1 - 1)}
      BY DEF Words
    <3> QED
      BY <1>1, <2>1, <3>1 DEF ObjectAt, Nth
  <2>2. CASE ~ObjectIsId(c)
    <3>1. Words(at.objects, 0) = {}
      BY DEF Words
    <3> QED
      BY <2>2, <3>1
  <2> QED
    BY <2>1, <2>2
<1>7. ~Replied(t, "convert") \/ ~Replied(t, "dispatch")
  BY DEF Replied
<1>8. Replied(t, "dispatch") => AnswerObject(t) = (IF ObjectIsId(c) THEN {ObjectAt(c, answer)} ELSE {}) \ {0}
  BY <1>5, <1>6, <1>7 DEF AnswerObject, InAnswer
<1> QED
  BY <1>4, <1>8

LEMMA FinishCloneOwns == ASSUME OwnInv, GuardInv, NEW t \in Threads, FinishClone(t) PROVE OwnInv'
<1>1. /\ pc[t] = "parse" /\ call[t].op = "clone" /\ Return(t, "in") /\ UNCHANGED <<srv, kept, server>>
      /\ sub' = IF Succeeded(t)
                THEN [sub EXCEPT ![t].session = Nth(tls[t], Parsed(t, 0).move_handles, 1)]
                ELSE [sub EXCEPT ![t] = NoService]
  BY DEF FinishClone, Parses
<1>2. Stores /\ Keeps(t) /\ Asks(t) /\ Hears(t) /\ sub[t] \in Services
  BY OwnAre DEF Stores
<1>3. sub[t].own_handle = 1 /\ sub[t].session = 0
  BY <1>1, <1>2 DEF Asks
<1>4. OwnHandle(t) = {} /\ OwnObject(t) = {} /\ AnswerObject(t) = {}
  BY <1>1, <1>3 DEF OwnHandle, Owns, serviceIsActive, OwnObject, AnswerObject, Replied
<1>5. /\ pc'[t] = "in" /\ DOMAIN tls' = Threads
      /\ \A u \in Threads \ {t} : pc'[u] = pc[u] /\ call'[u] = call[u] /\ tls'[u] = tls[u]
      /\ Bare(t)' /\ Asks(t)' /\ Hears(t)' /\ IsUser(t)'
  BY <1>1, ReturnMakes
<1>6. \A u \in Threads \ {t} : sub'[u] = sub[u]
  BY <1>1
<1>7. Apart(t)
  BY <1>1, <1>5, <1>6 DEF Apart
<1>8. kept' \in [Threads -> SUBSET Handles] /\ kept'[t] = kept[t]
  BY <1>1, <1>2 DEF Stores
<1>9. CASE ~Succeeded(t)
  <2>1. sub'[t] = NoService /\ sub' \in [Threads -> Services]
    BY <1>1, <1>2, <1>9 DEF Stores, NoService, Services
  <2>2. AnswerHandles(t) = {}
    BY <1>9 DEF AnswerHandles, Carries, Replied
  <2>3. OwnHandle(t)' = {} /\ OwnObject(t)' = {}
    BY <2>1 DEF OwnHandle, Owns, OwnObject, NoService
  <2>4. HandlesWith'[t] = HandlesWith[t] /\ ObjectsWith'[t] = ObjectsWith[t]
    <3>1. HandlesWith'[t] = kept[t] /\ ObjectsWith'[t] = {}
      BY <1>5, <1>8, <2>3, BareAfter
    <3> QED
      BY <1>4, <2>2, <3>1, WithAre
  <2>5. Keeps(t)'
    BY <1>5, <2>1, <2>3, BareAfter DEF Keeps, NoService
  <2> QED
    BY <1>1, <1>5, <1>7, <1>8, <2>1, <2>4, <2>5, TakesOwns
<1>10. CASE Succeeded(t)
  <2>1. PICK c, answer, at, h :
           /\ c = call[t] /\ answer = tls[t] /\ at = Parsed(t, 0) /\ h = Nth(answer, at.move_handles, 1)
    OBVIOUS
  <2>2. c.op = "clone" /\ Carries(t) /\ Laid(c, answer)
    BY <1>1, <1>2, <1>10, <2>1 DEF Carries, Replied, Hears
  <2>3. CopiesOf(c) = 0 /\ MovesOf(c) = 1 /\ ~ObjectIsHandle(c) /\ at = Answer(c, answer)
    BY <2>1, <2>2 DEF CopiesOf, MovesOf, ObjectIsHandle, Answer, Parsed
  <2>4. h = HandleAt(c, answer, 1)
    <3>1. at.copy_handles \in Nat /\ at.move_handles = at.copy_handles + 4 * 0
      BY <2>2, <2>3 DEF Laid
    <3>2. at.move_handles = at.copy_handles
      BY <3>1
    <3> QED
      BY <2>1, <2>3, <3>2 DEF HandleAt
  <2>5. h \in Handles /\ h # 0
    BY <2>2, <2>3, <2>4, HandlesAssumption DEF Laid
  <2>6. AnswerHandles(t) = {h}
    <3>1. PICK n \in Nat : n = 1 /\ n = CopiesOf(c) + MovesOf(c)
      BY <2>3
    <3>2. AnswerHandles(t) = {HandleAt(c, answer, i) : i \in 1..n} \ {0}
      BY <2>1, <2>2, <3>1, AnswerIs
    <3> QED
      BY <2>4, <2>5, <3>1, <3>2
  <2>7. /\ sub'[t] = [sub[t] EXCEPT !.session = h] /\ sub' \in [Threads -> Services]
        /\ sub'[t].session = h /\ sub'[t].own_handle = 1 /\ sub'[t].object_id = sub[t].object_id
    <3>1. sub' = [sub EXCEPT ![t].session = h]
      BY <1>1, <1>10, <2>1
    <3>2. [sub[t] EXCEPT !.session = h] \in Services
      BY <1>2, <2>5 DEF Services
    <3> QED
      BY <1>2, <1>3, <3>1, <3>2 DEF Stores, Services
  <2>8. OwnHandle(t)' = {h} /\ OwnObject(t)' = {}
    BY <2>5, <2>7 DEF OwnHandle, Owns, serviceIsActive, OwnObject
  <2>9. HandlesWith'[t] = HandlesWith[t] /\ ObjectsWith'[t] = ObjectsWith[t]
    <3>1. HandlesWith[t] = kept[t] \cup {h} /\ ObjectsWith[t] = {}
      BY <1>4, <2>6, WithAre
    <3>2. HandlesWith'[t] = {h} \cup kept[t] /\ ObjectsWith'[t] = {}
      BY <1>5, <1>8, <2>8, BareAfter
    <3> QED
      BY <3>1, <3>2
  <2>10. Keeps(t)'
    BY <1>1, <1>2, <1>3, <1>5, <1>8, <2>6, <2>7, <2>8, BareAfter DEF Keeps
  <2> QED
    BY <1>1, <1>5, <1>7, <1>8, <2>7, <2>9, <2>10, TakesOwns
<1> QED
  BY <1>9, <1>10

-----------------------------------------------------------------------------
\* The handles of a command, by their rank among those of their kind.

Ranks(cmd, n, kind) == {HandlesUpTo(cmd, i, kind) : i \in {j \in 1..n : cmd.out_handles[j] = kind}}

LEMMA RankStep ==
    ASSUME NEW cmd, NEW kind, NEW n \in Nat
    PROVE  /\ HandlesUpTo(cmd, n, kind) \in Nat
           /\ HandlesUpTo(cmd, n + 1, kind)
                = HandlesUpTo(cmd, n, kind) + (IF cmd.out_handles[n + 1] = kind THEN 1 ELSE 0)
<1> DEFINE these(m) == {i \in 1..m : cmd.out_handles[i] = kind}
<1>1. IsFiniteSet(these(n))
  <2>1. IsFiniteSet(1..n)
    BY FS_Interval
  <2> QED
    BY <2>1, FS_Subset
<1>2. Cardinality(these(n)) \in Nat
  BY <1>1, FS_CardinalityType
<1>3. n + 1 \notin these(n)
  OBVIOUS
<1>4. these(n + 1) = IF cmd.out_handles[n + 1] = kind THEN these(n) \cup {n + 1} ELSE these(n)
  <2>1. 1..n + 1 = 1..n \cup {n + 1}
    OBVIOUS
  <2> QED
    BY <2>1
<1>5. Cardinality(these(n) \cup {n + 1}) = Cardinality(these(n)) + 1
  <2> HIDE DEF these
  <2> QED
    BY <1>1, <1>3, FS_AddElement
<1>6. /\ HandlesUpTo(cmd, n, kind) = Cardinality(these(n))
      /\ HandlesUpTo(cmd, n + 1, kind) = Cardinality(these(n + 1))
  BY DEF HandlesUpTo
<1> HIDE DEF these
<1> QED
  BY <1>2, <1>4, <1>5, <1>6

LEMMA RanksAre ==
    ASSUME NEW cmd, NEW kind
    PROVE  \A n \in Nat : Ranks(cmd, n, kind) = 1..HandlesUpTo(cmd, n, kind)
<1> DEFINE S == {n \in Nat : Ranks(cmd, n, kind) = 1..HandlesUpTo(cmd, n, kind)}
<1>1. 0 \in S
  <2>1. {j \in 1..0 : cmd.out_handles[j] = kind} = {}
    OBVIOUS
  <2>2. HandlesUpTo(cmd, 0, kind) = 0
    BY <2>1, FS_EmptySet DEF HandlesUpTo
  <2>3. Ranks(cmd, 0, kind) = {}
    BY <2>1 DEF Ranks
  <2>4. Ranks(cmd, 0, kind) = 1..HandlesUpTo(cmd, 0, kind)
    <3>1. 1..0 = {}
      OBVIOUS
    <3> QED
      BY <2>2, <2>3, <3>1, Zenon
  <2> QED
    BY <2>4
<1>2. ASSUME NEW n \in Nat, n \in S PROVE n + 1 \in S
  <2>1. PICK r \in Nat : /\ r = HandlesUpTo(cmd, n, kind) /\ Ranks(cmd, n, kind) = 1..r
    BY <1>2, RankStep
  <2>2. CASE cmd.out_handles[n + 1] = kind
    <3>1. HandlesUpTo(cmd, n + 1, kind) = r + 1
      BY <2>1, <2>2, RankStep
    <3>2. {j \in 1..n + 1 : cmd.out_handles[j] = kind} = {j \in 1..n : cmd.out_handles[j] = kind} \cup {n + 1}
      BY <2>2
    <3>3. Ranks(cmd, n + 1, kind) = Ranks(cmd, n, kind) \cup {r + 1}
      <4>1. PICK some : some = {j \in 1..n : cmd.out_handles[j] = kind}
        OBVIOUS
      <4>2. Ranks(cmd, n, kind) = {HandlesUpTo(cmd, i, kind) : i \in some}
        BY <4>1, Zenon DEF Ranks
      <4>3. Ranks(cmd, n + 1, kind) = {HandlesUpTo(cmd, i, kind) : i \in some \cup {n + 1}}
        BY <3>2, <4>1, Zenon DEF Ranks
      <4> QED
        BY <3>1, <4>2, <4>3
    <3>4. 1..r + 1 = 1..r \cup {r + 1}
      OBVIOUS
    <3>5. Ranks(cmd, n + 1, kind) = 1..HandlesUpTo(cmd, n + 1, kind)
      BY <2>1, <3>1, <3>3, <3>4, Zenon
    <3> QED
      BY <3>5
  <2>3. CASE cmd.out_handles[n + 1] # kind
    <3>1. HandlesUpTo(cmd, n + 1, kind) = r
      <4>1. PICK u : u = HandlesUpTo(cmd, n + 1, kind)
        OBVIOUS
      <4>2. u = r + 0
        BY Zenon, <2>1, <2>3, <4>1, RankStep
      <4> QED
        BY <4>1, <4>2
    <3>2. {j \in 1..n + 1 : cmd.out_handles[j] = kind} = {j \in 1..n : cmd.out_handles[j] = kind}
      BY <2>3
    <3>3. Ranks(cmd, n + 1, kind) = Ranks(cmd, n, kind)
      BY <3>2, Zenon DEF Ranks
    <3> QED
      BY <2>1, <3>1, <3>3
  <2> QED
    BY <2>2, <2>3
<1> HIDE DEF S
<1>3. Nat \subseteq S
  BY <1>1, <1>2, NaturalsIn
<1> QED
  BY <1>3 DEF S

\* Of each handle a command asks for, its place among the handles of the answer.
PlaceOf(cmd, i, first) ==
    IF cmd.out_handles[i] = "Copy" THEN HandlesUpTo(cmd, i, "Copy")
    ELSE HandlesOf(cmd, "Copy") + first + HandlesUpTo(cmd, i, "Move")

LEMMA PlacesAre ==
    ASSUME NEW cmd \in DispatchParams, NEW first \in 0..1,
           NEW m \in Nat, m = HandlesOf(cmd, "Copy"), NEW k \in Nat, k = HandlesOf(cmd, "Move")
    PROVE  /\ \A i \in DOMAIN cmd.out_handles :
                 /\ PlaceOf(cmd, i, first) \in (1..m) \cup (m + first + 1..m + first + k)
                 /\ HandlesUpTo(cmd, i, cmd.out_handles[i]) \in Nat \ {0}
           /\ \A p \in (1..m) \cup (m + first + 1..m + first + k) :
                 \E i \in DOMAIN cmd.out_handles : PlaceOf(cmd, i, first) = p
<1>1. PICK n \in Nat : n = Len(cmd.out_handles) /\ DOMAIN cmd.out_handles = 1..n
  BY DEF DispatchParams, UpToEight
<1>2. \A i \in 1..n : cmd.out_handles[i] \in {"Copy", "Move"}
  <2>1. cmd.out_handles \in Seq({"Copy", "Move"})
    BY DEF DispatchParams, UpToEight
  <2> QED
    BY <1>1, <2>1
<1>3. Ranks(cmd, n, "Copy") = 1..m /\ Ranks(cmd, n, "Move") = 1..k
  BY <1>1, RanksAre DEF HandlesOf
<1>4. ASSUME NEW kind, NEW i \in 1..n, cmd.out_handles[i] = kind
      PROVE  HandlesUpTo(cmd, i, kind) \in Ranks(cmd, n, kind)
  BY <1>4 DEF Ranks
<1>5. ASSUME NEW kind, NEW r \in Ranks(cmd, n, kind)
      PROVE  \E i \in 1..n : cmd.out_handles[i] = kind /\ HandlesUpTo(cmd, i, kind) = r
  BY DEF Ranks
<1>6. ASSUME NEW i \in 1..n
      PROVE  /\ PlaceOf(cmd, i, first) \in (1..m) \cup (m + first + 1..m + first + k)
             /\ HandlesUpTo(cmd, i, cmd.out_handles[i]) \in Nat \ {0}
  <2>1. CASE cmd.out_handles[i] = "Copy"
    <3>1. HandlesUpTo(cmd, i, "Copy") \in 1..m
      BY <1>3, <1>4, <2>1
    <3> QED
      BY <2>1, <3>1 DEF PlaceOf
  <2>2. CASE cmd.out_handles[i] = "Move"
    <3>1. PICK r \in 1..k : r = HandlesUpTo(cmd, i, "Move")
      BY <1>3, <1>4, <2>2
    <3>2. PlaceOf(cmd, i, first) = m + first + r
      BY <2>2, <3>1 DEF PlaceOf
    <3> QED
      BY <2>2, <3>1, <3>2
  <2> QED
    BY <1>2, <2>1, <2>2
<1>7. ASSUME NEW p \in (1..m) \cup (m + first + 1..m + first + k)
      PROVE  \E i \in 1..n : PlaceOf(cmd, i, first) = p
  <2>1. CASE p \in 1..m
    <3>1. PICK i \in 1..n : cmd.out_handles[i] = "Copy" /\ HandlesUpTo(cmd, i, "Copy") = p
      BY <1>3, <1>5, <2>1
    <3> QED
      BY <3>1 DEF PlaceOf
  <2>2. CASE p \in m + first + 1..m + first + k
    <3>1. PICK r \in 1..k : p = m + first + r
      <4>1. p - m - first \in 1..k /\ p = m + first + (p - m - first)
        BY <2>2
      <4> QED
        BY <4>1
    <3>2. PICK i \in 1..n : cmd.out_handles[i] = "Move" /\ HandlesUpTo(cmd, i, "Move") = r
      BY <1>3, <1>5
    <3>3. PlaceOf(cmd, i, first) = p
      BY <3>1, <3>2 DEF PlaceOf
    <3> QED
      BY <3>3
  <2> QED
    BY <2>1, <2>2
<1> QED
  BY <1>1, <1>6, <1>7

\* What serviceParseResponse takes for the i-th handle of a command.
TakenFor(cmd, answer, at, first, i) ==
    IF cmd.out_handles[i] = "Copy" THEN Nth(answer, at.copy_handles, HandlesUpTo(cmd, i, "Copy"))
    ELSE Nth(answer, at.move_handles, first + HandlesUpTo(cmd, i, "Move"))
TakenAll(cmd, answer, at, first) ==
    {TakenFor(cmd, answer, at, first, i) : i \in DOMAIN cmd.out_handles}

\* The moves are read on from behind the m copies.
LEMMA NthShift ==
    ASSUME NEW answer, NEW a \in Nat, NEW m \in Nat, NEW b, b = a + 4 * m,
           NEW i \in Nat, NEW j, j = m + i
    PROVE  Nth(answer, b, i) = Nth(answer, a, j)
<1>1. b + 4 * (i - 1) = a + 4 * (j - 1)
  OBVIOUS
<1>2. PICK p, q : p = b + 4 * (i - 1) /\ q = a + 4 * (j - 1)
  OBVIOUS
<1>3. Nth(answer, b, i) = answer.memory[p] /\ Nth(answer, a, j) = answer.memory[q]
  BY <1>2 DEF Nth
<1> QED
  BY <1>1, <1>2, <1>3

\* A successful answer to the command c.cmd is parsed: v is the first move, and
\* taken the handles that are given to the caller.
Takes(c, cmd, answer, at, first, v, taken, n) ==
    /\ c.op = "dispatch" /\ cmd \in DispatchParams /\ cmd = c.cmd /\ c.is_domain \in BOOLEAN
    /\ Laid(c, answer) /\ at = Answer(c, answer) /\ n = CopiesOf(c) + MovesOf(c)
    /\ first = IF c.is_domain THEN 0 ELSE cmd.out_objects
    /\ v = Nth(answer, at.move_handles, 1) /\ taken = TakenAll(cmd, answer, at, first)

\* The object, where it is a handle, is the first move; all else is taken.
LEMMA DispatchTakes ==
    ASSUME NEW c, NEW cmd, NEW answer, NEW at, NEW first, NEW v, NEW taken, NEW n,
           Takes(c, cmd, answer, at, first, v, taken, n)
    PROVE  /\ taken \subseteq Handles
           /\ {HandleAt(c, answer, i) : i \in 1..n} \ {0}
                 = taken \cup ((IF ObjectIsHandle(c) THEN {v} ELSE {}) \ {0})
           /\ ObjectIsHandle(c) => v \in Handles \cup {0} /\ v \notin taken
<1>0. /\ c.op = "dispatch" /\ cmd \in DispatchParams /\ cmd = c.cmd /\ c.is_domain \in BOOLEAN
      /\ Laid(c, answer) /\ at = Answer(c, answer) /\ n = CopiesOf(c) + MovesOf(c)
      /\ first = IF c.is_domain THEN 0 ELSE cmd.out_objects
      /\ v = Nth(answer, at.move_handles, 1) /\ taken = TakenAll(cmd, answer, at, first)
  BY DEF Takes
<1>1. PICK m, k : m = HandlesOf(cmd, "Copy") /\ k = HandlesOf(cmd, "Move")
  OBVIOUS
<1>2. m \in Nat /\ k \in Nat
  BY <1>0, <1>1, CountIs
<1>3. /\ first \in 0..1 /\ (ObjectIsHandle(c) <=> first = 1)
  BY <1>0 DEF ObjectIsHandle, DispatchParams
<1>4. CopiesOf(c) = m /\ n = m + first + k
  <2>1. CopiesOf(c) = m /\ MovesOf(c) = k + (IF ObjectIsHandle(c) THEN 1 ELSE 0)
    BY <1>0, <1>1 DEF CopiesOf, MovesOf
  <2> QED
    BY <1>0, <1>2, <1>3, <2>1
<1>5. at.copy_handles \in Nat /\ at.move_handles = at.copy_handles + 4 * m
  BY <1>0, <1>4 DEF Laid
<1> DEFINE places == (1..m) \cup (m + first + 1..m + first + k)
<1>6. ASSUME NEW i \in DOMAIN cmd.out_handles
      PROVE  TakenFor(cmd, answer, at, first, i) = HandleAt(c, answer, PlaceOf(cmd, i, first))
  <2>1. HandlesUpTo(cmd, i, cmd.out_handles[i]) \in Nat /\ cmd.out_handles[i] \in {"Copy", "Move"}
    <3>1. HandlesUpTo(cmd, i, cmd.out_handles[i]) \in Nat
      BY <1>0, <1>1, <1>2, <1>3, PlacesAre
    <3>2. cmd.out_handles \in Seq({"Copy", "Move"})
      BY <1>0 DEF DispatchParams, UpToEight
    <3> QED
      BY <1>0, <3>1, <3>2
  <2>2. CASE cmd.out_handles[i] = "Copy"
    BY <1>0, <2>2 DEF TakenFor, PlaceOf, HandleAt
  <2>3. CASE cmd.out_handles[i] = "Move"
    <3>1. PICK r \in Nat : r = HandlesUpTo(cmd, i, "Move")
      BY <1>0, <2>1, <2>3
    <3>2. PlaceOf(cmd, i, first) = m + first + r
      BY <1>0, <1>1, <2>3, <3>1 DEF PlaceOf
    <3>3. PICK p \in Nat, j \in Nat : p = first + r /\ j = m + p /\ j = m + first + r
      BY <1>0, <1>2, <1>3
    <3>4. TakenFor(cmd, answer, at, first, i) = Nth(answer, at.move_handles, p)
      BY <1>0, <2>3, <3>1, <3>3 DEF TakenFor
    <3>5. HandleAt(c, answer, j) = Nth(answer, at.copy_handles, j)
      BY <1>0 DEF HandleAt
    <3>6. Nth(answer, at.move_handles, p) = Nth(answer, at.copy_handles, j)
      BY <1>0, <1>2, <1>5, <3>3, NthShift
    <3>7. PlaceOf(cmd, i, first) = j
      BY <1>0, <3>2, <3>3
    <3> QED
      BY <1>0, <3>4, <3>5, <3>6, <3>7
  <2> QED
    BY <1>0, <2>1, <2>2, <2>3
<1>7. taken = {HandleAt(c, answer, p) : p \in places}
  <2>1. /\ \A i \in DOMAIN cmd.out_handles : PlaceOf(cmd, i, first) \in places
        /\ \A p \in places : \E i \in DOMAIN cmd.out_handles : PlaceOf(cmd, i, first) = p
    BY <1>0, <1>1, <1>2, <1>3, PlacesAre
  <2> HIDE DEF places
  <2>2. ASSUME NEW x \in taken PROVE \E p \in places : x = HandleAt(c, answer, p)
    BY <1>0, <1>6, <2>1 DEF TakenAll
  <2>3. ASSUME NEW p \in places PROVE HandleAt(c, answer, p) \in taken
    <3>1. PICK i \in DOMAIN cmd.out_handles : PlaceOf(cmd, i, first) = p
      BY <1>0, <2>1
    <3>2. TakenFor(cmd, answer, at, first, i) = HandleAt(c, answer, p)
      BY <1>0, <1>6, <3>1
    <3> QED
      BY <1>0, <3>2 DEF TakenAll
  <2> QED
    BY <1>0, <2>2, <2>3
<1>8. /\ \A i \in 1..n : \/ HandleAt(c, answer, i) \in Handles
                         \/ HandleAt(c, answer, i) = 0 /\ ObjectIsHandle(c) /\ i = m + 1
      /\ \A i, j \in 1..n : HandleAt(c, answer, i) = HandleAt(c, answer, j) => i = j
  BY <1>0, <1>4 DEF Laid
<1>9. 0 \notin Handles
  BY HandlesAssumption
<1>10. \A p \in places : p \in 1..n /\ (first = 1 => p # m + 1)
  BY <1>0, <1>2, <1>3, <1>4
<1>11. \A p \in places : HandleAt(c, answer, p) \in Handles
  <2> HIDE DEF places
  <2> QED
    BY <1>0, <1>3, <1>8, <1>10
<1>12. taken \subseteq Handles
  <2> HIDE DEF places
  <2> QED
    BY <1>0, <1>7, <1>11
<1>13. CASE ObjectIsHandle(c)
  <2>1. first = 1 /\ n = m + 1 + k /\ m + 1 \in 1..n
    BY <1>0, <1>2, <1>3, <1>4, <1>13
  <2>2. v = HandleAt(c, answer, m + 1)
    <3>1. PICK i \in Nat, j \in Nat : i = 1 /\ j = m + i
      BY <1>0, <1>2
    <3>2. Nth(answer, at.move_handles, i) = Nth(answer, at.copy_handles, j)
      BY <1>0, <1>2, <1>5, <3>1, NthShift
    <3> QED
      BY <1>0, <3>1, <3>2 DEF HandleAt
  <2>3. \A p \in 1..n : p \in places \/ p = m + 1
    BY <1>0, <1>2, <2>1
  <2> HIDE DEF places
  <2>4. v \in Handles \cup {0} /\ v \notin taken
    BY <1>0, <1>7, <1>8, <1>10, <2>1, <2>2
  <2>5. {HandleAt(c, answer, i) : i \in 1..n} = taken \cup {v}
    BY <1>0, <1>7, <1>10, <2>1, <2>2, <2>3
  <2> QED
    BY <1>0, <1>9, <1>12, <1>13, <2>4, <2>5
<1>14. CASE ~ObjectIsHandle(c)
  <2>1. first = 0
    BY <1>0, <1>3, <1>14
  <2>2. 1..n = places
    BY <1>0, <1>2, <1>4, <2>1
  <2> HIDE DEF places
  <2>3. {HandleAt(c, answer, i) : i \in 1..n} = taken
    BY <1>0, <1>7, <2>2
  <2> QED
    BY <1>0, <1>9, <1>12, <1>14, <2>3
<1> QED
  BY <1>0, <1>12, <1>13, <1>14

LEMMA DispatchFailedOwns ==
    ASSUME OwnInv, GuardInv, NEW t \in Threads, FinishDispatch(t), ~Succeeded(t) PROVE OwnInv'
<1>1. pc[t] = "parse" /\ call[t].op = "dispatch" /\ Return(t, "in") /\ UNCHANGED <<srv, sub, kept, server>>
  BY DEF FinishDispatch, Parses
<1>2. /\ pc'[t] = "in" /\ DOMAIN tls' = Threads
      /\ \A u \in Threads \ {t} : pc'[u] = pc[u] /\ call'[u] = call[u] /\ tls'[u] = tls[u]
      /\ Bare(t)' /\ Asks(t)' /\ Hears(t)' /\ IsUser(t)'
  BY <1>1, ReturnMakes
<1>3. Apart(t)
  BY <1>1, <1>2 DEF Apart
<1>4. Bare(t)
  BY <1>1 DEF Bare, Carries, Replied, Gone
<1> QED
  BY <1>1, <1>2, <1>3, <1>4, QuietOwns

\* The thread's own service s after a command, given what object it got.
BecomesOf(s, parent, domain, v) ==
    /\ domain => /\ s.own_handle = 0 /\ s.object_id = v
                 /\ v = 0 => s = NoService
                 /\ v # 0 => s.session = parent.session
    /\ ~domain => /\ s.object_id = 0
                  /\ v = 0 => s = NoService
                  /\ v # 0 => s.own_handle = 1 /\ s.session = v

LEMMA SubserviceIs ==
    ASSUME NEW parent \in Services, NEW domain \in BOOLEAN, NEW v,
           domain => v \in ObjectIds \cup {0}, ~domain => v \in Handles \cup {0},
           NEW s, s = Subservice(parent, domain, v)
    PROVE  s \in Services /\ BecomesOf(s, parent, domain, v)
<1> USE DEF BecomesOf
<1>1. NoService \in Services
  BY DEF NoService, Services
<1>2. CASE v = 0
  BY <1>1, <1>2 DEF Subservice, NoService
<1>3. CASE v # 0 /\ domain
  <2>1. s = [parent EXCEPT !.own_handle = 0, !.object_id = v]
    BY <1>3 DEF Subservice
  <2>2. s = [session |-> parent.session, own_handle |-> 0, object_id |-> v,
             pointer_buffer_size |-> parent.pointer_buffer_size]
    BY <2>1 DEF Services
  <2>3. /\ v \in ObjectIds \cup {0} /\ 0 \in 0..1 /\ parent.session \in Handles \cup {0}
        /\ parent.pointer_buffer_size \in PointerSizes \cup {0}
    BY <1>3 DEF Services
  <2>4. s \in Services
    BY <2>2, <2>3 DEF Services
  <2>5. s.own_handle = 0 /\ s.object_id = v /\ s.session = parent.session
    BY <2>2
  <2> QED
    BY <1>3, <2>4, <2>5
<1>4. CASE v # 0 /\ ~domain
  <2>1. s = [session |-> v, own_handle |-> 1, object_id |-> 0,
             pointer_buffer_size |-> parent.pointer_buffer_size]
    BY <1>4 DEF Subservice
  <2>2. 1 \in 0..1 /\ 0 \in ObjectIds \cup {0}
    OBVIOUS
  <2>3. v \in Handles \cup {0} /\ parent.pointer_buffer_size \in PointerSizes \cup {0}
    BY <1>4 DEF Services
  <2>4. s \in Services
    BY <2>1, <2>2, <2>3 DEF Services
  <2>5. s.object_id = 0 /\ s.own_handle = 1 /\ s.session = v
    BY <2>1
  <2> QED
    BY <1>4, <2>4, <2>5
<1> QED
  BY <1>2, <1>3, <1>4

LEMMA DispatchGivesOwns ==
    ASSUME OwnInv, GuardInv, NEW t \in Threads, FinishDispatch(t), Succeeded(t) PROVE OwnInv'
<1>1. PICK c, cmd, answer, domain : c = call[t] /\ cmd = c.cmd /\ answer = tls[t] /\ domain = c.is_domain
  OBVIOUS
<1>2. PICK at, first : at = Parsed(t, cmd.out_size) /\ first = IF domain THEN 0 ELSE cmd.out_objects
  OBVIOUS
<1>3. PICK v, taken : /\ v = IF domain THEN Nth(answer, at.objects, 1) ELSE Nth(answer, at.move_handles, 1)
                      /\ taken = TakenAll(cmd, answer, at, first)
  OBVIOUS
<1>4. /\ pc[t] = "parse" /\ c.op = "dispatch" /\ Return(t, "in") /\ UNCHANGED <<srv, server>>
      /\ sub' = IF cmd.out_objects = 0 THEN sub
                ELSE [sub EXCEPT ![t] = Subservice(Target(t), domain, v)]
  BY <1>1, <1>2, <1>3, Zenon DEF FinishDispatch, Parses
<1>5. kept' = [kept EXCEPT ![t] = @ \cup taken]
  <2>1. kept' = [kept EXCEPT ![t] = @ \cup
                    TakenAll(call[t].cmd, tls[t], Parsed(t, call[t].cmd.out_size),
                             IF call[t].is_domain THEN 0 ELSE call[t].cmd.out_objects)]
    BY Zenon DEF FinishDispatch, TakenAll, TakenFor
  <2> QED
    BY <1>1, <1>2, <1>3, <2>1, Zenon
<1>6. Stores /\ Keeps(t) /\ Asks(t) /\ Hears(t) /\ Guarded /\ sub[t] \in Services /\ kept[t] \subseteq Handles
  BY OwnAre DEF Stores
<1>7. /\ cmd \in DispatchParams /\ domain = (Target(t).object_id # 0) /\ domain \in BOOLEAN
      /\ cmd.out_objects > 0 => sub[t] = NoService /\ Target(t) = srv
  BY <1>1, <1>4, <1>6 DEF Asks, Target
<1>8. cmd.out_objects \in {0, 1}
  BY <1>7 DEF DispatchParams
<1>9. /\ pc'[t] = "in" /\ DOMAIN tls' = Threads
      /\ \A u \in Threads \ {t} : pc'[u] = pc[u] /\ call'[u] = call[u] /\ tls'[u] = tls[u]
      /\ Bare(t)' /\ Asks(t)' /\ Hears(t)' /\ IsUser(t)'
  BY <1>4, ReturnMakes
<1>10. Replied(t, "dispatch") /\ Carries(t) /\ Laid(c, answer) /\ ~Gone(t)
  BY <1>1, <1>4, <1>6 DEF Carries, Replied, Hears, Gone
<1>11. at = Answer(c, answer)
  BY <1>1, <1>2, <1>4 DEF Answer, Parsed
<1>12. /\ ObjectIsHandle(c) <=> cmd.out_objects > 0 /\ ~domain
       /\ ObjectIsId(c) <=> cmd.out_objects > 0 /\ domain
  BY <1>1, <1>4 DEF ObjectIsHandle, ObjectIsId
<1>13. PICK own, brought : /\ own = (IF ObjectIsHandle(c) THEN {v} ELSE {}) \ {0}
                           /\ brought = (IF ObjectIsId(c) THEN {v} ELSE {}) \ {0}
  OBVIOUS
<1>14. /\ taken \subseteq Handles /\ AnswerHandles(t) = taken \cup own /\ taken \cap own = {}
       /\ ObjectIsHandle(c) => v \in Handles \cup {0}
  <2>1. PICK n, w : n = CopiesOf(c) + MovesOf(c) /\ w = Nth(answer, at.move_handles, 1)
    OBVIOUS
  <2>2. /\ taken \subseteq Handles
        /\ {HandleAt(c, answer, i) : i \in 1..n} \ {0}
              = taken \cup ((IF ObjectIsHandle(c) THEN {w} ELSE {}) \ {0})
        /\ ObjectIsHandle(c) => w \in Handles \cup {0} /\ w \notin taken
    <3>1. Takes(c, cmd, answer, at, first, w, taken, n)
      BY <1>1, <1>2, <1>3, <1>4, <1>7, <1>10, <1>11, <2>1 DEF Takes
    <3> QED
      BY <3>1, DispatchTakes
  <2>3. ObjectIsHandle(c) => v = w
    BY <1>3, <1>12, <2>1
  <2>4. AnswerHandles(t) = {HandleAt(c, answer, i) : i \in 1..n} \ {0}
    BY <1>1, <1>10, <2>1, AnswerIs
  <2>5. own = (IF ObjectIsHandle(c) THEN {w} ELSE {}) \ {0}
    BY <1>13, <2>3
  <2> QED
    BY <2>2, <2>3, <2>4, <2>5
<1>15. AnswerObject(t) = brought /\ (ObjectIsId(c) => v \in ObjectIds \cup {0})
  <2>1. PICK n : n = CopiesOf(c) + MovesOf(c)
    OBVIOUS
  <2>2. AnswerObject(t) = (IF ObjectIsId(c) THEN {ObjectAt(c, answer)} ELSE {}) \ {0}
    BY <1>1, <1>10, <2>1, AnswerIs
  <2>3. ObjectIsId(c) => v = ObjectAt(c, answer)
    BY <1>3, <1>11, <1>12 DEF ObjectAt
  <2>4. ObjectIsId(c) => ObjectAt(c, answer) \in ObjectIds \cup {0}
    BY <1>10 DEF Laid
  <2> QED
    BY <1>13, <2>2, <2>3, <2>4
<1>16. PICK s : s = Subservice(srv, domain, v)
  OBVIOUS
<1>17. /\ sub'[t] = (IF cmd.out_objects > 0 THEN s ELSE sub[t]) /\ \A u \in Threads \ {t} : sub'[u] = sub[u]
       /\ kept'[t] = kept[t] \cup taken /\ kept' \in [Threads -> SUBSET Handles]
       /\ \A u \in Threads \ {t} : kept'[u] = kept[u]
  BY <1>4, <1>5, <1>6, <1>7, <1>8, <1>14, <1>16 DEF Stores
<1>18. Apart(t)
  BY <1>9, <1>17 DEF Apart
<1>19. cmd.out_objects > 0 =>
          /\ s \in Services /\ BecomesOf(s, srv, domain, v)
          /\ sub[t] = NoService /\ (domain => srv.object_id # 0)
  <2>1. ASSUME cmd.out_objects > 0 PROVE s \in Services /\ BecomesOf(s, srv, domain, v)
    <3>1. srv \in Services /\ (domain => v \in ObjectIds \cup {0}) /\ (~domain => v \in Handles \cup {0})
      BY <1>6, <1>12, <1>14, <1>15, <2>1 DEF Guarded
    <3> QED
      BY <1>7, <1>16, <3>1, SubserviceIs
  <2> QED
    BY <1>7, <2>1
<1>20. sub' \in [Threads -> Services]
  <2>1. CASE cmd.out_objects = 0
    BY <1>4, <1>6, <2>1 DEF Stores
  <2>2. CASE cmd.out_objects > 0
    <3>1. Subservice(Target(t), domain, v) = s
      BY <1>7, <1>16, <2>2
    <3>2. sub' = [sub EXCEPT ![t] = s]
      BY <1>4, <2>2, <3>1
    <3> QED
      BY <1>6, <1>19, <2>2, <3>2 DEF Stores
  <2> QED
    BY <1>8, <2>1, <2>2
<1>21. OwnHandle(t)' = OwnHandle(t) \cup own /\ OwnObject(t)' = OwnObject(t) \cup brought
  <2>1. CASE cmd.out_objects = 0
    <3>1. own = {} /\ brought = {} /\ sub'[t] = sub[t]
      BY <1>12, <1>13, <1>17, <2>1
    <3>2. ~Gone(t)'
      BY <1>9 DEF Bare
    <3> QED
      BY <1>10, <3>1, <3>2 DEF OwnHandle, Owns, OwnObject
  <2>2. CASE cmd.out_objects > 0
    <3>1. OwnHandle(t) = {} /\ OwnObject(t) = {}
      BY <1>19, <2>2 DEF OwnHandle, Owns, OwnObject, NoService
    <3>2. OwnHandle(t)' = IF s.own_handle = 1 /\ s.session # 0 THEN {s.session} ELSE {}
      BY <1>17, <2>2 DEF OwnHandle, Owns, serviceIsActive
    <3>3. OwnObject(t)' = IF s.own_handle = 0 THEN {s.object_id} \ {0} ELSE {}
      BY <1>9, <1>17, <2>2, BareAfter
    <3>4. CASE domain
      <4>1. own = {} /\ brought = {v} \ {0}
        BY <1>12, <1>13, <2>2, <3>4
      <4> QED
        BY <1>19, <2>2, <3>1, <3>2, <3>3, <3>4, <4>1 DEF BecomesOf, NoService
    <3>5. CASE ~domain
      <4>1. own = {v} \ {0} /\ brought = {}
        BY <1>12, <1>13, <2>2, <3>5
      <4> QED
        BY <1>19, <2>2, <3>1, <3>2, <3>3, <3>5, <4>1 DEF BecomesOf, NoService
    <3> QED
      BY <1>7, <3>4, <3>5
  <2> QED
    BY <1>8, <2>1, <2>2
<1>22. HandlesWith'[t] = HandlesWith[t] /\ ObjectsWith'[t] = ObjectsWith[t]
  <2>1. HandlesWith[t] = OwnHandle(t) \cup kept[t] \cup (taken \cup own)
        /\ ObjectsWith[t] = OwnObject(t) \cup brought
    BY <1>14, <1>15, WithAre
  <2>2. HandlesWith'[t] = (OwnHandle(t) \cup own) \cup (kept[t] \cup taken)
        /\ ObjectsWith'[t] = OwnObject(t) \cup brought
    BY <1>9, <1>17, <1>21, BareAfter
  <2> QED
    BY <2>1, <2>2
<1>23. Keeps(t)'
  <2>1. /\ OwnHandle(t) \cap kept[t] = {} /\ (taken \cup own) \cap (OwnHandle(t) \cup kept[t]) = {}
    BY <1>6, <1>14 DEF Keeps
  <2>2. OwnHandle(t)' \cap kept'[t] = {} /\ AnswerHandles(t)' = {}
    BY <1>9, <1>14, <1>17, <1>21, <2>1, BareAfter
  <2>3. /\ sub'[t].own_handle = 0 =>
              \/ sub'[t] = NoService
              \/ sub'[t].session = srv.session /\ sub'[t].object_id # 0 /\ srv.object_id # 0
        /\ sub'[t].own_handle = 1 => sub'[t].object_id \in {0, srv.object_id}
    <3>1. CASE cmd.out_objects = 0
      <4>1. sub'[t] = sub[t]
        BY <1>17, <3>1
      <4> QED
        BY <1>6, <4>1 DEF Keeps
    <3>2. CASE cmd.out_objects > 0
      <4>1. sub'[t] = s
        BY <1>17, <3>2
      <4>2. CASE domain
        BY <1>19, <3>2, <4>1, <4>2 DEF BecomesOf
      <4>3. CASE ~domain
        BY <1>19, <3>2, <4>1, <4>3 DEF BecomesOf, NoService
      <4> QED
        BY <1>7, <4>2, <4>3
    <3> QED
      BY <1>8, <3>1, <3>2
  <2> QED
    BY <1>4, <1>9, <2>2, <2>3 DEF Keeps
<1> QED
  BY <1>4, <1>9, <1>17, <1>18, <1>20, <1>22, <1>23, TakesOwns

-----------------------------------------------------------------------------
LEMMA OwnStutters == ASSUME OwnInv, UNCHANGED vars PROVE OwnInv'
<1>1. UNCHANGED <<owner, refCount, srv, sub, kept, pc, call, tls, open, objects>>
  BY DEF vars, guard, threads, server
<1>2. Stores /\ Guarded
  BY OwnAre
<1>3. Stores' /\ Guarded'
  BY <1>1, <1>2 DEF Stores, Guarded, Active
<1>4. ASSUME NEW u \in Threads
      PROVE  /\ Keeps(u)' /\ Asks(u)' /\ Hears(u)'
             /\ HandlesWith'[u] = HandlesWith[u] /\ ObjectsWith'[u] = ObjectsWith[u]
  <2>1. Keeps(u) /\ Asks(u) /\ Hears(u)
    BY OwnAre
  <2>2. /\ (Carries(u)' <=> Carries(u)) /\ (Gone(u)' <=> Gone(u)) /\ (IsUser(u)' <=> IsUser(u))
        /\ \A op : Replied(u, op)' <=> Replied(u, op)
    BY <1>1 DEF Carries, Replied, Succeeded, Gone, IsUser
  <2>3. OwnHandle(u)' = OwnHandle(u) /\ OwnObject(u)' = OwnObject(u)
    BY <1>1, <2>2 DEF OwnHandle, Owns, OwnObject
  <2>4. AnswerHandles(u)' = AnswerHandles(u) /\ AnswerObject(u)' = AnswerObject(u)
    BY <1>1, <2>2 DEF AnswerHandles, AnswerObject, InAnswer, HandlePlaces, ObjectPlaces
  <2>5. Keeps(u)'
    BY <1>1, <2>1, <2>2, <2>3, <2>4 DEF Keeps
  <2>6. Asks(u)'
    <3>1. Target(u)' = Target(u)
      BY <1>1 DEF Target
    <3> QED
      BY <1>1, <2>1, <3>1 DEF Asks
  <2>7. Hears(u)'
    BY <1>1, <2>1, <2>2 DEF Hears, Succeeded
  <2>8. HandlesWith'[u] = HandlesWith[u] /\ ObjectsWith'[u] = ObjectsWith[u]
    BY <1>1, <2>3, <2>4, WithAre, WithAfter
  <2> QED
    BY <2>5, <2>6, <2>7, <2>8
<1>5. SharedOut(DOMAIN open, SessionOf(srv), HandlesWith') /\ SharedOut(objects, ObjectOf(srv), ObjectsWith')
  <2>1. PICK all : all = DOMAIN open
    OBVIOUS
  <2>2. SharedOut(all, SessionOf(srv), HandlesWith) /\ SharedOut(objects, ObjectOf(srv), ObjectsWith)
    BY <2>1, OwnAre
  <2>3. SharedOut(all, SessionOf(srv), HandlesWith') /\ SharedOut(objects, ObjectOf(srv), ObjectsWith')
    BY <1>4, <2>2, SharedSame
  <2> QED
    BY <2>1, <2>3
<1>6. /\ DOMAIN open' = DOMAIN open /\ objects' = objects
      /\ SessionOf(srv)' = SessionOf(srv) /\ ObjectOf(srv)' = ObjectOf(srv)
  BY <1>1 DEF SessionOf, ObjectOf
<1>7. SharedOut(DOMAIN open', SessionOf(srv)', HandlesWith') /\ SharedOut(objects', ObjectOf(srv)', ObjectsWith')
  BY <1>5, <1>6
<1> QED
  BY <1>3, <1>4, <1>7 DEF OwnInv

LEMMA OwnNext == OwnInv /\ GuardInv /\ [Next]_vars => OwnInv'
<1> SUFFICES ASSUME OwnInv, GuardInv, [Next]_vars PROVE OwnInv'
  OBVIOUS
<1>1. ASSUME NEW t \in Threads, Locks(t) PROVE OwnInv'
  BY <1>1, MovesOwn, ExitOwns DEF Locks
<1>2. ASSUME NEW t \in Threads, Runs(t) PROVE OwnInv'
  <2>1. CASE FinishClose(t)
    <3>1. call[t].slot \in {"srv", "sub"}
      BY <2>1 DEF FinishClose, Parses, GuardInv, Shape, Calling, Requests
    <3> QED
      BY <2>1, <3>1, CloseLastOwns, CloseOwnOwns
  <2>2. CASE FinishDispatch(t)
    BY <2>2, DispatchFailedOwns, DispatchGivesOwns
  <2> QED
    BY <1>2, <2>1, <2>2, MovesOwn, CreateOwns, EndInitOwns, SendOwns, FinishQueryOwns,
       FinishConvertOwns, FinishCloneOwns DEF Runs
<1>3. ASSUME NEW t \in Threads, Serves(t) PROVE OwnInv'
  BY <1>3, RefuseOwns, ServeQueryOwns, ServeConvertOwns, ServeCloneOwns, ServeDispatchOwns,
     ServeCloseOwns DEF Serves
<1>4. ASSUME NEW t \in Threads, Calls(t) PROVE OwnInv'
  BY <1>4, MovesOwn, CloneOwns, CloseSubOwns, CloseKeptOwns, DispatchOwns DEF Calls
<1> QED
  BY <1>1, <1>2, <1>3, <1>4, OwnStutters DEF Next

\* The two invariants together are inductive.
LEMMA OwnAlways == Spec => [](OwnInv /\ GuardInv)
<1>1. Init => OwnInv /\ GuardInv
  BY OwnInit, GuardInit
<1>2. OwnInv /\ GuardInv /\ [Next]_vars => (OwnInv /\ GuardInv)'
  BY OwnNext, GuardNext
<1> QED
  BY <1>1, <1>2, PTL DEF Spec

-----------------------------------------------------------------------------
\* The holders of handles.

SrvHolders == {Holder("srv", NoThread, 0, h) : h \in IF Owns(srv) THEN {srv.session} ELSE {}}
SubHolders == {Holder("sub", t, 0, sub[t].session) : t \in {u \in Threads : Owns(sub[u])}}
KeptHolders == UNION {{Holder("kept", t, 0, h) : h \in kept[t]} : t \in Threads}
ReplyHolders ==
    UNION {{Holder("reply", t, p, tls[t].memory[p]) : p \in HandlePlaces(t)} :
              t \in {u \in Threads : Replied(u, "clone") \/ Replied(u, "dispatch")}}

LEMMA HandleHoldersAre ==
    \A x : x \in HandleHolders <=>
              (x \in SrvHolders \/ x \in SubHolders \/ x \in KeptHolders \/ x \in ReplyHolders)
<1>1. HandleHolders = SrvHolders \cup SubHolders \cup KeptHolders \cup ReplyHolders
  BY DEF HandleHolders, SrvHolders, SubHolders, KeptHolders, ReplyHolders
<1> QED
  BY <1>1

LEMMA HolderIs ==
    ASSUME NEW kind, NEW t, NEW p, NEW v, NEW x, x = Holder(kind, t, p, v)
    PROVE  x.kind = kind /\ x.thread = t /\ x.place = p /\ x.value = v
BY DEF Holder

\* x holds the handle v, in terms of who has what.
SrvHolds(x, v) == x = Holder("srv", NoThread, 0, v) /\ v \in SessionOf(srv)
SubHolds(x, v, u) == x = Holder("sub", u, 0, v) /\ v \in OwnHandle(u)
KeptHolds(x, v, u) == x = Holder("kept", u, 0, v) /\ v \in kept[u]
ReplyHolds(x, v, u, p) ==
    Carries(u) /\ p \in HandlePlaces(u) /\ x = Holder("reply", u, p, v) /\ v = tls[u].memory[p]
ThreadHolds(x, v, u) ==
    SubHolds(x, v, u) \/ KeptHolds(x, v, u) \/ \E p \in HandlePlaces(u) : ReplyHolds(x, v, u, p)
HoldsHandle(x, v) == SrvHolds(x, v) \/ \E u \in Threads : ThreadHolds(x, v, u)

LEMMA HandleHeld ==
    ASSUME NEW x \in HandleHolders, x.value # 0
    PROVE  HoldsHandle(x, x.value)
<1>1. CASE x \in SrvHolders
  <2>1. PICK h : x = Holder("srv", NoThread, 0, h) /\ h = srv.session
    BY <1>1 DEF SrvHolders
  <2>2. x.value = h
    BY <2>1, HolderIs
  <2> QED
    BY <2>1, <2>2 DEF HoldsHandle, SrvHolds, SessionOf
<1>2. CASE x \in SubHolders
  <2>1. PICK u \in Threads : x = Holder("sub", u, 0, sub[u].session) /\ Owns(sub[u])
    BY <1>2 DEF SubHolders
  <2>2. x.value = sub[u].session
    BY <2>1, HolderIs
  <2> QED
    BY <2>1, <2>2 DEF HoldsHandle, ThreadHolds, SubHolds, OwnHandle
<1>3. CASE x \in KeptHolders
  <2>1. PICK u \in Threads : \E h \in kept[u] : x = Holder("kept", u, 0, h)
    BY <1>3 DEF KeptHolders
  <2>2. PICK h \in kept[u] : x = Holder("kept", u, 0, h)
    BY <2>1
  <2>3. x.value = h
    BY <2>2, HolderIs
  <2> QED
    BY <2>1, <2>2, <2>3 DEF HoldsHandle, ThreadHolds, KeptHolds
<1>4. CASE x \in ReplyHolders
  <2>1. PICK u \in Threads : /\ Replied(u, "clone") \/ Replied(u, "dispatch")
                             /\ \E p \in HandlePlaces(u) : x = Holder("reply", u, p, tls[u].memory[p])
    BY <1>4, Zenon DEF ReplyHolders
  <2>2. PICK p \in HandlePlaces(u) : x = Holder("reply", u, p, tls[u].memory[p])
    BY <2>1
  <2>3. x.value = tls[u].memory[p]
    BY <2>2, HolderIs
  <2> QED
    BY <2>1, <2>2, <2>3 DEF HoldsHandle, ThreadHolds, ReplyHolds, Carries
<1> QED
  BY <1>1, <1>2, <1>3, <1>4, HandleHoldersAre

\* A handle that one of them has is held.
LEMMA HeldBySrv ==
    ASSUME OwnInv, NEW v \in SessionOf(srv)
    PROVE  \E x \in HandleHolders : x.value = v
<1>1. v = srv.session /\ Owns(srv)
  <2>1. Guarded
    BY OwnAre
  <2> QED
    BY <2>1 DEF SessionOf, Owns, Guarded, Active, serviceIsActive, NoService
<1>2. PICK x : x = Holder("srv", NoThread, 0, v)
  OBVIOUS
<1>3. x \in SrvHolders
  BY <1>1, <1>2 DEF SrvHolders
<1>4. x.value = v
  BY <1>2, HolderIs
<1> QED
  BY <1>3, <1>4, HandleHoldersAre

LEMMA HeldByThread ==
    ASSUME NEW u \in Threads, NEW v \in HandlesWith[u]
    PROVE  \E x \in HandleHolders : x.value = v
<1>0. v \in OwnHandle(u) \/ v \in kept[u] \/ v \in AnswerHandles(u)
  BY WithAre
<1>1. CASE v \in OwnHandle(u)
  <2>1. v = sub[u].session /\ Owns(sub[u])
    BY <1>1 DEF OwnHandle
  <2>2. PICK x : x = Holder("sub", u, 0, sub[u].session)
    OBVIOUS
  <2>3. x \in SubHolders
    BY <2>1, <2>2, Zenon DEF SubHolders
  <2>4. x.value = v
    BY <2>1, <2>2, HolderIs
  <2> QED
    BY <2>3, <2>4, HandleHoldersAre
<1>2. CASE v \in kept[u]
  <2>2. PICK x : x = Holder("kept", u, 0, v)
    OBVIOUS
  <2>3. x \in KeptHolders
    <3>1. x \in {Holder("kept", u, 0, h) : h \in kept[u]}
      BY <1>2, <2>2, Zenon
    <3> QED
      BY <3>1, Zenon DEF KeptHolders
  <2>4. x.value = v
    BY <2>2, HolderIs
  <2> QED
    BY <2>3, <2>4, HandleHoldersAre
<1>3. CASE v \in AnswerHandles(u)
  <2>1. Replied(u, "clone") \/ Replied(u, "dispatch")
    BY <1>3 DEF AnswerHandles, Carries
  <2>2. PICK p \in HandlePlaces(u) : v = tls[u].memory[p]
    BY <1>3 DEF AnswerHandles, InAnswer
  <2>3. PICK x : x = Holder("reply", u, p, tls[u].memory[p])
    OBVIOUS
  <2>4. x \in ReplyHolders
    <3>1. x \in {Holder("reply", u, p2, tls[u].memory[p2]) : p2 \in HandlePlaces(u)}
      BY <2>2, <2>3, Zenon
    <3>2. u \in {w \in Threads : Replied(w, "clone") \/ Replied(w, "dispatch")}
      BY <2>1, Zenon
    <3> QED
      BY <3>1, <3>2, Zenon DEF ReplyHolders
  <2>5. x.value = v
    BY <2>2, <2>3, HolderIs
  <2> QED
    BY <2>4, <2>5, HandleHoldersAre
<1> QED
  BY <1>0, <1>1, <1>2, <1>3

\* An answer has a handle at one place only.
LEMMA OncePlaced ==
    ASSUME OwnInv, NEW u \in Threads, Carries(u), NEW p \in HandlePlaces(u),
           NEW q \in HandlePlaces(u), tls[u].memory[p] = tls[u].memory[q]
    PROVE  p = q
<1>1. Laid(call[u], tls[u])
  BY OwnAre DEF Hears
<1>2. PICK n, from : n = CopiesOf(call[u]) + MovesOf(call[u])
                     /\ from = Answer(call[u], tls[u]).copy_handles
  OBVIOUS
<1>3. /\ HandlePlaces(u) = Words(from, n)
      /\ \A i, j \in 1..n : HandleAt(call[u], tls[u], i) = HandleAt(call[u], tls[u], j) => i = j
  BY <1>1, <1>2 DEF Laid, HandlePlaces
<1>4. PICK i \in 1..n : p = from + 4 * (i - 1)
  BY <1>3 DEF Words
<1>5. PICK j \in 1..n : q = from + 4 * (j - 1)
  BY <1>3 DEF Words
<1>6. HandleAt(call[u], tls[u], i) = tls[u].memory[p] /\ HandleAt(call[u], tls[u], j) = tls[u].memory[q]
  BY <1>2, <1>4, <1>5 DEF HandleAt, Nth
<1>7. i = j
  BY <1>3, <1>6
<1> QED
  BY <1>4, <1>5, <1>7

LEMMA ThreadHas ==
    ASSUME NEW u \in Threads, NEW x, NEW v, v # 0, ThreadHolds(x, v, u)
    PROVE  v \in HandlesWith[u]
<1>1. v \in OwnHandle(u) \/ v \in kept[u] \/ v \in AnswerHandles(u)
  BY DEF ThreadHolds, SubHolds, KeptHolds, ReplyHolds, AnswerHandles, InAnswer
<1> QED
  BY <1>1, WithAre

\* What one thread holds it holds once.
LEMMA ThreadOnce ==
    ASSUME OwnInv, NEW u \in Threads, NEW v, v # 0,
           NEW x, ThreadHolds(x, v, u), NEW y, ThreadHolds(y, v, u)
    PROVE  x = y
<1>1. Keeps(u)
  BY OwnAre
<1>2. ASSUME NEW z, ThreadHolds(z, v, u)
      PROVE  \/ SubHolds(z, v, u) /\ v \in OwnHandle(u)
             \/ KeptHolds(z, v, u) /\ v \in kept[u]
             \/ v \in AnswerHandles(u) /\ \E p \in HandlePlaces(u) : ReplyHolds(z, v, u, p)
  BY <1>2 DEF ThreadHolds, SubHolds, KeptHolds, ReplyHolds, AnswerHandles, InAnswer
<1>3. /\ v \in OwnHandle(u) => v \notin kept[u] /\ v \notin AnswerHandles(u)
      /\ v \in kept[u] => v \notin AnswerHandles(u)
  BY <1>1 DEF Keeps
<1>4. CASE v \in OwnHandle(u)
  <2>1. SubHolds(x, v, u) /\ SubHolds(y, v, u)
    BY <1>2, <1>3, <1>4
  <2> QED
    BY <2>1 DEF SubHolds
<1>5. CASE v \in kept[u]
  <2>1. KeptHolds(x, v, u) /\ KeptHolds(y, v, u)
    BY <1>2, <1>3, <1>5
  <2> QED
    BY <2>1 DEF KeptHolds
<1>6. CASE v \in AnswerHandles(u)
  <2>1. PICK p \in HandlePlaces(u) : ReplyHolds(x, v, u, p)
    BY <1>2, <1>3, <1>6
  <2>2. PICK q \in HandlePlaces(u) : ReplyHolds(y, v, u, q)
    BY <1>2, <1>3, <1>6
  <2>3. p = q
    BY <2>1, <2>2, OncePlaced DEF ReplyHolds
  <2> QED
    BY <2>1, <2>2, <2>3 DEF ReplyHolds
<1> QED
  BY <1>2, <1>4, <1>5, <1>6

LEMMA HandlesOnce ==
    ASSUME OwnInv, NEW x \in HandleHolders, NEW y \in HandleHolders, x.value # 0, x.value = y.value
    PROVE  x = y
<1>1. PICK v : v = x.value /\ v = y.value /\ v # 0
  OBVIOUS
<1>2. HoldsHandle(x, v) /\ HoldsHandle(y, v)
  BY <1>1, HandleHeld
<1>3. /\ \A u \in Threads : v \in SessionOf(srv) => v \notin HandlesWith[u]
      /\ \A u, w \in Threads : v \in HandlesWith[u] /\ v \in HandlesWith[w] => u = w
  BY OwnAre DEF SharedOut
<1>4. CASE v \in SessionOf(srv)
  <2>1. SrvHolds(x, v) /\ SrvHolds(y, v)
    BY <1>1, <1>2, <1>3, <1>4, ThreadHas DEF HoldsHandle
  <2> QED
    BY <2>1 DEF SrvHolds
<1>5. CASE v \notin SessionOf(srv)
  <2>1. PICK u \in Threads : ThreadHolds(x, v, u)
    BY <1>2, <1>5 DEF HoldsHandle, SrvHolds
  <2>2. PICK w \in Threads : ThreadHolds(y, v, w)
    BY <1>2, <1>5 DEF HoldsHandle, SrvHolds
  <2>3. u = w
    BY <1>1, <1>3, <2>1, <2>2, ThreadHas
  <2> QED
    BY <1>1, <2>1, <2>2, <2>3, ThreadOnce
<1> QED
  BY <1>4, <1>5

LEMMA HandlesAll ==
    ASSUME OwnInv
    PROVE  {x.value : x \in {z \in HandleHolders : z.value # 0}} = DOMAIN open
<1>1. SharedOut(DOMAIN open, SessionOf(srv), HandlesWith)
  BY OwnAre
<1>2. \A v : v \in DOMAIN open <=> (v \in SessionOf(srv) \/ \E u \in Threads : v \in HandlesWith[u])
  BY <1>1 DEF SharedOut
<1>3. ASSUME NEW v \in DOMAIN open PROVE v # 0 /\ \E x \in HandleHolders : x.value = v
  <2>1. v # 0
    <3>1. v \in Handles
      BY OwnAre DEF Stores
    <3> QED
      BY <3>1, HandlesAssumption
  <2> QED
    BY <1>2, <2>1, HeldBySrv, HeldByThread
<1>4. ASSUME NEW x \in HandleHolders, x.value # 0 PROVE x.value \in DOMAIN open
  <2>1. PICK v : v = x.value /\ v # 0
    BY <1>4
  <2>2. HoldsHandle(x, v)
    BY <2>1, HandleHeld
  <2> QED
    BY <1>2, <2>1, <2>2, ThreadHas DEF HoldsHandle, SrvHolds
<1> QED
  BY <1>3, <1>4

-----------------------------------------------------------------------------
\* The holders of domain objects, likewise.

SrvObjectHolders == {Holder("srv", NoThread, 0, srv.object_id)}
SubObjectHolders ==
    {Holder("sub", t, 0, sub[t].object_id) : t \in {u \in Threads : sub[u].own_handle = 0 /\ ~Gone(u)}}
ConvertHolders == {Holder("convert", t, 0, tls[t].value) : t \in {u \in Threads : Replied(u, "convert")}}
ReplyObjectHolders ==
    UNION {{Holder("reply", t, p, tls[t].memory[p]) : p \in ObjectPlaces(t)} :
              t \in {u \in Threads : Replied(u, "dispatch")}}

LEMMA ObjectHoldersAre ==
    \A x : x \in ObjectHolders <=>
              (x \in SrvObjectHolders \/ x \in SubObjectHolders \/ x \in ConvertHolders
               \/ x \in ReplyObjectHolders)
<1>1. ObjectHolders =
          SrvObjectHolders \cup SubObjectHolders \cup ConvertHolders \cup ReplyObjectHolders
  BY DEF ObjectHolders, SrvObjectHolders, SubObjectHolders, ConvertHolders, ReplyObjectHolders
<1> QED
  BY <1>1

SrvHoldsObject(x, v) == x = Holder("srv", NoThread, 0, v) /\ v \in ObjectOf(srv)
SubHoldsObject(x, v, u) == x = Holder("sub", u, 0, v) /\ v \in OwnObject(u)
ConvertHolds(x, v, u) == Replied(u, "convert") /\ x = Holder("convert", u, 0, v) /\ v = tls[u].value
ReplyHoldsObject(x, v, u, p) ==
    /\ Replied(u, "dispatch") /\ p \in ObjectPlaces(u)
    /\ x = Holder("reply", u, p, v) /\ v = tls[u].memory[p]
ThreadHoldsObject(x, v, u) ==
    \/ SubHoldsObject(x, v, u) \/ ConvertHolds(x, v, u)
    \/ \E p \in ObjectPlaces(u) : ReplyHoldsObject(x, v, u, p)
HoldsObject(x, v) == SrvHoldsObject(x, v) \/ \E u \in Threads : ThreadHoldsObject(x, v, u)

LEMMA ObjectHeld ==
    ASSUME NEW x \in ObjectHolders, x.value # 0
    PROVE  HoldsObject(x, x.value)
<1>1. CASE x \in SrvObjectHolders
  <2>1. x = Holder("srv", NoThread, 0, srv.object_id)
    BY <1>1 DEF SrvObjectHolders
  <2>2. x.value = srv.object_id
    BY <2>1, HolderIs
  <2> QED
    BY <2>1, <2>2 DEF HoldsObject, SrvHoldsObject, ObjectOf
<1>2. CASE x \in SubObjectHolders
  <2>1. PICK u \in Threads : /\ x = Holder("sub", u, 0, sub[u].object_id)
                             /\ sub[u].own_handle = 0 /\ ~Gone(u)
    BY <1>2 DEF SubObjectHolders
  <2>2. x.value = sub[u].object_id
    BY <2>1, HolderIs
  <2> QED
    BY <2>1, <2>2 DEF HoldsObject, ThreadHoldsObject, SubHoldsObject, OwnObject
<1>3. CASE x \in ConvertHolders
  <2>1. PICK u \in Threads : x = Holder("convert", u, 0, tls[u].value) /\ Replied(u, "convert")
    BY <1>3 DEF ConvertHolders
  <2>2. x.value = tls[u].value
    BY <2>1, HolderIs
  <2> QED
    BY <2>1, <2>2 DEF HoldsObject, ThreadHoldsObject, ConvertHolds
<1>4. CASE x \in ReplyObjectHolders
  <2>1. PICK u \in Threads : /\ Replied(u, "dispatch")
                             /\ \E p \in ObjectPlaces(u) : x = Holder("reply", u, p, tls[u].memory[p])
    BY <1>4, Zenon DEF ReplyObjectHolders
  <2>2. PICK p \in ObjectPlaces(u) : x = Holder("reply", u, p, tls[u].memory[p])
    BY <2>1
  <2>3. x.value = tls[u].memory[p]
    BY <2>2, HolderIs
  <2> QED
    BY <2>1, <2>2, <2>3 DEF HoldsObject, ThreadHoldsObject, ReplyHoldsObject
<1> QED
  BY <1>1, <1>2, <1>3, <1>4, ObjectHoldersAre

LEMMA ObjectHeldBySrv ==
    ASSUME NEW v \in ObjectOf(srv)
    PROVE  \E x \in ObjectHolders : x.value = v
<1>1. v = srv.object_id
  BY DEF ObjectOf
<1>2. PICK x : x = Holder("srv", NoThread, 0, v)
  OBVIOUS
<1>3. x \in SrvObjectHolders
  BY <1>1, <1>2 DEF SrvObjectHolders
<1>4. x.value = v
  BY <1>2, HolderIs
<1> QED
  BY <1>3, <1>4, ObjectHoldersAre

LEMMA ObjectHeldByThread ==
    ASSUME NEW u \in Threads, NEW v \in ObjectsWith[u]
    PROVE  \E x \in ObjectHolders : x.value = v
<1>0. v \in OwnObject(u) \/ v \in AnswerObject(u)
  BY WithAre
<1>1. CASE v \in OwnObject(u)
  <2>1. v = sub[u].object_id /\ sub[u].own_handle = 0 /\ ~Gone(u)
    BY <1>1 DEF OwnObject
  <2>2. PICK x : x = Holder("sub", u, 0, sub[u].object_id)
    OBVIOUS
  <2>3. x \in SubObjectHolders
    BY <2>1, <2>2, Zenon DEF SubObjectHolders
  <2>4. x.value = v
    BY <2>1, <2>2, HolderIs
  <2> QED
    BY <2>3, <2>4, ObjectHoldersAre
<1>2. CASE Replied(u, "convert") /\ v = tls[u].value
  <2>1. PICK x : x = Holder("convert", u, 0, tls[u].value)
    OBVIOUS
  <2>2. x \in ConvertHolders
    BY <1>2, <2>1, Zenon DEF ConvertHolders
  <2>3. x.value = v
    BY <1>2, <2>1, HolderIs
  <2> QED
    BY <2>2, <2>3, ObjectHoldersAre
<1>3. CASE Replied(u, "dispatch") /\ v \in InAnswer(u, ObjectPlaces(u))
  <2>1. PICK p \in ObjectPlaces(u) : v = tls[u].memory[p]
    BY <1>3 DEF InAnswer
  <2>2. PICK x : x = Holder("reply", u, p, tls[u].memory[p])
    OBVIOUS
  <2>3. x \in ReplyObjectHolders
    <3>1. x \in {Holder("reply", u, q, tls[u].memory[q]) : q \in ObjectPlaces(u)}
      BY <2>2, Zenon
    <3>2. u \in {w \in Threads : Replied(w, "dispatch")}
      BY <1>3, Zenon
    <3> QED
      BY <3>1, <3>2, Zenon DEF ReplyObjectHolders
  <2>4. x.value = v
    BY <2>1, <2>2, HolderIs
  <2> QED
    BY <2>3, <2>4, ObjectHoldersAre
<1>4. v \in AnswerObject(u) =>
         \/ Replied(u, "convert") /\ v = tls[u].value
         \/ Replied(u, "dispatch") /\ v \in InAnswer(u, ObjectPlaces(u))
  BY DEF AnswerObject
<1> QED
  BY <1>0, <1>1, <1>2, <1>3, <1>4

\* An answer to a command brings one object at most, and then its thread has no
\* service of its own; nor has one that makes the guarded service a domain.
LEMMA ObjectPlaced ==
    ASSUME OwnInv, NEW u \in Threads, Replied(u, "dispatch"), NEW p \in ObjectPlaces(u)
    PROVE  /\ \A q \in ObjectPlaces(u) : q = p
           /\ sub[u] = NoService
<1>1. Laid(call[u], tls[u]) /\ Asks(u)
  BY OwnAre DEF Hears, Carries
<1>2. PICK from : from = Answer(call[u], tls[u]).objects
  OBVIOUS
<1>3. ObjectPlaces(u) = Words(from, IF ObjectIsId(call[u]) THEN 1 ELSE 0)
  BY <1>1, <1>2 DEF Laid, ObjectPlaces
<1>4. ObjectIsId(call[u])
  BY <1>3 DEF Words
<1>5. \A q \in ObjectPlaces(u) : q = from + 4 * (1 - 1)
  BY <1>3, <1>4 DEF Words
<1>6. call[u].op = "dispatch" /\ call[u].cmd.out_objects > 0
  BY <1>4 DEF ObjectIsId
<1> QED
  BY <1>1, <1>5, <1>6 DEF Asks

LEMMA ObjectApart ==
    ASSUME OwnInv, GuardInv, NEW u \in Threads, NEW v \in OwnObject(u)
    PROVE  v \notin AnswerObject(u)
<1>1. sub[u] # NoService
  BY DEF OwnObject, NoService
<1>2. ~Replied(u, "convert")
  BY <1>1, InGuardHas DEF Replied, InGuard
<1>3. Replied(u, "dispatch") => ObjectPlaces(u) = {}
  BY <1>1, ObjectPlaced
<1> QED
  BY <1>2, <1>3 DEF AnswerObject, InAnswer

LEMMA ThreadHasObject ==
    ASSUME NEW u \in Threads, NEW x, NEW v, v # 0, ThreadHoldsObject(x, v, u)
    PROVE  /\ v \in ObjectsWith[u]
           /\ \/ SubHoldsObject(x, v, u) /\ v \in OwnObject(u)
              \/ ~SubHoldsObject(x, v, u) /\ v \in AnswerObject(u)
<1>1. ConvertHolds(x, v, u) => v \in AnswerObject(u)
  BY DEF ConvertHolds, AnswerObject
<1>2. ASSUME NEW p \in ObjectPlaces(u), ReplyHoldsObject(x, v, u, p) PROVE v \in AnswerObject(u)
  <2>1. Replied(u, "dispatch") /\ ~Replied(u, "convert") /\ v = tls[u].memory[p]
    BY <1>2 DEF ReplyHoldsObject, Replied
  <2> QED
    BY <2>1 DEF AnswerObject, InAnswer
<1>3. SubHoldsObject(x, v, u) => v \in OwnObject(u)
  BY DEF SubHoldsObject
<1> QED
  BY <1>1, <1>2, <1>3, WithAre DEF ThreadHoldsObject

LEMMA ThreadObjectOnce ==
    ASSUME OwnInv, GuardInv, NEW u \in Threads, NEW v, v # 0,
           NEW x, ThreadHoldsObject(x, v, u), NEW y, ThreadHoldsObject(y, v, u)
    PROVE  x = y
<1>1. CASE v \in OwnObject(u)
  <2>1. SubHoldsObject(x, v, u) /\ SubHoldsObject(y, v, u)
    BY <1>1, ThreadHasObject, ObjectApart
  <2> QED
    BY <2>1 DEF SubHoldsObject
<1>2. CASE v \notin OwnObject(u)
  <2>1. ~SubHoldsObject(x, v, u) /\ ~SubHoldsObject(y, v, u)
    BY <1>2 DEF SubHoldsObject
  <2>2. CASE ConvertHolds(x, v, u)
    <3>1. ConvertHolds(y, v, u)
      BY <2>1, <2>2 DEF ThreadHoldsObject, ConvertHolds, ReplyHoldsObject, Replied
    <3> QED
      BY <2>2, <3>1 DEF ConvertHolds
  <2>3. CASE ~ConvertHolds(x, v, u)
    <3>1. PICK p \in ObjectPlaces(u) : ReplyHoldsObject(x, v, u, p)
      BY <2>1, <2>3 DEF ThreadHoldsObject
    <3>2. PICK q \in ObjectPlaces(u) : ReplyHoldsObject(y, v, u, q)
      BY <2>1, <3>1 DEF ThreadHoldsObject, ConvertHolds, ReplyHoldsObject, Replied
    <3>3. p = q
      BY <3>1, ObjectPlaced DEF ReplyHoldsObject
    <3> QED
      BY <3>1, <3>2, <3>3 DEF ReplyHoldsObject
  <2> QED
    BY <2>2, <2>3
<1> QED
  BY <1>1, <1>2

LEMMA ObjectsOnce ==
    ASSUME OwnInv, GuardInv, NEW x \in ObjectHolders, NEW y \in ObjectHolders,
           x.value # 0, x.value = y.value
    PROVE  x = y
<1>1. PICK v : v = x.value /\ v = y.value /\ v # 0
  OBVIOUS
<1>2. HoldsObject(x, v) /\ HoldsObject(y, v)
  BY <1>1, ObjectHeld
<1>3. /\ \A u \in Threads : v \in ObjectOf(srv) => v \notin ObjectsWith[u]
      /\ \A u, w \in Threads : v \in ObjectsWith[u] /\ v \in ObjectsWith[w] => u = w
  BY OwnAre DEF SharedOut
<1>4. CASE v \in ObjectOf(srv)
  <2>1. SrvHoldsObject(x, v) /\ SrvHoldsObject(y, v)
    BY <1>1, <1>2, <1>3, <1>4, ThreadHasObject DEF HoldsObject
  <2> QED
    BY <2>1 DEF SrvHoldsObject
<1>5. CASE v \notin ObjectOf(srv)
  <2>1. PICK u \in Threads : ThreadHoldsObject(x, v, u)
    BY <1>2, <1>5 DEF HoldsObject, SrvHoldsObject
  <2>2. PICK w \in Threads : ThreadHoldsObject(y, v, w)
    BY <1>2, <1>5 DEF HoldsObject, SrvHoldsObject
  <2>3. u = w
    BY <1>1, <1>3, <2>1, <2>2, ThreadHasObject
  <2> QED
    BY <1>1, <2>1, <2>2, <2>3, ThreadObjectOnce
<1> QED
  BY <1>4, <1>5

LEMMA ObjectsAll ==
    ASSUME OwnInv
    PROVE  {x.value : x \in {z \in ObjectHolders : z.value # 0}} = objects
<1>1. SharedOut(objects, ObjectOf(srv), ObjectsWith)
  BY OwnAre
<1>2. \A v : v \in objects <=> (v \in ObjectOf(srv) \/ \E u \in Threads : v \in ObjectsWith[u])
  BY <1>1 DEF SharedOut
<1>3. ASSUME NEW v \in objects PROVE v # 0 /\ \E x \in ObjectHolders : x.value = v
  <2>1. v # 0
    <3>1. v \in ObjectIds
      BY OwnAre DEF Stores
    <3> QED
      BY <3>1, ObjectIdsAssumption
  <2> QED
    BY <1>2, <2>1, ObjectHeldBySrv, ObjectHeldByThread
<1>4. ASSUME NEW x \in ObjectHolders, x.value # 0 PROVE x.value \in objects
  <2>1. PICK v : v = x.value /\ v # 0
    BY <1>4
  <2>2. HoldsObject(x, v)
    BY <2>1, ObjectHeld
  <2> QED
    BY <1>2, <2>1, <2>2, ThreadHasObject DEF HoldsObject, SrvHoldsObject
<1> QED
  BY <1>3, <1>4

LEMMA OwnsOnce == OwnInv /\ GuardInv => OwnedOnce
<1> SUFFICES ASSUME OwnInv, GuardInv PROVE OwnedOnce
  OBVIOUS
<1>1. /\ \A x, y \in {z \in HandleHolders : z.value # 0} : x.value = y.value => x = y
      /\ {x.value : x \in {z \in HandleHolders : z.value # 0}} = DOMAIN open
  BY HandlesOnce, HandlesAll
<1>2. /\ \A x, y \in {z \in ObjectHolders : z.value # 0} : x.value = y.value => x = y
      /\ {x.value : x \in {z \in ObjectHolders : z.value # 0}} = objects
  BY ObjectsOnce, ObjectsAll
<1> QED
  BY <1>1, <1>2, Zenon DEF OwnedOnce

-----------------------------------------------------------------------------
\* The other properties, and the theorems.

LEMMA TargetsLive == OwnInv /\ GuardInv => NoDeadTarget
<1> SUFFICES ASSUME OwnInv, GuardInv, NEW t \in Threads, pc[t] = "send"
             PROVE  /\ Target(t).session \in DOMAIN open
                    /\ tls[t].object_id # 0 => tls[t].object_id \in objects
                    /\ call[t].op = "dispatch" => tls[t].object_id = Target(t).object_id
  BY DEF NoDeadTarget
<1>1. Calling(t) /\ ~Gone(t)
  BY DEF Calling, Gone
<1>2. /\ Target(t).session \in DOMAIN open
      /\ Target(t).object_id # 0 => Target(t).object_id \in objects
  BY <1>1, TargetLives
<1>3. Asks(t)
  BY OwnAre
<1> QED
  BY <1>2, <1>3 DEF Asks

\* Whoever is in the guard is not yet a user, or no longer.
LEMMA CountBound == ASSUME GuardInv PROVE refCount \in 0..Cardinality(Threads)
<1>1. /\ Users \subseteq Threads /\ IsFiniteSet(Users) /\ Cardinality(Users) \in Nat
      /\ Cardinality(Threads) \in Nat /\ Cardinality(Users) <= Cardinality(Threads)
  BY UsersAre, FS_Subset, FS_CardinalityType, ThreadsAssumption
<1>2. CASE owner = NoThread
  BY <1>1, <1>2 DEF GuardInv
<1>3. ASSUME NEW t \in Threads, owner = t PROVE refCount \in 0..Cardinality(Threads)
  <2>1. InGuard(t) /\ Phase(t) /\ t \notin Users
    BY <1>3, OwnerIs, UsersAre DEF GuardInv
  <2>2. Cardinality(Users) + 1 <= Cardinality(Threads)
    <3>1. /\ Cardinality(Users \cup {t}) = Cardinality(Users) + 1
          /\ Users \cup {t} \subseteq Threads
      BY <1>1, <2>1, FS_AddElement
    <3>2. Cardinality(Users \cup {t}) <= Cardinality(Threads)
      BY <3>1, FS_Subset, ThreadsAssumption
    <3> QED
      BY <3>1, <3>2
  <2>3. refCount \in {0, 1, Cardinality(Users) + 1}
    <3>1. rc[t] \in {"ok", "failed"}
      BY DEF GuardInv, Shape
    <3> QED
      BY <2>1, <3>1 DEF InGuard, Phase
  <2> QED
    BY <1>1, <2>2, <2>3
<1> QED
  BY <1>2, <1>3 DEF GuardInv, Shape

LEMMA TypesOK == OwnInv /\ GuardInv => TypeOK
<1> SUFFICES ASSUME OwnInv, GuardInv PROVE TypeOK
  OBVIOUS
<1>1. Stores /\ Guarded /\ Shape
  BY OwnAre DEF GuardInv
<1> QED
  BY <1>1, CountBound DEF TypeOK, Stores, Guarded, Shape, Places

\* Every handle that is open and every object that lives has one owner, and no
\* owner has one that is closed, whatever is refused and however initialisation,
\* dispatches, clones, closes and exits interleave (serviceParseResponse,
\* serviceClone, serviceClose, serviceGuardEndInit and serviceGuardExit).
THEOREM ServiceOwnsOnce == Spec => []OwnedOnce
<1>1. OwnInv /\ GuardInv => OwnedOnce
  BY OwnsOnce
<1> QED
  BY <1>1, OwnAlways, PTL

\* A request that is sent, though formed from an earlier copy of its service,
\* goes to an open session and a live object (serviceDispatchImpl, serviceClose).
THEOREM ServiceTargetsLive == Spec => []NoDeadTarget
<1>1. OwnInv /\ GuardInv => NoDeadTarget
  BY TargetsLive
<1> QED
  BY <1>1, OwnAlways, PTL

\* The state keeps its shape; refCount, a u32 of ServiceGuard, stays between
\* none and all of the threads and so does not wrap (service_guard.h).
THEOREM ServiceTypeCorrect == Spec => []TypeOK
<1>1. OwnInv /\ GuardInv => TypeOK
  BY TypesOK
<1> QED
  BY <1>1, OwnAlways, PTL
=============================================================================
