---------------------------- MODULE RequestProofs ----------------------------
(***************************************************************************)
(* Theorems about the requests that service.h forms from a command, for    *)
(* every command, size of pointer buffer and interleaving: they fill what  *)
(* cmifMakeRequest reserved, keep to the server's pointer buffer, and tell *)
(* the other side the command.                                             *)
(***************************************************************************)
EXTENDS ServiceProofs

-----------------------------------------------------------------------------
\* What is on its way.  A request stays as it was formed from the service it goes
\* to: its slot is changed by nobody else while the request is not sent.

\* A request on its way is as it was formed, for the service it goes to.
PlainMessages ==
    {cmifMakeControlRequest(n, k) : n \in {0, 2, 3, 4}, k \in {0, 4}}
    \cup {cmifMakeCloseRequest(id) : id \in ObjectIds \cup {0}}

\* The message that t sends is the one its call makes.
Formed(t) ==
    IF call[t].op = "dispatch"
    THEN /\ call[t].cmd \in DispatchParams /\ Tellable(call[t].cmd)
         /\ tls[t] = serviceMakeRequest(Target(t), call[t].cmd)
    ELSE tls[t] \in PlainMessages

SentInv == \A t \in Threads : pc[t] = "send" => Formed(t)

\* Whose request is on its way finds the guarded service and its own unchanged.
LEMMA FormedKeeps ==
    ASSUME OwnInv, GuardInv, NEW t \in Threads, NEW u \in Threads \ {t}, Apart(t),
           srv' = srv \/ (InGuard(t) /\ Users = {}),
           pc[u] = "send", Formed(u), tls'[u] = tls[u]
    PROVE  Formed(u)'
<1>1. call'[u] = call[u] /\ sub'[u] = sub[u]
  BY DEF Apart
<1>2. CASE call[u].op = "dispatch"
  <2>1. IsUser(u) /\ u \in Users
    BY <1>2, UsersAre DEF IsUser
  <2>2. srv' = srv
    BY <2>1
  <2>3. Target(u)' = Target(u)
    BY <1>1, <2>2 DEF Target
  <2> QED
    BY <1>1, <1>2, <2>3 DEF Formed
<1>3. CASE call[u].op # "dispatch"
  BY <1>1, <1>3 DEF Formed
<1> QED
  BY <1>2, <1>3

Ground == Shape /\ Stores

LEMMA GroundIs == ASSUME OwnInv, GuardInv PROVE Ground
BY OwnAre DEF Ground, GuardInv

\* What a step of a thread writes of it and no other.
LEMMA GoesTo ==
    ASSUME Ground, NEW t \in Threads, NEW label, GoTo(t, label)
    PROVE  pc'[t] = label /\ \A u \in Threads \ {t} : pc'[u] = pc[u]
BY DEF Ground, Shape, GoTo

\* What Request leaves of its thread, and of the others.
LEMMA Requested ==
    ASSUME Ground, NEW t \in Threads, NEW op, NEW slot,
           NEW message, NEW cmd, NEW is_domain,
           Request(t, op, slot, message, cmd, is_domain)
    PROVE  /\ pc'[t] = "send" /\ tls'[t] = message
           /\ call'[t].op = op /\ call'[t].slot = slot /\ call'[t].cmd = cmd
           /\ \A u \in Threads \ {t} : pc'[u] = pc[u] /\ call'[u] = call[u] /\ tls'[u] = tls[u]
BY DEF Request, GoTo, Ground, Shape, Stores

\* What Return leaves of its thread, and of the others.
LEMMA Returned ==
    ASSUME Ground, NEW t \in Threads, NEW label, Return(t, label)
    PROVE  /\ pc'[t] = label
           /\ \A u \in Threads \ {t} : pc'[u] = pc[u] /\ call'[u] = call[u] /\ tls'[u] = tls[u]
BY DEF Return, GoTo, Ground, Shape, Stores

\* An answer touches the thread it is for.
LEMMA RepliedApart ==
    ASSUME Ground, NEW t \in Threads, NEW result, NEW answer, Reply(t, result, answer)
    PROVE  Apart(t) /\ pc'[t] = "parse" /\ srv' = srv
BY DEF Reply, GoTo, Ground, Shape, Stores, Apart

\* A step that sends no request.
LEMMA ServesApart ==
    ASSUME Ground, NEW t \in Threads, Serves(t)
    PROVE  Apart(t) /\ pc'[t] # "send" /\ srv' = srv
<1>1. \E result, answer : Reply(t, result, answer)
  <2>1. ServeDispatch(t) => \E answer : Reply(t, "ok", answer)
    BY Zenon DEF ServeDispatch
  <2>2. Refuse(t) => \E answer : Reply(t, "failed", answer)
    BY Zenon DEF Refuse
  <2>3. ServeQuery(t) \/ ServeConvert(t) \/ ServeClone(t) \/ ServeClose(t)
           => \E answer : Reply(t, "ok", answer)
    BY Zenon DEF ServeQuery, ServeConvert, ServeClone, ServeClose
  <2> QED
    BY <2>1, <2>2, <2>3, Zenon DEF Serves
<1> QED
  BY <1>1, RepliedApart

\* t sends nothing, and changes the guarded service only when nobody uses it.
Quiet(t) == Apart(t) /\ pc'[t] # "send" /\ (srv' = srv \/ (InGuard(t) /\ Users = {}))

\* The steps that neither send nor answer.
LEMMA MovesQuietly ==
    ASSUME Ground, NEW t \in Threads,
           \/ nameInitialize(t) \/ nameExit(t) \/ CloseKept(t)
           \/ serviceGuardBeginInit(t) \/ NoSession(t) \/ Send(t)
    PROVE  Quiet(t)
<1>1. CASE nameInitialize(t) \/ nameExit(t) \/ serviceGuardBeginInit(t) \/ NoSession(t)
  <2>1. /\ pc' # pc => \E label \in {"lock", "exit", "open", "settle"} : GoTo(t, label)
        /\ UNCHANGED <<srv, sub, kept, call, tls>>
    BY <1>1 DEF nameInitialize, nameExit, serviceGuardBeginInit, NoSession
  <2>2. \E label \in {"lock", "exit", "open", "settle"} : GoTo(t, label)
    BY <1>1 DEF nameInitialize, nameExit, serviceGuardBeginInit, NoSession
  <2> QED
    BY <2>1, <2>2, GoesTo DEF Quiet, Apart
<1>2. CASE CloseKept(t)
  BY <1>2 DEF CloseKept, threads, Quiet, Apart, Ground, Stores
<1>3. CASE Send(t)
  <2>1. GoTo(t, "wait") \/ GoTo(t, "parse")
    BY <1>3 DEF Send
  <2>2. \A u \in Threads \ {t} : call'[u] = call[u]
    BY <1>3 DEF Send, Ground, Shape
  <2> QED
    BY <1>3, <2>1, <2>2, GoesTo DEF Send, Quiet, Apart
<1> QED
  BY <1>1, <1>2, <1>3

\* In the guard there are no users, but for the time it is entered or left.
LEMMA GuardedAlone ==
    ASSUME GuardInv, NEW t \in Threads,
           \/ call[t].op \in {"query", "convert"}
           \/ call[t].op = "close" /\ call[t].slot = "srv"
           \/ pc[t] = "open"
    PROVE  InGuard(t) /\ Users = {}
<1>1. InGuard(t)
  BY DEF InGuard
<1> QED
  BY <1>1 DEF GuardInv, Phase

\* The ends of calls send nothing, FinishQuery apart.
LEMMA FinishQuietly ==
    ASSUME Ground, GuardInv, NEW t \in Threads,
           FinishConvert(t) \/ FinishDispatch(t) \/ FinishClone(t) \/ FinishClose(t)
    PROVE  Quiet(t)
<1>1. CASE FinishConvert(t)
  <2>1. Return(t, "settle") /\ UNCHANGED <<sub, kept>> /\ InGuard(t) /\ Users = {}
    BY <1>1, GuardedAlone DEF FinishConvert, Parses
  <2> QED
    BY <2>1, Returned DEF Quiet, Apart
<1>2. CASE FinishDispatch(t)
  <2>1. /\ Return(t, "in") /\ srv' = srv
        /\ sub' = sub \/ \E s : sub' = [sub EXCEPT ![t] = s]
        /\ kept' = kept \/ \E k : kept' = [kept EXCEPT ![t] = k]
    <3>1. /\ Return(t, "in") /\ srv' = srv
          /\ \/ UNCHANGED <<sub, kept>>
             \/ /\ \E s : sub' = IF call[t].cmd.out_objects = 0 THEN sub ELSE [sub EXCEPT ![t] = s]
                /\ \E k : kept' = [kept EXCEPT ![t] = @ \cup k]
      BY <1>2, Zenon DEF FinishDispatch
    <3> QED
      BY <3>1
  <2>2. \A u \in Threads \ {t} : sub'[u] = sub[u] /\ kept'[u] = kept[u]
    BY <2>1 DEF Ground, Stores
  <2> QED
    BY <2>1, <2>2, Returned DEF Quiet, Apart
<1>3. CASE FinishClone(t)
  <2>1. /\ Return(t, "in") /\ srv' = srv /\ kept' = kept
        /\ \A u \in Threads \ {t} : sub'[u] = sub[u]
    BY <1>3 DEF FinishClone, Ground, Stores
  <2> QED
    BY <2>1, Returned DEF Quiet, Apart
<1>4. CASE FinishClose(t)
  <2>1. CASE call[t].slot = "srv"
    <3>1. Return(t, "out") /\ UNCHANGED <<sub, kept>> /\ InGuard(t) /\ Users = {}
      BY <1>4, <2>1, GuardedAlone DEF FinishClose, Parses
    <3> QED
      BY <3>1, Returned DEF Quiet, Apart
  <2>2. CASE call[t].slot # "srv"
    <3>1. /\ Return(t, "in") /\ UNCHANGED <<srv, kept>>
          /\ \A u \in Threads \ {t} : sub'[u] = sub[u]
      BY <1>4, <2>2 DEF FinishClose, Ground, Stores
    <3> QED
      BY <3>1, Returned DEF Quiet, Apart
  <2> QED
    BY <2>1, <2>2
<1> QED
  BY <1>1, <1>2, <1>3, <1>4

\* A step that forms a request.
Sends(t) ==
    /\ Apart(t) /\ (srv' = srv \/ (InGuard(t) /\ Users = {}))
    /\ Formed(t)'

\* Control and close requests are among the plain messages.
LEMMA PlainAre ==
    /\ \A n \in {0, 2, 3, 4}, k \in {0, 4} : cmifMakeControlRequest(n, k) \in PlainMessages
    /\ \A s \in Services :
          cmifMakeCloseRequest(IF s.own_handle = 1 THEN 0 ELSE s.object_id) \in PlainMessages
BY DEF PlainMessages, Services

\* Who forms a plain message sends it.
LEMMA PlainSends ==
    ASSUME Ground, NEW t \in Threads, NEW op, op # "dispatch", NEW slot, NEW message,
           message \in PlainMessages, Request(t, op, slot, message, NoCall, FALSE),
           \A u \in Threads \ {t} : sub'[u] = sub[u], kept' = kept,
           srv' = srv \/ (InGuard(t) /\ Users = {})
    PROVE  Sends(t)
<1>1. /\ call'[t].op = op /\ tls'[t] = message
      /\ \A u \in Threads \ {t} : pc'[u] = pc[u] /\ call'[u] = call[u] /\ tls'[u] = tls[u]
  <2>1. PICK cmd, is_domain : Request(t, op, slot, message, cmd, is_domain)
    BY Zenon
  <2> QED
    BY <2>1, Requested
<1>2. Apart(t)
  BY <1>1 DEF Apart
<1>3. PlainMessages' = PlainMessages
  BY DEF PlainMessages
<1>4. Formed(t)'
  BY <1>1, <1>3 DEF Formed
<1> QED
  BY <1>2, <1>4 DEF Sends

\* What the guard's user sends while he holds it.
LEMMA GuardSends ==
    ASSUME Ground, GuardInv, OwnInv, NEW t \in Threads,
           serviceCreate(t) \/ FinishQuery(t) \/ serviceGuardEndInit(t) \/ serviceGuardExit(t)
    PROVE  Quiet(t) \/ Sends(t)
<1>0. srv \in Services
  BY OwnAre DEF Guarded
<1>1. CASE serviceCreate(t)
  <2>1. /\ Request(t, "query", "srv", cmifMakeControlRequest(3, 0), NoCall, FALSE)
        /\ sub' = sub /\ kept' = kept /\ InGuard(t) /\ Users = {}
    BY <1>1, GuardedAlone DEF serviceCreate
  <2> QED
    BY <2>1, PlainSends, PlainAre
<1>2. CASE FinishQuery(t)
  <2>1. sub' = sub /\ kept' = kept /\ InGuard(t) /\ Users = {}
    BY <1>2, GuardedAlone DEF FinishQuery, Parses
  <2>2. CASE Request(t, "convert", "srv", cmifMakeControlRequest(0, 0), NoCall, FALSE)
    BY <2>1, <2>2, PlainSends, PlainAre
  <2>3. CASE Return(t, "settle")
    BY <2>1, <2>3, Returned DEF Quiet, Apart
  <2> QED
    BY <1>2, <2>2, <2>3 DEF FinishQuery
<1>3. ASSUME srv' = srv, sub' = sub, kept' = kept, serviceClose(t, "srv", srv) PROVE Sends(t)
  BY <1>0, <1>3, PlainSends, PlainAre DEF serviceClose
<1>4. ASSUME srv' = srv, sub' = sub, kept' = kept, UNCHANGED <<call, tls>>,
             GoTo(t, "in") \/ GoTo(t, "out")
      PROVE  Quiet(t)
  BY <1>4, GoesTo DEF Quiet, Apart
<1>5. CASE serviceGuardEndInit(t)
  BY <1>3, <1>4, <1>5 DEF serviceGuardEndInit
<1>6. CASE serviceGuardExit(t)
  BY <1>3, <1>4, <1>6 DEF serviceGuardExit
<1> QED
  BY <1>1, <1>2, <1>5, <1>6

\* What a user sends: a clone, a close of his own service, a command.
LEMMA UserSends ==
    ASSUME Ground, OwnInv, NEW t \in Threads,
           \/ serviceClone(t) \/ CloseSub(t)
           \/ \E slot \in {"srv", "sub"} : \E cmd \in CommandsOf(t, slot) :
                  serviceDispatch(t, slot, cmd)
    PROVE  Sends(t)
<1>1. CASE serviceClone(t)
  <2>1. /\ srv' = srv /\ kept' = kept /\ \A u \in Threads \ {t} : sub'[u] = sub[u]
    BY <1>1 DEF serviceClone, Ground, Stores
  <2>2. PICK message \in PlainMessages : Request(t, "clone", "srv", message, NoCall, FALSE)
    <3>1. PICK tagged \in BOOLEAN :
             Request(t, "clone", "srv",
                     IF tagged THEN cmifMakeControlRequest(4, 4) ELSE cmifMakeControlRequest(2, 0),
                     NoCall, FALSE)
      BY <1>1 DEF serviceClone
    <3>2. (IF tagged THEN cmifMakeControlRequest(4, 4) ELSE cmifMakeControlRequest(2, 0))
             \in PlainMessages
      BY PlainAre
    <3> QED
      BY <3>1, <3>2, Zenon
  <2> QED
    BY <2>1, <2>2, PlainSends
<1>2. CASE CloseSub(t)
  <2>1. sub[t] \in Services
    BY DEF Ground, Stores
  <2> QED
    BY <1>2, <2>1, PlainSends, PlainAre DEF CloseSub, serviceClose
<1>3. ASSUME NEW slot \in {"srv", "sub"}, NEW cmd \in CommandsOf(t, slot),
             serviceDispatch(t, slot, cmd)
      PROVE  Sends(t)
  <2>1. PICK s : s = ServiceIn(t, slot)
    OBVIOUS
  <2>2. /\ Request(t, "dispatch", slot, serviceMakeRequest(s, cmd), cmd, s.object_id # 0)
        /\ UNCHANGED <<srv, sub, kept>>
    BY <1>3, <2>1 DEF serviceDispatch, ServiceIn
  <2>3. PICK message : message = serviceMakeRequest(s, cmd)
    OBVIOUS
  <2>4. /\ pc'[t] = "send" /\ tls'[t] = message
        /\ call'[t].op = "dispatch" /\ call'[t].slot = slot /\ call'[t].cmd = cmd
        /\ \A u \in Threads \ {t} : pc'[u] = pc[u] /\ call'[u] = call[u] /\ tls'[u] = tls[u]
    BY <2>2, <2>3, Requested
  <2>5. Target(t)' = s
    BY <2>1, <2>2, <2>4 DEF Target, ServiceIn
  <2>6. cmd \in DispatchParams /\ Tellable(cmd)
    BY CommandsAssumption, TellableAssumption
  <2>7. tls'[t] = serviceMakeRequest(Target(t)', call'[t].cmd)
    BY <2>3, <2>4, <2>5
  <2> QED
    BY <2>2, <2>4, <2>6, <2>7 DEF Sends, Apart, Formed
<1> QED
  BY <1>1, <1>2, <1>3

\* Every step keeps what is on its way as it was formed.
LEMMA SentNext == OwnInv /\ GuardInv /\ SentInv /\ [Next]_vars => SentInv'
<1> SUFFICES ASSUME OwnInv, GuardInv, SentInv, [Next]_vars PROVE SentInv'
  OBVIOUS
<1>1. Ground
  BY GroundIs
<1>2. CASE UNCHANGED vars
  <2>1. UNCHANGED <<srv, sub, pc, call, tls>>
    BY <1>2 DEF vars, threads
  <2>2. ASSUME NEW t \in Threads, pc'[t] = "send" PROVE Formed(t)'
    <3>1. Formed(t) /\ Target(t)' = Target(t) /\ PlainMessages' = PlainMessages
      BY <2>1, <2>2 DEF SentInv, Target, PlainMessages
    <3> QED
      BY <2>1, <3>1 DEF Formed
  <2> QED
    BY <2>2 DEF SentInv
<1>3. ASSUME NEW t \in Threads, Quiet(t) \/ Sends(t) PROVE SentInv'
  <2>1. ASSUME NEW u \in Threads \ {t}, pc'[u] = "send" PROVE Formed(u)'
    <3>1. Apart(t) /\ (srv' = srv \/ (InGuard(t) /\ Users = {}))
      BY <1>3 DEF Quiet, Sends
    <3>2. pc[u] = "send" /\ tls'[u] = tls[u]
      BY <2>1, <3>1 DEF Apart
    <3>3. Formed(u)
      BY <3>2 DEF SentInv
    <3> QED
      BY <3>1, <3>2, <3>3, FormedKeeps
  <2>2. pc'[t] = "send" => Formed(t)'
    BY <1>3 DEF Quiet, Sends
  <2> QED
    BY <2>1, <2>2 DEF SentInv
<1>4. ASSUME NEW t \in Threads, Locks(t) \/ Runs(t) \/ Serves(t) \/ Calls(t)
      PROVE  Quiet(t) \/ Sends(t)
  <2>1. CASE Locks(t)
    BY <1>1, <2>1, MovesQuietly, GuardSends DEF Locks
  <2>2. CASE Runs(t)
    BY <1>1, <2>2, MovesQuietly, GuardSends, FinishQuietly DEF Runs
  <2>3. CASE Serves(t)
    BY <1>1, <2>3, ServesApart DEF Quiet
  <2>4. CASE Calls(t)
    BY <1>1, <2>4, MovesQuietly, UserSends DEF Calls
  <2> QED
    BY <1>4, <2>1, <2>2, <2>3, <2>4
<1> QED
  BY <1>2, <1>3, <1>4 DEF Next

\* So it is always, with the invariants of owners and guard.
LEMMA SentAlways == Spec => [](SentInv /\ OwnInv /\ GuardInv)
<1>1. Init => SentInv
  BY DEF Init, SentInv
<1>2. SentInv /\ (OwnInv /\ GuardInv) /\ [Next]_vars => SentInv'
  BY SentNext
<1> QED
  BY <1>1, <1>2, OwnAlways, PTL DEF Spec

-----------------------------------------------------------------------------
\* What the writers of cmif.h put into the regions of a request, and spend of the
\* pointer buffer.

\* Values of a u16, and of pointer_size.
Sizes == {n \in Nat : n < 65536}
\* What server_pointer_size can be.
Rooms == {n \in Nat : n < 1073741824}

Modes == {"Normal", "NonSecure", "NonDevice"}
MappedRegions == {"send_buffers", "recv_buffers", "exch_buffers"}

\* What is written to the regions of a request.
Statics == [index : 0..63, address : Nat, size : Sizes]
Mappings == [address : Nat, size : Nat, mode : Modes]
RecvStatics == [address : Nat, size : Sizes]
\* What a region can hold.
Entry == Statics \cup Mappings \cup RecvStatics \cup Nat
\* The regions that are written.
Written == RegionNames \cup {"objects", "table"}

\* A request that is being filled, whose room in the pointer buffer is known.
Writable(req) ==
    /\ {"put", "pointer_size", "cur_in_ptr_id"} \subseteq DOMAIN req
    /\ req.put \in [Written -> Seq(Entry)]
    /\ req.pointer_size \in Rooms /\ req.cur_in_ptr_id \in Nat

\* new has what old has, and one entry more in each region of R.
Adds(old, new, R, e) ==
    new.put = [r \in Written |-> IF r \in R THEN Append(old.put[r], e[r]) ELSE old.put[r]]

AtAll(x) == [r \in Written |-> x]

LEMMA WrittenAre ==
    Written = {"copy_handles", "move_handles", "send_statics", "send_buffers", "recv_buffers",
               "exch_buffers", "data_words", "recv_list", "objects", "table"}
BY DEF Written, RegionNames, EntrySize

\* A field keeps a number that it is wide enough for.
LEMMA FieldIs ==
    ASSUME NEW n \in Nat
    PROVE  /\ Field(n, 64) \in 0..63
           /\ n < 16 => Field(n, 16) = n
           /\ n < 1024 => Field(n, 1024) = n
<1>1. n % 64 \in 0..63
  BY SMT
<1>2. n < 16 => n % 16 = n
  BY SMT
<1>3. n < 1024 => n % 1024 = n
  BY SMT
<1> QED
  BY <1>1, <1>2, <1>3, Zenon DEF Field

LEMMA U16Is ==
    ASSUME NEW n \in Nat
    PROVE  U16(n) \in Sizes /\ U16(n) <= n /\ (n \in Sizes => U16(n) = n)
<1>1. n % 65536 \in Nat /\ n % 65536 < 65536
  BY SMT
<1>2. n % 65536 <= n
  BY SMT
<1>3. n < 65536 => n % 65536 = n
  BY SMT
<1> QED
  BY SMT, <1>1, <1>2, <1>3 DEF U16, Sizes

LEMMA U32Is ==
    ASSUME NEW n \in Int
    PROVE  U32(n) \in Rooms /\ (n \in Rooms => U32(n) = n)
<1>1. n % 1073741824 \in Nat /\ n % 1073741824 < 1073741824
  BY SMT
<1>2. n \in Nat /\ n < 1073741824 => n % 1073741824 = n
  BY SMT
<1> QED
  BY SMT, <1>1, <1>2 DEF U32, Rooms

LEMMA RoomLeft ==
    ASSUME NEW n \in Rooms, NEW size \in Nat
    PROVE  n - size \in Int /\ (size <= n => n - size \in Rooms)
BY SMT DEF Rooms

\* Put adds one entry to one region.
LEMMA PutAdds ==
    ASSUME NEW req, Writable(req), NEW r \in Written, NEW x \in Entry
    PROVE  /\ Writable(Put(req, r, x)) /\ Adds(req, Put(req, r, x), {r}, AtAll(x))
           /\ Put(req, r, x).pointer_size = req.pointer_size
           /\ Put(req, r, x).cur_in_ptr_id = req.cur_in_ptr_id
<1> DEFINE new == Put(req, r, x)
<1>0. PICK p : p = [req.put EXCEPT ![r] = Append(@, x)] /\ new = [req EXCEPT !.put = p]
  BY Zenon DEF Put
<1>1. /\ DOMAIN new = DOMAIN req /\ new.put = [req.put EXCEPT ![r] = Append(@, x)]
      /\ new.pointer_size = req.pointer_size /\ new.cur_in_ptr_id = req.cur_in_ptr_id
  <2> HIDE DEF new
  <2>1. {"put", "pointer_size", "cur_in_ptr_id"} \subseteq DOMAIN req
    BY DEF Writable
  <2> QED
    BY <1>0, <2>1
<1> HIDE DEF new
<1>2. new.put \in [Written -> Seq(Entry)]
  BY <1>1 DEF Writable
<1>3. Adds(req, new, {r}, AtAll(x))
  BY <1>1 DEF Writable, Adds, AtAll
<1>4. Writable(new)
  BY <1>1, <1>2 DEF Writable
<1> QED
  BY <1>1, <1>3, <1>4 DEF new

\* Spend takes from what is left of the pointer buffer and changes no region.
LEMMA SpendIs ==
    ASSUME NEW req, Writable(req), NEW size \in Nat
    PROVE  /\ Writable(Spend(req, size)) /\ Spend(req, size).put = req.put
           /\ size <= req.pointer_size =>
                 Spend(req, size).pointer_size = req.pointer_size - size
           /\ Spend(req, size).cur_in_ptr_id = req.cur_in_ptr_id
<1> DEFINE new == Spend(req, size)
<1>1. /\ DOMAIN new = DOMAIN req /\ new.put = req.put
      /\ new.pointer_size = U32(req.pointer_size - size) /\ new.cur_in_ptr_id = req.cur_in_ptr_id
  <2>1. PICK n : n = U32(req.pointer_size - size) /\ new = [req EXCEPT !.pointer_size = n]
    BY Zenon DEF Spend
  <2>2. {"put", "pointer_size", "cur_in_ptr_id"} \subseteq DOMAIN req
    BY DEF Writable
  <2> HIDE DEF new
  <2> QED
    BY <2>1, <2>2
<1>2. /\ U32(req.pointer_size - size) \in Rooms
      /\ size <= req.pointer_size => U32(req.pointer_size - size) = req.pointer_size - size
  <2>1. req.pointer_size \in Rooms
    BY DEF Writable
  <2> QED
    BY <2>1, RoomLeft, U32Is
<1> HIDE DEF new
<1>3. Writable(new)
  BY <1>1, <1>2 DEF Writable
<1> QED
  BY <1>1, <1>2, <1>3 DEF new

\* Two additions to different regions.
Both(R, e, f) == [r \in Written |-> IF r \in R THEN e[r] ELSE f[r]]

\* One addition after another, to other regions.
LEMMA AddsBoth ==
    ASSUME NEW old, NEW mid, NEW new, NEW R, NEW T, R \cap T = {}, NEW e, NEW f,
           Adds(old, mid, R, e), Adds(mid, new, T, f)
    PROVE  Adds(old, new, R \cup T, Both(R, e, f))
BY DEF Adds, Both

LEMMA AddsSame ==
    ASSUME NEW old, NEW mid, NEW new, NEW R, NEW e, Adds(old, mid, R, e), new.put = mid.put
    PROVE  Adds(old, new, R, e)
BY DEF Adds

-----------------------------------------------------------------------------
\* What the writers of cmif.h do.

\* What the other side is to see of a buffer.
Shown(buf) == [ptr |-> buf.ptr, size |-> buf.size]

\* A buffer goes to the region r of mapped buffers.
Maps(req, new, r, buf) ==
    \E e \in [Written -> Entry] : Adds(req, new, {r}, e) /\ SeenAs(e[r]) = Shown(buf)

\* cmifRequestInBuffer, cmifRequestOutBuffer and cmifRequestInOutBuffer.
LEMMA BufferAdds ==
    ASSUME NEW req, Writable(req), NEW buf, buf.ptr \in Nat, buf.size \in Nat,
           NEW mode \in Modes, NEW r \in MappedRegions,
           NEW new, new = Put(req, r, hipcMakeBuffer(buf.ptr, buf.size, mode))
    PROVE  /\ Writable(new) /\ new.pointer_size = req.pointer_size
           /\ Maps(req, new, r, buf)
<1> DEFINE x == hipcMakeBuffer(buf.ptr, buf.size, mode)
<1>1. x \in Entry /\ SeenAs(x) = Shown(buf)
  BY DEF hipcMakeBuffer, Mappings, Entry, SeenAs, Shown
<1>2. r \in Written
  BY WrittenAre DEF MappedRegions
<1> HIDE DEF x
<1>3. /\ Writable(new) /\ Adds(req, new, {r}, AtAll(x)) /\ new.pointer_size = req.pointer_size
  BY <1>1, <1>2, PutAdds DEF x
<1>4. AtAll(x) \in [Written -> Entry] /\ AtAll(x)[r] = x
  BY <1>1, <1>2 DEF AtAll
<1> QED
  BY <1>1, <1>3, <1>4 DEF Maps

\* What a pointer buffer costs, and what is kept of its size.
Costs(old, new, size) ==
    size <= old.pointer_size => new.pointer_size = old.pointer_size - size

\* cmifRequestInPointer.
LEMMA InPointerAdds ==
    ASSUME NEW req, Writable(req), NEW buf, buf.ptr \in Nat, buf.size \in Nat,
           NEW new, new = cmifRequestInPointer(req, buf)
    PROVE  /\ Writable(new) /\ Costs(req, new, buf.size)
           /\ \E e \in [Written -> Entry] :
                /\ Adds(req, new, {"send_statics"}, e)
                /\ e["send_statics"].address = buf.ptr
                /\ e["send_statics"].size = U16(buf.size)
<1> DEFINE x == hipcMakeSendStatic(buf.ptr, buf.size, req.cur_in_ptr_id)
           mid == Put(req, "send_statics", x)
           next == [mid EXCEPT !.cur_in_ptr_id = @ + 1]
<1>1. x \in Entry /\ x.address = buf.ptr /\ x.size = U16(buf.size)
  <2>1. Field(req.cur_in_ptr_id, 64) \in 0..63 /\ U16(buf.size) \in Sizes
    BY FieldIs, U16Is DEF Writable
  <2> QED
    BY <2>1 DEF hipcMakeSendStatic, Statics, Entry
<1>2. "send_statics" \in Written
  BY WrittenAre
<1> HIDE DEF x
<1>3. /\ Writable(mid) /\ Adds(req, mid, {"send_statics"}, AtAll(x))
      /\ mid.pointer_size = req.pointer_size
  BY <1>1, <1>2, PutAdds
<1> HIDE DEF mid
<1>4. Writable(next) /\ next.put = mid.put /\ next.pointer_size = mid.pointer_size
  <2>1. PICK n : n = mid.cur_in_ptr_id + 1 /\ next = [mid EXCEPT !.cur_in_ptr_id = n]
    BY Zenon
  <2>2. {"put", "pointer_size", "cur_in_ptr_id"} \subseteq DOMAIN mid /\ n \in Nat
    BY <1>3, <2>1 DEF Writable
  <2> HIDE DEF next
  <2>3. /\ DOMAIN next = DOMAIN mid /\ next.put = mid.put /\ next.pointer_size = mid.pointer_size
        /\ next.cur_in_ptr_id = n
    BY <2>1, <2>2
  <2> QED
    BY <1>3, <2>2, <2>3 DEF Writable
<1>5. new = Spend(next, buf.size)
  BY Zenon DEF cmifRequestInPointer, next, mid, x
<1> HIDE DEF next
<1>6. Writable(new) /\ new.put = mid.put /\ Costs(req, new, buf.size)
  <2>1. /\ Writable(new) /\ new.put = next.put
        /\ buf.size <= next.pointer_size => new.pointer_size = next.pointer_size - buf.size
    BY <1>4, <1>5, SpendIs
  <2> QED
    BY <1>3, <1>4, <2>1 DEF Costs
<1>7. Adds(req, new, {"send_statics"}, AtAll(x))
  BY <1>3, <1>6, AddsSame
<1>8. AtAll(x) \in [Written -> Entry] /\ AtAll(x)["send_statics"] = x
  BY <1>1, <1>2 DEF AtAll
<1> QED
  BY <1>1, <1>6, <1>7, <1>8

\* cmifRequestOutFixedPointer.
LEMMA OutFixedAdds ==
    ASSUME NEW req, Writable(req), NEW buf, buf.ptr \in Nat, buf.size \in Nat,
           NEW new, new = cmifRequestOutFixedPointer(req, buf)
    PROVE  /\ Writable(new) /\ Costs(req, new, buf.size)
           /\ \E e \in [Written -> Entry] :
                /\ Adds(req, new, {"recv_list"}, e)
                /\ e["recv_list"].address = buf.ptr
                /\ e["recv_list"].size = U16(buf.size)
<1> DEFINE x == hipcMakeRecvStatic(buf.ptr, buf.size)
           mid == Put(req, "recv_list", x)
<1>1. x \in Entry /\ x.address = buf.ptr /\ x.size = U16(buf.size)
  <2>1. U16(buf.size) \in Sizes
    BY U16Is
  <2> QED
    BY <2>1 DEF hipcMakeRecvStatic, RecvStatics, Entry
<1>2. "recv_list" \in Written
  BY WrittenAre
<1> HIDE DEF x
<1>3. /\ Writable(mid) /\ Adds(req, mid, {"recv_list"}, AtAll(x))
      /\ mid.pointer_size = req.pointer_size
  BY <1>1, <1>2, PutAdds
<1>5. new = Spend(mid, buf.size)
  BY Zenon DEF cmifRequestOutFixedPointer, mid, x
<1> HIDE DEF mid
<1>6. Writable(new) /\ new.put = mid.put /\ Costs(req, new, buf.size)
  <2>1. /\ Writable(new) /\ new.put = mid.put
        /\ buf.size <= mid.pointer_size => new.pointer_size = mid.pointer_size - buf.size
    BY <1>3, <1>5, SpendIs
  <2> QED
    BY <1>3, <2>1 DEF Costs
<1>7. Adds(req, new, {"recv_list"}, AtAll(x))
  BY <1>3, <1>6, AddsSame
<1>8. AtAll(x) \in [Written -> Entry] /\ AtAll(x)["recv_list"] = x
  BY <1>1, <1>2 DEF AtAll
<1> QED
  BY <1>1, <1>6, <1>7, <1>8

\* cmifRequestOutPointer.
LEMMA OutPointerAdds ==
    ASSUME NEW req, Writable(req), NEW buf, buf.ptr \in Nat, buf.size \in Nat,
           NEW new, new = cmifRequestOutPointer(req, buf)
    PROVE  /\ Writable(new) /\ Costs(req, new, buf.size)
           /\ \E e \in [Written -> Entry] :
                /\ Adds(req, new, {"recv_list", "table"}, e)
                /\ e["recv_list"].address = buf.ptr
                /\ e["recv_list"].size = U16(buf.size)
<1> DEFINE mid == cmifRequestOutFixedPointer(req, buf)
           x == U16(buf.size)
<1>1. new = Put(mid, "table", x)
  BY Zenon DEF cmifRequestOutPointer
<1>2. /\ Writable(mid) /\ Costs(req, mid, buf.size)
      /\ \E e \in [Written -> Entry] :
           /\ Adds(req, mid, {"recv_list"}, e)
           /\ e["recv_list"].address = buf.ptr
           /\ e["recv_list"].size = U16(buf.size)
  BY OutFixedAdds
<1> HIDE DEF mid
<1>3. PICK e \in [Written -> Entry] :
           /\ Adds(req, mid, {"recv_list"}, e)
           /\ e["recv_list"].address = buf.ptr
           /\ e["recv_list"].size = U16(buf.size)
  BY <1>2
<1>4. x \in Entry /\ {"recv_list", "table"} \subseteq Written
  BY U16Is, WrittenAre DEF Entry, Sizes
<1>5. /\ Writable(new) /\ Adds(mid, new, {"table"}, AtAll(x)) /\ new.pointer_size = mid.pointer_size
  BY <1>1, <1>2, <1>4, PutAdds
<1>6. Costs(req, new, buf.size)
  BY <1>2, <1>5 DEF Costs
<1> DEFINE f == Both({"recv_list"}, e, AtAll(x))
<1>7. /\ f \in [Written -> Entry] /\ f["recv_list"] = e["recv_list"]
  BY <1>3, <1>4 DEF Both, AtAll
<1>8. Adds(req, new, {"recv_list"} \cup {"table"}, f)
  BY <1>3, <1>5, AddsBoth
<1>9. {"recv_list"} \cup {"table"} = {"recv_list", "table"}
  OBVIOUS
<1>10. Adds(req, new, {"recv_list", "table"}, f)
  BY <1>8, <1>9
<1> HIDE DEF f
<1> QED
  BY <1>3, <1>5, <1>6, <1>7, <1>10

-----------------------------------------------------------------------------
\* Auto-select buffers.


LEMMA NoBufferIs ==
    /\ NoBuffer.ptr \in Nat /\ NoBuffer.size \in Nat
    /\ NoBuffer.ptr = 0 /\ NoBuffer.size = 0
BY DEF NoBuffer, NullPtr

\* Of the two entries of an auto-select buffer one is empty; the other side sees
\* the other one.
LEMMA EitherSeen ==
    ASSUME NEW d, NEW m, NEW buf, buf.ptr \in Nat, buf.size \in Nat, NEW p, NEW q,
           d.address = p.ptr, d.size = U16(p.size), SeenAs(m) = Shown(q),
           \/ p = buf /\ q = NoBuffer /\ buf.size \in Sizes
           \/ p = NoBuffer /\ q = buf
    PROVE  SeenEither(d, m) = Shown(buf)
<1>1. m.address = q.ptr /\ m.size = q.size
  BY DEF SeenAs, Shown
<1>2. 0 \in Sizes /\ U16(0) = 0
  BY U16Is DEF Sizes
<1>3. CASE p = buf /\ q = NoBuffer /\ buf.size \in Sizes
  <2>1. SeenEither(d, m) = SeenAs(d)
    BY <1>1, <1>3, NoBufferIs DEF SeenEither, NullPtr
  <2>2. d.address = buf.ptr /\ d.size = buf.size
    BY <1>3, U16Is
  <2> QED
    BY <2>1, <2>2 DEF SeenAs, Shown
<1>4. CASE p = NoBuffer /\ q = buf
  <2>1. d.address = 0 /\ d.size = 0
    BY <1>2, <1>4, NoBufferIs
  <2> QED
    BY <1>1, <1>4, <2>1 DEF SeenEither, SeenAs, Shown, NullPtr
<1> QED
  BY <1>3, <1>4

\* What there is of room, and whether a descriptor of 16 bits says it all.
Spares(old, new, size) == size \in Nat /\ new.pointer_size + size <= old.pointer_size
\* The size of an auto-select buffer is not cut: it fits into 16 bits, or what does
\* not goes to a mapped buffer.
Tells(req, buf) == buf.size \in Sizes \/ req.pointer_size \in Sizes

\* What FitsPointer lets through the pointer buffer fits into it.
LEMMA FitIs ==
    ASSUME NEW req, Writable(req), NEW buf, buf.size \in Nat
    PROVE  /\ FitsPointer(req, buf) => buf.size <= req.pointer_size
           /\ FitsPointer(req, buf) /\ Tells(req, buf) => buf.size \in Sizes
           /\ NoBuffer.size <= req.pointer_size
           /\ req.pointer_size \in Int
<1>1. req.pointer_size \in Nat
  BY DEF Writable, Rooms
<1> QED
  BY <1>1, NoBufferIs DEF FitsPointer, Tells, Sizes

LEMMA CostSpares ==
    ASSUME NEW old, NEW new, old.pointer_size \in Int, NEW size \in Nat, NEW d,
           Costs(old, new, size), size <= old.pointer_size, d = U16(size)
    PROVE  Spares(old, new, d)
<1>1. U16(size) <= size /\ U16(size) \in Nat
  BY U16Is DEF Sizes
<1> QED
  BY <1>1 DEF Costs, Spares

\* What goes through the pointer buffer, p, and what is mapped, q.
LEMMA AutoParts ==
    ASSUME NEW req, Writable(req), NEW buf, buf.ptr \in Nat, buf.size \in Nat,
           NEW p, NEW q, IF FitsPointer(req, buf) THEN p = buf /\ q = NoBuffer
                                                  ELSE p = NoBuffer /\ q = buf
    PROVE  /\ p.ptr \in Nat /\ p.size \in Nat /\ q.ptr \in Nat /\ q.size \in Nat
           /\ p.size <= req.pointer_size
BY FitIs, NoBufferIs

\* cmifRequestInAutoBuffer.
LEMMA InAutoAdds ==
    ASSUME NEW req, Writable(req), NEW buf, buf.ptr \in Nat, buf.size \in Nat,
           NEW mode \in Modes, NEW new, new = cmifRequestInAutoBuffer(req, buf, mode)
    PROVE  /\ Writable(new)
           /\ \E e \in [Written -> Entry] :
                /\ Adds(req, new, {"send_statics", "send_buffers"}, e)
                /\ Spares(req, new, e["send_statics"].size)
                /\ Tells(req, buf) =>
                      SeenEither(e["send_statics"], e["send_buffers"]) = Shown(buf)
<1>1. PICK p, q : IF FitsPointer(req, buf) THEN p = buf /\ q = NoBuffer
                                           ELSE p = NoBuffer /\ q = buf
  OBVIOUS
<1>2. /\ p.ptr \in Nat /\ p.size \in Nat /\ q.ptr \in Nat /\ q.size \in Nat
      /\ p.size <= req.pointer_size
  BY <1>1, AutoParts
<1>3. PICK mid : mid = cmifRequestInPointer(req, p)
  OBVIOUS
<1>4. new = cmifRequestInBuffer(mid, q, mode)
  BY <1>1, <1>3, Zenon DEF cmifRequestInAutoBuffer
<1>5. /\ Writable(mid) /\ Costs(req, mid, p.size)
      /\ \E e \in [Written -> Entry] :
           /\ Adds(req, mid, {"send_statics"}, e)
           /\ e["send_statics"].address = p.ptr
           /\ e["send_statics"].size = U16(p.size)
  BY <1>2, <1>3, InPointerAdds
<1>6. PICK e \in [Written -> Entry] :
           /\ Adds(req, mid, {"send_statics"}, e)
           /\ e["send_statics"].address = p.ptr
           /\ e["send_statics"].size = U16(p.size)
  BY <1>5
<1>7. /\ Writable(new) /\ new.pointer_size = mid.pointer_size
      /\ Maps(mid, new, "send_buffers", q)
  <2>1. new = Put(mid, "send_buffers", hipcMakeBuffer(q.ptr, q.size, mode))
    BY <1>4, Zenon DEF cmifRequestInBuffer
  <2>2. "send_buffers" \in MappedRegions
    BY DEF MappedRegions
  <2> QED
    BY <1>2, <1>5, <2>1, <2>2, BufferAdds
<1>8. PICK f \in [Written -> Entry] :
           /\ Adds(mid, new, {"send_buffers"}, f)
           /\ SeenAs(f["send_buffers"]) = Shown(q)
  BY <1>7 DEF Maps
<1> DEFINE g == Both({"send_statics"}, e, f)
<1>9. /\ g \in [Written -> Entry] /\ g["send_statics"] = e["send_statics"]
      /\ g["send_buffers"] = f["send_buffers"]
  BY <1>6, <1>8, WrittenAre DEF Both
<1>10. Adds(req, new, {"send_statics", "send_buffers"}, g)
  <2>1. Adds(req, new, {"send_statics"} \cup {"send_buffers"}, g)
    BY <1>6, <1>8, AddsBoth
  <2>2. {"send_statics"} \cup {"send_buffers"} = {"send_statics", "send_buffers"}
    OBVIOUS
  <2> QED
    BY <2>1, <2>2
<1> HIDE DEF g
<1>11. Spares(req, new, g["send_statics"].size)
  <2>1. Costs(req, new, p.size)
    BY <1>5, <1>7 DEF Costs
  <2> QED
    BY <1>2, <1>6, <1>9, <2>1, FitIs, CostSpares
<1>12. Tells(req, buf) => SeenEither(g["send_statics"], g["send_buffers"]) = Shown(buf)
  BY <1>1, <1>6, <1>8, <1>9, FitIs, EitherSeen
<1> QED
  BY <1>7, <1>9, <1>10, <1>11, <1>12

\* cmifRequestOutAutoBuffer.
LEMMA OutAutoAdds ==
    ASSUME NEW req, Writable(req), NEW buf, buf.ptr \in Nat, buf.size \in Nat,
           NEW mode \in Modes, NEW new, new = cmifRequestOutAutoBuffer(req, buf, mode)
    PROVE  /\ Writable(new)
           /\ \E e \in [Written -> Entry] :
                /\ Adds(req, new, {"recv_list", "table", "recv_buffers"}, e)
                /\ Spares(req, new, e["recv_list"].size)
                /\ Tells(req, buf) =>
                      SeenEither(e["recv_list"], e["recv_buffers"]) = Shown(buf)
<1>1. PICK p, q : IF FitsPointer(req, buf) THEN p = buf /\ q = NoBuffer
                                           ELSE p = NoBuffer /\ q = buf
  OBVIOUS
<1>2. /\ p.ptr \in Nat /\ p.size \in Nat /\ q.ptr \in Nat /\ q.size \in Nat
      /\ p.size <= req.pointer_size
  BY <1>1, AutoParts
<1>3. PICK mid : mid = cmifRequestOutPointer(req, p)
  OBVIOUS
<1>4. new = cmifRequestOutBuffer(mid, q, mode)
  BY <1>1, <1>3, Zenon DEF cmifRequestOutAutoBuffer
<1>5. /\ Writable(mid) /\ Costs(req, mid, p.size)
      /\ \E e \in [Written -> Entry] :
           /\ Adds(req, mid, {"recv_list", "table"}, e)
           /\ e["recv_list"].address = p.ptr
           /\ e["recv_list"].size = U16(p.size)
  BY <1>2, <1>3, OutPointerAdds
<1>6. PICK e \in [Written -> Entry] :
           /\ Adds(req, mid, {"recv_list", "table"}, e)
           /\ e["recv_list"].address = p.ptr
           /\ e["recv_list"].size = U16(p.size)
  BY <1>5
<1>7. /\ Writable(new) /\ new.pointer_size = mid.pointer_size
      /\ Maps(mid, new, "recv_buffers", q)
  <2>1. new = Put(mid, "recv_buffers", hipcMakeBuffer(q.ptr, q.size, mode))
    BY <1>4, Zenon DEF cmifRequestOutBuffer
  <2>2. "recv_buffers" \in MappedRegions
    BY DEF MappedRegions
  <2> QED
    BY <1>2, <1>5, <2>1, <2>2, BufferAdds
<1>8. PICK f \in [Written -> Entry] :
           /\ Adds(mid, new, {"recv_buffers"}, f)
           /\ SeenAs(f["recv_buffers"]) = Shown(q)
  BY <1>7 DEF Maps
<1> DEFINE g == Both({"recv_list", "table"}, e, f)
<1>9. /\ g \in [Written -> Entry] /\ g["recv_list"] = e["recv_list"]
      /\ g["recv_buffers"] = f["recv_buffers"]
  BY <1>6, <1>8, WrittenAre DEF Both
<1>10. Adds(req, new, {"recv_list", "table", "recv_buffers"}, g)
  <2>1. Adds(req, new, {"recv_list", "table"} \cup {"recv_buffers"}, g)
    BY <1>6, <1>8, AddsBoth
  <2>2. {"recv_list", "table"} \cup {"recv_buffers"} = {"recv_list", "table", "recv_buffers"}
    OBVIOUS
  <2> QED
    BY <2>1, <2>2
<1> HIDE DEF g
<1>11. Spares(req, new, g["recv_list"].size)
  <2>1. Costs(req, new, p.size)
    BY <1>5, <1>7 DEF Costs
  <2> QED
    BY <1>2, <1>6, <1>9, <2>1, FitIs, CostSpares
<1>12. Tells(req, buf) => SeenEither(g["recv_list"], g["recv_buffers"]) = Shown(buf)
  BY <1>1, <1>6, <1>8, <1>9, FitIs, EitherSeen
<1> QED
  BY <1>7, <1>9, <1>10, <1>11, <1>12

-----------------------------------------------------------------------------
\* A buffer of a command: where it goes, and what the other side makes of it.

\* The regions that a buffer is written to, by its kind.
Uses(b) ==
    (IF InAuto(b) THEN {"send_statics", "send_buffers"} ELSE {})
    \cup (IF OutAuto(b) THEN {"recv_list", "table", "recv_buffers"} ELSE {})
    \cup (IF InPointer(b) THEN {"send_statics"} ELSE {})
    \cup (IF OutPointer(b) THEN {"recv_list", "table"} ELSE {})
    \cup (IF Fixed(b) THEN {"recv_list"} ELSE {})
    \cup (IF InMapped(b) THEN {"send_buffers"} ELSE {})
    \cup (IF OutMapped(b) THEN {"recv_buffers"} ELSE {})
    \cup (IF InOutMapped(b) THEN {"exch_buffers"} ELSE {})

\* What the other side sees of b if e are the entries of b: as an input, as an output.
SeenIn(e, b) ==
    CASE IsAuto(b) -> SeenEither(e["send_statics"], e["send_buffers"])
      [] Pointer(b) -> SeenAs(e["send_statics"])
      [] OTHER -> SeenAs(e[IF IsOut(b) THEN "exch_buffers" ELSE "send_buffers"])

SeenOut(e, b) ==
    CASE IsAuto(b) -> SeenEither(e["recv_list"], e["recv_buffers"])
      [] Pointer(b) -> SeenAs(e["recv_list"])
      [] OTHER -> SeenAs(e[IF IsIn(b) THEN "exch_buffers" ELSE "recv_buffers"])

\* It sees b.
Shows(e, b) == (IsIn(b) => SeenIn(e, b) = Shown(b)) /\ (IsOut(b) => SeenOut(e, b) = Shown(b))

\* What b takes of the pointer buffer.
Spent(e, b) ==
    (IF IsIn(b) THEN e["send_statics"].size ELSE 0) + (IF IsOut(b) THEN e["recv_list"].size ELSE 0)

\* What it spends of the room it finds.
Pays(req, new, e, b) ==
    /\ IsIn(b) => e["send_statics"].size \in Nat
    /\ IsOut(b) => e["recv_list"].size \in Nat
    /\ new.pointer_size + Spent(e, b) <= req.pointer_size

\* What is sent of it in 16 bits is all.
Told(req, b) ==
    /\ IsAuto(b) \/ Pointer(b) \/ Mapped(b)
    /\ IsAuto(b) => Tells(req, b)
    /\ Pointer(b) => b.size \in Sizes

LEMMA ModeIs == ASSUME NEW b PROVE ModeFor(b) \in Modes
BY DEF ModeFor, Modes

NoEntry == AtAll(0)
LEMMA NothingAdds ==
    ASSUME NEW req, Writable(req)
    PROVE  NoEntry \in [Written -> Entry] /\ Adds(req, req, {}, NoEntry)
<1>1. req.put \in [Written -> Seq(Entry)]
  BY DEF Writable
<1>2. req.put = [r \in Written |-> req.put[r]]
  BY <1>1
<1>3. NoEntry \in [Written -> Entry]
  BY DEF NoEntry, AtAll, Entry
<1> QED
  BY <1>2, <1>3 DEF Adds

\* The descriptor of an input or of an output.
LEMMA AutoProcess ==
    ASSUME NEW req, Writable(req), NEW b \in Buffers, IsAuto(b),
           NEW new, new = _serviceRequestProcessBuffer(req, b)
    PROVE  /\ Writable(new)
           /\ \E e \in [Written -> Entry] :
                /\ Adds(req, new, Uses(b), e)
                /\ Pays(req, new, e, b)
                /\ Tells(req, b) => Shows(e, b)
<1>0. b.ptr \in Nat /\ b.size \in Nat /\ ModeFor(b) \in Modes
  BY ModeIs DEF Buffers
<1>1. PICK mid : mid = IF IsIn(b) THEN cmifRequestInAutoBuffer(req, b, ModeFor(b)) ELSE req
  OBVIOUS
<1>2. new = IF IsOut(b) THEN cmifRequestOutAutoBuffer(mid, b, ModeFor(b)) ELSE mid
  BY <1>1, Zenon DEF _serviceRequestProcessBuffer, If
<1>3. PICK R : R = IF IsIn(b) THEN {"send_statics", "send_buffers"} ELSE {}
  OBVIOUS
<1>4. PICK T : T = IF IsOut(b) THEN {"recv_list", "table", "recv_buffers"} ELSE {}
  OBVIOUS
<1>5. Uses(b) = R \cup T /\ R \cap T = {}
  BY <1>3, <1>4
  DEF Uses, InAuto, OutAuto, InPointer, OutPointer, Fixed, Pointer, InMapped, OutMapped,
     InOutMapped, Mapped
<1>6. /\ Writable(mid)
      /\ \E e \in [Written -> Entry] :
           /\ Adds(req, mid, R, e)
           /\ IF IsIn(b) THEN Spares(req, mid, e["send_statics"].size) ELSE mid = req
           /\ IsIn(b) /\ Tells(req, b) =>
                 SeenEither(e["send_statics"], e["send_buffers"]) = Shown(b)
  <2>1. CASE IsIn(b)
    BY <1>0, <1>1, <1>3, <2>1, InAutoAdds
  <2>2. CASE ~IsIn(b)
    BY <1>1, <1>3, <2>2, NothingAdds
  <2> QED
    BY <2>1, <2>2
<1>7. PICK e \in [Written -> Entry] :
           /\ Adds(req, mid, R, e)
           /\ IF IsIn(b) THEN Spares(req, mid, e["send_statics"].size) ELSE mid = req
           /\ IsIn(b) /\ Tells(req, b) =>
                 SeenEither(e["send_statics"], e["send_buffers"]) = Shown(b)
  BY <1>6
<1>8. /\ Writable(new)
      /\ \E f \in [Written -> Entry] :
           /\ Adds(mid, new, T, f)
           /\ IF IsOut(b) THEN Spares(mid, new, f["recv_list"].size) ELSE new = mid
           /\ IsOut(b) /\ Tells(mid, b) =>
                 SeenEither(f["recv_list"], f["recv_buffers"]) = Shown(b)
  <2>1. CASE IsOut(b)
    BY <1>0, <1>2, <1>4, <1>6, <2>1, OutAutoAdds
  <2>2. CASE ~IsOut(b)
    BY <1>2, <1>4, <1>6, <2>2, NothingAdds
  <2> QED
    BY <2>1, <2>2
<1>9. PICK f \in [Written -> Entry] :
           /\ Adds(mid, new, T, f)
           /\ IF IsOut(b) THEN Spares(mid, new, f["recv_list"].size) ELSE new = mid
           /\ IsOut(b) /\ Tells(mid, b) =>
                 SeenEither(f["recv_list"], f["recv_buffers"]) = Shown(b)
  BY <1>8
<1> DEFINE g == Both(R, e, f)
<1>10. /\ g \in [Written -> Entry]
       /\ IsIn(b) => /\ g["send_statics"] = e["send_statics"]
                     /\ g["send_buffers"] = e["send_buffers"]
       /\ g["recv_list"] = f["recv_list"] /\ g["recv_buffers"] = f["recv_buffers"]
  BY <1>3, <1>7, <1>9, WrittenAre DEF Both
<1>11. Adds(req, new, Uses(b), g)
  BY <1>5, <1>7, <1>9, AddsBoth
<1> HIDE DEF g
<1>12. req.pointer_size \in Nat /\ mid.pointer_size \in Nat /\ new.pointer_size \in Nat
  BY <1>6, <1>8 DEF Writable, Rooms
<1>13. Pays(req, new, g, b)
  <2>1. IsIn(b) => /\ g["send_statics"].size \in Nat
                   /\ mid.pointer_size + g["send_statics"].size <= req.pointer_size
    BY <1>7, <1>10 DEF Spares
  <2>2. IsOut(b) => /\ g["recv_list"].size \in Nat
                    /\ new.pointer_size + g["recv_list"].size <= mid.pointer_size
    BY <1>9, <1>10 DEF Spares
  <2>3. (~IsIn(b) => mid = req) /\ (~IsOut(b) => new = mid)
    BY <1>7, <1>9
  <2>4. PICK i, o : /\ i = IF IsIn(b) THEN g["send_statics"].size ELSE 0
                    /\ o = IF IsOut(b) THEN g["recv_list"].size ELSE 0
    OBVIOUS
  <2>5. i \in Nat /\ mid.pointer_size + i <= req.pointer_size
    BY <1>12, <2>1, <2>3, <2>4
  <2>6. o \in Nat /\ new.pointer_size + o <= mid.pointer_size
    BY <1>12, <2>2, <2>3, <2>4
  <2>7. Spent(g, b) = i + o
    BY <2>4, Zenon DEF Spent
  <2>8. \A n, m, k \in Nat : m + i <= k /\ n + o <= m => n + (i + o) <= k
    BY <2>5, <2>6
  <2>9. new.pointer_size + (i + o) <= req.pointer_size
    BY <1>12, <2>5, <2>6, <2>8
  <2> QED
    BY <2>1, <2>2, <2>7, <2>9, Zenon DEF Pays
<1>14. ASSUME Tells(req, b) PROVE Shows(g, b)
  <2>1. Tells(mid, b)
    <3>1. mid.pointer_size <= req.pointer_size
      BY <1>7, <1>12 DEF Spares
    <3> QED
      BY <1>12, <1>14, <3>1 DEF Tells, Sizes
  <2>2. /\ IsIn(b) => SeenEither(g["send_statics"], g["send_buffers"]) = Shown(b)
        /\ IsOut(b) => SeenEither(g["recv_list"], g["recv_buffers"]) = Shown(b)
    BY <1>7, <1>9, <1>10, <1>14, <2>1
  <2> QED
    BY <2>2 DEF Shows, SeenIn, SeenOut, Pointer
<1>15. g \in [Written -> Entry]
  BY <1>10
<1> QED
  BY <1>8, <1>11, <1>13, <1>14, <1>15, Zenon

\* A buffer that goes through the server's pointer buffer in any case.
LEMMA PointerProcess ==
    ASSUME NEW req, Writable(req), NEW b \in Buffers, Pointer(b),
           NEW new, new = _serviceRequestProcessBuffer(req, b)
    PROVE  /\ Writable(new)
           /\ \E e \in [Written -> Entry] :
                /\ Adds(req, new, Uses(b), e)
                /\ b.size \in Sizes => Shows(e, b)
<1>0. b.ptr \in Nat /\ b.size \in Nat /\ ~IsAuto(b)
  BY DEF Buffers, Pointer
<1>1. PICK mid : mid = IF IsIn(b) THEN cmifRequestInPointer(req, b) ELSE req
  OBVIOUS
<1>2. new = IF Fixed(b) THEN cmifRequestOutFixedPointer(mid, b)
            ELSE IF IsOut(b) THEN cmifRequestOutPointer(mid, b) ELSE mid
  <2>1. new = CASE Fixed(b) -> cmifRequestOutFixedPointer(mid, b)
                [] OutPointer(b) -> cmifRequestOutPointer(mid, b)
                [] OTHER -> mid
    BY <1>0, <1>1, Zenon DEF _serviceRequestProcessBuffer, If
  <2>2. OutPointer(b) <=> IsOut(b) /\ ~Fixed(b)
    BY DEF OutPointer
  <2> QED
    BY <2>1, <2>2
<1>3. PICK R : R = IF IsIn(b) THEN {"send_statics"} ELSE {}
  OBVIOUS
<1>4. PICK T : T = IF Fixed(b) THEN {"recv_list"}
                   ELSE IF IsOut(b) THEN {"recv_list", "table"} ELSE {}
  OBVIOUS
<1>5. Uses(b) = R \cup T /\ R \cap T = {} /\ (Fixed(b) => IsOut(b))
  BY <1>0, <1>3, <1>4 DEF Uses, InAuto, OutAuto, InPointer, OutPointer, Fixed, InMapped, OutMapped,
     InOutMapped, Mapped
<1>6. /\ Writable(mid)
      /\ \E e \in [Written -> Entry] :
           /\ Adds(req, mid, R, e)
           /\ IsIn(b) => e["send_statics"].address = b.ptr /\ e["send_statics"].size = U16(b.size)
  <2>1. CASE IsIn(b)
    BY <1>0, <1>1, <1>3, <2>1, InPointerAdds
  <2>2. CASE ~IsIn(b)
    BY <1>1, <1>3, <2>2, NothingAdds
  <2> QED
    BY <2>1, <2>2
<1>7. PICK e \in [Written -> Entry] :
           /\ Adds(req, mid, R, e)
           /\ IsIn(b) => e["send_statics"].address = b.ptr /\ e["send_statics"].size = U16(b.size)
  BY <1>6
<1>8. /\ Writable(new)
      /\ \E f \in [Written -> Entry] :
           /\ Adds(mid, new, T, f)
           /\ IsOut(b) => f["recv_list"].address = b.ptr /\ f["recv_list"].size = U16(b.size)
  <2>1. CASE Fixed(b)
    BY <1>0, <1>2, <1>4, <1>6, <2>1, OutFixedAdds
  <2>2. CASE ~Fixed(b) /\ IsOut(b)
    BY <1>0, <1>2, <1>4, <1>6, <2>2, OutPointerAdds
  <2>3. CASE ~IsOut(b)
    BY <1>2, <1>4, <1>5, <1>6, <2>3, NothingAdds
  <2> QED
    BY <2>1, <2>2, <2>3
<1>9. PICK f \in [Written -> Entry] :
           /\ Adds(mid, new, T, f)
           /\ IsOut(b) => f["recv_list"].address = b.ptr /\ f["recv_list"].size = U16(b.size)
  BY <1>8
<1> DEFINE g == Both(R, e, f)
<1>10. /\ g \in [Written -> Entry]
       /\ IsIn(b) => g["send_statics"] = e["send_statics"]
       /\ g["recv_list"] = f["recv_list"]
  BY <1>3, <1>7, <1>9, WrittenAre DEF Both
<1>11. Adds(req, new, Uses(b), g)
  BY <1>5, <1>7, <1>9, AddsBoth
<1> HIDE DEF g
<1>12. ASSUME b.size \in Sizes PROVE Shows(g, b)
  <2>1. U16(b.size) = b.size
    BY <1>0, <1>12, U16Is
  <2>2. /\ IsIn(b) => SeenAs(g["send_statics"]) = Shown(b)
        /\ IsOut(b) => SeenAs(g["recv_list"]) = Shown(b)
    BY <1>7, <1>9, <1>10, <2>1 DEF SeenAs, Shown
  <2> QED
    BY <1>0, <2>2 DEF Shows, SeenIn, SeenOut
<1> QED
  BY <1>8, <1>10, <1>11, <1>12

\* A buffer that is mapped, in one direction or both.
LEMMA MappedProcess ==
    ASSUME NEW req, Writable(req), NEW b \in Buffers, ~IsAuto(b), ~Pointer(b),
           NEW new, new = _serviceRequestProcessBuffer(req, b)
    PROVE  /\ Writable(new) /\ new.pointer_size = req.pointer_size
           /\ \E e \in [Written -> Entry] :
                /\ Adds(req, new, Uses(b), e)
                /\ Mapped(b) => Shows(e, b)
<1>0. b.ptr \in Nat /\ b.size \in Nat /\ ModeFor(b) \in Modes
  BY ModeIs DEF Buffers
<1>1. new = CASE InOutMapped(b) -> cmifRequestInOutBuffer(req, b, ModeFor(b))
              [] InMapped(b) -> cmifRequestInBuffer(req, b, ModeFor(b))
              [] OutMapped(b) -> cmifRequestOutBuffer(req, b, ModeFor(b))
              [] OTHER -> req
  BY Zenon DEF _serviceRequestProcessBuffer
<1>2. /\ ~InAuto(b) /\ ~OutAuto(b) /\ ~InPointer(b) /\ ~OutPointer(b) /\ ~Fixed(b)
      /\ InOutMapped(b) <=> Mapped(b) /\ IsIn(b) /\ IsOut(b)
      /\ InMapped(b) <=> Mapped(b) /\ IsIn(b) /\ ~IsOut(b)
      /\ OutMapped(b) <=> Mapped(b) /\ IsOut(b) /\ ~IsIn(b)
  BY DEF InAuto, OutAuto, InPointer, OutPointer, Fixed, InMapped, OutMapped, InOutMapped
<1>3. ASSUME NEW r \in MappedRegions, Uses(b) = {r},
             new = Put(req, r, hipcMakeBuffer(b.ptr, b.size, ModeFor(b))),
             \A e : IsIn(b) => SeenIn(e, b) = SeenAs(e[r]),
             \A e : IsOut(b) => SeenOut(e, b) = SeenAs(e[r])
      PROVE  /\ Writable(new) /\ new.pointer_size = req.pointer_size
             /\ \E e \in [Written -> Entry] : Adds(req, new, Uses(b), e) /\ Shows(e, b)
  <2>1. Writable(new) /\ new.pointer_size = req.pointer_size /\ Maps(req, new, r, b)
    BY <1>0, <1>3, BufferAdds
  <2>2. PICK e \in [Written -> Entry] : Adds(req, new, {r}, e) /\ SeenAs(e[r]) = Shown(b)
    BY <2>1 DEF Maps
  <2>3. Shows(e, b)
    BY <1>3, <2>2 DEF Shows
  <2> QED
    BY <1>3, <2>1, <2>2, <2>3
<1>4. CASE InOutMapped(b)
  <2>1. new = Put(req, "exch_buffers", hipcMakeBuffer(b.ptr, b.size, ModeFor(b)))
    BY <1>1, <1>2, <1>4 DEF cmifRequestInOutBuffer
  <2>2. Uses(b) = {"exch_buffers"}
    BY <1>2, <1>4 DEF Uses
  <2>3. \A e : SeenIn(e, b) = SeenAs(e["exch_buffers"]) /\ SeenOut(e, b) = SeenAs(e["exch_buffers"])
    BY <1>2, <1>4 DEF SeenIn, SeenOut
  <2>4. "exch_buffers" \in MappedRegions
    BY DEF MappedRegions
  <2> QED
    BY <1>3, <2>1, <2>2, <2>3, <2>4
<1>5. CASE InMapped(b)
  <2>1. new = Put(req, "send_buffers", hipcMakeBuffer(b.ptr, b.size, ModeFor(b)))
    BY <1>1, <1>2, <1>5 DEF cmifRequestInBuffer
  <2>2. Uses(b) = {"send_buffers"}
    BY <1>2, <1>5 DEF Uses
  <2>3. ~IsOut(b) /\ \A e : SeenIn(e, b) = SeenAs(e["send_buffers"])
    BY <1>2, <1>5 DEF SeenIn
  <2>4. "send_buffers" \in MappedRegions
    BY DEF MappedRegions
  <2> QED
    BY <1>3, <2>1, <2>2, <2>3, <2>4
<1>6. CASE OutMapped(b)
  <2>1. new = Put(req, "recv_buffers", hipcMakeBuffer(b.ptr, b.size, ModeFor(b)))
    BY <1>1, <1>2, <1>6 DEF cmifRequestOutBuffer
  <2>2. Uses(b) = {"recv_buffers"}
    BY <1>2, <1>6 DEF Uses
  <2>3. ~IsIn(b) /\ \A e : SeenOut(e, b) = SeenAs(e["recv_buffers"])
    BY <1>2, <1>6 DEF SeenOut
  <2>4. "recv_buffers" \in MappedRegions
    BY DEF MappedRegions
  <2> QED
    BY <1>3, <2>1, <2>2, <2>3, <2>4
<1>7. CASE ~InOutMapped(b) /\ ~InMapped(b) /\ ~OutMapped(b)
  <2>1. new = req
    BY <1>1, <1>7
  <2>2. Uses(b) = {}
    BY <1>2, <1>7 DEF Uses
  <2>3. Mapped(b) => ~IsIn(b) /\ ~IsOut(b)
    BY <1>2, <1>7
  <2>4. Mapped(b) => Shows(NoEntry, b)
    BY <2>3 DEF Shows
  <2> QED
    BY <2>1, <2>2, <2>4, NothingAdds
<1> QED
  BY <1>4, <1>5, <1>6, <1>7

\* _serviceRequestProcessBuffer: one entry in each region that the buffer uses.
LEMMA ProcessIs ==
    ASSUME NEW req, Writable(req), NEW b \in Buffers,
           NEW new, new = _serviceRequestProcessBuffer(req, b)
    PROVE  /\ Writable(new)
           /\ \E e \in [Written -> Entry] :
                /\ Adds(req, new, Uses(b), e)
                /\ IsAuto(b) => Pays(req, new, e, b)
                /\ Told(req, b) => Shows(e, b)
           /\ ~IsAuto(b) /\ ~Pointer(b) => new.pointer_size = req.pointer_size
<1>1. CASE IsAuto(b)
  BY <1>1, AutoProcess DEF Told
<1>2. CASE Pointer(b)
  <2>1. ~IsAuto(b)
    BY <1>2 DEF Pointer
  <2> QED
    BY <1>2, <2>1, PointerProcess DEF Told
<1>3. CASE ~IsAuto(b) /\ ~Pointer(b)
  <2>1. Told(req, b) => Mapped(b)
    BY <1>3 DEF Told
  <2> QED
    BY <1>3, <2>1, MappedProcess
<1> QED
  BY <1>1, <1>2, <1>3

-----------------------------------------------------------------------------
\* serviceMakeRequest: the buffers of a command one by one, and sums of sizes.

\* A request before its buffers and after each of them.

\* f is first, and then what each buffer in turn makes of it.
Fills(f, first, b) ==
    /\ f[0] = first
    /\ \A n \in 1..Len(b) : f[n] = _serviceRequestProcessBuffer(f[n - 1], b[n])

\* The same as the recursive function of serviceMakeRequest.
Filled(first, b) ==
    CHOOSE f : f = [n \in 0..Len(b) |-> IF n = 0 THEN first
                                        ELSE _serviceRequestProcessBuffer(f[n - 1], b[n])]

LEMMA FillsExists ==
    ASSUME NEW first, NEW b, Len(b) \in Nat
    PROVE  \E f : Fills(f, first, b)
<1> DEFINE N == Len(b)
           Upto(g, k) == /\ g[0] = first
                         /\ \A n \in 1..k : g[n] = _serviceRequestProcessBuffer(g[n - 1], b[n])
           S == {k \in Nat : \E g : Upto(g, k)}
<1>1. 0 \in S
  <2>1. Upto([n \in {0} |-> first], 0)
    OBVIOUS
  <2> QED
    BY <2>1, Zenon
<1>2. ASSUME NEW k \in Nat, k \in S PROVE k + 1 \in S
  <2>1. PICK g : Upto(g, k)
    BY <1>2
  <2>2. PICK h : h = [n \in 0..(k + 1) |-> IF n = k + 1
                                           THEN _serviceRequestProcessBuffer(g[k], b[n]) ELSE g[n]]
    OBVIOUS
  <2>3. h[0] = first /\ k + 1 \in Nat
    BY <2>1, <2>2
  <2>4. ASSUME NEW n \in 1..(k + 1) PROVE h[n] = _serviceRequestProcessBuffer(h[n - 1], b[n])
    <3>1. CASE n = k + 1
      <4>1. h[n] = _serviceRequestProcessBuffer(g[k], b[n]) /\ h[n - 1] = g[k]
        BY <2>2, <3>1
      <4> QED
        BY <4>1
    <3>2. CASE n # k + 1
      <4>1. n \in 1..k /\ h[n] = g[n] /\ h[n - 1] = g[n - 1]
        BY <2>2, <3>2
      <4>2. g[n] = _serviceRequestProcessBuffer(g[n - 1], b[n])
        BY <2>1, <4>1
      <4> QED
        BY <4>1, <4>2
    <3> QED
      BY <3>1, <3>2
  <2>5. Upto(h, k + 1)
    BY <2>3, <2>4
  <2> QED
    BY <2>3, <2>5, Zenon
<1> HIDE DEF S
<1>3. N \in S
  BY <1>1, <1>2, NaturalsIn
<1> QED
  BY <1>3 DEF S, Fills

LEMMA FilledIs ==
    ASSUME NEW first, NEW b, Len(b) \in Nat
    PROVE  Fills(Filled(first, b), first, b)
<1> DEFINE Is(f) == f = [n \in 0..Len(b) |-> IF n = 0 THEN first
                                        ELSE _serviceRequestProcessBuffer(f[n - 1], b[n])]
<1>1. PICK g : Fills(g, first, b)
  BY FillsExists
<1>2. PICK h : h = [n \in 0..Len(b) |-> g[n]]
  OBVIOUS
<1>3. Is(h)
  <2>1. ASSUME NEW n \in 0..Len(b)
        PROVE  g[n] = IF n = 0 THEN first ELSE _serviceRequestProcessBuffer(h[n - 1], b[n])
    <3>1. n # 0 => n \in 1..Len(b) /\ h[n - 1] = g[n - 1]
      BY <1>2
    <3> QED
      BY <1>1, <3>1 DEF Fills
  <2> QED
    BY <1>2, <2>1
<1>4. PICK f : f = Filled(first, b) /\ Is(f)
  BY <1>3, Zenon DEF Filled
<1>5. ASSUME NEW n \in 1..Len(b)
      PROVE f[n] = _serviceRequestProcessBuffer(f[n - 1], b[n])
  BY <1>4
<1>6. f[0] = first
  BY <1>4
<1> QED
  BY <1>4, <1>5, <1>6 DEF Fills

\* The objects and the handles of a command.
Handed(empty, s, cmd) ==
    LET named == IF s.object_id = 0 THEN empty ELSE [empty EXCEPT !.put["objects"] = cmd.objects]
    IN  [named EXCEPT !.put["copy_handles"] = cmd.handles]

\* What is in the regions before the buffers.
HandedPut(s, cmd) ==
    [r \in Written |-> IF r = "copy_handles" THEN cmd.handles
                       ELSE IF r = "objects" /\ s.object_id # 0 THEN cmd.objects ELSE <<>>]

\* What cmifMakeRequest leaves to be filled.
LEMMA EmptyIs ==
    ASSUME NEW s, NEW cmd, NEW empty, empty = cmifMakeRequest(Format(s, cmd))
    PROVE  /\ {"put", "pointer_size", "cur_in_ptr_id"} \subseteq DOMAIN empty
           /\ empty.put = [r \in Written |-> <<>>] /\ empty.cur_in_ptr_id = 0
           /\ empty.pointer_size = s.pointer_buffer_size
BY DEF cmifMakeRequest, Format, Written

\* A record with another region in place of one.
LEMMA PutIn ==
    ASSUME NEW req, {"put", "pointer_size", "cur_in_ptr_id"} \subseteq DOMAIN req,
           NEW r, NEW x, NEW new, new = [req EXCEPT !.put[r] = x]
    PROVE  /\ DOMAIN new = DOMAIN req /\ new.put = [req.put EXCEPT ![r] = x]
           /\ new.pointer_size = req.pointer_size /\ new.cur_in_ptr_id = req.cur_in_ptr_id
<1>1. PICK p : p = [req.put EXCEPT ![r] = x] /\ new = [req EXCEPT !.put = p]
  BY Zenon
<1>2. new = [req EXCEPT !.put = p]
  BY <1>1
<1>3. /\ DOMAIN new = DOMAIN req /\ new.put = p
      /\ new.pointer_size = req.pointer_size /\ new.cur_in_ptr_id = req.cur_in_ptr_id
  BY <1>2
<1> QED
  BY <1>1, <1>3

\* SfDispatchParams.
LEMMA ParamsAre ==
    ASSUME NEW cmd \in DispatchParams
    PROVE  /\ cmd.handles \in Seq(Nat) /\ cmd.objects \in Seq(Nat) /\ cmd.buffers \in Seq(Buffers)
           /\ Len(cmd.handles) <= 8 /\ Len(cmd.objects) <= 8 /\ Len(cmd.buffers) <= 8
           /\ cmd.data_size \in Nat /\ cmd.send_pid \in BOOLEAN
BY DEF DispatchParams, UpToEight

\* The request before its buffers.
LEMMA HandedIs ==
    ASSUME NEW s, s.pointer_buffer_size \in Sizes, NEW cmd \in DispatchParams,
           NEW empty, empty = cmifMakeRequest(Format(s, cmd)),
           NEW req, req = Handed(empty, s, cmd)
    PROVE  /\ Writable(req) /\ req.pointer_size = s.pointer_buffer_size
           /\ req.put = HandedPut(s, cmd)
<1>1. PICK named : named = IF s.object_id = 0 THEN empty
                           ELSE [empty EXCEPT !.put["objects"] = cmd.objects]
  OBVIOUS
<1>2. req = [named EXCEPT !.put["copy_handles"] = cmd.handles]
  BY <1>1, Zenon DEF Handed
<1>3. /\ {"put", "pointer_size", "cur_in_ptr_id"} \subseteq DOMAIN empty
      /\ empty.put = [r \in Written |-> <<>>] /\ empty.cur_in_ptr_id = 0
      /\ empty.pointer_size = s.pointer_buffer_size
  BY EmptyIs
<1>4. /\ DOMAIN named = DOMAIN empty
      /\ named.put = IF s.object_id = 0 THEN empty.put
                     ELSE [empty.put EXCEPT !["objects"] = cmd.objects]
      /\ named.pointer_size = empty.pointer_size /\ named.cur_in_ptr_id = empty.cur_in_ptr_id
  <2>1. CASE s.object_id = 0
    BY <1>1, <2>1
  <2>2. CASE s.object_id # 0
    BY <1>1, <1>3, <2>2, PutIn
  <2> QED
    BY <2>1, <2>2
<1>5. /\ DOMAIN req = DOMAIN empty
      /\ req.put = [named.put EXCEPT !["copy_handles"] = cmd.handles]
      /\ req.pointer_size = empty.pointer_size /\ req.cur_in_ptr_id = empty.cur_in_ptr_id
  BY <1>2, <1>3, <1>4, PutIn
<1>6. req.put = HandedPut(s, cmd)
  <2>1. CASE s.object_id = 0
    BY <1>3, <1>4, <1>5, <2>1 DEF HandedPut
  <2>2. CASE s.object_id # 0
    BY <1>3, <1>4, <1>5, <2>2 DEF HandedPut
  <2> QED
    BY <2>1, <2>2
<1>7. HandedPut(s, cmd) \in [Written -> Seq(Entry)]
  <2>1. cmd.handles \in Seq(Entry) /\ cmd.objects \in Seq(Entry) /\ <<>> \in Seq(Entry)
    <3>1. Nat \subseteq Entry
      BY DEF Entry
    <3>2. Seq(Nat) \subseteq Seq(Entry)
      BY <3>1
    <3> QED
      BY <3>2, ParamsAre
  <2> QED
    BY <2>1 DEF HandedPut
<1>8. s.pointer_buffer_size \in Rooms
  BY DEF Sizes, Rooms
<1>9. Writable(req)
  <2>1. req.put \in [Written -> Seq(Entry)]
    BY <1>6, <1>7, Zenon
  <2> QED
    BY <1>3, <1>5, <1>8, <2>1 DEF Writable
<1> QED
  BY <1>3, <1>5, <1>6, <1>9

\* The request after its last buffer.
LastOf(s, cmd) ==
    Filled(Handed(cmifMakeRequest(Format(s, cmd)), s, cmd), cmd.buffers)[Len(cmd.buffers)]

\* What serviceMakeRequest makes: the request of cmifMakeRequest, with what the
\* buffers left in the regions.
LEMMA MakeIs ==
    ASSUME NEW s, s.pointer_buffer_size \in Sizes, NEW cmd \in DispatchParams,
           NEW empty, empty = cmifMakeRequest(Format(s, cmd)),
           NEW req, req = serviceMakeRequest(s, cmd)
    PROVE  \E f : /\ Fills(f, Handed(empty, s, cmd), cmd.buffers)
                  /\ req.put = f[Len(cmd.buffers)].put
                  /\ \A x \in {"meta", "header", "layout", "data", "data_size", "objects",
                               "objects_at", "table_at", "table"} : req[x] = empty[x]
<1> DEFINE first == Handed(empty, s, cmd)
           f == Filled(first, cmd.buffers)
           last == f[Len(cmd.buffers)]
<1>0. serviceMakeRequest(s, cmd) =
         [cmifMakeRequest(Format(s, cmd)) EXCEPT
            !.put = LastOf(s, cmd).put, !.pointer_size = LastOf(s, cmd).pointer_size,
            !.cur_in_ptr_id = LastOf(s, cmd).cur_in_ptr_id]
  BY Zenon DEF serviceMakeRequest, LastOf, Handed, Filled
<1>1. req = [empty EXCEPT !.put = last.put, !.pointer_size = last.pointer_size,
                          !.cur_in_ptr_id = last.cur_in_ptr_id]
  BY <1>0, Zenon DEF LastOf
<1>2. Fills(f, first, cmd.buffers)
  BY ParamsAre, FilledIs
<1>3. PICK put, size, id : put = last.put /\ size = last.pointer_size /\ id = last.cur_in_ptr_id
  OBVIOUS
<1>4. PICK one, two : one = [empty EXCEPT !.put = put] /\ two = [one EXCEPT !.pointer_size = size]
  OBVIOUS
<1>5. req = [two EXCEPT !.cur_in_ptr_id = id]
  BY <1>1, <1>3, <1>4, Zenon
<1>6. {"put", "pointer_size", "cur_in_ptr_id"} \subseteq DOMAIN empty
  BY EmptyIs
<1>7. /\ DOMAIN one = DOMAIN empty /\ one.put = put
      /\ \A x \in DOMAIN empty : x # "put" => one[x] = empty[x]
  BY <1>4, <1>6
<1>8. /\ DOMAIN two = DOMAIN one /\ two.put = put
      /\ \A x \in DOMAIN empty : x \notin {"put", "pointer_size"} => two[x] = empty[x]
  BY <1>4, <1>6, <1>7
<1>9. /\ req.put = put
      /\ \A x \in DOMAIN empty :
            x \notin {"put", "pointer_size", "cur_in_ptr_id"} => req[x] = empty[x]
  BY <1>5, <1>6, <1>7, <1>8
<1>10. {"meta", "header", "layout", "data", "data_size", "objects", "objects_at", "table_at",
        "table"} \subseteq DOMAIN empty
  BY DEF cmifMakeRequest
<1> QED
  BY <1>1, <1>2, <1>3, <1>9, <1>10

\* Every request on the way is one that can be written on.
LEMMA FillsOn ==
    ASSUME NEW f, NEW first, Writable(first), NEW b \in Seq(Buffers), Fills(f, first, b)
    PROVE  \A n \in 0..Len(b) : Writable(f[n])
<1> DEFINE S == {n \in Nat : n <= Len(b) => Writable(f[n])}
<1>1. 0 \in S
  BY DEF Fills
<1>2. ASSUME NEW n \in Nat, n \in S PROVE n + 1 \in S
  <2> SUFFICES ASSUME n + 1 <= Len(b) PROVE Writable(f[n + 1])
    OBVIOUS
  <2>1. n + 1 \in 1..Len(b) /\ b[n + 1] \in Buffers /\ Writable(f[n]) /\ (n + 1) - 1 = n
    BY <1>2
  <2>2. f[n + 1] = _serviceRequestProcessBuffer(f[n], b[n + 1])
    BY <2>1 DEF Fills
  <2> QED
    BY <2>1, <2>2, ProcessIs
<1> HIDE DEF S
<1>3. Nat \subseteq S
  BY <1>1, <1>2, NaturalsIn
<1> QED
  BY <1>3 DEF S

\* The n-th buffer adds to what the ones before it left.
Added(f, b, n, e) ==
    /\ e \in [Written -> Entry] /\ Adds(f[n - 1], f[n], Uses(b[n]), e)
    /\ IsAuto(b[n]) => Pays(f[n - 1], f[n], e, b[n])
    /\ Told(f[n - 1], b[n]) => Shows(e, b[n])
    /\ ~IsAuto(b[n]) /\ ~Pointer(b[n]) => f[n].pointer_size = f[n - 1].pointer_size

LEMMA FillsAdds ==
    ASSUME NEW f, NEW first, Writable(first), NEW b \in Seq(Buffers), Fills(f, first, b),
           NEW n \in 1..Len(b)
    PROVE  \E e : Added(f, b, n, e)
<1>1. Writable(f[n - 1]) /\ b[n] \in Buffers
  BY FillsOn
<1>2. f[n] = _serviceRequestProcessBuffer(f[n - 1], b[n])
  BY DEF Fills
<1> QED
  BY <1>1, <1>2, ProcessIs DEF Added

-----------------------------------------------------------------------------
\* Sums of sizes.

\* Entries with a size, and the sums of the sizes of the first ones.
Sized(s) == s \in Seq(Entry) /\ \A i \in 1..Len(s) : s[i].size \in Nat
SumsTo(f, s, k) == f[0] = 0 /\ \A n \in 1..k : f[n] = f[n - 1] + s[n].size

LEMMA SumsNat ==
    ASSUME NEW s, Sized(s), NEW f, NEW k \in 0..Len(s), SumsTo(f, s, k)
    PROVE  \A n \in 0..k : f[n] \in Nat
<1> DEFINE S == {n \in Nat : n <= k => f[n] \in Nat}
<1>1. 0 \in S
  BY DEF SumsTo
<1>2. ASSUME NEW n \in Nat, n \in S PROVE n + 1 \in S
  <2> SUFFICES ASSUME n + 1 <= k PROVE f[n + 1] \in Nat
    OBVIOUS
  <2>1. n + 1 \in 1..k /\ (n + 1) - 1 = n /\ f[n] \in Nat
    BY <1>2
  <2>2. Len(s) \in Nat /\ n + 1 \in 1..Len(s)
    BY <2>1 DEF Sized
  <2>3. s[n + 1].size \in Nat
    BY <2>2 DEF Sized
  <2>4. f[n + 1] = f[n] + s[n + 1].size
    BY <2>1 DEF SumsTo
  <2> QED
    BY <2>1, <2>3, <2>4
<1> HIDE DEF S
<1>3. Nat \subseteq S
  BY <1>1, <1>2, NaturalsIn
<1> QED
  BY <1>3 DEF S

LEMMA SumsAgree ==
    ASSUME NEW s, NEW t, NEW f, NEW g, NEW k \in Nat, SumsTo(f, s, k), SumsTo(g, t, k),
           \A n \in 1..k : s[n] = t[n]
    PROVE  f[k] = g[k]
<1> DEFINE S == {n \in Nat : n <= k => f[n] = g[n]}
<1>1. 0 \in S
  BY DEF SumsTo
<1>2. ASSUME NEW n \in Nat, n \in S PROVE n + 1 \in S
  <2> SUFFICES ASSUME n + 1 <= k PROVE f[n + 1] = g[n + 1]
    OBVIOUS
  <2>1. n + 1 \in 1..k /\ (n + 1) - 1 = n /\ f[n] = g[n] /\ s[n + 1] = t[n + 1]
    BY <1>2
  <2> QED
    BY <2>1 DEF SumsTo
<1> HIDE DEF S
<1>3. Nat \subseteq S
  BY <1>1, <1>2, NaturalsIn
<1> QED
  BY <1>3 DEF S

LEMMA SumsExist ==
    ASSUME NEW s, Len(s) \in Nat
    PROVE  \E f : SumsTo(f, s, Len(s)) /\ TotalSize(s) = f[Len(s)]
<1> DEFINE S == {k \in Nat : \E g : SumsTo(g, s, k)}
<1>1. 0 \in S
  <2>1. SumsTo([n \in {0} |-> 0], s, 0)
    BY DEF SumsTo
  <2> QED
    BY <2>1, Zenon
<1>2. ASSUME NEW k \in Nat, k \in S PROVE k + 1 \in S
  <2>1. PICK g : SumsTo(g, s, k)
    BY <1>2
  <2>2. PICK h : h = [n \in 0..(k + 1) |-> IF n = k + 1 THEN g[k] + s[n].size ELSE g[n]]
    OBVIOUS
  <2>3. h[0] = 0 /\ k + 1 \in Nat
    BY <2>1, <2>2 DEF SumsTo
  <2>4. ASSUME NEW n \in 1..(k + 1) PROVE h[n] = h[n - 1] + s[n].size
    <3>1. CASE n = k + 1
      <4>1. h[n] = g[k] + s[n].size /\ h[n - 1] = g[k]
        BY <2>2, <3>1
      <4> QED
        BY <4>1
    <3>2. CASE n # k + 1
      <4>1. n \in 1..k /\ h[n] = g[n] /\ h[n - 1] = g[n - 1]
        BY <2>2, <3>2
      <4>2. g[n] = g[n - 1] + s[n].size
        BY <2>1, <4>1 DEF SumsTo
      <4> QED
        BY <4>1, <4>2
    <3> QED
      BY <3>1, <3>2
  <2>5. SumsTo(h, s, k + 1)
    BY <2>3, <2>4 DEF SumsTo
  <2> QED
    BY <2>3, <2>5, Zenon
<1> HIDE DEF S
<1>3. Nat \subseteq S
  BY <1>1, <1>2, NaturalsIn
<1> DEFINE Is(f) == f = [n \in 0..Len(s) |-> IF n = 0 THEN 0 ELSE f[n - 1] + s[n].size]
<1>4. PICK g : SumsTo(g, s, Len(s))
  BY <1>3 DEF S
<1>5. PICK h : h = [n \in 0..Len(s) |-> g[n]]
  OBVIOUS
<1>6. Is(h)
  <2>1. ASSUME NEW n \in 0..Len(s)
        PROVE  g[n] = IF n = 0 THEN 0 ELSE h[n - 1] + s[n].size
    <3>1. n # 0 => n \in 1..Len(s) /\ h[n - 1] = g[n - 1]
      BY <1>5
    <3> QED
      BY <1>4, <3>1 DEF SumsTo
  <2> QED
    BY <1>5, <2>1
<1>7. PICK f : TotalSize(s) = f[Len(s)] /\ Is(f)
  BY <1>6, Zenon DEF TotalSize
<1>8. ASSUME NEW n \in 1..Len(s) PROVE f[n] = f[n - 1] + s[n].size
  BY <1>7
<1>9. f[0] = 0
  BY <1>7
<1> QED
  BY <1>7, <1>8, <1>9 DEF SumsTo

\* TotalSize of nothing, and of one entry more.
LEMMA TotalIs ==
    /\ TotalSize(<<>>) = 0
    /\ \A s : Sized(s) => TotalSize(s) \in Nat
    /\ \A s, x : Sized(s) /\ x \in Entry /\ x.size \in Nat =>
          Sized(Append(s, x)) /\ TotalSize(Append(s, x)) = TotalSize(s) + x.size
<1>1. TotalSize(<<>>) = 0
  <2>1. Len(<<>>) = 0
    OBVIOUS
  <2> QED
    BY <2>1, SumsExist DEF SumsTo
<1>2. ASSUME NEW s, Sized(s) PROVE TotalSize(s) \in Nat
  <2>1. Len(s) \in Nat
    BY <1>2 DEF Sized
  <2> QED
    BY <1>2, <2>1, SumsExist, SumsNat
<1>3. ASSUME NEW s, NEW x \in Entry, Sized(s), x.size \in Nat
      PROVE  Sized(Append(s, x)) /\ TotalSize(Append(s, x)) = TotalSize(s) + x.size
  <2>1. PICK t : t = Append(s, x)
    OBVIOUS
  <2>2. /\ t \in Seq(Entry) /\ Len(t) = Len(s) + 1 /\ Len(s) \in Nat /\ t[Len(s) + 1] = x
        /\ \A n \in 1..Len(s) : t[n] = s[n]
    BY <1>3, <2>1 DEF Sized
  <2>3. Sized(t)
    BY <1>3, <2>2 DEF Sized
  <2>4. PICK f : SumsTo(f, s, Len(s)) /\ TotalSize(s) = f[Len(s)]
    BY <2>2, SumsExist
  <2>5. PICK g : SumsTo(g, t, Len(t)) /\ TotalSize(t) = g[Len(t)]
    BY <2>2, SumsExist
  <2>6. SumsTo(g, t, Len(s))
    BY <2>2, <2>5 DEF SumsTo
  <2>7. f[Len(s)] = g[Len(s)]
    BY <2>2, <2>4, <2>6, SumsAgree
  <2>8. g[Len(t)] = g[Len(s)] + x.size
    BY <2>2, <2>5 DEF SumsTo
  <2> QED
    BY <2>1, <2>3, <2>4, <2>5, <2>7, <2>8
<1> QED
  BY <1>1, <1>2, <1>3

-----------------------------------------------------------------------------
\* PointersFit.

\* What a command of auto-select buffers alone sends through the pointer buffer.

\* What is left of the room, and what the descriptors have of it.
Inside(room, req) ==
    /\ req.pointer_size \in Nat
    /\ Sized(req.put["send_statics"]) /\ Sized(req.put["recv_list"])
    /\ req.pointer_size + TotalSize(req.put["send_statics"]) + TotalSize(req.put["recv_list"])
          <= room

\* An auto-select buffer takes a send static as an input, and an entry of the
\* receive list as an output.
LEMMA AutoUses ==
    ASSUME NEW b, IsAuto(b)
    PROVE  /\ "send_statics" \in Uses(b) <=> IsIn(b)
           /\ "recv_list" \in Uses(b) <=> IsOut(b)
BY DEF Uses, InAuto, OutAuto, InPointer, OutPointer, Fixed, Pointer, InMapped, OutMapped,
   InOutMapped, Mapped

\* An auto-select buffer leaves what is sent through the pointer buffer inside room.
LEMMA InsideKeeps ==
    ASSUME NEW room \in Nat, NEW old, NEW new, Inside(room, old), Writable(new), NEW b, IsAuto(b),
           NEW e \in [Written -> Entry], Adds(old, new, Uses(b), e), Pays(old, new, e, b)
    PROVE  Inside(room, new)
<1> DEFINE i == IF IsIn(b) THEN e["send_statics"].size ELSE 0
           o == IF IsOut(b) THEN e["recv_list"].size ELSE 0
<1>1. /\ "send_statics" \in Written /\ "recv_list" \in Written
      /\ e["send_statics"] \in Entry /\ e["recv_list"] \in Entry
  BY WrittenAre
<1>2. new.put["send_statics"] = IF IsIn(b) THEN Append(old.put["send_statics"], e["send_statics"])
                                ELSE old.put["send_statics"]
  BY <1>1, AutoUses DEF Adds
<1>3. new.put["recv_list"] = IF IsOut(b) THEN Append(old.put["recv_list"], e["recv_list"])
                             ELSE old.put["recv_list"]
  BY <1>1, AutoUses DEF Adds
<1>5. /\ IsIn(b) => e["send_statics"].size \in Nat
      /\ IsOut(b) => e["recv_list"].size \in Nat
  BY DEF Pays
<1>7. /\ Sized(new.put["send_statics"]) /\ i \in Nat
      /\ TotalSize(new.put["send_statics"]) = TotalSize(old.put["send_statics"]) + i
      /\ TotalSize(old.put["send_statics"]) \in Nat
  <2>1. Sized(old.put["send_statics"]) /\ TotalSize(old.put["send_statics"]) \in Nat
    BY TotalIs DEF Inside
  <2>2. CASE IsIn(b)
    BY <1>1, <1>2, <1>5, <2>1, <2>2, TotalIs
  <2>3. CASE ~IsIn(b)
    BY <1>2, <2>1, <2>3
  <2> QED
    BY <2>2, <2>3
<1>8. /\ Sized(new.put["recv_list"]) /\ o \in Nat
      /\ TotalSize(new.put["recv_list"]) = TotalSize(old.put["recv_list"]) + o
      /\ TotalSize(old.put["recv_list"]) \in Nat
  <2>1. Sized(old.put["recv_list"]) /\ TotalSize(old.put["recv_list"]) \in Nat
    BY TotalIs DEF Inside
  <2>2. CASE IsOut(b)
    BY <1>1, <1>3, <1>5, <2>1, <2>2, TotalIs
  <2>3. CASE ~IsOut(b)
    BY <1>3, <2>1, <2>3
  <2> QED
    BY <2>2, <2>3
<1>9. Spent(e, b) = i + o
  BY Zenon DEF Spent
<1> HIDE DEF i, o
<1>10. new.pointer_size \in Nat /\ new.pointer_size + (i + o) <= old.pointer_size
  BY <1>9 DEF Writable, Rooms, Pays
<1>11. /\ old.pointer_size \in Nat
       /\ old.pointer_size + TotalSize(old.put["send_statics"]) + TotalSize(old.put["recv_list"])
             <= room
  BY DEF Inside
<1>12. new.pointer_size + TotalSize(new.put["send_statics"]) + TotalSize(new.put["recv_list"])
          <= room
  BY <1>7, <1>8, <1>10, <1>11
<1> QED
  BY <1>7, <1>8, <1>10, <1>12 DEF Inside

\* So do any number of them.
LEMMA FillsInside ==
    ASSUME NEW f, NEW first, Writable(first), NEW b \in Seq(Buffers), Fills(f, first, b),
           NEW room \in Nat, Inside(room, first), \A n \in 1..Len(b) : IsAuto(b[n])
    PROVE  Inside(room, f[Len(b)])
<1> DEFINE S == {n \in Nat : n <= Len(b) => Inside(room, f[n])}
<1>1. 0 \in S
  BY DEF Fills
<1>2. ASSUME NEW n \in Nat, n \in S PROVE n + 1 \in S
  <2> SUFFICES ASSUME n + 1 <= Len(b) PROVE Inside(room, f[n + 1])
    OBVIOUS
  <2>1. n + 1 \in 1..Len(b) /\ n + 1 \in 0..Len(b) /\ (n + 1) - 1 = n /\ Inside(room, f[n])
    BY <1>2
  <2>2. PICK e : Added(f, b, n + 1, e)
    BY <2>1, FillsAdds
  <2>3. /\ IsAuto(b[n + 1]) /\ e \in [Written -> Entry] /\ Adds(f[n], f[n + 1], Uses(b[n + 1]), e)
        /\ Pays(f[n], f[n + 1], e, b[n + 1])
    BY <2>1, <2>2 DEF Added
  <2>4. Writable(f[n + 1])
    BY <2>1, FillsOn
  <2> QED
    BY <2>1, <2>3, <2>4, InsideKeeps
<1> HIDE DEF S
<1>3. Nat \subseteq S
  BY <1>1, <1>2, NaturalsIn
<1>4. Len(b) \in Nat
  OBVIOUS
<1> QED
  BY <1>3, <1>4 DEF S

\* Where a request goes is a service, with a u16 for a size.
LEMMA TargetIs ==
    ASSUME OwnInv, GuardInv, NEW t \in Threads
    PROVE  Target(t) \in Services /\ Target(t).pointer_buffer_size \in Sizes
<1>1. Target(t) \in Services
  <2>1. srv \in Services /\ sub[t] \in Services
    BY OwnAre DEF Guarded, Stores
  <2> QED
    BY <2>1 DEF Target
<1>2. Target(t).pointer_buffer_size \in PointerSizes \cup {0}
  BY <1>1 DEF Services
<1> QED
  BY <1>1, <1>2, PointerSizesAssumption DEF Sizes

\* PointersFit follows from the invariant of what is on its way.
LEMMA SentFits ==
    ASSUME OwnInv, GuardInv, SentInv
    PROVE  PointersFit
<1> SUFFICES ASSUME NEW t \in Threads, pc[t] = "send", call[t].op = "dispatch",
                    \A i \in DOMAIN call[t].cmd.buffers : IsAuto(call[t].cmd.buffers[i])
             PROVE  TotalSize(tls[t].put["send_statics"]) + TotalSize(tls[t].put["recv_list"])
                        <= Target(t).pointer_buffer_size
  BY DEF PointersFit
<1>1. PICK cmd, s : cmd = call[t].cmd /\ s = Target(t)
  OBVIOUS
<1>2. /\ cmd \in DispatchParams /\ tls[t] = serviceMakeRequest(s, cmd)
      /\ s.pointer_buffer_size \in Sizes
  BY <1>1, TargetIs DEF SentInv, Formed
<1>3. PICK empty : empty = cmifMakeRequest(Format(s, cmd))
  OBVIOUS
<1>4. PICK f : Fills(f, Handed(empty, s, cmd), cmd.buffers) /\ tls[t].put = f[Len(cmd.buffers)].put
  BY <1>2, <1>3, MakeIs
<1>5. PICK first : first = Handed(empty, s, cmd)
  OBVIOUS
<1>6. Writable(first) /\ first.pointer_size = s.pointer_buffer_size /\ first.put = HandedPut(s, cmd)
  BY <1>2, <1>3, <1>5, HandedIs
<1>7. first.put["send_statics"] = <<>> /\ first.put["recv_list"] = <<>>
  BY <1>6, WrittenAre DEF HandedPut
<1>8. Sized(<<>>)
  BY DEF Sized
<1>9. s.pointer_buffer_size \in Nat
  BY <1>2 DEF Sizes
<1>10. Inside(s.pointer_buffer_size, first)
  BY <1>6, <1>7, <1>8, <1>9, TotalIs DEF Inside
<1>11. cmd.buffers \in Seq(Buffers) /\ \A n \in 1..Len(cmd.buffers) : IsAuto(cmd.buffers[n])
  BY <1>1, <1>2, ParamsAre
<1>12. Inside(s.pointer_buffer_size, f[Len(cmd.buffers)])
  BY <1>4, <1>5, <1>6, <1>9, <1>10, <1>11, FillsInside
<1>13. /\ TotalSize(tls[t].put["send_statics"]) \in Nat
       /\ TotalSize(tls[t].put["recv_list"]) \in Nat
  BY <1>4, <1>12, TotalIs DEF Inside
<1>14. f[Len(cmd.buffers)].pointer_size \in Nat
  BY <1>12 DEF Inside
<1>15. PICK l, i, o : /\ l = f[Len(cmd.buffers)].pointer_size
                      /\ i = TotalSize(tls[t].put["send_statics"])
                      /\ o = TotalSize(tls[t].put["recv_list"])
  OBVIOUS
<1>16. l + i + o <= s.pointer_buffer_size
  BY <1>4, <1>12, <1>15 DEF Inside
<1>17. i + o <= s.pointer_buffer_size
  BY <1>9, <1>13, <1>14, <1>15, <1>16
<1> QED
  BY <1>1, <1>15, <1>17

\* As long as a command has only auto-select buffers, what its request sends
\* through the pointer buffer of the server fits into it, whatever size the
\* server reported: FitsPointer compares each buffer with what is left, and
\* server_pointer_size goes down by what is put there (cmifRequestInAutoBuffer,
\* cmifRequestOutAutoBuffer), so it never wraps.
THEOREM ServicePointersFit == Spec => []PointersFit
BY SentAlways, SentFits, PTL

-----------------------------------------------------------------------------
\* Where hipc.h lays the regions of a message.

\* Where the regions of a request begin.

\* Every region has a number of entries.
Numbered(meta) == \A r \in RegionNames : meta[r] \in Nat

\* The regions in their order.
LEMMA RegionsAre ==
    /\ Len(Regions) = 8 /\ Regions[7] = "data_words"
    /\ \A i \in 1..8 : Regions[i] \in RegionNames /\ (Regions[i] = "data_words" => i = 7)
    /\ \A r \in RegionNames : EntrySize[r] \in Nat
    /\ "data_words" \in RegionNames
BY DEF Regions, RegionNames, EntrySize

LEMMA ProductIs == ASSUME NEW m \in Nat, NEW n \in Nat PROVE m * n \in Nat
OBVIOUS

\* Bytes of a region.
Bytes(meta, i) == meta[Regions[i]] * EntrySize[Regions[i]]

LEMMA BytesAre == ASSUME NEW meta, Numbered(meta), NEW i \in 1..8 PROVE Bytes(meta, i) \in Nat
<1>1. Regions[i] \in RegionNames
  BY RegionsAre
<1>2. meta[Regions[i]] \in Nat /\ EntrySize[Regions[i]] \in Nat
  BY <1>1, RegionsAre DEF Numbered
<1> QED
  BY <1>2, ProductIs DEF Bytes

\* f gives where the i-th region begins.
Starts(f, meta, base) ==
    f = [i \in 1..Len(Regions) |-> IF i = 1 THEN base ELSE f[i - 1] + Bytes(meta, i - 1)]

LEMMA StartsExist ==
    ASSUME NEW meta, Numbered(meta), NEW base \in Nat
    PROVE  \E f : Starts(f, meta, base)
<1>1. PICK d : d = [i \in 1..8 |-> Bytes(meta, i)]
  OBVIOUS
<1>2. d \in [1..8 -> Nat]
  BY <1>1, BytesAre
<1>3. PICK g : g = [i \in 1..8 |->
             IF i = 1 THEN base ELSE IF i = 2 THEN base + d[1] ELSE IF i = 3 THEN base + d[1] + d[2]
             ELSE IF i = 4 THEN base + d[1] + d[2] + d[3]
             ELSE IF i = 5 THEN base + d[1] + d[2] + d[3] + d[4]
             ELSE IF i = 6 THEN base + d[1] + d[2] + d[3] + d[4] + d[5]
             ELSE IF i = 7 THEN base + d[1] + d[2] + d[3] + d[4] + d[5] + d[6]
             ELSE base + d[1] + d[2] + d[3] + d[4] + d[5] + d[6] + d[7]]
  OBVIOUS
<1>4. /\ g[1] = base /\ g[2] = g[1] + d[1] /\ g[3] = g[2] + d[2] /\ g[4] = g[3] + d[3]
      /\ g[5] = g[4] + d[4] /\ g[6] = g[5] + d[5] /\ g[7] = g[6] + d[6] /\ g[8] = g[7] + d[7]
  BY <1>2, <1>3
<1>5. ASSUME NEW i \in 1..8 PROVE g[i] = IF i = 1 THEN base ELSE g[i - 1] + d[i - 1]
  <2>1. i \in {1, 2, 3, 4, 5, 6, 7, 8}
    OBVIOUS
  <2> QED
    BY <1>4, <2>1
<1>6. ASSUME NEW i \in 1..8 PROVE g[i] = IF i = 1 THEN base ELSE g[i - 1] + Bytes(meta, i - 1)
  <2>1. i # 1 => i - 1 \in 1..8
    OBVIOUS
  <2> QED
    BY <1>1, <1>5, <2>1
<1>7. g = [i \in 1..8 |-> g[i]]
  BY <1>3
<1>8. g = [i \in 1..8 |-> IF i = 1 THEN base ELSE g[i - 1] + Bytes(meta, i - 1)]
  BY <1>6, <1>7
<1> QED
  BY <1>8, RegionsAre DEF Starts

\* The data words begin at some offset.
LEMMA LayoutIs ==
    ASSUME NEW meta, Numbered(meta), NEW base \in Nat
    PROVE  /\ hipcCalcRequestLayout(meta, base).data_words \in Nat
           /\ meta["data_words"] = 0 => hipcCalcRequestLayout(meta, base).data_words = 0
<1> DEFINE Number(r) == CHOOSE i \in 1..Len(Regions) : Regions[i] = r
           Start == CHOOSE f :
                       f = [i \in 1..Len(Regions) |-> IF i = 1 THEN base
                                ELSE f[i - 1] + meta[Regions[i - 1]] * EntrySize[Regions[i - 1]]]
<1>0. hipcCalcRequestLayout(meta, base) =
         [r \in RegionNames |-> IF meta[r] = 0 THEN NullPtr ELSE Start[Number(r)]]
  BY Zenon DEF hipcCalcRequestLayout
<1>9. PICK g : g = [i \in 1..Len(Regions) |-> IF i = 1 THEN base
                     ELSE g[i - 1] + meta[Regions[i - 1]] * EntrySize[Regions[i - 1]]]
  BY StartsExist, Zenon DEF Starts, Bytes
<1>10. Start = [i \in 1..Len(Regions) |-> IF i = 1 THEN base
                     ELSE Start[i - 1] + meta[Regions[i - 1]] * EntrySize[Regions[i - 1]]]
  BY <1>9, Zenon
<1>11. Starts(Start, meta, base)
  BY <1>10, Zenon DEF Starts, Bytes
<1>1. PICK f : /\ Starts(f, meta, base)
               /\ hipcCalcRequestLayout(meta, base) =
                     [r \in RegionNames |-> IF meta[r] = 0 THEN NullPtr ELSE f[Number(r)]]
  BY <1>0, <1>11, Zenon
<1>2. Number("data_words") = 7
  BY RegionsAre
<1> HIDE DEF Number
<1>3. \A i \in 1..8 : f[i] = IF i = 1 THEN base ELSE f[i - 1] + Bytes(meta, i - 1)
  BY <1>1, RegionsAre DEF Starts
<1>4. /\ f[1] = base /\ f[2] = f[1] + Bytes(meta, 1) /\ f[3] = f[2] + Bytes(meta, 2)
      /\ f[4] = f[3] + Bytes(meta, 3) /\ f[5] = f[4] + Bytes(meta, 4)
      /\ f[6] = f[5] + Bytes(meta, 5) /\ f[7] = f[6] + Bytes(meta, 6)
  BY <1>3
<1>5. /\ Bytes(meta, 1) \in Nat /\ Bytes(meta, 2) \in Nat /\ Bytes(meta, 3) \in Nat
      /\ Bytes(meta, 4) \in Nat /\ Bytes(meta, 5) \in Nat /\ Bytes(meta, 6) \in Nat
  BY BytesAre
<1>6. f[7] \in Nat
  BY <1>4, <1>5
<1>7. hipcCalcRequestLayout(meta, base).data_words =
         IF meta["data_words"] = 0 THEN NullPtr ELSE f[7]
  BY <1>1, <1>2, RegionsAre
<1> QED
  BY <1>6, <1>7 DEF NullPtr

\* The header takes some bytes.
LEMMA HeaderIs == ASSUME NEW special, NEW pid PROVE HeaderSize(special, pid) \in Nat
BY DEF HeaderSize

\* What a request lays out, for the entries of its regions.
LEMMA MessageIs ==
    ASSUME NEW meta, Numbered(meta)
    PROVE  /\ hipcMakeRequest(meta).layout.data_words \in Nat
           /\ meta["data_words"] = 0 => hipcMakeRequest(meta).layout.data_words = 0
<1>1. PICK base : base = HeaderSize(HasSpecialHeader(meta), meta.send_pid)
  OBVIOUS
<1>2. hipcMakeRequest(meta).layout = hipcCalcRequestLayout(meta, base)
  BY <1>1, Zenon DEF hipcMakeRequest
<1>3. base \in Nat
  BY <1>1, HeaderIs
<1> QED
  BY <1>2, <1>3, LayoutIs

\* AlignUp goes up, and by less than it aligns to.
LEMMA AlignIs ==
    ASSUME NEW n \in Nat
    PROVE  /\ AlignUp(n, 2) \in Nat /\ n <= AlignUp(n, 2) /\ AlignUp(n, 2) <= n + 1
           /\ cmifGetAlignedDataStart(n) \in Nat
           /\ n <= cmifGetAlignedDataStart(n) /\ cmifGetAlignedDataStart(n) <= n + 15
<1>1. /\ ((n + 2 - 1) \div 2) * 2 \in Nat /\ n <= ((n + 2 - 1) \div 2) * 2
      /\ ((n + 2 - 1) \div 2) * 2 <= n + 1
  BY SMT
<1>2. /\ ((n + 16 - 1) \div 16) * 16 \in Nat /\ n <= ((n + 16 - 1) \div 16) * 16
      /\ ((n + 16 - 1) \div 16) * 16 <= n + 15
  BY SMT
<1> QED
  BY <1>1, <1>2 DEF AlignUp, cmifGetAlignedDataStart

-----------------------------------------------------------------------------
\* How many of the buffers use a region, and that Format counts the same.

\* How many entries the buffers of a command leave in a region.

\* The first n buffers that put one there.
At(b, n, r) == {i \in 1..n : r \in Uses(b[i])}

\* One buffer more is in At, or is not.
LEMMA AtIs ==
    ASSUME NEW b, NEW n \in Nat, NEW r
    PROVE  /\ IsFiniteSet(At(b, n, r)) /\ Cardinality(At(b, n, r)) \in Nat
           /\ Cardinality(At(b, n + 1, r)) =
                 Cardinality(At(b, n, r)) + (IF r \in Uses(b[n + 1]) THEN 1 ELSE 0)
<1>1. IsFiniteSet(At(b, n, r))
  <2>1. IsFiniteSet(1..n) /\ At(b, n, r) \subseteq 1..n
    BY FS_Interval DEF At
  <2> QED
    BY <2>1, FS_Subset
<1>2. Cardinality(At(b, n, r)) \in Nat
  BY <1>1, FS_CardinalityType
<1>3. n + 1 \notin At(b, n, r)
  BY DEF At
<1>4. At(b, n + 1, r) = IF r \in Uses(b[n + 1]) THEN At(b, n, r) \cup {n + 1} ELSE At(b, n, r)
  <2>1. 1..n + 1 = 1..n \cup {n + 1}
    OBVIOUS
  <2> QED
    BY <2>1 DEF At
<1>5. Cardinality(At(b, n, r) \cup {n + 1}) = Cardinality(At(b, n, r)) + 1
  BY <1>1, <1>3, FS_AddElement
<1> QED
  BY <1>1, <1>2, <1>4, <1>5

\* A region has an entry more for each buffer that uses it.
LEMMA FillsCounts ==
    ASSUME NEW f, NEW first, Writable(first), NEW b \in Seq(Buffers), Fills(f, first, b),
           NEW r \in Written
    PROVE  \A n \in 0..Len(b) :
              Len(f[n].put[r]) = Len(first.put[r]) + Cardinality(At(b, n, r))
<1> DEFINE S == {n \in Nat : n <= Len(b) =>
                    Len(f[n].put[r]) = Len(first.put[r]) + Cardinality(At(b, n, r))}
<1>0. Len(first.put[r]) \in Nat
  BY DEF Writable
<1>1. 0 \in S
  <2>1. At(b, 0, r) = {}
    BY DEF At
  <2>2. Cardinality(At(b, 0, r)) = 0
    BY <2>1, FS_EmptySet
  <2>3. f[0] = first
    BY DEF Fills
  <2> QED
    BY <1>0, <2>2, <2>3
<1>2. ASSUME NEW n \in Nat, n \in S PROVE n + 1 \in S
  <2> SUFFICES ASSUME n + 1 <= Len(b)
               PROVE  Len(f[n + 1].put[r]) = Len(first.put[r]) + Cardinality(At(b, n + 1, r))
    OBVIOUS
  <2>1. n + 1 \in 1..Len(b) /\ n \in 0..Len(b) /\ (n + 1) - 1 = n
    OBVIOUS
  <2>2. PICK e : Added(f, b, n + 1, e)
    BY <2>1, FillsAdds
  <2>3. Writable(f[n])
    BY <2>1, FillsOn
  <2>4. /\ f[n].put[r] \in Seq(Entry) /\ e[r] \in Entry
        /\ f[n + 1].put[r] = IF r \in Uses(b[n + 1]) THEN Append(f[n].put[r], e[r]) ELSE f[n].put[r]
    BY <2>1, <2>2, <2>3 DEF Added, Adds, Writable
  <2>5. Len(f[n + 1].put[r]) = Len(f[n].put[r]) + (IF r \in Uses(b[n + 1]) THEN 1 ELSE 0)
    <3>1. PICK old, new, x : old = f[n].put[r] /\ new = f[n + 1].put[r] /\ x = e[r]
      OBVIOUS
    <3>2. old \in Seq(Entry) /\ x \in Entry
      BY <2>4, <3>1
    <3>3. Len(Append(old, x)) = Len(old) + 1 /\ Len(old) \in Nat
      BY <3>2
    <3>4. new = IF r \in Uses(b[n + 1]) THEN Append(old, x) ELSE old
      BY <2>4, <3>1, Zenon
    <3>5. Len(new) = Len(old) + (IF r \in Uses(b[n + 1]) THEN 1 ELSE 0)
      BY <3>3, <3>4
    <3> QED
      BY <3>1, <3>5
  <2>6. Len(f[n].put[r]) = Len(first.put[r]) + Cardinality(At(b, n, r))
    BY <1>2
  <2>7. Cardinality(At(b, n, r)) \in Nat
    BY AtIs
  <2>8. PICK c, d, k, l, m : /\ c = Cardinality(At(b, n, r)) /\ d = Cardinality(At(b, n + 1, r))
                             /\ k = Len(f[n].put[r]) /\ l = Len(first.put[r])
                             /\ m = IF r \in Uses(b[n + 1]) THEN 1 ELSE 0
    OBVIOUS
  <2>9. d = c + m /\ k = l + c /\ Len(f[n + 1].put[r]) = k + m
    BY <2>5, <2>6, <2>8, AtIs
  <2>10. l \in Nat /\ c \in Nat /\ m \in Nat
    BY <1>0, <2>7, <2>8
  <2>11. Len(f[n + 1].put[r]) = l + d
    BY <2>9, <2>10
  <2> QED
    BY <2>8, <2>11
<1> HIDE DEF S
<1>3. Nat \subseteq S
  BY <1>1, <1>2, NaturalsIn
<1> QED
  BY <1>3 DEF S

\* Counting two kinds that exclude each other.
LEMMA DisjointCount ==
    ASSUME NEW S, NEW T, IsFiniteSet(S), IsFiniteSet(T), S \cap T = {}
    PROVE  /\ IsFiniteSet(S \cup T) /\ Cardinality(S \cup T) = Cardinality(S) + Cardinality(T)
           /\ Cardinality(S) \in Nat /\ Cardinality(T) \in Nat
<1>1. Cardinality(S) \in Nat /\ Cardinality(T) \in Nat /\ Cardinality({}) = 0
  BY FS_CardinalityType, FS_EmptySet
<1>2. /\ IsFiniteSet(S \cup T)
      /\ Cardinality(S \cup T) = Cardinality(S) + Cardinality(T) - Cardinality(S \cap T)
  BY FS_Union
<1>3. Cardinality(S \cap T) = 0
  BY <1>1
<1>4. PICK a, b, c, d : /\ a = Cardinality(S) /\ b = Cardinality(T) /\ c = Cardinality(S \cap T)
                        /\ d = Cardinality(S \cup T)
  OBVIOUS
<1>5. a \in Nat /\ b \in Nat /\ c = 0 /\ d = a + b - c
  BY <1>1, <1>2, <1>3, <1>4
<1>6. d = a + b
  BY <1>5
<1> QED
  BY <1>1, <1>2, <1>4, <1>6

\* The counts of the buffers are those of what they put.
LEMMA FormatCounts ==
    ASSUME NEW s, NEW cmd \in DispatchParams, NEW fmt, fmt = Format(s, cmd),
           NEW b, b = cmd.buffers, NEW n, n = Len(b)
    PROVE  /\ n \in 0..8
           /\ Cardinality(At(b, n, "send_statics")) = fmt.in_auto_buffers + fmt.in_pointers
           /\ Cardinality(At(b, n, "send_buffers")) = fmt.in_auto_buffers + fmt.in_buffers
           /\ Cardinality(At(b, n, "recv_buffers")) = fmt.out_auto_buffers + fmt.out_buffers
           /\ Cardinality(At(b, n, "exch_buffers")) = fmt.inout_buffers
           /\ Cardinality(At(b, n, "table")) = fmt.out_auto_buffers + fmt.out_pointers
           /\ Cardinality(At(b, n, "recv_list")) =
                 fmt.out_auto_buffers + fmt.out_pointers + fmt.out_fixed_pointers
           /\ {fmt.out_auto_buffers, fmt.out_pointers} \subseteq Nat
<1>1. b \in Seq(Buffers) /\ n \in 0..8 /\ DOMAIN b = 1..n /\ IsFiniteSet(1..n)
  <2>1. b \in Seq(Buffers) /\ n <= 8
    BY ParamsAre
  <2>2. n \in Nat /\ DOMAIN b = 1..n
    BY <2>1
  <2>3. n \in Int /\ 1 \in Int
    BY <2>2
  <2>4. IsFiniteSet(1..n)
    BY <2>3, FS_Interval
  <2>5. n \in 0..8
    <3>1. \A k \in Nat : k <= 8 => k \in 0..8
      OBVIOUS
    <3>2. n \in Nat /\ n <= 8
      BY <2>1, <2>2
    <3> QED
      BY <3>1, <3>2, Zenon
  <2> QED
    BY <2>1, <2>2, <2>4, <2>5, Zenon
<1>2. PICK ia, oa, ip, op, fx, im, om, io :
         /\ ia = {i \in 1..n : InAuto(b[i])} /\ oa = {i \in 1..n : OutAuto(b[i])}
         /\ ip = {i \in 1..n : InPointer(b[i])} /\ op = {i \in 1..n : OutPointer(b[i])}
         /\ fx = {i \in 1..n : Fixed(b[i])}
         /\ im = {i \in 1..n : InMapped(b[i])} /\ om = {i \in 1..n : OutMapped(b[i])}
         /\ io = {i \in 1..n : InOutMapped(b[i])}
  OBVIOUS
<1>3. /\ fmt.in_auto_buffers = Cardinality(ia) /\ fmt.out_auto_buffers = Cardinality(oa)
      /\ fmt.in_pointers = Cardinality(ip) /\ fmt.out_pointers = Cardinality(op)
      /\ fmt.out_fixed_pointers = Cardinality(fx)
      /\ fmt.in_buffers = Cardinality(im) /\ fmt.out_buffers = Cardinality(om)
      /\ fmt.inout_buffers = Cardinality(io)
  BY <1>1, <1>2 DEF Format
<1>4. /\ IsFiniteSet(ia) /\ IsFiniteSet(oa) /\ IsFiniteSet(ip) /\ IsFiniteSet(op)
      /\ IsFiniteSet(fx) /\ IsFiniteSet(im) /\ IsFiniteSet(om) /\ IsFiniteSet(io)
  <2>1. /\ ia \subseteq 1..n /\ oa \subseteq 1..n /\ ip \subseteq 1..n /\ op \subseteq 1..n
        /\ fx \subseteq 1..n /\ im \subseteq 1..n /\ om \subseteq 1..n /\ io \subseteq 1..n
    BY <1>2
  <2> QED
    BY <1>1, <2>1, FS_Subset
<1>5. /\ ia \cap ip = {} /\ ia \cap im = {} /\ oa \cap om = {}
      /\ oa \cap op = {} /\ (oa \cup op) \cap fx = {}
  BY <1>2 DEF InAuto, OutAuto, InPointer, OutPointer, Fixed, Pointer, InMapped, OutMapped, Mapped
<1>6. /\ At(b, n, "send_statics") = ia \cup ip
      /\ At(b, n, "send_buffers") = ia \cup im
      /\ At(b, n, "recv_buffers") = oa \cup om
      /\ At(b, n, "exch_buffers") = io
      /\ At(b, n, "table") = oa \cup op
      /\ At(b, n, "recv_list") = (oa \cup op) \cup fx
  <2>1. \A i : /\ "send_statics" \in Uses(b[i]) <=> InAuto(b[i]) \/ InPointer(b[i])
               /\ "send_buffers" \in Uses(b[i]) <=> InAuto(b[i]) \/ InMapped(b[i])
               /\ "recv_buffers" \in Uses(b[i]) <=> OutAuto(b[i]) \/ OutMapped(b[i])
               /\ "exch_buffers" \in Uses(b[i]) <=> InOutMapped(b[i])
               /\ "table" \in Uses(b[i]) <=> OutAuto(b[i]) \/ OutPointer(b[i])
               /\ "recv_list" \in Uses(b[i]) <=> OutAuto(b[i]) \/ OutPointer(b[i]) \/ Fixed(b[i])
    BY DEF Uses
  <2> QED
    BY <1>2, <2>1 DEF At
<1>7. /\ Cardinality(ia \cup ip) = Cardinality(ia) + Cardinality(ip)
      /\ Cardinality(ia \cup im) = Cardinality(ia) + Cardinality(im)
      /\ Cardinality(oa \cup om) = Cardinality(oa) + Cardinality(om)
      /\ Cardinality(oa \cup op) = Cardinality(oa) + Cardinality(op)
      /\ IsFiniteSet(oa \cup op) /\ {Cardinality(oa), Cardinality(op)} \subseteq Nat
  BY <1>4, <1>5, DisjointCount
<1>8. Cardinality((oa \cup op) \cup fx) = Cardinality(oa \cup op) + Cardinality(fx)
  BY <1>4, <1>5, <1>7, DisjointCount
<1> QED
  BY <1>1, <1>3, <1>6, <1>7, <1>8

-----------------------------------------------------------------------------
\* What cmifMakeRequest reserves.

\* What cmifMakeRequest reserves.

\* RequestFits, of one request.
FilledOut(req) ==
    /\ \A r \in RegionNames \ {"data_words"} : Len(req.put[r]) = req.meta[r]
    /\ Len(req.put["objects"]) = req.objects /\ Len(req.put["table"]) = req.table

\* Payload, objects and table follow each other within the data words.
LaidOut(req) ==
    LET words == req.layout.data_words
        end == words + 4 * req.meta.data_words
        payload == req.data + req.data_size
        objects_end == IF req.objects = 0 THEN payload ELSE req.objects_at + 4 * req.objects
    IN  /\ req.meta.data_words > 0 => words <= req.data - CmifHeader /\ objects_end <= end
        /\ req.objects > 0 => payload <= req.objects_at
        /\ req.table > 0 => objects_end <= req.table_at /\ req.table_at + 2 * req.table <= end

\* Together these are RequestFits.
LEMMA FitsParts ==
    ASSUME \A t \in Threads : pc[t] = "send" => FilledOut(tls[t]) /\ LaidOut(tls[t])
    PROVE  RequestFits
BY Zenon DEF RequestFits, FilledOut, LaidOut

\* The numbers that cmifMakeRequest gives to hipcMakeRequest.
Meta(fmt) ==
    [type |-> IF fmt.context # 0 THEN "RequestWithContext" ELSE "Request",
     send_pid |-> fmt.send_pid,
     copy_handles |-> fmt.handles,
     move_handles |-> 0,
     send_statics |-> fmt.in_auto_buffers + fmt.in_pointers,
     send_buffers |-> fmt.in_auto_buffers + fmt.in_buffers,
     recv_buffers |-> fmt.out_auto_buffers + fmt.out_buffers,
     exch_buffers |-> fmt.inout_buffers,
     data_words |-> (TableOffset(fmt) + 2 * TableLength(fmt) + 3) \div 4,
     recv_list |-> TableLength(fmt) + fmt.out_fixed_pointers]

\* cmifMakeRequest, field by field.
LEMMA CmifIs ==
    ASSUME NEW fmt, NEW req, req = cmifMakeRequest(fmt)
    PROVE  /\ req.meta = Meta(fmt) /\ req.header = hipcMakeRequest(Meta(fmt)).header
           /\ req.layout = hipcMakeRequest(Meta(fmt)).layout
           /\ req.data = cmifGetAlignedDataStart(req.layout.data_words)
                         + (IF fmt.object_id # 0 THEN DomainHeader ELSE 0) + CmifHeader
           /\ req.data_size = fmt.data_size
           /\ req.objects = IF fmt.object_id # 0 THEN fmt.objects ELSE 0
           /\ req.objects_at = IF fmt.object_id # 0 THEN req.data + fmt.data_size ELSE NullPtr
           /\ req.table_at = req.layout.data_words + TableOffset(fmt)
           /\ req.table = TableLength(fmt)
<1>1. PICK meta : meta = Meta(fmt)
  OBVIOUS
<1>2. PICK hipc : hipc = hipcMakeRequest(meta)
  OBVIOUS
<1>3. PICK start : start = cmifGetAlignedDataStart(hipc.layout.data_words)
  OBVIOUS
<1>4. req = [meta |-> meta, header |-> hipc.header, layout |-> hipc.layout,
             command |-> fmt.request_id, object_id |-> fmt.object_id,
             objects |-> IF fmt.object_id # 0 THEN fmt.objects ELSE 0,
             data |-> start + (IF fmt.object_id # 0 THEN DomainHeader ELSE 0) + CmifHeader,
             data_size |-> fmt.data_size,
             objects_at |-> IF fmt.object_id # 0
                            THEN start + (IF fmt.object_id # 0 THEN DomainHeader ELSE 0)
                                       + CmifHeader
                                 + fmt.data_size ELSE NullPtr,
             table_at |-> hipc.layout.data_words + TableOffset(fmt), table |-> TableLength(fmt),
             pointer_size |-> fmt.server_pointer_size, cur_in_ptr_id |-> 0,
             put |-> [r \in RegionNames \cup {"objects", "table"} |-> <<>>]]
  <2>1. cmifMakeRequest(fmt) =
            [meta |-> Meta(fmt), header |-> hipcMakeRequest(Meta(fmt)).header,
             layout |-> hipcMakeRequest(Meta(fmt)).layout,
             command |-> fmt.request_id, object_id |-> fmt.object_id,
             objects |-> IF fmt.object_id # 0 THEN fmt.objects ELSE 0,
             data |-> cmifGetAlignedDataStart(hipcMakeRequest(Meta(fmt)).layout.data_words)
                      + (IF fmt.object_id # 0 THEN DomainHeader ELSE 0) + CmifHeader,
             data_size |-> fmt.data_size,
             objects_at |-> IF fmt.object_id # 0
                THEN cmifGetAlignedDataStart(hipcMakeRequest(Meta(fmt)).layout.data_words)
                     + (IF fmt.object_id # 0 THEN DomainHeader ELSE 0) + CmifHeader
                     + fmt.data_size
                ELSE NullPtr,
             table_at |-> hipcMakeRequest(Meta(fmt)).layout.data_words + TableOffset(fmt),
             table |-> TableLength(fmt),
             pointer_size |-> fmt.server_pointer_size, cur_in_ptr_id |-> 0,
             put |-> [r \in RegionNames \cup {"objects", "table"} |-> <<>>]]
    BY Zenon DEF cmifMakeRequest, Meta
  <2> QED
    BY <1>1, <1>2, <1>3, <2>1
<1> QED
  BY <1>1, <1>2, <1>3, <1>4

\* The numbers of a format are numbers.
Counted(fmt) ==
    /\ {fmt.objects, fmt.handles, fmt.data_size, fmt.in_auto_buffers, fmt.out_auto_buffers,
        fmt.in_pointers, fmt.out_pointers, fmt.out_fixed_pointers, fmt.in_buffers,
        fmt.out_buffers, fmt.inout_buffers} \subseteq Nat

\* Format gives such numbers.
LEMMA FormatIs ==
    ASSUME NEW s, NEW cmd \in DispatchParams, NEW fmt, fmt = Format(s, cmd)
    PROVE  /\ Counted(fmt) /\ fmt.object_id = s.object_id /\ fmt.data_size = cmd.data_size
           /\ fmt.objects = Len(cmd.objects) /\ fmt.handles = Len(cmd.handles)
           /\ fmt.send_pid = cmd.send_pid
<1>1. /\ cmd.buffers \in Seq(Buffers) /\ Len(cmd.handles) \in Nat /\ Len(cmd.objects) \in Nat
      /\ cmd.data_size \in Nat
  BY ParamsAre
<1>2. PICK b, n : b = cmd.buffers /\ n = Len(b)
  OBVIOUS
<1>3. DOMAIN b = 1..n /\ n \in Int
  BY <1>1, <1>2
<1>4. IsFiniteSet(DOMAIN b)
  BY <1>3, FS_Interval
<1>5. \A S \in SUBSET (DOMAIN b) : Cardinality(S) \in Nat
  BY <1>4, FS_Subset, FS_CardinalityType
<1>6. /\ Cardinality({i \in DOMAIN b : InAuto(b[i])}) \in Nat
      /\ Cardinality({i \in DOMAIN b : OutAuto(b[i])}) \in Nat
      /\ Cardinality({i \in DOMAIN b : InPointer(b[i])}) \in Nat
      /\ Cardinality({i \in DOMAIN b : OutPointer(b[i])}) \in Nat
      /\ Cardinality({i \in DOMAIN b : Fixed(b[i])}) \in Nat
      /\ Cardinality({i \in DOMAIN b : InMapped(b[i])}) \in Nat
      /\ Cardinality({i \in DOMAIN b : OutMapped(b[i])}) \in Nat
      /\ Cardinality({i \in DOMAIN b : InOutMapped(b[i])}) \in Nat
  BY <1>5
<1> QED
  BY <1>1, <1>2, <1>6 DEF Format, Counted

\* The table begins behind payload and objects.
LEMMA OffsetIs ==
    ASSUME NEW fmt, Counted(fmt), NEW k, k = IF fmt.object_id # 0 THEN 16 + 4 * fmt.objects ELSE 0,
           NEW l, l = fmt.data_size, NEW o, o = TableOffset(fmt)
    PROVE  /\ k \in Nat /\ l \in Nat /\ o \in Nat /\ 16 + k + 16 + l <= o
           /\ o <= k + l + 33
           /\ TableLength(fmt) \in Nat
<1>1. k \in Nat /\ l \in Nat /\ TableLength(fmt) \in Nat
  BY DEF Counted, TableLength
<1>2. PICK n : n = 16 + k + 16 + l
  OBVIOUS
<1>3. o = AlignUp(n, 2)
  BY <1>2, Zenon DEF TableOffset, DomainHeader, CmifHeader
<1>4. n \in Nat
  BY <1>1, <1>2
<1>5. AlignUp(n, 2) \in Nat /\ n <= AlignUp(n, 2) /\ AlignUp(n, 2) <= n + 1
  BY <1>4, AlignIs
<1>6. o \in Nat /\ n <= o /\ o <= n + 1
  BY <1>3, <1>5
<1>7. 16 + k + 16 + l <= o /\ o <= k + l + 33
  BY <1>1, <1>2, <1>6
<1>8. QED
  BY <1>1, <1>6, <1>7

\* The data words, rounded up, hold what they are to hold.
LEMMA WordsHold ==
    ASSUME NEW o \in Nat, NEW t \in Nat
    PROVE  (o + 2 * t + 3) \div 4 \in Nat /\ o + 2 * t <= 4 * ((o + 2 * t + 3) \div 4)
BY SMT

\* The numbers of entries are numbers.
LEMMA MetaIs ==
    ASSUME NEW fmt, Counted(fmt)
    PROVE  Numbered(Meta(fmt)) /\ Meta(fmt)["data_words"] > 0
<1>1. PICK k, l, o, t, w :
         /\ k = IF fmt.object_id # 0 THEN 16 + 4 * fmt.objects ELSE 0
         /\ l = fmt.data_size /\ o = TableOffset(fmt) /\ t = TableLength(fmt)
         /\ w = (o + 2 * t + 3) \div 4
  OBVIOUS
<1>2. k \in Nat /\ l \in Nat /\ o \in Nat /\ t \in Nat /\ 16 + k + 16 + l <= o
  BY <1>1, OffsetIs
<1>3. w \in Nat /\ o + 2 * t <= 4 * w
  BY <1>1, <1>2, WordsHold
<1>4. w > 0
  BY <1>2, <1>3
<1>5. Meta(fmt)["data_words"] = w
  BY <1>1, Zenon DEF Meta
<1>6. t + fmt.out_fixed_pointers \in Nat
  BY <1>2 DEF Counted
<1>7. Meta(fmt)["recv_list"] \in Nat
  BY <1>1, <1>6 DEF Meta
<1>8. \A r \in RegionNames \ {"data_words", "recv_list"} : Meta(fmt)[r] \in Nat
  BY DEF Meta, Counted, RegionNames, EntrySize
<1> QED
  BY <1>3, <1>4, <1>5, <1>7, <1>8 DEF Numbered

\* A request of a command is laid out within its data words.
LEMMA DispatchLaidOut ==
    ASSUME NEW fmt, Counted(fmt), NEW req, req = cmifMakeRequest(fmt)
    PROVE  LaidOut(req)
<1>1. PICK k, l, o, t, w, a, d :
         /\ l = fmt.data_size /\ k = IF fmt.object_id # 0 THEN 16 + 4 * fmt.objects ELSE 0
         /\ o = TableOffset(fmt) /\ t = TableLength(fmt)
         /\ w = req.layout.data_words /\ a = cmifGetAlignedDataStart(w)
         /\ d = req.meta.data_words
  OBVIOUS
<1>2. /\ k \in Nat /\ o \in Nat /\ t \in Nat /\ 16 + k + 16 + l <= o
      /\ l \in Nat /\ fmt.objects \in Nat
  BY <1>1, OffsetIs DEF Counted
<1>3. w \in Nat
  BY <1>1, CmifIs, MetaIs, MessageIs
<1>4. a \in Nat /\ w <= a /\ a <= w + 15
  BY <1>1, <1>3, AlignIs
<1>5. d \in Nat /\ o + 2 * t <= 4 * d
  <2>1. d = (o + 2 * t + 3) \div 4
    <3>1. req.meta = Meta(fmt)
      BY CmifIs
    <3>2. Meta(fmt).data_words = (TableOffset(fmt) + 2 * TableLength(fmt) + 3) \div 4
      BY Zenon DEF Meta
    <3>3. d = Meta(fmt).data_words
      BY <1>1, <3>1
    <3> QED
      BY <1>1, <3>2, <3>3, Zenon
  <2> QED
    BY <1>2, <2>1, WordsHold
<1>6. /\ req.data = a + (IF fmt.object_id # 0 THEN 16 ELSE 0) + 16
      /\ req.data_size = l
      /\ req.objects = IF fmt.object_id # 0 THEN fmt.objects ELSE 0
      /\ req.objects_at = IF fmt.object_id # 0 THEN req.data + l ELSE NullPtr
      /\ req.table_at = w + o /\ req.table = t
  BY <1>1, CmifIs DEF DomainHeader, CmifHeader
<1>7. PICK p, e : /\ p = req.data + req.data_size
                  /\ e = IF req.objects = 0 THEN p ELSE req.objects_at + 4 * req.objects
  OBVIOUS
<1>8. CASE fmt.object_id # 0
  <2>1. /\ k = 16 + 4 * fmt.objects /\ req.data = a + 16 + 16 /\ p = a + 32 + l
        /\ req.objects = fmt.objects /\ req.objects_at = p
    BY <1>1, <1>2, <1>4, <1>6, <1>7, <1>8
  <2>2. e = p + 4 * fmt.objects
    BY <1>2, <1>4, <1>7, <2>1
  <2>3. e <= w + o /\ w <= req.data - 16 /\ w + o + 2 * t <= w + 4 * d
    BY <1>2, <1>3, <1>4, <1>5, <2>1, <2>2
  <2> QED
    BY <1>1, <1>2, <1>3, <1>4, <1>5, <1>6, <1>7, <2>1, <2>2, <2>3 DEF LaidOut, CmifHeader
<1>9. CASE fmt.object_id = 0
  <2>1. /\ k = 0 /\ req.data = a + 16 /\ p = a + 16 + l /\ req.objects = 0 /\ e = p
    BY <1>1, <1>2, <1>4, <1>6, <1>7, <1>9
  <2>3. e <= w + o /\ w <= req.data - 16 /\ w + o + 2 * t <= w + 4 * d
    BY <1>2, <1>3, <1>4, <1>5, <2>1
  <2> QED
    BY <1>1, <1>2, <1>3, <1>4, <1>5, <1>6, <1>7, <2>1, <2>3 DEF LaidOut, CmifHeader
<1> QED
  BY <1>8, <1>9

-----------------------------------------------------------------------------
\* RequestFits.

\* serviceMakeRequest fills what it reserved.
LEMMA DispatchFilledOut ==
    ASSUME NEW s, s.pointer_buffer_size \in Sizes, NEW cmd \in DispatchParams,
           NEW req, req = serviceMakeRequest(s, cmd)
    PROVE  FilledOut(req) /\ LaidOut(req)
<1>1. PICK fmt, empty : fmt = Format(s, cmd) /\ empty = cmifMakeRequest(fmt)
  OBVIOUS
<1>2. empty = cmifMakeRequest(Format(s, cmd))
  BY <1>1
<1>3. PICK f : /\ Fills(f, Handed(empty, s, cmd), cmd.buffers)
               /\ req.put = f[Len(cmd.buffers)].put
               /\ \A x \in {"meta", "header", "layout", "data", "data_size", "objects",
                            "objects_at", "table_at", "table"} : req[x] = empty[x]
  BY <1>2, MakeIs
<1>4. /\ req.meta = empty.meta /\ req.layout = empty.layout /\ req.data = empty.data
      /\ req.data_size = empty.data_size /\ req.objects = empty.objects
      /\ req.objects_at = empty.objects_at /\ req.table_at = empty.table_at
      /\ req.table = empty.table
  BY <1>3
<1>5. Counted(fmt) /\ fmt.object_id = s.object_id
  BY <1>1, FormatIs
<1>6. LaidOut(req)
  <2>1. LaidOut(empty)
    BY <1>1, <1>5, DispatchLaidOut
  <2> QED
    BY <1>4, <2>1, Zenon DEF LaidOut
<1>7. PICK first, b, n : first = Handed(empty, s, cmd) /\ b = cmd.buffers /\ n = Len(b)
  OBVIOUS
<1>8. Writable(first) /\ first.put = HandedPut(s, cmd)
  BY <1>2, <1>7, HandedIs
<1>9. b \in Seq(Buffers) /\ n \in 0..Len(b) /\ Fills(f, first, b) /\ req.put = f[n].put
  BY <1>3, <1>7, ParamsAre
<1>10. ASSUME NEW r \in Written
       PROVE  Len(req.put[r]) = Len(HandedPut(s, cmd)[r]) + Cardinality(At(b, n, r))
  BY <1>8, <1>9, <1>10, FillsCounts
<1>11. /\ Cardinality(At(b, n, "send_statics")) = fmt.in_auto_buffers + fmt.in_pointers
       /\ Cardinality(At(b, n, "send_buffers")) = fmt.in_auto_buffers + fmt.in_buffers
       /\ Cardinality(At(b, n, "recv_buffers")) = fmt.out_auto_buffers + fmt.out_buffers
       /\ Cardinality(At(b, n, "exch_buffers")) = fmt.inout_buffers
       /\ Cardinality(At(b, n, "table")) = fmt.out_auto_buffers + fmt.out_pointers
       /\ Cardinality(At(b, n, "recv_list")) =
             fmt.out_auto_buffers + fmt.out_pointers + fmt.out_fixed_pointers
  BY <1>1, <1>7, FormatCounts
<1>12. \A r \in Written : Cardinality(At(b, n, r)) \in Nat
  BY <1>9, AtIs
<1>13. ASSUME NEW r \in {"copy_handles", "move_handles", "objects", "data_words"}
       PROVE  Cardinality(At(b, n, r)) = 0
  <2>1. At(b, n, r) = {}
    BY DEF At, Uses
  <2> QED
    BY <2>1, FS_EmptySet
<1>14. /\ Len(HandedPut(s, cmd)["copy_handles"]) = Len(cmd.handles)
       /\ Len(HandedPut(s, cmd)["objects"]) = IF s.object_id # 0 THEN Len(cmd.objects) ELSE 0
       /\ \A r \in Written \ {"copy_handles", "objects"} : Len(HandedPut(s, cmd)[r]) = 0
       /\ Len(cmd.handles) \in Nat /\ Len(cmd.objects) \in Nat
  BY ParamsAre, WrittenAre DEF HandedPut
<1>15. ASSUME NEW r \in Written \ {"copy_handles", "objects"}
       PROVE  Len(req.put[r]) = Cardinality(At(b, n, r))
  <2>1. PICK c, l : c = Cardinality(At(b, n, r)) /\ l = Len(HandedPut(s, cmd)[r])
    OBVIOUS
  <2>2. c \in Nat /\ l = 0 /\ Len(req.put[r]) = l + c
    BY <1>10, <1>12, <1>14, <2>1
  <2> QED
    BY <2>1, <2>2
<1>16. /\ Len(req.put["copy_handles"]) = Len(cmd.handles)
       /\ Len(req.put["objects"]) = IF s.object_id # 0 THEN Len(cmd.objects) ELSE 0
  <2>1. /\ Len(req.put["copy_handles"]) = Len(HandedPut(s, cmd)["copy_handles"]) + 0
        /\ Len(req.put["objects"]) = Len(HandedPut(s, cmd)["objects"]) + 0
    BY <1>10, <1>13, WrittenAre
  <2> QED
    BY <1>14, <2>1
<1>17. /\ empty.meta = Meta(fmt) /\ empty.table = TableLength(fmt)
       /\ empty.objects = IF fmt.object_id # 0 THEN fmt.objects ELSE 0
       /\ fmt.objects = Len(cmd.objects) /\ fmt.handles = Len(cmd.handles)
  <2>1. /\ empty.meta = Meta(fmt) /\ empty.table = TableLength(fmt)
        /\ empty.objects = IF fmt.object_id # 0 THEN fmt.objects ELSE 0
    BY <1>1, CmifIs
  <2>2. fmt.objects = Len(cmd.objects) /\ fmt.handles = Len(cmd.handles)
    BY <1>1, FormatIs
  <2> QED
    BY <2>1, <2>2
<1>18. Len(req.put["objects"]) = req.objects /\ Len(req.put["table"]) = req.table
  <2>1. Len(req.put["table"]) = fmt.out_auto_buffers + fmt.out_pointers
    BY <1>11, <1>15, WrittenAre
  <2> QED
    BY <1>4, <1>5, <1>16, <1>17, <2>1 DEF TableLength
<1>19. /\ Len(req.put["copy_handles"]) = req.meta["copy_handles"]
       /\ Len(req.put["move_handles"]) = req.meta["move_handles"]
       /\ Len(req.put["send_statics"]) = req.meta["send_statics"]
       /\ Len(req.put["send_buffers"]) = req.meta["send_buffers"]
       /\ Len(req.put["recv_buffers"]) = req.meta["recv_buffers"]
       /\ Len(req.put["exch_buffers"]) = req.meta["exch_buffers"]
       /\ Len(req.put["recv_list"]) = req.meta["recv_list"]
  <2>1. /\ Meta(fmt)["copy_handles"] = fmt.handles /\ Meta(fmt)["move_handles"] = 0
        /\ Meta(fmt)["send_statics"] = fmt.in_auto_buffers + fmt.in_pointers
        /\ Meta(fmt)["send_buffers"] = fmt.in_auto_buffers + fmt.in_buffers
        /\ Meta(fmt)["recv_buffers"] = fmt.out_auto_buffers + fmt.out_buffers
        /\ Meta(fmt)["exch_buffers"] = fmt.inout_buffers
        /\ Meta(fmt)["recv_list"] = fmt.out_auto_buffers + fmt.out_pointers + fmt.out_fixed_pointers
    BY DEF Meta, TableLength
  <2>2. /\ Len(req.put["move_handles"]) = 0
        /\ Len(req.put["send_statics"]) = Cardinality(At(b, n, "send_statics"))
        /\ Len(req.put["send_buffers"]) = Cardinality(At(b, n, "send_buffers"))
        /\ Len(req.put["recv_buffers"]) = Cardinality(At(b, n, "recv_buffers"))
        /\ Len(req.put["exch_buffers"]) = Cardinality(At(b, n, "exch_buffers"))
        /\ Len(req.put["recv_list"]) = Cardinality(At(b, n, "recv_list"))
    BY <1>13, <1>15, WrittenAre
  <2>3. req.meta = Meta(fmt)
    BY <1>4, <1>17
  <2> QED
    BY <1>11, <1>16, <1>17, <2>1, <2>2, <2>3
<1>20. RegionNames \ {"data_words"} = {"copy_handles", "move_handles", "send_statics",
                                       "send_buffers", "recv_buffers", "exch_buffers", "recv_list"}
  BY DEF RegionNames, EntrySize
<1> QED
  BY <1>6, <1>18, <1>19, <1>20 DEF FilledOut

\* A message of data words alone.
LEMMA PlainFits ==
    ASSUME NEW type, NEW n \in Nat, NEW meta, meta = OnlyWords(type, n),
           NEW command, NEW id, NEW data \in Nat, NEW size \in Nat,
           \/ data >= 16 /\ data + 15 + size <= 4 * n
           \/ n = 0,
           NEW req, req = Plain(meta, command, id, data, size)
    PROVE  FilledOut(req) /\ LaidOut(req)
<1>1. Numbered(meta) /\ meta.data_words = n /\ \A r \in RegionNames \ {"data_words"} : meta[r] = 0
  BY DEF OnlyWords, Numbered, RegionNames, EntrySize
<1>2. PICK w, a : w = hipcMakeRequest(meta).layout.data_words /\ a = cmifGetAlignedDataStart(w)
  OBVIOUS
<1>3. w \in Nat /\ a \in Nat /\ w <= a /\ a <= w + 15
  BY <1>1, <1>2, MessageIs, AlignIs
<1>4. /\ req.meta = meta /\ req.layout.data_words = w /\ req.data = a + data
      /\ req.data_size = size /\ req.objects = 0 /\ req.table = 0
      /\ req.put = [r \in Written |-> <<>>]
  <2>1. PICK hipc : hipc = hipcMakeRequest(meta)
    OBVIOUS
  <2>2. req = [meta |-> meta, header |-> hipc.header, layout |-> hipc.layout,
               command |-> command, object_id |-> id, objects |-> 0,
               data |-> cmifGetAlignedDataStart(hipc.layout.data_words) + data,
               data_size |-> size,
               objects_at |-> NullPtr, table_at |-> NullPtr, table |-> 0,
               pointer_size |-> 0, cur_in_ptr_id |-> 0,
               put |-> [r \in RegionNames \cup {"objects", "table"} |-> <<>>]]
    BY <2>1, Zenon DEF Plain
  <2> QED
    BY <1>2, <2>1, <2>2 DEF Written
<1>5. FilledOut(req)
  BY <1>1, <1>4 DEF FilledOut, Written
<1>6. LaidOut(req)
  <2>1. CASE n = 0
    BY <1>1, <1>4, <2>1 DEF LaidOut
  <2>2. CASE data >= 16 /\ data + 15 + size <= 4 * n
    <3>1. w <= a + data - 16 /\ a + data + size <= w + 4 * n
      BY <1>3, <2>2
    <3> QED
      BY <1>1, <1>3, <1>4, <3>1 DEF LaidOut, CmifHeader
  <2> QED
    BY <2>1, <2>2
<1> QED
  BY <1>5, <1>6

\* Control and close requests have no regions to fill.
LEMMA PlainAll ==
    ASSUME NEW req \in PlainMessages
    PROVE  FilledOut(req) /\ LaidOut(req)
<1>1. ASSUME NEW command \in {0, 2, 3, 4}, NEW size \in {0, 4},
             req = cmifMakeControlRequest(command, size)
      PROVE  FilledOut(req) /\ LaidOut(req)
  <2>1. PICK n : n = (16 + 16 + size + 3) \div 4
    OBVIOUS
  <2>2. n \in Nat /\ 16 + 15 + size <= 4 * n /\ size \in Nat
    BY <2>1, SMT
  <2>3. req = Plain(OnlyWords("Control", n), command, 0, 16, size)
    BY <1>1, <2>1, Zenon DEF cmifMakeControlRequest, CmifHeader
  <2> QED
    BY <2>2, <2>3, PlainFits
<1>2. ASSUME NEW id, req = cmifMakeCloseRequest(id)
      PROVE  FilledOut(req) /\ LaidOut(req)
  <2>1. CASE id # 0
    <3>1. (16 + 16) \div 4 = 8
      BY SMT
    <3>2. req = Plain(OnlyWords("Request", 8), "close", id, 16, 0)
      BY <1>2, <2>1, <3>1 DEF cmifMakeCloseRequest, DomainHeader
    <3> QED
      BY <3>2, PlainFits
  <2>2. CASE id = 0
    <3>1. req = Plain(OnlyWords("Close", 0), "close", 0, 0, 0)
      BY <1>2, <2>2 DEF cmifMakeCloseRequest
    <3> QED
      BY <3>1, PlainFits
  <2> QED
    BY <2>1, <2>2
<1> QED
  BY <1>1, <1>2 DEF PlainMessages

\* RequestFits follows from the invariant of what is on its way.
LEMMA SentFilled ==
    ASSUME OwnInv, GuardInv, SentInv
    PROVE  RequestFits
<1>1. ASSUME NEW t \in Threads, pc[t] = "send" PROVE FilledOut(tls[t]) /\ LaidOut(tls[t])
  <2>1. Formed(t)
    BY <1>1 DEF SentInv
  <2>2. CASE call[t].op = "dispatch"
    BY <2>1, <2>2, TargetIs, DispatchFilledOut DEF Formed
  <2>3. CASE call[t].op # "dispatch"
    BY <2>1, <2>3, PlainAll DEF Formed
  <2> QED
    BY <2>2, <2>3
<1> QED
  BY <1>1, FitsParts

\* What cmifMakeRequest reserves for a request is filled exactly, for every command:
\* _serviceRequestFormatProcessBuffer counts each buffer in the regions that
\* _serviceRequestProcessBuffer writes it to, and payload, objects and the table
\* of pointer sizes follow each other within the data words.
THEOREM ServiceRequestFits == Spec => []RequestFits
BY SentAlways, SentFilled, PTL

-----------------------------------------------------------------------------
\* hipcParseRequest finds again what hipcMakeRequest wrote, where the header holds it.

\* The header of a request says all of its layout.

\* The fields of a header hold the numbers of a message.
Narrow(n) == n \in Nat /\ n < 16
\* The header of a message has room for the numbers of meta.
Holds(meta) ==
    /\ DOMAIN meta = {"type", "send_pid", "copy_handles", "move_handles", "send_statics",
                      "send_buffers", "recv_buffers", "exch_buffers", "data_words", "recv_list"}
    /\ meta = [x \in DOMAIN meta |-> meta[x]]
    /\ meta.send_pid \in BOOLEAN
    /\ Narrow(meta.copy_handles) /\ Narrow(meta.move_handles) /\ Narrow(meta.send_statics)
    /\ Narrow(meta.send_buffers) /\ Narrow(meta.recv_buffers) /\ Narrow(meta.exch_buffers)
    /\ meta.recv_list \in 0..8
    /\ meta.data_words \in Nat /\ meta.data_words < 1024

\* Four bits keep a number below sixteen.
LEMMA NarrowIs == ASSUME NEW n, Narrow(n) PROVE Field(n, 16) = n
BY FieldIs DEF Narrow

\* recv_static_mode gives the number of receive statics back.
LEMMA ModeNarrow ==
    ASSUME NEW n \in 0..8, NEW m, m = Field(ModeOf(n), 16)
    PROVE  (IF m = 2 THEN AutoRecvStatic ELSE IF m > 2 THEN m - 2 ELSE 0) = n
<1>1. ModeOf(n) = IF n = 0 THEN 0 ELSE 2 + n
  BY DEF ModeOf, AutoRecvStatic
<1>2. Narrow(ModeOf(n))
  BY <1>1 DEF Narrow
<1>3. m = ModeOf(n)
  BY <1>2, NarrowIs
<1> QED
  BY <1>1, <1>3

\* Without a special header there is nothing that it would say.
LEMMA SpecialIs ==
    ASSUME NEW meta, Holds(meta), NEW special, special = HasSpecialHeader(meta)
    PROVE  /\ special \in BOOLEAN
           /\ (special /\ meta.send_pid) = meta.send_pid
           /\ (IF special THEN Field(meta.copy_handles, 16) ELSE 0) = meta.copy_handles
           /\ (IF special THEN Field(meta.move_handles, 16) ELSE 0) = meta.move_handles
           /\ HeaderSize(special, special /\ meta.send_pid) = HeaderSize(special, meta.send_pid)
<1>1. /\ meta.send_pid \in BOOLEAN
      /\ Field(meta.copy_handles, 16) = meta.copy_handles
      /\ Field(meta.move_handles, 16) = meta.move_handles
  BY NarrowIs DEF Holds
<1>2. special \in BOOLEAN
  BY <1>1 DEF HasSpecialHeader
<1>3. CASE special
  <2>1. (special /\ meta.send_pid) = meta.send_pid
    BY <1>1, <1>3
  <2> QED
    BY <1>1, <1>2, <1>3, <2>1
<1>4. CASE ~special
  <2>1. meta.send_pid = FALSE /\ meta.copy_handles = 0 /\ meta.move_handles = 0
    BY <1>1, <1>4 DEF HasSpecialHeader
  <2>2. (special /\ meta.send_pid) = meta.send_pid
    BY <1>4, <2>1
  <2> QED
    BY <1>2, <1>4, <2>1, <2>2
<1> QED
  BY <1>3, <1>4

\* hipcParseRequest gives back what hipcMakeRequest was given, and its layout.
LEMMA ParseIs ==
    ASSUME NEW meta, Holds(meta), NEW made, made = hipcMakeRequest(meta)
    PROVE  hipcParseRequest(made.header) = [meta |-> meta, layout |-> made.layout]
<1>1. PICK special : special = HasSpecialHeader(meta)
  OBVIOUS
<1>2. PICK hdr : hdr = made.header
  OBVIOUS
<1>3. PICK pid, copies, moves, layout :
         /\ pid = (special /\ meta.send_pid)
         /\ copies = (IF special THEN Field(meta.copy_handles, 16) ELSE 0)
         /\ moves = (IF special THEN Field(meta.move_handles, 16) ELSE 0)
         /\ layout = hipcCalcRequestLayout(meta, HeaderSize(special, meta.send_pid))
  BY Zenon
<1>4. made = [header |-> [type |-> meta.type,
                 send_statics |-> Field(meta.send_statics, 16),
                 send_buffers |-> Field(meta.send_buffers, 16),
                 recv_buffers |-> Field(meta.recv_buffers, 16),
                 exch_buffers |-> Field(meta.exch_buffers, 16),
                 data_words |-> Field(meta.data_words, 1024),
                 recv_static_mode |-> Field(ModeOf(meta.recv_list), 16),
                 special |-> special, send_pid |-> pid,
                 copy_handles |-> copies, move_handles |-> moves],
              layout |-> layout]
  <2>1. hipcMakeRequest(meta) =
          [header |-> [type |-> meta.type,
             send_statics |-> Field(meta.send_statics, 16),
             send_buffers |-> Field(meta.send_buffers, 16),
             recv_buffers |-> Field(meta.recv_buffers, 16),
             exch_buffers |-> Field(meta.exch_buffers, 16),
             data_words |-> Field(meta.data_words, 1024),
             recv_static_mode |-> Field(ModeOf(meta.recv_list), 16),
             special |-> HasSpecialHeader(meta),
             send_pid |-> HasSpecialHeader(meta) /\ meta.send_pid,
             copy_handles |-> IF HasSpecialHeader(meta) THEN Field(meta.copy_handles, 16) ELSE 0,
             move_handles |-> IF HasSpecialHeader(meta) THEN Field(meta.move_handles, 16) ELSE 0],
           layout |-> hipcCalcRequestLayout(
                         meta, HeaderSize(HasSpecialHeader(meta), meta.send_pid))]
    BY Zenon DEF hipcMakeRequest
  <2>2. made = [header |-> [type |-> meta.type,
                   send_statics |-> Field(meta.send_statics, 16),
                   send_buffers |-> Field(meta.send_buffers, 16),
                   recv_buffers |-> Field(meta.recv_buffers, 16),
                   exch_buffers |-> Field(meta.exch_buffers, 16),
                   data_words |-> Field(meta.data_words, 1024),
                   recv_static_mode |-> Field(ModeOf(meta.recv_list), 16),
                   special |-> special,
                   send_pid |-> special /\ meta.send_pid,
                   copy_handles |-> IF special THEN Field(meta.copy_handles, 16) ELSE 0,
                   move_handles |-> IF special THEN Field(meta.move_handles, 16) ELSE 0],
                layout |-> hipcCalcRequestLayout(meta, HeaderSize(special, meta.send_pid))]
    BY <1>1, <2>1
  <2> QED
    BY <1>3, <2>2
<1>5. /\ made.layout = layout
      /\ hdr.type = meta.type
      /\ hdr.send_statics = Field(meta.send_statics, 16)
      /\ hdr.send_buffers = Field(meta.send_buffers, 16)
      /\ hdr.recv_buffers = Field(meta.recv_buffers, 16)
      /\ hdr.exch_buffers = Field(meta.exch_buffers, 16)
      /\ hdr.data_words = Field(meta.data_words, 1024)
      /\ hdr.recv_static_mode = Field(ModeOf(meta.recv_list), 16)
      /\ hdr.special = special /\ hdr.send_pid = pid
      /\ hdr.copy_handles = copies /\ hdr.move_handles = moves
  BY <1>2, <1>4
<1>6. /\ special \in BOOLEAN
      /\ (special /\ meta.send_pid) = meta.send_pid
      /\ (IF special THEN Field(meta.copy_handles, 16) ELSE 0) = meta.copy_handles
      /\ (IF special THEN Field(meta.move_handles, 16) ELSE 0) = meta.move_handles
      /\ HeaderSize(special, special /\ meta.send_pid) = HeaderSize(special, meta.send_pid)
  BY <1>1, SpecialIs
<1>7. PICK statics : statics = IF hdr.recv_static_mode = 2 THEN AutoRecvStatic
                   ELSE IF hdr.recv_static_mode > 2 THEN hdr.recv_static_mode - 2 ELSE 0
  OBVIOUS
<1>8. statics = meta.recv_list
  BY <1>5, <1>7, ModeNarrow DEF Holds
<1>9. PICK read : read = [type |-> hdr.type, send_pid |-> hdr.send_pid,
                 copy_handles |-> hdr.copy_handles, move_handles |-> hdr.move_handles,
                 send_statics |-> hdr.send_statics, send_buffers |-> hdr.send_buffers,
                 recv_buffers |-> hdr.recv_buffers, exch_buffers |-> hdr.exch_buffers,
                 data_words |-> hdr.data_words, recv_list |-> statics]
  OBVIOUS
<1>10. hipcParseRequest(hdr) =
          [meta |-> read,
           layout |-> hipcCalcRequestLayout(read, HeaderSize(hdr.special, hdr.send_pid))]
  BY <1>7, <1>9, Zenon DEF hipcParseRequest
<1>11. /\ hdr.send_statics = meta.send_statics /\ hdr.send_buffers = meta.send_buffers
       /\ hdr.recv_buffers = meta.recv_buffers /\ hdr.exch_buffers = meta.exch_buffers
       /\ hdr.data_words = meta.data_words /\ hdr.type = meta.type
  BY <1>5, NarrowIs, FieldIs DEF Holds
<1>12. /\ hdr.send_pid = meta.send_pid /\ hdr.copy_handles = meta.copy_handles
       /\ hdr.move_handles = meta.move_handles
  <2>1. pid = meta.send_pid /\ copies = meta.copy_handles /\ moves = meta.move_handles
    BY <1>3, <1>6, Zenon
  <2>2. hdr.send_pid = pid /\ hdr.copy_handles = copies /\ hdr.move_handles = moves
    BY <1>5
  <2> QED
    BY <2>1, <2>2, Zenon
<1>13. read = meta
  <2>1. read = [type |-> meta.type, send_pid |-> meta.send_pid,
                 copy_handles |-> meta.copy_handles, move_handles |-> meta.move_handles,
                 send_statics |-> meta.send_statics, send_buffers |-> meta.send_buffers,
                 recv_buffers |-> meta.recv_buffers, exch_buffers |-> meta.exch_buffers,
                 data_words |-> meta.data_words, recv_list |-> meta.recv_list]
    BY <1>8, <1>9, <1>11, <1>12, Zenon
  <2>2. DOMAIN read = DOMAIN meta /\ \A x \in DOMAIN meta : read[x] = meta[x]
    BY <2>1 DEF Holds
  <2>3. read = [x \in DOMAIN read |-> read[x]] /\ meta = [x \in DOMAIN meta |-> meta[x]]
    BY <2>1 DEF Holds
  <2> QED
    BY <2>2, <2>3
<1>14. HeaderSize(hdr.special, hdr.send_pid) = HeaderSize(special, meta.send_pid)
  <2>1. HeaderSize(special, pid) = HeaderSize(special, meta.send_pid)
    BY <1>3, <1>6, Zenon
  <2>2. hdr.special = special /\ hdr.send_pid = pid
    BY <1>5
  <2> QED
    BY <2>1, <2>2, Zenon
<1>15. hipcCalcRequestLayout(read, HeaderSize(hdr.special, hdr.send_pid)) = made.layout
  <2>1. layout = hipcCalcRequestLayout(meta, HeaderSize(special, meta.send_pid))
    BY <1>3
  <2>2. made.layout = layout
    BY <1>5
  <2> QED
    BY <1>13, <1>14, <2>1, <2>2, Zenon
<1>16. [meta |-> read,
        layout |-> hipcCalcRequestLayout(read, HeaderSize(hdr.special, hdr.send_pid))] =
       [meta |-> meta, layout |-> made.layout]
  BY <1>13, <1>15
<1> QED
  BY <1>2, <1>10, <1>16, Zenon

-----------------------------------------------------------------------------
\* Every request is parsed back.

\* The other side parses the header of req to its numbers and layout.
ParsedBack(req) == hipcParseRequest(req.header) = [meta |-> req.meta, layout |-> req.layout]

\* num_data_words is below 1024: its 10 bits hold it.
LEMMA FewWords ==
    ASSUME NEW k \in Nat, k <= 48, NEW l \in Nat, l <= 3072,
           NEW o \in Nat, o <= k + l + 33, NEW t \in Nat, t <= 8
    PROVE  (o + 2 * t + 3) \div 4 \in Nat /\ (o + 2 * t + 3) \div 4 < 1024
BY SMT

\* The header has room for the numbers of a command that can be told.
LEMMA DispatchHolds ==
    ASSUME NEW s, NEW cmd \in DispatchParams, Tellable(cmd), NEW fmt, fmt = Format(s, cmd)
    PROVE  Holds(Meta(fmt))
<1>1. PICK b, n : b = cmd.buffers /\ n = Len(b)
  OBVIOUS
<1>0. fmt = Format(s, cmd) /\ b = cmd.buffers /\ n = Len(b)
  BY <1>1
<1>21. /\ Cardinality(At(b, n, "send_statics")) = fmt.in_auto_buffers + fmt.in_pointers
      /\ Cardinality(At(b, n, "send_buffers")) = fmt.in_auto_buffers + fmt.in_buffers
      /\ Cardinality(At(b, n, "recv_buffers")) = fmt.out_auto_buffers + fmt.out_buffers
      /\ Cardinality(At(b, n, "exch_buffers")) = fmt.inout_buffers
      /\ Cardinality(At(b, n, "table")) = fmt.out_auto_buffers + fmt.out_pointers
      /\ Cardinality(At(b, n, "recv_list")) =
            fmt.out_auto_buffers + fmt.out_pointers + fmt.out_fixed_pointers
  BY <1>0, FormatCounts
<1>22. n \in 0..8
  <2>1. b \in Seq(Buffers) /\ n <= 8
    BY <1>0, ParamsAre
  <2>2. n \in Nat
    BY <1>0, <2>1
  <2> QED
    BY <2>1, <2>2
<1>2. /\ n \in 0..8
      /\ Cardinality(At(b, n, "table")) = fmt.out_auto_buffers + fmt.out_pointers
      /\ Cardinality(At(b, n, "recv_list")) =
            fmt.out_auto_buffers + fmt.out_pointers + fmt.out_fixed_pointers
      /\ Cardinality(At(b, n, "send_statics")) = fmt.in_auto_buffers + fmt.in_pointers
      /\ Cardinality(At(b, n, "send_buffers")) = fmt.in_auto_buffers + fmt.in_buffers
      /\ Cardinality(At(b, n, "recv_buffers")) = fmt.out_auto_buffers + fmt.out_buffers
      /\ Cardinality(At(b, n, "exch_buffers")) = fmt.inout_buffers
  BY <1>21, <1>22, Zenon
<1>3. ASSUME NEW r PROVE Cardinality(At(b, n, r)) \in 0..8
  <2>1. n \in Nat /\ n <= 8 /\ n \in Int /\ 1 \in Int
    BY <1>2
  <2>2. IsFiniteSet(1..n) /\ Cardinality(1..n) = n
    BY <2>1, FS_Interval
  <2>3. At(b, n, r) \subseteq 1..n
    BY DEF At
  <2>4. Cardinality(At(b, n, r)) \in Nat
    BY <2>1, AtIs
  <2>5. Cardinality(At(b, n, r)) <= Cardinality(1..n)
    BY <2>2, <2>3, FS_Subset
  <2> QED
    BY <2>1, <2>2, <2>4, <2>5
<1>4. /\ Counted(fmt) /\ fmt.data_size = cmd.data_size /\ fmt.objects = Len(cmd.objects)
      /\ fmt.handles = Len(cmd.handles) /\ fmt.send_pid = cmd.send_pid
  BY FormatIs
<1>5. /\ Len(cmd.handles) \in 0..8 /\ Len(cmd.objects) \in 0..8
      /\ cmd.data_size \in Nat /\ cmd.data_size <= 3072 /\ cmd.send_pid \in BOOLEAN
  <2>1. /\ cmd.handles \in Seq(Nat) /\ cmd.objects \in Seq(Nat)
        /\ Len(cmd.handles) <= 8 /\ Len(cmd.objects) <= 8
        /\ cmd.data_size \in Nat /\ cmd.send_pid \in BOOLEAN
    BY ParamsAre
  <2>2. Len(cmd.handles) \in Nat /\ Len(cmd.objects) \in Nat
    BY <2>1
  <2>3. PICK l : l = cmd.data_size
    OBVIOUS
  <2>4. Tellable(cmd) => l <= 3072
    BY <2>3 DEF Tellable
  <2>5. cmd.data_size <= 3072
    BY <2>3, <2>4
  <2>6. Len(cmd.handles) \in 0..8 /\ Len(cmd.objects) \in 0..8
    <3>1. PICK h, j : h = Len(cmd.handles) /\ j = Len(cmd.objects)
      OBVIOUS
    <3>2. h \in Nat /\ j \in Nat /\ h <= 8 /\ j <= 8
      BY <2>1, <2>2, <3>1, Zenon
    <3>3. h \in 0..8 /\ j \in 0..8
      BY <3>2
    <3> QED
      BY <3>1, <3>3, Zenon
  <2> QED
    BY <2>1, <2>5, <2>6
<1>6. PICK k, l, o, t :
         /\ k = IF fmt.object_id # 0 THEN 16 + 4 * fmt.objects ELSE 0
         /\ l = fmt.data_size /\ o = TableOffset(fmt) /\ t = TableLength(fmt)
  OBVIOUS
<1>7. k \in Nat /\ k <= 48 /\ l \in Nat /\ l <= 3072
  <2>1. l = cmd.data_size
    BY <1>4, <1>6
  <2>2. PICK j : j = fmt.objects
    OBVIOUS
  <2>3. j \in 0..8
    BY <1>4, <1>5, <2>2
  <2>4. k = 16 + 4 * j \/ k = 0
    BY <1>6, <2>2
  <2> QED
    BY <1>5, <2>1, <2>3, <2>4
<1>8. o \in Nat /\ o <= k + l + 33
  BY <1>4, <1>6, OffsetIs
<1>9. t \in 0..8
  BY <1>2, <1>3, <1>6 DEF TableLength
<1>10. PICK w : w = (o + 2 * t + 3) \div 4
  OBVIOUS
<1>11. w \in Nat /\ w < 1024
  <2>1. t \in Nat /\ t <= 8
    BY <1>9
  <2> QED
    BY <1>7, <1>8, <1>10, <2>1, FewWords
<1>12. Meta(fmt).data_words = w
  <2>1. Meta(fmt).data_words = (TableOffset(fmt) + 2 * TableLength(fmt) + 3) \div 4
    BY Zenon DEF Meta
  <2> QED
    BY <1>6, <1>10, <2>1, Zenon
<1>13. PICK ss, sb, rb, eb, rl :
          /\ ss = fmt.in_auto_buffers + fmt.in_pointers /\ sb = fmt.in_auto_buffers + fmt.in_buffers
          /\ rb = fmt.out_auto_buffers + fmt.out_buffers /\ eb = fmt.inout_buffers
          /\ rl = t + fmt.out_fixed_pointers
  OBVIOUS
<1>14. ss \in 0..8 /\ sb \in 0..8 /\ rb \in 0..8 /\ eb \in 0..8 /\ rl \in 0..8
  <2>1. t + fmt.out_fixed_pointers = Cardinality(At(b, n, "recv_list"))
    BY <1>2, <1>6 DEF TableLength
  <2> QED
    BY <1>2, <1>3, <1>13, <2>1
<1>15. PICK type : type = IF fmt.context # 0 THEN "RequestWithContext" ELSE "Request"
  OBVIOUS
<1>16. Meta(fmt) = [type |-> type, send_pid |-> fmt.send_pid, copy_handles |-> fmt.handles,
                    move_handles |-> 0, send_statics |-> ss, send_buffers |-> sb,
                    recv_buffers |-> rb, exch_buffers |-> eb,
                    data_words |-> (TableOffset(fmt) + 2 * TableLength(fmt) + 3) \div 4,
                    recv_list |-> rl]
  <2>1. rl = TableLength(fmt) + fmt.out_fixed_pointers
    BY <1>6, <1>13
  <2> QED
    BY <1>13, <1>15, <2>1, Zenon DEF Meta
<1>17. PICK m, d : m = Meta(fmt) /\ d = (TableOffset(fmt) + 2 * TableLength(fmt) + 3) \div 4
  OBVIOUS
<1>18. m = [type |-> type, send_pid |-> fmt.send_pid, copy_handles |-> fmt.handles,
            move_handles |-> 0, send_statics |-> ss, send_buffers |-> sb,
            recv_buffers |-> rb, exch_buffers |-> eb, data_words |-> d, recv_list |-> rl]
  BY <1>16, <1>17, Zenon
<1>19. fmt.send_pid \in BOOLEAN /\ fmt.handles \in 0..8
  BY <1>4, <1>5
<1>20. m.data_words \in Nat /\ m.data_words < 1024
  BY <1>11, <1>12, <1>17
<1>23. Holds(m)
  BY <1>14, <1>18, <1>19, <1>20 DEF Holds, Narrow
<1> QED
  BY <1>17, <1>23

\* A request of nothing but words is parsed back.
LEMMA PlainBack ==
    ASSUME NEW type, NEW n \in 0..16, NEW command, NEW id, NEW data, NEW size,
           NEW req, req = Plain(OnlyWords(type, n), command, id, data, size)
    PROVE  ParsedBack(req)
<1>1. PICK meta, made : meta = OnlyWords(type, n) /\ made = hipcMakeRequest(meta)
  OBVIOUS
<1>2. Holds(meta)
  BY <1>1 DEF OnlyWords, Holds, Narrow
<1>3. req = [meta |-> meta, header |-> made.header, layout |-> made.layout,
               command |-> command, object_id |-> id, objects |-> 0,
               data |-> cmifGetAlignedDataStart(made.layout.data_words) + data,
               data_size |-> size,
               objects_at |-> NullPtr, table_at |-> NullPtr, table |-> 0,
               pointer_size |-> 0, cur_in_ptr_id |-> 0,
               put |-> [r \in RegionNames \cup {"objects", "table"} |-> <<>>]]
  BY <1>1, Zenon DEF Plain
<1>4. req.meta = meta /\ req.header = made.header /\ req.layout = made.layout
  BY <1>3
<1>5. hipcParseRequest(made.header) = [meta |-> meta, layout |-> made.layout]
  BY <1>1, <1>2, ParseIs
<1> QED
  BY <1>4, <1>5, Zenon DEF ParsedBack

\* Control and close requests are such requests.
LEMMA PlainAllBack ==
    ASSUME NEW req \in PlainMessages
    PROVE  ParsedBack(req)
<1>1. ASSUME NEW command \in {0, 2, 3, 4}, NEW size \in {0, 4},
             req = cmifMakeControlRequest(command, size)
      PROVE  ParsedBack(req)
  <2>1. PICK n : n = (16 + 16 + size + 3) \div 4
    OBVIOUS
  <2>2. n \in 0..16
    BY <2>1, SMT
  <2>3. req = Plain(OnlyWords("Control", n), command, 0, 16, size)
    BY <1>1, <2>1, Zenon DEF cmifMakeControlRequest, CmifHeader
  <2> QED
    BY <2>2, <2>3, PlainBack
<1>2. ASSUME NEW id, req = cmifMakeCloseRequest(id)
      PROVE  ParsedBack(req)
  <2>1. CASE id # 0
    <3>1. (16 + 16) \div 4 = 8
      BY SMT
    <3>2. req = Plain(OnlyWords("Request", 8), "close", id, 16, 0)
      BY <1>2, <2>1, <3>1 DEF cmifMakeCloseRequest, DomainHeader
    <3> QED
      BY <3>2, PlainBack
  <2>2. CASE id = 0
    <3>1. req = Plain(OnlyWords("Close", 0), "close", 0, 0, 0)
      BY <1>2, <2>2 DEF cmifMakeCloseRequest
    <3> QED
      BY <3>1, PlainBack
  <2> QED
    BY <2>1, <2>2
<1> QED
  BY <1>1, <1>2 DEF PlainMessages

\* A request of a command is parsed back.
LEMMA DispatchBack ==
    ASSUME NEW s, s.pointer_buffer_size \in Sizes, NEW cmd \in DispatchParams, Tellable(cmd),
           NEW req, req = serviceMakeRequest(s, cmd)
    PROVE  ParsedBack(req)
<1>1. PICK fmt, empty, meta, made :
         /\ fmt = Format(s, cmd) /\ empty = cmifMakeRequest(fmt)
         /\ meta = Meta(fmt) /\ made = hipcMakeRequest(meta)
  OBVIOUS
<1>2. empty = cmifMakeRequest(Format(s, cmd))
  BY <1>1
<1>3. /\ req["meta"] = empty["meta"] /\ req["header"] = empty["header"]
      /\ req["layout"] = empty["layout"]
  BY <1>2, MakeIs
<1>4. empty.meta = meta /\ empty.header = made.header /\ empty.layout = made.layout
  BY <1>1, CmifIs
<1>5. Holds(meta)
  BY <1>1, DispatchHolds
<1>6. hipcParseRequest(made.header) = [meta |-> meta, layout |-> made.layout]
  BY <1>1, <1>5, ParseIs
<1>7. req.meta = meta /\ req.header = made.header /\ req.layout = made.layout
  BY <1>3, <1>4
<1> QED
  BY <1>6, <1>7, Zenon DEF ParsedBack

-----------------------------------------------------------------------------
\* What the other side has seen, and the arguments of a command, as functions of the
\* number of buffers.

\* What the other side has left, and has seen, after each of the buffers b.
Sees(g, put, b) ==
    /\ g[0] = [left |-> put, seen |-> <<>>]
    /\ \A n \in 1..Len(b) : g[n] = Seen(g[n - 1], b[n])

\* The arguments of the first buffers.
Lists(g, b) == g[0] = <<>> /\ \A n \in 1..Len(b) : g[n] = g[n - 1] \o ArgumentsOf(b[n])

\* ServerSees and Arguments, of the buffers alone.
SeenOf(put, b) ==
    LET taken[n \in 0..Len(b)] ==
            IF n = 0 THEN [left |-> put, seen |-> <<>>] ELSE Seen(taken[n - 1], b[n])
    IN  taken[Len(b)].seen

Listed(b) ==
    LET upTo[n \in 0..Len(b)] == IF n = 0 THEN <<>> ELSE upTo[n - 1] \o ArgumentsOf(b[n])
    IN  upTo[Len(b)]

LEMMA TheseAre ==
    /\ \A req, cmd : ServerSees(req, cmd) = SeenOf(req.put, cmd.buffers)
    /\ \A cmd : Arguments(cmd) = Listed(cmd.buffers)
BY Zenon DEF ServerSees, SeenOf, Arguments, Listed

\* The recursions of ServerSees and of Arguments have solutions.
LEMMA SeesExist ==
    ASSUME NEW put, NEW b, Len(b) \in Nat
    PROVE  \E g : Sees(g, put, b) /\ SeenOf(put, b) = g[Len(b)].seen
<1> DEFINE Upto(g, k) == /\ g[0] = [left |-> put, seen |-> <<>>]
                         /\ \A n \in 1..k : g[n] = Seen(g[n - 1], b[n])
           S == {k \in Nat : \E g : Upto(g, k)}
<1>1. 0 \in S
  <2>1. Upto([n \in {0} |-> [left |-> put, seen |-> <<>>]], 0)
    OBVIOUS
  <2> QED
    BY <2>1, Zenon
<1>2. ASSUME NEW k \in Nat, k \in S PROVE k + 1 \in S
  <2>1. PICK g : Upto(g, k)
    BY <1>2
  <2>2. PICK x : x = Seen(g[k], b[k + 1])
    OBVIOUS
  <2>3. PICK h : h = [n \in 0..(k + 1) |-> IF n = k + 1 THEN x ELSE g[n]]
    OBVIOUS
  <2>4. h[0] = [left |-> put, seen |-> <<>>] /\ k + 1 \in Nat
    BY <2>1, <2>3
  <2>5. ASSUME NEW n \in 1..(k + 1) PROVE h[n] = Seen(h[n - 1], b[n])
    <3>1. CASE n = k + 1
      <4>1. h[n] = x /\ h[n - 1] = g[k]
        BY <2>3, <3>1
      <4> QED
        BY <2>2, <3>1, <4>1
    <3>2. CASE n # k + 1
      <4>1. n \in 1..k /\ h[n] = g[n] /\ h[n - 1] = g[n - 1]
        BY <2>3, <3>2
      <4>2. g[n] = Seen(g[n - 1], b[n])
        BY <2>1, <4>1
      <4> QED
        BY <4>1, <4>2
    <3> QED
      BY <3>1, <3>2
  <2>6. Upto(h, k + 1)
    BY <2>4, <2>5
  <2> QED
    BY <2>4, <2>6, Zenon
<1> HIDE DEF S
<1>3. Nat \subseteq S
  BY <1>1, <1>2, NaturalsIn
<1> DEFINE Is(f) == f = [n \in 0..Len(b) |-> IF n = 0 THEN [left |-> put, seen |-> <<>>]
                                             ELSE Seen(f[n - 1], b[n])]
<1>4. PICK g : Upto(g, Len(b))
  BY <1>3 DEF S
<1>5. PICK h : h = [n \in 0..Len(b) |-> g[n]]
  OBVIOUS
<1>6. Is(h)
  <2>1. ASSUME NEW n \in 0..Len(b)
        PROVE  g[n] = IF n = 0 THEN [left |-> put, seen |-> <<>>] ELSE Seen(h[n - 1], b[n])
    <3>1. n # 0 => n \in 1..Len(b) /\ h[n - 1] = g[n - 1]
      BY <1>5
    <3> QED
      BY <1>4, <3>1
  <2> QED
    BY <1>5, <2>1
<1>7. PICK f : SeenOf(put, b) = f[Len(b)].seen /\ Is(f)
  BY <1>6, Zenon DEF SeenOf
<1>8. ASSUME NEW n \in 1..Len(b) PROVE f[n] = Seen(f[n - 1], b[n])
  <2>1. n \in 0..Len(b) /\ n # 0
    OBVIOUS
  <2>2. f[n] = IF n = 0 THEN [left |-> put, seen |-> <<>>] ELSE Seen(f[n - 1], b[n])
    BY <1>7, <2>1
  <2> QED
    BY <2>1, <2>2
<1>9. f[0] = [left |-> put, seen |-> <<>>]
  BY <1>7
<1> QED
  BY <1>7, <1>8, <1>9 DEF Sees

LEMMA ListsExist ==
    ASSUME NEW b, Len(b) \in Nat
    PROVE  \E g : Lists(g, b) /\ Listed(b) = g[Len(b)]
<1> DEFINE Upto(g, k) == g[0] = <<>> /\ \A n \in 1..k : g[n] = g[n - 1] \o ArgumentsOf(b[n])
           S == {k \in Nat : \E g : Upto(g, k)}
<1>1. 0 \in S
  <2>1. Upto([n \in {0} |-> <<>>], 0)
    OBVIOUS
  <2> QED
    BY <2>1, Zenon
<1>2. ASSUME NEW k \in Nat, k \in S PROVE k + 1 \in S
  <2>1. PICK g : Upto(g, k)
    BY <1>2
  <2>2. PICK x : x = g[k] \o ArgumentsOf(b[k + 1])
    OBVIOUS
  <2>3. PICK h : h = [n \in 0..(k + 1) |-> IF n = k + 1 THEN x ELSE g[n]]
    OBVIOUS
  <2>4. h[0] = <<>> /\ k + 1 \in Nat
    BY <2>1, <2>3
  <2>5. ASSUME NEW n \in 1..(k + 1) PROVE h[n] = h[n - 1] \o ArgumentsOf(b[n])
    <3>1. CASE n = k + 1
      <4>1. h[n] = x /\ h[n - 1] = g[k]
        BY <2>3, <3>1
      <4> QED
        BY <2>2, <3>1, <4>1
    <3>2. CASE n # k + 1
      <4>1. n \in 1..k /\ h[n] = g[n] /\ h[n - 1] = g[n - 1]
        BY <2>3, <3>2
      <4>2. g[n] = g[n - 1] \o ArgumentsOf(b[n])
        BY <2>1, <4>1
      <4> QED
        BY <4>1, <4>2
    <3> QED
      BY <3>1, <3>2
  <2>6. Upto(h, k + 1)
    BY <2>4, <2>5
  <2> QED
    BY <2>4, <2>6, Zenon
<1> HIDE DEF S
<1>3. Nat \subseteq S
  BY <1>1, <1>2, NaturalsIn
<1> DEFINE Is(f) == f = [n \in 0..Len(b) |-> IF n = 0 THEN <<>> ELSE f[n - 1] \o ArgumentsOf(b[n])]
<1>4. PICK g : Upto(g, Len(b))
  BY <1>3 DEF S
<1>5. PICK h : h = [n \in 0..Len(b) |-> g[n]]
  OBVIOUS
<1>6. Is(h)
  <2>1. ASSUME NEW n \in 0..Len(b)
        PROVE  g[n] = IF n = 0 THEN <<>> ELSE h[n - 1] \o ArgumentsOf(b[n])
    <3>1. n # 0 => n \in 1..Len(b) /\ h[n - 1] = g[n - 1]
      BY <1>5
    <3> QED
      BY <1>4, <3>1
  <2> QED
    BY <1>5, <2>1
<1>7. PICK f : Listed(b) = f[Len(b)] /\ Is(f)
  BY <1>6, Zenon DEF Listed
<1>8. ASSUME NEW n \in 1..Len(b) PROVE f[n] = f[n - 1] \o ArgumentsOf(b[n])
  <2>1. n \in 0..Len(b) /\ n # 0
    OBVIOUS
  <2>2. f[n] = IF n = 0 THEN <<>> ELSE f[n - 1] \o ArgumentsOf(b[n])
    BY <1>7, <2>1
  <2> QED
    BY <2>1, <2>2
<1>9. f[0] = <<>>
  BY <1>7
<1> QED
  BY <1>7, <1>8, <1>9 DEF Lists

-----------------------------------------------------------------------------
\* What is left of the regions after each buffer.

\* The regions the other side reads buffers from.
ReadRegions == {"send_statics", "send_buffers", "recv_buffers", "exch_buffers", "recv_list"}

\* x is what is left of whole behind the first k.
Leaves(x, whole, k) ==
    /\ x \in Seq(Entry) /\ Len(x) + k = Len(whole)
    /\ \A i \in 1..Len(x) : x[i] = whole[k + i]

\* The head of what is left is the next one.
LEMMA LeavesTail ==
    ASSUME NEW whole \in Seq(Entry), NEW k \in Nat, NEW x, Leaves(x, whole, k), k < Len(whole)
    PROVE  Head(x) = whole[k + 1] /\ Leaves(Tail(x), whole, k + 1)
<1>1. PICK n : n = Len(x)
  OBVIOUS
<1>2. x \in Seq(Entry) /\ n \in Nat /\ Len(whole) \in Nat /\ n + k = Len(whole)
  BY <1>1 DEF Leaves
<1>3. n >= 1 /\ 1 \in 1..n
  BY <1>2
<1>4. x # <<>> /\ Head(x) = x[1]
  BY <1>1, <1>2, <1>3
<1>5. PICK y : y = Tail(x)
  OBVIOUS
<1>6. y \in Seq(Entry) /\ Len(y) = n - 1 /\ \A i \in 1..(n - 1) : y[i] = x[i + 1]
  BY <1>1, <1>2, <1>4, <1>5
<1>7. ASSUME NEW i \in 1..(n - 1) PROVE y[i] = whole[(k + 1) + i]
  <2>1. i + 1 \in 1..n /\ k + (i + 1) = (k + 1) + i
    BY <1>2
  <2>2. x[i + 1] = whole[k + (i + 1)]
    BY <1>1, <2>1 DEF Leaves
  <2> QED
    BY <1>6, <2>1, <2>2
<1>8. x[1] = whole[k + 1]
  BY <1>1, <1>3 DEF Leaves
<1>9. Len(y) + (k + 1) = Len(whole)
  BY <1>2, <1>6
<1> QED
  BY <1>4, <1>5, <1>6, <1>7, <1>8, <1>9 DEF Leaves

\* whole goes on where p ends.
Begins(p, whole) == Len(p) <= Len(whole) /\ \A i \in 1..Len(p) : p[i] = whole[i]

\* Appending keeps the beginning.
LEMMA BeginsOn ==
    ASSUME NEW p \in Seq(Entry), NEW q \in Seq(Entry), Begins(p, q), NEW x \in Entry
    PROVE  Begins(p, Append(q, x))
<1>1. PICK r : r = Append(q, x)
  OBVIOUS
<1>2. Len(r) = Len(q) + 1 /\ Len(p) \in Nat /\ Len(q) \in Nat /\ \A i \in 1..Len(q) : r[i] = q[i]
  BY <1>1
<1>3. Len(p) <= Len(q) /\ \A i \in 1..Len(p) : p[i] = q[i]
  BY DEF Begins
<1> QED
  BY <1>1, <1>2, <1>3 DEF Begins

\* What a buffer adds to stays behind what was there.
LEMMA AddsIn ==
    ASSUME NEW old, NEW new, Writable(old), NEW R, NEW e \in [Written -> Entry],
           Adds(old, new, R, e), NEW r \in Written
    PROVE  /\ old.put[r] \in Seq(Entry) /\ e[r] \in Entry
           /\ r \in R => new.put[r] = Append(old.put[r], e[r])
           /\ r \notin R => new.put[r] = old.put[r]
BY DEF Writable, Adds

\* What is in a region stays its beginning.
LEMMA FillsGrow ==
    ASSUME NEW f, NEW first, Writable(first), NEW b \in Seq(Buffers), Fills(f, first, b),
           NEW r \in Written, NEW n \in 0..Len(b)
    PROVE  Begins(f[n].put[r], f[Len(b)].put[r])
<1> DEFINE S == {m \in Nat : n <= m /\ m <= Len(b) => Begins(f[n].put[r], f[m].put[r])}
<1>1. ASSUME NEW m \in 0..Len(b) PROVE f[m].put[r] \in Seq(Entry)
  BY FillsOn DEF Writable
<1>2. Begins(f[n].put[r], f[n].put[r])
  BY <1>1 DEF Begins
<1>3. 0 \in S
  <2>1. n <= 0 => n = 0
    OBVIOUS
  <2> QED
    BY <1>2, <2>1
<1>4. ASSUME NEW m \in Nat, m \in S PROVE m + 1 \in S
  <2> SUFFICES ASSUME n <= m + 1, m + 1 <= Len(b) PROVE Begins(f[n].put[r], f[m + 1].put[r])
    OBVIOUS
  <2>1. CASE n = m + 1
    BY <1>2, <2>1
  <2>2. CASE n # m + 1
    <3>1. /\ n <= m /\ m <= Len(b) /\ m \in 0..Len(b) /\ m + 1 \in 1..Len(b) /\ (m + 1) - 1 = m
      BY <2>2
    <3>2. Begins(f[n].put[r], f[m].put[r])
      BY <1>4, <3>1
    <3>3. PICK e : Added(f, b, m + 1, e)
      BY <3>1, FillsAdds
    <3>4. e \in [Written -> Entry] /\ Adds(f[m], f[m + 1], Uses(b[m + 1]), e)
      BY <3>1, <3>3 DEF Added
    <3>5. Writable(f[m])
      BY <3>1, FillsOn
    <3>6. PICK p, q, x, w : p = f[n].put[r] /\ q = f[m].put[r] /\ x = e[r] /\ w = f[m + 1].put[r]
      OBVIOUS
    <3>7. q \in Seq(Entry) /\ x \in Entry /\ (w = Append(q, x) \/ w = q)
      <4>1. /\ f[m].put[r] \in Seq(Entry) /\ e[r] \in Entry
            /\ f[m + 1].put[r] = Append(f[m].put[r], e[r]) \/ f[m + 1].put[r] = f[m].put[r]
        <5>1. PICK old, new, R : old = f[m] /\ new = f[m + 1] /\ R = Uses(b[m + 1])
          OBVIOUS
        <5>2. Writable(old) /\ Adds(old, new, R, e)
          BY <3>4, <3>5, <5>1
        <5>3. /\ old.put[r] \in Seq(Entry) /\ e[r] \in Entry
              /\ r \in R => new.put[r] = Append(old.put[r], e[r])
              /\ r \notin R => new.put[r] = old.put[r]
          <6>1. old.put[r] \in Seq(Entry)
            BY <5>2 DEF Writable
          <6>2. e[r] \in Entry
            BY <3>4
          <6>3. new.put = [z \in Written |-> IF z \in R THEN Append(old.put[z], e[z])
                                             ELSE old.put[z]]
            BY <5>2, Zenon DEF Adds
          <6>4. new.put[r] = IF r \in R THEN Append(old.put[r], e[r]) ELSE old.put[r]
            BY <6>3
          <6> QED
            BY <6>1, <6>2, <6>4
        <5> QED
          BY <5>1, <5>3
      <4> QED
        BY <3>6, <4>1
    <3>8. p \in Seq(Entry) /\ Begins(p, q)
      BY <1>1, <3>2, <3>6
    <3> QED
      BY <3>6, <3>7, <3>8, BeginsOn
  <2> QED
    BY <2>1, <2>2
<1> HIDE DEF S
<1>5. Nat \subseteq S
  BY <1>3, <1>4, NaturalsIn
<1>6. Len(b) \in Nat /\ n <= Len(b) /\ Len(b) <= Len(b)
  OBVIOUS
<1> QED
  BY <1>5, <1>6 DEF S

\* What the server reads of a buffer b from the heads of what it has left.
HeadIn(got, b) ==
    CASE IsAuto(b) -> SeenEither(First(got, "send_statics"), First(got, "send_buffers"))
      [] Pointer(b) -> SeenAs(First(got, "send_statics"))
      [] OTHER -> SeenAs(First(got, IF IsOut(b) THEN "exch_buffers" ELSE "send_buffers"))
HeadOut(got, b) ==
    CASE IsAuto(b) -> SeenEither(First(got, "recv_list"), First(got, "recv_buffers"))
      [] Pointer(b) -> SeenAs(First(got, "recv_list"))
      [] OTHER -> SeenAs(First(got, IF IsIn(b) THEN "exch_buffers" ELSE "recv_buffers"))
\* The regions that the other side reads b from.
Reads(b) ==
    (IF ~IsIn(b) THEN {}
     ELSE IF IsAuto(b) THEN {"send_statics", "send_buffers"}
     ELSE IF Pointer(b) THEN {"send_statics"}
     ELSE IF IsOut(b) THEN {"exch_buffers"} ELSE {"send_buffers"})
    \cup
    (IF ~IsOut(b) THEN {}
     ELSE IF IsAuto(b) THEN {"recv_list", "recv_buffers"}
     ELSE IF Pointer(b) THEN {"recv_list"}
     ELSE IF IsIn(b) THEN {"exch_buffers"} ELSE {"recv_buffers"})
BothSeen(in, out, b) == (IF IsIn(b) THEN <<in>> ELSE <<>>) \o (IF IsOut(b) THEN <<out>> ELSE <<>>)

\* These are the regions that b was written to; the table of sizes it does not need.
LEMMA ReadsIs ==
    ASSUME NEW b, IsAuto(b) \/ Pointer(b) \/ Mapped(b)
    PROVE  Reads(b) = Uses(b) \ {"table"} /\ Reads(b) \subseteq ReadRegions
BY DEF Reads, Uses, ReadRegions, InAuto, OutAuto, InPointer, OutPointer, Fixed, InMapped, OutMapped,
       InOutMapped, Pointer, Mapped

\* got has the lists L left, and has seen S.
Has(got, L, S) == got = [left |-> L, seen |-> S] /\ DOMAIN L = Written
\* The entries e are the next ones of those that b takes.
Heads(L, e, b) == \A r \in Reads(b) : Head(L[r]) = e[r]
\* What is left behind b.
Tails(L, b) == [r \in Written |-> IF r \in Reads(b) THEN Tail(L[r]) ELSE L[r]]

\* Whose next entries show b sees b, and goes on behind it.
LEMMA SeenIs ==
    ASSUME NEW got, NEW L, NEW S, Has(got, L, S), NEW b, IsAuto(b) \/ Pointer(b) \/ Mapped(b),
           NEW e, Heads(L, e, b), Shows(e, b)
    PROVE  Has(Seen(got, b), Tails(L, b), S \o ArgumentsOf(b))
<1>15. PICK new : new = Seen(got, b)
  OBVIOUS
<1>1. PICK mid, all : /\ mid = Take(got, Reads(b))
                      /\ all = BothSeen(HeadIn(got, b), HeadOut(got, b), b)
  OBVIOUS
<1>2. Seen(got, b) =
         [Take(got, Reads(b)) EXCEPT !.seen = @ \o BothSeen(HeadIn(got, b), HeadOut(got, b), b)]
  BY Zenon DEF Seen, Reads, HeadIn, HeadOut, BothSeen
<1>3. new = [mid EXCEPT !.seen = @ \o all]
  BY <1>1, <1>2, <1>15, Zenon
<1>4. got.left = L /\ got.seen = S /\ DOMAIN got = {"left", "seen"} /\ DOMAIN L = Written
  BY DEF Has
<1>5. PICK M : M = [r \in Written |-> IF r \in Reads(b) THEN Tail(L[r]) ELSE L[r]]
  OBVIOUS
<1>6. mid = [left |-> M, seen |-> S]
  <2>1. mid = [got EXCEPT !.left = [r \in DOMAIN got.left |->
                                      IF r \in Reads(b) THEN Tail(got.left[r]) ELSE got.left[r]]]
    BY <1>1, Zenon DEF Take, Rest
  <2>2. M = [r \in DOMAIN got.left |-> IF r \in Reads(b) THEN Tail(got.left[r]) ELSE got.left[r]]
    BY <1>4, <1>5
  <2>3. mid = [got EXCEPT !.left = M]
    BY <2>1, <2>2, Zenon
  <2> QED
    <3>1. got = [left |-> L, seen |-> S]
      BY DEF Has
    <3> QED
      BY <2>3, <3>1
<1>7. new = [left |-> M, seen |-> S \o all]
  BY <1>3, <1>6
<1>8. \A r : First(got, r) = Head(L[r])
  BY <1>4, Zenon DEF First
<1>9. IsIn(b) => HeadIn(got, b) = Shown(b)
  <2>1. IsIn(b) => HeadIn(got, b) = SeenIn(e, b)
    <3>1. CASE IsAuto(b)
      BY <1>8, <3>1 DEF Heads, HeadIn, SeenIn, Reads
    <3>2. CASE ~IsAuto(b) /\ Pointer(b)
      BY <1>8, <3>2 DEF Heads, HeadIn, SeenIn, Reads
    <3>3. CASE ~IsAuto(b) /\ ~Pointer(b)
      BY <1>8, <3>3 DEF Heads, HeadIn, SeenIn, Reads
    <3> QED
      BY <3>1, <3>2, <3>3
  <2> QED
    BY <2>1 DEF Shows
<1>10. IsOut(b) => HeadOut(got, b) = Shown(b)
  <2>1. IsOut(b) => HeadOut(got, b) = SeenOut(e, b)
    <3>1. CASE IsAuto(b)
      BY <1>8, <3>1 DEF Heads, HeadOut, SeenOut, Reads
    <3>2. CASE ~IsAuto(b) /\ Pointer(b)
      BY <1>8, <3>2 DEF Heads, HeadOut, SeenOut, Reads
    <3>3. CASE ~IsAuto(b) /\ ~Pointer(b)
      BY <1>8, <3>3 DEF Heads, HeadOut, SeenOut, Reads
    <3> QED
      BY <3>1, <3>2, <3>3
  <2> QED
    BY <2>1 DEF Shows
<1>11. all = ArgumentsOf(b)
  BY <1>1, <1>9, <1>10, Zenon DEF BothSeen, ArgumentsOf, Shown
<1>12. M = Tails(L, b) /\ DOMAIN M = Written
  BY <1>5 DEF Tails
<1>13. Has(new, M, S \o ArgumentsOf(b))
  BY <1>7, <1>11, <1>12, Zenon DEF Has
<1> QED
  BY <1>12, <1>13, <1>15, Zenon

-----------------------------------------------------------------------------
\* RequestUnderstood.

\* Nothing of a buffer is lost in the 16 bits of a static descriptor.
LEMMA FillsTold ==
    ASSUME NEW f, NEW first, Writable(first), first.pointer_size \in Sizes, NEW b \in Seq(Buffers),
           Fills(f, first, b), \A i \in 1..Len(b) : IsAuto(b[i]) \/ Pointer(b[i]) \/ Mapped(b[i]),
           (\E i \in 1..Len(b) : Pointer(b[i])) =>
              \A i \in 1..Len(b) : Mapped(b[i]) \/ b[i].size \in Sizes,
           NEW n \in 1..Len(b)
    PROVE  Told(f[n - 1], b[n])
<1>1. IsAuto(b[n]) \/ Pointer(b[n]) \/ Mapped(b[n])
  OBVIOUS
<1>2. CASE \E i \in 1..Len(b) : Pointer(b[i])
  <2>1. Mapped(b[n]) \/ b[n].size \in Sizes
    BY <1>2
  <2> QED
    BY <1>1, <2>1 DEF Told, Tells, Mapped
<1>3. CASE ~\E i \in 1..Len(b) : Pointer(b[i])
  <2> DEFINE S == {m \in Nat : m <= Len(b) => f[m].pointer_size \in Sizes}
  <2>1. 0 \in S
    BY DEF Fills
  <2>2. ASSUME NEW m \in Nat, m \in S PROVE m + 1 \in S
    <3> SUFFICES ASSUME m + 1 <= Len(b) PROVE f[m + 1].pointer_size \in Sizes
      OBVIOUS
    <3>1. m <= Len(b) /\ m + 1 \in 1..Len(b) /\ m + 1 \in 0..Len(b) /\ (m + 1) - 1 = m
      OBVIOUS
    <3>2. f[m].pointer_size \in Sizes
      BY <2>2, <3>1
    <3>3. PICK e : Added(f, b, m + 1, e)
      BY <3>1, FillsAdds
    <3>4. CASE IsAuto(b[m + 1])
      <4>1. Pays(f[m], f[m + 1], e, b[m + 1])
        BY <3>1, <3>3, <3>4 DEF Added
      <4>2. f[m + 1].pointer_size \in Nat
        BY <3>1, FillsOn DEF Writable, Rooms
      <4>3. PICK x, y, z : /\ x = f[m].pointer_size /\ y = f[m + 1].pointer_size
                           /\ z = Spent(e, b[m + 1])
        OBVIOUS
      <4>4. z \in Nat
        BY <4>1, <4>3 DEF Pays, Spent
      <4>5. y + z <= x
        BY <4>1, <4>3 DEF Pays
      <4>6. x \in Nat /\ x < 65536 /\ y \in Nat
        BY <3>2, <4>2, <4>3 DEF Sizes
      <4>7. y < 65536
        BY <4>4, <4>5, <4>6
      <4> QED
        BY <4>3, <4>6, <4>7 DEF Sizes
    <3>5. CASE ~IsAuto(b[m + 1])
      <4>1. ~Pointer(b[m + 1])
        BY <1>3, <3>1
      <4>2. f[m + 1].pointer_size = f[m].pointer_size
        BY <3>1, <3>3, <3>5, <4>1 DEF Added
      <4> QED
        BY <3>2, <4>2
    <3> QED
      BY <3>4, <3>5
  <2> HIDE DEF S
  <2>3. Nat \subseteq S
    BY <2>1, <2>2, NaturalsIn
  <2>4. n - 1 \in Nat /\ n - 1 <= Len(b)
    OBVIOUS
  <2>5. f[n - 1].pointer_size \in Sizes
    BY <2>3, <2>4 DEF S
  <2>6. ~Pointer(b[n])
    BY <1>3
  <2> QED
    BY <1>1, <2>5, <2>6 DEF Told, Tells
<1> QED
  BY <1>2, <1>3

\* After n buffers the other side has seen the arguments of these, and has left
\* what the buffers behind them put into the regions.
HasSeen(g, u, f, last, n) ==
    \E L : /\ g[n] = [left |-> L, seen |-> u[n]] /\ DOMAIN L = Written
           /\ \A r \in ReadRegions : Leaves(L[r], last.put[r], Len(f[n].put[r]))

\* After one buffer more the other side has seen that one too.
LEMMA SeesOne ==
    ASSUME NEW f, NEW first, Writable(first), NEW b \in Seq(Buffers), Fills(f, first, b),
           NEW g, NEW u, NEW last, last = f[Len(b)], Sees(g, last.put, b), Lists(u, b),
           NEW n \in 1..Len(b), HasSeen(g, u, f, last, n - 1), Told(f[n - 1], b[n])
    PROVE  HasSeen(g, u, f, last, n)
<1>1. PICK c, old, new, k : c = b[n] /\ old = f[n - 1] /\ new = f[n] /\ k = n - 1
  OBVIOUS
<1>2. k \in 0..Len(b) /\ n \in 0..Len(b) /\ Len(b) \in 0..Len(b)
  BY <1>1
<1>3. Writable(old) /\ Writable(new) /\ Writable(last)
  BY <1>1, <1>2, FillsOn
<1>4. PICK e : e \in [Written -> Entry] /\ Adds(old, new, Uses(c), e) /\ Shows(e, c)
  BY <1>1, FillsAdds DEF Added
<1>5. PICK L : /\ g[k] = [left |-> L, seen |-> u[k]] /\ DOMAIN L = Written
               /\ \A r \in ReadRegions : Leaves(L[r], last.put[r], Len(old.put[r]))
  BY <1>1 DEF HasSeen
<1>6. IsAuto(c) \/ Pointer(c) \/ Mapped(c)
  BY <1>1 DEF Told
<1>7. Reads(c) = Uses(c) \ {"table"} /\ Reads(c) \subseteq ReadRegions
  BY <1>6, ReadsIs
<1>8. ReadRegions \subseteq Written /\ "table" \notin ReadRegions
  BY WrittenAre DEF ReadRegions
<1>9. ASSUME NEW r \in Reads(c)
      PROVE  Head(L[r]) = e[r] /\ Leaves(Tail(L[r]), last.put[r], Len(new.put[r]))
  <2>1. r \in Written /\ r \in Uses(c) /\ r \in ReadRegions
    BY <1>7, <1>8
  <2>2. old.put[r] \in Seq(Entry) /\ e[r] \in Entry /\ new.put[r] = Append(old.put[r], e[r])
    BY <1>3, <1>4, <2>1, AddsIn
  <2>3. PICK p, q, w, x, j : /\ p = old.put[r] /\ q = new.put[r] /\ w = last.put[r] /\ x = e[r]
                             /\ j = Len(p)
    OBVIOUS
  <2>4. p \in Seq(Entry) /\ x \in Entry /\ q = Append(p, x) /\ j = Len(p)
    BY <2>2, <2>3
  <2>5. j \in Nat /\ Len(q) = j + 1 /\ q[j + 1] = x
    BY <2>4
  <2>6. Begins(q, w)
    BY <1>1, <1>2, <2>1, <2>3, FillsGrow
  <2>7. w \in Seq(Entry)
    BY <1>3, <2>1, <2>3 DEF Writable
  <2>8. j < Len(w) /\ w[j + 1] = x
    <3>1. j + 1 <= Len(w) /\ Len(w) \in Nat
      BY <2>5, <2>6, <2>7 DEF Begins
    <3>2. j + 1 \in 1..Len(q)
      BY <2>5
    <3>3. q[j + 1] = w[j + 1]
      BY <2>6, <3>2 DEF Begins
    <3> QED
      BY <2>5, <3>1, <3>3
  <2>9. Leaves(L[r], w, j)
    BY <1>5, <2>1, <2>3
  <2>10. Head(L[r]) = x /\ Leaves(Tail(L[r]), w, j + 1)
    BY <2>5, <2>7, <2>8, <2>9, LeavesTail
  <2> QED
    BY <2>3, <2>5, <2>10
<1>10. g[n] = Seen(g[k], c) /\ u[n] = u[k] \o ArgumentsOf(c)
  BY <1>1 DEF Sees, Lists
<1>11. PICK M : M = Tails(L, c)
  OBVIOUS
<1>12. Has(g[n], M, u[n])
  <2>1. Has(g[k], L, u[k])
    BY <1>5, Zenon DEF Has
  <2>2. Heads(L, e, c)
    BY <1>9 DEF Heads
  <2>3. Has(Seen(g[k], c), Tails(L, c), u[k] \o ArgumentsOf(c))
    BY <1>4, <1>6, <2>1, <2>2, SeenIs
  <2> QED
    BY <1>10, <1>11, <2>3, Zenon
<1>13. ASSUME NEW r \in ReadRegions PROVE Leaves(M[r], last.put[r], Len(new.put[r]))
  <2>1. CASE r \in Reads(c)
    BY <1>8, <1>9, <1>11, <2>1 DEF Tails
  <2>2. CASE r \notin Reads(c)
    <3>1. r \notin Uses(c) /\ r \in Written
      BY <1>7, <1>8, <2>2
    <3>2. new.put[r] = old.put[r]
      <4>1. Writable(old) /\ e \in [Written -> Entry] /\ Adds(old, new, Uses(c), e)
        BY <1>3, <1>4
      <4> QED
        <5>1. new.put = [q \in Written |-> IF q \in Uses(c) THEN Append(old.put[q], e[q])
                                           ELSE old.put[q]]
          BY <4>1, Zenon DEF Adds
        <5> QED
          BY <3>1, <5>1
    <3>3. M[r] = L[r]
      BY <1>11, <2>2, <3>1 DEF Tails
    <3> QED
      BY <1>5, <3>2, <3>3
  <2> QED
    BY <2>1, <2>2
<1>14. g[n] = [left |-> M, seen |-> u[n]] /\ DOMAIN M = Written
  BY <1>12 DEF Has
<1>15. \A r \in ReadRegions : Leaves(M[r], last.put[r], Len(f[n].put[r]))
  BY <1>1, <1>13
<1> QED
  BY <1>14, <1>15, Zenon DEF HasSeen

\* The other side sees the arguments of a command in their order.
LEMMA DispatchSeen ==
    ASSUME NEW s, s.pointer_buffer_size \in Sizes, NEW cmd \in DispatchParams, Tellable(cmd),
           NEW req, req = serviceMakeRequest(s, cmd)
    PROVE  ServerSees(req, cmd) = Arguments(cmd)
<1>1. PICK empty, b : empty = cmifMakeRequest(Format(s, cmd)) /\ b = cmd.buffers
  OBVIOUS
<1>2. PICK f : Fills(f, Handed(empty, s, cmd), b) /\ req.put = f[Len(b)].put
  BY <1>1, MakeIs
<1>3. PICK first, last : first = Handed(empty, s, cmd) /\ last = f[Len(b)]
  OBVIOUS
<1>4. /\ Writable(first) /\ first.pointer_size = s.pointer_buffer_size
      /\ first.put = HandedPut(s, cmd)
  BY <1>1, <1>3, HandedIs
<1>5. Fills(f, first, b) /\ req.put = last.put
  BY <1>2, <1>3
<1>6. b \in Seq(Buffers)
  BY <1>1, ParamsAre
<1>7. Len(b) \in Nat /\ DOMAIN b = 1..Len(b)
  BY <1>6
<1>8. PICK g : Sees(g, last.put, b) /\ ServerSees(req, cmd) = g[Len(b)].seen
  <2>1. ServerSees(req, cmd) = SeenOf(last.put, b)
    BY <1>1, <1>5, TheseAre
  <2>2. \E g : Sees(g, last.put, b) /\ SeenOf(last.put, b) = g[Len(b)].seen
    BY <1>7, SeesExist
  <2> QED
    BY <2>1, <2>2
<1>9. PICK u : Lists(u, b) /\ Arguments(cmd) = u[Len(b)]
  BY <1>1, <1>7, TheseAre, ListsExist
<1>10. /\ \A i \in 1..Len(b) : IsAuto(b[i]) \/ Pointer(b[i]) \/ Mapped(b[i])
       /\ (\E i \in 1..Len(b) : Pointer(b[i])) =>
              \A i \in 1..Len(b) : Mapped(b[i]) \/ b[i].size \in Sizes
  <2>1. \A i \in 1..Len(b) : b[i].size \in Nat
    <3>1. ASSUME NEW i \in 1..Len(b) PROVE b[i] \in Buffers
      BY <1>6
    <3>2. \A x \in Buffers : x.size \in Nat
      BY DEF Buffers
    <3> QED
      BY <3>1, <3>2
  <2>2. /\ \A i \in 1..Len(b) : IsAuto(b[i]) \/ Pointer(b[i]) \/ Mapped(b[i])
        /\ (\E i \in 1..Len(b) : Pointer(b[i])) =>
              \A i \in 1..Len(b) : Mapped(b[i]) \/ b[i].size < 65536
    BY <1>1, <1>7 DEF Tellable
  <2> QED
    BY <2>1, <2>2 DEF Sizes
<1>11. ASSUME NEW n \in 1..Len(b) PROVE Told(f[n - 1], b[n])
  BY <1>4, <1>5, <1>6, <1>10, FillsTold
<1> DEFINE S == {n \in Nat : n <= Len(b) => HasSeen(g, u, f, last, n)}
<1>12. 0 \in S
  <2>1. f[0] = first
    BY <1>5 DEF Fills
  <2>2. ReadRegions \subseteq Written
    BY WrittenAre DEF ReadRegions
  <2>3. Writable(last)
    BY <1>3, <1>4, <1>5, <1>6, <1>7, FillsOn
  <2>4. ASSUME NEW r \in ReadRegions PROVE Leaves(last.put[r], last.put[r], Len(f[0].put[r]))
    <3>1. f[0].put[r] = <<>>
      BY <1>4, <2>1, <2>2 DEF HandedPut, ReadRegions
    <3>2. PICK w : w = last.put[r]
      OBVIOUS
    <3>3. w \in Seq(Entry)
      BY <2>2, <2>3, <3>2 DEF Writable
    <3>4. Leaves(w, w, 0)
      BY <3>3 DEF Leaves
    <3> QED
      BY <3>1, <3>2, <3>4
  <2>5. g[0] = [left |-> last.put, seen |-> u[0]]
    BY <1>8, <1>9 DEF Sees, Lists
  <2>6. DOMAIN last.put = Written
    BY <2>3 DEF Writable
  <2>7. HasSeen(g, u, f, last, 0)
    BY <2>4, <2>5, <2>6, Zenon DEF HasSeen
  <2> QED
    BY <2>7
<1>13. ASSUME NEW n \in Nat, n \in S PROVE n + 1 \in S
  <2> SUFFICES ASSUME n + 1 <= Len(b) PROVE HasSeen(g, u, f, last, n + 1)
    OBVIOUS
  <2>1. PICK m : m = n + 1
    OBVIOUS
  <2>2. m \in 1..Len(b) /\ m - 1 = n /\ n <= Len(b)
    BY <1>7, <2>1
  <2>3. HasSeen(g, u, f, last, m - 1)
    BY <1>13, <2>2
  <2>4. Told(f[m - 1], b[m])
    BY <1>11, <2>2
  <2>5. HasSeen(g, u, f, last, m)
    BY <1>3, <1>4, <1>5, <1>6, <1>8, <1>9, <2>2, <2>3, <2>4, SeesOne
  <2> QED
    BY <2>1, <2>5
<1> HIDE DEF S
<1>14. Nat \subseteq S
  BY <1>12, <1>13, NaturalsIn
<1>15. HasSeen(g, u, f, last, Len(b))
  BY <1>7, <1>14 DEF S
<1>16. g[Len(b)].seen = u[Len(b)]
  BY <1>15 DEF HasSeen
<1> QED
  BY <1>8, <1>9, <1>16

\* RequestUnderstood follows from the invariant of what is on its way.
LEMMA SentUnderstood ==
    ASSUME OwnInv, GuardInv, SentInv
    PROVE  RequestUnderstood
<1>1. ASSUME NEW t \in Threads, pc[t] = "send"
      PROVE  /\ ParsedBack(tls[t])
             /\ call[t].op = "dispatch" => ServerSees(tls[t], call[t].cmd) = Arguments(call[t].cmd)
  <2>1. Formed(t)
    BY <1>1 DEF SentInv
  <2>2. CASE call[t].op = "dispatch"
    <3>1. PICK s, cmd, req : s = Target(t) /\ cmd = call[t].cmd /\ req = tls[t]
      OBVIOUS
    <3>2. /\ s.pointer_buffer_size \in Sizes /\ cmd \in DispatchParams /\ Tellable(cmd)
          /\ req = serviceMakeRequest(s, cmd)
      BY <2>1, <2>2, <3>1, TargetIs DEF Formed
    <3>3. ParsedBack(req) /\ ServerSees(req, cmd) = Arguments(cmd)
      BY <3>2, DispatchBack, DispatchSeen
    <3> QED
      BY <3>1, <3>3
  <2>3. CASE call[t].op # "dispatch"
    BY <2>1, <2>3, PlainAllBack DEF Formed
  <2> QED
    BY <2>2, <2>3
<1> QED
  BY <1>1, Zenon DEF RequestUnderstood, ParsedBack

\* The other side parses every request to the numbers and the layout it was written
\* with, and finds in its regions every buffer of the command, as an input and as
\* an output, whichever of the ways of _serviceRequestProcessBuffer it was sent,
\* as long as the command is one that the fields of a request can tell.
THEOREM ServiceRequestUnderstood == Spec => []RequestUnderstood
BY SentAlways, SentUnderstood, PTL
=============================================================================
