------------------------------- MODULE Service -------------------------------
(***************************************************************************)
(* Sessions of src/libnx/service.h behind a guard of service_guard.h: the  *)
(* threads of a program initialise a service, dispatch commands to it,     *)
(* keep what they get, clone it, and leave it again.  The kernel and the   *)
(* server are external; the server may refuse any request but a close.     *)
(* The user is external too: he closes what he got before he leaves, and   *)
(* forgets a clone that failed; of services and handles from commands he   *)
(* keeps one lot at a time.                                                *)
(***************************************************************************)
EXTENDS Cmif, FiniteSetsExt

CONSTANTS
    Threads,
    NoThread,           \* nobody holds the mutex
    Handles,            \* handles of the process, numbers from 1
    ObjectIds,          \* ids a server gives to domain objects, from 1
    PointerSizes,       \* sizes servers report of their pointer buffer
    CommandsOf(_, _),   \* what a thread dispatches to the guarded service and to its own
    Converts            \* whether an initialisation makes its session a domain

ASSUME ThreadsAssumption == IsFiniteSet(Threads) /\ NoThread \notin Threads
ASSUME HandlesAssumption == Handles \subseteq Nat \ {0} /\ IsFiniteSet(Handles)
ASSUME CommandsAssumption ==
    \A t \in Threads, slot \in {"srv", "sub"} : CommandsOf(t, slot) \subseteq DispatchParams
\* A request can tell the other side all of a command: each buffer goes one of
\* the ways there are, sizes that go into the 16 bits of a static descriptor are
\* not cut (of auto-select buffers only those are put there that fit into the
\* pointer buffer, as long as no buffer of a fixed kind has wrapped what is left
\* of it), and num_data_words counts the arguments in its 10 bits.
Tellable(cmd) ==
    LET b == cmd.buffers
    IN  /\ cmd.data_size <= 3072
        /\ \A i \in DOMAIN b : IsAuto(b[i]) \/ Pointer(b[i]) \/ Mapped(b[i])
        /\ (\E i \in DOMAIN b : Pointer(b[i])) =>
              \A i \in DOMAIN b : Mapped(b[i]) \/ b[i].size < 65536

ASSUME TellableAssumption ==
    \A t \in Threads, slot \in {"srv", "sub"} : \A cmd \in CommandsOf(t, slot) : Tellable(cmd)
\* pointer_buffer_size is a u16.
ASSUME PointerSizesAssumption == \A size \in PointerSizes : size \in Nat /\ size < 65536
ASSUME ObjectIdsAssumption == ObjectIds \subseteq Nat \ {0} /\ IsFiniteSet(ObjectIds)

VARIABLES
    owner, refCount,    \* ServiceGuard
    srv,                \* the Service that it guards
    sub,                \* the Service that each thread has of its own
    kept,               \* the handles each thread got from commands
    pc, call,           \* where a thread is, and its request on its way
    tls,                \* its message buffer
    rc,                 \* rc of its initialisation
    open,               \* kernel: the open handles; TRUE for a domain's session
    objects             \* server: the live objects of the domain

guard == <<owner, refCount>>
threads == <<pc, call, tls, rc>>
server == <<open, objects>>
vars == <<guard, srv, sub, kept, threads, server>>

NoService == [session |-> 0, own_handle |-> 0, object_id |-> 0, pointer_buffer_size |-> 0]
NoCall == [op |-> "none"]
NoMessage == [type |-> "none"]

Init ==
    /\ owner = NoThread /\ refCount = 0
    /\ srv = NoService /\ sub = [t \in Threads |-> NoService]
    /\ kept = [t \in Threads |-> {}]
    /\ pc = [t \in Threads |-> "out"]
    /\ call = [t \in Threads |-> NoCall] /\ tls = [t \in Threads |-> NoMessage]
    /\ rc = [t \in Threads |-> "ok"]
    /\ open = <<>> /\ objects = {}

serviceIsActive(s) == s.session # 0

\* External: the kernel gives free handles, each of them once.
Free == Handles \ DOMAIN open
Fresh(n) == {s \in [1..n -> Free] : \A i, j \in 1..n : s[i] = s[j] => i = j}
NewHandles(n) == CHOOSE s \in Fresh(n) : TRUE
Opened(handles, domain) ==
    [h \in DOMAIN open \cup Range(handles) |-> IF h \in DOMAIN open THEN open[h] ELSE domain]

-----------------------------------------------------------------------------
\* A request on its way.

GoTo(t, label) == pc' = [pc EXCEPT ![t] = label]

\* The message is formed; slot says whose session it goes to.
Request(t, op, slot, message, cmd, is_domain) ==
    /\ tls' = [tls EXCEPT ![t] = message]
    /\ call' = [call EXCEPT ![t] = [op |-> op, slot |-> slot, cmd |-> cmd,
                                    is_domain |-> is_domain, result |-> "none"]]
    /\ GoTo(t, "send")

Target(t) == IF call[t].slot = "srv" THEN srv ELSE sub[t]

\* SendSyncRequest reads the session only now.
Send(t) ==
    /\ pc[t] = "send"
    /\ IF Target(t).session \in DOMAIN open
       THEN GoTo(t, "wait") /\ UNCHANGED call
       ELSE GoTo(t, "parse") /\ call' = [call EXCEPT ![t].result = "failed"]
    /\ UNCHANGED <<guard, srv, sub, kept, tls, rc, server>>

Waits(t, op) == pc[t] = "wait" /\ call[t].op = op

Reply(t, result, response) ==
    /\ tls' = [tls EXCEPT ![t] = response]
    /\ call' = [call EXCEPT ![t].result = result]
    /\ GoTo(t, "parse")
    /\ UNCHANGED <<guard, srv, sub, kept, rc>>

Refuse(t) ==
    /\ pc[t] = "wait" /\ call[t].op # "close"
    /\ Reply(t, "failed", NoMessage)
    /\ UNCHANGED server

DataResponse(value) == [value |-> value]

ServeQuery(t) ==
    /\ Waits(t, "query")
    /\ \E size \in PointerSizes : Reply(t, "ok", DataResponse(size))
    /\ UNCHANGED server

NewObject == Min(ObjectIds \ objects)

ServeConvert(t) ==
    /\ Waits(t, "convert") /\ ObjectIds # objects
    /\ Reply(t, "ok", DataResponse(NewObject))
    /\ open' = [open EXCEPT ![srv.session] = TRUE]
    /\ objects' = objects \cup {NewObject}

ServeClone(t) ==
    /\ Waits(t, "clone") /\ Fresh(1) # {}
    /\ Reply(t, "ok", Response(FALSE, 0, <<>>, <<>>, NewHandles(1)))
    /\ open' = Opened(NewHandles(1), open[srv.session])
    /\ UNCHANGED objects

\* How many of the first n handles of cmd are of a kind, and of all.
HandlesUpTo(cmd, n, kind) == Cardinality({i \in 1..n : cmd.out_handles[i] = kind})
HandlesOf(cmd, kind) == HandlesUpTo(cmd, Len(cmd.out_handles), kind)

\* An object is a domain object or, as a move handle before all others, a
\* session; the server may give none in its place.
ServeDispatch(t) ==
    LET cmd == call[t].cmd
        domain == Target(t).object_id # 0
        object == cmd.out_objects > 0
        copies == HandlesOf(cmd, "Copy")
        moves == HandlesOf(cmd, "Move") + (IF object /\ ~domain THEN 1 ELSE 0)
    IN  /\ Waits(t, "dispatch")
        /\ domain => Target(t).object_id \in objects
        /\ \E none \in BOOLEAN :
            LET id == IF object /\ domain /\ ~none THEN NewObject ELSE 0
                missing == IF object /\ ~domain /\ none THEN 1 ELSE 0
                given == copies + moves - missing
                handle == NewHandles(given)
            IN  /\ object /\ domain /\ ~none => ObjectIds # objects
                /\ Fresh(given) # {}
                /\ objects' = objects \cup ({id} \ {0})
                /\ open' = Opened(handle, FALSE)
                /\ Reply(t, "ok",
                         Response(domain, cmd.out_size, IF object /\ domain THEN <<id>> ELSE <<>>,
                                  [i \in 1..copies |-> handle[i]],
                                  [i \in 1..moves |-> IF i <= missing THEN 0
                                                      ELSE handle[copies + i - missing]]))

\* A session ends when its handle is closed, an object at once.
ServeClose(t) ==
    /\ Waits(t, "close")
    /\ objects' = objects \ (IF Target(t).own_handle = 0 THEN {Target(t).object_id} ELSE {})
    /\ Reply(t, "ok", NoMessage)
    /\ UNCHANGED open

Parses(t, op) == pc[t] = "parse" /\ call[t].op = op
Succeeded(t) == call[t].result = "ok"
Parsed(t, size) == cmifParseResponse(tls[t], call[t].is_domain, size)

\* The request is dealt with and the buffer is free.
Return(t, label) ==
    /\ GoTo(t, label)
    /\ call' = [call EXCEPT ![t] = NoCall] /\ tls' = [tls EXCEPT ![t] = NoMessage]

-----------------------------------------------------------------------------
\* Closing.  serviceClose is called with the guarded service, by EndInit and
\* Exit, and with a thread's own.

serviceClose(t, slot, s) ==
    Request(t, "close", slot, cmifMakeCloseRequest(IF s.own_handle = 1 THEN 0 ELSE s.object_id),
            NoCall, FALSE)

CloseKeepsHandle(s) ==                      \* mutant: CloseHandle is missing
    UNCHANGED server

\* CloseHandle; a domain whose last session is closed takes its objects along.
Closed(s) ==
    IF s.own_handle = 1
    THEN /\ open' = [h \in DOMAIN open \ {s.session} |-> open[h]]
         /\ objects' = IF \E h \in DOMAIN open \ {s.session} : open[h] THEN objects ELSE {}
    ELSE UNCHANGED server

FinishClose(t) ==
    /\ Parses(t, "close")
    /\ Closed(Target(t))
    /\ IF call[t].slot = "srv"
       THEN /\ srv' = NoService
            /\ refCount' = IF rc[t] = "failed" THEN refCount - 1 ELSE refCount
            /\ owner' = NoThread
            /\ Return(t, "out") /\ rc' = [rc EXCEPT ![t] = "ok"]
            /\ UNCHANGED sub
       ELSE /\ sub' = [sub EXCEPT ![t] = NoService]
            /\ Return(t, "in")
            /\ UNCHANGED <<guard, srv, rc>>
    /\ UNCHANGED kept

-----------------------------------------------------------------------------
\* The guard.

nameInitialize(t) ==
    /\ pc[t] = "out"
    /\ GoTo(t, "lock")
    /\ UNCHANGED <<guard, srv, sub, kept, call, tls, rc, server>>

BeginInitUnlocked(t) ==                     \* mutant: the mutex is not waited for
    /\ pc[t] = "lock"
    /\ owner' = t /\ refCount' = refCount + 1
    /\ GoTo(t, IF refCount = 0 THEN "open" ELSE "settle")
    /\ UNCHANGED <<srv, sub, kept, call, tls, rc, server>>

serviceGuardBeginInit(t) ==
    /\ pc[t] = "lock" /\ owner = NoThread
    /\ owner' = t /\ refCount' = refCount + 1
    /\ GoTo(t, IF refCount = 0 THEN "open" ELSE "settle")
    /\ UNCHANGED <<srv, sub, kept, call, tls, rc, server>>

\* External: _nameInitialize asks for a session.
NoSession(t) ==
    /\ pc[t] = "open"
    /\ rc' = [rc EXCEPT ![t] = "failed"]
    /\ GoTo(t, "settle")
    /\ UNCHANGED <<guard, srv, sub, kept, call, tls, server>>

serviceCreate(t) ==
    /\ pc[t] = "open"
    /\ \E h \in Handles \ DOMAIN open :
        /\ \A other \in Handles \ DOMAIN open : h <= other
        /\ open' = Opened(<<h>>, FALSE)
        /\ srv' = [NoService EXCEPT !.session = h, !.own_handle = 1]
    /\ Request(t, "query", "srv", cmifMakeControlRequest(3, 0), NoCall, FALSE)
    /\ UNCHANGED <<guard, sub, kept, rc, objects>>

\* The result of the query is not looked at.
FinishQuery(t) ==
    /\ Parses(t, "query")
    /\ srv' = [srv EXCEPT !.pointer_buffer_size = IF Succeeded(t) THEN tls[t].value ELSE 0]
    /\ \/ /\ TRUE \in Converts
          /\ Request(t, "convert", "srv", cmifMakeControlRequest(0, 0), NoCall, FALSE)
       \/ FALSE \in Converts /\ Return(t, "settle")
    /\ UNCHANGED <<guard, sub, kept, rc, server>>

\* serviceConvertToDomain of a service with a session of its own.
FinishConvert(t) ==
    /\ Parses(t, "convert")
    /\ srv' = IF Succeeded(t) THEN [srv EXCEPT !.object_id = tls[t].value] ELSE srv
    /\ rc' = [rc EXCEPT ![t] = call[t].result]
    /\ Return(t, "settle")
    /\ UNCHANGED <<guard, sub, kept, server>>

EndInitKeepsLock(t) ==                      \* mutant: the mutex is not released
    /\ pc[t] = "settle"
    /\ GoTo(t, IF rc[t] = "ok" THEN "in" ELSE "out")
    /\ UNCHANGED <<guard, srv, sub, kept, call, tls, rc, server>>

serviceGuardEndInit(t) ==
    /\ pc[t] = "settle"
    /\ IF rc[t] = "ok"
       THEN /\ owner' = NoThread /\ GoTo(t, "in")
            /\ UNCHANGED <<refCount, call, tls, rc>>
       ELSE IF serviceIsActive(srv)
       THEN serviceClose(t, "srv", srv) /\ UNCHANGED <<guard, rc>>
       ELSE /\ refCount' = refCount - 1 /\ owner' = NoThread
            /\ GoTo(t, "out") /\ rc' = [rc EXCEPT ![t] = "ok"]
            /\ UNCHANGED <<call, tls>>
    /\ UNCHANGED <<srv, sub, kept, server>>

nameExit(t) ==
    /\ pc[t] = "in" /\ sub[t] = NoService /\ kept[t] = {}
    /\ GoTo(t, "exit")
    /\ UNCHANGED <<guard, srv, sub, kept, call, tls, rc, server>>

ExitForgetsCount(t) ==                      \* mutant: closes for every user
    /\ pc[t] = "exit" /\ owner = NoThread
    /\ refCount' = refCount - 1
    /\ owner' = t /\ serviceClose(t, "srv", srv)
    /\ UNCHANGED <<srv, sub, kept, rc, server>>

ExitKeepsCount(t) ==                        \* mutant: --refCount is missing
    /\ pc[t] = "exit" /\ owner = NoThread
    /\ IF refCount = 1
       THEN owner' = t /\ serviceClose(t, "srv", srv)
       ELSE GoTo(t, "out") /\ UNCHANGED <<owner, call, tls>>
    /\ UNCHANGED <<refCount, srv, sub, kept, rc, server>>

serviceGuardExit(t) ==
    /\ pc[t] = "exit" /\ owner = NoThread
    /\ refCount' = IF refCount = 0 THEN 0 ELSE refCount - 1
    /\ IF refCount = 1
       THEN owner' = t /\ serviceClose(t, "srv", srv)
       ELSE GoTo(t, "out") /\ UNCHANGED <<owner, call, tls>>
    /\ UNCHANGED <<srv, sub, kept, rc, server>>

-----------------------------------------------------------------------------
\* Use.

\* serviceDispatchImpl works on a copy of the service, but for its session.
serviceDispatch(t, slot, cmd) ==
    LET s == IF slot = "srv" THEN srv ELSE sub[t]
    IN  /\ pc[t] = "in" /\ serviceIsActive(s)
        /\ cmd.out_objects > 0 => sub[t] = NoService
        /\ cmd.out_handles # <<>> => kept[t] = {}
        /\ Request(t, "dispatch", slot, serviceMakeRequest(s, cmd), cmd, s.object_id # 0)
        /\ UNCHANGED <<guard, srv, sub, kept, rc, server>>

\* serviceCreateDomainSubservice and serviceCreateNonDomainSubservice.
Subservice(parent, domain, value) ==
    IF value = 0 THEN NoService
    ELSE IF domain
    THEN [parent EXCEPT !.own_handle = 0, !.object_id = value]
    ELSE [session |-> value, own_handle |-> 1, object_id |-> 0,
          pointer_buffer_size |-> parent.pointer_buffer_size]

\* serviceParseResponse: objects first, then the handles in their order.
FinishDispatch(t) ==
    LET cmd == call[t].cmd
        at == Parsed(t, cmd.out_size)
        domain == call[t].is_domain
        object == IF domain THEN Nth(tls[t], at.objects, 1) ELSE Nth(tls[t], at.move_handles, 1)
        first == IF domain THEN 0 ELSE cmd.out_objects
        handle(i) == IF cmd.out_handles[i] = "Copy"
                     THEN Nth(tls[t], at.copy_handles, HandlesUpTo(cmd, i, "Copy"))
                     ELSE Nth(tls[t], at.move_handles, first + HandlesUpTo(cmd, i, "Move"))
    IN  /\ Parses(t, "dispatch")
        /\ IF Succeeded(t)
           THEN /\ sub' = IF cmd.out_objects = 0 THEN sub
                          ELSE [sub EXCEPT ![t] = Subservice(Target(t), domain, object)]
                /\ kept' = [kept EXCEPT ![t] = @ \cup {handle(i) : i \in DOMAIN cmd.out_handles}]
           ELSE UNCHANGED <<sub, kept>>
        /\ Return(t, "in")
        /\ UNCHANGED <<guard, srv, rc, server>>

CloseKept(t) ==
    /\ pc[t] = "in"
    /\ \E h \in kept[t] :
        /\ kept' = [kept EXCEPT ![t] = @ \ {h}]
        /\ open' = [o \in DOMAIN open \ {h} |-> open[o]]
    /\ UNCHANGED <<guard, srv, sub, threads, objects>>

\* serviceClone and serviceCloneEx, which sends a tag with it.
serviceClone(t) ==
    /\ pc[t] = "in" /\ sub[t] = NoService
    /\ sub' = [sub EXCEPT ![t] = [srv EXCEPT !.session = 0, !.own_handle = 1]]
    /\ \E tagged \in BOOLEAN :
        Request(t, "clone", "srv",
                IF tagged THEN cmifMakeControlRequest(4, 4) ELSE cmifMakeControlRequest(2, 0),
                NoCall, FALSE)
    /\ UNCHANGED <<guard, srv, kept, rc, server>>

FinishClone(t) ==
    /\ Parses(t, "clone")
    /\ sub' = IF Succeeded(t)
              THEN [sub EXCEPT ![t].session = Nth(tls[t], Parsed(t, 0).move_handles, 1)]
              ELSE [sub EXCEPT ![t] = NoService]
    /\ Return(t, "in")
    /\ UNCHANGED <<guard, srv, kept, rc, server>>

CloseSub(t) ==
    /\ pc[t] = "in" /\ serviceIsActive(sub[t])
    /\ serviceClose(t, "sub", sub[t])
    /\ UNCHANGED <<guard, srv, sub, kept, rc, server>>

-----------------------------------------------------------------------------
Locks(t) == serviceGuardBeginInit(t) \/ serviceGuardExit(t)

\* What a call does once it is made.
Runs(t) ==
    \/ NoSession(t) \/ serviceCreate(t) \/ serviceGuardEndInit(t) \/ Send(t)
    \/ FinishQuery(t) \/ FinishConvert(t) \/ FinishDispatch(t) \/ FinishClone(t) \/ FinishClose(t)

Serves(t) ==
    \/ Refuse(t) \/ ServeQuery(t) \/ ServeConvert(t) \/ ServeClone(t)
    \/ ServeDispatch(t) \/ ServeClose(t)

Calls(t) ==
    \/ nameInitialize(t) \/ nameExit(t) \/ serviceClone(t) \/ CloseSub(t) \/ CloseKept(t)
    \/ \E slot \in {"srv", "sub"} : \E cmd \in CommandsOf(t, slot) : serviceDispatch(t, slot, cmd)

Next == \E t \in Threads : Locks(t) \/ Runs(t) \/ Serves(t) \/ Calls(t)

\* A thread runs, a server answers, and the kernel hands a mutex that is
\* released to a thread that waits for it.
Spec ==
    /\ Init /\ [][Next]_vars
    /\ \A t \in Threads : WF_vars(Runs(t)) /\ WF_vars(Serves(t)) /\ SF_vars(Locks(t))

-----------------------------------------------------------------------------
\* Properties.

Services == [session : Handles \cup {0}, own_handle : 0..1, object_id : ObjectIds \cup {0},
             pointer_buffer_size : PointerSizes \cup {0}]

\* The state has its shape.
TypeOK ==
    /\ owner \in Threads \cup {NoThread} /\ refCount \in 0..Cardinality(Threads)
    /\ srv \in Services /\ sub \in [Threads -> Services]
    /\ kept \in [Threads -> SUBSET Handles]
    /\ pc \in [Threads -> {"out", "lock", "open", "settle", "in", "exit", "send", "wait", "parse"}]
    /\ DOMAIN open \subseteq Handles /\ objects \subseteq ObjectIds

Holder(kind, t, place, value) == [kind |-> kind, thread |-> t, place |-> place, value |-> value]

Owns(s) == s.own_handle = 1 /\ serviceIsActive(s)
Replied(t, op) == pc[t] = "parse" /\ Succeeded(t) /\ call[t].op = op

\* Where in a response handles are, and objects.
HandlePlaces(t) == {p \in DOMAIN tls[t].memory : p < tls[t].data}
ObjectPlaces(t) == {p \in DOMAIN tls[t].memory : p >= tls[t].data}

\* Who has a handle to close: the guarded service, a thread's own, what a
\* command gave it, and the replies that are not parsed yet.
HandleHolders ==
    {Holder("srv", NoThread, 0, h) : h \in IF Owns(srv) THEN {srv.session} ELSE {}}
    \cup {Holder("sub", t, 0, sub[t].session) : t \in {u \in Threads : Owns(sub[u])}}
    \cup (UNION {{Holder("kept", t, 0, h) : h \in kept[t]} : t \in Threads})
    \cup (UNION {{Holder("reply", t, p, tls[t].memory[p]) : p \in HandlePlaces(t)} :
                    t \in {u \in Threads : Replied(u, "clone") \/ Replied(u, "dispatch")}})

\* The close of the thread's own service is done, but for its handle.
Gone(t) == pc[t] = "parse" /\ call[t].op = "close" /\ call[t].slot = "sub"

\* Who has a domain object to close; a domain's own goes with its sessions.
ObjectHolders ==
    {Holder("srv", NoThread, 0, srv.object_id)}
    \cup {Holder("sub", t, 0, sub[t].object_id) :
              t \in {u \in Threads : sub[u].own_handle = 0 /\ ~Gone(u)}}
    \cup {Holder("convert", t, 0, tls[t].value) : t \in {u \in Threads : Replied(u, "convert")}}
    \cup (UNION {{Holder("reply", t, p, tls[t].memory[p]) : p \in ObjectPlaces(t)} :
                    t \in {u \in Threads : Replied(u, "dispatch")}})

\* Every open handle and every live domain object has exactly one owner, who
\* will close it, and no owner has one that is closed: nothing leaks and
\* nothing is closed twice, whichever calls fail and however the threads'
\* commands, clones and exits interleave (serviceParseResponse, serviceClone,
\* serviceClose).  When the last user has left, nothing is open.
OwnedOnce ==
    LET held(holders) == {x \in holders : x.value # 0}
        once(holders) == \A x, y \in held(holders) : x.value = y.value => x = y
        all(holders) == {x.value : x \in held(holders)}
    IN  /\ once(HandleHolders) /\ all(HandleHolders) = DOMAIN open
        /\ once(ObjectHolders) /\ all(ObjectHolders) = objects

Users == {t \in Threads : \/ pc[t] \in {"in", "exit"}
                          \/ call[t].op \in {"dispatch", "clone"}
                          \/ call[t].op = "close" /\ call[t].slot = "sub"}

\* With the mutex free, refCount is the number of users, and the service has a
\* session exactly when there are any; nobody uses it without one, even while
\* another thread initialises or leaves (service_guard.h).
GuardCounts ==
    /\ owner = NoThread =>
        /\ refCount = Cardinality(Users)
        /\ serviceIsActive(srv) <=> refCount > 0
    /\ Users # {} => serviceIsActive(srv)

\* A request goes to an open session and, in a domain, to a live object, though
\* serviceDispatchImpl formed it from a copy of the service made before.
NoDeadTarget ==
    \A t \in Threads : pc[t] = "send" =>
        LET s == Target(t)
        IN  /\ s.session \in DOMAIN open
            /\ tls[t].object_id # 0 => tls[t].object_id \in objects
            /\ call[t].op = "dispatch" => tls[t].object_id = s.object_id

\* What cmifMakeRequest reserves for a request the writers fill exactly: every
\* region has as many entries as its header says, and payload, objects and the
\* table of pointer sizes follow each other within the data words.
RequestFits ==
    \A t \in Threads : pc[t] = "send" =>
        LET req == tls[t]
            words == req.layout.data_words
            end == words + 4 * req.meta.data_words
            payload == req.data + req.data_size
            objects_end == IF req.objects = 0 THEN payload ELSE req.objects_at + 4 * req.objects
        IN  /\ \A r \in RegionNames \ {"data_words"} : Len(req.put[r]) = req.meta[r]
            /\ Len(req.put["objects"]) = req.objects /\ Len(req.put["table"]) = req.table
            /\ req.meta.data_words > 0 => words <= req.data - CmifHeader /\ objects_end <= end
            /\ req.objects > 0 => payload <= req.objects_at
            /\ req.table > 0 => objects_end <= req.table_at /\ req.table_at + 2 * req.table <= end

\* The inputs and outputs of a command, in the order of its arguments.
ArgumentsOf(b) ==
    LET arg == <<[ptr |-> b.ptr, size |-> b.size]>>
    IN  (IF IsIn(b) THEN arg ELSE <<>>) \o (IF IsOut(b) THEN arg ELSE <<>>)

Arguments(cmd) ==
    LET upTo[n \in 0..Len(cmd.buffers)] ==
            IF n = 0 THEN <<>> ELSE upTo[n - 1] \o ArgumentsOf(cmd.buffers[n])
    IN  upTo[Len(cmd.buffers)]

\* The other side parses the header to the layout the request was written with
\* and finds each buffer of the command, whichever way it was sent.
RequestUnderstood ==
    \A t \in Threads : pc[t] = "send" =>
        /\ hipcParseRequest(tls[t].header) = [meta |-> tls[t].meta, layout |-> tls[t].layout]
        /\ call[t].op = "dispatch" => ServerSees(tls[t], call[t].cmd) = Arguments(call[t].cmd)

TotalSize(entries) ==
    LET sum[n \in 0..Len(entries)] == IF n = 0 THEN 0 ELSE sum[n - 1] + entries[n].size
    IN  sum[Len(entries)]

\* As long as a command has only auto-select buffers, what it sends through the
\* server's pointer buffer fits into it.
PointersFit ==
    \A t \in Threads : (pc[t] = "send" /\ call[t].op = "dispatch") =>
        LET put == tls[t].put
            b == call[t].cmd.buffers
        IN  (\A i \in DOMAIN b : IsAuto(b[i])) =>
                TotalSize(put["send_statics"]) + TotalSize(put["recv_list"])
                    <= Target(t).pointer_buffer_size

\* Every call returns: initialisation, exit, dispatch, clone and close.
CallsReturn == \A t \in Threads : pc[t] \notin {"out", "in"} ~> pc[t] \in {"out", "in"}
=============================================================================
