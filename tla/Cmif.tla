-------------------------------- MODULE Cmif --------------------------------
(***************************************************************************)
(* Requests and responses of src/libnx/cmif.h, and how service.h fills a   *)
(* request from the arguments of a dispatch.  A message is a record; what  *)
(* is written to a region of it is a sequence, of which the k-th entry is  *)
(* at the region's begin plus k - 1 entries.                               *)
(***************************************************************************)
EXTENDS Hipc, FiniteSets

\* u32 arithmetic of server_pointer_size: 2^30 for 2^32, within TLC's integers.
U32(n) == n % 1073741824

\* cmifGetAlignedDataStart, and its rounding up.
AlignUp(n, to) == ((n + to - 1) \div to) * to
cmifGetAlignedDataStart(words) == AlignUp(words, 16)

\* A message of n data words and nothing else.
OnlyWords(type, n) ==
    [type |-> type, send_pid |-> FALSE, copy_handles |-> 0, move_handles |-> 0,
     send_statics |-> 0, send_buffers |-> 0, recv_buffers |-> 0, exch_buffers |-> 0,
     data_words |-> n, recv_list |-> 0]

-----------------------------------------------------------------------------
\* Forming a request.

DomainHeader == 16      \* sizeof(CmifDomainInHeader), sizeof(CmifDomainOutHeader)
CmifHeader == 16        \* sizeof(CmifInHeader), sizeof(CmifOutHeader)

TableOffsetNoObjects(fmt) ==            \* mutant: no room for the objects
    AlignUp(16 + (IF fmt.object_id # 0 THEN DomainHeader ELSE 0) + CmifHeader + fmt.data_size, 2)

\* Bytes of the data words up to the table of the out pointers' sizes.
TableOffset(fmt) ==
    AlignUp(16 + (IF fmt.object_id # 0 THEN DomainHeader + 4 * fmt.objects ELSE 0)
               + CmifHeader + fmt.data_size, 2)

TableLength(fmt) == fmt.out_auto_buffers + fmt.out_pointers

cmifMakeRequest(fmt) ==
    LET meta == [type |-> IF fmt.context # 0 THEN "RequestWithContext" ELSE "Request",
                 send_pid |-> fmt.send_pid,
                 copy_handles |-> fmt.handles,
                 move_handles |-> 0,
                 send_statics |-> fmt.in_auto_buffers + fmt.in_pointers,
                 send_buffers |-> fmt.in_auto_buffers + fmt.in_buffers,
                 recv_buffers |-> fmt.out_auto_buffers + fmt.out_buffers,
                 exch_buffers |-> fmt.inout_buffers,
                 data_words |-> (TableOffset(fmt) + 2 * TableLength(fmt) + 3) \div 4,
                 recv_list |-> TableLength(fmt) + fmt.out_fixed_pointers]
        hipc == hipcMakeRequest(meta)
        start == cmifGetAlignedDataStart(hipc.layout.data_words)
        domain == fmt.object_id # 0
        data == start + (IF domain THEN DomainHeader ELSE 0) + CmifHeader
    IN  [meta |-> meta, header |-> hipc.header, layout |-> hipc.layout,
         command |-> fmt.request_id, object_id |-> fmt.object_id,
         objects |-> IF domain THEN fmt.objects ELSE 0,
         data |-> data, data_size |-> fmt.data_size,
         objects_at |-> IF domain THEN data + fmt.data_size ELSE NullPtr,
         table_at |-> hipc.layout.data_words + TableOffset(fmt), table |-> TableLength(fmt),
         pointer_size |-> fmt.server_pointer_size, cur_in_ptr_id |-> 0,
         put |-> [r \in RegionNames \cup {"objects", "table"} |-> <<>>]]

\* cmifMakeControlRequest and cmifMakeCloseRequest.
Plain(meta, command, object_id, data, data_size) ==
    LET hipc == hipcMakeRequest(meta)
    IN  [meta |-> meta, header |-> hipc.header, layout |-> hipc.layout,
         command |-> command, object_id |-> object_id, objects |-> 0,
         data |-> cmifGetAlignedDataStart(hipc.layout.data_words) + data,
         data_size |-> data_size,
         objects_at |-> NullPtr, table_at |-> NullPtr, table |-> 0,
         pointer_size |-> 0, cur_in_ptr_id |-> 0,
         put |-> [r \in RegionNames \cup {"objects", "table"} |-> <<>>]]

cmifMakeControlRequest(command, size) ==
    Plain(OnlyWords("Control", (16 + CmifHeader + size + 3) \div 4), command, 0, CmifHeader, size)

cmifMakeCloseRequest(object_id) ==
    IF object_id # 0
    THEN Plain(OnlyWords("Request", (16 + DomainHeader) \div 4), "close", object_id, DomainHeader, 0)
    ELSE Plain(OnlyWords("Close", 0), "close", 0, 0, 0)

-----------------------------------------------------------------------------
\* Filling it.

Put(req, region, entry) == [req EXCEPT !.put[region] = Append(@, entry)]
Spend(req, size) == [req EXCEPT !.pointer_size = U32(@ - size)]

cmifRequestInBuffer(req, buf, mode) ==
    Put(req, "send_buffers", hipcMakeBuffer(buf.ptr, buf.size, mode))
cmifRequestOutBuffer(req, buf, mode) ==
    Put(req, "recv_buffers", hipcMakeBuffer(buf.ptr, buf.size, mode))
cmifRequestInOutBuffer(req, buf, mode) ==
    Put(req, "exch_buffers", hipcMakeBuffer(buf.ptr, buf.size, mode))

cmifRequestInPointer(req, buf) ==
    LET static == hipcMakeSendStatic(buf.ptr, buf.size, req.cur_in_ptr_id)
    IN  Spend([Put(req, "send_statics", static) EXCEPT !.cur_in_ptr_id = @ + 1], buf.size)

cmifRequestOutFixedPointer(req, buf) ==
    Spend(Put(req, "recv_list", hipcMakeRecvStatic(buf.ptr, buf.size)), buf.size)

cmifRequestOutPointer(req, buf) ==
    Put(cmifRequestOutFixedPointer(req, buf), "table", U16(buf.size))

NoBuffer == [ptr |-> NullPtr, size |-> 0]

FitsAny(req, buf) == req.pointer_size # 0     \* mutant: the size is not compared

\* An auto-select buffer goes through the server's pointer buffer if it fits
\* into what is left of it, and is mapped otherwise.
FitsPointer(req, buf) == req.pointer_size # 0 /\ buf.size <= req.pointer_size

cmifRequestInAutoBuffer(req, buf, mode) ==
    IF FitsPointer(req, buf)
    THEN cmifRequestInBuffer(cmifRequestInPointer(req, buf), NoBuffer, mode)
    ELSE cmifRequestInBuffer(cmifRequestInPointer(req, NoBuffer), buf, mode)

cmifRequestOutAutoBuffer(req, buf, mode) ==
    IF FitsPointer(req, buf)
    THEN cmifRequestOutBuffer(cmifRequestOutPointer(req, buf), NoBuffer, mode)
    ELSE cmifRequestOutBuffer(cmifRequestOutPointer(req, NoBuffer), buf, mode)

-----------------------------------------------------------------------------
\* service.h: the attributes of a buffer are a set of flags.

Attributes == {"In", "Out", "AutoSelect", "Pointer", "FixedSize", "MapAlias", "NonSecure", "NonDevice"}
Buffers == [attr : SUBSET Attributes, ptr : Nat, size : Nat]

\* SfDispatchParams: up to eight of each.  Of objects out, a command has one at
\* most here.
UpToEight(S) == {s \in Seq(S) : Len(s) <= 8}
DispatchParams ==
    [id : Nat, context : Nat, data_size : Nat, send_pid : BOOLEAN, objects : UpToEight(Nat),
     handles : UpToEight(Nat), buffers : UpToEight(Buffers), out_size : Nat, out_objects : 0..1,
     out_handles : UpToEight({"Copy", "Move"})]

IsIn(b) == "In" \in b.attr
IsOut(b) == "Out" \in b.attr

IsAuto(b) == "AutoSelect" \in b.attr
Pointer(b) == ~IsAuto(b) /\ "Pointer" \in b.attr
Fixed(b) == Pointer(b) /\ IsOut(b) /\ "FixedSize" \in b.attr
Mapped(b) == ~IsAuto(b) /\ ~Pointer(b) /\ "MapAlias" \in b.attr

\* What _serviceRequestFormatProcessBuffer counts a buffer as.
InAuto(b) == IsAuto(b) /\ IsIn(b)
OutAuto(b) == IsAuto(b) /\ IsOut(b)
InPointer(b) == Pointer(b) /\ IsIn(b)
OutPointer(b) == Pointer(b) /\ IsOut(b) /\ ~Fixed(b)
InMapped(b) == Mapped(b) /\ IsIn(b) /\ ~IsOut(b)
OutMapped(b) == Mapped(b) /\ IsOut(b) /\ ~IsIn(b)
InOutMapped(b) == Mapped(b) /\ IsIn(b) /\ IsOut(b)

\* serviceMakeRequest up to cmifMakeRequest.
Format(s, cmd) ==
    LET b == cmd.buffers
        all == DOMAIN b
    IN  [object_id |-> s.object_id, request_id |-> cmd.id, context |-> cmd.context,
         data_size |-> cmd.data_size, server_pointer_size |-> s.pointer_buffer_size,
         objects |-> Len(cmd.objects), handles |-> Len(cmd.handles), send_pid |-> cmd.send_pid,
         in_auto_buffers |-> Cardinality({i \in all : InAuto(b[i])}),
         out_auto_buffers |-> Cardinality({i \in all : OutAuto(b[i])}),
         in_pointers |-> Cardinality({i \in all : InPointer(b[i])}),
         out_pointers |-> Cardinality({i \in all : OutPointer(b[i])}),
         out_fixed_pointers |-> Cardinality({i \in all : Fixed(b[i])}),
         in_buffers |-> Cardinality({i \in all : InMapped(b[i])}),
         out_buffers |-> Cardinality({i \in all : OutMapped(b[i])}),
         inout_buffers |-> Cardinality({i \in all : InOutMapped(b[i])})]

ModeFor(b) ==
    IF "NonDevice" \in b.attr THEN "NonDevice"
    ELSE IF "NonSecure" \in b.attr THEN "NonSecure" ELSE "Normal"

If(condition, then, else) == IF condition THEN then ELSE else

_serviceRequestProcessBuffer(req, b) ==
    IF IsAuto(b)
    THEN LET in == If(IsIn(b), cmifRequestInAutoBuffer(req, b, ModeFor(b)), req)
         IN  If(IsOut(b), cmifRequestOutAutoBuffer(in, b, ModeFor(b)), in)
    ELSE IF Pointer(b)
    THEN LET in == If(IsIn(b), cmifRequestInPointer(req, b), req)
         IN  CASE Fixed(b) -> cmifRequestOutFixedPointer(in, b)
               [] OutPointer(b) -> cmifRequestOutPointer(in, b)
               [] OTHER -> in
    ELSE CASE InOutMapped(b) -> cmifRequestInOutBuffer(req, b, ModeFor(b))
           [] InMapped(b) -> cmifRequestInBuffer(req, b, ModeFor(b))
           [] OutMapped(b) -> cmifRequestOutBuffer(req, b, ModeFor(b))
           [] OTHER -> req

\* The objects, the handles and the buffers go to their regions in this order;
\* what cmifMakeRequest set up stays.
serviceMakeRequest(s, cmd) ==
    LET empty == cmifMakeRequest(Format(s, cmd))
        named == IF s.object_id = 0 THEN empty ELSE [empty EXCEPT !.put["objects"] = cmd.objects]
        handed == [named EXCEPT !.put["copy_handles"] = cmd.handles]
        filled[n \in 0..Len(cmd.buffers)] ==
            IF n = 0 THEN handed ELSE _serviceRequestProcessBuffer(filled[n - 1], cmd.buffers[n])
        last == filled[Len(cmd.buffers)]
    IN  [empty EXCEPT !.put = last.put, !.pointer_size = last.pointer_size,
                      !.cur_in_ptr_id = last.cur_in_ptr_id]

-----------------------------------------------------------------------------
\* The other side.  External: how a server takes the buffers of a command out
\* of the regions of its request, in the order of the command's arguments.

Rest(got, region) == Tail(got.left[region])
First(got, region) == Head(got.left[region])
Take(got, regions) ==
    [got EXCEPT !.left = [r \in DOMAIN got.left |-> IF r \in regions THEN Rest(got, r) ELSE got.left[r]]]

SeenAs(d) == [ptr |-> d.address, size |-> d.size]
SeenEither(pointer, buffer) == IF buffer.size = 0 /\ buffer.address = NullPtr THEN SeenAs(pointer) ELSE SeenAs(buffer)

\* What the server sees of one buffer: as an input, then as an output.
Seen(got, b) ==
    LET in == CASE IsAuto(b) -> SeenEither(First(got, "send_statics"), First(got, "send_buffers"))
                [] Pointer(b) -> SeenAs(First(got, "send_statics"))
                [] OTHER -> SeenAs(First(got, IF IsOut(b) THEN "exch_buffers" ELSE "send_buffers"))
        out == CASE IsAuto(b) -> SeenEither(First(got, "recv_list"), First(got, "recv_buffers"))
                 [] Pointer(b) -> SeenAs(First(got, "recv_list"))
                 [] OTHER -> SeenAs(First(got, IF IsIn(b) THEN "exch_buffers" ELSE "recv_buffers"))
        used == (IF ~IsIn(b) THEN {}
                 ELSE IF IsAuto(b) THEN {"send_statics", "send_buffers"}
                 ELSE IF Pointer(b) THEN {"send_statics"}
                 ELSE IF IsOut(b) THEN {"exch_buffers"} ELSE {"send_buffers"})
                \cup
                (IF ~IsOut(b) THEN {}
                 ELSE IF IsAuto(b) THEN {"recv_list", "recv_buffers"}
                 ELSE IF Pointer(b) THEN {"recv_list"}
                 ELSE IF IsIn(b) THEN {"exch_buffers"} ELSE {"recv_buffers"})
        seen == (IF IsIn(b) THEN <<in>> ELSE <<>>) \o (IF IsOut(b) THEN <<out>> ELSE <<>>)
    IN  [Take(got, used) EXCEPT !.seen = @ \o seen]

ServerSees(req, cmd) ==
    LET taken[n \in 0..Len(cmd.buffers)] ==
            IF n = 0 THEN [left |-> req.put, seen |-> <<>>] ELSE Seen(taken[n - 1], cmd.buffers[n])
    IN  taken[Len(cmd.buffers)].seen

-----------------------------------------------------------------------------
\* Responses.  External: how a server lays one out.  memory gives what is at
\* an offset.

Words(from, n) == {from + 4 * (i - 1) : i \in 1..n}
WordOf(from, place) == (place - from) \div 4 + 1
Memory(from, one, to, two) ==
    [p \in Words(from, Len(one)) \cup Words(to, Len(two)) |->
        IF p \in Words(from, Len(one)) THEN one[WordOf(from, p)] ELSE two[WordOf(to, p)]]

Response(domain, size, objects, copies, moves) ==
    LET given == copies \o moves
        special == given # <<>>
        handles == HeaderSize(special, FALSE)
        data == AlignUp(handles + 4 * Len(given), 16)
                + (IF domain THEN DomainHeader ELSE 0) + CmifHeader
    IN  [header |-> [special |-> special, send_pid |-> FALSE, send_statics |-> 0,
                     copy_handles |-> Len(copies), move_handles |-> Len(moves)],
         memory |-> Memory(handles, given, data + size, objects),
         data |-> data]

\* cmifParseResponse of a response that succeeded: where its parts are.
cmifParseResponse(resp, is_domain, size) ==
    LET hipc == hipcParseResponse(resp.header)
        start == cmifGetAlignedDataStart(hipc.data_words)
        data == start + (IF is_domain THEN DomainHeader ELSE 0) + CmifHeader
    IN  [data |-> data, objects |-> data + size,
         copy_handles |-> hipc.copy_handles, move_handles |-> hipc.move_handles]

\* The n-th value that is read from a place on.
Nth(resp, place, n) == resp.memory[place + 4 * (n - 1)]
=============================================================================
