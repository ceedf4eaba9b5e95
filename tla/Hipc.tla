-------------------------------- MODULE Hipc --------------------------------
(***************************************************************************)
(* The message layout of src/libnx/hipc.h.  A message begins at offset 0   *)
(* of the thread's buffer; offsets are bytes.  Of an address only what the *)
(* properties tell apart is kept.                                          *)
(***************************************************************************)
EXTENDS Integers, Sequences

AutoRecvStatic == 255           \* HIPC_AUTO_RECV_STATIC
NullPtr == 0

\* A request's regions in their order, and the bytes of one entry of each.
Regions == <<"copy_handles", "move_handles", "send_statics", "send_buffers",
             "recv_buffers", "exch_buffers", "data_words", "recv_list">>
EntrySize == [copy_handles |-> 4, move_handles |-> 4, send_statics |-> 8, send_buffers |-> 12,
              recv_buffers |-> 12, exch_buffers |-> 12, data_words |-> 4, recv_list |-> 8]
RegionNames == DOMAIN EntrySize

\* What a field that has so many values keeps of one.
Field(value, values) == value % values

\* Of the size of what goes through a pointer buffer, 16 bits.
U16(size) == size % 65536

-----------------------------------------------------------------------------
\* Descriptors: the fields with the address put together again.

hipcMakeSendStatic(buffer, size, index) ==
    [index |-> Field(index, 64), address |-> buffer, size |-> U16(size)]
hipcMakeBuffer(buffer, size, mode) == [address |-> buffer, size |-> size, mode |-> mode]
hipcMakeRecvStatic(buffer, size) == [address |-> buffer, size |-> U16(size)]

-----------------------------------------------------------------------------
\* Requests.  meta gives the number of entries of each region (its field
\* recv_list may be AutoRecvStatic), type and send_pid.

\* Where a region begins; a region without entries is a null pointer.
hipcCalcRequestLayout(meta, base) ==
    LET start[i \in 1..Len(Regions)] ==
            IF i = 1 THEN base
            ELSE start[i - 1] + meta[Regions[i - 1]] * EntrySize[Regions[i - 1]]
        number(r) == CHOOSE i \in 1..Len(Regions) : Regions[i] = r
    IN  [r \in RegionNames |-> IF meta[r] = 0 THEN NullPtr ELSE start[number(r)]]

ModeUnbiased(statics) == IF statics = AutoRecvStatic THEN 2 ELSE statics   \* mutant: no 2 added

ModeOf(statics) ==
    IF statics = 0 THEN 0 ELSE IF statics = AutoRecvStatic THEN 2 ELSE 2 + statics

HasSpecialHeader(meta) == meta.send_pid \/ meta.copy_handles # 0 \/ meta.move_handles # 0

\* Bytes of the header, the special header and the process id.
HeaderSize(special, pid) == 8 + (IF special THEN 4 ELSE 0) + (IF special /\ pid THEN 8 ELSE 0)

hipcMakeRequest(meta) ==
    LET special == HasSpecialHeader(meta)
        four(n) == Field(n, 16)
    IN  [header |-> [type |-> meta.type,
                     send_statics |-> four(meta.send_statics),
                     send_buffers |-> four(meta.send_buffers),
                     recv_buffers |-> four(meta.recv_buffers),
                     exch_buffers |-> four(meta.exch_buffers),
                     data_words |-> Field(meta.data_words, 1024),
                     recv_static_mode |-> four(ModeOf(meta.recv_list)),
                     special |-> special,
                     send_pid |-> special /\ meta.send_pid,
                     copy_handles |-> IF special THEN four(meta.copy_handles) ELSE 0,
                     move_handles |-> IF special THEN four(meta.move_handles) ELSE 0],
         layout |-> hipcCalcRequestLayout(meta, HeaderSize(special, meta.send_pid))]

\* What the other side makes of the header.
hipcParseRequest(hdr) ==
    LET statics == IF hdr.recv_static_mode = 2 THEN AutoRecvStatic
                   ELSE IF hdr.recv_static_mode > 2 THEN hdr.recv_static_mode - 2 ELSE 0
        meta == [type |-> hdr.type, send_pid |-> hdr.send_pid,
                 copy_handles |-> hdr.copy_handles, move_handles |-> hdr.move_handles,
                 send_statics |-> hdr.send_statics, send_buffers |-> hdr.send_buffers,
                 recv_buffers |-> hdr.recv_buffers, exch_buffers |-> hdr.exch_buffers,
                 data_words |-> hdr.data_words, recv_list |-> statics]
    IN  [meta |-> meta,
         layout |-> hipcCalcRequestLayout(meta, HeaderSize(hdr.special, hdr.send_pid))]

-----------------------------------------------------------------------------
\* Responses: where hipcParseResponse finds the parts of one, from its header.

hipcParseResponse(hdr) ==
    LET base == HeaderSize(hdr.special, hdr.send_pid)
        copies == IF hdr.special THEN hdr.copy_handles ELSE 0
        moves == IF hdr.special THEN hdr.move_handles ELSE 0
    IN  [copy_handles |-> base,
         move_handles |-> base + 4 * copies,
         statics |-> base + 4 * (copies + moves),
         data_words |-> base + 4 * (copies + moves) + 8 * hdr.send_statics]
=============================================================================
