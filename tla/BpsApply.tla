------------------------------ MODULE BpsApply ------------------------------
(***************************************************************************)
(* bps_apply (src/flips/libbps.cpp): one call after the other, a step for  *)
(* each command of the patch.  Pointers are offsets from 0, the place in   *)
(* the patch counts from 1; the output is the bytes written so far.        *)
(* Allocations succeed: the code does not check them.  Pointers wrap at    *)
(* SizeMax; a call that reads outside its buffers has gone "astray": what  *)
(* follows is undefined, and nothing is said of it.                        *)
(***************************************************************************)
EXTENDS Bps

CONSTANTS
    InAddress,      \* where the input lies in memory
    PatchAddress    \* where the body of the patch lies

ASSUME AddressAssumption == InAddress \in 0..SizeMax /\ PatchAddress \in Nat

VARIABLES
    apc,                    \* where the call is
    patch, in,              \* arguments: the patch and the input
    wanted, accept,         \* arguments: metadata # NULL, accept_wrong_input
    patchat,                \* place of the next byte of the patch's body
    inreadat, outreadat,    \* the two copy cursors
    out, outlen,            \* bytes written to *out and its size
    error,                  \* what the call returns
    live                    \* the buffers it has allocated and not freed

args == <<patch, in, wanted, accept>>
cursors == <<patchat, inreadat, outreadat>>
applyVars == <<apc, patch, in, wanted, accept, patchat, inreadat, outreadat,
               out, outlen, error, live>>

ApplyInit ==
    /\ apc = "idle"
    /\ patch = NoPatch /\ in = <<>> /\ wanted = FALSE /\ accept = FALSE
    /\ patchat = 1 /\ inreadat = 0 /\ outreadat = 0
    /\ out = <<>> /\ outlen = 0
    /\ error = "bps_ok" /\ live = {}

Fail(e) == error' = e /\ apc' = "exit"

\* The patch is read, or the input copied, outside its buffer.
GoAstray == apc' = "astray" /\ UNCHANGED <<args, cursors, out, outlen, error, live>>

-----------------------------------------------------------------------------
\* The call and its first test, which returns without the cleanup.
bps_apply(p, i, w, a) ==
    /\ apc = "idle"
    /\ patch' = p /\ in' = i /\ wanted' = w /\ accept' = a
    /\ IF TooShort(p) THEN error' = "bps_broken" /\ apc' = "done"
       ELSE error' = "bps_ok" /\ apc' = "check"
    /\ UNCHANGED <<cursors, out, outlen, live>>

\* Magic and checksum of the patch.
Intact == patch.magic /\ patch.crcPatch = SealOf(patch.body, patch.crcIn, patch.crcOut)

BadPatch ==
    /\ apc = "check" /\ ~Intact
    /\ Fail("bps_broken")
    /\ UNCHANGED <<args, cursors, out, outlen, live>>

\* A number that does not end before the checksums takes them, and what lies
\* behind the patch, for the rest of the header; no command is left to read.
NumberErrors(number) ==
    CASE number.status = "big" -> {"bps_too_big"}
      [] number.status = "cut" -> {"bps_too_big", "bps_broken"}
      [] OTHER -> {}

SizeMatches == SizeIn(patch).value = Len(in)    \* mutant: the checksum is not compared
InputMatches == SizeIn(patch).value = Len(in) /\ Crc(in) = patch.crcIn

SizeErrors ==
    LET statuses == {SizeIn(patch).status, SizeOut(patch).status}
        compared == ~accept /\ ~(SizeIn(patch).status = "ok" /\ InputMatches)
    IN  IF statuses = {"ok"} THEN {}
        ELSE IF "cut" \notin statuses \/ SizeIn(patch).status = "big" THEN {"bps_too_big"}
        ELSE {"bps_too_big", "bps_broken"} \cup
             (IF compared THEN {"bps_not_this", "bps_to_output"} ELSE {})

BadSize ==
    /\ apc = "check" /\ Intact
    /\ \E e \in SizeErrors : Fail(e)
    /\ UNCHANGED <<args, cursors, out, outlen, live>>

SizesRead == Intact /\ SizeErrors = {}

WrongInputError ==
    IF Len(in) = SizeOut(patch).value /\ Crc(in) = patch.crcOut
    THEN "bps_to_output" ELSE "bps_not_this"

WrongInput ==
    /\ apc = "check" /\ SizesRead /\ ~InputMatches /\ ~accept
    /\ Fail(WrongInputError)
    /\ UNCHANGED <<args, cursors, out, outlen, live>>

\* The input is the right one or is accepted; the output is allocated.
OpenOutput ==
    /\ apc = "check" /\ SizesRead /\ (InputMatches \/ accept)
    /\ error' = IF InputMatches THEN "bps_ok" ELSE WrongInputError
    /\ outlen' = SizeOut(patch).value
    /\ live' = {"out"}
    /\ apc' = "metadata"
    /\ UNCHANGED <<args, cursors, out>>

BadMetadata ==
    /\ apc = "metadata"
    /\ \E e \in NumberErrors(SizeMeta(patch)) : Fail(e)
    /\ UNCHANGED <<args, cursors, out, outlen, live>>

\* The metadata is copied or skipped, without a look at the end of the patch:
\* patchat may move out of it, and further than the addresses go.
MetadataEnd == SizeMeta(patch).at + SizeMeta(patch).value
MetadataInside == MetadataEnd <= Len(patch.body) + 1
MetadataWraps == ~MetadataInside /\ PatchAddress + MetadataEnd - 1 > SizeMax

ReadMetadata ==
    /\ apc = "metadata" /\ SizeMeta(patch).status = "ok" /\ ~MetadataWraps
    /\ live' = IF wanted /\ SizeMeta(patch).value > 0 THEN live \cup {"metadata"} ELSE live
    /\ patchat' = MetadataEnd
    /\ apc' = "commands"
    /\ UNCHANGED <<args, inreadat, outreadat, out, outlen, error>>

\* Behind the body the patch has twelve bytes of checksums.
MetadataAstray ==
    /\ apc = "metadata" /\ SizeMeta(patch).status = "ok"
    /\ MetadataWraps \/ (wanted /\ MetadataEnd > Len(patch.body) + 13)
    /\ GoAstray

-----------------------------------------------------------------------------
\* The commands.

More == apc = "commands" /\ patchat <= Len(patch.body)

Command == decodenum(patch.body, patchat)
Length == Command.value \div 4 + 1
IsA(action) == Command.status = "ok" /\ Command.value % 4 = action

Distance == decodenum(patch.body, Command.at)
Moved(cursor) == MovedBy(cursor, Distance.value)

FitsUnchecked == TRUE                       \* mutant: no test against outend
Fits == Len(out) + Length <= outlen

SourceReadFits == Fits /\ Len(out) + Length <= Len(in)

TargetReadFits == Fits /\ Command.at + Length - 1 <= Len(patch.body)

\* An offset in the input as its pointer has it.
Wrapped(offset) == ((offset + InAddress) % (SizeMax + 1)) - InAddress

\* The two tests of the code, inreadat < instart and inreadat + length > inend;
\* that inreadat is not behind inend is not tested.
SourceCopyPasses ==
    /\ Fits /\ Distance.status = "ok"
    /\ Wrapped(Moved(inreadat)) >= 0
    /\ Wrapped(Wrapped(Moved(inreadat)) + Length) <= Len(in)

SourceCopyFits ==
    /\ Fits /\ Distance.status = "ok"
    /\ Moved(inreadat) >= 0 /\ Moved(inreadat) + Length <= Len(in)

\* No sum of these wraps: a length is at most a quarter of the addresses, and a
\* pointer that wraps backward is not before outat.
TargetCopyFits ==
    /\ Fits /\ Distance.status = "ok"
    /\ Moved(outreadat) >= 0 /\ Moved(outreadat) < Len(out)
    /\ Moved(outreadat) + Length <= outlen

DoSourceRead ==
    /\ More /\ IsA(SourceRead) /\ SourceReadFits
    /\ out' = out \o SubSeq(in, Len(out) + 1, Len(out) + Length)
    /\ patchat' = Command.at
    /\ UNCHANGED <<apc, args, inreadat, outreadat, outlen, error, live>>

DoTargetRead ==
    /\ More /\ IsA(TargetRead) /\ TargetReadFits
    /\ out' = out \o SubSeq(patch.body, Command.at, Command.at + Length - 1)
    /\ patchat' = Command.at + Length
    /\ UNCHANGED <<apc, args, inreadat, outreadat, outlen, error, live>>

SourceCopyRewinds ==                        \* mutant: the cursor stays at the begin
    /\ More /\ IsA(SourceCopy) /\ SourceCopyFits
    /\ out' = out \o SubSeq(in, Moved(inreadat) + 1, Moved(inreadat) + Length)
    /\ inreadat' = Moved(inreadat)
    /\ patchat' = Distance.at
    /\ UNCHANGED <<apc, args, outreadat, outlen, error, live>>

DoSourceCopy ==
    /\ More /\ IsA(SourceCopy) /\ SourceCopyFits
    /\ out' = out \o SubSeq(in, Moved(inreadat) + 1, Moved(inreadat) + Length)
    /\ inreadat' = Moved(inreadat) + Length
    /\ patchat' = Distance.at
    /\ UNCHANGED <<apc, args, outreadat, outlen, error, live>>

\* Copied byte by byte: a copy longer than the gap repeats what is in it.
Repeat(s, from, n) == [i \in 1..n |-> s[from + 1 + ((i - 1) % (Len(s) - from))]]

DoTargetCopy ==
    /\ More /\ IsA(TargetCopy) /\ TargetCopyFits
    /\ out' = out \o Repeat(out, Moved(outreadat), Length)
    /\ outreadat' = Moved(outreadat) + Length
    /\ patchat' = Distance.at
    /\ UNCHANGED <<apc, args, inreadat, outlen, error, live>>

NeedsDistance == Command.value % 4 \in {SourceCopy, TargetCopy}

CommandErrors ==
    IF Command.status # "ok" THEN NumberErrors(Command)
    ELSE IF Fits /\ NeedsDistance /\ Distance.status # "ok" THEN NumberErrors(Distance)
    ELSE IF \/ IsA(SourceRead) /\ ~SourceReadFits
            \/ IsA(TargetRead) /\ ~TargetReadFits
            \/ IsA(SourceCopy) /\ ~SourceCopyPasses
            \/ IsA(TargetCopy) /\ ~TargetCopyFits
    THEN {"bps_broken"} ELSE {}

BadCommand ==
    /\ More
    /\ \E e \in CommandErrors : Fail(e)
    /\ UNCHANGED <<args, cursors, out, outlen, live>>

\* A copy passes both tests and is not in the input: its pointer wrapped.
SourceCopyAstray ==
    /\ More /\ IsA(SourceCopy) /\ SourceCopyPasses /\ ~SourceCopyFits
    /\ GoAstray

\* A number without a stop bit up to the checksums may be read on behind them.
NumberAstray ==
    /\ \/ /\ apc = "check" /\ Intact /\ SizeIn(patch).status # "big"
          /\ "cut" \in {SizeIn(patch).status, SizeOut(patch).status}
       \/ apc = "metadata" /\ SizeMeta(patch).status = "cut"
       \/ More /\ Command.status = "cut"
       \/ More /\ Command.status = "ok" /\ Fits /\ NeedsDistance /\ Distance.status = "cut"
    /\ GoAstray

-----------------------------------------------------------------------------
\* After the commands.

Complete == patchat = Len(patch.body) + 1 /\ Len(out) = outlen

Incomplete ==
    /\ apc = "commands" /\ ~More /\ ~Complete
    /\ Fail("bps_broken")
    /\ UNCHANGED <<args, cursors, out, outlen, live>>

WrongOutput ==
    /\ apc = "commands" /\ ~More /\ Complete
    /\ Crc(out) # patch.crcOut
    /\ error' = "bps_not_this"
    /\ apc' = IF accept THEN "done" ELSE "exit"
    /\ UNCHANGED <<args, cursors, out, outlen, live>>

Return ==
    /\ apc = "commands" /\ ~More /\ Complete
    /\ Crc(out) = patch.crcOut
    /\ apc' = "done"
    /\ UNCHANGED <<args, cursors, out, outlen, error, live>>

CleanupLeaks ==                             \* mutant: the metadata is not freed
    /\ apc = "exit"
    /\ live' = live \ {"out"} /\ out' = <<>> /\ outlen' = 0
    /\ apc' = "done"
    /\ UNCHANGED <<args, cursors, error>>

\* The label exit: both buffers are freed, freeing NULL being harmless.
Cleanup ==
    /\ apc = "exit"
    /\ live' = {} /\ out' = <<>> /\ outlen' = 0
    /\ apc' = "done"
    /\ UNCHANGED <<args, cursors, error>>

ApplyStep ==
    \/ BadPatch \/ BadSize \/ WrongInput \/ OpenOutput \/ BadMetadata \/ ReadMetadata
    \/ MetadataAstray \/ SourceCopyAstray \/ NumberAstray
    \/ DoSourceRead \/ DoTargetRead \/ DoSourceCopy \/ DoTargetCopy \/ BadCommand
    \/ Incomplete \/ WrongOutput \/ Return \/ Cleanup

-----------------------------------------------------------------------------
\* Properties.

Errors == {"bps_ok", "bps_to_output", "bps_not_this", "bps_broken", "bps_too_big"}

\* The state of a call has its shape.
ApplyTypeOK ==
    /\ apc \in {"idle", "check", "metadata", "commands", "exit", "astray", "done"}
    /\ patch \in Patches /\ in \in Seq(Byte)
    /\ wanted \in BOOLEAN /\ accept \in BOOLEAN
    /\ patchat \in Nat /\ inreadat \in Nat /\ outreadat \in Nat
    /\ out \in Seq(Byte) /\ outlen \in Nat
    /\ error \in Errors
    /\ live \subseteq {"out", "metadata"}

\* Whatever the commands of the patch, the output never outgrows its buffer
\* and the copy cursors stay within what they copy from: the source cursor in
\* the input, the target cursor in what is written (the tests of bps_apply
\* before each of its copy loops).  Only metadata said to be longer than the patch
\* takes the place of the next byte out of the patch.  A copy that the tests let
\* pass though its pointer wrapped ends the call "astray": MalformedRejected.
CursorsInBounds ==
    /\ Len(out) <= outlen
    /\ inreadat <= Len(in)
    /\ outreadat <= Len(out) \/ apc \in {"exit", "done"}
    /\ apc = "commands" => patchat <= Len(patch.body) + 1 \/ ~MetadataInside

\* A malformed patch is reported, whatever it says: "This is not a BPS patch, or
\* it's malformed somehow" (bps_broken in libbps.h).  A copy from the input whose
\* pointer wraps is not: run bps_astray.
MalformedRejected == apc # "astray"

\* A call that ends leaves the caller the buffers it has to free and no other:
\* after a success, or a wrong input or output it accepts, the whole output, and
\* the metadata if it asked for it and there is any; after any other end nothing.
BuffersHandedOver ==
    apc = "done" =>
        \/ /\ error = "bps_ok" \/ (accept /\ error \in {"bps_to_output", "bps_not_this"})
           /\ live = {"out"} \cup (IF wanted /\ SizeMeta(patch).value > 0
                                  THEN {"metadata"} ELSE {})
           /\ Len(out) = outlen
        \/ /\ error # "bps_ok"
           /\ live = {} /\ outlen = 0

\* A success is never wrong: the output has the size and the checksum the patch
\* gives for its result, and the input those it gives for its source.
SuccessIsVerified ==
    apc = "done" /\ error = "bps_ok" =>
        /\ Intact /\ InputMatches
        /\ Len(out) = SizeOut(patch).value /\ Crc(out) = patch.crcOut
=============================================================================
