---------------------------- MODULE BpsRoundTrip ----------------------------
(***************************************************************************)
(* A caller of src/flips/libbps.cpp: it creates a patch of two files and   *)
(* applies it, or a patch it got from elsewhere, to some input, looks at   *)
(* the patch with bps_get_info and bps_disassemble, and frees what it was  *)
(* given.                                                                  *)
(***************************************************************************)
EXTENDS BpsApply, BpsCreate

CONSTANTS
    Pairs,          \* source, target and metadata to create a patch of
    Inputs,         \* inputs of bps_apply besides the source and the target
    Foreign,        \* patches that bps_create_linear did not make
    Junk            \* what a new buffer may hold

\* A struct mem has the length of its bytes in a size_t and ends in memory.
Memory == {bytes \in Seq(Byte) : InAddress + Len(bytes) <= SizeMax}

ASSUME PairsAssumption ==
    \A p \in Pairs : p.source \in Memory /\ p.target \in Memory /\ p.metadata \in Memory
ASSUME InputsAssumption == Inputs \subseteq Memory
ASSUME ForeignAssumption == Foreign \subseteq Patches
ASSUME JunkAssumption == Junk \subseteq Seq(Byte)

vars == <<applyVars, createVars>>

Init == ApplyInit /\ CreateInit

Create ==
    /\ cpc = "idle" /\ apc = "idle"
    /\ \E p \in Pairs : bps_create_linear(p.source, p.target, p.metadata)
    /\ UNCHANGED applyVars

Creating == CreateStep /\ UNCHANGED applyVars

HasPatch == cpc = "done" /\ held

ApplyCreated ==
    /\ HasPatch /\ apc = "idle"
    /\ \E i \in Inputs \cup {source, target}, w \in BOOLEAN, a \in BOOLEAN :
           bps_apply(created, i, w, a)
    /\ UNCHANGED createVars

ApplyForeign ==
    /\ cpc = "idle" /\ apc = "idle"
    /\ \E p \in Foreign, i \in Inputs, w \in BOOLEAN, a \in BOOLEAN : bps_apply(p, i, w, a)
    /\ UNCHANGED createVars

Applying == ApplyStep /\ UNCHANGED createVars

\* After a call that went astray the program, if it is still there, begins anew.
FreeOutput ==
    /\ apc \in {"done", "astray"}
    /\ apc' = "idle" /\ patch' = NoPatch /\ in' = <<>> /\ wanted' = FALSE /\ accept' = FALSE
    /\ patchat' = 1 /\ inreadat' = 0 /\ outreadat' = 0 /\ out' = <<>> /\ outlen' = 0
    /\ error' = "bps_ok" /\ live' = {}
    /\ UNCHANGED createVars

FreePatch ==
    /\ cpc = "done" /\ apc = "idle"
    /\ cpc' = "idle" /\ source' = <<>> /\ target' = <<>> /\ metadata' = <<>>
    /\ at' = 0 /\ lastknownchange' = 0 /\ targetcopypos' = 0
    /\ written' = <<>> /\ outbuflen' = 0 /\ held' = FALSE
    /\ created' = NoPatch /\ verdict' = "bps_ok"
    /\ UNCHANGED applyVars

Next ==
    \/ Create \/ Creating \/ ApplyCreated \/ ApplyForeign \/ Applying
    \/ FreeOutput \/ FreePatch

\* A call runs on until it returns; the caller need do nothing.
Spec == Init /\ [][Next]_vars /\ WF_vars(Creating) /\ WF_vars(Applying)

-----------------------------------------------------------------------------
\* Properties.

\* The state of both calls has its shape; the loop of bps_create_linear ends at
\* most a byte behind the target, and its cursor is at most a byte before it, even
\* if the bytes around the target look like a run.
TypeOK ==
    /\ ApplyTypeOK
    /\ cpc \in {"idle", "malloc", "header", "loop", "changed", "run", "done"}
    /\ source \in Seq(Byte) /\ target \in Seq(Byte) /\ metadata \in Seq(Byte)
    /\ at \in 0..(Len(target) + 1) /\ lastknownchange \in 0..Len(target)
    /\ targetcopypos \in -1..Len(target)
    /\ written \in Seq(Byte) /\ outbuflen \in Nat /\ held \in BOOLEAN
    /\ created \in Patches
    /\ verdict \in {"bps_ok", "bps_identical", "bps_too_big", "bps_out_of_mem"}

\* The bytes beside the target do not make runs reach out of it: the one before
\* is not its second, the one behind is not one of its last two.
RunsEndInside ==
    Len(target) > 0 =>
        /\ T(-1) # T(1)
        /\ T(Len(target)) \notin {T(Len(target) - 1), T(Len(target) - 2)}

\* A patch converts its source to its target: bps_apply of what
\* bps_create_linear made ends well and gives the target, byte for byte
\* (libbps.h).  It depends on what lies beside the target: run bps_overread.
RoundTrip ==
    (apc \in {"done", "astray"} /\ HasPatch /\ patch = created /\ in = source) =>
        apc = "done" /\ error = "bps_ok" /\ out = target

\* As the code keeps it: where the runs end inside the target.
PatchConverts == RunsEndInside => RoundTrip

\* An input that differs from the source in size or checksum is turned away,
\* and named the patch's output when it has the target's size and checksum;
\* only a caller that accepts it gets bytes.
WrongInputRejected ==
    (apc = "done" /\ HasPatch /\ (Len(in) # Len(source) \/ Crc(in) # Crc(source))) =>
        /\ error # "bps_ok"
        /\ ~accept => error = IF Len(in) = Len(target) /\ Crc(in) = Crc(target)
                              THEN "bps_to_output" ELSE "bps_not_this"
        /\ live # {} => accept

\* The buffer of bps_create_linear always has room for the next byte, and its
\* caller gets it exactly when the call returns a patch.
PatchHandedOver ==
    /\ held /\ cpc \notin {"idle", "done"} => Place(written) < outbuflen
    /\ cpc = "done" =>
        /\ held <=> verdict \in {"bps_ok", "bps_identical"}
        /\ held => Place(created.body) + 12 < outbuflen

\* "The input files are identical" (bps_identical in libbps.h).  It is returned for
\* a target with which the source begins, and not for two empty files: run
\* bps_identical.
IdenticalVerdict == HasPatch => (verdict = "bps_identical" <=> source = target)

\* What does hold: two identical files that are not empty are said to be identical,
\* and two files said to be so agree in every byte of the target (libbps.h:29).
IdenticalAgrees ==
    HasPatch =>
        /\ source = target /\ target # <<>> => verdict = "bps_identical"
        /\ verdict = "bps_identical" =>
               /\ Len(target) <= Len(source)
               /\ \A i \in 1..Len(target) : source[i] = target[i]

\* bps_get_info finds in a created patch what it was created from, whichever of its
\* reads fail, and the change fraction, when it gives one, is at most one.  The
\* third read, which is for the fraction alone, fails unseen.
InfoAgrees ==
    HasPatch /\ apc = "idle" =>
        \A changefrac \in BOOLEAN, readable \in SUBSET {"top", "checksums", "patch"}, junk \in Junk :
            LET info == bps_get_info(created, changefrac, readable, junk)
            IN  /\ ~changefrac =>
                    (info.error = "bps_ok" <=> {"top", "checksums"} \subseteq readable)
                /\ info.error = "bps_ok" =>
                    /\ info.size_in = Len(source) /\ info.size_out = Len(target)
                    /\ info.meta_size = Len(metadata)
                    /\ SubSeq(created.body, info.meta_start, info.meta_start + info.meta_size - 1)
                           = metadata
                    /\ info.crc_in = Crc(source) /\ info.crc_out = Crc(target)
                    /\ info.change_num <= info.change_denom

\* bps_disassemble, which tests nothing, reads a patch as bps_apply did that
\* succeeded: no warning, the same cursors at the end, and lines of which each
\* begins where the one before left the output and reads only what was there.
DisassemblyAgrees ==
    (apc = "done" /\ error = "bps_ok") =>
        LET listing == bps_disassemble(patch)
            lines == listing.lines
        IN  /\ ~Warned(patch, listing.end)
            /\ listing.end.inreadat = inreadat /\ listing.end.outreadat = outreadat
            /\ \A i \in 1..Len(lines) :
                /\ i > 1 => lines[i].to = lines[i - 1].to + lines[i - 1].length
                /\ lines[i].action \in {SourceRead, SourceCopy} =>
                       lines[i].from >= 0 /\ lines[i].from + lines[i].length <= Len(in)
                /\ lines[i].action = TargetCopy => lines[i].from \in 0..(lines[i].to - 1)

\* A call ends, whatever the files and the patch, if what lies behind the source
\* does not agree with the target.  If it does, the creating loop may come to a place
\* where no byte is worth a command and none counts as changed, because the test
\* for a change (libbps.cpp:346) reads on behind the source, and stay there.
CallsEnd ==
    /\ cpc \notin {"idle", "done"} ~> cpc = "done"
    /\ apc \notin {"idle", "done", "astray"} ~> apc \in {"done", "astray"}
=============================================================================
