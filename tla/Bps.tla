-------------------------------- MODULE Bps --------------------------------
(***************************************************************************)
(* The BPS patch format of src/flips/libbps.cpp: its numbers, its layout,  *)
(* and the two readers that change nothing, bps_get_info and               *)
(* bps_disassemble.  A byte has a stop bit over DigitBits bits (7 in the   *)
(* code); a size_t has Width bits (64).                                    *)
(***************************************************************************)
EXTENDS Integers, Sequences

CONSTANTS
    DigitBits,      \* bits of a byte below its stop bit
    Width,          \* bits of a size_t
    Crc(_)          \* crc32 of a sequence of bytes

ASSUME DigitBitsAssumption == DigitBits \in Nat /\ DigitBits > 1
ASSUME WidthAssumption == Width \in Nat /\ Width > DigitBits

\* The powers of two, as shifts multiply by them.
Pow2[n \in Nat] == IF n = 0 THEN 1 ELSE 2 * Pow2[n - 1]

Digits == Pow2[DigitBits]
SizeMax == Pow2[Width] - 1
Byte == 0..(2 * Digits - 1)
Stops(b) == b >= Digits
Wrap(n) == n % (SizeMax + 1)

SourceRead == 0
TargetRead == 1
SourceCopy == 2
TargetCopy == 3

-----------------------------------------------------------------------------
\* Numbers.

\* The lowest digit first; each digit but the last takes one off what is left,
\* so that every number has one form.
writenum[n \in Nat] ==
    IF n < Digits THEN <<n + Digits>>
    ELSE <<n % Digits>> \o writenum[n \div Digits - 1]

\* What the k-th digit of a number is multiplied by; the shift is taken modulo
\* the width of the register, as the console's does.
Weight(k) == Pow2[(DigitBits * k) % Width]

\* The k-th digit, with the one that was taken off when it was written.
Addend(b, k) == (b % Digits) + (IF k > 0 THEN 1 ELSE 0)

\* try_shift or try_add fails.
TooBig(sum, add, weight) == add > SizeMax \div weight \/ sum + add * weight > SizeMax

\* decodenum at s[p]: the value, the place after it, and its status: "big" when
\* it is too big (value is then what was summed before), "cut" when s ends before
\* a stop bit and the code reads on into what follows.  c is the number of the
\* next digit and the sum of those before.
decodenum(s, p) ==
    LET scan[c \in Nat \X Nat] ==
            LET turn(k, sum, add, weight) ==
                    IF p + k > Len(s)
                    THEN [status |-> "cut", value |-> sum, at |-> Len(s) + 2]
                    ELSE IF TooBig(sum, add, weight)
                    THEN [status |-> "big", value |-> sum, at |-> p + k + 1]
                    ELSE IF Stops(s[p + k])
                    THEN [status |-> "ok", value |-> sum + add * weight, at |-> p + k + 1]
                    ELSE scan[<<k + 1, sum + add * weight>>]
            IN  turn(c[1], c[2], Addend(s[p + c[1]], c[1]), Weight(c[1]))
    IN  scan[<<0, 0>>]

-----------------------------------------------------------------------------
\* Patches.

\* magic: it begins with "BPS1"; body: what follows up to the three checksums.
Patches == [magic : BOOLEAN, body : Seq(Byte), crcIn : Nat, crcOut : Nat, crcPatch : Nat]

NoPatch == [magic |-> FALSE, body |-> <<>>, crcIn |-> 0, crcOut |-> 0, crcPatch |-> 0]

\* The checksum over all of the patch but its last word.
SealOf(body, crcIn, crcOut) == Crc(body \o <<crcIn, crcOut>>)

\* The end of bps_create_linear: write32 of the three checksums.
Sealed(body, crcIn, crcOut) ==
    [magic |-> TRUE, body |-> body, crcIn |-> crcIn, crcOut |-> crcOut,
     crcPatch |-> SealOf(body, crcIn, crcOut)]

\* The shortest patch, 4 + 3 + 12 bytes, has three bytes of body.
TooShort(p) == Len(p.body) < 3

\* The header: sizes of input, output and metadata, one after the other.
SizeIn(p) == decodenum(p.body, 1)
SizeOut(p) == decodenum(p.body, SizeIn(p).at)
SizeMetaEarly(p) == decodenum(p.body, SizeIn(p).at)     \* mutant: one number too early
SizeMeta(p) == decodenum(p.body, SizeOut(p).at)

\* TRUE when a cursor moves forward by an encoded distance, FALSE backward.
Forward(n) == n % 2 = 0
MovedBy(cursor, n) == IF Forward(n) THEN cursor + n \div 2 ELSE cursor - n \div 2

-----------------------------------------------------------------------------
\* The commands, as the two readers take them that do not look at the status
\* of a number.

\* The command at place at, the place after its number and the number there.
CommandAt(p, at) ==
    LET command(number) ==
            [action |-> number.value % 4, length |-> number.value \div 4 + 1,
             at |-> number.at, distance |-> decodenum(p.body, number.at)]
    IN  command(decodenum(p.body, at))

\* The place after the command.
CommandEnd(command) ==
    CASE command.action = SourceRead -> command.at
      [] command.action = TargetRead -> command.at + command.length
      [] OTHER -> command.distance.at

-----------------------------------------------------------------------------
\* bps_get_info.

\* The numerator of the change fraction counts up to Counted bytes a command.
Counted == 32

\* A place in the patch, the output position and the score so far.
Walks == [at : Nat \ {0}, outpos : Nat, amount : Nat]

Walked(w, command) ==
    LET score == IF command.length < Counted THEN command.length ELSE Counted
    IN  [at |-> CommandEnd(command), outpos |-> w.outpos + command.length,
         amount |-> IF command.action = SourceRead THEN w.amount ELSE w.amount + score]

\* Where the loop over the commands from place from stops.
ChangeWalk(p, from, sizeIn) ==
    LET walk[w \in Walks] ==
            IF w.at > Len(p.body) \/ w.outpos >= sizeIn THEN w
            ELSE walk[Walked(w, CommandAt(p, w.at))]
    IN  walk[[at |-> from, outpos |-> 0, amount |-> 0]]

\* A buffer of n bytes that holds junk and then zeros.
Filled(n, junk) == [i \in 1..n |-> IF i <= Len(junk) THEN junk[i] ELSE 0]

\* readable: which of its three reads succeed; the result of the third is not
\* looked at, so that its buffer keeps the junk it was allocated with.  With
\* changefrac the size of the metadata is decoded once more, at the place after it.
bps_get_info(p, changefrac, readable, junk) ==
    LET patchbin == IF "patch" \in readable THEN p
                    ELSE [p EXCEPT !.body = Filled(Len(p.body), junk)]
        info(sizeIn, sizeOut, sizeMeta, again, end) ==
            LET counts == changefrac /\ sizeIn.value > 0
                amount == IF end.amount < sizeIn.value THEN end.amount ELSE sizeIn.value
            IN  IF TooShort(p) THEN [error |-> "bps_broken"]
                ELSE IF "top" \notin readable THEN [error |-> "bps_io"]
                ELSE IF ~p.magic THEN [error |-> "bps_broken"]
                ELSE IF \E n \in {sizeIn, sizeOut, sizeMeta} : n.status # "ok"
                THEN [error |-> "bps_too_big"]
                ELSE IF "checksums" \notin readable THEN [error |-> "bps_io"]
                ELSE IF counts /\ again.status = "big" THEN [error |-> "bps_too_big"]
                ELSE IF counts /\ (end.at > Len(p.body) + 1 \/ end.outpos > sizeOut.value)
                THEN [error |-> "bps_broken"]
                ELSE [error |-> "bps_ok",
                      size_in |-> sizeIn.value, size_out |-> sizeOut.value,
                      meta_start |-> sizeMeta.at, meta_size |-> sizeMeta.value,
                      crc_in |-> p.crcIn, crc_out |-> p.crcOut, crc_patch |-> p.crcPatch,
                      change_num |-> IF counts THEN amount ELSE 1,
                      change_denom |-> IF counts THEN sizeIn.value ELSE 1]
        walked(again) ==
            info(SizeIn(p), SizeOut(p), SizeMeta(p), again,
                 ChangeWalk(patchbin, again.at + again.value, SizeIn(p).value))
    IN  walked(decodenum(patchbin.body, SizeMeta(p).at))

-----------------------------------------------------------------------------
\* bps_disassemble: the lines it prints, as records, and where it ends.

Cursors == [at : Nat \ {0}, inreadat : Int, outreadat : Int, outat : Nat]

\* Where the bytes of a command at c come from.
CopiedFrom(c, command) ==
    CASE command.action = SourceRead -> c.outat
      [] command.action = TargetRead -> command.at
      [] command.action = SourceCopy -> MovedBy(c.inreadat, command.distance.value)
      [] command.action = TargetCopy -> MovedBy(c.outreadat, command.distance.value)

LineAt(c, command) ==
    [action |-> command.action, length |-> command.length,
     from |-> CopiedFrom(c, command), to |-> c.outat]

\* The cursors after it.
Advanced(c, command) ==
    LET copied(action, cursor) ==
            IF command.action = action THEN CopiedFrom(c, command) + command.length ELSE cursor
    IN  [at |-> CommandEnd(command), outat |-> c.outat + command.length,
         inreadat |-> copied(SourceCopy, c.inreadat),
         outreadat |-> copied(TargetCopy, c.outreadat)]

FirstCursors(p) ==
    [at |-> SizeMeta(p).at + SizeMeta(p).value, inreadat |-> 0, outreadat |-> 0, outat |-> 0]

\* What is no patch is not listed.
bps_disassemble(p) ==
    LET read[c \in Cursors] ==
            LET listed(command, rest) ==
                    [lines |-> <<LineAt(c, command)>> \o rest.lines, end |-> rest.end]
            IN  IF c.at > Len(p.body) THEN [lines |-> <<>>, end |-> c]
                ELSE listed(CommandAt(p, c.at), read[Advanced(c, CommandAt(p, c.at))])
    IN  IF p.magic THEN read[FirstCursors(p)] ELSE [lines |-> <<>>, end |-> FirstCursors(p)]

\* Its two warnings.
Warned(p, end) == end.at # Len(p.body) + 1 \/ end.outat # SizeOut(p).value
=============================================================================
