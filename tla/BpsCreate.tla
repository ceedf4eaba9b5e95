----------------------------- MODULE BpsCreate -----------------------------
(***************************************************************************)
(* bps_create_linear (src/flips/libbps.cpp): one call, a step for each     *)
(* turn of its loop.  source and target advance together, so one offset    *)
(* stands for both.  The loop compares bytes a little outside the two      *)
(* files; what lies there is Beyond.                                       *)
(***************************************************************************)
EXTENDS Bps, FiniteSets, FiniteSetsExt

CONSTANTS
    FirstBuffer,        \* 4096, the first size of the patch's buffer
    Beyond(_, _)        \* the value at an offset outside "source" or "target"

ASSUME FirstBufferAssumption == FirstBuffer \in Nat /\ FirstBuffer > 4    \* it holds the magic

VARIABLES
    cpc,                        \* where the call is
    source, target, metadata,   \* the arguments
    at,                         \* source and target, as an offset
    lastknownchange,            \* as an offset
    targetcopypos,              \* where the decoder's target cursor will be
    written,                    \* the body written so far
    outbuflen,                  \* size of the buffer
    held,                       \* whether the buffer is allocated
    created, verdict            \* the patch and what the call returns

files == <<source, target, metadata>>
createVars == <<cpc, files, at, lastknownchange, targetcopypos, written,
                outbuflen, held, created, verdict>>

CreateInit ==
    /\ cpc = "idle"
    /\ source = <<>> /\ target = <<>> /\ metadata = <<>>
    /\ at = 0 /\ lastknownchange = 0 /\ targetcopypos = 0
    /\ written = <<>> /\ outbuflen = 0 /\ held = FALSE
    /\ created = NoPatch /\ verdict = "bps_ok"

S(i) == IF i \in 0..(Len(source) - 1) THEN source[i + 1] ELSE Beyond("source", i)
T(i) == IF i \in 0..(Len(target) - 1) THEN target[i + 1] ELSE Beyond("target", i)

\* Offset of sourceend.
SourceEnd == IF Len(source) > Len(target) THEN Len(target) ELSE Len(source)

-----------------------------------------------------------------------------
\* The macro write: the buffer of size is doubled whenever n bytes fill it.

GrowLate(n, size) ==                    \* mutant: grown one byte too late
    LET grow[b \in Nat] == IF n <= b THEN b ELSE grow[2 * b] IN grow[size]

Grow(n, size) ==
    LET grow[b \in Nat] == IF n < b THEN b ELSE grow[2 * b] IN grow[size]

\* The file has the four bytes of the magic before the body.
Place(body) == Len(body) + 4

\* Continues with the buffer that body needs.  If it has to grow reallocImpl
\* may fail, which frees it and ends the call.
WriteOrFail(body, next) ==
    \/ /\ outbuflen' = Grow(Place(body), outbuflen)
       /\ written' = body
       /\ cpc' = next
       /\ UNCHANGED <<held, verdict>>
    \/ /\ Grow(Place(body), outbuflen) # outbuflen
       /\ held' = FALSE /\ verdict' = "bps_out_of_mem"
       /\ cpc' = "done"
       /\ UNCHANGED <<outbuflen, written>>

-----------------------------------------------------------------------------
\* The call up to its loop.

SizeLimit == (SizeMax \div 4) - 16

bps_create_linear(s, t, m) ==
    /\ cpc = "idle"
    /\ source' = s /\ target' = t /\ metadata' = m
    /\ IF Len(s) >= SizeLimit \/ Len(t) >= SizeLimit
       THEN verdict' = "bps_too_big" /\ cpc' = "done"
       ELSE verdict' = verdict /\ cpc' = "malloc"
    /\ UNCHANGED <<at, lastknownchange, targetcopypos, written, outbuflen, held, created>>

NoMemory ==
    /\ cpc = "malloc"
    /\ verdict' = "bps_out_of_mem" /\ cpc' = "done"
    /\ UNCHANGED <<files, at, lastknownchange, targetcopypos, written, outbuflen, held, created>>

AllocateBuffer ==
    /\ cpc = "malloc"
    /\ outbuflen' = FirstBuffer /\ held' = TRUE
    /\ cpc' = "header"
    /\ UNCHANGED <<files, at, lastknownchange, targetcopypos, written, created, verdict>>

Header == writenum[Len(source)] \o writenum[Len(target)] \o writenum[Len(metadata)] \o metadata

WriteHeader ==
    /\ cpc = "header"
    /\ WriteOrFail(Header, "loop")
    /\ UNCHANGED <<files, at, lastknownchange, targetcopypos, created>>

-----------------------------------------------------------------------------
\* A turn of the loop: what the files share, what is new in the target, and a
\* run in the target.

\* numunchanged.
Unchanged ==
    Min({n \in 0..Len(target) : at + n >= SourceEnd \/ S(at + n) # T(at + n)})

\* One byte alone is not worth a command unless it is the last.
WorthReading(n) == n > 1 \/ n = Len(target) - at

MatchSource ==
    /\ cpc = "loop" /\ at < Len(target)
    /\ IF WorthReading(Unchanged)
       THEN /\ WriteOrFail(written \o writenum[(Unchanged - 1) * 4 + SourceRead], "changed")
            /\ at' = at + Unchanged
       ELSE /\ cpc' = "changed"
            /\ UNCHANGED <<at, written, outbuflen, held, verdict>>
    /\ UNCHANGED <<files, lastknownchange, targetcopypos, created>>

DiffersAlone(i) == i >= SourceEnd \/ S(i) # T(i)    \* mutant: one equal byte ends a change

Differs(i) ==
    i >= SourceEnd \/ S(i) # T(i) \/ S(i + 1) # T(i + 1) \/ S(i + 2) # T(i + 2)

\* numchanged: up to three bytes that agree again, or the end.
Changed ==
    LET known == IF lastknownchange > at THEN lastknownchange - at ELSE 0
    IN  Min({n \in known..Len(target) : at + n >= Len(target) \/ ~Differs(at + n)})

\* Five bytes that repeat the one, or the two, before offset i.
OneByteRun(i) == \A j \in -1..2 : T(i + j) = T(i + j + 1)
TwoByteRun(i) == \A j \in -2..2 : T(i + j) = T(i + j + 2)

\* How many of the changed bytes come before a run that TargetCopy can repeat.
Literal(changed) ==
    LET first == IF at = 0 THEN 1 ELSE 0
        last == IF changed - 3 > first THEN changed - 3 ELSE first
        runs == {n \in first..last : OneByteRun(at + n) \/ TwoByteRun(at + n)}
    IN  IF runs = {} THEN changed ELSE Min(runs)

ChangeAfterWrite ==                     \* mutant: counted from where the literal ends
    /\ cpc = "changed" /\ Changed > 0
    /\ \E n \in {Literal(Changed)} :
        /\ WriteOrFail(
                IF n = 0 THEN written
                ELSE written \o writenum[(n - 1) * 4 + TargetRead] \o [i \in 1..n |-> T(at + i - 1)],
                "run")
        /\ at' = at + n
        /\ lastknownchange' = at + n + Changed
    /\ UNCHANGED <<files, targetcopypos, created>>

NothingChanged ==
    /\ cpc = "changed" /\ Changed = 0
    /\ lastknownchange' = at
    /\ cpc' = "loop"
    /\ UNCHANGED <<files, at, targetcopypos, written, outbuflen, held, created, verdict>>

WriteLiteral ==
    /\ cpc = "changed" /\ Changed > 0
    /\ lastknownchange' = at + Changed
    /\ \E n \in {Literal(Changed)} :
        /\ WriteOrFail(
                IF n = 0 THEN written
                ELSE written \o writenum[(n - 1) * 4 + TargetRead] \o [i \in 1..n |-> T(at + i - 1)],
                "run")
        /\ at' = at + n
    /\ UNCHANGED <<files, targetcopypos, created>>

PeriodEager ==                          \* mutant: the byte before is not compared
    IF T(at - 2) = T(at) /\ T(at) = T(at + 2) THEN 2
    ELSE IF T(at - 1) = T(at) /\ T(at) = T(at + 1) THEN 1 ELSE 0

\* The period of the run that begins here, 0 if none does.
Period ==
    IF T(at - 2) = T(at) /\ T(at - 1) = T(at + 1) /\ T(at) = T(at + 2) THEN 2
    ELSE IF T(at - 1) = T(at) /\ T(at) = T(at + 1) THEN 1 ELSE 0

\* rlelen.
RunLength(period) ==
    Min({n \in 0..(Len(target) + 2) :
            /\ n % period = 0
            /\ \/ at + n >= Len(target)
               \/ \E j \in 0..(period - 1) : T(at + j) # T(at + n + j)})

NoRun ==
    /\ cpc = "run" /\ Period = 0
    /\ cpc' = "loop"
    /\ UNCHANGED <<files, at, lastknownchange, targetcopypos, written, outbuflen, held,
                   created, verdict>>

CopyRun ==
    /\ cpc = "run" /\ Period > 0
    /\ \E n \in {RunLength(Period)} :
        /\ WriteOrFail(written \o writenum[Wrap((n - 1) * 4 + TargetCopy)]
                               \o writenum[Wrap((at - targetcopypos - Period) * 2)],
                       "loop")
        /\ at' = at + n
        /\ targetcopypos' = at + n - Period
    /\ UNCHANGED <<files, lastknownchange, created>>

-----------------------------------------------------------------------------
\* After the loop.

IdenticalByLast(body) == Stops(body[Len(body)])     \* mutant: the other bytes are not read

\* A patch is called identical if its first command is one number and no more.
IsIdentical(body) ==
    LET main == Len(Header) + 1
    IN  /\ main <= Len(body)
        /\ Stops(body[Len(body)])
        /\ \A i \in main..(Len(body) - 1) : ~Stops(body[i])

Seal ==
    /\ cpc = "loop" /\ at >= Len(target)
    /\ \/ /\ Grow(Place(written) + 12, outbuflen) # outbuflen
          /\ held' = FALSE /\ verdict' = "bps_out_of_mem"
          /\ UNCHANGED <<outbuflen, created>>
       \/ /\ outbuflen' = Grow(Place(written) + 12, outbuflen)
          /\ created' = Sealed(written, Crc(source), Crc(target))
          /\ verdict' = IF IsIdentical(written) THEN "bps_identical" ELSE "bps_ok"
          /\ UNCHANGED held
    /\ cpc' = "done"
    /\ UNCHANGED <<files, at, lastknownchange, targetcopypos, written>>

CreateStep ==
    \/ NoMemory \/ AllocateBuffer \/ WriteHeader \/ MatchSource \/ NothingChanged
    \/ WriteLiteral \/ NoRun \/ CopyRun \/ Seal
=============================================================================
