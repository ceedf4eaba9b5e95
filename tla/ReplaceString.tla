---------------------------- MODULE ReplaceString ----------------------------
(***************************************************************************)
(* replaceStringImpl_ of src/sead/prim/seadSafeString.cpp, one action per  *)
(* round of a loop.  Memory is numbered from the buffer's first character  *)
(* on; around the buffer lies a character the code knows nothing of.       *)
(***************************************************************************)
EXTENDS Integers, SequencesExt

CONSTANTS
    Chars, Nul,         \* characters, and the one that ends a string
    Texts,              \* what is searched: sequences of characters
    Olds, News,         \* what is looked for, and what it is replaced by
    Sizes               \* dst_size, numbers from 1

ASSUME NulAssumption == Nul \notin Chars
ASSUME StringsAssumption ==
    Texts \subseteq Seq(Chars) /\ Olds \subseteq Seq(Chars) /\ News \subseteq Seq(Chars)
ASSUME SizesAssumption == Sizes \subseteq Nat \ {0}

VARIABLES
    call,               \* the arguments: text, old_str, new_str, dst_size, in_place, around
    mem,                \* the memory of dst
    s, d,               \* the cursors src_i and dst_i, target_i and buffer_i
    ret, length, is_buffer_overflow,
    pc

args == <<call>>
results == <<ret, length, is_buffer_overflow>>
vars == <<call, mem, s, d, results, pc>>

Unset == -1             \* length is not assigned

TextLen == Len(call.text)           \* src_size
OldLen == Len(call.old_str)
NewLen == Len(call.new_str)
MaxIdx == call.dst_size - 1         \* dst_max_idx

\* Memory around the buffer that a call can reach.
Reach(c) == Len(c.text) + Len(c.old_str) + Len(c.new_str)
Around(c) == [i \in -Reach(c) .. c.dst_size + Reach(c) |-> c.around]

Write(m, at, chars) ==
    [i \in DOMAIN m |-> IF i \in at .. at + Len(chars) - 1 THEN chars[i - at + 1] ELSE m[i]]

Calls ==
    {c \in [text : Texts, old_str : Olds, new_str : News, dst_size : Sizes,
            in_place : BOOLEAN, around : Chars \cup {Nul}] :
        c.in_place => Len(c.text) < c.dst_size}

Init ==
    /\ call \in Calls
    /\ mem = IF call.in_place THEN Write(Around(call), 0, call.text \o <<Nul>>) ELSE Around(call)
    /\ s = 0 /\ d = 0 /\ ret = 0 /\ length = Unset /\ is_buffer_overflow = FALSE
    /\ pc = "start"

\* The memory of src.
Src == IF call.in_place THEN mem ELSE Write(Around(call), 0, call.text \o <<Nul>>)

\* MemUtil::compare(&m[at], old_cstr, old_str_len) == 0
Matches(m, at) == \A i \in 1..OldLen : m[at + i - 1] = call.old_str[i]

Least(a, b) == IF a < b THEN a ELSE b

Goes(label) == pc' = label
Ends(len) == length' = len /\ Goes("done")

\* The string is cut at the end of the buffer.
CutShort == mem' = Write(mem, MaxIdx, <<Nul>>) /\ is_buffer_overflow' = TRUE /\ Ends(MaxIdx)

-----------------------------------------------------------------------------
\* Nothing is looked for: dst becomes a copy of src.

CopyAll ==
    /\ pc = "start" /\ OldLen = 0
    /\ IF call.in_place
       THEN Goes("done") /\ UNCHANGED <<mem, length, is_buffer_overflow>>
       ELSE /\ is_buffer_overflow' = (TextLen >= call.dst_size)
            /\ mem' = Write(mem, 0, SubSeq(call.text, 1, Least(TextLen, MaxIdx)) \o <<Nul>>)
            /\ Ends(Least(TextLen, MaxIdx))
    /\ UNCHANGED <<args, s, d, ret>>

-----------------------------------------------------------------------------
\* In place, with a longer string: measured from the left, done from the right.

Grows == OldLen # 0 /\ call.in_place /\ OldLen < NewLen

Branch ==
    /\ pc = "start" /\ OldLen # 0
    /\ Goes(IF Grows THEN "measure" ELSE "replace")
    /\ UNCHANGED <<args, mem, s, d, results>>

Measure ==
    /\ pc = "measure" /\ s < TextLen /\ ~is_buffer_overflow
    /\ s' = s + (IF Matches(mem, s) THEN OldLen ELSE 1)
    /\ d' = d + (IF Matches(mem, s) THEN NewLen ELSE 1)
    /\ is_buffer_overflow' = (d' >= call.dst_size)
    /\ UNCHANGED <<args, mem, ret, length, pc>>

Terminate ==
    LET end == IF is_buffer_overflow THEN MaxIdx ELSE d
    IN  /\ pc = "measure" /\ (s >= TextLen \/ is_buffer_overflow)
        /\ mem' = Write(mem, end, <<Nul>>)
        /\ length' = end
        /\ s' = s - 1 /\ d' = d - 1
        /\ Goes("grow")
        /\ UNCHANGED <<args, ret, is_buffer_overflow>>

FoundBefore == Matches(mem, s + 1 - OldLen)

GrowNew ==
    LET copy_size == Least(NewLen, call.dst_size - 2 - d')
    IN  /\ pc = "grow" /\ s >= 0 /\ FoundBefore
        /\ d' = d - NewLen /\ s' = s - OldLen
        /\ mem' = Write(mem, d' + 1, SubSeq(call.new_str, 1, copy_size))
        /\ ret' = IF copy_size > 0 THEN ret + 1 ELSE ret
        /\ UNCHANGED <<args, length, is_buffer_overflow, pc>>

GrowCharEnds ==                             \* mutant: src_i <= 1 ends the loop
    /\ pc = "grow" /\ s >= 0 /\ ~FoundBefore
    /\ mem' = IF d < MaxIdx THEN Write(mem, d, <<mem[s]>>) ELSE mem
    /\ IF s < 2 THEN s' = s - 1 /\ d' = d - 1 /\ Goes("done") ELSE UNCHANGED <<s, d, pc>>
    /\ UNCHANGED <<args, results>>

\* Neither cursor moves unless src_i is 0.
GrowChar ==
    /\ pc = "grow" /\ s >= 0 /\ ~FoundBefore
    /\ mem' = IF d < MaxIdx THEN Write(mem, d, <<mem[s]>>) ELSE mem
    /\ IF s < 1 THEN s' = s - 1 /\ d' = d - 1 /\ Goes("done") ELSE UNCHANGED <<s, d, pc>>
    /\ UNCHANGED <<args, results>>

Grown ==
    /\ pc = "grow" /\ s < 0
    /\ Goes("done")
    /\ UNCHANGED <<args, mem, s, d, results>>

-----------------------------------------------------------------------------
\* From the left.

NotFoundYet == pc = "replace" /\ s < TextLen /\ ~Matches(Src, s)
Found == pc = "replace" /\ s < TextLen /\ Matches(Src, s)

CopyChar ==
    /\ NotFoundYet /\ d < MaxIdx
    /\ mem' = Write(mem, d, <<Src[s]>>)
    /\ d' = d + 1 /\ s' = s + 1
    /\ UNCHANGED <<args, results, pc>>

NoRoomForChar ==
    /\ NotFoundYet /\ d >= MaxIdx
    /\ CutShort
    /\ UNCHANGED <<args, s, d, ret>>

NewFitsAnyway == NewLen <= call.dst_size - d        \* mutant: no room kept for the end
NewFits == NewLen <= MaxIdx - d

Counted == IF NewLen = 0 \/ MaxIdx > d THEN ret + 1 ELSE ret

CopyNewOnce ==                              \* mutant: goes on by one character
    /\ Found /\ NewFits
    /\ mem' = Write(mem, d, call.new_str)
    /\ d' = d + NewLen /\ s' = s + 1
    /\ ret' = Counted
    /\ UNCHANGED <<args, length, is_buffer_overflow, pc>>

CopyNew ==
    /\ Found /\ NewFits
    /\ mem' = Write(mem, d, call.new_str)
    /\ d' = d + NewLen /\ s' = s + OldLen
    /\ ret' = Counted
    /\ UNCHANGED <<args, length, is_buffer_overflow, pc>>

\* As much of new_str as there is room for, then the end.
NoRoomForNew ==
    /\ Found /\ ~NewFits
    /\ mem' = Write(mem, d, SubSeq(call.new_str, 1, MaxIdx - d) \o <<Nul>>)
    /\ is_buffer_overflow' = TRUE /\ Ends(MaxIdx)
    /\ ret' = Counted
    /\ UNCHANGED <<args, s, d>>

ReplacedAll ==
    /\ pc = "replace" /\ s >= TextLen
    /\ mem' = Write(mem, d, <<Nul>>)
    /\ Ends(d)
    /\ UNCHANGED <<args, s, d, ret, is_buffer_overflow>>

-----------------------------------------------------------------------------
Step ==
    \/ CopyAll \/ Branch \/ Measure \/ Terminate \/ GrowNew \/ GrowChar \/ Grown
    \/ CopyChar \/ NoRoomForChar \/ CopyNew \/ NoRoomForNew \/ ReplacedAll

Done == pc = "done" /\ UNCHANGED vars

Next == Step \/ Done

\* The call runs.
Spec == Init /\ [][Next]_vars /\ WF_vars(Step)

-----------------------------------------------------------------------------
\* Properties, against definitions that know nothing of the buffer.

\* Where the occurrences of old_str in a text begin, found one after the other
\* from the left.
Occurrences(text) ==
    LET at(i) == OldLen > 0 /\ IsPrefix(call.old_str, SubSeq(text, i, Len(text)))
        from[i \in 1 .. Len(text) + 1] ==
            IF i > Len(text) THEN {}
            ELSE IF at(i) THEN {i} \cup from[i + OldLen] ELSE from[i + 1]
    IN  from[1]

\* The text with each of them replaced.
Replaced(text) ==
    LET occurrences == Occurrences(text)
        inside(i) == \E o \in occurrences : o < i /\ i < o + OldLen
    IN  FlattenSeq([i \in 1..Len(text) |->
            IF i \in occurrences THEN call.new_str ELSE IF inside(i) THEN <<>> ELSE <<text[i]>>])

\* Of these, the ones of which something is left in the buffer.
Kept(text) ==
    LET begin(o) == Len(Replaced(SubSeq(text, 1, o - 1)))
    IN  {o \in Occurrences(text) : begin(o) < MaxIdx \/ (NewLen = 0 /\ begin(o) = MaxIdx)}

StringIn(m) ==
    LET ends == {e \in 0..MaxIdx : m[e] = Nul /\ \A i \in 0 .. e - 1 : m[i] # Nul}
    IN  UNION {{[i \in 1..e |-> m[i - 1]]} : e \in ends}

\* No end of old_str is its beginning.
Borderless ==
    \A k \in 1 .. OldLen - 1 : SubSeq(call.old_str, 1, k) # SubSeq(call.old_str, OldLen - k + 1, OldLen)

\* Growing in place reads before the buffer (:124); what lies there is no part of
\* old_str.  A call for which this is false may go on below the first character and
\* write there, against its own assertions (:144-145).
NothingBefore == Grows => ~Contains(call.old_str, call.around)

\* A call that returns has replaced every old_str, found from the left, and cut
\* the result where the buffer ends; it says how long the result is, how many it
\* replaced and whether it cut, whether dst is src or not.  Growing in place
\* works from the right: two kinds of calls are excepted there, an old_str that
\* overlaps itself (Borderless) and a character of old_str that happens to lie
\* before the buffer (NothingBefore), with which the result may differ.
Replaces ==
    (pc = "done" /\ NothingBefore /\ (Grows => Borderless)) =>
        LET all == Replaced(call.text)
            cut == SubSeq(all, 1, Least(Len(all), MaxIdx))
        IN  /\ StringIn(mem) = {cut}
            /\ is_buffer_overflow = (Len(all) > MaxIdx)
            /\ ret = Cardinality(Kept(call.text))
            /\ length = IF call.in_place /\ OldLen = 0 THEN Unset ELSE Len(cut)

\* No character behind the dst_size characters of the buffer is written by any
\* call, in the middle of it either, and none before them unless a call that
\* grows the string in place finds a character of old_str there: that call may
\* take it for a part of an occurrence and write new_str over it (:124-131).
StaysInBuffer ==
    \A i \in DOMAIN mem \ (0..MaxIdx) : (i > MaxIdx \/ NothingBefore) => mem[i] = call.around

\* What the first loop of growing in place goes through: the text, or what of it
\* is enough to fill the buffer.
Measured ==
    LET text == call.text
        apart(k) == \A o \in Occurrences(text) : k < o \/ o + OldLen - 1 <= k
        full == {k \in 1..Len(text) :
                    apart(k) /\ Len(Replaced(SubSeq(text, 1, k))) >= call.dst_size}
    IN  SubSeq(text, 1, IF full = {} THEN Len(text) ELSE Min(full))

\* One character or none, and after it nothing but old_str.
OneThenOnlyOld(text) ==
    \E n \in 0..1, k \in 0..Len(text) :
        text = SubSeq(text, 1, n) \o FlattenSeq([i \in 1..k |-> call.old_str])

Returning == Grows => OneThenOnlyOld(Measured)

\* A call returns, but for growing in place: that returns exactly when nothing
\* but old_str follows the first character, and otherwise copies one character
\* onto the same place forever (line 134 leaves src_i and dst_i alone).
Returns ==
    /\ (pc = "start" /\ NothingBefore /\ Returning) ~> pc = "done"
    /\ [](pc = "done" /\ NothingBefore => Returning)
=============================================================================
