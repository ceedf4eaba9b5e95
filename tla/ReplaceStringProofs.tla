------------------------- MODULE ReplaceStringProofs -------------------------
(***************************************************************************)
(* Theorems about replaceStringImpl_, for all strings and sizes of         *)
(* buffers: what a call leaves in the buffer, returns and says of itself,  *)
(* and where it writes nothing beside the buffer.  The reference that the  *)
(* properties speak of is recursive; here are its equations first, then    *)
(* what the search for occurrences looks at, then each of the two loops.   *)
(***************************************************************************)
EXTENDS ReplaceString, RecursionLemmas, FiniteSetTheorems, SequenceTheorems, TLAPS

Outside == DOMAIN mem \ (0..MaxIdx)

\* The strengthening of StaysInBuffer: the target's cursor leaves room for the
\* end of the string, at each place of the call.  A call that grows the string in
\* place, whatever lies before it, knows in its first loop whether its cursor has
\* left the buffer, and in its second writes nothing from the end on.
NothingBehind == \A i \in DOMAIN mem : i > MaxIdx => mem[i] = call.around

LeftInv ==
    /\ call \in Calls
    /\ DOMAIN mem \subseteq Int
    /\ Grows =>
        /\ pc \in {"start", "measure", "grow", "done"}
        /\ d \in Int
        /\ pc \in {"start", "measure"} => d >= 0 /\ is_buffer_overflow = (d > MaxIdx)
        /\ NothingBehind
    /\ ~Grows =>
        /\ pc \in {"start", "replace", "done"}
        /\ d \in 0..MaxIdx
        /\ \A i \in Outside : mem[i] = call.around

-----------------------------------------------------------------------------
\* The shape of a call's arguments.
LEMMA CallIs ==
    ASSUME NEW c \in Calls
    PROVE  /\ c.text \in Seq(Chars) /\ c.old_str \in Seq(Chars) /\ c.new_str \in Seq(Chars)
           /\ c.dst_size \in Nat /\ c.dst_size > 0
           /\ c.in_place => Len(c.text) < c.dst_size
<1>1. c.text \in Texts /\ c.old_str \in Olds /\ c.new_str \in News /\ c.dst_size \in Sizes
  BY DEF Calls
<1>2. c.in_place => Len(c.text) < c.dst_size
  BY DEF Calls
<1>3. c.text \in Seq(Chars) /\ c.old_str \in Seq(Chars) /\ c.new_str \in Seq(Chars)
  BY <1>1, StringsAssumption
<1>4. c.dst_size \in Nat \ {0}
  BY <1>1, SizesAssumption
<1>5. c.dst_size \in Nat /\ c.dst_size > 0
  BY <1>4
<1> QED
  BY <1>2, <1>3, <1>5

\* The memory around the buffer is longer than the text.
LEMMA ReachIs ==
    ASSUME NEW c \in Calls
    PROVE  Reach(c) \in Nat /\ Reach(c) >= Len(c.text)
<1>1. PICK k \in Nat, l \in Nat, n \in Nat :
        k = Len(c.text) /\ l = Len(c.old_str) /\ n = Len(c.new_str)
  BY CallIs
<1>2. Reach(c) = k + l + n
  BY <1>1 DEF Reach
<1>3. k + l + n \in Nat /\ k + l + n >= k
  OBVIOUS
<1> QED
  BY <1>1, <1>2, <1>3, Zenon

\* What is written between two places changes nothing outside them.
LEMMA WriteWithin ==
    ASSUME NEW m, DOMAIN m \subseteq Int, NEW at \in Nat, NEW max \in Nat, NEW chars,
           Len(chars) \in Nat, at + Len(chars) - 1 <= max
    PROVE  /\ DOMAIN Write(m, at, chars) = DOMAIN m
           /\ \A i \in DOMAIN m \ (0..max) : Write(m, at, chars)[i] = m[i]
BY DEF Write

\* What is written up to a place changes nothing behind it.
LEMMA WriteUpTo ==
    ASSUME NEW m, DOMAIN m \subseteq Int, NEW at \in Int, NEW max \in Nat, NEW chars,
           Len(chars) \in Nat, at + Len(chars) - 1 <= max
    PROVE  /\ DOMAIN Write(m, at, chars) = DOMAIN m
           /\ \A i \in DOMAIN m : i > max => Write(m, at, chars)[i] = m[i]
BY DEF Write

\* The start of a string and its end.
LEMMA CutLength ==
    ASSUME NEW text \in Seq(Chars), NEW n \in 0..Len(text)
    PROVE  Len(SubSeq(text, 1, n) \o <<Nul>>) = n + 1
<1>1. SubSeq(text, 1, n) \in Seq(Chars \cup {Nul}) /\ Len(SubSeq(text, 1, n)) = n
  OBVIOUS
<1>2. <<Nul>> \in Seq(Chars \cup {Nul}) /\ Len(<<Nul>>) = 1
  OBVIOUS
<1> QED
  BY <1>1, <1>2

\* A call begins with nothing written outside the buffer.
LEMMA InitOutside ==
    Init => DOMAIN mem \subseteq Int /\ \A i \in Outside : mem[i] = call.around
<1> SUFFICES ASSUME Init
             PROVE  DOMAIN mem \subseteq Int /\ \A i \in Outside : mem[i] = call.around
  OBVIOUS
<1>1. call \in Calls
  BY DEF Init
<1>2. MaxIdx \in Nat
  BY <1>1, CallIs DEF MaxIdx
<1>3. /\ DOMAIN Around(call) \subseteq Int
      /\ \A i \in DOMAIN Around(call) : Around(call)[i] = call.around
  <2>1. PICK r \in Nat, z \in Nat : r = Reach(call) /\ z = call.dst_size
    BY <1>1, ReachIs, CallIs
  <2> QED
    BY <2>1 DEF Around
<1>4. CASE call.in_place
  <2>1. call.text \o <<Nul>> \in Seq(Chars \cup {Nul})
        /\ Len(call.text \o <<Nul>>) = Len(call.text) + 1
    <3>1. call.text \in Seq(Chars \cup {Nul}) /\ <<Nul>> \in Seq(Chars \cup {Nul})
      BY <1>1, CallIs
    <3> QED
      BY <3>1
  <2> DEFINE chars == call.text \o <<Nul>>
             m == Around(call)
  <2>2. Len(chars) \in Nat /\ 0 + Len(chars) - 1 <= MaxIdx
    BY <1>1, <1>4, <2>1, CallIs DEF MaxIdx
  <2>3. mem = Write(m, 0, chars) /\ DOMAIN m \subseteq Int /\ 0 \in Nat
    BY <1>3, <1>4 DEF Init
  <2> HIDE DEF chars, m
  <2>4. DOMAIN mem = DOMAIN m /\ \A i \in DOMAIN m \ (0..MaxIdx) : mem[i] = m[i]
    BY <1>2, <2>2, <2>3, WriteWithin
  <2> USE DEF m
  <2>5. /\ DOMAIN mem = DOMAIN Around(call)
        /\ \A i \in DOMAIN Around(call) \ (0..MaxIdx) : mem[i] = Around(call)[i]
    BY <2>4
  <2> QED
    BY <1>1, <1>2, <1>3, <2>5 DEF Outside
<1>5. CASE ~call.in_place
  <2>1. mem = Around(call)
    BY <1>5 DEF Init
  <2> QED
    BY <1>1, <1>2, <1>3, <2>1 DEF Outside
<1> QED
  BY <1>4, <1>5

\* What StaysInBuffer needs when nothing grows, at the beginning and in every step.
LEMMA LeftInit == Init => LeftInv
<1> SUFFICES ASSUME Init PROVE LeftInv
  OBVIOUS
<1>1. call \in Calls /\ pc = "start" /\ d = 0 /\ is_buffer_overflow = FALSE
  BY DEF Init
<1>2. MaxIdx \in Nat
  BY <1>1, CallIs DEF MaxIdx
<1>3. NothingBehind
  BY <1>2, InitOutside DEF NothingBehind, Outside
<1>4. d \in 0..MaxIdx /\ d \in Int /\ d >= 0 /\ ~(d > MaxIdx)
  BY <1>1, <1>2
<1>5. is_buffer_overflow = (d > MaxIdx)
  <2>1. (d > MaxIdx) = FALSE
    BY <1>4
  <2> QED
    BY <1>1, <2>1
<1>6. DOMAIN mem \subseteq Int /\ \A i \in Outside : mem[i] = call.around
  BY InitOutside
<1> QED
  BY <1>1, <1>3, <1>4, <1>5, <1>6 DEF LeftInv

\* A step of a call that grows a string, which writes up to the end of the buffer.
LEMMA GrowingKeeps ==
    ASSUME LeftInv, Grows, UNCHANGED call, pc' \in {"measure", "grow", "done"}, d' \in Int,
           pc' = "measure" => d' >= 0 /\ is_buffer_overflow' = (d' > MaxIdx),
           \/ mem' = mem
           \/ \E at \in Int : \E chars :
                 /\ Len(chars) \in Nat /\ at + Len(chars) - 1 <= MaxIdx
                 /\ mem' = Write(mem, at, chars)
    PROVE  LeftInv'
<1>1. MaxIdx \in Nat /\ MaxIdx' = MaxIdx /\ (Grows' <=> Grows)
  BY CallIs DEF LeftInv, MaxIdx, Grows, OldLen, NewLen
<1>2. DOMAIN mem' = DOMAIN mem /\ \A i \in DOMAIN mem : i > MaxIdx => mem'[i] = mem[i]
  BY <1>1, WriteUpTo DEF LeftInv
<1>3. NothingBehind'
  BY <1>1, <1>2 DEF LeftInv, NothingBehind
<1> QED
  BY <1>1, <1>2, <1>3 DEF LeftInv

\* Both loops of growing in place keep to the buffer's end.
LEMMA GrowingNext == LeftInv /\ Grows /\ [Next]_vars => LeftInv'
<1> SUFFICES ASSUME LeftInv, Grows, [Next]_vars PROVE LeftInv'
  OBVIOUS
<1>1. /\ call \in Calls /\ MaxIdx \in Nat /\ NewLen \in Nat /\ OldLen \in Nat
      /\ call.new_str \in Seq(Chars) /\ Len(call.new_str) = NewLen
      /\ call.dst_size \in Nat /\ MaxIdx = call.dst_size - 1
      /\ OldLen # 0 /\ call.in_place
  BY CallIs DEF LeftInv, MaxIdx, NewLen, OldLen, Grows
<1>2. /\ pc \in {"start", "measure", "grow", "done"} /\ d \in Int
      /\ pc \in {"start", "measure"} => d >= 0 /\ is_buffer_overflow = (d > MaxIdx)
  BY DEF LeftInv
<1>3. CASE Branch
  BY <1>1, <1>2, <1>3, GrowingKeeps DEF Branch, Goes, args, results
<1>4. CASE Measure
  <2>1. PICK k \in Nat : d' = d + k
    BY <1>1, <1>4 DEF Measure
  <2>2. d' \in Int /\ d' >= 0 /\ is_buffer_overflow' = (d' > MaxIdx) /\ pc' = "measure"
    BY <1>1, <1>2, <1>4, <2>1 DEF Measure
  <2> QED
    BY <1>4, <2>2, GrowingKeeps DEF Measure, args
<1>5. CASE Terminate
  <2> DEFINE end == IF is_buffer_overflow THEN MaxIdx ELSE d
             chars == <<Nul>>
  <2>1. mem' = Write(mem, end, chars) /\ d' = d - 1 /\ pc' = "grow" /\ pc = "measure"
    BY <1>5 DEF Terminate, Goes
  <2>2. end \in Int /\ end <= MaxIdx
    <3>1. CASE is_buffer_overflow
      BY <1>1, <3>1
    <3>2. CASE ~is_buffer_overflow
      <4>1. ~(d > MaxIdx)
        BY <1>2, <2>1, <3>2
      <4> QED
        BY <1>1, <1>2, <3>2, <4>1
    <3> QED
      BY <3>1, <3>2
  <2>3. Len(chars) = 1
    OBVIOUS
  <2> HIDE DEF end, chars
  <2>4. Len(chars) \in Nat /\ end + Len(chars) - 1 <= MaxIdx
    BY <1>1, <2>2, <2>3
  <2> QED
    BY <1>2, <1>5, <2>1, <2>2, <2>4, GrowingKeeps DEF Terminate, args
<1>6. CASE GrowNew
  <2> DEFINE n == Least(NewLen, call.dst_size - 2 - d')
             chars == SubSeq(call.new_str, 1, n)
             at == d' + 1
  <2>1. mem' = Write(mem, at, chars) /\ d' = d - NewLen /\ pc' = "grow"
    BY <1>6 DEF GrowNew
  <2>2. d' \in Int /\ at \in Int
    BY <1>1, <1>2, <2>1
  <2>3. n \in Int /\ n <= NewLen /\ n <= call.dst_size - 2 - d'
    BY <1>1, <2>2 DEF Least
  <2>4. Len(chars) = IF n >= 1 THEN n ELSE 0
    <3> HIDE DEF n
    <3> QED
      BY <1>1, <2>3
  <2> HIDE DEF n, chars
  <2>5. CASE n >= 1
    <3>1. Len(chars) \in Nat /\ at + Len(chars) - 1 <= MaxIdx
      BY <1>1, <2>2, <2>3, <2>4, <2>5
    <3> HIDE DEF at
    <3> QED
      BY <1>6, <2>1, <2>2, <3>1, GrowingKeeps DEF GrowNew, args
  <2>6. CASE ~(n >= 1)
    <3>1. \A i \in Int : ~(i \in at .. at + Len(chars) - 1)
      <4>1. Len(chars) = 0
        BY <2>4, <2>6
      <4> HIDE DEF at
      <4> QED
        BY <2>2, <4>1
    <3>2. DOMAIN mem' = DOMAIN mem /\ \A i \in DOMAIN mem : mem'[i] = mem[i]
      BY <2>1, <3>1 DEF Write, LeftInv
    <3>3. NothingBehind' /\ call' = call
      BY <1>6, <3>2 DEF LeftInv, NothingBehind, GrowNew, args, MaxIdx
    <3> QED
      BY <2>1, <2>2, <3>2, <3>3 DEF LeftInv, Grows, OldLen, NewLen
  <2> QED
    BY <2>5, <2>6
<1>7. CASE GrowChar
  <2> DEFINE chars == <<mem[s]>>
  <2>1. /\ mem' = (IF d < MaxIdx THEN Write(mem, d, chars) ELSE mem)
        /\ d' = d - 1 \/ d' = d
        /\ pc' \in {"grow", "done"}
    BY <1>7 DEF GrowChar, Goes
  <2>2. Len(chars) = 1
    OBVIOUS
  <2> HIDE DEF chars
  <2>3. Len(chars) \in Nat /\ (d < MaxIdx => d + Len(chars) - 1 <= MaxIdx) /\ d' \in Int
    BY <1>1, <1>2, <2>1, <2>2
  <2> QED
    BY <1>2, <1>7, <2>1, <2>3, GrowingKeeps DEF GrowChar, args
<1>8. CASE Grown
  BY <1>2, <1>8, GrowingKeeps DEF Grown, Goes, args
<1>9. CASE UNCHANGED vars
  BY <1>9 DEF vars, LeftInv, NothingBehind, MaxIdx, Grows, OldLen, NewLen, results
<1>10. ~(CopyAll \/ CopyChar \/ NoRoomForChar \/ CopyNew \/ NoRoomForNew \/ ReplacedAll)
  BY <1>1, <1>2 DEF CopyAll, CopyChar, NoRoomForChar, CopyNew, NoRoomForNew, ReplacedAll,
                    NotFoundYet, Found
<1> QED
  BY <1>3, <1>4, <1>5, <1>6, <1>7, <1>8, <1>9, <1>10 DEF Next, Step, Done

-----------------------------------------------------------------------------
\* A step that writes within the buffer and leaves the cursor in it.
LEMMA WritingKeeps ==
    ASSUME LeftInv, ~Grows, UNCHANGED call,
           NEW at \in Nat, NEW chars, Len(chars) \in Nat, at + Len(chars) - 1 <= MaxIdx,
           mem' = Write(mem, at, chars) \/ mem' = mem,
           pc' \in {"replace", "done"}, d' \in 0..MaxIdx
    PROVE  LeftInv'
<1>1. MaxIdx \in Nat /\ MaxIdx' = MaxIdx /\ (Grows' <=> Grows)
  BY CallIs DEF LeftInv, MaxIdx, Grows, OldLen, NewLen
<1>2. DOMAIN mem' = DOMAIN mem /\ \A i \in DOMAIN mem \ (0..MaxIdx) : mem'[i] = mem[i]
  <2>1. DOMAIN mem \subseteq Int
    BY DEF LeftInv
  <2>2. CASE mem' = Write(mem, at, chars)
    <3>1. MaxIdx \in Nat
      BY <1>1
    <3> QED
      BY <2>1, <2>2, <3>1, WriteWithin
  <2>3. CASE mem' = mem
    BY <2>3
  <2> QED
    BY <2>2, <2>3
<1>3. ~Grows'
  BY <1>1
<1>4. DOMAIN mem' \subseteq Int /\ \A i \in Outside' : mem'[i] = call'.around
  BY <1>1, <1>2 DEF LeftInv, Outside
<1> QED
  BY <1>1, <1>3, <1>4 DEF LeftInv

LEMMA LeftNext == LeftInv /\ [Next]_vars => LeftInv'
<1> SUFFICES ASSUME LeftInv, [Next]_vars PROVE LeftInv'
  OBVIOUS
<1>1. /\ call \in Calls /\ MaxIdx \in Nat /\ TextLen \in Nat /\ NewLen \in Nat /\ OldLen \in Nat
      /\ call.text \in Seq(Chars) /\ call.new_str \in Seq(Chars)
  BY CallIs DEF LeftInv, MaxIdx, TextLen, NewLen, OldLen
<1>2. call' = call
  BY DEF Next, Step, Done, vars, args, CopyAll, Branch, Measure, Terminate, GrowNew, GrowChar,
         Grown, CopyChar, NoRoomForChar, CopyNew, NoRoomForNew, ReplacedAll
<1>3. MaxIdx' = MaxIdx /\ (Grows' <=> Grows)
  BY <1>2 DEF MaxIdx, Grows, OldLen, NewLen
<1>4. CASE Grows
  BY <1>4, GrowingNext
<1>5. CASE ~Grows
  <2>1. pc \in {"start", "replace", "done"} /\ d \in 0..MaxIdx
    BY <1>5 DEF LeftInv
  <2>2. CASE CopyAll
    <3>1. CASE call.in_place
      BY <1>1, <1>2, <1>3, <1>5, <2>2, <3>1 DEF CopyAll, LeftInv, Outside, Goes
    <3>2. CASE ~call.in_place
      <4> DEFINE n == Least(TextLen, MaxIdx)
                 chars == SubSeq(call.text, 1, n) \o <<Nul>>
      <4>1. n \in 0..Len(call.text) /\ n <= MaxIdx
        BY <1>1 DEF Least, TextLen
      <4>2. Len(chars) = n + 1
        BY <1>1, <4>1, CutLength
      <4>3. mem' = Write(mem, 0, chars) /\ pc' = "done" /\ d' = d
        BY <2>2, <3>2 DEF CopyAll, Ends, Goes
      <4>4. Len(chars) \in Nat /\ 0 + Len(chars) - 1 <= MaxIdx
        BY <4>1, <4>2, <1>1
      <4> HIDE DEF chars, n
      <4> QED
        BY <1>2, <1>5, <2>1, <4>3, <4>4, WritingKeeps
    <3> QED
      BY <3>1, <3>2
  <2>3. CASE Branch
    BY <1>1, <1>2, <1>3, <1>5, <2>1, <2>3 DEF Branch, LeftInv, Outside, Goes
  <2>4. CASE CopyChar
    <3> DEFINE chars == <<Src[s]>>
    <3>1. mem' = Write(mem, d, chars) /\ d' = d + 1 /\ d < MaxIdx /\ pc' = "replace"
      BY <2>4 DEF CopyChar, NotFoundYet
    <3>2. Len(chars) = 1
      OBVIOUS
    <3> HIDE DEF chars
    <3>3. Len(chars) \in Nat /\ d + Len(chars) - 1 <= MaxIdx /\ d \in Nat /\ d' \in 0..MaxIdx
      BY <1>1, <2>1, <3>1, <3>2
    <3> QED
      BY <1>2, <1>5, <3>1, <3>3, WritingKeeps
  <2>5. CASE NoRoomForChar
    <3> DEFINE chars == <<Nul>>
    <3>1. mem' = Write(mem, MaxIdx, chars) /\ d' = d /\ pc' = "done"
      BY <2>5 DEF NoRoomForChar, CutShort, Ends, Goes
    <3>2. Len(chars) = 1
      OBVIOUS
    <3> HIDE DEF chars
    <3>3. /\ Len(chars) \in Nat /\ MaxIdx + Len(chars) - 1 <= MaxIdx
          /\ MaxIdx \in Nat /\ d' \in 0..MaxIdx
      BY <1>1, <2>1, <3>1, <3>2
    <3> QED
      BY <1>2, <1>5, <3>1, <3>3, WritingKeeps
  <2>6. CASE CopyNew
    <3>1. mem' = Write(mem, d, call.new_str) /\ d' = d + NewLen /\ NewLen <= MaxIdx - d
          /\ pc' = "replace"
      BY <2>6 DEF CopyNew, Found, NewFits
    <3>2. Len(call.new_str) = NewLen
      BY DEF NewLen
    <3> QED
      BY <1>1, <1>2, <1>5, <2>1, <3>1, <3>2, WritingKeeps
  <2>7. CASE NoRoomForNew
    <3> DEFINE n == MaxIdx - d
               chars == SubSeq(call.new_str, 1, n) \o <<Nul>>
    <3>1. mem' = Write(mem, d, chars) /\ d' = d /\ pc' = "done" /\ ~(NewLen <= n)
      BY <2>7 DEF NoRoomForNew, NewFits, Ends, Goes
    <3>2. n \in 0..Len(call.new_str)
      BY <1>1, <2>1, <3>1 DEF NewLen
    <3>3. Len(chars) = n + 1
      BY <1>1, <3>2, CutLength
    <3>4. Len(chars) \in Nat /\ d + Len(chars) - 1 <= MaxIdx
      BY <1>1, <2>1, <3>2, <3>3
    <3> HIDE DEF chars, n
    <3> QED
      BY <1>1, <1>2, <1>5, <2>1, <3>1, <3>4, WritingKeeps
  <2>8. CASE ReplacedAll
    <3> DEFINE chars == <<Nul>>
    <3>1. mem' = Write(mem, d, chars) /\ d' = d /\ pc' = "done"
      BY <2>8 DEF ReplacedAll, Ends, Goes
    <3>2. Len(chars) = 1
      OBVIOUS
    <3> HIDE DEF chars
    <3>3. Len(chars) \in Nat /\ d + Len(chars) - 1 <= MaxIdx /\ d \in Nat /\ d' \in 0..MaxIdx
      BY <1>1, <2>1, <3>1, <3>2
    <3> QED
      BY <1>2, <1>5, <3>1, <3>3, WritingKeeps
  <2>9. CASE UNCHANGED vars
    BY <1>1, <1>2, <1>3, <1>5, <2>1, <2>9 DEF vars, LeftInv, Outside
  <2>10. ~(Measure \/ Terminate \/ GrowNew \/ GrowChar \/ Grown)
    BY <2>1 DEF Measure, Terminate, GrowNew, GrowChar, Grown
  <2> QED
    BY <2>2, <2>3, <2>4, <2>5, <2>6, <2>7, <2>8, <2>9, <2>10 DEF Next, Step, Done
<1> QED
  BY <1>4, <1>5

-----------------------------------------------------------------------------
\* The reference, for any text t, string o to look for and string w instead.

\* An occurrence of o in t at i.
Begins(t, o, i) == Len(o) > 0 /\ IsPrefix(o, SubSeq(t, i, Len(t)))

\* The occurrences from i on, one after the other from the left.
From(t, o) ==
    CHOOSE f : f = [i \in 1 .. Len(t) + 1 |->
                       IF i > Len(t) THEN {}
                       ELSE IF Begins(t, o, i) THEN {i} \cup f[i + Len(o)] ELSE f[i + 1]]

Occ(t, o) == From(t, o)[1]

\* What becomes of each character.
Piece(t, o, w, i) ==
    IF i \in Occ(t, o) THEN w
    ELSE IF \E x \in Occ(t, o) : x < i /\ i < x + Len(o) THEN <<>> ELSE <<t[i]>>

\* What an occurrence is, character by character.
LEMMA BeginsIs ==
    ASSUME NEW t \in Seq(Chars), NEW o \in Seq(Chars), NEW i \in 1..Len(t)
    PROVE  Begins(t, o, i) <=> /\ Len(o) > 0 /\ i + Len(o) - 1 <= Len(t)
                               /\ \A k \in 1..Len(o) : t[i + k - 1] = o[k]
<1> DEFINE u == SubSeq(t, i, Len(t))
<1>0. PICK l \in Nat, n \in Nat : l = Len(o) /\ n = Len(t)
  OBVIOUS
<1>1. /\ u \in Seq(Chars) /\ Len(u) = n - i + 1
      /\ \A k \in 1..Len(u) : u[k] = t[i + k - 1]
  BY <1>0
<1> HIDE DEF u
<1>2. CASE l <= Len(u)
  <2>1. /\ SubSeq(o, 1, l) \in Seq(Chars) /\ Len(SubSeq(o, 1, l)) = l
        /\ \A k \in 1..l : SubSeq(o, 1, l)[k] = o[k]
    BY <1>0
  <2>2. /\ SubSeq(u, 1, l) \in Seq(Chars) /\ Len(SubSeq(u, 1, l)) = l
        /\ \A k \in 1..l : SubSeq(u, 1, l)[k] = u[k]
    BY <1>0, <1>1, <1>2
  <2>3. SubSeq(o, 1, l) = SubSeq(u, 1, l) <=> \A k \in 1..l : o[k] = u[k]
    <3> DEFINE a == SubSeq(o, 1, l)
               b == SubSeq(u, 1, l)
    <3>1. a \in Seq(Chars) /\ b \in Seq(Chars) /\ Len(a) = l /\ Len(b) = l
      BY <2>1, <2>2
    <3>2. \A k \in 1..l : a[k] = o[k] /\ b[k] = u[k]
      BY <2>1, <2>2
    <3> HIDE DEF a, b
    <3>3. (\A k \in 1..l : a[k] = b[k]) => a = b
      BY <3>1
    <3>4. a = b <=> \A k \in 1..l : o[k] = u[k]
      BY <3>2, <3>3
    <3> QED
      BY <3>4 DEF a, b
  <2>4. \A k \in 1..l : u[k] = t[i + k - 1]
    BY <1>0, <1>1, <1>2
  <2>5. IsPrefix(o, u) <=> \A k \in 1..l : o[k] = t[i + k - 1]
    <3>1. IsPrefix(o, u) <=> SubSeq(o, 1, l) = SubSeq(u, 1, l)
      BY <1>0, <1>2 DEF IsPrefix
    <3> QED
      BY <2>3, <2>4, <3>1
  <2>6. i + l - 1 <= n
    BY <1>0, <1>1, <1>2
  <2> QED
    BY <1>0, <2>5, <2>6 DEF Begins, u
<1>3. CASE ~(l <= Len(u))
  <2>1. ~(i + l - 1 <= n) /\ ~IsPrefix(o, u)
    BY <1>0, <1>1, <1>3 DEF IsPrefix
  <2> QED
    BY <1>0, <2>1 DEF Begins, u
<1> QED
  BY <1>2, <1>3

\* Where an occurrence begins its characters follow.
LEMMA BeginsWithin ==
    ASSUME NEW t \in Seq(Chars), NEW o \in Seq(Chars), NEW i \in 1..Len(t), Begins(t, o, i)
    PROVE  Len(o) \in Nat /\ Len(o) > 0 /\ i + Len(o) \in 1..Len(t) + 1 /\ i + Len(o) > i
<1>1. Len(o) > 0 /\ i + Len(o) - 1 <= Len(t)
  BY BeginsIs
<1>2. PICK l \in Nat, n \in Nat : l = Len(o) /\ n = Len(t)
  OBVIOUS
<1>3. i + l \in 1..n + 1 /\ i + l > i /\ l > 0
  BY <1>1, <1>2
<1> QED
  BY <1>2, <1>3

FromRule(t, o, f, i) ==
    IF i > Len(t) THEN {}
    ELSE IF Begins(t, o, i) THEN {i} \cup f[i + Len(o)] ELSE f[i + 1]

\* The equation of From, and where what it finds lies.
LEMMA FromIs ==
    ASSUME NEW t \in Seq(Chars), NEW o \in Seq(Chars)
    PROVE  \A i \in 1 .. Len(t) + 1 :
              /\ From(t, o)[i] = FromRule(t, o, From(t, o), i)
              /\ From(t, o)[i] \subseteq i..Len(t)
<1> DEFINE D == 1..Len(t) + 1
           V == SUBSET Nat
           mu == [i \in D |-> Len(t) + 1 - i]
           Rule == [i \in D |-> [f \in [D -> V] |-> FromRule(t, o, f, i)]]
           Is(f) == f = [i \in D |->
                       IF i > Len(t) THEN {}
                       ELSE IF Begins(t, o, i) THEN {i} \cup f[i + Len(o)] ELSE f[i + 1]]
<1>0. Len(t) \in Nat
  OBVIOUS
<1>1. ASSUME NEW i \in D, i <= Len(t), NEW k, k = (IF Begins(t, o, i) THEN i + Len(o) ELSE i + 1)
      PROVE  k \in D /\ k > i
  <2>1. i \in 1..Len(t)
    BY <1>0, <1>1
  <2>2. CASE Begins(t, o, i)
    BY <1>1, <2>1, <2>2, BeginsWithin
  <2>3. CASE ~Begins(t, o, i)
    BY <1>0, <1>1, <2>1, <2>3
  <2> QED
    BY <2>2, <2>3
<1>2. mu \in [D -> Nat]
  BY <1>0
<1>3. ASSUME NEW i \in D, NEW f \in [D -> V] PROVE FromRule(t, o, f, i) \in V
  <2>1. CASE i > Len(t)
    BY <2>1 DEF FromRule
  <2>2. CASE ~(i > Len(t)) /\ Begins(t, o, i)
    <3>1. i + Len(o) \in D /\ i \in Nat
      BY <1>0, <1>1, <2>2
    <3>2. f[i + Len(o)] \in V
      BY <3>1
    <3> HIDE DEF D
    <3> QED
      BY <2>2, <3>1, <3>2 DEF FromRule
  <2>3. CASE ~(i > Len(t)) /\ ~Begins(t, o, i)
    <3>1. i + 1 \in D
      BY <1>0, <1>1, <2>3
    <3> QED
      BY <2>3, <3>1 DEF FromRule
  <2> QED
    BY <2>1, <2>2, <2>3
<1>4. ASSUME NEW i \in D, NEW f \in [D -> V], NEW g \in [D -> V],
             \A j \in D : mu[j] < mu[i] => f[j] = g[j]
      PROVE  FromRule(t, o, f, i) = FromRule(t, o, g, i)
  <2>0. ASSUME NEW j \in D, j > i PROVE f[j] = g[j]
    <3>1. mu[j] < mu[i]
      BY <1>0, <2>0
    <3> QED
      BY <1>4, <3>1
  <2>1. CASE i > Len(t)
    BY <2>1 DEF FromRule
  <2>2. CASE ~(i > Len(t)) /\ Begins(t, o, i)
    <3>1. i + Len(o) \in D /\ i + Len(o) > i
      BY <1>0, <1>1, <2>2
    <3>2. f[i + Len(o)] = g[i + Len(o)]
      BY <2>0, <3>1
    <3> QED
      BY <2>2, <3>2 DEF FromRule
  <2>3. CASE ~(i > Len(t)) /\ ~Begins(t, o, i)
    <3>1. i + 1 \in D /\ i + 1 > i
      BY <1>0, <1>1, <2>3
    <3>2. f[i + 1] = g[i + 1]
      BY <2>0, <3>1
    <3> QED
      BY <2>3, <3>2 DEF FromRule
  <2> QED
    BY <2>1, <2>2, <2>3
<1>5. Descends(D, V, mu, Rule)
  <2> HIDE DEF D, V, mu
  <2>1. Rule \in [D -> [[D -> V] -> V]]
    BY <1>3
  <2>2. \A i \in D : \A f \in [D -> V] : Rule[i][f] = FromRule(t, o, f, i)
    OBVIOUS
  <2> HIDE DEF Rule
  <2>3. \A i \in D : \A f, g \in [D -> V] :
          (\A j \in D : mu[j] < mu[i] => f[j] = g[j]) => Rule[i][f] = Rule[i][g]
    BY <1>4, <2>2
  <2> QED
    BY <1>2, <2>1, <2>3 DEF Descends
<1>6. PICK h \in [D -> V] : \A i \in D : h[i] = FromRule(t, o, h, i)
  <2>1. V # {}
    OBVIOUS
  <2> HIDE DEF D, V, mu
  <2>2. \A i \in D : \A f \in [D -> V] : Rule[i][f] = FromRule(t, o, f, i)
    OBVIOUS
  <2> HIDE DEF Rule
  <2>3. PICK h \in [D -> V] : \A i \in D : h[i] = Rule[i][h]
    BY <1>5, <2>1, RecursionDefines
  <2> QED
    BY <2>2, <2>3
<1>7. Is(h)
  <2>1. h = [i \in D |-> FromRule(t, o, h, i)]
    <3> HIDE DEF D, V
    <3> QED
      BY <1>6
  <2> QED
    BY <2>1, Zenon DEF FromRule
<1>8. PICK f : f = From(t, o) /\ Is(f)
  BY <1>7, Zenon DEF From
<1>9. \A i \in D : f[i] = FromRule(t, o, f, i)
  <2>1. f = [i \in D |-> FromRule(t, o, f, i)]
    BY <1>8, Zenon DEF FromRule
  <2> QED
    BY Zenon, <2>1
<1>10. ASSUME NEW g, Is(g) PROVE \A i \in D : g[i] \subseteq i..Len(t)
  <2> DEFINE S == {k \in Nat : \A i \in D : Len(t) + 1 - i <= k => g[i] \subseteq i..Len(t)}
  <2>1. \A i \in D : g[i] = FromRule(t, o, g, i)
    <3>1. g = [i \in D |-> FromRule(t, o, g, i)]
      BY <1>10, Zenon DEF FromRule
    <3> QED
      BY Zenon, <3>1
  <2> HIDE DEF Is
  <2>2. 0 \in S
    <3> SUFFICES ASSUME NEW i \in D, Len(t) + 1 - i <= 0 PROVE g[i] \subseteq i..Len(t)
      OBVIOUS
    <3>1. i > Len(t)
      BY <1>0
    <3> QED
      BY <2>1, <3>1 DEF FromRule
  <2>3. ASSUME NEW k \in Nat, k \in S PROVE k + 1 \in S
    <3> SUFFICES ASSUME NEW i \in D, Len(t) + 1 - i <= k + 1 PROVE g[i] \subseteq i..Len(t)
      OBVIOUS
    <3>1. ASSUME NEW j \in D, j > i PROVE g[j] \subseteq i + 1 .. Len(t)
      <4>1. Len(t) + 1 - j <= k
        BY <1>0, <3>1
      <4>2. g[j] \subseteq j..Len(t)
        BY <2>3, <4>1
      <4> QED
        BY <1>0, <3>1, <4>2
    <3>2. CASE i > Len(t)
      BY <2>1, <3>2 DEF FromRule
    <3>3. CASE ~(i > Len(t)) /\ Begins(t, o, i)
      <4>0. i \in 1..Len(t)
        BY <1>0, <3>3
      <4>1. i + Len(o) \in D /\ i + Len(o) > i
        BY <3>3, <4>0, BeginsWithin
      <4>2. g[i] = {i} \cup g[i + Len(o)]
        BY <2>1, <3>3 DEF FromRule
      <4>3. g[i + Len(o)] \subseteq i + 1 .. Len(t)
        BY <3>1, <4>1
      <4> QED
        BY <1>0, <3>3, <4>2, <4>3
    <3>4. CASE ~(i > Len(t)) /\ ~Begins(t, o, i)
      <4>1. i + 1 \in D /\ i + 1 > i
        BY <1>0, <1>1, <3>4
      <4>2. g[i] = g[i + 1]
        BY <2>1, <3>4 DEF FromRule
      <4>3. g[i + 1] \subseteq i + 1 .. Len(t)
        BY <3>1, <4>1
      <4> QED
        BY <1>0, <4>2, <4>3
    <3> QED
      BY <3>2, <3>3, <3>4
  <2> HIDE DEF S
  <2>4. Nat \subseteq S
    BY <2>2, <2>3, NaturalsIn
  <2>5. ASSUME NEW i \in D PROVE g[i] \subseteq i..Len(t)
    <3>1. PICK k \in Nat : k = Len(t) + 1 - i
      BY <1>0
    <3>2. k \in S /\ Len(t) + 1 - i <= k
      BY <2>4, <3>1
    <3> QED
      BY <3>2 DEF S
  <2> QED
    BY <2>5
<1>11. \A i \in D : f[i] \subseteq i..Len(t)
  BY <1>8, <1>10
<1> QED
  BY <1>8, <1>9, <1>11

\* The left-to-right search looks at i.
Visit(t, o, i) ==
    /\ i \in 1 .. Len(t) + 1
    /\ From(t, o)[i] \subseteq Occ(t, o)
    /\ \A x \in Occ(t, o) : x >= i => x \in From(t, o)[i]
    /\ \A x \in Occ(t, o) : x < i => x + Len(o) <= i

Pieces(t, o, w) == [i \in 1..Len(t) |-> Piece(t, o, w, i)]

\* The first n of a sequence of sequences, joined.
Joined(p) == CHOOSE f : f = [i \in 1..Len(p) |-> IF i = 1 THEN p[i] ELSE f[i - 1] \o p[i]]

Flat(p, n) == IF n = 0 THEN <<>> ELSE Joined(p)[n]

\* Occurrences lie in the text.
LEMMA OccIs ==
    ASSUME NEW t \in Seq(Chars), NEW o \in Seq(Chars)
    PROVE  Occ(t, o) \subseteq 1..Len(t)
<1>1. Len(t) \in Nat /\ 1 \in 1 .. Len(t) + 1
  OBVIOUS
<1> QED
  BY <1>1, FromIs DEF Occ

\* The search looks at the first character; then behind what it finds, or at the next.
LEMMA VisitFirst ==
    ASSUME NEW t \in Seq(Chars), NEW o \in Seq(Chars)
    PROVE  Visit(t, o, 1)
<1>1. Len(t) \in Nat /\ 1 \in 1 .. Len(t) + 1
  OBVIOUS
<1>2. \A x \in Occ(t, o) : x >= 1 /\ ~(x < 1)
  BY <1>1, OccIs
<1> QED
  BY <1>1, <1>2 DEF Visit, Occ

LEMMA VisitFound ==
    ASSUME NEW t \in Seq(Chars), NEW o \in Seq(Chars), NEW i \in 1..Len(t),
           Visit(t, o, i), Begins(t, o, i)
    PROVE  /\ i \in Occ(t, o) /\ Visit(t, o, i + Len(o))
           /\ \A x \in Occ(t, o) : x < i + Len(o) => x <= i
<1>1. /\ Len(o) \in Nat /\ Len(o) > 0 /\ i + Len(o) \in 1 .. Len(t) + 1 /\ Len(t) \in Nat
      /\ i \in 1 .. Len(t) + 1
  BY BeginsWithin
<1>2. From(t, o)[i] = {i} \cup From(t, o)[i + Len(o)]
  <2>1. ~(i > Len(t))
    BY <1>1
  <2> QED
    BY <1>1, <2>1, FromIs DEF FromRule
<1>3. From(t, o)[i + Len(o)] \subseteq i + Len(o) .. Len(t)
  BY <1>1, FromIs
<1>4. Occ(t, o) \subseteq 1..Len(t)
  BY OccIs
<1>5. ASSUME NEW x \in Occ(t, o)
      PROVE  /\ x >= i + Len(o) => x \in From(t, o)[i + Len(o)]
             /\ x < i + Len(o) => x <= i /\ x + Len(o) <= i + Len(o)
  <2>1. x \in Nat
    BY <1>4, <1>5
  <2>2. CASE x >= i
    <3>1. x \in From(t, o)[i]
      BY <1>5, <2>2 DEF Visit
    <3>2. x = i \/ x \in From(t, o)[i + Len(o)]
      BY <1>2, <3>1
    <3> QED
      BY <1>1, <1>3, <2>1, <3>2
  <2>3. CASE ~(x >= i)
    BY <1>1, <2>1, <2>3
  <2> QED
    BY <2>2, <2>3
<1> QED
  BY <1>1, <1>2, <1>5 DEF Visit

LEMMA VisitNot ==
    ASSUME NEW t \in Seq(Chars), NEW o \in Seq(Chars), NEW i \in 1..Len(t),
           Visit(t, o, i), ~Begins(t, o, i)
    PROVE  /\ i \notin Occ(t, o) /\ Visit(t, o, i + 1)
           /\ \A x \in Occ(t, o) : x < i => ~(i < x + Len(o))
<1>1. /\ Len(o) \in Nat /\ Len(t) \in Nat /\ i + 1 \in 1 .. Len(t) + 1 /\ i \in 1 .. Len(t) + 1
  OBVIOUS
<1>2. From(t, o)[i] = From(t, o)[i + 1]
  <2>1. ~(i > Len(t))
    BY <1>1
  <2> QED
    BY <1>1, <2>1, FromIs DEF FromRule
<1>3. From(t, o)[i + 1] \subseteq i + 1 .. Len(t)
  BY <1>1, FromIs
<1>4. Occ(t, o) \subseteq 1..Len(t)
  BY OccIs
<1>5. i \notin Occ(t, o)
  <2>1. i \notin From(t, o)[i]
    BY <1>2, <1>3
  <2>2. i >= i
    OBVIOUS
  <2> QED
    BY <2>1, <2>2 DEF Visit
<1>6. ASSUME NEW x \in Occ(t, o)
      PROVE  /\ x >= i + 1 => x \in From(t, o)[i + 1]
             /\ x < i + 1 => x + Len(o) <= i + 1
             /\ x < i => ~(i < x + Len(o))
  <2>1. x \in Nat /\ x # i
    BY <1>4, <1>5, <1>6
  <2>2. /\ x >= i => x \in From(t, o)[i + 1]
        /\ x < i => x + Len(o) <= i
    BY <1>2, <1>6 DEF Visit
  <2> QED
    BY <1>1, <2>1, <2>2
<1> QED
  BY <1>1, <1>2, <1>5, <1>6 DEF Visit

-----------------------------------------------------------------------------
\* Joining.

\* The equations of joining; what is joined depends on the pieces only.
LEMMA FlatIs ==
    ASSUME NEW p \in Seq(Seq(Chars))
    PROVE  /\ Flat(p, 0) = <<>>
           /\ \A i \in 0..Len(p) : Flat(p, i) \in Seq(Chars)
           /\ \A i \in 1..Len(p) : Flat(p, i) = Flat(p, i - 1) \o p[i]
           /\ FlattenSeq(p) = Flat(p, Len(p))
<1> DEFINE D == 1..Len(p)
           V == Seq(Chars)
           mu == [i \in D |-> i]
           Value(f, i) == IF i = 1 THEN p[i] ELSE f[i - 1] \o p[i]
           Rule == [i \in D |-> [f \in [D -> V] |-> Value(f, i)]]
           Is(f) == f = [i \in 1..Len(p) |-> IF i = 1 THEN p[i] ELSE f[i - 1] \o p[i]]
<1>0. Len(p) \in Nat /\ \A i \in D : p[i] \in V
  OBVIOUS
<1>1. ASSUME NEW i \in D, i # 1 PROVE i - 1 \in D /\ i - 1 < i
  BY <1>0, <1>1
<1>2. mu \in [D -> Nat]
  BY <1>0
<1>3. ASSUME NEW i \in D, NEW f \in [D -> V] PROVE Value(f, i) \in V
  <2>1. CASE i = 1
    BY <1>0, <2>1
  <2>2. CASE i # 1
    <3>1. f[i - 1] \in V /\ p[i] \in V
      BY <1>0, <1>1, <2>2
    <3> QED
      BY <2>2, <3>1
  <2> QED
    BY <2>1, <2>2
<1>4. ASSUME NEW i \in D, NEW f \in [D -> V], NEW g \in [D -> V],
             \A j \in D : mu[j] < mu[i] => f[j] = g[j]
      PROVE  Value(f, i) = Value(g, i)
  <2>1. CASE i = 1
    BY <2>1
  <2>2. CASE i # 1
    <3>1. i - 1 \in D /\ mu[i - 1] < mu[i]
      BY <1>1, <2>2
    <3>2. f[i - 1] = g[i - 1]
      BY <1>4, <3>1
    <3> QED
      BY <2>2, <3>2
  <2> QED
    BY <2>1, <2>2
<1>5. PICK h \in [D -> V] : \A i \in D : h[i] = Value(h, i)
  <2>4. V # {}
    <3>1. <<>> \in V
      OBVIOUS
    <3> QED
      BY <3>1
  <2> HIDE DEF D, V, mu, Value
  <2>1. Rule \in [D -> [[D -> V] -> V]]
    BY <1>3
  <2>2. \A i \in D : \A f \in [D -> V] : Rule[i][f] = Value(f, i)
    OBVIOUS
  <2> HIDE DEF Rule
  <2>3. \A i \in D : \A f, g \in [D -> V] :
          (\A j \in D : mu[j] < mu[i] => f[j] = g[j]) => Rule[i][f] = Rule[i][g]
    <3> SUFFICES ASSUME NEW i \in D, NEW f \in [D -> V], NEW g \in [D -> V],
                        \A j \in D : mu[j] < mu[i] => f[j] = g[j]
                 PROVE  Rule[i][f] = Rule[i][g]
      OBVIOUS
    <3>1. Value(f, i) = Value(g, i)
      BY <1>4
    <3> QED
      BY <2>2, <3>1
  <2>5. Descends(D, V, mu, Rule)
    BY <1>2, <2>1, <2>3 DEF Descends
  <2>6. PICK h \in [D -> V] : \A i \in D : h[i] = Rule[i][h]
    BY <2>4, <2>5, RecursionDefines
  <2> QED
    BY <2>2, <2>6
<1>6. Is(h)
  <2>1. h = [i \in D |-> Value(h, i)]
    <3> HIDE DEF D, V, Value
    <3> QED
      BY <1>5
  <2> QED
    BY Zenon, <2>1
<1>7. PICK f : f = Joined(p) /\ Is(f)
  <2>1. Joined(p) = CHOOSE f : Is(f)
    BY Zenon DEF Joined
  <2> HIDE DEF Is
  <2>2. Is(CHOOSE f : Is(f))
    BY Zenon, <1>6
  <2> QED
    BY Zenon, <2>1, <2>2
<1>8. \A i \in D : f[i] = Value(f, i)
  BY <1>7, Zenon
<1>9. ASSUME NEW i \in D PROVE Flat(p, i) = f[i] /\ (i # 1 => Flat(p, i - 1) = f[i - 1])
  <2>1. i # 0 /\ (i # 1 => i - 1 # 0)
    BY <1>0
  <2> QED
    BY <1>7, <2>1 DEF Flat
<1>10. Flat(p, 0) = <<>>
  BY DEF Flat
<1> HIDE DEF Is
<1>11. ASSUME NEW i \in D PROVE Flat(p, i) = Flat(p, i - 1) \o p[i]
  <2>1. p[i] \in V
    BY <1>0
  <2>2. CASE i = 1
    <3>1. Flat(p, i) = p[i]
      BY <1>8, <1>9, <2>2
    <3>2. Flat(p, i - 1) = <<>>
      BY <1>10, <2>2
    <3>3. <<>> \o p[i] = p[i]
      <4>1. \A u \in Seq(Chars) : <<>> \o u = u
        OBVIOUS
      <4> QED
        BY <2>1, <4>1
    <3> QED
      BY Zenon, <3>1, <3>2, <3>3
  <2>3. CASE i # 1
    BY <1>8, <1>9, <2>3
  <2> QED
    BY <2>2, <2>3
<1>12. \A i \in 0..Len(p) : Flat(p, i) \in Seq(Chars)
  <2> DEFINE S == {i \in Nat : i <= Len(p) => Flat(p, i) \in Seq(Chars)}
  <2>1. 0 \in S
    <3>1. Flat(p, 0) \in Seq(Chars)
      <4>1. <<>> \in Seq(Chars)
        OBVIOUS
      <4> QED
        BY <1>10, <4>1
    <3> QED
      BY <3>1
  <2>2. ASSUME NEW i \in Nat, i \in S PROVE i + 1 \in S
    <3> SUFFICES ASSUME i + 1 <= Len(p) PROVE Flat(p, i + 1) \in Seq(Chars)
      OBVIOUS
    <3>1. i + 1 \in D /\ Flat(p, i) \in Seq(Chars) /\ (i + 1) - 1 = i
      BY <1>0, <2>2
    <3>2. p[i + 1] \in Seq(Chars) /\ Flat(p, i + 1) = Flat(p, i) \o p[i + 1]
      BY <1>0, <1>11, <3>1
    <3>3. \A u, v \in Seq(Chars) : u \o v \in Seq(Chars)
      OBVIOUS
    <3> QED
      BY <3>1, <3>2, <3>3
  <2> HIDE DEF S
  <2>3. Nat \subseteq S
    BY <2>1, <2>2, NaturalsIn
  <2>4. ASSUME NEW i \in 0..Len(p) PROVE Flat(p, i) \in Seq(Chars)
    <3>1. i \in Nat /\ i <= Len(p)
      BY <1>0
    <3> QED
      BY <2>3, <3>1 DEF S
  <2> QED
    BY <2>4
<1>13. FlattenSeq(p) = Flat(p, Len(p))
  <2>1. CASE Len(p) = 0
    <3>1. p = <<>>
      BY <2>1
    <3>2. FlattenSeq(p) = p
      BY <2>1, Zenon DEF FlattenSeq
    <3> QED
      BY <1>10, <2>1, <3>1, <3>2
  <2>2. CASE Len(p) # 0
    <3>1. FlattenSeq(p) = Joined(p)[Len(p)]
      BY <2>2, Zenon DEF FlattenSeq, Joined
    <3>2. Flat(p, Len(p)) = Joined(p)[Len(p)]
      BY <2>2, Zenon DEF Flat
    <3> QED
      BY <3>1, <3>2, Zenon
  <2> QED
    BY <2>1, <2>2
<1> QED
  BY <1>10, <1>11, <1>12, <1>13

LEMMA FlatAgrees ==
    ASSUME NEW p \in Seq(Seq(Chars)), NEW q \in Seq(Seq(Chars)),
           NEW m \in Nat, m <= Len(p), m <= Len(q), \A i \in 1..m : p[i] = q[i]
    PROVE  Flat(p, m) = Flat(q, m)
<1> DEFINE S == {k \in Nat : k <= m => Flat(p, k) = Flat(q, k)}
<1>1. 0 \in S
  BY FlatIs
<1>2. ASSUME NEW k \in Nat, k \in S PROVE k + 1 \in S
  <2> SUFFICES ASSUME k + 1 <= m PROVE Flat(p, k + 1) = Flat(q, k + 1)
    OBVIOUS
  <2>0. Len(p) \in Nat /\ Len(q) \in Nat
    OBVIOUS
  <2>1. k + 1 \in 1..m /\ k + 1 \in 1..Len(p) /\ k + 1 \in 1..Len(q) /\ (k + 1) - 1 = k
        /\ Flat(p, k) = Flat(q, k)
    BY <1>2, <2>0
  <2>2. Flat(p, k + 1) = Flat(p, k) \o p[k + 1] /\ Flat(q, k + 1) = Flat(q, k) \o q[k + 1]
    <3>1. /\ \A i \in 1..Len(p) : Flat(p, i) = Flat(p, i - 1) \o p[i]
          /\ \A i \in 1..Len(q) : Flat(q, i) = Flat(q, i - 1) \o q[i]
      BY FlatIs
    <3> QED
      BY <2>1, <3>1
  <2> QED
    BY <2>1, <2>2
<1> HIDE DEF S
<1>3. m \in S
  BY <1>1, <1>2, NaturalsIn
<1> QED
  BY <1>3 DEF S

\* What is joined first stays at the front.
LEMMA FlatGrows ==
    ASSUME NEW p \in Seq(Seq(Chars)), NEW i \in Nat, NEW j \in Nat, i <= j, j <= Len(p)
    PROVE  \E x \in Seq(Chars) : Flat(p, j) = Flat(p, i) \o x
<1> DEFINE Ok(k) == \E x \in Seq(Chars) : Flat(p, i + k) = Flat(p, i) \o x
           S == {k \in Nat : i + k <= Len(p) => Ok(k)}
<1>0. Len(p) \in Nat /\ i \in 0..Len(p)
  OBVIOUS
<1>a. PICK front \in Seq(Chars) : front = Flat(p, i)
  BY <1>0, FlatIs
<1>1. 0 \in S
  <2>1. front = front \o <<>> /\ <<>> \in Seq(Chars) /\ i + 0 = i
    OBVIOUS
  <2>2. Ok(0)
    BY <1>a, <2>1
  <2> HIDE DEF Ok
  <2> QED
    BY <2>2
<1>2. ASSUME NEW k \in Nat, k \in S PROVE k + 1 \in S
  <2> HIDE DEF Ok
  <2> SUFFICES ASSUME i + (k + 1) <= Len(p) PROVE Ok(k + 1)
    OBVIOUS
  <2>0. Ok(k)
    BY <1>0, <1>2
  <2>1. PICK x \in Seq(Chars) : Flat(p, i + k) = front \o x
    BY <1>a, <2>0 DEF Ok
  <2>2. i + (k + 1) \in 1..Len(p) /\ (i + (k + 1)) - 1 = i + k
    BY <1>0
  <2>3. PICK y \in Seq(Chars) : y = p[i + (k + 1)]
    BY <2>2
  <2>4. Flat(p, i + (k + 1)) = (front \o x) \o y
    <3>1. \A n \in 1..Len(p) : Flat(p, n) = Flat(p, n - 1) \o p[n]
      BY FlatIs
    <3> QED
      BY <2>1, <2>2, <2>3, <3>1
  <2>5. (front \o x) \o y = front \o (x \o y) /\ x \o y \in Seq(Chars)
    OBVIOUS
  <2> QED
    BY <1>a, <2>4, <2>5 DEF Ok
<1> HIDE DEF S
<1>3. j - i \in S
  <2>1. j - i \in Nat
    OBVIOUS
  <2> QED
    BY <1>1, <1>2, <2>1, NaturalsIn
<1>4. i + (j - i) = j
  OBVIOUS
<1> HIDE DEF Ok
<1>5. Ok(j - i)
  BY <1>3, <1>4 DEF S
<1> QED
  BY <1>4, <1>5 DEF Ok

\* Nothing joined changes nothing.
LEMMA FlatStays ==
    ASSUME NEW p \in Seq(Seq(Chars)), NEW i \in Nat, NEW j \in Nat, i <= j, j <= Len(p),
           \A k \in i + 1 .. j : p[k] = <<>>
    PROVE  Flat(p, j) = Flat(p, i)
<1> DEFINE S == {k \in Nat : i + k <= j => Flat(p, i + k) = Flat(p, i)}
<1>0. Len(p) \in Nat /\ i \in 0..Len(p)
  OBVIOUS
<1>a. PICK front \in Seq(Chars) : front = Flat(p, i)
  BY <1>0, FlatIs
<1>1. 0 \in S
  OBVIOUS
<1>2. ASSUME NEW k \in Nat, k \in S PROVE k + 1 \in S
  <2> SUFFICES ASSUME i + (k + 1) <= j PROVE Flat(p, i + (k + 1)) = Flat(p, i)
    OBVIOUS
  <2>1. Flat(p, i + k) = front
    BY <1>0, <1>2, <1>a
  <2>2. i + (k + 1) \in 1..Len(p) /\ (i + (k + 1)) - 1 = i + k /\ i + (k + 1) \in i + 1 .. j
    BY <1>0
  <2>3. p[i + (k + 1)] = <<>>
    BY <2>2
  <2>4. Flat(p, i + (k + 1)) = front \o <<>>
    <3>1. \A n \in 1..Len(p) : Flat(p, n) = Flat(p, n - 1) \o p[n]
      BY FlatIs
    <3> QED
      BY <2>1, <2>2, <2>3, <3>1
  <2>5. front \o <<>> = front
    OBVIOUS
  <2> QED
    BY <1>a, <2>4, <2>5
<1> HIDE DEF S
<1>3. j - i \in S
  <2>1. j - i \in Nat
    OBVIOUS
  <2> QED
    BY <1>1, <1>2, <2>1, NaturalsIn
<1>4. i + (j - i) = j
  OBVIOUS
<1> QED
  BY <1>3, <1>4 DEF S

\* The pieces, and what is joined of them from one place of the search to the next.
LEMMA PiecesAre ==
    ASSUME NEW t \in Seq(Chars), NEW o \in Seq(Chars), NEW w \in Seq(Chars)
    PROVE  /\ Pieces(t, o, w) \in Seq(Seq(Chars)) /\ Len(Pieces(t, o, w)) = Len(t)
           /\ \A i \in 1..Len(t) : Pieces(t, o, w)[i] = Piece(t, o, w, i)
<1>1. ASSUME NEW i \in 1..Len(t) PROVE Piece(t, o, w, i) \in Seq(Chars)
  <2>1. t[i] \in Chars
    OBVIOUS
  <2>2. <<t[i]>> \in Seq(Chars) /\ <<>> \in Seq(Chars)
    BY <2>1
  <2> QED
    BY <2>2 DEF Piece
<1>2. Len(t) \in Nat
  OBVIOUS
<1> QED
  BY <1>1, <1>2 DEF Pieces

\* The loop body: an occurrence, and a character.
LEMMA ScanNew ==
    ASSUME NEW t \in Seq(Chars), NEW o \in Seq(Chars), NEW w \in Seq(Chars),
           NEW i \in 1..Len(t), Visit(t, o, i), Begins(t, o, i)
    PROVE  Flat(Pieces(t, o, w), i + Len(o) - 1) = Flat(Pieces(t, o, w), i - 1) \o w
<1> DEFINE p == Pieces(t, o, w)
<1>0. /\ Len(o) \in Nat /\ Len(o) > 0 /\ i + Len(o) \in 1 .. Len(t) + 1 /\ Len(t) \in Nat
  BY BeginsWithin
<1>1. p \in Seq(Seq(Chars)) /\ Len(p) = Len(t)
      /\ \A k \in 1..Len(t) : p[k] = Piece(t, o, w, k)
  BY PiecesAre
<1>2. /\ i \in Occ(t, o)
      /\ \A x \in Occ(t, o) : x < i + Len(o) => x <= i
  BY VisitFound
<1>3. p[i] = w
  BY <1>1, <1>2 DEF Piece
<1>4. PICK j \in Nat : j = i + Len(o) - 1 /\ j <= Len(t) /\ i <= j
  <2>1. i + Len(o) - 1 \in Nat /\ i + Len(o) - 1 <= Len(t) /\ i <= i + Len(o) - 1
    BY <1>0
  <2> QED
    BY Zenon, <2>1
<1>5. ASSUME NEW k \in i + 1 .. j PROVE p[k] = <<>>
  <2>1. k \in 1..Len(t) /\ i < k /\ k < i + Len(o)
    BY <1>0, <1>4
  <2>2. k \notin Occ(t, o)
    BY <1>2, <2>1
  <2>3. \E x \in Occ(t, o) : x < k /\ k < x + Len(o)
    BY <1>2, <2>1
  <2> QED
    BY <1>1, <2>1, <2>2, <2>3 DEF Piece
<1> HIDE DEF p
<1>6. Flat(p, j) = Flat(p, i)
  <2>1. p \in Seq(Seq(Chars)) /\ i \in Nat /\ j \in Nat /\ i <= j /\ j <= Len(p)
    BY <1>1, <1>4
  <2> QED
    BY <1>5, <2>1, FlatStays
<1>7. Flat(p, i) = Flat(p, i - 1) \o w
  <2>1. \A n \in 1..Len(p) : Flat(p, n) = Flat(p, n - 1) \o p[n]
    BY <1>1, FlatIs
  <2> QED
    BY <1>1, <1>3, <2>1
<1> QED
  BY <1>4, <1>6, <1>7 DEF p

LEMMA ScanChar ==
    ASSUME NEW t \in Seq(Chars), NEW o \in Seq(Chars), NEW w \in Seq(Chars),
           NEW i \in 1..Len(t), Visit(t, o, i), ~Begins(t, o, i)
    PROVE  Flat(Pieces(t, o, w), i) = Flat(Pieces(t, o, w), i - 1) \o <<t[i]>>
<1> DEFINE p == Pieces(t, o, w)
<1>1. p \in Seq(Seq(Chars)) /\ Len(p) = Len(t)
      /\ \A k \in 1..Len(t) : p[k] = Piece(t, o, w, k)
  BY PiecesAre
<1>2. i \notin Occ(t, o) /\ \A x \in Occ(t, o) : x < i => ~(i < x + Len(o))
  BY VisitNot
<1>3. p[i] = <<t[i]>>
  BY <1>1, <1>2 DEF Piece
<1> HIDE DEF p
<1>4. \A n \in 1..Len(p) : Flat(p, n) = Flat(p, n - 1) \o p[n]
  BY <1>1, FlatIs
<1>5. Flat(p, i) = Flat(p, i - 1) \o p[i]
  BY <1>1, <1>4
<1> QED
  BY <1>3, <1>5 DEF p

-----------------------------------------------------------------------------
\* What the search looks at.

\* Going on from a, never past x, a set of numbers comes to x.
LEMMA GoesTo ==
    ASSUME NEW x \in Nat, NEW a \in Nat, NEW S, S \subseteq a..x, a \in S,
           \A i \in S : i < x => \E j \in S : i < j
    PROVE  x \in S
<1> DEFINE T == {x - i : i \in S}
<1>1. T \subseteq Nat /\ T # {}
  <2>1. \A i \in S : x - i \in Nat
    OBVIOUS
  <2>2. x - a \in T
    OBVIOUS
  <2> QED
    BY <2>1, <2>2
<1> HIDE DEF T
<1>2. PICK m \in T : \A k \in T : m <= k
  BY <1>1, LeastNatural
<1> USE DEF T
<1>3. PICK i \in S : m = x - i
  OBVIOUS
<1>4. ~(\E j \in S : i < j)
  <2> SUFFICES ASSUME NEW j \in S, i < j PROVE FALSE
    OBVIOUS
  <2>1. x - j \in T
    OBVIOUS
  <2>2. m <= x - j
    BY <1>2, <2>1
  <2> QED
    BY <1>3, <2>2
<1>5. ~(i < x) /\ i \in a..x
  BY <1>4
<1>6. i = x
  BY <1>5
<1> QED
  BY <1>6

\* Every occurrence is looked at, and is one.
LEMMA OccVisited ==
    ASSUME NEW t \in Seq(Chars), NEW o \in Seq(Chars), NEW x \in Occ(t, o)
    PROVE  x \in 1..Len(t) /\ Visit(t, o, x) /\ Begins(t, o, x)
<1> DEFINE S == {i \in 1..x : Visit(t, o, i)}
<1>0. x \in 1..Len(t) /\ x \in Nat /\ Len(t) \in Nat /\ Len(o) \in Nat
  BY OccIs
<1>1. 1 \in S
  BY <1>0, VisitFirst
<1>2. ASSUME NEW i \in S, i < x PROVE \E j \in S : i < j
  <2>1. i \in 1..Len(t) /\ Visit(t, o, i)
    BY <1>0, <1>2
  <2>2. CASE Begins(t, o, i)
    <3>1. Visit(t, o, i + Len(o)) /\ (x < i + Len(o) => x <= i) /\ i + Len(o) > i
      BY <2>1, <2>2, VisitFound, BeginsWithin
    <3>2. i + Len(o) \in 1..x
      BY <1>0, <1>2, <2>1, <3>1
    <3> QED
      BY <3>1, <3>2
  <2>3. CASE ~Begins(t, o, i)
    <3>1. Visit(t, o, i + 1)
      BY <2>1, <2>3, VisitNot
    <3>2. i + 1 \in 1..x /\ i < i + 1
      BY <1>0, <1>2, <2>1
    <3> QED
      BY <3>1, <3>2
  <2> QED
    BY <2>2, <2>3
<1>3. S \subseteq 1..x
  OBVIOUS
<1> HIDE DEF S
<1>4. x \in S
  BY <1>0, <1>1, <1>2, <1>3, GoesTo
<1>5. Visit(t, o, x)
  BY <1>4 DEF S
<1>6. Begins(t, o, x)
  BY <1>0, <1>5, VisitNot
<1> QED
  BY <1>0, <1>5, <1>6

\* There are finitely many occurrences.
LEMMA OccFinite ==
    ASSUME NEW t \in Seq(Chars), NEW o \in Seq(Chars)
    PROVE  IsFiniteSet(Occ(t, o))
<1>1. Len(t) \in Nat /\ 1 \in Nat
  OBVIOUS
<1>2. IsFiniteSet(1..Len(t))
  BY <1>1, FS_Interval
<1> QED
  BY <1>2, OccIs, FS_Subset

\* In the text that ends before a place the search looks at, it finds the same.
Before(t, x) == SubSeq(t, 1, x - 1)

LEMMA PrefixOcc ==
    ASSUME NEW t \in Seq(Chars), NEW o \in Seq(Chars), NEW x \in 1 .. Len(t) + 1,
           Visit(t, o, x), NEW u, u = Before(t, x)
    PROVE  /\ u \in Seq(Chars) /\ Len(u) = x - 1
           /\ \A i \in 1 .. x - 1 : u[i] = t[i]
           /\ Occ(u, o) = {i \in Occ(t, o) : i < x}
<1>0. Len(t) \in Nat /\ Len(o) \in Nat /\ x \in Nat
  OBVIOUS
<1>1. /\ u \in Seq(Chars) /\ Len(u) = x - 1
      /\ \A i \in 1 .. x - 1 : u[i] = t[i]
  BY <1>0 DEF Before
<1>2. ASSUME NEW i \in 1 .. x - 1, Visit(t, o, i)
      PROVE  /\ i \in 1..Len(t) /\ i \in 1..Len(u)
             /\ Begins(u, o, i) <=> Begins(t, o, i)
             /\ Begins(t, o, i) => i + Len(o) <= x
  <2>1. i \in 1..Len(t) /\ i \in 1..Len(u) /\ i < x
    BY <1>0, <1>1
  <2>2. Begins(t, o, i) => i + Len(o) <= x
    <3>1. Begins(t, o, i) => i \in Occ(t, o)
      BY <1>2, <2>1, VisitFound
    <3> QED
      BY <2>1, <3>1 DEF Visit
  <2>3. /\ Begins(t, o, i) <=> /\ Len(o) > 0 /\ i + Len(o) - 1 <= Len(t)
                               /\ \A k \in 1..Len(o) : t[i + k - 1] = o[k]
        /\ Begins(u, o, i) <=> /\ Len(o) > 0 /\ i + Len(o) - 1 <= Len(u)
                               /\ \A k \in 1..Len(o) : u[i + k - 1] = o[k]
    BY <1>1, <2>1, BeginsIs
  <2>4. ASSUME i + Len(o) <= x, NEW k \in 1..Len(o) PROVE u[i + k - 1] = t[i + k - 1]
    <3>1. i + k - 1 \in 1 .. x - 1
      BY <1>0, <2>1, <2>4
    <3> QED
      BY <1>1, <3>1
  <2>5. Begins(u, o, i) => i + Len(o) <= x
    BY <1>0, <1>1, <2>1, <2>3
  <2>6. i + Len(o) <= x => i + Len(o) - 1 <= Len(t) /\ i + Len(o) - 1 <= Len(u)
    BY <1>0, <1>1, <2>1
  <2> QED
    BY <2>1, <2>2, <2>3, <2>4, <2>5, <2>6
<1> DEFINE Same(i) == \A y \in Nat : y < i => (y \in Occ(u, o) <=> y \in Occ(t, o))
           S == {i \in 1..x : Visit(t, o, i) /\ Visit(u, o, i) /\ Same(i)}
<1>3. Occ(t, o) \subseteq 1..Len(t) /\ Occ(u, o) \subseteq 1..Len(u)
  BY <1>1, OccIs
<1>4. 1 \in S
  <2>1. Same(1)
    BY <1>0, <1>1, <1>3
  <2> HIDE DEF Same
  <2>2. 1 \in 1..x
    BY <1>0
  <2> QED
    BY <1>1, <2>1, <2>2, VisitFirst
<1>5. ASSUME NEW i \in S, i < x PROVE \E j \in S : i < j
  <2>1. /\ i \in 1 .. x - 1 /\ Visit(t, o, i) /\ Visit(u, o, i)
        /\ \A y \in Nat : y < i => (y \in Occ(u, o) <=> y \in Occ(t, o))
    BY <1>0, <1>5
  <2>2. /\ i \in 1..Len(t) /\ i \in 1..Len(u)
        /\ Begins(u, o, i) <=> Begins(t, o, i)
        /\ Begins(t, o, i) => i + Len(o) <= x
    BY <1>2, <2>1
  <2>3. CASE Begins(t, o, i)
    <3>1. /\ i \in Occ(t, o) /\ Visit(t, o, i + Len(o))
          /\ \A y \in Occ(t, o) : y < i + Len(o) => y <= i
      BY <2>1, <2>2, <2>3, VisitFound
    <3>2. /\ i \in Occ(u, o) /\ Visit(u, o, i + Len(o))
          /\ \A y \in Occ(u, o) : y < i + Len(o) => y <= i
      BY <1>1, <2>1, <2>2, <2>3, VisitFound
    <3>3. i + Len(o) > i /\ i + Len(o) \in 1..x
      BY <1>0, <2>2, <2>3, BeginsWithin
    <3>4. Same(i + Len(o))
      <4> SUFFICES ASSUME NEW y \in Nat, y < i + Len(o)
                   PROVE  y \in Occ(u, o) <=> y \in Occ(t, o)
        OBVIOUS
      <4>1. CASE y < i
        BY <2>1, <4>1
      <4>2. CASE y = i
        BY <3>1, <3>2, <4>2
      <4>3. CASE ~(y <= i)
        BY <3>1, <3>2, <4>3
      <4> QED
        BY <2>1, <4>1, <4>2, <4>3
    <3> HIDE DEF Same
    <3> QED
      BY <3>1, <3>2, <3>3, <3>4
  <2>4. CASE ~Begins(t, o, i)
    <3>1. i \notin Occ(t, o) /\ Visit(t, o, i + 1)
      BY <2>1, <2>2, <2>4, VisitNot
    <3>2. i \notin Occ(u, o) /\ Visit(u, o, i + 1)
      BY <1>1, <2>1, <2>2, <2>4, VisitNot
    <3>3. i + 1 > i /\ i + 1 \in 1..x
      BY <1>0, <2>1
    <3>4. Same(i + 1)
      <4> SUFFICES ASSUME NEW y \in Nat, y < i + 1
                   PROVE  y \in Occ(u, o) <=> y \in Occ(t, o)
        OBVIOUS
      <4>1. y < i \/ y = i
        BY <2>1
      <4> QED
        BY <2>1, <3>1, <3>2, <4>1
    <3> HIDE DEF Same
    <3> QED
      BY <3>1, <3>2, <3>3, <3>4
  <2> QED
    BY <2>3, <2>4
<1>6. S \subseteq 1..x
  OBVIOUS
<1> HIDE DEF S
<1>7. x \in S
  BY <1>0, <1>4, <1>5, <1>6, GoesTo
<1>8. \A y \in Nat : y < x => (y \in Occ(u, o) <=> y \in Occ(t, o))
  BY <1>7 DEF S
<1>9. Occ(u, o) = {i \in Occ(t, o) : i < x}
  <2>1. \A y \in Occ(u, o) : y \in Nat /\ y < x
    BY <1>0, <1>1, <1>3
  <2>2. \A y \in Occ(t, o) : y \in Nat
    BY <1>0, <1>3
  <2> QED
    BY <1>8, <2>1, <2>2
<1> QED
  BY <1>1, <1>9

\* So it replaces the same.
LEMMA PrefixFlat ==
    ASSUME NEW t \in Seq(Chars), NEW o \in Seq(Chars), NEW w \in Seq(Chars),
           NEW x \in 1 .. Len(t) + 1, Visit(t, o, x), NEW u, u = Before(t, x)
    PROVE  u \in Seq(Chars) /\ Flat(Pieces(u, o, w), Len(u)) = Flat(Pieces(t, o, w), x - 1)
<1>0. Len(t) \in Nat /\ Len(o) \in Nat /\ x \in Nat /\ x - 1 \in Nat /\ x - 1 <= Len(t)
  OBVIOUS
<1>1. /\ u \in Seq(Chars) /\ Len(u) = x - 1
      /\ \A i \in 1 .. x - 1 : u[i] = t[i]
      /\ Occ(u, o) = {i \in Occ(t, o) : i < x}
  BY PrefixOcc
<1>a. /\ Pieces(t, o, w) \in Seq(Seq(Chars)) /\ Len(Pieces(t, o, w)) = Len(t)
      /\ \A i \in 1..Len(t) : Pieces(t, o, w)[i] = Piece(t, o, w, i)
  BY PiecesAre
<1>b. /\ Pieces(u, o, w) \in Seq(Seq(Chars)) /\ Len(Pieces(u, o, w)) = Len(u)
      /\ \A i \in 1..Len(u) : Pieces(u, o, w)[i] = Piece(u, o, w, i)
  <2>1. u \in Seq(Chars)
    BY <1>1
  <2> QED
    BY <2>1, PiecesAre
<1>3. ASSUME NEW i \in 1 .. x - 1 PROVE Pieces(u, o, w)[i] = Pieces(t, o, w)[i]
  <2>1. i \in 1..Len(t) /\ i \in 1..Len(u) /\ i < x
    BY <1>0, <1>1
  <2>2. i \in Occ(u, o) <=> i \in Occ(t, o)
    BY <1>1, <2>1
  <2>3. (\E z \in Occ(u, o) : z < i /\ i < z + Len(o))
           <=> (\E z \in Occ(t, o) : z < i /\ i < z + Len(o))
    <3>1. \A z \in Occ(t, o) : z < i => z < x
      <4>1. \A z \in Occ(t, o) : z \in Nat
        BY OccIs
      <4> QED
        BY <1>0, <2>1, <4>1
    <3> QED
      BY <1>1, <3>1
  <2>4. Piece(u, o, w, i) = Piece(t, o, w, i)
    BY <1>1, <2>2, <2>3 DEF Piece
  <2> QED
    BY <1>a, <1>b, <2>1, <2>4
<1>4. PICK m \in Nat : m = x - 1 /\ m <= Len(t) /\ m = Len(u)
  BY <1>0, <1>1
<1>5. Flat(Pieces(u, o, w), m) = Flat(Pieces(t, o, w), m)
  <2>1. m <= Len(Pieces(t, o, w)) /\ m <= Len(Pieces(u, o, w))
    BY <1>a, <1>b, <1>4
  <2>2. \A i \in 1..m : Pieces(u, o, w)[i] = Pieces(t, o, w)[i]
    BY <1>3, <1>4
  <2> QED
    BY <1>a, <1>b, <2>1, <2>2, FlatAgrees
<1> QED
  BY <1>1, <1>4, <1>5

\* Looking for nothing finds nothing.
LEMMA NothingFound ==
    ASSUME NEW t \in Seq(Chars), NEW o \in Seq(Chars), NEW w \in Seq(Chars), Len(o) = 0
    PROVE  Occ(t, o) = {} /\ Flat(Pieces(t, o, w), Len(t)) = t
<1>1. Occ(t, o) = {}
  <2> SUFFICES ASSUME NEW x \in Occ(t, o) PROVE FALSE
    OBVIOUS
  <2>1. Begins(t, o, x)
    BY OccVisited
  <2> QED
    BY <2>1 DEF Begins
<1> DEFINE p == Pieces(t, o, w)
           S == {k \in Nat : k <= Len(t) => Flat(p, k) = SubSeq(t, 1, k)}
<1>2. p \in Seq(Seq(Chars)) /\ Len(p) = Len(t)
      /\ \A k \in 1..Len(t) : p[k] = Piece(t, o, w, k)
  BY PiecesAre
<1>3. \A k \in 1..Len(t) : p[k] = <<t[k]>>
  BY <1>1, <1>2 DEF Piece
<1> HIDE DEF p
<1>4. 0 \in S
  <2>1. Flat(p, 0) = <<>>
    BY <1>2, FlatIs
  <2>2. SubSeq(t, 1, 0) = <<>>
    OBVIOUS
  <2> QED
    BY <2>1, <2>2
<1>5. ASSUME NEW k \in Nat, k \in S PROVE k + 1 \in S
  <2> SUFFICES ASSUME k + 1 <= Len(t) PROVE Flat(p, k + 1) = SubSeq(t, 1, k + 1)
    OBVIOUS
  <2>0. Len(t) \in Nat
    OBVIOUS
  <2>1. k + 1 \in 1..Len(t) /\ (k + 1) - 1 = k /\ Flat(p, k) = SubSeq(t, 1, k)
    BY <1>5, <2>0
  <2>2. \A i \in 1..Len(p) : Flat(p, i) = Flat(p, i - 1) \o p[i]
    BY <1>2, FlatIs
  <2>3. Flat(p, k + 1) = SubSeq(t, 1, k) \o <<t[k + 1]>>
    BY <1>2, <1>3, <2>1, <2>2
  <2>4. SubSeq(t, 1, k) \o <<t[k + 1]>> = SubSeq(t, 1, k + 1)
    BY <2>0, <2>1
  <2> QED
    BY <2>3, <2>4
<1> HIDE DEF S
<1>6. Len(t) \in S
  BY <1>4, <1>5, NaturalsIn
<1>7. SubSeq(t, 1, Len(t)) = t
  OBVIOUS
<1> QED
  BY <1>1, <1>6, <1>7 DEF S, p

-----------------------------------------------------------------------------
\* A call, its reference and its memory.

\* What becomes of the first n characters of the text of c, and of all.
Out(c, n) == Flat(Pieces(c.text, c.old_str, c.new_str), n)
All(c) == Out(c, Len(c.text))
Sought(c, i) == Visit(c.text, c.old_str, i)

\* The occurrences among the first n characters of which something is left.
Keeps(c, x) == \/ Len(Out(c, x - 1)) < c.dst_size - 1
               \/ Len(c.new_str) = 0 /\ Len(Out(c, x - 1)) = c.dst_size - 1
KeptOf(c, n) == {x \in Occ(c.text, c.old_str) : Keeps(c, x) /\ x <= n}

\* m begins with x.
Holds(m, x) == \A i \in 1..Len(x) : m[i - 1] = x[i]

\* The text of c from its k-th character on.
TextFrom(m, c, k) ==
    /\ \A i \in k .. Len(c.text) - 1 : m[i] = c.text[i + 1]
    /\ m[Len(c.text)] = Nul

\* What Replaces says of a call that has ended.
Right(c, m, count, cut, len) ==
    \E x \in Seq(Chars) :
        /\ x = SubSeq(All(c), 1, Least(Len(All(c)), c.dst_size - 1))
        /\ Holds(m, x) /\ m[Len(x)] = Nul /\ Len(x) <= c.dst_size - 1
        /\ cut = (Len(All(c)) > c.dst_size - 1)
        /\ count = Cardinality(KeptOf(c, Len(c.text)))
        /\ len = IF c.in_place /\ Len(c.old_str) = 0 THEN Unset ELSE Len(x)

\* The types of all this.
LEMMA OutIs ==
    ASSUME NEW c \in Calls
    PROVE  /\ Len(c.text) \in Nat /\ Len(c.old_str) \in Nat /\ Len(c.new_str) \in Nat
           /\ Out(c, 0) = <<>>
           /\ \A n \in 0..Len(c.text) : Out(c, n) \in Seq(Chars) /\ Len(Out(c, n)) \in Nat
           /\ All(c) \in Seq(Chars) /\ Len(All(c)) \in Nat
<1>0. c.text \in Seq(Chars) /\ c.old_str \in Seq(Chars) /\ c.new_str \in Seq(Chars)
  BY CallIs
<1> DEFINE p == Pieces(c.text, c.old_str, c.new_str)
<1>1. p \in Seq(Seq(Chars)) /\ Len(p) = Len(c.text)
  BY <1>0, PiecesAre
<1>2. Len(c.text) \in Nat /\ Len(c.old_str) \in Nat /\ Len(c.new_str) \in Nat
  BY <1>0
<1> HIDE DEF p
<1>3. Flat(p, 0) = <<>> /\ \A n \in 0..Len(p) : Flat(p, n) \in Seq(Chars)
  BY <1>1, FlatIs
<1>4. \A n \in 0..Len(c.text) : Flat(p, n) \in Seq(Chars) /\ Len(Flat(p, n)) \in Nat
  BY <1>1, <1>3
<1>5. Len(c.text) \in 0..Len(c.text)
  BY <1>2
<1> QED
  BY <1>2, <1>3, <1>4, <1>5 DEF Out, All, p

\* What came out first stays at the front.
LEMMA OutGrows ==
    ASSUME NEW c \in Calls, NEW i \in 0..Len(c.text), NEW j \in 0..Len(c.text), i <= j
    PROVE  /\ \E x \in Seq(Chars) : Out(c, j) = Out(c, i) \o x
           /\ Len(Out(c, i)) <= Len(Out(c, j))
<1>0. c.text \in Seq(Chars) /\ c.old_str \in Seq(Chars) /\ c.new_str \in Seq(Chars)
  BY CallIs
<1> DEFINE p == Pieces(c.text, c.old_str, c.new_str)
<1>1. p \in Seq(Seq(Chars)) /\ Len(p) = Len(c.text) /\ Len(c.text) \in Nat
  BY <1>0, PiecesAre
<1> HIDE DEF p
<1>2. i \in Nat /\ j \in Nat /\ j <= Len(p)
  BY <1>1
<1>3. PICK x \in Seq(Chars) : Flat(p, j) = Flat(p, i) \o x
  BY <1>1, <1>2, FlatGrows
<1>4. Out(c, j) = Out(c, i) \o x
  BY <1>3 DEF Out, p
<1>5. PICK a \in Seq(Chars) : a = Out(c, i)
  BY OutIs
<1>6. Len(a) <= Len(a \o x)
  OBVIOUS
<1> QED
  BY <1>4, <1>5, <1>6

\* The two steps of the search, for a call.
LEMMA OutFound ==
    ASSUME NEW c \in Calls, NEW i \in 1..Len(c.text), Sought(c, i),
           Begins(c.text, c.old_str, i)
    PROVE  /\ Len(c.old_str) > 0 /\ i + Len(c.old_str) \in 1 .. Len(c.text) + 1
           /\ i \in Occ(c.text, c.old_str) /\ Sought(c, i + Len(c.old_str))
           /\ \A x \in Occ(c.text, c.old_str) : x < i + Len(c.old_str) => x <= i
           /\ Out(c, i + Len(c.old_str) - 1) = Out(c, i - 1) \o c.new_str
<1>0. c.text \in Seq(Chars) /\ c.old_str \in Seq(Chars) /\ c.new_str \in Seq(Chars)
  BY CallIs
<1>1. Visit(c.text, c.old_str, i)
  BY DEF Sought
<1>2. Len(c.old_str) > 0 /\ i + Len(c.old_str) \in 1 .. Len(c.text) + 1
  BY <1>0, BeginsWithin
<1>3. /\ i \in Occ(c.text, c.old_str) /\ Visit(c.text, c.old_str, i + Len(c.old_str))
      /\ \A x \in Occ(c.text, c.old_str) : x < i + Len(c.old_str) => x <= i
  BY <1>0, <1>1, VisitFound
<1>4. Flat(Pieces(c.text, c.old_str, c.new_str), i + Len(c.old_str) - 1)
         = Flat(Pieces(c.text, c.old_str, c.new_str), i - 1) \o c.new_str
  BY <1>0, <1>1, ScanNew
<1> QED
  BY <1>2, <1>3, <1>4 DEF Sought, Out

LEMMA OutChar ==
    ASSUME NEW c \in Calls, NEW i \in 1..Len(c.text), Sought(c, i),
           ~Begins(c.text, c.old_str, i)
    PROVE  /\ i \notin Occ(c.text, c.old_str) /\ Sought(c, i + 1)
           /\ Out(c, i) = Out(c, i - 1) \o <<c.text[i]>>
           /\ c.text[i] \in Chars
<1>0. c.text \in Seq(Chars) /\ c.old_str \in Seq(Chars) /\ c.new_str \in Seq(Chars)
  BY CallIs
<1>1. c.text[i] \in Chars
  BY <1>0
<1> QED
  BY <1>0, <1>1, VisitNot, ScanChar DEF Sought, Out

-----------------------------------------------------------------------------
\* The properties speak of these.

\* Occurrences and Replaced, which compute from any text, are these.
LEMMA ReplacedIs ==
    ASSUME call \in Calls, NEW text \in Seq(Chars)
    PROVE  /\ Occurrences(text) = Occ(text, call.old_str)
           /\ Replaced(text) = Flat(Pieces(text, call.old_str, call.new_str), Len(text))
<1>0. call.old_str \in Seq(Chars) /\ call.new_str \in Seq(Chars)
  BY CallIs
<1>1. Occurrences(text) = Occ(text, call.old_str)
  BY Zenon DEF Occurrences, Occ, From, Begins, OldLen
<1>2. Replaced(text) = FlattenSeq(Pieces(text, call.old_str, call.new_str))
  BY <1>1, Zenon DEF Replaced, Pieces, Piece, OldLen
<1>3. /\ Pieces(text, call.old_str, call.new_str) \in Seq(Seq(Chars))
      /\ Len(Pieces(text, call.old_str, call.new_str)) = Len(text)
  BY <1>0, PiecesAre
<1> QED
  BY <1>1, <1>2, <1>3, FlatIs

LEMMA KeptIs ==
    ASSUME call \in Calls
    PROVE  /\ Replaced(call.text) = All(call)
           /\ Kept(call.text) = KeptOf(call, Len(call.text))
<1>0. call.text \in Seq(Chars) /\ call.old_str \in Seq(Chars) /\ call.new_str \in Seq(Chars)
  BY CallIs
<1>1. Replaced(call.text) = All(call) /\ Occurrences(call.text) = Occ(call.text, call.old_str)
  BY <1>0, ReplacedIs DEF All, Out
<1>2. ASSUME NEW x \in Occ(call.text, call.old_str)
      PROVE  /\ Replaced(SubSeq(call.text, 1, x - 1)) = Out(call, x - 1)
             /\ x <= Len(call.text)
  <2> DEFINE u == Before(call.text, x)
  <2>1. x \in 1..Len(call.text) /\ Visit(call.text, call.old_str, x) /\ Len(call.text) \in Nat
    BY <1>0, OccVisited
  <2>2. x \in 1 .. Len(call.text) + 1 /\ x <= Len(call.text)
    BY <2>1
  <2> HIDE DEF u
  <2>3. /\ u \in Seq(Chars)
        /\ Flat(Pieces(u, call.old_str, call.new_str), Len(u))
              = Flat(Pieces(call.text, call.old_str, call.new_str), x - 1)
    BY <1>0, <2>1, <2>2, PrefixFlat DEF u
  <2>4. Replaced(u) = Flat(Pieces(u, call.old_str, call.new_str), Len(u))
    BY <2>3, ReplacedIs
  <2>5. Replaced(u) = Out(call, x - 1)
    BY <2>3, <2>4, Zenon DEF Out
  <2> QED
    BY <2>2, <2>5 DEF u, Before
<1>3. \A x \in Occ(call.text, call.old_str) :
         (\/ Len(Replaced(SubSeq(call.text, 1, x - 1))) < MaxIdx
          \/ NewLen = 0 /\ Len(Replaced(SubSeq(call.text, 1, x - 1))) = MaxIdx) <=> Keeps(call, x)
  BY <1>2 DEF Keeps, MaxIdx, NewLen
<1>4. Kept(call.text) = {x \in Occ(call.text, call.old_str) : Keeps(call, x)}
  BY <1>1, <1>3, Zenon DEF Kept
<1> QED
  BY <1>1, <1>2, <1>4 DEF KeptOf

\* There is one string in a memory that holds it.
LEMMA StringIs ==
    ASSUME call \in Calls, NEW m, NEW x \in Seq(Chars), Holds(m, x), m[Len(x)] = Nul,
           Len(x) <= MaxIdx
    PROVE  StringIn(m) = {x}
<1> DEFINE ends == {e \in 0..MaxIdx : m[e] = Nul /\ \A i \in 0 .. e - 1 : m[i] # Nul}
<1>0. MaxIdx \in Nat /\ Len(x) \in Nat
  BY CallIs DEF MaxIdx
<1>1. ASSUME NEW i \in 0 .. Len(x) - 1 PROVE m[i] = x[i + 1] /\ m[i] # Nul
  <2>1. i + 1 \in 1..Len(x) /\ (i + 1) - 1 = i
    BY <1>0
  <2>2. m[i] = x[i + 1] /\ x[i + 1] \in Chars
    BY <2>1 DEF Holds
  <2> QED
    BY <2>2, NulAssumption
<1>2. ends = {Len(x)}
  <2>1. Len(x) \in ends
    BY <1>0, <1>1
  <2>2. ASSUME NEW e \in ends PROVE e = Len(x)
    <3>1. e \in Nat /\ m[e] = Nul /\ \A i \in 0 .. e - 1 : m[i] # Nul
      BY <1>0
    <3>2. ~(e < Len(x))
      BY <1>0, <1>1, <3>1
    <3>3. ~(Len(x) < e)
      BY <1>0, <3>1
    <3> QED
      BY <1>0, <3>1, <3>2, <3>3
  <2> HIDE DEF ends
  <2> QED
    BY <2>1, <2>2
<1>3. [i \in 1..Len(x) |-> m[i - 1]] = x
  <2>1. x = [i \in 1..Len(x) |-> x[i]]
    OBVIOUS
  <2>2. \A i \in 1..Len(x) : m[i - 1] = x[i]
    BY DEF Holds
  <2> QED
    BY <2>1, <2>2
<1>4. StringIn(m) = UNION {{[i \in 1..e |-> m[i - 1]]} : e \in ends}
  BY Zenon DEF StringIn
<1> HIDE DEF ends
<1>5. {{[i \in 1..e |-> m[i - 1]]} : e \in ends} = {{[i \in 1..Len(x) |-> m[i - 1]]}}
  BY <1>2
<1> QED
  BY <1>3, <1>4, <1>5

\* A right result is what Replaces asks for.
LEMMA RightReplaces ==
    ASSUME call \in Calls, Right(call, mem, ret, is_buffer_overflow, length)
    PROVE  Replaces
<1> DEFINE all == Replaced(call.text)
           cut == SubSeq(all, 1, Least(Len(all), MaxIdx))
<1>1. all = All(call) /\ Kept(call.text) = KeptOf(call, Len(call.text))
  BY KeptIs
<1>2. PICK x \in Seq(Chars) :
        /\ x = SubSeq(All(call), 1, Least(Len(All(call)), MaxIdx))
        /\ Holds(mem, x) /\ mem[Len(x)] = Nul /\ Len(x) <= MaxIdx
        /\ is_buffer_overflow = (Len(All(call)) > MaxIdx)
        /\ ret = Cardinality(KeptOf(call, Len(call.text)))
        /\ length = IF call.in_place /\ OldLen = 0 THEN Unset ELSE Len(x)
  BY Zenon DEF Right, MaxIdx, OldLen
<1>3. cut = x
  BY <1>1, <1>2, Zenon
<1> HIDE DEF all
<1>4. /\ StringIn(mem) = {cut}
      /\ is_buffer_overflow = (Len(all) > MaxIdx)
      /\ ret = Cardinality(Kept(call.text))
      /\ length = IF call.in_place /\ OldLen = 0 THEN Unset ELSE Len(cut)
  <2> HIDE DEF cut
  <2>1. StringIn(mem) = {x}
    BY <1>2, StringIs
  <2> QED
    BY <1>1, <1>2, <1>3, <2>1, Zenon
<1> QED
  BY <1>4, Zenon DEF Replaces, all, cut

-----------------------------------------------------------------------------
\* Memory.

\* What is written lies there, and what lies beside it stays.
LEMMA WriteIs ==
    ASSUME NEW m, NEW at \in Nat, NEW chars \in Seq(Chars \cup {Nul}), NEW max \in Nat,
           0..max \subseteq DOMAIN m, at + Len(chars) - 1 <= max
    PROVE  /\ DOMAIN Write(m, at, chars) = DOMAIN m
           /\ \A i \in 1..Len(chars) : Write(m, at, chars)[at + i - 1] = chars[i]
           /\ \A i \in DOMAIN m : i \notin at .. at + Len(chars) - 1 =>
                 Write(m, at, chars)[i] = m[i]
<1>1. PICK n \in Nat : n = Len(chars)
  OBVIOUS
<1>2. ASSUME NEW i \in 1..n
      PROVE  /\ at + i - 1 \in DOMAIN m /\ at + i - 1 \in at .. at + n - 1
             /\ at + i - 1 - at + 1 = i
  BY <1>1
<1> QED
  BY <1>1, <1>2 DEF Write

\* A string with its end.
LEMMA EndedIs ==
    ASSUME NEW y \in Seq(Chars)
    PROVE  /\ y \o <<Nul>> \in Seq(Chars \cup {Nul}) /\ Len(y \o <<Nul>>) = Len(y) + 1
           /\ \A i \in 1..Len(y) : (y \o <<Nul>>)[i] = y[i]
           /\ (y \o <<Nul>>)[Len(y) + 1] = Nul
<1>1. y \in Seq(Chars \cup {Nul})
  OBVIOUS
<1>2. PICK e \in Seq(Chars \cup {Nul}) : e = <<Nul>> /\ Len(e) = 1 /\ e[1] = Nul
  <2>1. <<Nul>> \in Seq(Chars \cup {Nul}) /\ Len(<<Nul>>) = 1 /\ <<Nul>>[1] = Nul
    OBVIOUS
  <2> QED
    BY <2>1
<1>3. PICK n \in Nat : n = Len(y)
  OBVIOUS
<1>4. /\ y \o e \in Seq(Chars \cup {Nul}) /\ Len(y \o e) = n + 1
      /\ \A i \in 1..n : (y \o e)[i] = y[i]
  BY <1>1, <1>2, <1>3
<1>5. (y \o e)[n + 1] = e[1]
  BY <1>1, <1>2, <1>3
<1> QED
  BY <1>2, <1>3, <1>4, <1>5

\* A memory that begins with x begins with x and y once y is written behind x,
\* with something behind it or not.
LEMMA WriteHolds ==
    ASSUME NEW m, NEW x \in Seq(Chars), NEW y \in Seq(Chars), NEW max \in Nat,
           0..max \subseteq DOMAIN m, Holds(m, x),
           NEW chars \in Seq(Chars \cup {Nul}), Len(y) <= Len(chars),
           \A i \in 1..Len(y) : chars[i] = y[i], Len(x) + Len(chars) - 1 <= max
    PROVE  /\ DOMAIN Write(m, Len(x), chars) = DOMAIN m
           /\ x \o y \in Seq(Chars) /\ Len(x \o y) = Len(x) + Len(y)
           /\ Holds(Write(m, Len(x), chars), x \o y)
           /\ \A i \in 1..Len(chars) : Write(m, Len(x), chars)[Len(x) + i - 1] = chars[i]
           /\ \A i \in DOMAIN m \cap Nat : i >= Len(x) + Len(chars) =>
                 Write(m, Len(x), chars)[i] = m[i]
<1>0. PICK l \in Nat, n \in Nat, k \in Nat : l = Len(x) /\ n = Len(y) /\ k = Len(chars)
  OBVIOUS
<1> DEFINE w == Write(m, l, chars)
<1>4. /\ DOMAIN w = DOMAIN m
      /\ \A i \in 1..k : w[l + i - 1] = chars[i]
      /\ \A i \in DOMAIN m : i \notin l .. l + k - 1 => w[i] = m[i]
  <2>1. l + Len(chars) - 1 <= max
    BY <1>0
  <2>2. /\ DOMAIN w = DOMAIN m
        /\ \A i \in 1..Len(chars) : w[l + i - 1] = chars[i]
        /\ \A i \in DOMAIN m : i \notin l .. l + Len(chars) - 1 => w[i] = m[i]
    BY <2>1, WriteIs
  <2> QED
    BY <1>0, <2>2, Zenon
<1>5. x \o y \in Seq(Chars) /\ Len(x \o y) = l + n
  BY <1>0
<1> HIDE DEF w
<1>6. ASSUME NEW i \in 1 .. l + n PROVE w[i - 1] = (x \o y)[i]
  <2>1. CASE i <= l
    <3>1. i - 1 \in DOMAIN m /\ i - 1 \notin l .. l + k - 1
      <4>1. i - 1 \in 0..max
        BY <1>0, <2>1
      <4>2. i - 1 \notin l .. l + k - 1
        BY <2>1
      <4> QED
        BY <4>1, <4>2
    <3>2. w[i - 1] = m[i - 1]
      BY <1>4, <3>1
    <3>3. i \in 1..Len(x) /\ (x \o y)[i] = x[i]
      BY <1>0, <2>1
    <3> QED
      BY <3>2, <3>3 DEF Holds
  <2>2. CASE ~(i <= l)
    <3>1. PICK j \in 1..n : i = l + j
      <4>1. i - l \in 1..n /\ i = l + (i - l)
        BY <1>0, <2>2
      <4> QED
        BY <4>1
    <3>2. j \in 1..k /\ i - 1 = l + j - 1 /\ j \in 1..Len(y)
      BY <1>0, <3>1
    <3>3. w[i - 1] = y[j]
      BY <1>4, <3>2
    <3>4. (x \o y)[i] = y[j]
      BY <1>0, <3>1
    <3> QED
      BY <3>3, <3>4
  <2> QED
    BY <2>1, <2>2
<1>8. \A i \in DOMAIN m \cap Nat : i >= l + k => w[i] = m[i]
  <2>1. \A i \in Nat : i >= l + k => i \notin l .. l + k - 1
    OBVIOUS
  <2> QED
    BY <1>4, <2>1
<1>9. Holds(w, x \o y)
  BY <1>5, <1>6 DEF Holds
<1> QED
  BY <1>0, <1>4, <1>5, <1>8, <1>9 DEF w

\* Without an end, and with one.
LEMMA WriteMore ==
    ASSUME NEW m, NEW x \in Seq(Chars), NEW y \in Seq(Chars), NEW max \in Nat,
           0..max \subseteq DOMAIN m, Holds(m, x), Len(x) + Len(y) - 1 <= max
    PROVE  /\ DOMAIN Write(m, Len(x), y) = DOMAIN m
           /\ x \o y \in Seq(Chars) /\ Len(x \o y) = Len(x) + Len(y)
           /\ Holds(Write(m, Len(x), y), x \o y)
           /\ \A i \in DOMAIN m \cap Nat : i >= Len(x) + Len(y) => Write(m, Len(x), y)[i] = m[i]
<1>1. y \in Seq(Chars \cup {Nul}) /\ Len(y) <= Len(y) /\ \A i \in 1..Len(y) : y[i] = y[i]
  OBVIOUS
<1> QED
  BY <1>1, WriteHolds

LEMMA WriteEnd ==
    ASSUME NEW m, NEW x \in Seq(Chars), NEW y \in Seq(Chars), NEW max \in Nat,
           0..max \subseteq DOMAIN m, Holds(m, x), Len(x) + Len(y) <= max
    PROVE  /\ DOMAIN Write(m, Len(x), y \o <<Nul>>) = DOMAIN m
           /\ x \o y \in Seq(Chars) /\ Len(x \o y) = Len(x) + Len(y)
           /\ Holds(Write(m, Len(x), y \o <<Nul>>), x \o y)
           /\ Write(m, Len(x), y \o <<Nul>>)[Len(x \o y)] = Nul
<1>0. PICK l \in Nat, n \in Nat : l = Len(x) /\ n = Len(y)
  OBVIOUS
<1> DEFINE chars == y \o <<Nul>>
<1>1. /\ chars \in Seq(Chars \cup {Nul}) /\ Len(chars) = n + 1
      /\ \A i \in 1..Len(y) : chars[i] = y[i]
      /\ chars[n + 1] = Nul
  BY <1>0, EndedIs
<1> HIDE DEF chars
<1>2. Len(y) <= Len(chars) /\ Len(x) + Len(chars) - 1 <= max
  BY <1>0, <1>1
<1>3. Holds(Write(m, Len(x), chars), x \o y)
  BY <1>1, <1>2, WriteHolds
<1>4. x \o y \in Seq(Chars) /\ Len(x \o y) = l + n
  BY <1>0
<1>5. DOMAIN Write(m, l, chars) = DOMAIN m
  BY DEF Write
<1>6. l + n \in DOMAIN m
  BY <1>0
<1>7. Write(m, l, chars)[l + n] = Nul
  <2>1. l + n \in l .. l + Len(chars) - 1 /\ l + n - l + 1 = n + 1
    BY <1>1
  <2>2. Write(m, l, chars)[l + n] = chars[l + n - l + 1]
    BY <1>6, <2>1 DEF Write
  <2> QED
    BY <1>1, <2>1, <2>2
<1> QED
  BY <1>0, <1>3, <1>4, <1>5, <1>7 DEF chars

\* Comparing memory finds what an occurrence is, as the text ends with Nul.
LEMMA MatchIs ==
    ASSUME call \in Calls, OldLen # 0, NEW m, NEW k \in 0 .. TextLen - 1, TextFrom(m, call, k)
    PROVE  Matches(m, k) <=> Begins(call.text, call.old_str, k + 1)
<1>0. call.text \in Seq(Chars) /\ call.old_str \in Seq(Chars)
  BY CallIs
<1>1. PICK l \in Nat, n \in Nat : l = Len(call.old_str) /\ n = Len(call.text)
  BY <1>0
<1>2. k + 1 \in 1..n /\ k \in Nat /\ l > 0
  BY <1>1 DEF TextLen, OldLen
<1>3. Begins(call.text, call.old_str, k + 1) <=>
         k + l <= n /\ \A j \in 1..l : call.text[k + j] = call.old_str[j]
  <2>1. Begins(call.text, call.old_str, k + 1) <=>
           /\ l > 0 /\ k + 1 + l - 1 <= n
           /\ \A j \in 1..l : call.text[k + 1 + j - 1] = call.old_str[j]
    BY <1>0, <1>1, <1>2, BeginsIs
  <2>2. k + 1 + l - 1 = k + l /\ \A j \in 1..l : k + 1 + j - 1 = k + j
    BY <1>2
  <2> QED
    BY <1>2, <2>1, <2>2
<1>4. CASE k + l <= n
  <2>1. ASSUME NEW j \in 1..l PROVE m[k + j - 1] = call.text[k + j]
    <3>1. k + j - 1 \in k .. n - 1 /\ k + j - 1 + 1 = k + j
      BY <1>2, <1>4
    <3> QED
      BY <1>1, <3>1 DEF TextFrom
  <2> QED
    BY <1>1, <1>3, <1>4, <2>1 DEF Matches, OldLen
<1>5. CASE ~(k + l <= n)
  <2>1. PICK j \in 1..l : k + j - 1 = n
    <3>1. n - k + 1 \in 1..l /\ k + (n - k + 1) - 1 = n
      BY <1>2, <1>5
    <3> QED
      BY <3>1
  <2>2. m[k + j - 1] = Nul /\ call.old_str[j] \in Chars
    BY <1>0, <1>1, <2>1 DEF TextFrom
  <2>3. ~Matches(m, k)
    BY <1>1, <2>2, NulAssumption DEF Matches, OldLen
  <2> QED
    BY <1>3, <1>5, <2>3
<1> QED
  BY <1>4, <1>5

\* The memory a call can reach holds the buffer and as much as the text is long.
LEMMA AroundIs ==
    ASSUME NEW c \in Calls
    PROVE  /\ 0 .. c.dst_size - 1 \subseteq DOMAIN Around(c)
           /\ 0..Len(c.text) \subseteq DOMAIN Around(c)
<1>1. c.text \in Seq(Chars) /\ c.old_str \in Seq(Chars) /\ c.new_str \in Seq(Chars)
      /\ c.dst_size \in Nat
  BY CallIs
<1>2. PICK n \in Nat, r \in Nat, z \in Nat :
        n = Len(c.text) /\ r = Reach(c) /\ z = c.dst_size /\ r >= n
  BY <1>1, ReachIs
<1>3. DOMAIN Around(c) = -r .. z + r
  BY <1>2 DEF Around
<1> QED
  BY <1>2, <1>3

\* A memory into which the text is written.
LEMMA TextWritten ==
    ASSUME NEW c \in Calls
    PROVE  /\ DOMAIN Write(Around(c), 0, c.text \o <<Nul>>) = DOMAIN Around(c)
           /\ TextFrom(Write(Around(c), 0, c.text \o <<Nul>>), c, 0)
<1> DEFINE m == Around(c)
           w == Write(m, 0, c.text \o <<Nul>>)
<1>1. c.text \in Seq(Chars)
  BY CallIs
<1>2. PICK n \in Nat : n = Len(c.text)
  BY <1>1
<1>3. 0..n \subseteq DOMAIN m
  BY <1>2, AroundIs
<1>4. PICK chars \in Seq(Chars \cup {Nul}) :
        /\ chars = c.text \o <<Nul>> /\ Len(chars) = n + 1
        /\ \A i \in 1..n : chars[i] = c.text[i]
        /\ chars[n + 1] = Nul
  BY <1>1, <1>2, EndedIs
<1>5. w = Write(m, 0, chars)
  BY <1>4
<1> HIDE DEF m, w
<1>6. DOMAIN w = DOMAIN m /\ \A i \in 1..Len(chars) : w[0 + i - 1] = chars[i]
  <2>1. 0 \in Nat /\ 0 + Len(chars) - 1 <= n
    BY <1>4
  <2> QED
    BY <1>3, <1>5, <2>1, WriteIs
<1>7. ASSUME NEW i \in 0 .. n - 1 PROVE w[i] = c.text[i + 1]
  <2>1. i + 1 \in 1..Len(chars) /\ i + 1 \in 1..n /\ 0 + (i + 1) - 1 = i
    BY <1>4
  <2> QED
    BY <1>4, <1>6, <2>1
<1>8. w[n] = Nul
  <2>1. n + 1 \in 1..Len(chars) /\ 0 + (n + 1) - 1 = n
    BY <1>4
  <2> QED
    BY <1>4, <1>6, <2>1
<1> QED
  BY <1>2, <1>6, <1>7, <1>8 DEF TextFrom, w, m

\* The first max characters.
LEMMA CutIs ==
    ASSUME NEW y \in Seq(Chars), NEW z \in Seq(Chars), NEW max \in Nat,
           Len(y) = max \/ (Len(y) <= max /\ Len(z) = 0)
    PROVE  SubSeq(y \o z, 1, Least(Len(y \o z), max)) = y
<1>1. PICK k \in Nat, n \in Nat : k = Len(y) /\ n = Len(z)
  OBVIOUS
<1>2. PICK a \in Seq(Chars) : a = y \o z /\ Len(a) = k + n /\ \A i \in 1..k : a[i] = y[i]
  <2>1. y \o z \in Seq(Chars) /\ Len(y \o z) = k + n /\ \A i \in 1..k : (y \o z)[i] = y[i]
    BY <1>1
  <2> QED
    BY <2>1
<1>3. Least(Len(a), max) = k
  BY <1>1, <1>2 DEF Least
<1>4. SubSeq(a, 1, k) = y
  <2>1. PICK b \in Seq(Chars) : b = SubSeq(a, 1, k) /\ Len(b) = k /\ \A i \in 1..k : b[i] = a[i]
    <3>1. /\ SubSeq(a, 1, k) \in Seq(Chars) /\ Len(SubSeq(a, 1, k)) = k
          /\ \A i \in 1..k : SubSeq(a, 1, k)[i] = a[i]
      BY <1>1, <1>2
    <3> QED
      BY <3>1
  <2>2. \A i \in 1..k : b[i] = y[i]
    BY <1>2, <2>1
  <2>3. b = y
    BY <1>1, <2>1, <2>2
  <2> QED
    BY <2>1, <2>3
<1> QED
  BY <1>2, <1>3, <1>4

\* Behind the place where the buffer is full, nothing is left of an occurrence.
LEMMA LaterLost ==
    ASSUME NEW c \in Calls, NEW n \in 0..Len(c.text), Len(Out(c, n)) > c.dst_size - 1
    PROVE  KeptOf(c, Len(c.text)) = KeptOf(c, n)
<1>0. /\ Len(c.text) \in Nat /\ c.dst_size \in Nat /\ c.text \in Seq(Chars)
      /\ c.old_str \in Seq(Chars)
  BY CallIs
<1>1. ASSUME NEW x \in Occ(c.text, c.old_str), ~(x <= n) PROVE ~Keeps(c, x)
  <2>1. x \in 1..Len(c.text)
    BY <1>0, OccIs
  <2>2. x - 1 \in 0..Len(c.text) /\ n <= x - 1
    BY <1>0, <1>1, <2>1
  <2>3. Len(Out(c, n)) <= Len(Out(c, x - 1))
    BY <2>2, OutGrows
  <2>4. Len(Out(c, x - 1)) \in Nat /\ Len(Out(c, n)) \in Nat
    BY <2>2, OutIs
  <2> QED
    BY <1>0, <2>3, <2>4 DEF Keeps
<1>2. \A x \in Occ(c.text, c.old_str) : x <= Len(c.text) /\ (x <= n => x <= Len(c.text))
  BY <1>0, OccIs
<1> QED
  BY <1>1, <1>2 DEF KeptOf

\* A place the search looks at, and one more occurrence.
LEMMA CountFound ==
    ASSUME NEW c \in Calls, NEW i \in 1..Len(c.text), Sought(c, i),
           Begins(c.text, c.old_str, i)
    PROVE  Cardinality(KeptOf(c, i + Len(c.old_str) - 1))
              = Cardinality(KeptOf(c, i - 1)) + (IF Keeps(c, i) THEN 1 ELSE 0)
<1>0. c.text \in Seq(Chars) /\ c.old_str \in Seq(Chars) /\ Len(c.text) \in Nat
      /\ Len(c.old_str) \in Nat
  BY CallIs
<1>1. /\ i \in Occ(c.text, c.old_str) /\ Len(c.old_str) > 0
      /\ \A x \in Occ(c.text, c.old_str) : x < i + Len(c.old_str) => x <= i
  BY OutFound
<1>2. \A x \in Occ(c.text, c.old_str) : x \in Nat
  BY <1>0, OccIs
<1>3. \A x \in Occ(c.text, c.old_str) :
         x <= i + Len(c.old_str) - 1 <=> (x <= i - 1 \/ x = i)
  BY <1>0, <1>1, <1>2
<1>4. KeptOf(c, i + Len(c.old_str) - 1) = KeptOf(c, i - 1) \cup (IF Keeps(c, i) THEN {i} ELSE {})
  BY <1>1, <1>3 DEF KeptOf
<1>5. i \notin KeptOf(c, i - 1) /\ IsFiniteSet(KeptOf(c, i - 1))
  <2>1. KeptOf(c, i - 1) \subseteq Occ(c.text, c.old_str)
    BY DEF KeptOf
  <2>2. IsFiniteSet(KeptOf(c, i - 1))
    BY <1>0, <2>1, OccFinite, FS_Subset
  <2> QED
    BY <2>2 DEF KeptOf
<1> DEFINE K == KeptOf(c, i - 1)
<1>6. Cardinality(K) \in Nat
  BY <1>5, FS_CardinalityType
<1>7. Cardinality(K \cup {i}) = Cardinality(K) + 1
  BY <1>5, FS_AddElement
<1>8. K \cup {} = K
  OBVIOUS
<1> HIDE DEF K
<1>9. CASE Keeps(c, i)
  BY <1>4, <1>7, <1>9 DEF K
<1>10. CASE ~Keeps(c, i)
  <2>1. KeptOf(c, i + Len(c.old_str) - 1) = K
    BY <1>4, <1>8, <1>10 DEF K
  <2>2. Cardinality(K) = Cardinality(K) + 0
    BY <1>6
  <2>3. Cardinality(KeptOf(c, i + Len(c.old_str) - 1)) = Cardinality(K) + 0
    BY <2>1, <2>2
  <2> QED
    BY <1>10, <2>3, Zenon DEF K
<1> QED
  BY <1>9, <1>10

\* How many of the occurrences count.
LEMMA CountChar ==
    ASSUME NEW c \in Calls, NEW i \in 1..Len(c.text), i \notin Occ(c.text, c.old_str)
    PROVE  KeptOf(c, i) = KeptOf(c, i - 1)
<1>0. c.text \in Seq(Chars) /\ c.old_str \in Seq(Chars)
  BY CallIs
<1>2. \A x \in Occ(c.text, c.old_str) : x \in Nat /\ x # i
  BY <1>0, OccIs
<1>3. \A x \in Occ(c.text, c.old_str) : x <= i <=> x <= i - 1
  BY <1>2
<1> QED
  BY <1>3 DEF KeptOf

LEMMA KeptCount ==
    ASSUME NEW c \in Calls, NEW n
    PROVE  Cardinality(KeptOf(c, n)) \in Nat
<1>1. c.text \in Seq(Chars) /\ c.old_str \in Seq(Chars)
  BY CallIs
<1>2. KeptOf(c, n) \subseteq Occ(c.text, c.old_str)
  BY DEF KeptOf
<1> QED
  BY <1>1, <1>2, OccFinite, FS_Subset, FS_CardinalityType

LEMMA CountNone ==
    ASSUME NEW c \in Calls
    PROVE  Cardinality(KeptOf(c, 0)) = 0
<1>0. c.text \in Seq(Chars) /\ c.old_str \in Seq(Chars)
  BY CallIs
<1>1. KeptOf(c, 0) = {}
  BY <1>0, OccIs DEF KeptOf
<1> QED
  BY <1>1, FS_EmptySet

-----------------------------------------------------------------------------
\* The loop from the left.

\* What has been read has been replaced, what is still to be read is the text's:
\* the strengthening of Replaces for the loop from the left.
ScanInv ==
    /\ call \in Calls
    /\ DOMAIN mem = DOMAIN Around(call)
    /\ pc = "start" =>
        /\ s = 0 /\ d = 0 /\ ret = 0 /\ length = Unset /\ is_buffer_overflow = FALSE
        /\ call.in_place => TextFrom(mem, call, 0)
    /\ ~Grows => pc \in {"start", "replace", "done"}
    /\ pc = "replace" =>
        /\ OldLen # 0 /\ ~Grows /\ s \in 0..TextLen /\ Sought(call, s + 1)
        /\ d = Len(Out(call, s)) /\ d <= MaxIdx /\ Holds(mem, Out(call, s))
        /\ call.in_place => d <= s /\ TextFrom(mem, call, s)
        /\ ret = Cardinality(KeptOf(call, s))
        /\ is_buffer_overflow = FALSE
    /\ (pc = "done" /\ ~Grows) => Right(call, mem, ret, is_buffer_overflow, length)

\* Every step keeps it.
LEMMA ScanInit == Init => ScanInv
<1> SUFFICES ASSUME Init PROVE ScanInv
  OBVIOUS
<1>1. call \in Calls /\ pc = "start"
  BY DEF Init
<1>2. CASE call.in_place
  <2>1. mem = Write(Around(call), 0, call.text \o <<Nul>>)
    BY <1>2 DEF Init
  <2>2. DOMAIN mem = DOMAIN Around(call) /\ TextFrom(mem, call, 0)
    BY <1>1, <2>1, TextWritten
  <2> QED
    BY <1>1, <2>2 DEF Init, ScanInv
<1>3. CASE ~call.in_place
  BY <1>1, <1>3 DEF Init, ScanInv
<1> QED
  BY <1>2, <1>3

\* In place and not growing, what is inserted is not longer.
LEMMA Shrinks ==
    ASSUME call \in Calls, ~Grows, OldLen # 0, call.in_place
    PROVE  NewLen <= OldLen
<1>1. OldLen \in Nat /\ NewLen \in Nat
  BY CallIs DEF OldLen, NewLen
<1> QED
  BY <1>1 DEF Grows

\* The characters the loop reads are the text's.
LEMMA SrcIs ==
    ASSUME ScanInv, pc = "replace"
    PROVE  TextFrom(Src, call, s)
<1>1. CASE call.in_place
  BY <1>1 DEF ScanInv, Src
<1>2. CASE ~call.in_place
  <2>1. TextFrom(Src, call, 0)
    BY <1>2, TextWritten DEF ScanInv, Src
  <2>2. s \in 0..TextLen /\ TextLen \in Nat
    BY CallIs DEF ScanInv, TextLen
  <2>3. \A i \in s .. TextLen - 1 : i \in 0 .. TextLen - 1
    BY <2>2
  <2> QED
    BY <2>1, <2>3 DEF TextFrom, TextLen
<1> QED
  BY <1>1, <1>2

\* The cursors and what is known of them in the loop.
LEMMA ScanIs ==
    ASSUME ScanInv, pc = "replace"
    PROVE  /\ call \in Calls /\ TextLen \in Nat /\ OldLen \in Nat /\ NewLen \in Nat /\ OldLen > 0
           /\ MaxIdx \in Nat /\ MaxIdx = call.dst_size - 1 /\ 0..MaxIdx \subseteq DOMAIN mem
           /\ s \in 0..TextLen /\ d \in 0..MaxIdx
           /\ Out(call, s) \in Seq(Chars) /\ Len(Out(call, s)) = d
           /\ s < TextLen => s + 1 \in 1..Len(call.text)
           /\ s < TextLen => (Matches(Src, s) <=> Begins(call.text, call.old_str, s + 1))
<1>1. call \in Calls /\ OldLen # 0 /\ s \in 0..TextLen /\ d = Len(Out(call, s)) /\ d <= MaxIdx
      /\ DOMAIN mem = DOMAIN Around(call)
  BY DEF ScanInv
<1>2. /\ TextLen \in Nat /\ OldLen \in Nat /\ NewLen \in Nat /\ OldLen > 0
      /\ MaxIdx \in Nat /\ MaxIdx = call.dst_size - 1
  <2>1. OldLen \in Nat /\ TextLen \in Nat /\ NewLen \in Nat
    BY <1>1, CallIs DEF OldLen, TextLen, NewLen
  <2>2. MaxIdx \in Nat
    BY <1>1, CallIs DEF MaxIdx
  <2> QED
    BY <1>1, <2>1, <2>2 DEF MaxIdx
<1>3. 0..MaxIdx \subseteq DOMAIN mem
  BY <1>1, <1>2, AroundIs
<1>4. Out(call, s) \in Seq(Chars) /\ d \in 0..MaxIdx
  <2>1. Out(call, s) \in Seq(Chars) /\ Len(Out(call, s)) \in Nat
    BY <1>1, OutIs DEF TextLen
  <2> QED
    BY <1>1, <1>2, <2>1
<1>5. ASSUME s < TextLen
      PROVE  /\ s + 1 \in 1..Len(call.text)
             /\ Matches(Src, s) <=> Begins(call.text, call.old_str, s + 1)
  <2>1. s \in 0 .. TextLen - 1 /\ s + 1 \in 1..TextLen
    BY <1>1, <1>2, <1>5
  <2>2. TextFrom(Src, call, s)
    BY SrcIs
  <2>3. Matches(Src, s) <=> Begins(call.text, call.old_str, s + 1)
    BY <1>1, <2>1, <2>2, MatchIs
  <2> QED
    BY <2>1, <2>3 DEF TextLen
<1> QED
  BY <1>1, <1>2, <1>3, <1>4, <1>5

\* A step into or within the loop, and one that ends the call.
LEMMA ScanKeeps ==
    ASSUME ScanInv, UNCHANGED call, ~Grows, DOMAIN mem' = DOMAIN mem, pc' = "replace",
           OldLen # 0, s' \in 0..TextLen, Sought(call, s' + 1),
           d' = Len(Out(call, s')), d' <= MaxIdx, Holds(mem', Out(call, s')),
           call.in_place => d' <= s' /\ TextFrom(mem', call, s'),
           ret' = Cardinality(KeptOf(call, s')), is_buffer_overflow' = FALSE
    PROVE  ScanInv'
BY DEF ScanInv, Grows, OldLen, NewLen, TextLen, MaxIdx

LEMMA ScanEnds ==
    ASSUME ScanInv, UNCHANGED call, DOMAIN mem' = DOMAIN mem, pc' = "done",
           Right(call, mem', ret', is_buffer_overflow', length')
    PROVE  ScanInv'
BY DEF ScanInv

LEMMA ScanBranch == ScanInv /\ Branch /\ ~Grows => ScanInv'
<1> SUFFICES ASSUME ScanInv, Branch, ~Grows PROVE ScanInv'
  OBVIOUS
<1>1. /\ pc = "start" /\ OldLen # 0 /\ pc' = "replace" /\ call' = call /\ mem' = mem
      /\ s' = s /\ d' = d /\ ret' = ret /\ is_buffer_overflow' = is_buffer_overflow
  BY DEF Branch, Goes, args, results
<1>2. /\ call \in Calls /\ s = 0 /\ d = 0 /\ ret = 0 /\ is_buffer_overflow = FALSE
      /\ call.in_place => TextFrom(mem, call, 0)
  BY <1>1 DEF ScanInv
<1>3. TextLen \in Nat /\ MaxIdx \in Nat
  BY <1>2, CallIs DEF TextLen, MaxIdx
<1>4. Sought(call, 0 + 1)
  <2>1. call.text \in Seq(Chars) /\ call.old_str \in Seq(Chars) /\ 0 + 1 = 1
    BY <1>2, CallIs
  <2> QED
    BY <2>1, VisitFirst DEF Sought
<1>5. Out(call, 0) = <<>> /\ Len(Out(call, 0)) = 0 /\ Holds(mem, Out(call, 0))
  <2>1. Out(call, 0) = <<>>
    BY <1>2, OutIs
  <2>2. Len(<<>>) = 0
    OBVIOUS
  <2> QED
    BY <2>1, <2>2 DEF Holds
<1>6. Cardinality(KeptOf(call, 0)) = 0
  BY <1>2, CountNone
<1>7. s' = 0 /\ d' = 0 /\ s' \in 0..TextLen /\ d' <= MaxIdx /\ d' <= s'
  BY <1>1, <1>2, <1>3
<1> QED
  BY <1>1, <1>2, <1>4, <1>5, <1>6, <1>7, ScanKeeps

LEMMA ScanCopyChar == ScanInv /\ CopyChar => ScanInv'
<1> SUFFICES ASSUME ScanInv, CopyChar PROVE ScanInv'
  OBVIOUS
<1>1. /\ pc = "replace" /\ s < TextLen /\ ~Matches(Src, s) /\ d < MaxIdx
      /\ mem' = Write(mem, d, <<Src[s]>>) /\ d' = d + 1 /\ s' = s + 1
      /\ call' = call /\ ret' = ret /\ is_buffer_overflow' = is_buffer_overflow /\ pc' = pc
  BY DEF CopyChar, NotFoundYet, args, results
<1>2. /\ call \in Calls /\ TextLen \in Nat /\ OldLen > 0
      /\ MaxIdx \in Nat /\ 0..MaxIdx \subseteq DOMAIN mem
      /\ s \in 0..TextLen /\ d \in 0..MaxIdx
      /\ Out(call, s) \in Seq(Chars) /\ Len(Out(call, s)) = d
      /\ s + 1 \in 1..Len(call.text)
      /\ ~Begins(call.text, call.old_str, s + 1)
  BY <1>1, ScanIs
<1>3. /\ Sought(call, s + 1) /\ ~Grows /\ OldLen # 0 /\ Holds(mem, Out(call, s))
      /\ call.in_place => d <= s /\ TextFrom(mem, call, s)
      /\ ret = Cardinality(KeptOf(call, s)) /\ is_buffer_overflow = FALSE
      /\ DOMAIN mem = DOMAIN Around(call)
  BY <1>1 DEF ScanInv
<1>4. /\ s + 1 \notin Occ(call.text, call.old_str) /\ Sought(call, s + 1 + 1)
      /\ Out(call, s + 1) = Out(call, s) \o <<call.text[s + 1]>>
      /\ call.text[s + 1] \in Chars
  <2>1. PICK i \in 1..Len(call.text) : i = s + 1 /\ i - 1 = s
    BY <1>2
  <2>2. Sought(call, i) /\ ~Begins(call.text, call.old_str, i)
    BY <1>2, <1>3, <2>1
  <2>3. /\ i \notin Occ(call.text, call.old_str) /\ Sought(call, i + 1)
        /\ Out(call, i) = Out(call, i - 1) \o <<call.text[i]>>
        /\ call.text[i] \in Chars
    BY <1>2, <2>2, OutChar
  <2> QED
    BY <2>1, <2>3
<1>5. s + 1 - 1 = s
  BY <1>2
<1>6. Src[s] = call.text[s + 1]
  <2>1. TextFrom(Src, call, s)
    BY <1>1, SrcIs
  <2>2. s \in s .. Len(call.text) - 1
    BY <1>2
  <2> QED
    BY <2>1, <2>2 DEF TextFrom
<1> DEFINE x == Out(call, s)
<1>7. PICK y \in Seq(Chars) : y = <<Src[s]>> /\ Len(y) = 1
  <2>1. <<Src[s]>> \in Seq(Chars) /\ Len(<<Src[s]>>) = 1
    BY <1>4, <1>6
  <2> QED
    BY <2>1
<1>8. Out(call, s + 1) = x \o y /\ x \in Seq(Chars) /\ Len(x) = d /\ Holds(mem, x)
  BY <1>2, <1>3, <1>4, <1>5, <1>6, <1>7
<1>9. mem' = Write(mem, Len(x), y)
  BY <1>1, <1>7, <1>8
<1> HIDE DEF x
<1>10. Len(x) + Len(y) - 1 <= MaxIdx
  BY <1>1, <1>2, <1>7, <1>8
<1>11. /\ DOMAIN mem' = DOMAIN mem
       /\ x \o y \in Seq(Chars) /\ Len(x \o y) = Len(x) + Len(y)
       /\ Holds(mem', x \o y)
       /\ \A i \in DOMAIN mem \cap Nat : i >= Len(x) + Len(y) => mem'[i] = mem[i]
  <2>1. Len(y) \in Nat /\ Holds(mem, x) /\ x \in Seq(Chars)
    BY <1>8
  <2> QED
    BY <1>2, <1>9, <1>10, <2>1, WriteMore
<1>12. d' = Len(Out(call, s')) /\ d' <= MaxIdx /\ Holds(mem', Out(call, s'))
  <2>1. Out(call, s') = x \o y /\ d' = d + Len(y)
    BY <1>1, <1>7, <1>8
  <2>2. d + Len(y) <= MaxIdx
    BY <1>1, <1>2, <1>7
  <2> QED
    BY <1>8, <1>11, <2>1, <2>2
<1>13. call.in_place => d' <= s' /\ TextFrom(mem', call, s')
  <2> SUFFICES ASSUME call.in_place PROVE d' <= s' /\ TextFrom(mem', call, s')
    OBVIOUS
  <2>1. d <= s /\ TextFrom(mem, call, s)
    BY <1>3
  <2>2. ASSUME NEW i \in s + 1 .. Len(call.text)
        PROVE  mem'[i] = mem[i]
    <3>1. i \in 0..Len(call.text) /\ i \in Nat
      BY <1>2
    <3>2. i \in DOMAIN mem
      BY <1>2, <1>3, <3>1, AroundIs
    <3>3. i >= Len(x) + Len(y)
      BY <1>2, <1>7, <1>8, <2>1
    <3> QED
      BY <1>11, <3>1, <3>2, <3>3
  <2>3. TextFrom(mem', call, s + 1)
    <3>1. Len(call.text) \in Nat
      BY <1>2 DEF TextLen
    <3>2. ASSUME NEW i \in s + 1 .. Len(call.text) - 1 PROVE mem'[i] = call.text[i + 1]
      <4>1. i \in s + 1 .. Len(call.text) /\ i \in s .. Len(call.text) - 1
        BY <1>2, <3>1
      <4> QED
        BY <2>1, <2>2, <4>1 DEF TextFrom
    <3>3. Len(call.text) \in s + 1 .. Len(call.text)
      BY <1>2, <3>1
    <3> QED
      BY <2>1, <2>2, <3>2, <3>3 DEF TextFrom
  <2>4. d' <= s'
    BY <1>1, <1>2, <2>1
  <2> QED
    BY <1>1, <2>3, <2>4
<1>14. ret' = Cardinality(KeptOf(call, s'))
  <2>1. KeptOf(call, s + 1) = KeptOf(call, s + 1 - 1)
    BY <1>2, <1>4, CountChar
  <2> QED
    BY <1>1, <1>3, <1>5, <2>1
<1>15. s' \in 0..TextLen
  BY <1>1, <1>2
<1> QED
  BY <1>1, <1>3, <1>4, <1>11, <1>12, <1>13, <1>14, <1>15, ScanKeeps

LEMMA ScanCopyNew == ScanInv /\ CopyNew => ScanInv'
<1> SUFFICES ASSUME ScanInv, CopyNew PROVE ScanInv'
  OBVIOUS
<1>1. /\ pc = "replace" /\ s < TextLen /\ Matches(Src, s) /\ NewLen <= MaxIdx - d
      /\ mem' = Write(mem, d, call.new_str) /\ d' = d + NewLen /\ s' = s + OldLen
      /\ call' = call /\ ret' = Counted /\ is_buffer_overflow' = is_buffer_overflow /\ pc' = pc
  BY DEF CopyNew, Found, NewFits, args
<1>2. /\ call \in Calls /\ TextLen \in Nat /\ OldLen \in Nat /\ OldLen > 0 /\ NewLen \in Nat
      /\ MaxIdx \in Nat /\ MaxIdx = call.dst_size - 1 /\ 0..MaxIdx \subseteq DOMAIN mem
      /\ s \in 0..TextLen /\ d \in 0..MaxIdx
      /\ Out(call, s) \in Seq(Chars) /\ Len(Out(call, s)) = d
      /\ s + 1 \in 1..Len(call.text)
      /\ Begins(call.text, call.old_str, s + 1)
  BY <1>1, ScanIs
<1>3. /\ Sought(call, s + 1) /\ ~Grows /\ OldLen # 0 /\ Holds(mem, Out(call, s))
      /\ call.in_place => d <= s /\ TextFrom(mem, call, s)
      /\ ret = Cardinality(KeptOf(call, s)) /\ is_buffer_overflow = FALSE
      /\ DOMAIN mem = DOMAIN Around(call)
  BY <1>1 DEF ScanInv
<1>4. /\ s + 1 + OldLen \in 1 .. TextLen + 1
      /\ Sought(call, s + 1 + OldLen)
      /\ Out(call, s + 1 + OldLen - 1) = Out(call, s + 1 - 1) \o call.new_str
  BY <1>2, <1>3, OutFound DEF OldLen, TextLen
<1>5. s + 1 - 1 = s /\ s + 1 + OldLen - 1 = s + OldLen /\ s + 1 + OldLen = s + OldLen + 1
  BY <1>2
<1> DEFINE x == Out(call, s)
<1>7. PICK y \in Seq(Chars) : y = call.new_str /\ Len(y) = NewLen
  BY <1>2, CallIs DEF NewLen
<1>8. Out(call, s + OldLen) = x \o y /\ x \in Seq(Chars) /\ Len(x) = d /\ Holds(mem, x)
  BY <1>2, <1>3, <1>4, <1>5, <1>7
<1>9. mem' = Write(mem, Len(x), y)
  BY <1>1, <1>7, <1>8
<1> HIDE DEF x
<1>10. Len(x) + Len(y) - 1 <= MaxIdx
  BY <1>1, <1>2, <1>7, <1>8
<1>11. /\ DOMAIN mem' = DOMAIN mem
       /\ x \o y \in Seq(Chars) /\ Len(x \o y) = Len(x) + Len(y)
       /\ Holds(mem', x \o y)
       /\ \A i \in DOMAIN mem \cap Nat : i >= Len(x) + Len(y) => mem'[i] = mem[i]
  BY <1>2, <1>8, <1>9, <1>10, WriteMore
<1>12. d' = Len(Out(call, s')) /\ d' <= MaxIdx /\ Holds(mem', Out(call, s'))
  <2>1. Out(call, s') = x \o y /\ d' = d + Len(y)
    BY <1>1, <1>7, <1>8
  <2>2. d + Len(y) <= MaxIdx
    BY <1>1, <1>2, <1>7
  <2> QED
    BY <1>8, <1>11, <2>1, <2>2
<1>13. call.in_place => d' <= s' /\ TextFrom(mem', call, s')
  <2> SUFFICES ASSUME call.in_place PROVE d' <= s' /\ TextFrom(mem', call, s')
    OBVIOUS
  <2>1. d <= s /\ TextFrom(mem, call, s) /\ NewLen <= OldLen
    BY <1>2, <1>3, Shrinks
  <2>2. ASSUME NEW i \in s + OldLen .. Len(call.text)
        PROVE  mem'[i] = mem[i]
    <3>1. i \in 0..Len(call.text) /\ i \in Nat
      BY <1>2
    <3>2. i \in DOMAIN mem
      BY <1>2, <1>3, <3>1, AroundIs
    <3>3. i >= Len(x) + Len(y)
      BY <1>2, <1>7, <1>8, <2>1
    <3> QED
      BY <1>11, <3>1, <3>2, <3>3
  <2>3. TextFrom(mem', call, s + OldLen)
    <3>1. Len(call.text) \in Nat
      BY <1>2 DEF TextLen
    <3>2. ASSUME NEW i \in s + OldLen .. Len(call.text) - 1 PROVE mem'[i] = call.text[i + 1]
      <4>1. i \in s + OldLen .. Len(call.text) /\ i \in s .. Len(call.text) - 1
        BY <1>2, <3>1
      <4> QED
        BY <2>1, <2>2, <4>1 DEF TextFrom
    <3>3. Len(call.text) \in s + OldLen .. Len(call.text)
      BY <1>2, <1>4, <3>1 DEF TextLen
    <3> QED
      BY <2>1, <2>2, <3>2, <3>3 DEF TextFrom
  <2>4. d' <= s'
    BY <1>1, <1>2, <2>1
  <2> QED
    BY <1>1, <2>3, <2>4
<1>14. ret' = Cardinality(KeptOf(call, s'))
  <2>1. Cardinality(KeptOf(call, s + 1 + Len(call.old_str) - 1))
           = Cardinality(KeptOf(call, s)) + (IF Keeps(call, s + 1) THEN 1 ELSE 0)
    <3>1. PICK i \in 1..Len(call.text) : i = s + 1 /\ i - 1 = s
      BY <1>2
    <3>2. Sought(call, i) /\ Begins(call.text, call.old_str, i)
      BY <1>2, <1>3, <3>1
    <3>3. Cardinality(KeptOf(call, i + Len(call.old_str) - 1))
             = Cardinality(KeptOf(call, i - 1)) + (IF Keeps(call, i) THEN 1 ELSE 0)
      BY <1>2, <3>2, CountFound
    <3> QED
      BY <3>1, <3>3
  <2>2. Cardinality(KeptOf(call, s + OldLen)) = ret + (IF Keeps(call, s + 1) THEN 1 ELSE 0)
    BY <1>3, <1>5, <2>1 DEF OldLen
  <2>3. Keeps(call, s + 1) <=> (NewLen = 0 \/ MaxIdx > d)
    BY <1>2, <1>5 DEF Keeps, NewLen
  <2>4. ret \in Nat
    BY <1>2, <1>3, KeptCount DEF TextLen
  <2> QED
    BY <1>1, <2>2, <2>3, <2>4 DEF Counted
<1>15. s' \in 0..TextLen
  BY <1>1, <1>2, <1>4
<1>16. Sought(call, s' + 1)
  BY <1>1, <1>4, <1>5
<1> QED
  BY <1>1, <1>3, <1>11, <1>12, <1>13, <1>14, <1>15, <1>16, ScanKeeps

\* Strings joined begin with the first ones.
LEMMA JoinedStart ==
    ASSUME NEW x \in Seq(Chars), NEW u \in Seq(Chars), NEW v \in Seq(Chars), NEW y \in Seq(Chars)
    PROVE  \A i \in 1..Len(x \o u) : ((x \o (u \o v)) \o y)[i] = (x \o u)[i]
<1>1. PICK k \in Nat, n \in Nat, h \in Nat : k = Len(x) /\ n = Len(u) /\ h = Len(v)
  OBVIOUS
<1>2. PICK a \in Seq(Chars) :
        /\ a = u \o v /\ Len(a) = n + h
        /\ \A i \in 1..n : a[i] = u[i]
  <2>1. u \o v \in Seq(Chars) /\ Len(u \o v) = n + h /\ \A i \in 1..n : (u \o v)[i] = u[i]
    BY <1>1
  <2> QED
    BY <2>1
<1>3. PICK b \in Seq(Chars) :
        /\ b = x \o a /\ Len(b) = k + n + h
        /\ \A i \in 1..k : b[i] = x[i]
        /\ \A i \in 1 .. n + h : b[k + i] = a[i]
  <2>1. Len(a) = n + h
    BY <1>2
  <2>2. x \o a \in Seq(Chars) /\ \A i \in 1..k : (x \o a)[i] = x[i]
    BY <1>1
  <2>4. Len(x \o a) = k + n + h
    <3>1. Len(x \o a) = Len(x) + Len(a)
      OBVIOUS
    <3> QED
      BY <1>1, <2>1, <3>1
  <2>3. \A i \in 1 .. n + h : (x \o a)[k + i] = a[i]
    BY <1>1, <2>1
  <2> QED
    BY <2>2, <2>3, <2>4
<1>4. PICK c \in Seq(Chars) :
        /\ c = x \o u /\ Len(c) = k + n
        /\ \A i \in 1..k : c[i] = x[i]
        /\ \A i \in 1..n : c[k + i] = u[i]
  <2>2. /\ x \o u \in Seq(Chars) /\ Len(x \o u) = k + n
        /\ \A i \in 1..k : (x \o u)[i] = x[i]
    BY <1>1
  <2>3. \A i \in 1..n : (x \o u)[k + i] = u[i]
    BY <1>1
  <2> QED
    BY <2>2, <2>3
<1>5. \A i \in 1 .. k + n : (b \o y)[i] = b[i]
  <2>1. Len(b) = k + n + h
    BY <1>3
  <2> QED
    BY <2>1
<1>6. ASSUME NEW i \in 1 .. k + n PROVE b[i] = c[i]
  <2>1. CASE i <= k
    <3>1. i \in 1..k
      BY <2>1
    <3> QED
      BY <1>3, <1>4, <3>1
  <2>2. CASE ~(i <= k)
    <3>1. PICK j \in 1..n : i = k + j
      <4>1. i - k \in 1..n /\ i = k + (i - k)
        BY <2>2
      <4> QED
        BY <4>1
    <3>2. j \in 1 .. n + h
      OBVIOUS
    <3>3. b[k + j] = a[j] /\ a[j] = u[j]
      BY <1>2, <1>3, <3>2
    <3>4. c[k + j] = u[j]
      BY <1>4
    <3> QED
      BY <3>1, <3>3, <3>4
  <2> QED
    BY <2>1, <2>2
<1>7. \A i \in 1..Len(c) : (b \o y)[i] = c[i]
  <2>1. Len(c) = k + n
    BY <1>4
  <2> QED
    BY <1>5, <1>6, <2>1
<1> QED
  BY <1>2, <1>3, <1>4, <1>7

\* The first max characters of a longer string.
LEMMA CutAs ==
    ASSUME NEW a \in Seq(Chars), NEW y \in Seq(Chars), NEW max \in Nat,
           Len(y) = max, Len(a) >= max, \A i \in 1..Len(y) : a[i] = y[i]
    PROVE  SubSeq(a, 1, Least(Len(a), max)) = y
<1>1. PICK k \in Nat : k = Len(a) /\ k >= max
  OBVIOUS
<1>2. Least(Len(a), max) = max
  BY <1>1 DEF Least
<1>3. PICK b \in Seq(Chars) : b = SubSeq(a, 1, max) /\ Len(b) = max /\ \A i \in 1..max : b[i] = a[i]
  <2>1. /\ SubSeq(a, 1, max) \in Seq(Chars) /\ Len(SubSeq(a, 1, max)) = max
        /\ \A i \in 1..max : SubSeq(a, 1, max)[i] = a[i]
    BY <1>1
  <2> QED
    BY <2>1
<1>4. Len(b) = Len(y) /\ \A i \in 1..Len(y) : b[i] = y[i]
  BY <1>3
<1>5. b = y
  BY <1>4
<1> QED
  BY <1>2, <1>3, <1>5

\* The end of a string written behind it.
LEMMA WriteNul ==
    ASSUME NEW m, NEW x \in Seq(Chars), NEW max \in Nat,
           0..max \subseteq DOMAIN m, Holds(m, x), Len(x) <= max
    PROVE  /\ DOMAIN Write(m, Len(x), <<Nul>>) = DOMAIN m
           /\ Holds(Write(m, Len(x), <<Nul>>), x)
           /\ Write(m, Len(x), <<Nul>>)[Len(x)] = Nul
<1>1. PICK y \in Seq(Chars) : y = <<>> /\ Len(y) = 0
  <2>1. <<>> \in Seq(Chars) /\ Len(<<>>) = 0
    OBVIOUS
  <2> QED
    BY <2>1
<1>2. y \o <<Nul>> = <<Nul>> /\ x \o y = x
  BY <1>1
<1>3. Len(x) + Len(y) <= max
  BY <1>1
<1>4. /\ DOMAIN Write(m, Len(x), y \o <<Nul>>) = DOMAIN m
      /\ Holds(Write(m, Len(x), y \o <<Nul>>), x \o y)
      /\ Write(m, Len(x), y \o <<Nul>>)[Len(x \o y)] = Nul
  BY <1>3, WriteEnd
<1> QED
  BY <1>2, <1>4

\* A sequence is what it starts with and what is left.
LEMMA Halves ==
    ASSUME NEW w \in Seq(Chars), NEW k \in 0..Len(w)
    PROVE  \E u, v \in Seq(Chars) : u = SubSeq(w, 1, k) /\ Len(u) = k /\ w = u \o v
<1>0. PICK n \in Nat : n = Len(w)
  OBVIOUS
<1>1. SubSeq(w, 1, k) \in Seq(Chars) /\ Len(SubSeq(w, 1, k)) = k
  BY <1>0
<1>2. SubSeq(w, k + 1, n) \in Seq(Chars)
  BY <1>0
<1>3. SubSeq(w, 1, k) \o SubSeq(w, k + 1, n) = SubSeq(w, 1, n)
  <2>1. 1 \in 1 .. Len(w) + 1 /\ k \in 1 - 1 .. Len(w) /\ n \in k .. Len(w)
    BY <1>0
  <2> QED
    BY <2>1, ConcatAdjacentSubSeq
<1>4. SubSeq(w, 1, n) = w
  BY <1>0, SubSeqFull
<1> QED
  BY <1>1, <1>2, <1>3, <1>4

LEMMA ScanReplacedAll == ScanInv /\ ReplacedAll => ScanInv'
<1> SUFFICES ASSUME ScanInv, ReplacedAll PROVE ScanInv'
  OBVIOUS
<1>1. /\ pc = "replace" /\ s >= TextLen /\ mem' = Write(mem, d, <<Nul>>)
      /\ length' = d /\ pc' = "done"
      /\ call' = call /\ ret' = ret /\ is_buffer_overflow' = is_buffer_overflow
  BY DEF ReplacedAll, Ends, Goes, args
<1>2. /\ call \in Calls /\ TextLen \in Nat /\ OldLen > 0
      /\ MaxIdx \in Nat /\ MaxIdx = call.dst_size - 1 /\ 0..MaxIdx \subseteq DOMAIN mem
      /\ s \in 0..TextLen /\ d \in 0..MaxIdx
      /\ Out(call, s) \in Seq(Chars) /\ Len(Out(call, s)) = d
  BY <1>1, ScanIs
<1>3. /\ OldLen # 0 /\ Holds(mem, Out(call, s))
      /\ ret = Cardinality(KeptOf(call, s)) /\ is_buffer_overflow = FALSE
  BY <1>1 DEF ScanInv
<1>4. s = Len(call.text)
  BY <1>1, <1>2 DEF TextLen
<1>5. PICK x \in Seq(Chars) : x = All(call) /\ Len(x) = d /\ Holds(mem, x)
  BY <1>2, <1>3, <1>4 DEF All
<1>6. mem' = Write(mem, Len(x), <<Nul>>) /\ Len(x) <= MaxIdx
  BY <1>1, <1>2, <1>5
<1>7. DOMAIN mem' = DOMAIN mem /\ Holds(mem', x) /\ mem'[Len(x)] = Nul
  <2>1. Len(x) <= MaxIdx /\ Holds(mem, x)
    BY <1>5, <1>6
  <2> QED
    BY <1>2, <1>6, <2>1, WriteNul
<1>8. x = SubSeq(x, 1, Least(Len(x), MaxIdx))
  <2>1. PICK z \in Seq(Chars) : z = <<>> /\ Len(z) = 0
    <3>1. <<>> \in Seq(Chars) /\ Len(<<>>) = 0
      OBVIOUS
    <3> QED
      BY <3>1
  <2>2. x \o z = x
    BY <2>1
  <2>3. SubSeq(x \o z, 1, Least(Len(x \o z), MaxIdx)) = x
    BY <1>2, <1>6, <2>1, CutIs
  <2> QED
    BY <2>2, <2>3
<1>9. ~(Len(x) > MaxIdx)
  BY <1>2, <1>6
<1>10. Right(call, mem', ret', is_buffer_overflow', length')
  <2>1. /\ x = SubSeq(All(call), 1, Least(Len(All(call)), call.dst_size - 1))
        /\ Holds(mem', x) /\ mem'[Len(x)] = Nul /\ Len(x) <= call.dst_size - 1
    BY <1>2, <1>5, <1>6, <1>7, <1>8
  <2>2. is_buffer_overflow' = (Len(All(call)) > call.dst_size - 1)
    BY <1>1, <1>2, <1>3, <1>5, <1>9
  <2>3. ret' = Cardinality(KeptOf(call, Len(call.text)))
    BY <1>1, <1>3, <1>4
  <2>4. length' = IF call.in_place /\ Len(call.old_str) = 0 THEN Unset ELSE Len(x)
    BY <1>1, <1>3, <1>5 DEF OldLen
  <2> QED
    BY <2>1, <2>2, <2>3, <2>4, Zenon DEF Right
<1> QED
  BY <1>1, <1>7, <1>10, ScanEnds

LEMMA ScanNoRoomForChar == ScanInv /\ NoRoomForChar => ScanInv'
<1> SUFFICES ASSUME ScanInv, NoRoomForChar PROVE ScanInv'
  OBVIOUS
<1>1. /\ pc = "replace" /\ s < TextLen /\ ~Matches(Src, s) /\ d >= MaxIdx
      /\ mem' = Write(mem, MaxIdx, <<Nul>>) /\ is_buffer_overflow' = TRUE
      /\ length' = MaxIdx /\ pc' = "done" /\ call' = call /\ ret' = ret
  BY DEF NoRoomForChar, NotFoundYet, CutShort, Ends, Goes, args
<1>2. /\ call \in Calls /\ TextLen \in Nat /\ OldLen > 0
      /\ MaxIdx \in Nat /\ MaxIdx = call.dst_size - 1 /\ 0..MaxIdx \subseteq DOMAIN mem
      /\ s \in 0..TextLen /\ d \in 0..MaxIdx
      /\ Out(call, s) \in Seq(Chars) /\ Len(Out(call, s)) = d
      /\ s + 1 \in 1..Len(call.text)
      /\ ~Begins(call.text, call.old_str, s + 1)
  BY <1>1, ScanIs
<1>3. /\ Sought(call, s + 1) /\ OldLen # 0 /\ Holds(mem, Out(call, s))
      /\ ret = Cardinality(KeptOf(call, s))
  BY <1>1 DEF ScanInv
<1>4. PICK x \in Seq(Chars) : x = Out(call, s) /\ Len(x) = MaxIdx /\ Holds(mem, x)
  BY <1>1, <1>2, <1>3
<1>5. PICK i \in 1..Len(call.text) : i = s + 1 /\ i - 1 = s
  BY <1>2
<1>6. /\ i \notin Occ(call.text, call.old_str)
      /\ Out(call, i) = Out(call, i - 1) \o <<call.text[i]>>
      /\ call.text[i] \in Chars
  <2>1. Sought(call, i) /\ ~Begins(call.text, call.old_str, i)
    BY <1>2, <1>3, <1>5
  <2> QED
    BY <1>2, <2>1, OutChar
<1>7. Len(Out(call, i)) = MaxIdx + 1
  <2>1. PICK y \in Seq(Chars) : y = <<call.text[i]>> /\ Len(y) = 1
    <3>1. <<call.text[i]>> \in Seq(Chars) /\ Len(<<call.text[i]>>) = 1
      BY <1>6
    <3> QED
      BY <3>1
  <2>2. Out(call, i) = x \o y
    BY <1>4, <1>5, <1>6, <2>1
  <2> QED
    BY <1>4, <2>1, <2>2
<1>8. Len(All(call)) > MaxIdx /\ \E z \in Seq(Chars) : All(call) = x \o z
  <2>1. /\ Len(call.text) \in 0..Len(call.text) /\ i \in 0..Len(call.text) /\ i <= Len(call.text)
        /\ s \in 0..Len(call.text) /\ s <= Len(call.text)
    BY <1>2 DEF TextLen
  <2>2. Len(Out(call, i)) <= Len(All(call)) /\ Len(All(call)) \in Nat
    BY <1>2, <2>1, OutGrows, OutIs DEF All
  <2>3. \E z \in Seq(Chars) : Out(call, Len(call.text)) = Out(call, s) \o z
    BY <1>2, <2>1, OutGrows
  <2> QED
    <3>1. Len(All(call)) > MaxIdx
      BY <1>2, <1>7, <2>2
    <3>2. \E z \in Seq(Chars) : All(call) = x \o z
      BY <1>4, <2>3 DEF All
    <3> QED
      BY <3>1, <3>2
<1>9. mem' = Write(mem, Len(x), <<Nul>>) /\ Len(x) <= MaxIdx
  BY <1>1, <1>2, <1>4
<1>10. DOMAIN mem' = DOMAIN mem /\ Holds(mem', x) /\ mem'[Len(x)] = Nul
  <2>1. Len(x) <= MaxIdx /\ Holds(mem, x)
    BY <1>4, <1>9
  <2> QED
    BY <1>2, <1>9, <2>1, WriteNul
<1>11. x = SubSeq(All(call), 1, Least(Len(All(call)), MaxIdx))
  <2>1. PICK z \in Seq(Chars) : All(call) = x \o z
    BY <1>8
  <2>2. SubSeq(x \o z, 1, Least(Len(x \o z), MaxIdx)) = x
    BY <1>2, <1>4, CutIs
  <2> QED
    BY <2>1, <2>2
<1>12. KeptOf(call, Len(call.text)) = KeptOf(call, s)
  <2>1. i \in 0..Len(call.text) /\ Len(Out(call, i)) > call.dst_size - 1
    BY <1>2, <1>7
  <2>2. KeptOf(call, Len(call.text)) = KeptOf(call, i)
    BY <1>2, <2>1, LaterLost
  <2>3. KeptOf(call, i) = KeptOf(call, i - 1)
    BY <1>2, <1>6, CountChar
  <2> QED
    BY <1>5, <2>2, <2>3
<1>13. Right(call, mem', ret', is_buffer_overflow', length')
  <2>1. /\ x = SubSeq(All(call), 1, Least(Len(All(call)), call.dst_size - 1))
        /\ Holds(mem', x) /\ mem'[Len(x)] = Nul /\ Len(x) <= call.dst_size - 1
    BY <1>2, <1>9, <1>10, <1>11
  <2>2. is_buffer_overflow' = (Len(All(call)) > call.dst_size - 1)
    BY <1>1, <1>2, <1>8
  <2>3. ret' = Cardinality(KeptOf(call, Len(call.text)))
    BY <1>1, <1>3, <1>12
  <2>4. length' = IF call.in_place /\ Len(call.old_str) = 0 THEN Unset ELSE Len(x)
    BY <1>1, <1>3, <1>4 DEF OldLen
  <2> QED
    BY <2>1, <2>2, <2>3, <2>4, Zenon DEF Right
<1> QED
  BY <1>1, <1>10, <1>13, ScanEnds

LEMMA ScanNoRoomForNew == ScanInv /\ NoRoomForNew => ScanInv'
<1> SUFFICES ASSUME ScanInv, NoRoomForNew PROVE ScanInv'
  OBVIOUS
<1>1. /\ pc = "replace" /\ s < TextLen /\ Matches(Src, s) /\ ~(NewLen <= MaxIdx - d)
      /\ mem' = Write(mem, d, SubSeq(call.new_str, 1, MaxIdx - d) \o <<Nul>>)
      /\ is_buffer_overflow' = TRUE /\ length' = MaxIdx /\ pc' = "done"
      /\ call' = call /\ ret' = Counted
  BY DEF NoRoomForNew, Found, NewFits, Ends, Goes, args
<1>2. /\ call \in Calls /\ TextLen \in Nat /\ OldLen \in Nat /\ OldLen > 0 /\ NewLen \in Nat
      /\ MaxIdx \in Nat /\ MaxIdx = call.dst_size - 1 /\ 0..MaxIdx \subseteq DOMAIN mem
      /\ s \in 0..TextLen /\ d \in 0..MaxIdx
      /\ Out(call, s) \in Seq(Chars) /\ Len(Out(call, s)) = d
      /\ s + 1 \in 1..Len(call.text)
      /\ Begins(call.text, call.old_str, s + 1)
  BY <1>1, ScanIs
<1>3. /\ Sought(call, s + 1) /\ OldLen # 0 /\ Holds(mem, Out(call, s))
      /\ ret = Cardinality(KeptOf(call, s))
  BY <1>1 DEF ScanInv
<1>4. PICK x \in Seq(Chars) : x = Out(call, s) /\ Len(x) = d /\ Holds(mem, x)
  BY <1>2, <1>3
<1>5. PICK i \in 1..Len(call.text) : i = s + 1 /\ i - 1 = s
  BY <1>2
<1>6. PICK j \in 0..Len(call.text) : j = i + OldLen - 1
  <2>1. /\ i + OldLen \in 1 .. Len(call.text) + 1
        /\ Len(call.text) \in Nat
    BY <1>2, <1>3, <1>5, OutFound DEF OldLen, TextLen
  <2>2. i + OldLen - 1 \in 0..Len(call.text)
    BY <1>2, <2>1
  <2> QED
    BY <2>2
<1>7. Out(call, j) = x \o call.new_str
  <2>1. Sought(call, i) /\ Begins(call.text, call.old_str, i)
    BY <1>2, <1>3, <1>5
  <2>2. Out(call, i + Len(call.old_str) - 1) = Out(call, i - 1) \o call.new_str
    BY <1>2, <2>1, OutFound
  <2> QED
    BY <1>4, <1>5, <1>6, <2>2 DEF OldLen
<1>8. Cardinality(KeptOf(call, j)) = ret'
  <2>1. Sought(call, i) /\ Begins(call.text, call.old_str, i)
    BY <1>2, <1>3, <1>5
  <2>2. Cardinality(KeptOf(call, i + Len(call.old_str) - 1))
           = Cardinality(KeptOf(call, i - 1)) + (IF Keeps(call, i) THEN 1 ELSE 0)
    BY <1>2, <2>1, CountFound
  <2>3. Cardinality(KeptOf(call, j)) = ret + (IF Keeps(call, i) THEN 1 ELSE 0)
    BY <1>3, <1>5, <1>6, <2>2 DEF OldLen
  <2>4. Keeps(call, i) <=> (NewLen = 0 \/ MaxIdx > d)
    BY <1>2, <1>5 DEF Keeps, NewLen
  <2>5. ret \in Nat
    BY <1>2, <1>3, KeptCount
  <2> QED
    BY <1>1, <2>3, <2>4, <2>5 DEF Counted
<1>9. call.new_str \in Seq(Chars) /\ Len(call.new_str) = NewLen
  BY <1>2, CallIs DEF NewLen
<1>10. PICK k \in Nat : k = MaxIdx - d /\ k \in 0..Len(call.new_str)
  <2>1. MaxIdx - d \in 0..Len(call.new_str) /\ MaxIdx - d \in Nat
    BY <1>1, <1>2, <1>9
  <2> QED
    BY <2>1
<1>11. PICK u \in Seq(Chars), v \in Seq(Chars) :
         u = SubSeq(call.new_str, 1, k) /\ Len(u) = k /\ call.new_str = u \o v
  BY <1>9, <1>10, Halves
<1>12. /\ DOMAIN mem' = DOMAIN mem /\ x \o u \in Seq(Chars) /\ Len(x \o u) = MaxIdx
       /\ Holds(mem', x \o u) /\ mem'[Len(x \o u)] = Nul
  <2>1. mem' = Write(mem, Len(x), u \o <<Nul>>)
    BY <1>1, <1>4, <1>10, <1>11
  <2>2. Len(u) = k /\ Len(x) = d
    BY <1>4, <1>11
  <2>3. Len(x) + Len(u) <= MaxIdx /\ Len(x) + Len(u) = MaxIdx
    BY <1>2, <1>10, <2>2
  <2>4. Holds(mem, x)
    BY <1>4
  <2>5. /\ DOMAIN mem' = DOMAIN mem
        /\ x \o u \in Seq(Chars) /\ Len(x \o u) = Len(x) + Len(u)
        /\ Holds(mem', x \o u)
        /\ mem'[Len(x \o u)] = Nul
    <3> DEFINE m == Write(mem, Len(x), u \o <<Nul>>)
    <3>1. /\ DOMAIN m = DOMAIN mem
          /\ x \o u \in Seq(Chars) /\ Len(x \o u) = Len(x) + Len(u)
          /\ Holds(m, x \o u)
          /\ m[Len(x \o u)] = Nul
      <4>1. MaxIdx \in Nat /\ 0..MaxIdx \subseteq DOMAIN mem
        BY <1>2
      <4> QED
        BY <4>1, <2>3, <2>4, WriteEnd
    <3>2. mem' = m
      BY <2>1
    <3> HIDE DEF m
    <3> QED
      BY <3>1, <3>2, Zenon
  <2> QED
    BY <2>3, <2>5
<1>13. Len(Out(call, j)) > MaxIdx
  <2>0. Len(x) = d
    BY <1>4
  <2>1. Len(x \o call.new_str) = d + NewLen
    <3>1. PICK y \in Seq(Chars) : y = call.new_str
      BY <1>9
    <3>2. Len(x \o y) = Len(x) + Len(y)
      OBVIOUS
    <3> QED
      BY <1>9, <2>0, <3>1, <3>2
  <2> QED
    BY <1>1, <1>2, <1>7, <2>1
<1>14. \A n \in 1..Len(x \o u) : All(call)[n] = (x \o u)[n]
  <2>1. Len(call.text) \in 0..Len(call.text) /\ j <= Len(call.text)
    BY <1>2 DEF TextLen
  <2>2. PICK y \in Seq(Chars) : Out(call, Len(call.text)) = Out(call, j) \o y
    BY <1>2, <2>1, OutGrows
  <2>3. All(call) = (x \o (u \o v)) \o y
    <3>1. Out(call, j) = x \o (u \o v)
      BY <1>7, <1>11
    <3> QED
      BY <2>2, <3>1 DEF All
  <2>4. \A n \in 1..Len(x \o u) : ((x \o (u \o v)) \o y)[n] = (x \o u)[n]
    BY JoinedStart
  <2> QED
    BY <2>3, <2>4, Zenon
<1>15. Len(All(call)) > MaxIdx
  <2>1. Len(call.text) \in 0..Len(call.text) /\ j <= Len(call.text)
    BY <1>2 DEF TextLen
  <2>2. Len(Out(call, j)) <= Len(All(call)) /\ Len(All(call)) \in Nat /\ Len(Out(call, j)) \in Nat
    BY <1>2, <2>1, OutGrows, OutIs DEF All
  <2> QED
    BY <1>2, <1>13, <2>2
<1>16. x \o u = SubSeq(All(call), 1, Least(Len(All(call)), MaxIdx))
  <2>1. PICK a \in Seq(Chars), w \in Seq(Chars), max \in Nat :
          a = All(call) /\ w = x \o u /\ max = MaxIdx
    BY <1>2, <1>12, OutIs
  <2>2. Len(w) = max /\ Len(a) >= max
    <3>1. Len(a) > max
      BY <1>15, <2>1
    <3> QED
      BY <1>12, <2>1, <3>1
  <2>3. \A n \in 1..Len(w) : a[n] = w[n]
    BY <1>14, <2>1
  <2>4. SubSeq(a, 1, Least(Len(a), max)) = w
    BY <2>2, <2>3, CutAs
  <2> QED
    BY <2>1, <2>4
<1>17. ret' = Cardinality(KeptOf(call, Len(call.text)))
  <2>1. Len(Out(call, j)) > call.dst_size - 1
    BY <1>2, <1>13
  <2>2. KeptOf(call, Len(call.text)) = KeptOf(call, j)
    BY <1>2, <2>1, LaterLost
  <2> QED
    BY <1>8, <2>2
<1>18. Right(call, mem', ret', is_buffer_overflow', length')
  <2>0. PICK w \in Seq(Chars) : w = x \o u /\ Len(w) = MaxIdx
    BY <1>12
  <2>1. /\ w = SubSeq(All(call), 1, Least(Len(All(call)), call.dst_size - 1))
        /\ Holds(mem', w) /\ mem'[Len(w)] = Nul /\ Len(w) <= call.dst_size - 1
    BY <1>2, <1>12, <1>16, <2>0
  <2>2. is_buffer_overflow' = (Len(All(call)) > call.dst_size - 1)
    BY <1>1, <1>2, <1>15
  <2>4. length' = IF call.in_place /\ Len(call.old_str) = 0 THEN Unset ELSE Len(w)
    BY <1>1, <1>3, <2>0 DEF OldLen
  <2> QED
    BY <1>17, <2>1, <2>2, <2>4, Zenon DEF Right
<1> QED
  BY <1>1, <1>12, <1>18, ScanEnds

LEMMA ScanCopyAll == ScanInv /\ CopyAll => ScanInv'
<1> SUFFICES ASSUME ScanInv, CopyAll PROVE ScanInv'
  OBVIOUS
<1>1. pc = "start" /\ OldLen = 0 /\ call' = call /\ ret' = ret /\ pc' = "done"
  BY DEF CopyAll, args, Goes, Ends
<1>2. /\ call \in Calls /\ DOMAIN mem = DOMAIN Around(call) /\ ret = 0
      /\ length = Unset /\ is_buffer_overflow = FALSE
      /\ call.in_place => TextFrom(mem, call, 0)
  BY <1>1 DEF ScanInv
<1>3. /\ call.text \in Seq(Chars) /\ call.old_str \in Seq(Chars) /\ call.new_str \in Seq(Chars)
      /\ call.dst_size \in Nat /\ MaxIdx \in Nat /\ MaxIdx = call.dst_size - 1
      /\ TextLen = Len(call.text) /\ TextLen \in Nat
      /\ call.in_place => Len(call.text) < call.dst_size
  BY <1>2, CallIs DEF MaxIdx, TextLen
<1>4. All(call) = call.text /\ KeptOf(call, Len(call.text)) = {}
  <2>1. Occ(call.text, call.old_str) = {}
        /\ Flat(Pieces(call.text, call.old_str, call.new_str), Len(call.text)) = call.text
    BY <1>1, <1>3, NothingFound DEF OldLen
  <2> QED
    BY <2>1 DEF All, Out, KeptOf
<1>5. ret' = Cardinality(KeptOf(call, Len(call.text)))
  BY <1>1, <1>2, <1>4, FS_EmptySet
<1>6. CASE call.in_place
  <2>1. mem' = mem /\ length' = length /\ is_buffer_overflow' = is_buffer_overflow
    BY <1>6 DEF CopyAll
  <2>2. Holds(mem, call.text) /\ mem[Len(call.text)] = Nul
    <3>1. \A i \in 1..Len(call.text) : mem[i - 1] = call.text[i]
      <4> SUFFICES ASSUME NEW i \in 1..Len(call.text) PROVE mem[i - 1] = call.text[i]
        OBVIOUS
      <4>1. i - 1 \in 0 .. Len(call.text) - 1 /\ i - 1 + 1 = i
        BY <1>3
      <4> QED
        BY <1>2, <1>6, <4>1 DEF TextFrom
    <3> QED
      BY <1>2, <1>6, <3>1 DEF Holds, TextFrom
  <2>3. call.text = SubSeq(call.text, 1, Least(Len(call.text), MaxIdx)) /\ Len(call.text) <= MaxIdx
    <3>1. Len(call.text) <= MaxIdx
      BY <1>3, <1>6
    <3>2. Least(Len(call.text), MaxIdx) = Len(call.text)
      BY <1>3, <3>1 DEF Least
    <3>3. SubSeq(call.text, 1, Len(call.text)) = call.text
      BY <1>3
    <3> QED
      BY <3>1, <3>2, <3>3
  <2>4. Right(call, mem', ret', is_buffer_overflow', length')
    <3>1. /\ call.text = SubSeq(All(call), 1, Least(Len(All(call)), call.dst_size - 1))
          /\ Holds(mem', call.text) /\ mem'[Len(call.text)] = Nul
          /\ Len(call.text) <= call.dst_size - 1
      BY <1>3, <1>4, <2>1, <2>2, <2>3
    <3>2. is_buffer_overflow' = (Len(All(call)) > call.dst_size - 1)
      <4>1. Len(All(call)) = TextLen /\ TextLen <= MaxIdx
        BY <1>3, <1>4, <2>3
      <4>2. ~(Len(All(call)) > call.dst_size - 1) /\ is_buffer_overflow' = FALSE
        BY <1>2, <1>3, <2>1, <4>1
      <4>3. (Len(All(call)) > call.dst_size - 1) = FALSE
        BY <4>2
      <4> QED
        BY <4>2, <4>3
    <3>3. length' = IF call.in_place /\ Len(call.old_str) = 0 THEN Unset ELSE Len(call.text)
      BY <1>1, <1>2, <1>6, <2>1 DEF OldLen
    <3> QED
      BY <1>3, <1>5, <3>1, <3>2, <3>3, Zenon DEF Right
  <2> QED
    BY <1>1, <2>1, <2>4, ScanEnds
<1>7. CASE ~call.in_place
  <2>1. /\ is_buffer_overflow' = (TextLen >= call.dst_size)
        /\ mem' = Write(mem, 0, SubSeq(call.text, 1, Least(TextLen, MaxIdx)) \o <<Nul>>)
        /\ length' = Least(TextLen, MaxIdx)
    BY <1>7 DEF CopyAll, Ends
  <2>2. PICK k \in 0..Len(call.text) : k = Least(TextLen, MaxIdx) /\ k <= MaxIdx
    <3>1. Least(TextLen, MaxIdx) \in 0..Len(call.text) /\ Least(TextLen, MaxIdx) <= MaxIdx
      BY <1>3 DEF Least
    <3> QED
      BY <3>1
  <2>3. PICK x \in Seq(Chars) : x = SubSeq(call.text, 1, k) /\ Len(x) = k
    <3>1. SubSeq(call.text, 1, k) \in Seq(Chars) /\ Len(SubSeq(call.text, 1, k)) = k
      BY <1>3
    <3> QED
      BY <3>1
  <2>4. /\ DOMAIN mem' = DOMAIN mem /\ Holds(mem', x) /\ mem'[Len(x)] = Nul
    <3>1. PICK e \in Seq(Chars) : e = <<>> /\ Len(e) = 0
      <4>1. <<>> \in Seq(Chars) /\ Len(<<>>) = 0
        OBVIOUS
      <4> QED
        BY <4>1
    <3>2. mem' = Write(mem, Len(e), x \o <<Nul>>) /\ e \o x = x
      BY <2>1, <2>2, <2>3, <3>1
    <3>3. Holds(mem, e) /\ Len(e) + Len(x) <= MaxIdx /\ 0..MaxIdx \subseteq DOMAIN mem
      BY <1>2, <1>3, <2>2, <2>3, <3>1, AroundIs DEF Holds
    <3>4. DOMAIN Write(mem, Len(e), x \o <<Nul>>) = DOMAIN mem
          /\ e \o x \in Seq(Chars) /\ Len(e \o x) = Len(e) + Len(x)
          /\ Holds(Write(mem, Len(e), x \o <<Nul>>), e \o x)
          /\ Write(mem, Len(e), x \o <<Nul>>)[Len(e \o x)] = Nul
      <4>1. MaxIdx \in Nat
        BY <1>3
      <4> QED
        BY <3>3, <4>1, WriteEnd
    <3> QED
      BY <3>2, <3>4
  <2>5. Right(call, mem', ret', is_buffer_overflow', length')
    <3>1. /\ x = SubSeq(All(call), 1, Least(Len(All(call)), call.dst_size - 1))
          /\ Holds(mem', x) /\ mem'[Len(x)] = Nul /\ Len(x) <= call.dst_size - 1
      BY <1>3, <1>4, <2>2, <2>3, <2>4
    <3>2. is_buffer_overflow' = (Len(All(call)) > call.dst_size - 1)
      BY <1>3, <1>4, <2>1
    <3>3. length' = IF call.in_place /\ Len(call.old_str) = 0 THEN Unset ELSE Len(x)
      BY <1>7, <2>1, <2>2, <2>3
    <3> QED
      BY <1>5, <3>1, <3>2, <3>3, Zenon DEF Right
  <2> QED
    BY <1>1, <2>4, <2>5, ScanEnds
<1> QED
  BY <1>6, <1>7

\* What growing in place does is not the loop's.
LEMMA ScanOther ==
    ASSUME ScanInv, UNCHANGED call, Grows, DOMAIN mem' = DOMAIN mem,
           pc' \in {"measure", "grow", "done"}
    PROVE  ScanInv'
BY DEF ScanInv, Grows, OldLen, NewLen

LEMMA ScanNext == ScanInv /\ [Next]_vars => ScanInv'
<1> SUFFICES ASSUME ScanInv, [Next]_vars PROVE ScanInv'
  OBVIOUS
<1>1. CASE CopyAll
  BY <1>1, ScanCopyAll
<1>2. CASE Branch
  <2>1. CASE ~Grows
    BY <1>2, <2>1, ScanBranch
  <2>2. CASE Grows
    BY <1>2, <2>2, ScanOther DEF Branch, Goes, args
  <2> QED
    BY <2>1, <2>2
<1>3. CASE Measure \/ Terminate \/ GrowNew \/ GrowChar \/ Grown
  <2>1. pc \in {"measure", "grow"}
    BY <1>3 DEF Measure, Terminate, GrowNew, GrowChar, Grown
  <2>2. Grows
    BY <2>1 DEF ScanInv
  <2>3. call' = call /\ pc' \in {"measure", "grow", "done"}
    BY <1>3 DEF Measure, Terminate, GrowNew, GrowChar, Grown, Goes, args
  <2>4. mem' = mem \/ \E at, chars : mem' = Write(mem, at, chars)
    BY <1>3 DEF Measure, Terminate, GrowNew, GrowChar, Grown
  <2>5. DOMAIN mem' = DOMAIN mem
    BY <2>4 DEF Write
  <2> QED
    BY <2>2, <2>3, <2>5, ScanOther
<1>4. CASE CopyChar
  BY <1>4, ScanCopyChar
<1>5. CASE NoRoomForChar
  BY <1>5, ScanNoRoomForChar
<1>6. CASE CopyNew
  BY <1>6, ScanCopyNew
<1>7. CASE NoRoomForNew
  BY <1>7, ScanNoRoomForNew
<1>8. CASE ReplacedAll
  BY <1>8, ScanReplacedAll
<1>9. CASE UNCHANGED vars
  BY <1>9 DEF vars, results, ScanInv, Grows, OldLen, NewLen, TextLen, MaxIdx, Right
<1> QED
  BY <1>1, <1>2, <1>3, <1>4, <1>5, <1>6, <1>7, <1>8, <1>9 DEF Next, Step, Done

-----------------------------------------------------------------------------
\* How far the search is ahead in what comes out.

\* Of the places the search looks at, the last one up to p: p itself or the
\* beginning of an occurrence that p is within.
LEMMA LastVisited ==
    ASSUME NEW t \in Seq(Chars), NEW o \in Seq(Chars), NEW a \in 1 .. Len(t) + 1,
           Visit(t, o, a), NEW p \in a .. Len(t) + 1
    PROVE  \E i \in a..p : /\ Visit(t, o, i)
                           /\ i = p \/ (i \in 1..Len(t) /\ Begins(t, o, i) /\ p < i + Len(o))
<1> DEFINE Here(i) == i \in 1..Len(t) /\ Begins(t, o, i) /\ p < i + Len(o)
           S == {i \in a..p : Visit(t, o, i)}
<1>0. Len(t) \in Nat /\ Len(o) \in Nat /\ a \in Nat /\ p \in Nat /\ a <= p
  OBVIOUS
<1> SUFFICES ASSUME \A i \in S : ~Here(i) PROVE p \in S
  OBVIOUS
<1>1. a \in S
  BY <1>0
<1>2. ASSUME NEW i \in S, i < p PROVE \E j \in S : i < j
  <2>1. i \in 1..Len(t) /\ Visit(t, o, i)
    BY <1>0, <1>2
  <2>2. CASE Begins(t, o, i)
    <3>1. Visit(t, o, i + Len(o)) /\ i + Len(o) > i
      BY <2>1, <2>2, VisitFound, BeginsWithin
    <3>2. ~(p < i + Len(o))
      BY <2>1, <2>2
    <3>3. i + Len(o) \in a..p
      BY <1>0, <2>1, <3>1, <3>2
    <3> QED
      BY <3>1, <3>3
  <2>3. CASE ~Begins(t, o, i)
    <3>1. Visit(t, o, i + 1)
      BY <2>1, <2>3, VisitNot
    <3>2. i + 1 \in a..p /\ i < i + 1
      BY <1>0, <1>2, <2>1
    <3> QED
      BY <3>1, <3>2
  <2> QED
    BY <2>2, <2>3
<1>3. S \subseteq a..p
  OBVIOUS
<1> HIDE DEF S, Here
<1> QED
  BY <1>0, <1>1, <1>2, <1>3, GoesTo

\* How far what came out before i is ahead of what went in.
Lead(c, i) == Len(Out(c, i - 1)) - (i - 1)

\* The lead is a number, and a character that is copied does not change it.
LEMMA LeadIs ==
    ASSUME NEW c \in Calls, NEW i \in 1 .. Len(c.text) + 1
    PROVE  Lead(c, i) \in Int /\ Len(Out(c, i - 1)) \in Nat
<1>1. Len(c.text) \in Nat
  BY OutIs
<1>2. i - 1 \in 0..Len(c.text)
  BY <1>1
<1>3. Len(Out(c, i - 1)) \in Nat
  BY <1>2, OutIs
<1> QED
  BY <1>3 DEF Lead

\* One occurrence makes the lead longer by what the new string is longer.
LEMMA LeadFound ==
    ASSUME NEW c \in Calls, NEW i \in 1..Len(c.text), Sought(c, i),
           Begins(c.text, c.old_str, i)
    PROVE  /\ Sought(c, i + Len(c.old_str)) /\ i + Len(c.old_str) \in 1 .. Len(c.text) + 1
           /\ i < i + Len(c.old_str)
           /\ Lead(c, i + Len(c.old_str)) = Lead(c, i) + (Len(c.new_str) - Len(c.old_str))
<1>1. PICK l \in Nat, w \in Nat, n \in Nat :
        l = Len(c.old_str) /\ w = Len(c.new_str) /\ n = Len(c.text)
  BY OutIs
<1>a. /\ Len(c.old_str) > 0 /\ i + Len(c.old_str) \in 1 .. Len(c.text) + 1
      /\ Sought(c, i + Len(c.old_str))
      /\ Out(c, i + Len(c.old_str) - 1) = Out(c, i - 1) \o c.new_str
  BY OutFound
<1>b. PICK h \in 1 .. n + 1 : h = i + l /\ h = i + Len(c.old_str)
  BY <1>1, <1>a
<1>c. h - 1 = i + Len(c.old_str) - 1
  BY <1>b
<1>2. /\ h \in 1 .. n + 1 /\ h = i + l /\ l > 0 /\ Sought(c, h)
      /\ Out(c, h - 1) = Out(c, i - 1) \o c.new_str
  BY <1>1, <1>a, <1>b, <1>c
<1>3. Out(c, i - 1) \in Seq(Chars) /\ c.new_str \in Seq(Chars)
  <2>1. i - 1 \in 0..Len(c.text)
    BY <1>1
  <2> QED
    BY <2>1, OutIs, CallIs
<1>4. PICK x \in Seq(Chars), y \in Seq(Chars) : x = Out(c, i - 1) /\ y = c.new_str
  BY <1>3
<1>5. Len(x \o y) = Len(x) + Len(y)
  OBVIOUS
<1>6. Len(x) = Len(Out(c, i - 1)) /\ Len(y) = w /\ Len(Out(c, h - 1)) = Len(x \o y)
  BY <1>1, <1>2, <1>4
<1>7. PICK g \in Nat : g = Len(Out(c, i - 1)) /\ Len(Out(c, h - 1)) = g + w
  BY <1>5, <1>6
<1>8. Lead(c, i) = g - (i - 1) /\ Lead(c, h) = g + w - (h - 1)
  <2>1. Lead(c, i) = Len(Out(c, i - 1)) - (i - 1) /\ Lead(c, h) = Len(Out(c, h - 1)) - (h - 1)
    BY Zenon DEF Lead
  <2> QED
    BY <1>7, <2>1
<1>9. g + w - (h - 1) = g - (i - 1) + (w - l)
  BY <1>2
<1>10. i < h
  BY <1>2
<1> QED
  BY <1>1, <1>2, <1>8, <1>9, <1>10

LEMMA LeadChar ==
    ASSUME NEW c \in Calls, NEW i \in 1..Len(c.text), Sought(c, i),
           ~Begins(c.text, c.old_str, i)
    PROVE  /\ Sought(c, i + 1) /\ Lead(c, i + 1) = Lead(c, i)
           /\ Len(Out(c, i)) = Len(Out(c, i - 1)) + 1
<1>1. /\ Sought(c, i + 1) /\ Out(c, i) = Out(c, i - 1) \o <<c.text[i]>>
      /\ c.text[i] \in Chars
  BY OutChar
<1>2. Out(c, i - 1) \in Seq(Chars)
  <2>1. i - 1 \in 0..Len(c.text)
    BY OutIs
  <2> QED
    BY <2>1, OutIs
<1>3. PICK x \in Seq(Chars), y \in Seq(Chars) : x = Out(c, i - 1) /\ y = <<c.text[i]>> /\ Len(y) = 1
  <2>1. <<c.text[i]>> \in Seq(Chars) /\ Len(<<c.text[i]>>) = 1
    BY <1>1
  <2> QED
    BY <1>2, <2>1
<1>4. Len(y) = 1 /\ Out(c, i) = x \o y /\ Len(x) = Len(Out(c, i - 1))
  BY <1>1, <1>3
<1>5. Len(x \o y) = Len(x) + Len(y)
  OBVIOUS
<1>6. PICK g \in Nat : g = Len(Out(c, i - 1)) /\ Len(Out(c, i)) = g + 1
  BY <1>4, <1>5
<1>7. i + 1 - 1 = i
  BY OutIs
<1>8. Lead(c, i) = g - (i - 1) /\ Lead(c, i + 1) = g + 1 - i
  BY <1>6, <1>7 DEF Lead
<1>9. g + 1 - i = g - (i - 1)
  BY OutIs
<1> QED
  BY <1>1, <1>6, <1>8, <1>9

\* From one place the search looks at to a later one, the lead never gets
\* shorter if the new string is at least as long as the old one.
LEMMA LeadGrows ==
    ASSUME NEW c \in Calls, Len(c.old_str) <= Len(c.new_str),
           NEW i \in 1 .. Len(c.text) + 1, Sought(c, i),
           NEW j \in i .. Len(c.text) + 1, Sought(c, j)
    PROVE  Lead(c, i) <= Lead(c, j)
<1> DEFINE S == {k \in i..j : Sought(c, k) /\ Lead(c, i) <= Lead(c, k)}
<1>0. Len(c.text) \in Nat /\ i \in Nat /\ j \in Nat /\ i <= j /\ Len(c.old_str) \in Nat
      /\ Len(c.new_str) \in Nat
  BY OutIs
<1>1. i \in S
  <2>1. Lead(c, i) \in Int
    BY LeadIs
  <2> QED
    BY <1>0, <2>1
<1>2. ASSUME NEW k \in S, k < j PROVE \E h \in S : k < h
  <2>1. /\ k \in 1..Len(c.text) /\ k \in 1 .. Len(c.text) + 1
        /\ Sought(c, k) /\ Lead(c, i) <= Lead(c, k)
    BY <1>0, <1>2
  <2>2. Lead(c, i) \in Int /\ Lead(c, k) \in Int
    BY <2>1, LeadIs
  <2>3. CASE Begins(c.text, c.old_str, k)
    <3>1. /\ Sought(c, k + Len(c.old_str)) /\ k < k + Len(c.old_str)
          /\ Lead(c, k + Len(c.old_str)) = Lead(c, k) + (Len(c.new_str) - Len(c.old_str))
      BY <2>1, <2>3, LeadFound
    <3>2. k + Len(c.old_str) <= j
      <4>1. k \in Occ(c.text, c.old_str)
        BY <2>1, <2>3, OutFound
      <4> QED
        BY <1>2, <4>1 DEF Sought, Visit
    <3>3. k + Len(c.old_str) \in i..j
      BY <1>0, <2>1, <3>1, <3>2
    <3>4. Lead(c, i) <= Lead(c, k + Len(c.old_str))
      <4>1. PICK more \in Nat : more = Len(c.new_str) - Len(c.old_str)
        <5>1. PICK l \in Nat, w \in Nat : l = Len(c.old_str) /\ w = Len(c.new_str)
          BY <1>0
        <5>2. w - l \in Nat
          BY <5>1
        <5> QED
          BY <5>1, <5>2
      <4>2. Lead(c, k + Len(c.old_str)) = Lead(c, k) + more
        BY <3>1, <4>1
      <4>3. PICK x \in Int, y \in Int : x = Lead(c, i) /\ y = Lead(c, k)
        BY <2>2
      <4>4. x <= y + more
        BY <2>1, <4>3
      <4> QED
        BY <4>2, <4>3, <4>4
    <3>5. k + Len(c.old_str) \in S
      BY <3>1, <3>3, <3>4
    <3> HIDE DEF S
    <3> QED
      BY <3>1, <3>5
  <2>4. CASE ~Begins(c.text, c.old_str, k)
    <3>1. Sought(c, k + 1) /\ Lead(c, k + 1) = Lead(c, k)
      BY <2>1, <2>4, LeadChar
    <3>2. k + 1 \in i..j /\ k < k + 1
      BY <1>0, <1>2, <2>1
    <3>3. k + 1 \in S
      BY <2>1, <3>1, <3>2
    <3> HIDE DEF S
    <3> QED
      BY <3>2, <3>3
  <2> QED
    BY <2>3, <2>4
<1>3. S \subseteq i..j
  OBVIOUS
<1> HIDE DEF S
<1>4. j \in S
  BY <1>0, <1>1, <1>2, <1>3, GoesTo
<1> QED
  BY <1>4 DEF S

\* Whatever begins at p, the search finds one on its way there, and what it
\* finds ends no later.
LEMMA FoundOnTheWay ==
    ASSUME NEW c \in Calls, NEW i \in 1 .. Len(c.text) + 1, Sought(c, i),
           NEW p \in 1..Len(c.text), i <= p, Begins(c.text, c.old_str, p)
    PROVE  \E x \in i .. p + Len(c.old_str) :
              /\ x \in 1 .. Len(c.text) + 1 /\ Sought(c, x)
              /\ Len(c.old_str) <= Len(c.new_str) =>
                    Lead(c, i) + (Len(c.new_str) - Len(c.old_str)) <= Lead(c, x)
<1>0. c.text \in Seq(Chars) /\ c.old_str \in Seq(Chars) /\ c.new_str \in Seq(Chars)
  BY CallIs
<1>1. PICK l \in Nat, w \in Nat, n \in Nat :
        l = Len(c.old_str) /\ w = Len(c.new_str) /\ n = Len(c.text)
  BY OutIs
<1>2. p \in i .. Len(c.text) + 1
  BY <1>1
<1>3. PICK a \in i..p : /\ Visit(c.text, c.old_str, a)
                        /\ a = p \/ (a \in 1..Len(c.text) /\ Begins(c.text, c.old_str, a)
                                                         /\ p < a + Len(c.old_str))
  BY <1>0, <1>2, LastVisited DEF Sought
<1>4. /\ a \in 1..Len(c.text) /\ Sought(c, a) /\ Begins(c.text, c.old_str, a)
      /\ a \in i .. Len(c.text) + 1
  BY <1>1, <1>3 DEF Sought
<1>5. /\ Sought(c, a + l) /\ a + l \in 1 .. n + 1 /\ a < a + l
      /\ Lead(c, a + l) = Lead(c, a) + (w - l)
  BY <1>1, <1>4, LeadFound
<1>6. a + l \in i .. p + l
  BY <1>3, <1>5
<1>7. ASSUME l <= w PROVE Lead(c, i) + (w - l) <= Lead(c, a + l)
  <2>1. Lead(c, i) <= Lead(c, a)
    BY <1>1, <1>4, <1>7, LeadGrows
  <2>2. Lead(c, i) \in Int /\ Lead(c, a) \in Int
    <3>1. a \in 1 .. Len(c.text) + 1
      BY <1>1, <1>4
    <3> QED
      BY <3>1, LeadIs
  <2> QED
    BY <1>5, <2>1, <2>2
<1> QED
  BY <1>1, <1>5, <1>6, <1>7

\* If old_str does not overlap itself, the search looks wherever it begins.
LEMMA BorderlessFinds ==
    ASSUME call \in Calls, Borderless, NEW p \in 1..Len(call.text),
           Begins(call.text, call.old_str, p)
    PROVE  Sought(call, p)
<1> DEFINE t == call.text
           o == call.old_str
<1>0. t \in Seq(Chars) /\ o \in Seq(Chars)
  BY CallIs
<1>1. PICK l \in Nat, n \in Nat : l = Len(o) /\ n = Len(t)
  BY <1>0
<1>2. 1 \in 1 .. Len(t) + 1 /\ p \in 1 .. Len(t) + 1 /\ Visit(t, o, 1)
  BY <1>0, <1>1, VisitFirst
<1> HIDE DEF t, o
<1>a. p \in 1..Len(t) /\ Begins(t, o, p)
  BY DEF t, o
<1>3. PICK i \in 1..p : /\ Visit(t, o, i)
                        /\ i = p \/ (i \in 1..Len(t) /\ Begins(t, o, i) /\ p < i + Len(o))
  BY <1>0, <1>2, LastVisited
<1>4. ~(i # p)
  <2> SUFFICES ASSUME i # p PROVE FALSE
    OBVIOUS
  <2>1. i \in 1..n /\ Begins(t, o, i) /\ p < i + l /\ i < p
    BY <1>1, <1>3
  <2>2. \A k \in 1..l : t[i + k - 1] = o[k] /\ t[p + k - 1] = o[k]
    <3>1. \A k \in 1..l : t[i + k - 1] = o[k]
      BY <1>0, <1>1, <2>1, BeginsIs
    <3>2. \A k \in 1..l : t[p + k - 1] = o[k]
      BY <1>0, <1>1, <1>a, BeginsIs
    <3> QED
      BY <3>1, <3>2
  <2>3. PICK k \in 1 .. l - 1 : k = i + l - p
    <3>1. i + l - p \in 1 .. l - 1
      BY <2>1
    <3> QED
      BY <3>1
  <2>4. PICK a \in Seq(Chars) :
          a = SubSeq(o, 1, k) /\ Len(a) = k /\ \A x \in 1..k : a[x] = o[x]
    <3>1. /\ SubSeq(o, 1, k) \in Seq(Chars) /\ Len(SubSeq(o, 1, k)) = k
          /\ \A x \in 1..k : SubSeq(o, 1, k)[x] = o[x]
      BY <1>0, <1>1
    <3> QED
      BY <3>1
  <2>5. PICK b \in Seq(Chars) :
          b = SubSeq(o, l - k + 1, l) /\ Len(b) = k /\ \A x \in 1..k : b[x] = o[l - k + x]
    <3>1. PICK q \in Nat : q = l - k /\ q + 1 \in 1..l /\ l - q = k
      <4>1. l - k \in Nat /\ l - k + 1 \in 1..l /\ l - (l - k) = k
        BY <2>3
      <4> QED
        BY <4>1
    <3>2. q + 1 \in 1..l /\ l - q = k
      BY <3>1
    <3>3. /\ SubSeq(o, q + 1, l) \in Seq(Chars) /\ Len(SubSeq(o, q + 1, l)) = l - q
          /\ \A x \in 1 .. l - q : SubSeq(o, q + 1, l)[x] = o[q + x]
      BY <1>0, <1>1, <3>2
    <3> QED
      BY <3>1, <3>3
  <2>6. ASSUME NEW x \in 1..k PROVE o[x] = o[l - k + x]
    <3>1. x \in 1..l /\ l - k + x \in 1..l /\ i + (l - k + x) - 1 = p + x - 1
      BY <2>3
    <3>2. t[i + (l - k + x) - 1] = o[l - k + x] /\ t[p + x - 1] = o[x]
      BY <2>2, <3>1
    <3> QED
      BY <3>1, <3>2
  <2>7. Len(a) = k /\ Len(b) = k /\ \A x \in 1..k : a[x] = b[x]
    BY <2>4, <2>5, <2>6
  <2>8. a = b
    BY <2>7
  <2>9. SubSeq(o, 1, k) # SubSeq(o, l - k + 1, l)
    BY <1>1, <2>3 DEF Borderless, OldLen, o
  <2> QED
    BY <2>4, <2>5, <2>8, <2>9
<1> QED
  BY <1>3, <1>4 DEF Sought, t, o

-----------------------------------------------------------------------------
\* Growing in place.

\* Where the string ends if it is made of the first m characters.
End(c, m) == Least(Len(Out(c, m)), c.dst_size - 1)

OutsideKept == \A i \in Outside : mem[i] = call.around

\* The first loop has measured what comes of the text up to s.
MeasuredSoFar ==
    /\ s \in 0..TextLen /\ Sought(call, s + 1) /\ d = Len(Out(call, s))
    /\ is_buffer_overflow = (d > MaxIdx) /\ ret = 0
    /\ TextFrom(mem, call, 0)

\* The second loop fills the buffer with what comes of the first m characters:
\* those up to s are untouched, and d is far enough ahead of s for everything
\* the search from the left finds among them.
Backing(m) ==
    /\ Sought(call, m + 1) /\ (Len(Out(call, m)) <= MaxIdx => m = TextLen)
    /\ is_buffer_overflow = (Len(Out(call, m)) > MaxIdx) /\ length = End(call, m)
    /\ s \in -1 .. m - 1 /\ d \in Int /\ d < Len(Out(call, m))
    /\ \A i \in 1 .. s + 2 : Sought(call, i) => Lead(call, i) <= d - s
    /\ \A i \in 0..s : mem[i] = call.text[i + 1]
    /\ mem[End(call, m)] = Nul

\* What is behind d is as it will be, if old_str does not overlap itself.
Placed(m) ==
    /\ Sought(call, s + 2) /\ d + 1 = Len(Out(call, s + 1))
    /\ \A i \in d + 1 .. End(call, m) - 1 : mem[i] = Out(call, m)[i + 1]
    /\ ret \in Nat
    /\ ret + Cardinality(KeptOf(call, s + 1)) = Cardinality(KeptOf(call, m))

\* The strengthening of both properties where a string grows in place.  Whether
\* old_str overlaps itself or not, the lead keeps what is written ahead of what is
\* still to be read, and so in the buffer.
BackInv ==
    (Grows /\ NothingBefore) =>
        /\ OutsideKept /\ pc # "replace"
        /\ pc = "measure" => MeasuredSoFar
        /\ pc = "grow" => \E m \in 0..TextLen : Backing(m) /\ (Borderless => Placed(m))
        /\ (pc = "done" /\ Borderless) => Right(call, mem, ret, is_buffer_overflow, length)

\* What the arguments are when a string grows.
LEMMA GrowsIs ==
    ASSUME call \in Calls, Grows
    PROVE  /\ TextLen \in Nat /\ OldLen \in Nat /\ NewLen \in Nat /\ MaxIdx \in Nat
           /\ OldLen > 0 /\ OldLen < NewLen /\ TextLen <= MaxIdx /\ MaxIdx = call.dst_size - 1
           /\ call.dst_size \in Nat
           /\ TextLen = Len(call.text) /\ OldLen = Len(call.old_str) /\ NewLen = Len(call.new_str)
           /\ call.in_place
<1>1. /\ call.text \in Seq(Chars) /\ call.old_str \in Seq(Chars) /\ call.new_str \in Seq(Chars)
      /\ call.dst_size \in Nat /\ call.dst_size > 0
      /\ call.in_place => Len(call.text) < call.dst_size
  BY CallIs
<1>2. OldLen # 0 /\ call.in_place /\ OldLen < NewLen
  BY DEF Grows
<1>3. TextLen \in Nat /\ OldLen \in Nat /\ NewLen \in Nat
  BY <1>1 DEF TextLen, OldLen, NewLen
<1>4. TextLen = Len(call.text) /\ OldLen = Len(call.old_str) /\ NewLen = Len(call.new_str)
  BY DEF TextLen, OldLen, NewLen
<1>5. MaxIdx = call.dst_size - 1 /\ MaxIdx \in Nat
  BY <1>1 DEF MaxIdx
<1>6. TextLen <= MaxIdx
  BY <1>1, <1>2, <1>3, <1>4, <1>5
<1> QED
  BY <1>1, <1>2, <1>3, <1>4, <1>5, <1>6

\* The memory a call can reach, before the buffer.
LEMMA ReachedBefore ==
    ASSUME call \in Calls, DOMAIN mem = DOMAIN Around(call),
           NEW i \in Int, -OldLen <= i, i <= MaxIdx
    PROVE  i \in DOMAIN mem
<1>1. PICK k \in Nat, l \in Nat, n \in Nat, z \in Nat :
        k = Len(call.text) /\ l = Len(call.old_str) /\ n = Len(call.new_str) /\ z = call.dst_size
  BY CallIs
<1>2. Reach(call) = k + l + n
  BY <1>1 DEF Reach
<1>3. DOMAIN Around(call) = -(k + l + n) .. z + (k + l + n)
  BY <1>1, <1>2 DEF Around
<1>4. -l <= i /\ i <= z - 1
  BY <1>1 DEF OldLen, MaxIdx
<1> QED
  BY <1>3, <1>4

\* Comparing from the right finds what an occurrence is, as nothing before the
\* buffer is part of old_str.
LEMMA FoundBeforeIs ==
    ASSUME call \in Calls, Grows, NothingBefore, OutsideKept, DOMAIN mem = DOMAIN Around(call),
           s \in 0 .. TextLen - 1, \A i \in 0..s : mem[i] = call.text[i + 1]
    PROVE  FoundBefore <=> /\ s + 2 - OldLen \in 1..TextLen
                           /\ Begins(call.text, call.old_str, s + 2 - OldLen)
<1>1. PICK l \in Nat, n \in Nat : l = OldLen /\ n = TextLen /\ l > 0 /\ n <= MaxIdx
  BY GrowsIs
<1>2. /\ l = Len(call.old_str) /\ n = Len(call.text) /\ MaxIdx \in Nat
      /\ call.text \in Seq(Chars) /\ call.old_str \in Seq(Chars)
  BY <1>1, GrowsIs, CallIs
<1>3. FoundBefore <=> \A j \in 1..l : mem[s + 1 - l + j - 1] = call.old_str[j]
  BY <1>1 DEF FoundBefore, Matches
<1>4. CASE s + 1 - l >= 0
  <2>1. PICK p \in 1..n : p = s + 2 - l
    <3>1. s + 2 - l \in 1..n
      BY <1>1, <1>4
    <3> QED
      BY <3>1
  <2>2. Begins(call.text, call.old_str, p) <=>
           /\ l > 0 /\ p + l - 1 <= n
           /\ \A j \in 1..l : call.text[p + j - 1] = call.old_str[j]
    BY <1>2, BeginsIs
  <2>3. p + l - 1 <= n
    BY <1>1, <2>1
  <2>4. ASSUME NEW j \in 1..l PROVE mem[s + 1 - l + j - 1] = call.text[p + j - 1]
    <3>1. PICK i \in 0..s : i = s + 1 - l + j - 1 /\ i + 1 = p + j - 1
      <4>1. s + 1 - l + j - 1 \in 0..s /\ s + 1 - l + j - 1 + 1 = p + j - 1
        BY <1>1, <1>4, <2>1
      <4> QED
        BY <4>1
    <3>2. mem[i] = call.text[i + 1]
      OBVIOUS
    <3> QED
      BY <3>1, <3>2
  <2>5. FoundBefore <=> Begins(call.text, call.old_str, p)
    BY <1>1, <1>3, <2>2, <2>3, <2>4
  <2> QED
    BY <1>1, <2>1, <2>5
<1>5. CASE ~(s + 1 - l >= 0)
  <2>1. PICK i \in Int : i = s + 1 - l + 1 - 1 /\ -l <= i /\ i < 0
    <3>1. s + 1 - l + 1 - 1 \in Int /\ -l <= s + 1 - l + 1 - 1 /\ s + 1 - l + 1 - 1 < 0
      BY <1>1, <1>5
    <3> QED
      BY <3>1
  <2>2. i \in DOMAIN mem
    <3>1. -OldLen <= i /\ i <= MaxIdx
      BY <1>1, <1>2, <2>1
    <3> QED
      BY <3>1, ReachedBefore
  <2>3. mem[i] = call.around
    BY <2>1, <2>2 DEF OutsideKept, Outside
  <2>4. call.around # call.old_str[1]
    <3>1. 1 \in 1..Len(call.old_str)
      BY <1>1, <1>2
    <3> QED
      BY <3>1 DEF NothingBefore, Contains
  <2>5. ~FoundBefore
    <3>1. 1 \in 1..l
      BY <1>1
    <3> QED
      BY <1>3, <2>1, <2>3, <2>4, <3>1
  <2>6. ~(s + 2 - l \in 1..n)
    BY <1>1, <1>5
  <2> QED
    BY <1>1, <2>5, <2>6
<1> QED
  BY <1>4, <1>5

\* The lead starts at nothing.
LEMMA LeadFirst ==
    ASSUME NEW c \in Calls
    PROVE  Sought(c, 1) /\ Lead(c, 1) = 0
<1>1. c.text \in Seq(Chars) /\ c.old_str \in Seq(Chars)
  BY CallIs
<1>2. Sought(c, 1)
  BY <1>1, VisitFirst DEF Sought
<1>3. Out(c, 0) = <<>> /\ Len(<<>>) = 0 /\ 1 - 1 = 0
  BY OutIs
<1> QED
  BY <1>2, <1>3 DEF Lead

\* Each step of growing keeps it.
LEMMA GrowBranch == ScanInv /\ BackInv /\ Branch => BackInv'
<1> SUFFICES ASSUME ScanInv, BackInv, Branch, Grows', NothingBefore' PROVE BackInv'
  BY DEF BackInv
<1>1. /\ pc = "start" /\ OldLen # 0 /\ call' = call /\ mem' = mem
      /\ s' = s /\ d' = d /\ ret' = ret /\ is_buffer_overflow' = is_buffer_overflow
      /\ pc' = IF Grows THEN "measure" ELSE "replace"
  BY DEF Branch, Goes, args, results
<1>2. Grows /\ NothingBefore
  BY <1>1 DEF Grows, OldLen, NewLen, NothingBefore
<1>3. pc' = "measure"
  BY <1>1, <1>2
<1>4. OutsideKept'
  BY <1>1, <1>2 DEF BackInv, OutsideKept, Outside, MaxIdx
<1>5. /\ call \in Calls /\ s = 0 /\ d = 0 /\ ret = 0 /\ is_buffer_overflow = FALSE
      /\ call.in_place => TextFrom(mem, call, 0)
  BY <1>1 DEF ScanInv
<1>6. TextLen \in Nat /\ MaxIdx \in Nat /\ call.in_place
  BY <1>2, <1>5, GrowsIs
<1>7. MeasuredSoFar
  <2>1. Sought(call, s + 1)
    BY <1>5, LeadFirst
  <2>2. Len(Out(call, s)) = 0
    <3>1. Out(call, 0) = <<>> /\ Len(<<>>) = 0
      BY <1>5, OutIs
    <3> QED
      BY <1>5, <3>1
  <2>3. (d > MaxIdx) = FALSE /\ s \in 0..TextLen
    BY <1>5, <1>6
  <2> QED
    BY <1>5, <1>6, <2>1, <2>2, <2>3 DEF MeasuredSoFar
<1>8. MeasuredSoFar'
  BY <1>1, <1>7 DEF MeasuredSoFar, TextLen, MaxIdx
<1> QED
  BY <1>3, <1>4, <1>8 DEF BackInv

LEMMA GrowMeasure == ScanInv /\ BackInv /\ Measure => BackInv'
<1> SUFFICES ASSUME ScanInv, BackInv, Measure, Grows', NothingBefore' PROVE BackInv'
  BY DEF BackInv
<1>1. /\ pc = "measure" /\ s < TextLen /\ ~is_buffer_overflow
      /\ s' = s + (IF Matches(mem, s) THEN OldLen ELSE 1)
      /\ d' = d + (IF Matches(mem, s) THEN NewLen ELSE 1)
      /\ is_buffer_overflow' = (d' >= call.dst_size)
      /\ call' = call /\ mem' = mem /\ ret' = ret /\ pc' = pc
  BY DEF Measure, args
<1>2. Grows /\ NothingBefore /\ call \in Calls
  BY <1>1 DEF Grows, OldLen, NewLen, NothingBefore, ScanInv
<1>3. OutsideKept'
  BY <1>1, <1>2 DEF BackInv, OutsideKept, Outside, MaxIdx
<1>4. /\ s \in 0..TextLen /\ Sought(call, s + 1) /\ d = Len(Out(call, s)) /\ ret = 0
      /\ TextFrom(mem, call, 0)
  BY <1>1, <1>2 DEF BackInv, MeasuredSoFar
<1>5. PICK l \in Nat, w \in Nat, n \in Nat, max \in Nat :
        /\ l = OldLen /\ w = NewLen /\ n = TextLen /\ max = MaxIdx /\ l > 0
        /\ l = Len(call.old_str) /\ w = Len(call.new_str) /\ n = Len(call.text)
        /\ call.dst_size = max + 1
  BY <1>2, GrowsIs
<1>6. PICK p \in 1..Len(call.text) : p = s + 1 /\ p - 1 = s
  <2>1. s < n /\ s \in 0..n
    BY <1>1, <1>4, <1>5
  <2>2. PICK k \in 1..n : k = s + 1 /\ k - 1 = s
    <3>1. PICK k \in Nat : k = s /\ k < n
      BY <2>1
    <3>2. k + 1 \in 1..n /\ k + 1 - 1 = k
      BY <3>1
    <3> QED
      BY <3>1, <3>2
  <2>3. n = Len(call.text)
    BY <1>5
  <2> QED
    BY <2>2, <2>3
<1>7. Matches(mem, s) <=> Begins(call.text, call.old_str, p)
  <2>1. s \in 0 .. TextLen - 1 /\ OldLen # 0
    BY <1>1, <1>4, <1>5
  <2>2. TextFrom(mem, call, s)
    <3>1. \A i \in s .. n - 1 : i \in 0 .. n - 1
      BY <1>4
    <3> QED
      BY <1>4, <1>5, <3>1 DEF TextFrom
  <2> QED
    BY <1>2, <1>6, <2>1, <2>2, MatchIs
<1>8. s' \in 0..TextLen /\ Sought(call, s' + 1) /\ d' = Len(Out(call, s')) /\ d' \in Nat
  <2>0. Len(Out(call, s)) \in Nat /\ Sought(call, p) /\ Lead(call, p) = d - s
    <3>1. Lead(call, p) = Len(Out(call, p - 1)) - (p - 1)
      BY Zenon DEF Lead
    <3> QED
      BY <1>2, <1>4, <1>5, <1>6, <3>1, OutIs
  <2>1. CASE Matches(mem, s)
    <3>1. PICK h \in Nat : h = s + l
      BY <1>4, <1>5
    <3>2. /\ Sought(call, p + Len(call.old_str))
          /\ p + Len(call.old_str) \in 1 .. Len(call.text) + 1
          /\ Lead(call, p + Len(call.old_str))
                = Lead(call, p) + (Len(call.new_str) - Len(call.old_str))
      BY <1>2, <1>7, <2>0, <2>1, LeadFound
    <3>3. PICK x \in 1 .. n + 1 : x = p + Len(call.old_str) /\ x = h + 1 /\ x - 1 = h
      <4>1. p + Len(call.old_str) = h + 1 /\ h + 1 - 1 = h
        BY <1>5, <1>6, <3>1
      <4> QED
        BY <1>5, <3>2, <4>1
    <3>4. Sought(call, x) /\ Lead(call, x) = d - s + (w - l)
      BY <1>5, <2>0, <3>2, <3>3
    <3>5. Lead(call, x) = Len(Out(call, x - 1)) - (x - 1)
      BY Zenon DEF Lead
    <3>6. PICK g \in Nat : g = Len(Out(call, h))
      <4>1. h \in 0..Len(call.text)
        BY <1>5, <3>3
      <4> QED
        BY <1>2, <4>1, OutIs
    <3>7. g - h = d - s + (w - l)
      BY <3>3, <3>4, <3>5, <3>6
    <3>8. g = d + w /\ h \in 0..n
      <4>1. PICK y \in Nat, z \in Nat : y = d /\ z = s
        BY <1>4, <1>5, <2>0
      <4>2. g - h = y - z + (w - l) /\ h = z + l
        BY <3>1, <3>7, <4>1
      <4>3. g = y + w
        BY <4>2
      <4> QED
        BY <3>3, <4>1, <4>3
    <3>9. s' = h /\ d' = g
      BY <1>1, <1>5, <2>1, <3>1, <3>8
    <3> QED
      BY <1>5, <3>3, <3>4, <3>6, <3>8, <3>9
  <2>2. CASE ~Matches(mem, s)
    <3>1. /\ Sought(call, p + 1) /\ Len(Out(call, p)) = Len(Out(call, p - 1)) + 1
      BY <1>2, <1>7, <2>0, <2>2, LeadChar
    <3>2. s' = p /\ d' = Len(Out(call, p))
      BY <1>1, <1>4, <1>6, <2>0, <2>2, <3>1
    <3>3. p \in 0..TextLen /\ d' \in Nat
      BY <1>1, <1>4, <1>5, <2>0, <2>2
    <3> QED
      BY <3>1, <3>2, <3>3
  <2> QED
    BY <2>1, <2>2
<1>9. is_buffer_overflow' = (d' > MaxIdx)
  BY <1>1, <1>5, <1>8
<1>10. MeasuredSoFar'
  BY <1>1, <1>4, <1>8, <1>9 DEF MeasuredSoFar, TextLen, MaxIdx
<1> QED
  BY <1>1, <1>3, <1>10 DEF BackInv

\* What a write does, wherever it is.
LEMMA WriteEach ==
    ASSUME NEW m, DOMAIN m \subseteq Int, NEW at \in Int, NEW chars, NEW n \in Nat, Len(chars) = n
    PROVE  /\ DOMAIN Write(m, at, chars) = DOMAIN m
           /\ \A i \in DOMAIN m : i \in at .. at + n - 1 =>
                 Write(m, at, chars)[i] = chars[i - at + 1]
           /\ \A i \in DOMAIN m : i \notin at .. at + n - 1 => Write(m, at, chars)[i] = m[i]
BY DEF Write

\* As much of a string as is asked for, which may be less than nothing.
LEMMA StartOf ==
    ASSUME NEW w \in Seq(Chars), NEW k \in Int, k <= Len(w)
    PROVE  \E n \in Nat : /\ n = (IF k > 0 THEN k ELSE 0) /\ Len(SubSeq(w, 1, k)) = n
                          /\ \A i \in 1..n : SubSeq(w, 1, k)[i] = w[i]
<1>1. CASE k > 0
  <2>1. /\ k \in Nat /\ Len(SubSeq(w, 1, k)) = k
        /\ \A i \in 1..k : SubSeq(w, 1, k)[i] = w[i]
    BY <1>1
  <2> QED
    BY <1>1, <2>1
<1>2. CASE ~(k > 0)
  <2>1. SubSeq(w, 1, k) = <<>>
    BY <1>2
  <2>2. Len(SubSeq(w, 1, k)) = 0
    BY <2>1
  <2> QED
    BY <1>2, <2>2
<1> QED
  BY <1>1, <1>2

\* The step goes on growing.
LEMMA BackKeeps ==
    ASSUME UNCHANGED call, OutsideKept', pc' = "grow", NEW m \in 0..TextLen,
           Backing(m)', (Borderless => Placed(m)')
    PROVE  BackInv'
<1>1. TextLen' = TextLen /\ (Borderless' <=> Borderless)
  BY DEF TextLen, Borderless, OldLen
<1>2. \E k \in 0..TextLen' : Backing(k)' /\ (Borderless' => Placed(k)')
  BY <1>1
<1> QED
  BY <1>2 DEF BackInv

\* The memory outside the buffer after a write within it.
LEMMA OutsideStays ==
    ASSUME call \in Calls, DOMAIN mem = DOMAIN Around(call), OutsideKept, UNCHANGED call,
           DOMAIN mem' = DOMAIN mem, \A i \in DOMAIN mem : i \notin 0..MaxIdx => mem'[i] = mem[i]
    PROVE  OutsideKept'
<1>1. MaxIdx' = MaxIdx /\ call'.around = call.around
  BY DEF MaxIdx
<1> QED
  BY <1>1 DEF OutsideKept, Outside

\* The memory is numbered.
LEMMA MemoryIs ==
    ASSUME call \in Calls, DOMAIN mem = DOMAIN Around(call)
    PROVE  DOMAIN mem \subseteq Int /\ 0..MaxIdx \subseteq DOMAIN mem
<1>1. 0..MaxIdx \subseteq DOMAIN mem
  BY AroundIs DEF MaxIdx
<1>2. PICK r \in Nat, z \in Nat : r = Reach(call) /\ z = call.dst_size
  BY ReachIs, CallIs
<1>3. DOMAIN Around(call) = -r .. z + r
  BY <1>2 DEF Around
<1>4. DOMAIN mem \subseteq Int
  BY <1>3
<1> QED
  BY <1>1, <1>4

\* Where the string ends.
LEMMA EndIs ==
    ASSUME call \in Calls, NEW m \in 0..Len(call.text)
    PROVE  /\ Len(Out(call, m)) \in Nat /\ MaxIdx \in Nat
           /\ End(call, m) = (IF Len(Out(call, m)) > MaxIdx THEN MaxIdx ELSE Len(Out(call, m)))
<1>1. PICK g \in Nat : g = Len(Out(call, m))
  BY OutIs
<1>2. PICK z \in Nat : z = call.dst_size - 1 /\ z = MaxIdx
  <2>1. call.dst_size \in Nat /\ call.dst_size > 0
    BY CallIs
  <2>2. call.dst_size - 1 \in Nat
    BY <2>1
  <2> QED
    BY <2>2 DEF MaxIdx
<1>3. End(call, m) = Least(g, z)
  BY <1>1, <1>2 DEF End
<1>4. Least(g, z) = IF g > z THEN z ELSE g
  BY DEF Least
<1> QED
  BY <1>1, <1>2, <1>3, <1>4

\* The buffer holds what comes of the first m characters, all the text or enough
\* of it to fill the buffer: the result is right.
LEMMA GrownRight ==
    ASSUME call \in Calls, Grows, NEW m \in 0..TextLen,
           Len(Out(call, m)) <= MaxIdx => m = TextLen,
           NEW memory, \A i \in 0 .. End(call, m) - 1 : memory[i] = Out(call, m)[i + 1],
           memory[End(call, m)] = Nul,
           NEW count, count = Cardinality(KeptOf(call, m)),
           NEW over, over = (Len(Out(call, m)) > MaxIdx)
    PROVE  Right(call, memory, count, over, End(call, m))
<1>1. PICK n \in Nat, max \in Nat :
        n = TextLen /\ n = Len(call.text) /\ max = MaxIdx /\ max = call.dst_size - 1
  BY GrowsIs
<1>2. m \in 0..Len(call.text) /\ n \in 0..Len(call.text) /\ m <= n
  BY <1>1
<1>3. PICK g \in Nat, e \in Nat :
        g = Len(Out(call, m)) /\ e = End(call, m) /\ e = (IF g > max THEN max ELSE g)
  <2>1. /\ Len(Out(call, m)) \in Nat
        /\ End(call, m) = (IF Len(Out(call, m)) > MaxIdx THEN MaxIdx ELSE Len(Out(call, m)))
    BY <1>2, EndIs
  <2>2. PICK g \in Nat : g = Len(Out(call, m))
    BY <2>1
  <2>3. (IF g > max THEN max ELSE g) \in Nat
    OBVIOUS
  <2> QED
    BY <1>1, <2>1, <2>2, <2>3
<1>4. PICK y \in Seq(Chars) : y = Out(call, m)
  BY <1>2, OutIs
<1>5. PICK a \in Seq(Chars) : a = All(call)
  BY OutIs
<1>6. Len(y) = g
  BY <1>3, <1>4
<1>7. g <= Len(a) /\ Len(a) \in Nat /\ \A i \in 1..g : a[i] = y[i]
  <2>1. PICK z \in Seq(Chars) : All(call) = Out(call, m) \o z
    <3>1. \E z \in Seq(Chars) : Out(call, n) = Out(call, m) \o z
      BY <1>2, OutGrows
    <3> QED
      BY <1>1, <3>1 DEF All
  <2>2. a = y \o z
    BY <1>4, <1>5, <2>1
  <2>3. PICK k \in Nat : k = Len(z)
    OBVIOUS
  <2>4. Len(y \o z) = g + k /\ \A i \in 1..g : (y \o z)[i] = y[i]
    BY <1>6, <2>3
  <2>5. g <= g + k /\ g + k \in Nat
    OBVIOUS
  <2> QED
    BY <2>2, <2>4, <2>5
<1>8. g <= max => Len(a) = g
  BY <1>1, <1>3, <1>5 DEF All
<1>9. e \in 0..Len(a) /\ Least(Len(a), max) = e /\ (Len(a) > max) = (g > max)
  <2>1. PICK k \in Nat : k = Len(a) /\ g <= k /\ (g <= max => k = g)
    BY <1>7, <1>8
  <2>2. e \in 0..k /\ (IF k < max THEN k ELSE max) = e
    BY <1>3, <2>1
  <2>3. (k > max) <=> (g > max)
    BY <2>1
  <2>4. (k > max) = (g > max)
    <3>1. CASE g > max
      <4>1. (g > max) = TRUE /\ (k > max) = TRUE
        BY <2>3, <3>1
      <4> QED
        BY <4>1
    <3>2. CASE ~(g > max)
      <4>1. (g > max) = FALSE /\ (k > max) = FALSE
        BY <2>3, <3>2
      <4> QED
        BY <4>1
    <3> QED
      BY <3>1, <3>2
  <2> QED
    BY <2>1, <2>2, <2>4 DEF Least
<1>10. PICK x \in Seq(Chars) : x = SubSeq(a, 1, e) /\ Len(x) = e /\ \A i \in 1..e : x[i] = a[i]
  <2>1. /\ SubSeq(a, 1, e) \in Seq(Chars) /\ Len(SubSeq(a, 1, e)) = e
        /\ \A i \in 1..e : SubSeq(a, 1, e)[i] = a[i]
    BY <1>9
  <2> QED
    BY <2>1
<1>11. Holds(memory, x)
  <2> SUFFICES ASSUME NEW i \in 1..Len(x) PROVE memory[i - 1] = x[i]
    BY DEF Holds
  <2>1. i \in 1..e
    BY <1>10
  <2>2. i \in 1..g /\ i - 1 \in 0 .. e - 1 /\ i - 1 + 1 = i
    BY <1>3, <2>1
  <2>3. memory[i - 1] = y[i]
    BY <1>3, <1>4, <2>2
  <2> QED
    BY <1>7, <1>10, <2>1, <2>2, <2>3
<1>12. x = SubSeq(All(call), 1, Least(Len(All(call)), call.dst_size - 1))
  BY <1>1, <1>5, <1>9, <1>10
<1>13. memory[Len(x)] = Nul /\ Len(x) <= call.dst_size - 1 /\ End(call, m) = Len(x)
  <2>1. e <= max
    BY <1>3
  <2> QED
    BY <1>1, <1>3, <1>10, <2>1
<1>14. over = (Len(All(call)) > call.dst_size - 1)
  BY <1>1, <1>3, <1>5, <1>9
<1>15. count = Cardinality(KeptOf(call, Len(call.text)))
  <2>1. CASE g <= max
    BY <1>1, <1>3, <2>1
  <2>2. CASE ~(g <= max)
    <3>1. g > max
      BY <2>2
    <3>2. Len(Out(call, m)) > call.dst_size - 1
      BY <1>1, <1>3, <3>1
    <3>3. KeptOf(call, Len(call.text)) = KeptOf(call, m)
      BY <1>2, <3>2, LaterLost
    <3> QED
      BY <3>3
  <2> QED
    BY <2>1, <2>2
<1>16. ~(call.in_place /\ Len(call.old_str) = 0)
  BY GrowsIs
<1> QED
  BY <1>11, <1>12, <1>13, <1>14, <1>15, <1>16 DEF Right

LEMMA GrowTerminate == ScanInv /\ BackInv /\ Terminate => BackInv'
<1> SUFFICES ASSUME ScanInv, BackInv, Terminate, Grows', NothingBefore' PROVE BackInv'
  BY DEF BackInv
<1> DEFINE end == IF is_buffer_overflow THEN MaxIdx ELSE d
<1>1. /\ pc = "measure" /\ (s >= TextLen \/ is_buffer_overflow)
      /\ mem' = Write(mem, end, <<Nul>>) /\ length' = end
      /\ s' = s - 1 /\ d' = d - 1 /\ pc' = "grow"
      /\ call' = call /\ ret' = ret /\ is_buffer_overflow' = is_buffer_overflow
  BY DEF Terminate, Goes, args
<1>2. Grows /\ NothingBefore /\ call \in Calls /\ DOMAIN mem = DOMAIN Around(call)
  BY <1>1 DEF Grows, OldLen, NewLen, NothingBefore, ScanInv
<1>3. /\ s \in 0..TextLen /\ Sought(call, s + 1) /\ d = Len(Out(call, s)) /\ ret = 0
      /\ is_buffer_overflow = (d > MaxIdx) /\ TextFrom(mem, call, 0) /\ OutsideKept
  BY <1>1, <1>2 DEF BackInv, MeasuredSoFar
<1>4. PICK n \in Nat, max \in Nat :
        /\ n = TextLen /\ max = MaxIdx /\ n <= max /\ n = Len(call.text)
        /\ Len(call.old_str) < Len(call.new_str) /\ Len(call.old_str) \in Nat
        /\ Len(call.new_str) \in Nat
  BY <1>2, GrowsIs
<1>5. PICK m \in 0..n : m = s /\ m \in 0..Len(call.text)
  BY <1>3, <1>4
<1>6. PICK g \in Nat : g = d /\ g = Len(Out(call, m))
  BY <1>2, <1>3, <1>5, OutIs
<1>7. end = (IF g > max THEN max ELSE g) /\ end = End(call, m)
  <2>1. end = (IF g > max THEN max ELSE g)
    BY <1>3, <1>4, <1>6
  <2> QED
    BY <1>2, <1>4, <1>5, <1>6, <2>1, EndIs
<1> HIDE DEF end
<1>8. PICK p \in 1 .. Len(call.text) + 1 : p = m + 1 /\ p - 1 = m
  <2>1. m + 1 \in 1 .. n + 1 /\ m + 1 - 1 = m
    BY <1>4
  <2> QED
    BY <1>4, <2>1
<1>9. Sought(call, p) /\ Lead(call, p) = g - m
  <2>1. Lead(call, p) = Len(Out(call, p - 1)) - (p - 1)
    BY Zenon DEF Lead
  <2> QED
    BY <1>3, <1>5, <1>6, <1>8, <2>1
<1>10. ASSUME NEW i \in 1..p, Sought(call, i) PROVE Lead(call, i) <= g - m
  <2>1. i \in 1 .. Len(call.text) + 1 /\ p \in i .. Len(call.text) + 1
    BY <1>4, <1>8
  <2>2. Len(call.old_str) <= Len(call.new_str)
    BY <1>4
  <2>3. Lead(call, i) <= Lead(call, p)
    BY <1>2, <1>9, <1>10, <2>1, <2>2, LeadGrows
  <2> QED
    BY <1>9, <2>3
<1>11. m <= g
  <2>1. Sought(call, 1) /\ Lead(call, 1) = 0
    BY <1>2, LeadFirst
  <2>2. 1 \in 1..p
    BY <1>8
  <2>3. 0 <= g - m
    BY <1>10, <2>1, <2>2
  <2> QED
    BY <2>3
<1>12. PICK e \in m..max : e = end /\ e <= g
  <2>1. (IF g > max THEN max ELSE g) \in m..max /\ (IF g > max THEN max ELSE g) <= g
    BY <1>4, <1>11
  <2> QED
    BY <1>7, <2>1
<1>13. DOMAIN mem \subseteq Int /\ 0..max \subseteq DOMAIN mem
  BY <1>2, <1>4, MemoryIs
<1>14. /\ DOMAIN mem' = DOMAIN mem /\ mem'[e] = Nul
       /\ \A i \in DOMAIN mem : i # e => mem'[i] = mem[i]
  <2>1. Len(<<Nul>>) = 1 /\ <<Nul>>[1] = Nul
    OBVIOUS
  <2>2. mem' = Write(mem, e, <<Nul>>)
    BY <1>1, <1>12
  <2>3. PICK x : x = <<Nul>> /\ Len(x) = 1 /\ x[1] = Nul
    BY <2>1
  <2>4. mem' = Write(mem, e, x)
    BY <2>2, <2>3
  <2>5. /\ DOMAIN mem' = DOMAIN mem
        /\ \A i \in DOMAIN mem : i \in e .. e + 1 - 1 => mem'[i] = x[i - e + 1]
        /\ \A i \in DOMAIN mem : i \notin e .. e + 1 - 1 => mem'[i] = mem[i]
    <3>1. DOMAIN mem \subseteq Int /\ e \in Int /\ 1 \in Nat /\ Len(x) = 1
      BY <1>13, <2>3
    <3>2. /\ DOMAIN Write(mem, e, x) = DOMAIN mem
          /\ \A i \in DOMAIN mem : i \in e .. e + 1 - 1 => Write(mem, e, x)[i] = x[i - e + 1]
          /\ \A i \in DOMAIN mem : i \notin e .. e + 1 - 1 => Write(mem, e, x)[i] = mem[i]
      BY <3>1, WriteEach
    <3> QED
      BY <2>4, <3>2, Zenon
  <2>6. e \in DOMAIN mem /\ e \in e .. e + 1 - 1 /\ e - e + 1 = 1
    BY <1>13
  <2>7. mem'[e] = Nul
    BY <2>3, <2>5, <2>6
  <2>8. \A i \in DOMAIN mem : i # e => i \notin e .. e + 1 - 1
    BY <1>13
  <2> QED
    BY <2>5, <2>7, <2>8
<1>15. OutsideKept'
  <2>1. \A i \in DOMAIN mem : i \notin 0..MaxIdx => mem'[i] = mem[i]
    <3>1. e \in 0..MaxIdx
      BY <1>4, <1>12
    <3> QED
      BY <1>14, <3>1
  <2> QED
    BY <1>1, <1>2, <1>3, <1>14, <2>1, OutsideStays
<1>16. Backing(m)'
  <2>1. Sought(call', m + 1)
    BY <1>1, <1>3, <1>5
  <2>2. g <= max => m = n
    <3>1. CASE s >= TextLen
      BY <1>4, <1>5, <3>1
    <3>2. CASE is_buffer_overflow
      <4>1. g > max
        BY <1>3, <1>4, <1>6, <3>2
      <4> QED
        BY <4>1
    <3> QED
      BY <1>1, <3>1, <3>2
  <2>3. is_buffer_overflow' = (g > max)
    BY <1>1, <1>3, <1>4, <1>6
  <2>4. length' = End(call', m) /\ mem'[End(call', m)] = Nul
    BY <1>1, <1>7, <1>12, <1>14
  <2>5. s' = m - 1 /\ d' = g - 1 /\ s' \in -1 .. m - 1 /\ d' \in Int /\ d' < g
    BY <1>1, <1>5, <1>6
  <2>6. s' + 2 = p /\ d' - s' = g - m
    BY <1>8, <2>5
  <2>7. \A i \in 1 .. s' + 2 : Sought(call', i) => Lead(call', i) <= d' - s'
    BY <1>1, <1>10, <2>6
  <2>8. \A i \in 0..s' : mem'[i] = call'.text[i + 1]
    <3>1. SUFFICES ASSUME NEW i \in 0 .. m - 1 PROVE mem'[i] = call.text[i + 1]
      BY <1>1, <2>5
    <3>2. i \in 0 .. Len(call.text) - 1 /\ i \in 0..max /\ i # e
      BY <1>4, <1>12
    <3> QED
      BY <1>3, <1>13, <1>14, <3>2 DEF TextFrom
  <2>9. TextLen' = n /\ MaxIdx' = max /\ Len(Out(call', m)) = g
    BY <1>1, <1>4, <1>6 DEF TextLen, MaxIdx
  <2> QED
    BY <2>1, <2>2, <2>3, <2>4, <2>5, <2>7, <2>8, <2>9 DEF Backing
<1>17. Placed(m)'
  <2>1. s' + 2 = m + 1 /\ s' + 1 = m /\ d' + 1 = g
    BY <1>1, <1>5, <1>6
  <2>2. \A i \in d' + 1 .. End(call', m) - 1 : mem'[i] = Out(call', m)[i + 1]
    <3>1. End(call', m) = e
      BY <1>1, <1>7, <1>12
    <3>2. \A i \in g .. e - 1 : FALSE
      BY <1>12
    <3> QED
      BY <2>1, <3>1, <3>2
  <2>3. PICK k \in Nat : k = Cardinality(KeptOf(call, m))
    BY <1>2, KeptCount
  <2>4. ret' \in Nat /\ ret' + Cardinality(KeptOf(call', m)) = Cardinality(KeptOf(call', m))
    BY <1>1, <1>3, <2>3
  <2> QED
    BY <1>1, <1>3, <1>5, <1>6, <2>1, <2>2, <2>4 DEF Placed
<1>18. m \in 0..TextLen
  BY <1>4
<1> QED
  BY <1>1, <1>15, <1>16, <1>17, <1>18, BackKeeps

LEMMA GrowOneNew == ScanInv /\ BackInv /\ GrowNew => BackInv'
<1> SUFFICES ASSUME ScanInv, BackInv, GrowNew, Grows', NothingBefore' PROVE BackInv'
  BY DEF BackInv
<1> DEFINE copy_size == Least(NewLen, call.dst_size - 2 - d')
<1>1. /\ pc = "grow" /\ s >= 0 /\ FoundBefore
      /\ d' = d - NewLen /\ s' = s - OldLen
      /\ mem' = Write(mem, d' + 1, SubSeq(call.new_str, 1, copy_size))
      /\ ret' = (IF copy_size > 0 THEN ret + 1 ELSE ret)
      /\ call' = call /\ length' = length /\ is_buffer_overflow' = is_buffer_overflow /\ pc' = pc
  BY DEF GrowNew, args
<1> HIDE DEF copy_size
<1>2. Grows /\ NothingBefore /\ call \in Calls /\ DOMAIN mem = DOMAIN Around(call)
  BY <1>1 DEF Grows, OldLen, NewLen, NothingBefore, ScanInv
<1>3. OutsideKept
  BY <1>1, <1>2 DEF BackInv
<1>4. PICK m \in 0..TextLen : Backing(m) /\ (Borderless => Placed(m))
  BY <1>1, <1>2 DEF BackInv
<1>5. PICK l \in Nat, w \in Nat, n \in Nat, max \in Nat :
        /\ l = OldLen /\ w = NewLen /\ n = TextLen /\ max = MaxIdx /\ l > 0 /\ l < w /\ n <= max
        /\ l = Len(call.old_str) /\ w = Len(call.new_str) /\ n = Len(call.text)
        /\ max = call.dst_size - 1 /\ call.dst_size \in Nat
  BY <1>2, GrowsIs
<1>6. PICK a \in Nat, b \in Int, g \in Nat :
        a = s /\ b = d /\ g = Len(Out(call, m)) /\ a <= m - 1 /\ b < g
  <2>1. s \in 0 .. m - 1 /\ d \in Int /\ d < Len(Out(call, m))
    BY <1>1, <1>4, <1>5 DEF Backing
  <2>2. m \in 0..Len(call.text)
    BY <1>5
  <2>3. Len(Out(call, m)) \in Nat
    BY <1>2, <2>2, OutIs
  <2>4. PICK k \in Nat : k = m
    BY <1>5
  <2>5. PICK a \in Nat, b \in Int, g \in Nat : a = s /\ b = d /\ g = Len(Out(call, m))
    BY <2>1, <2>3, <2>4
  <2>6. a <= m - 1 /\ b < g
    BY <2>1, <2>4, <2>5
  <2> QED
    BY <2>5, <2>6
<1>7. /\ \A i \in 1 .. a + 2 : Sought(call, i) => Lead(call, i) <= b - a
      /\ \A i \in 0..a : mem[i] = call.text[i + 1]
      /\ mem[End(call, m)] = Nul /\ length = End(call, m)
      /\ Sought(call, m + 1) /\ (g <= max => m = n) /\ is_buffer_overflow = (g > max)
  BY <1>4, <1>5, <1>6 DEF Backing
<1>8. PICK p \in 1..n : p = a + 2 - l /\ Begins(call.text, call.old_str, p)
  <2>1. s \in 0 .. TextLen - 1 /\ \A i \in 0..s : mem[i] = call.text[i + 1]
    BY <1>5, <1>6, <1>7
  <2>2. s + 2 - OldLen \in 1..TextLen /\ Begins(call.text, call.old_str, s + 2 - OldLen)
    BY <1>1, <1>2, <1>3, <2>1, FoundBeforeIs
  <2>3. s + 2 - OldLen = a + 2 - l
    BY <1>5, <1>6
  <2> QED
    BY <1>5, <2>2, <2>3
<1>9. PICK e \in Int, f \in Int : e = b - w /\ f = a - l /\ p = f + 2 /\ p + l = a + 2
  BY <1>8
<1>10. d' = e /\ s' = f
  BY <1>1, <1>5, <1>6, <1>9
<1>11. ASSUME NEW i \in 1..p, Sought(call, i) PROVE Lead(call, i) <= e - f
  <2>1. i \in 1 .. Len(call.text) + 1 /\ p \in 1..Len(call.text) /\ i <= p
    BY <1>5
  <2>2. PICK x \in i .. p + Len(call.old_str) :
          /\ x \in 1 .. Len(call.text) + 1 /\ Sought(call, x)
          /\ Len(call.old_str) <= Len(call.new_str) =>
                Lead(call, i) + (Len(call.new_str) - Len(call.old_str)) <= Lead(call, x)
    BY <1>2, <1>8, <1>11, <2>1, FoundOnTheWay
  <2>3. l <= w => Lead(call, i) + (w - l) <= Lead(call, x)
    BY <1>5, <2>2
  <2>4. x \in 1 .. a + 2
    BY <1>5, <1>9, <2>2
  <2>5. Lead(call, x) <= b - a
    BY <1>7, <2>2, <2>4
  <2>6. Lead(call, i) \in Int /\ Lead(call, x) \in Int
    BY <1>2, <2>1, <2>2, LeadIs
  <2>7. PICK y \in Int, z \in Int : y = Lead(call, i) /\ z = Lead(call, x)
    BY <2>6
  <2>8. y + (w - l) <= z /\ z <= b - a
    <3>1. l <= w
      BY <1>5
    <3>2. Lead(call, i) + (w - l) <= Lead(call, x)
      BY <2>3, <3>1
    <3> QED
      BY <2>5, <2>7, <3>2
  <2>9. y <= e - f
    BY <1>9, <2>8
  <2> QED
    BY <2>7, <2>9
<1>12. f <= e /\ -1 <= f /\ f < a
  <2>1. Sought(call, 1) /\ Lead(call, 1) = 0 /\ 1 \in 1..p
    BY <1>2, LeadFirst
  <2>2. 0 <= e - f
    BY <1>11, <2>1
  <2> QED
    BY <1>5, <1>9, <2>2
<1>13. PICK k \in Int : k = copy_size /\ k <= w /\ k = (IF w < max - 1 - e THEN w ELSE max - 1 - e)
  <2>1. call.dst_size - 2 - d' = max - 1 - e
    BY <1>5, <1>10
  <2>2. copy_size = (IF w < max - 1 - e THEN w ELSE max - 1 - e)
    BY <1>5, <2>1 DEF copy_size, Least
  <2>3. (IF w < max - 1 - e THEN w ELSE max - 1 - e) \in Int
        /\ (IF w < max - 1 - e THEN w ELSE max - 1 - e) <= w
    OBVIOUS
  <2> QED
    BY <2>2, <2>3
<1> DEFINE chars == SubSeq(call.new_str, 1, k)
<1>14. PICK h \in Nat :
         /\ h = (IF k > 0 THEN k ELSE 0) /\ chars = SubSeq(call.new_str, 1, k) /\ Len(chars) = h
         /\ \A i \in 1..h : chars[i] = call.new_str[i]
  <2>1. call.new_str \in Seq(Chars)
    BY <1>2, CallIs
  <2>2. k <= Len(call.new_str)
    BY <1>5, <1>13
  <2>3. PICK h \in Nat :
          /\ h = (IF k > 0 THEN k ELSE 0) /\ Len(SubSeq(call.new_str, 1, k)) = h
          /\ \A i \in 1..h : SubSeq(call.new_str, 1, k)[i] = call.new_str[i]
    BY <2>1, <2>2, StartOf
  <2> QED
    BY <2>3
<1> HIDE DEF chars
<1>15. DOMAIN mem \subseteq Int /\ 0..max \subseteq DOMAIN mem
  BY <1>2, <1>5, MemoryIs
<1>16. /\ DOMAIN mem' = DOMAIN mem
       /\ \A i \in DOMAIN mem : i \in e + 1 .. e + h => mem'[i] = call.new_str[i - e]
       /\ \A i \in DOMAIN mem : i \notin e + 1 .. e + h => mem'[i] = mem[i]
  <2>1. mem' = Write(mem, e + 1, chars)
    BY <1>1, <1>10, <1>13, <1>14
  <2>2. DOMAIN mem \subseteq Int /\ e + 1 \in Int /\ h \in Nat /\ Len(chars) = h
    BY <1>14, <1>15
  <2>3. /\ DOMAIN Write(mem, e + 1, chars) = DOMAIN mem
        /\ \A i \in DOMAIN mem : i \in e + 1 .. e + 1 + h - 1 =>
              Write(mem, e + 1, chars)[i] = chars[i - (e + 1) + 1]
        /\ \A i \in DOMAIN mem : i \notin e + 1 .. e + 1 + h - 1 =>
              Write(mem, e + 1, chars)[i] = mem[i]
    BY <2>2, WriteEach
  <2>4. e + 1 + h - 1 = e + h
    OBVIOUS
  <2>5. ASSUME NEW i \in DOMAIN mem, i \in e + 1 .. e + h PROVE mem'[i] = call.new_str[i - e]
    <3>1. i - (e + 1) + 1 = i - e /\ i - e \in 1..h
      BY <2>5
    <3>2. mem'[i] = chars[i - e]
      BY <2>1, <2>3, <2>4, <2>5, <3>1
    <3> QED
      BY <1>14, <3>1, <3>2
  <2>6. DOMAIN mem' = DOMAIN mem
    BY <2>1, <2>3, Zenon
  <2>7. \A i \in DOMAIN mem : i \notin e + 1 .. e + h => mem'[i] = mem[i]
    BY <2>1, <2>3, <2>4
  <2> QED
    BY <2>5, <2>6, <2>7
<1>17. \A i \in e + 1 .. e + h : f < i /\ 0 <= i /\ i < max /\ i <= b /\ i < g
  <2>1. e + h <= b /\ (h > 0 => e + h < max)
    BY <1>9, <1>13, <1>14
  <2> QED
    BY <1>6, <1>12, <2>1
<1>18. OutsideKept'
  <2>1. \A i \in e + 1 .. e + h : i \in 0..MaxIdx
    BY <1>5, <1>17
  <2>2. \A i \in DOMAIN mem : i \notin 0..MaxIdx => mem'[i] = mem[i]
    BY <1>16, <2>1
  <2> QED
    BY <1>1, <1>2, <1>3, <1>16, <2>2, OutsideStays
<1>19. PICK z \in 0..max : z = End(call, m) /\ z = (IF g > max THEN max ELSE g)
  <2>1. End(call, m) = (IF Len(Out(call, m)) > MaxIdx THEN MaxIdx ELSE Len(Out(call, m)))
    <3>1. m \in 0..Len(call.text)
      BY <1>5
    <3> QED
      BY <1>2, <3>1, EndIs
  <2>2. (IF g > max THEN max ELSE g) \in 0..max
    BY <1>6
  <2> QED
    BY <1>5, <1>6, <2>1, <2>2
<1>20. mem'[z] = Nul
  <2>1. z \notin e + 1 .. e + h /\ z \in DOMAIN mem
    BY <1>15, <1>17, <1>19
  <2> QED
    BY <1>7, <1>16, <1>19, <2>1
<1>21. ASSUME NEW i \in 0..f PROVE mem'[i] = call.text[i + 1]
  <2>1. i \in 0..a /\ i \in 0..max /\ i \notin e + 1 .. e + h
    BY <1>5, <1>6, <1>12, <1>17
  <2>2. mem'[i] = mem[i]
    BY <1>15, <1>16, <2>1
  <2> QED
    BY <1>7, <2>1, <2>2
<1>22. Backing(m)'
  <2>1. Sought(call', m + 1) /\ MaxIdx' = MaxIdx /\ TextLen' = TextLen /\ Len(Out(call', m)) = g
    BY <1>1, <1>6, <1>7 DEF MaxIdx, TextLen
  <2>2. s' \in -1 .. m - 1 /\ d' \in Int /\ d' < g /\ s' + 2 = p
    BY <1>6, <1>9, <1>10, <1>12
  <2>3. \A i \in 1 .. s' + 2 : Sought(call', i) => Lead(call', i) <= d' - s'
    BY <1>1, <1>10, <1>11, <2>2
  <2>4. \A i \in 0..s' : mem'[i] = call'.text[i + 1]
    BY <1>1, <1>10, <1>21
  <2>5. mem'[End(call', m)] = Nul /\ length' = End(call', m)
    BY <1>1, <1>7, <1>19, <1>20
  <2>6. is_buffer_overflow' = (g > MaxIdx') /\ (g <= MaxIdx' => m = TextLen')
    BY <1>1, <1>5, <1>7, <2>1
  <2> QED
    BY <2>1, <2>2, <2>3, <2>4, <2>5, <2>6 DEF Backing
<1>23. ASSUME Borderless PROVE Placed(m)'
  <2>1. /\ b + 1 = Len(Out(call, a + 1)) /\ ret \in Nat
        /\ \A i \in b + 1 .. z - 1 : mem[i] = Out(call, m)[i + 1]
        /\ ret + Cardinality(KeptOf(call, a + 1)) = Cardinality(KeptOf(call, m))
    BY <1>4, <1>6, <1>19, <1>23 DEF Placed
  <2>2. p \in 1..Len(call.text) /\ Sought(call, p)
    BY <1>2, <1>5, <1>8, <1>23, BorderlessFinds
  <2>3. /\ Out(call, p + Len(call.old_str) - 1) = Out(call, p - 1) \o call.new_str
        /\ Cardinality(KeptOf(call, p + Len(call.old_str) - 1))
              = Cardinality(KeptOf(call, p - 1)) + (IF Keeps(call, p) THEN 1 ELSE 0)
    BY <1>2, <1>8, <2>2, OutFound, CountFound
  <2>4. p + Len(call.old_str) - 1 = a + 1 /\ p - 1 = f + 1
    BY <1>5, <1>9
  <2>5. /\ Out(call, a + 1) = Out(call, f + 1) \o call.new_str
        /\ Cardinality(KeptOf(call, a + 1))
              = Cardinality(KeptOf(call, f + 1)) + (IF Keeps(call, p) THEN 1 ELSE 0)
    BY <2>3, <2>4
  <2>6. f + 1 \in 0..Len(call.text) /\ a + 1 \in 0..Len(call.text) /\ m \in 0..Len(call.text)
        /\ a + 1 <= m
    BY <1>5, <1>6, <1>12
  <2>7. PICK u \in Seq(Chars), v \in Seq(Chars), o \in Seq(Chars) :
          u = Out(call, f + 1) /\ v = call.new_str /\ o = Out(call, m)
    <3>1. Out(call, f + 1) \in Seq(Chars) /\ Out(call, m) \in Seq(Chars)
      BY <1>2, <2>6, OutIs
    <3>2. call.new_str \in Seq(Chars)
      BY <1>2, CallIs
    <3> QED
      BY <3>1, <3>2
  <2>8. PICK j \in Nat : j = Len(u)
    OBVIOUS
  <2>9. Len(v) = w /\ Len(u \o v) = j + w
    <3>1. Len(v) = w
      BY <1>5, <2>7
    <3>2. Len(u \o v) = Len(u) + Len(v)
      OBVIOUS
    <3> QED
      BY <2>8, <3>1, <3>2
  <2>10. e + 1 = j /\ e + 1 = Len(Out(call, f + 1))
    <3>1. b + 1 = j + w
      BY <2>1, <2>5, <2>7, <2>9
    <3>2. e + 1 = j
      BY <1>9, <3>1
    <3> QED
      BY <2>7, <2>8, <3>2
  <2>11. \A i \in 1..w : o[j + i] = v[i]
    <3>1. PICK x \in Seq(Chars) : Out(call, m) = Out(call, a + 1) \o x
      BY <1>2, <2>6, OutGrows
    <3>2. o = (u \o v) \o x
      BY <2>5, <2>7, <3>1
    <3> SUFFICES ASSUME NEW i \in 1..w PROVE o[j + i] = v[i]
      OBVIOUS
    <3>3. (u \o v)[j + i] = v[i]
      <4>1. i \in 1..Len(v)
        BY <2>9
      <4>2. (u \o v)[Len(u) + i] = v[i]
        BY <4>1
      <4> QED
        BY <2>8, <4>2
    <3>4. PICK y \in Seq(Chars) : y = u \o v /\ Len(y) = j + w
      <4>1. u \o v \in Seq(Chars)
        OBVIOUS
      <4> QED
        BY <2>9, <4>1
    <3>5. j + i \in 1..Len(y)
      BY <3>4
    <3>6. (y \o x)[j + i] = y[j + i]
      BY <3>5
    <3> QED
      BY <3>2, <3>3, <3>4, <3>6
  <2>12. ASSUME NEW i \in e + 1 .. z - 1 PROVE mem'[i] = Out(call, m)[i + 1]
    <3>1. i \in 0 .. max - 1 /\ i \in DOMAIN mem
      BY <1>12, <1>15, <1>19
    <3>2. CASE i <= b
      <4>1. PICK q \in 1..w : q = i - e /\ j + q = i + 1
        <5>1. i - e \in 1..w /\ j + (i - e) = i + 1
          BY <1>9, <2>10, <3>2
        <5> QED
          BY <5>1
      <4>2. i \in e + 1 .. e + h
        <5>1. h = (IF k > 0 THEN k ELSE 0)
          BY <1>14
        <5>2. k = (IF w < max - 1 - e THEN w ELSE max - 1 - e)
          BY <1>13
        <5>3. i <= e + w /\ i <= max - 1
          BY <1>9, <3>1, <3>2
        <5>4. i <= e + k
          BY <5>2, <5>3
        <5>5. k > 0 /\ h = k
          BY <5>1, <5>4
        <5> QED
          BY <5>4, <5>5
      <4>3. mem'[i] = v[q]
        BY <1>16, <2>7, <3>1, <4>1, <4>2
      <4>4. o[i + 1] = v[q]
        BY <2>11, <4>1
      <4> QED
        BY <2>7, <4>3, <4>4
    <3>3. CASE ~(i <= b)
      <4>1. i \in b + 1 .. z - 1
        BY <3>3
      <4>2. i \notin e + 1 .. e + h
        BY <1>17, <3>3
      <4> QED
        BY <1>16, <2>1, <3>1, <4>1, <4>2
    <3> QED
      BY <3>2, <3>3
  <2>13. Keeps(call, p) <=> k > 0
    <3>1. Len(Out(call, p - 1)) = j
      BY <2>4, <2>7, <2>8
    <3>2. Keeps(call, p) <=> j < max
      BY <1>5, <3>1 DEF Keeps
    <3>3. j < max <=> k > 0
      <4>1. w > 0 /\ j = e + 1 /\ k = (IF w < max - 1 - e THEN w ELSE max - 1 - e)
        <5>1. w > 0
          BY <1>5
        <5>2. j = e + 1
          BY <2>10
        <5> QED
          BY <1>13, <5>1, <5>2
      <4> QED
        BY <4>1
    <3> QED
      BY <3>2, <3>3
  <2>14. ret' \in Nat /\ ret' + Cardinality(KeptOf(call, f + 1)) = Cardinality(KeptOf(call, m))
    <3>1. PICK x \in Nat, y \in Nat, q \in Nat :
            /\ x = Cardinality(KeptOf(call, f + 1)) /\ y = Cardinality(KeptOf(call, m)) /\ q = ret
      BY <1>2, <2>1, KeptCount
    <3>2. q + (x + (IF k > 0 THEN 1 ELSE 0)) = y
      BY <2>1, <2>5, <2>13, <3>1
    <3>3. ret' = (IF k > 0 THEN q + 1 ELSE q)
      BY <1>1, <1>13, <3>1
    <3>4. (IF k > 0 THEN q + 1 ELSE q) \in Nat /\ (IF k > 0 THEN q + 1 ELSE q) + x = y
      BY <3>2
    <3> QED
      BY <3>1, <3>3, <3>4
  <2>15. s' + 2 = p /\ s' + 1 = f + 1 /\ d' + 1 = e + 1
    BY <1>9, <1>10
  <2>16. \A i \in d' + 1 .. End(call', m) - 1 : mem'[i] = Out(call', m)[i + 1]
    BY <1>1, <1>19, <2>12, <2>15
  <2> QED
    BY <1>1, <2>2, <2>10, <2>14, <2>15, <2>16 DEF Placed
<1> QED
  BY <1>1, <1>18, <1>22, <1>23, BackKeeps

LEMMA GrowOneChar == ScanInv /\ BackInv /\ GrowChar => BackInv'
<1> SUFFICES ASSUME ScanInv, BackInv, GrowChar, Grows', NothingBefore' PROVE BackInv'
  BY DEF BackInv
<1>1. /\ pc = "grow" /\ s >= 0 /\ ~FoundBefore
      /\ mem' = (IF d < MaxIdx THEN Write(mem, d, <<mem[s]>>) ELSE mem)
      /\ s < 1 => (s' = s - 1 /\ d' = d - 1 /\ pc' = "done")
      /\ ~(s < 1) => (s' = s /\ d' = d /\ pc' = pc)
      /\ call' = call /\ ret' = ret /\ length' = length
      /\ is_buffer_overflow' = is_buffer_overflow
  BY DEF GrowChar, args, results, Goes
<1>2. Grows /\ NothingBefore /\ call \in Calls /\ DOMAIN mem = DOMAIN Around(call)
  BY <1>1 DEF Grows, OldLen, NewLen, NothingBefore, ScanInv
<1>3. OutsideKept
  BY <1>1, <1>2 DEF BackInv
<1>4. PICK m \in 0..TextLen : Backing(m) /\ (Borderless => Placed(m))
  BY <1>1, <1>2 DEF BackInv
<1>5. PICK l \in Nat, n \in Nat, max \in Nat :
        /\ l = OldLen /\ n = TextLen /\ max = MaxIdx /\ l > 0 /\ n <= max
        /\ l = Len(call.old_str) /\ n = Len(call.text) /\ max = call.dst_size - 1
  BY <1>2, GrowsIs
<1>6. PICK a \in Nat, b \in Int, g \in Nat :
        a = s /\ b = d /\ g = Len(Out(call, m)) /\ a <= m - 1 /\ b < g
  <2>1. s \in 0 .. m - 1 /\ d \in Int /\ d < Len(Out(call, m))
    BY <1>1, <1>4, <1>5 DEF Backing
  <2>2. m \in 0..Len(call.text)
    BY <1>5
  <2>3. Len(Out(call, m)) \in Nat
    BY <1>2, <2>2, OutIs
  <2>4. PICK k \in Nat : k = m
    BY <1>5
  <2>5. PICK a \in Nat, b \in Int, g \in Nat : a = s /\ b = d /\ g = Len(Out(call, m))
    BY <2>1, <2>3, <2>4
  <2>6. a <= m - 1 /\ b < g
    BY <2>1, <2>4, <2>5
  <2> QED
    BY <2>5, <2>6
<1>7. /\ \A i \in 1 .. a + 2 : Sought(call, i) => Lead(call, i) <= b - a
      /\ \A i \in 0..a : mem[i] = call.text[i + 1]
      /\ mem[End(call, m)] = Nul /\ length = End(call, m)
      /\ Sought(call, m + 1) /\ (g <= max => m = n) /\ is_buffer_overflow = (g > max)
  BY <1>4, <1>5, <1>6 DEF Backing
<1>8. a <= b
  <2>1. Sought(call, 1) /\ Lead(call, 1) = 0
    BY <1>2, LeadFirst
  <2>2. 1 \in 1 .. a + 2
    OBVIOUS
  <2>3. 0 <= b - a
    BY <1>7, <2>1, <2>2
  <2> QED
    BY <2>3
<1>9. DOMAIN mem \subseteq Int /\ 0..max \subseteq DOMAIN mem
  BY <1>2, <1>5, MemoryIs
<1>10. /\ DOMAIN mem' = DOMAIN mem
       /\ \A i \in DOMAIN mem : ~(i = b /\ b < max) => mem'[i] = mem[i]
       /\ b < max => mem'[b] = mem[a]
  <2>1. CASE b < max
    <3>1. PICK x : x = <<mem[a]>> /\ Len(x) = 1 /\ x[1] = mem[a]
      <4>1. Len(<<mem[a]>>) = 1 /\ <<mem[a]>>[1] = mem[a]
        OBVIOUS
      <4> QED
        BY <4>1
    <3>2. mem' = Write(mem, b, x)
      BY <1>1, <1>5, <1>6, <2>1, <3>1
    <3>3. DOMAIN mem \subseteq Int /\ b \in Int /\ 1 \in Nat /\ Len(x) = 1
      BY <1>9, <3>1
    <3>4. /\ DOMAIN Write(mem, b, x) = DOMAIN mem
          /\ \A i \in DOMAIN mem : i \in b .. b + 1 - 1 => Write(mem, b, x)[i] = x[i - b + 1]
          /\ \A i \in DOMAIN mem : i \notin b .. b + 1 - 1 => Write(mem, b, x)[i] = mem[i]
      BY <3>3, WriteEach
    <3>5. b \in DOMAIN mem /\ b \in b .. b + 1 - 1 /\ b - b + 1 = 1
      <4>1. b \in 0..max
        BY <1>8, <2>1
      <4> QED
        BY <1>9, <4>1
    <3>6. mem'[b] = mem[a]
      BY <3>1, <3>2, <3>4, <3>5
    <3>7. \A i \in DOMAIN mem : i # b => i \notin b .. b + 1 - 1
      BY <1>9
    <3>8. DOMAIN mem' = DOMAIN mem
      BY <3>2, <3>4, Zenon
    <3>9. \A i \in DOMAIN mem : i # b => mem'[i] = mem[i]
      BY <3>2, <3>4, <3>7
    <3> QED
      BY <2>1, <3>6, <3>8, <3>9
  <2>2. CASE ~(b < max)
    <3>1. mem' = mem
      BY <1>1, <1>5, <1>6, <2>2
    <3> QED
      BY <2>2, <3>1
  <2> QED
    BY <2>1, <2>2
<1>11. OutsideKept'
  <2>1. \A i \in DOMAIN mem : i \notin 0..MaxIdx => mem'[i] = mem[i]
    <3>1. b < max => b \in 0..MaxIdx
      BY <1>5, <1>8
    <3> QED
      BY <1>10, <3>1
  <2> QED
    BY <1>1, <1>2, <1>3, <1>10, <2>1, OutsideStays
<1>12. PICK z \in 0..max : z = End(call, m) /\ z = (IF g > max THEN max ELSE g)
  <2>1. End(call, m) = (IF Len(Out(call, m)) > MaxIdx THEN MaxIdx ELSE Len(Out(call, m)))
    <3>1. m \in 0..Len(call.text)
      BY <1>5
    <3> QED
      BY <1>2, <3>1, EndIs
  <2>2. (IF g > max THEN max ELSE g) \in 0..max
    BY <1>6
  <2> QED
    BY <1>5, <1>6, <2>1, <2>2
<1>13. mem'[z] = Nul
  <2>1. ~(z = b /\ b < max) /\ z \in DOMAIN mem
    BY <1>6, <1>9, <1>12
  <2> QED
    BY <1>7, <1>10, <1>12, <2>1
<1>14. MaxIdx' = MaxIdx /\ TextLen' = TextLen /\ End(call', m) = z
  BY <1>1, <1>12 DEF MaxIdx, TextLen
<1>15. CASE ~(s < 1)
  <2>1. s' = a /\ d' = b /\ pc' = "grow"
    BY <1>1, <1>6, <1>15
  <2>2. ASSUME NEW i \in 0..a PROVE mem'[i] = call.text[i + 1]
    <3>1. i \in 0..max /\ i \in DOMAIN mem
      BY <1>5, <1>6, <1>9
    <3>2. mem'[i] = mem[i]
      <4>1. CASE i = b /\ b < max
        <5>1. i = a
          BY <1>8, <4>1
        <5> QED
          BY <1>10, <4>1, <5>1
      <4>2. CASE ~(i = b /\ b < max)
        BY <1>10, <3>1, <4>2
      <4> QED
        BY <4>1, <4>2
    <3> QED
      BY <1>7, <3>2
  <2>3. Backing(m)'
    <3>1. Sought(call', m + 1) /\ Len(Out(call', m)) = g
      BY <1>1, <1>6, <1>7
    <3>2. s' \in -1 .. m - 1 /\ d' \in Int /\ d' < g
      BY <1>6, <2>1
    <3>3. \A i \in 1 .. s' + 2 : Sought(call', i) => Lead(call', i) <= d' - s'
      BY <1>1, <1>7, <2>1
    <3>4. \A i \in 0..s' : mem'[i] = call'.text[i + 1]
      BY <1>1, <2>1, <2>2
    <3>5. mem'[End(call', m)] = Nul /\ length' = End(call', m)
      BY <1>1, <1>7, <1>12, <1>13, <1>14
    <3>6. is_buffer_overflow' = (g > MaxIdx') /\ (g <= MaxIdx' => m = TextLen')
      BY <1>1, <1>5, <1>7, <1>14
    <3> QED
      BY <3>1, <3>2, <3>3, <3>4, <3>5, <3>6 DEF Backing
  <2>4. ASSUME Borderless PROVE Placed(m)'
    <3>1. /\ Sought(call, a + 2) /\ b + 1 = Len(Out(call, a + 1)) /\ ret \in Nat
          /\ \A i \in b + 1 .. z - 1 : mem[i] = Out(call, m)[i + 1]
          /\ ret + Cardinality(KeptOf(call, a + 1)) = Cardinality(KeptOf(call, m))
      BY <1>4, <1>6, <1>12, <2>4 DEF Placed
    <3>2. ASSUME NEW i \in b + 1 .. z - 1 PROVE mem'[i] = Out(call, m)[i + 1]
      <4>1. i \in 0..max /\ i # b
        BY <1>8, <1>12
      <4> QED
        BY <1>9, <1>10, <3>1, <4>1
    <3> QED
      BY <1>1, <1>14, <2>1, <3>1, <3>2 DEF Placed
  <2> QED
    BY <1>1, <1>11, <2>1, <2>3, <2>4, BackKeeps
<1>16. CASE s < 1
  <2>1. a = 0 /\ pc' = "done"
    BY <1>1, <1>6, <1>16
  <2>2. ASSUME Borderless PROVE Right(call, mem', ret, is_buffer_overflow, length)
    <3>1. /\ Sought(call, 2) /\ b + 1 = Len(Out(call, 1)) /\ ret \in Nat
          /\ \A i \in b + 1 .. z - 1 : mem[i] = Out(call, m)[i + 1]
          /\ ret + Cardinality(KeptOf(call, 1)) = Cardinality(KeptOf(call, m))
      <4>1. a + 2 = 2 /\ a + 1 = 1
        BY <2>1
      <4> QED
        BY <1>4, <1>6, <1>12, <2>2, <4>1 DEF Placed
    <3>2. 1 \in 1..Len(call.text) /\ Sought(call, 1) /\ m \in 0..Len(call.text)
          /\ 1 \in 0..Len(call.text) /\ 1 <= m /\ 0 < max
      <4>1. Sought(call, 1)
        BY <1>2, LeadFirst
      <4> QED
        BY <1>5, <1>6, <2>1, <4>1
    <3>3. ~Begins(call.text, call.old_str, 1)
      <4> SUFFICES ASSUME Begins(call.text, call.old_str, 1) PROVE FALSE
        OBVIOUS
      <4>1. 1 \in Occ(call.text, call.old_str)
        BY <1>2, <3>2, OutFound
      <4>2. 1 + l <= 2
        BY <1>5, <3>1, <4>1 DEF Sought, Visit
      <4>3. s + 2 - OldLen = 1
        BY <1>5, <1>6, <2>1, <4>2
      <4>4. s \in 0 .. TextLen - 1 /\ \A i \in 0..s : mem[i] = call.text[i + 1]
        BY <1>5, <1>6, <1>7
      <4>5. FoundBefore <=> /\ s + 2 - OldLen \in 1..TextLen
                            /\ Begins(call.text, call.old_str, s + 2 - OldLen)
        BY <1>2, <1>3, <4>4, FoundBeforeIs
      <4>6. 1 \in 1..TextLen
        BY <1>5, <3>2
      <4> QED
        BY <1>1, <4>3, <4>5, <4>6
    <3>4. 1 \notin Occ(call.text, call.old_str)
      BY <1>2, <3>2, <3>3, OutChar
    <3>5. Out(call, 1) = Out(call, 1 - 1) \o <<call.text[1]>> /\ call.text[1] \in Chars
      BY <1>2, <3>2, <3>3, OutChar
    <3>6. PICK y \in Seq(Chars) : y = Out(call, 1) /\ Len(y) = 1 /\ y[1] = call.text[1]
      <4>1. Out(call, 1) = <<>> \o <<call.text[1]>>
        BY <1>2, <3>5, OutIs
      <4>2. /\ <<>> \o <<call.text[1]>> \in Seq(Chars) /\ Len(<<>> \o <<call.text[1]>>) = 1
            /\ (<<>> \o <<call.text[1]>>)[1] = call.text[1]
        BY <3>5
      <4> QED
        BY <4>1, <4>2
    <3>7. b = 0
      <4>1. b + 1 = 1
        BY <3>1, <3>6
      <4> QED
        BY <4>1
    <3>8. mem'[0] = call.text[1]
      <4>1. mem'[0] = mem[0]
        BY <1>10, <2>1, <3>2, <3>7
      <4>2. mem[0] = call.text[0 + 1]
        BY <1>7, <2>1
      <4> QED
        BY <4>1, <4>2
    <3>9. Out(call, m)[1] = call.text[1]
      <4>1. PICK x \in Seq(Chars) : Out(call, m) = Out(call, 1) \o x
        BY <1>2, <3>2, OutGrows
      <4>2. (y \o x)[1] = y[1]
        BY <3>6
      <4> QED
        BY <3>6, <4>1, <4>2
    <3>10. ASSUME NEW i \in 0 .. z - 1 PROVE mem'[i] = Out(call, m)[i + 1]
      <4>1. CASE i = 0
        BY <3>8, <3>9, <4>1
      <4>2. CASE i # 0
        <5>1. i \in b + 1 .. z - 1 /\ i \in 0..max /\ i # b
          BY <1>12, <3>7, <4>2
        <5> QED
          BY <1>9, <1>10, <3>1, <5>1
      <4> QED
        BY <4>1, <4>2
    <3>11. ret = Cardinality(KeptOf(call, m))
      <4>1. KeptOf(call, 1) = KeptOf(call, 1 - 1)
        BY <1>2, <3>2, <3>4, CountChar
      <4>2. Cardinality(KeptOf(call, 1)) = 0
        BY <1>2, <4>1, CountNone
      <4>3. PICK q \in Nat : q = ret
        BY <3>1
      <4> QED
        BY <3>1, <4>2, <4>3
    <3>12. /\ Len(Out(call, m)) <= MaxIdx => m = TextLen
           /\ is_buffer_overflow = (Len(Out(call, m)) > MaxIdx)
           /\ mem'[End(call, m)] = Nul /\ length = End(call, m)
           /\ \A i \in 0 .. End(call, m) - 1 : mem'[i] = Out(call, m)[i + 1]
      BY <1>5, <1>6, <1>7, <1>12, <1>13, <3>10
    <3>13. Right(call, mem', ret, is_buffer_overflow, End(call, m))
      BY <1>2, <3>11, <3>12, GrownRight
    <3> QED
      BY <3>12, <3>13
  <2>3. Borderless' <=> Borderless
    BY <1>1 DEF Borderless, OldLen
  <2> QED
    BY <1>1, <1>11, <2>1, <2>2, <2>3 DEF BackInv
<1> QED
  BY <1>15, <1>16

LEMMA GrowEnds == ScanInv /\ BackInv /\ Grown => BackInv'
<1> SUFFICES ASSUME ScanInv, BackInv, Grown, Grows', NothingBefore' PROVE BackInv'
  BY DEF BackInv
<1>1. /\ pc = "grow" /\ s < 0 /\ pc' = "done" /\ call' = call /\ mem' = mem
      /\ ret' = ret /\ length' = length /\ is_buffer_overflow' = is_buffer_overflow
  BY DEF Grown, args, results, Goes
<1>2. Grows /\ NothingBefore /\ call \in Calls
  BY <1>1 DEF Grows, OldLen, NewLen, NothingBefore, ScanInv
<1>3. OutsideKept'
  BY <1>1, <1>2 DEF BackInv, OutsideKept, Outside, MaxIdx
<1>4. PICK m \in 0..TextLen : Backing(m) /\ (Borderless => Placed(m))
  BY <1>1, <1>2 DEF BackInv
<1>5. ASSUME Borderless PROVE Right(call, mem, ret, is_buffer_overflow, length)
  <2>1. m \in Nat
    BY <1>2, GrowsIs
  <2>2. s = -1 /\ s + 2 = 1 /\ s + 1 = 0
    <3>1. s \in -1 .. m - 1
      BY <1>4 DEF Backing
    <3>2. s = -1
      BY <1>1, <2>1, <3>1
    <3> QED
      BY <3>2
  <2>3. Len(Out(call, 0)) = 0
    <3>1. Out(call, 0) = <<>> /\ Len(<<>>) = 0
      BY <1>2, OutIs
    <3> QED
      BY <3>1
  <2>4. d = -1
    <3>1. d + 1 = 0 /\ d \in Int
      BY <1>4, <1>5, <2>2, <2>3 DEF Placed, Backing
    <3> QED
      BY <3>1
  <2>5. \A i \in 0 .. End(call, m) - 1 : mem[i] = Out(call, m)[i + 1]
    <3>1. d + 1 = 0
      BY <2>4
    <3> QED
      BY <1>4, <1>5, <3>1 DEF Placed
  <2>6. ret = Cardinality(KeptOf(call, m))
    <3>1. ret \in Nat /\ ret + Cardinality(KeptOf(call, 0)) = Cardinality(KeptOf(call, m))
      BY <1>4, <1>5, <2>2 DEF Placed
    <3>2. Cardinality(KeptOf(call, 0)) = 0
      BY <1>2, CountNone
    <3> QED
      BY <3>1, <3>2
  <2>7. /\ Len(Out(call, m)) <= MaxIdx => m = TextLen
        /\ is_buffer_overflow = (Len(Out(call, m)) > MaxIdx)
        /\ mem[End(call, m)] = Nul /\ length = End(call, m)
    BY <1>4 DEF Backing
  <2>8. Right(call, mem, ret, is_buffer_overflow, End(call, m))
    BY <1>2, <2>5, <2>6, <2>7, GrownRight
  <2> QED
    BY <2>7, <2>8
<1>6. Borderless' <=> Borderless
  BY <1>1 DEF Borderless, OldLen
<1> QED
  BY <1>1, <1>3, <1>5, <1>6 DEF BackInv

\* So do all steps.
LEMMA BackInit == Init => BackInv
BY InitOutside DEF Init, BackInv, OutsideKept

LEMMA BackNext == ScanInv /\ BackInv /\ [Next]_vars => BackInv'
<1> SUFFICES ASSUME ScanInv, BackInv, [Next]_vars PROVE BackInv'
  OBVIOUS
<1>1. CASE Branch
  BY <1>1, GrowBranch
<1>2. CASE Measure
  BY <1>2, GrowMeasure
<1>3. CASE Terminate
  BY <1>3, GrowTerminate
<1>4. CASE GrowNew
  BY <1>4, GrowOneNew
<1>5. CASE GrowChar
  BY <1>5, GrowOneChar
<1>6. CASE Grown
  BY <1>6, GrowEnds
<1>7. CASE UNCHANGED vars
  <2> SUFFICES ASSUME Grows', NothingBefore' PROVE BackInv'
    BY DEF BackInv
  <2>1. /\ call' = call /\ mem' = mem /\ s' = s /\ d' = d /\ pc' = pc
        /\ ret' = ret /\ length' = length /\ is_buffer_overflow' = is_buffer_overflow
    BY <1>7 DEF vars, results
  <2>2. Grows /\ NothingBefore
    BY <2>1 DEF Grows, OldLen, NewLen, NothingBefore
  <2>3. /\ TextLen' = TextLen /\ MaxIdx' = MaxIdx /\ (Borderless' <=> Borderless)
        /\ (OutsideKept' <=> OutsideKept)
    BY <2>1 DEF TextLen, MaxIdx, Borderless, OldLen, OutsideKept, Outside
  <2>4. pc = "measure" => MeasuredSoFar'
    BY <2>1, <2>2, <2>3 DEF BackInv, MeasuredSoFar
  <2>5. ASSUME pc = "grow" PROVE \E m \in 0..TextLen' : Backing(m)' /\ (Borderless' => Placed(m)')
    <3>1. PICK m \in 0..TextLen : Backing(m) /\ (Borderless => Placed(m))
      BY <2>2, <2>5 DEF BackInv
    <3>2. Backing(m)'
      BY <2>1, <2>3, <3>1 DEF Backing
    <3>3. Borderless => Placed(m)'
      BY <2>1, <3>1 DEF Placed
    <3> QED
      BY <2>3, <3>2, <3>3
  <2>6. (pc = "done" /\ Borderless) => Right(call, mem, ret, is_buffer_overflow, length)
    BY <2>2 DEF BackInv
  <2> QED
    BY <2>1, <2>2, <2>3, <2>4, <2>5, <2>6 DEF BackInv
<1>8. CASE CopyAll
  <2>1. ~Grows'
    BY <1>8 DEF CopyAll, args, Grows, OldLen
  <2> QED
    BY <2>1 DEF BackInv
<1>9. CASE CopyChar \/ NoRoomForChar \/ CopyNew \/ NoRoomForNew \/ ReplacedAll
  <2>1. pc = "replace" /\ call' = call
    BY <1>9 DEF CopyChar, NoRoomForChar, CopyNew, NoRoomForNew, ReplacedAll, NotFoundYet,
           Found, args
  <2>2. ~Grows'
    BY <2>1 DEF ScanInv, Grows, OldLen, NewLen
  <2> QED
    BY <2>2 DEF BackInv
<1> QED
  BY <1>1, <1>2, <1>3, <1>4, <1>5, <1>6, <1>7, <1>8, <1>9 DEF Next, Step, Done

\* A call writes no character behind its buffer, for any text, strings and size,
\* wherever it is in either loop: from the left the room for the end of the string
\* is kept in every round, from the right it writes nothing from there on.  Before
\* its buffer a call writes nothing, unless it grows the string in place and finds
\* a character of old_str there: what is written lies ahead of what is still read.
THEOREM NothingElseWritten == Spec => []StaysInBuffer
<1>1. LeftInv /\ BackInv => StaysInBuffer
  <2> SUFFICES ASSUME LeftInv, BackInv, NEW i \in DOMAIN mem \ (0..MaxIdx),
                      i > MaxIdx \/ NothingBefore
               PROVE  mem[i] = call.around
    BY DEF StaysInBuffer
  <2>1. CASE Grows
    BY <2>1 DEF LeftInv, NothingBehind, BackInv, OutsideKept, Outside
  <2>2. CASE ~Grows
    BY <2>2 DEF LeftInv, Outside
  <2> QED
    BY <2>1, <2>2
<1> QED
  BY <1>1, LeftInit, LeftNext, ScanInit, ScanNext, BackInit, BackNext, PTL DEF Spec

\* A call that returns has replaced every old_str that the search from the left
\* finds, cut the result where the buffer ends, counted what it replaced and said
\* how long the result is and whether it cut, for any text, strings and size, in
\* place or not.  Of the calls that grow a string in place this is said of those
\* whose old_str does not overlap itself and finds none of its characters before
\* the buffer.
THEOREM AllReplaced == Spec => []Replaces
<1>1. ScanInv /\ BackInv => Replaces
  <2> SUFFICES ASSUME ScanInv, BackInv, pc = "done", NothingBefore, Grows => Borderless
               PROVE  Replaces
    BY DEF Replaces
  <2>1. Right(call, mem, ret, is_buffer_overflow, length)
    BY DEF ScanInv, BackInv
  <2> QED
    BY <2>1, RightReplaces DEF ScanInv
<1> QED
  BY <1>1, ScanInit, ScanNext, BackInit, BackNext, PTL DEF Spec
=============================================================================
