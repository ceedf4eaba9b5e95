------------------------------- MODULE MCBps -------------------------------
(***************************************************************************)
(* Small files for TLC: bytes of two bits and the stop bit, a size_t of    *)
(* seven bits.                                                             *)
(***************************************************************************)
EXTENDS BpsRoundTrip

Files(n) == UNION {[1..k -> 0..1] : k \in 0..n}

\* Weak: different files may have the same checksum.
MCCrc(s) == LET sum[i \in 0..Len(s)] == IF i = 0 THEN 0 ELSE (sum[i - 1] + i * s[i]) % 3
            IN  sum[Len(s)]

\* Runs of one byte and of two, at the begin, after a change, before the end.
LongTargets ==
    {<<0, 0, 0, 0, 0, 0>>, <<0, 1, 1, 1, 1, 1, 1>>, <<1, 0, 1, 0, 1, 0, 1, 0>>,
     <<1, 1, 1, 1, 1, 0, 1, 0, 1, 0, 1, 0, 0>>, <<0, 0, 1, 0, 1, 0, 1, 0, 1, 1, 1, 1, 1>>,
     <<0, 2, 3, 5, 5, 5, 5, 5, 5, 1, 7, 1, 7>>, [i \in 1..15 |-> 0]}
LongSources == {<<>>, <<1>>, <<0, 1, 1, 0>>, <<1, 1, 0, 0, 1, 0, 1, 1, 1>>, [i \in 1..15 |-> 1]}

Pair(sources, targets, metadatas) ==
    [source : sources, target : targets, metadata : metadatas]

MCPairs ==
    Pair(Files(3), Files(4), {<<>>})
        \cup Pair(LongSources, LongTargets, {<<>>})
        \cup Pair({<<0>>, <<0, 1>>}, {<<0, 0, 0, 0, 0, 0>>, <<0, 1, 1>>}, {<<4>>, <<1, 5>>})

\* Every body of up to three bytes after some well-formed and some broken
\* headers, of up to two after numbers that are too big, metadata that is too long
\* and the number of a copy from the input; TargetRead of one byte is <<5, x>>.
MCForeign ==
    LET heads == {<<6, 6, 4>>, <<6, 7, 5, 3>>, <<6, 7, 4, 5, 1>>, <<4, 7, 4, 5, 1, 5, 0>>,
                  <<6, 3, 3>>, <<3, 3>>, <<6, 6>>}
        others == {<<3, 3, 3, 3, 3>>, <<0, 0, 0, 0, 4>>,
                   <<6, 7, 3, 3, 4>>, <<6, 7, 3, 1, 2, 4>>, <<6, 7, 4, 2, 4, 3, 3>>}
        tails(n) == UNION {[1..k -> {0, 4, 5, 6, 7}] : k \in 0..n}
        bodies == {h \o t : h \in heads, t \in tails(3)} \cup {h \o t : h \in others, t \in tails(2)}
    IN  {Sealed(b, 2, 0) : b \in bodies}
            \cup {[Sealed(<<6, 6, 4, 4, 4>>, 2, 2) EXCEPT !.magic = FALSE],
                  [Sealed(<<6, 6, 4, 4, 4>>, 2, 2) EXCEPT !.crcPatch = 3]}

MCInputs == {<<0, 1>>, <<1, 3, 3>>}

\* A header, and a copy of three bytes that begins 17 bytes before the input.
Wrapping == {Sealed(<<6, 7, 4>> \o <<2, 5>> \o <<3, 3, 4>>, 2, 0)}

MCJunk == {<<7, 5, 6, 4, 5, 2, 7, 7, 1, 6>>}

\* What lies around the two files agrees with no byte and with nothing else.
Apart(file, i) == IF file = "source" THEN -100 - i ELSE -200 - i

\* What lies around the two files is zeros.
Zeros(file, i) == 0

\* For the runs on one question: the pairs of the shortest files.
ShortPairs == Pair(Files(2), Files(3), {<<>>})
=============================================================================
