----------------------------- MODULE MCFSHacks -----------------------------
(***************************************************************************)
(* FSHacks on small instances for TLC: two names, two game versions, and   *)
(* mods chosen so that the interesting cases happen.                       *)
(***************************************************************************)
EXTENDS FSHacks

CONSTANTS A, B, v1, v2

MCNames == {A, B}
MCVersions == {v1, v2}

P(n, x) == [name |-> n, ext |-> x]

\* Contents: those the game ships (a1 in version v1, a2 in v2, b), and what
\* the patches make of them.
MCContent == {"a1", "a2", "b", "A", "AA", "A2", "B", "BB", "bs"}

\* A is an archive that differs between the versions, in its alignment too;
\* B is an archive, in v2 an uncompressed one beside it, and a plain file.
MCBase ==
    [v \in MCVersions |->
        [p \in Paths |->
            CASE p = P(A, "szs") -> IF v = v1 THEN [data |-> "a1", align |-> 8]
                                    ELSE [data |-> "a2", align |-> 4]
              [] p = P(B, "szs") -> [data |-> "b", align |-> 2]
              [] p = P(B, "sarc") /\ v = v2 -> [data |-> "bs", align |-> 1]
              [] p = P(B, "bin") -> [data |-> "b", align |-> 0]
              [] OTHER -> [data |-> Absent, align |-> 0]]]

Bps(p, tag, from, to) == [path |-> p, tag |-> tag, patch |-> [from |-> from, to |-> to]]

Vanilla  == <<>>
\* One archive, patched for each version on its own, and one plain file.
Plain    == <<Bps(P(A, "szs"), v1, "a1", "A"), Bps(P(A, "szs"), v2, "a2", "A2"),
              Bps(P(B, "bin"), "bps", "b", "B")>>
\* Two archives, out of the order of their hashes, one of them with two
\* patches in v1; in v2 the second patch does not apply.
Archives == <<Bps(P(B, "szs"), "bps", "b", "B"), Bps(P(A, "szs"), "bps", "a1", "A"),
              Bps(P(A, "szs"), v1, "a1", "AA")>>
\* One compressed source more than a table of three takes in v1.
Overfull == Archives \o <<Bps(P(B, "szs"), v1, "b", "BB")>>

AllMods == {Vanilla, Plain, Archives, Overfull}

\* The checksums and paths of the patches that match, their number, the version.
MCHash(r, v) == <<SelectSeq(r, LAMBDA e : Matches(e, v)), v>>

MCNameHash(p) == (IF p.name = A THEN 1 ELSE 2)
                 + (CASE p.ext = "szs" -> 4 [] p.ext = "sarc" -> 0 [] p.ext = "bin" -> 2)
=============================================================================
