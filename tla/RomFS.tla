------------------------------- MODULE RomFS -------------------------------
(***************************************************************************)
(* The read-only file system the mod loader works on: the game's files,    *)
(* the BPS patches a mod places beside them, and what a patch set asks for *)
(* (src/pe/FSHacks.cpp).                                                   *)
(*                                                                         *)
(* A mod is the sequence of its patch files in the order in which          *)
(* iterateBpsPatches walks the "content:" mount.  The contents of a file   *)
(* are a value of Content; an ".szs" file is the Yaz0 container of its     *)
(* contents, so the container is known from the path.                      *)
(***************************************************************************)
EXTENDS Integers, Sequences

CONSTANTS
    Names,          \* file names without their extension
    Versions,       \* names of game versions (getVersionName)
    Content,        \* contents of files
    Mods,           \* the patch sets a user may install
    Base,           \* Base[v][p]: the game's own file at path p in version v
    Hash(_, _),     \* calcPatchesHash: of a mod and a version
    NameHash(_),    \* hashMurmur of an output path
    Absent,         \* no file there
    Torn,           \* a file that exists and was never written
    NoHash          \* the 0 that readPatchesHash returns for "no cache"

Exts == {"szs", "sarc", "bin"}
Paths == [name : Names, ext : Exts]

\* A patch made from one file for another, as bps_apply sees it: it applies to
\* the contents it was made from and to no other (the CRC32 of its source).
Patches == [from : Content, to : Content]

\* "A.szs.bps" has the tag "bps", "A.szs.bps.v1" has the tag v1.
Entries == [path : Paths, tag : Versions \cup {"bps"}, patch : Patches]

Files == [data : Content \cup {Absent}, align : Nat]

\* Where patchDirRecursive writes the patched file: ".szs" becomes ".sarc".
Out(p) == IF p.ext = "szs" THEN [p EXCEPT !.ext = "sarc"] ELSE p

\* The test of iterateBpsPatches: ends with ".bps" or with sVersionExt.
Matches(e, v) == e.tag \in {"bps", v}

\* The patches among the first k of mod r that write path o in version v.
Hits(r, v, k, o) == {i \in DOMAIN r : i <= k /\ Matches(r[i], v) /\ Out(r[i].path) = o}

\* What the first k patches of r leave at o, the last one winning; Absent
\* when none of them writes o.
Leaves(r, v, k, o, d) ==
    \/ Hits(r, v, k, o) = {} /\ d = Absent
    \/ \E i \in Hits(r, v, k, o) :
          /\ \A j \in Hits(r, v, k, o) : j <= i
          /\ d = r[i].patch.to

\* The cache c holds exactly what the first k patches of r leave.
IsOutcome(c, r, v, k) == \A o \in Paths : Leaves(r, v, k, o, c[o])

\* The Yaz0 files whose alignment the patched file at o has to keep.
Containers(r, v, o) == {i \in Hits(r, v, Len(r), o) : r[i].path.ext = "szs"}

-----------------------------------------------------------------------------
\* What a running game must see.

Contents(p, v, d) == d = Base[v][p].data

\* d is what opening path p gives under mod r in version v.
Shows(r, v, p, d) ==
    \/ Leaves(r, v, Len(r), p, Absent) /\ Contents(p, v, d)
    \/ d # Absent /\ Leaves(r, v, Len(r), p, d)

\* d is what loading archive n gives: a ".sarc", patched or not, comes first.
ShowsArchive(r, v, n, d) ==
    LET sarc == [name |-> n, ext |-> "sarc"]
        szs  == [name |-> n, ext |-> "szs"]
    IN  IF Hits(r, v, Len(r), sarc) = {} /\ Base[v][sarc].data = Absent
        THEN Contents(szs, v, d)
        ELSE Shows(r, v, sarc, d)

\* a is the alignment to force on o: that of the container it was patched
\* from, or -1 to leave the game's own choice.
ShowsAlignment(r, v, o, a) ==
    \/ Containers(r, v, o) = {} /\ a = -1
    \/ \E i \in Containers(r, v, o) : a = Base[v][r[i].path].align

-----------------------------------------------------------------------------
ASSUME RomFSTypes ==
    /\ Mods \subseteq Seq(Entries)
    /\ Base \in [Versions -> [Paths -> Files]]
    /\ {Absent, Torn} \cap Content = {} /\ Absent # Torn

\* The 32-bit hash covers the path and the checksum of every matching patch
\* and the version.  It is taken to tell two patch sets apart unless they ask
\* for the same files, and never to be the reserved 0.
ASSUME HashAssumption ==
    \A r, s \in Mods, v, w \in Versions :
        /\ Hash(r, v) # NoHash
        /\ Hash(r, v) = Hash(s, w) =>
              /\ v = w
              /\ \A o \in Paths :
                    /\ \A d \in Content \cup {Absent} :
                          Leaves(r, v, Len(r), o, d) <=> Leaves(s, w, Len(s), o, d)
                    /\ Containers(r, v, o) = {} <=> Containers(s, w, o) = {}
                    /\ \A i \in Containers(r, v, o), j \in Containers(s, w, o) :
                          Base[v][r[i].path].align = Base[w][s[j].path].align

\* Path names do not collide under hashMurmur, and none hashes to 0.
ASSUME NameHashAssumption ==
    /\ \A p \in Paths : NameHash(p) \in Nat \ {0}
    /\ \A p, q \in Paths : NameHash(p) = NameHash(q) => p = q
=============================================================================
