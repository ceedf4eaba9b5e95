------------------------------ MODULE FSHacks ------------------------------
(***************************************************************************)
(* The ROM file-system patcher of src/pe/FSHacks.cpp: applyRomFSPatches    *)
(* run step by step at every boot, against an SD card that keeps its files *)
(* over power losses, and the file-system hooks the running game then goes *)
(* through.                                                                *)
(*                                                                         *)
(* On the SD card: the cache directory and its patch.meta.  In the         *)
(* process: the alignment table and the position in the patching loop,     *)
(* lost whenever the process ends.  Beside it: progress-bar processes,     *)
(* which outlive the game.                                                 *)
(***************************************************************************)
EXTENDS RomFS, FiniteSets

CONSTANTS
    MaxPatches,     \* cMaxPatches, the capacity of sFileAlignmentTable
    BarInstalled,   \* the progress-bar program is in atmosphere/contents
    MaxBars,        \* bound: progress-bar processes alive at once
    MaxOutages,     \* bound: power losses and closings of the game in a boot
    MaxFaults,      \* bound: failing service or file-system calls
    MaxChanges      \* bound: installations of a mod or a game version

ASSUME MaxPatchesAssumption == MaxPatches \in Nat

VARIABLES
    romfs, version,         \* the installed mod and game version
    cache,                  \* the cache directory, path by path
    meta,                   \* the file patch.meta
    unflushed,              \* fields of patch.meta a power loss may still undo
    pc,                     \* where the boot is
    table,                  \* sFileAlignmentTable
    next,                   \* the loop index of patching and of writing meta
    buffer,                 \* what patchFile is about to write, and where
    bars, barExists,        \* progress-bar processes, sProgressBarExists
    barsBefore,             \* progress-bar processes alive when the game booted
    flaws,                  \* what storage failures did to the cache (ghost)
    outages, faults, changes

disk == <<cache, meta, unflushed>>
process == <<table, next, buffer>>
bar == <<bars, barExists, barsBefore>>
budget == <<outages, faults, changes>>
installed == <<romfs, version>>
vars == <<romfs, version, cache, meta, unflushed, pc, table, next, buffer,
          bars, barExists, barsBefore, flaws, outages, faults, changes>>

-----------------------------------------------------------------------------
\* sFileAlignmentTable: pairs of a name hash and an alignment.

Aligned == [name : Nat, align : Nat]
ZeroEntry == [name |-> 0, align |-> 0]      \* bytes CreateFile reserved, unwritten

Hashes == {NoHash} \cup {Hash(r, v) : r \in Mods, v \in Versions}
MetaFiles == [exists : BOOLEAN, hash : Hashes, count : Nat, entries : Seq(Aligned)]

NoMeta == [exists |-> FALSE, hash |-> NoHash, count |-> 0, entries |-> <<>>]

\* CreateFile gives the file its full size at once.
EmptyMeta(n) == [exists |-> TRUE, hash |-> NoHash, count |-> 0,
                 entries |-> [i \in 1..n |-> ZeroEntry]]

\* readPatchesHash.  The size of the file is two words and the entries, so
\* the only check is count against it.
MetaAccepted == meta.exists /\ meta.count = Len(meta.entries)
CachedHash == IF MetaAccepted THEN meta.hash ELSE NoHash
TableReadNever == table                     \* mutant: the table is not read back
TableRead == IF MetaAccepted THEN table \o meta.entries ELSE table

CacheMatchesAny == CachedHash # NoHash      \* mutant: any hash file will do
CacheMatches == CachedHash = Hash(romfs, version)

\* hk::util::binarySearch(table, low, high, h) of getPatchedSarcAligment.
NoIndex == -1
BinarySearch(t, h) ==
    LET search[b \in (1..(Len(t) + 1)) \X (0..Len(t))] ==
            LET low  == b[1]
                high == b[2]
                mid  == (low + high) \div 2
            IN  IF low > high THEN NoIndex
                ELSE IF t[mid].name = h THEN mid
                ELSE IF t[mid].name < h THEN search[<<mid + 1, high>>]
                ELSE search[<<low, mid - 1>>]
    IN  search[<<1, Len(t)>>]

getPatchedSarcAligment(p) ==
    LET index == BinarySearch(table, NameHash(p))
    IN  IF index = NoIndex THEN -1 ELSE table[index].align

\* The hooks, as the running game sees them.
CacheHas(p) == cache[p] # Absent
RomFSHas(p) == Base[version][p].data # Absent

OpenFile(p) == IF CacheHas(p) THEN cache[p] ELSE Base[version][p].data

LoadArchiveOfRomFS(n) ==                    \* mutant: the cache is not asked
    LET sarc == [name |-> n, ext |-> "sarc"]
    IN  IF RomFSHas(sarc) THEN OpenFile(sarc) ELSE OpenFile([sarc EXCEPT !.ext = "szs"])

LoadArchive(n) ==
    LET sarc == [name |-> n, ext |-> "sarc"]
    IN  IF RomFSHas(sarc) \/ CacheHas(sarc)
        THEN OpenFile(sarc)
        ELSE OpenFile([sarc EXCEPT !.ext = "szs"])

-----------------------------------------------------------------------------
\* Effects shared by several actions.

\* The game process is gone and its memory with it.
LoseProcess ==
    /\ pc' = "off"
    /\ table' = <<>> /\ next' = 0 /\ buffer' = <<>>

MetaIsTorn == pc = "metaEntries" /\ next <= Len(table)
CutFlaws ==
    (IF pc = "wipe" /\ meta.exists THEN {"wipeCut"} ELSE {}) \cup
    (IF MetaIsTorn THEN {"metaCut"} ELSE {})

MayFail == faults < MaxFaults
CountFault == faults' = faults + 1 /\ UNCHANGED <<outages, changes>>

Init ==
    /\ romfs \in Mods /\ version \in Versions
    /\ cache = [p \in Paths |-> Absent]
    /\ meta = NoMeta /\ unflushed = {}
    /\ pc = "off"
    /\ table = <<>> /\ next = 0 /\ buffer = <<>>
    /\ bars = 0 /\ barExists = TRUE /\ barsBefore = 0
    /\ flaws = {}
    /\ outages = 0 /\ faults = 0 /\ changes = 0

-----------------------------------------------------------------------------
\* Boot: compare the hashes.

Boot ==
    /\ pc = "off"
    /\ pc' = "compare"
    /\ barExists' = TRUE /\ barsBefore' = bars
    /\ UNCHANGED <<installed, disk, process, bars, flaws, budget>>

CacheHit ==
    /\ pc = "compare" /\ CacheMatches
    /\ table' = TableRead
    /\ pc' = "running"
    /\ UNCHANGED <<installed, disk, next, buffer, bar, flaws, budget>>

\* readPatchesHash fills the table before the hashes are compared.
CacheMiss ==
    /\ pc = "compare" /\ ~CacheMatches
    /\ table' = TableRead
    /\ pc' = "initBar"
    /\ UNCHANGED <<installed, disk, next, buffer, bar, flaws, budget>>

KeepTable == UNCHANGED table                \* mutant: no sFileAlignmentTable.clear()
ClearTable == table' = <<>>

\* initProgressBar, its launch succeeding or not, and the clear that follows.
LaunchBar ==
    /\ pc = "initBar" /\ BarInstalled /\ bars < MaxBars
    /\ bars' = bars + 1 /\ barExists' = TRUE
    /\ ClearTable
    /\ pc' = "wipe"
    /\ UNCHANGED <<installed, disk, next, buffer, barsBefore, flaws, budget>>

SkipBar ==
    /\ pc = "initBar"
    /\ barExists' = FALSE
    /\ ClearTable
    /\ pc' = "wipe"
    /\ UNCHANGED <<installed, disk, next, buffer, bars, barsBefore, flaws, budget>>

-----------------------------------------------------------------------------
\* nn::fs::DeleteDirectoryRecursively(cCacheDir): file by file, in any order.

WipeFile(p) ==
    /\ pc = "wipe" /\ CacheHas(p)
    /\ cache' = [cache EXCEPT ![p] = Absent]
    /\ UNCHANGED <<installed, meta, unflushed, pc, process, bar, flaws, budget>>

WipeMeta ==
    /\ pc = "wipe" /\ meta.exists
    /\ meta' = NoMeta /\ unflushed' = {}
    /\ flaws' = {}
    /\ UNCHANGED <<installed, cache, pc, process, bar, budget>>

StartWalk == pc' = "walk" /\ next' = 1

WipedHash == ~meta.exists                   \* mutant: only the hash file is deleted
Wiped == ~meta.exists /\ \A p \in Paths : ~CacheHas(p)

WipeDone ==
    /\ pc = "wipe" /\ Wiped
    /\ StartWalk
    /\ flaws' = {}
    /\ UNCHANGED <<installed, disk, table, buffer, bar, budget>>

\* The call fails half way and its result is not looked at.
WipeFails ==
    /\ pc = "wipe" /\ MayFail
    /\ StartWalk
    /\ flaws' = flaws \cup {"wipeFailed"}
    /\ CountFault
    /\ UNCHANGED <<installed, disk, table, buffer, bar>>

-----------------------------------------------------------------------------
\* patchDirRecursive: one file of the walk after the other.

Current == romfs[next]
Source == Base[version][Current.path]
AtPatch == pc = "walk" /\ next <= Len(romfs) /\ Matches(Current, version)
IsContainer == Current.path.ext = "szs"

SkipFileStuck ==                            \* mutant: the walk does not advance
    /\ pc = "walk" /\ next <= Len(romfs) /\ ~Matches(Current, version)
    /\ UNCHANGED vars

SkipFile ==
    /\ pc = "walk" /\ next <= Len(romfs) /\ ~Matches(Current, version)
    /\ next' = next + 1
    /\ UNCHANGED <<installed, disk, pc, table, buffer, bar, flaws, budget>>

\* GetDirectoryEntryCount or ReadDirectory fails for the directory the walk
\* is in.  Their results are dropped, so the files of that directory and of
\* those below it are passed over and the walk goes on behind them.
WalkFails ==
    /\ pc = "walk" /\ next <= Len(romfs) /\ MayFail
    /\ next' \in (next + 1)..(Len(romfs) + 1)
    /\ flaws' = flaws \cup {"walkFailed"}
    /\ CountFault
    /\ UNCHANGED <<installed, disk, pc, table, buffer, bar>>

AppliesUnbounded ==                         \* mutant: the table has no capacity
    /\ Source.data # Absent
    /\ Source.data = Current.patch.from

\* The asserts of patchFile: the source exists, and bps_apply finds the source
\* the patch was made from.  That the table has room is the assert of
\* hk::FixedVec, external to this repository and assumed to abort.
Applies ==
    /\ Source.data # Absent
    /\ IsContainer => Len(table) < MaxPatches
    /\ Source.data = Current.patch.from

AbortPatch ==
    /\ AtPatch /\ ~Applies
    /\ pc' = "aborted"
    /\ UNCHANGED <<installed, disk, process, bar, flaws, budget>>

\* patchFile up to its writeFileToPath.
PatchFile ==
    /\ AtPatch /\ Applies
    /\ table' = IF IsContainer
                THEN Append(table, [name |-> NameHash(Out(Current.path)),
                                    align |-> Source.align])
                ELSE table
    /\ buffer' = <<Out(Current.path), Current.patch.to>>
    /\ pc' = "replace"
    /\ UNCHANGED <<installed, disk, next, bar, flaws, budget>>

Target == buffer[1]

\* writeFileToPath: delete, create at full size, write and flush.
DeleteOld ==
    /\ pc = "replace"
    /\ cache' = [cache EXCEPT ![Target] = Absent]
    /\ pc' = "create"
    /\ UNCHANGED <<installed, meta, unflushed, process, bar, flaws, budget>>

CreateOut ==
    /\ pc = "create"
    /\ cache' = [cache EXCEPT ![Target] = Torn]
    /\ pc' = "write"
    /\ UNCHANGED <<installed, meta, unflushed, process, bar, flaws, budget>>

NextFile == pc' = "walk" /\ next' = next + 1 /\ buffer' = <<>>

WriteOut ==
    /\ pc = "write"
    /\ cache' = [cache EXCEPT ![Target] = buffer[2]]
    /\ NextFile
    /\ UNCHANGED <<installed, meta, unflushed, table, bar, flaws, budget>>

\* writeFileToPath returns an error at one of its calls; patchFile drops it.
WriteFails ==
    /\ pc \in {"replace", "create", "write"} /\ MayFail
    /\ NextFile
    /\ flaws' = flaws \cup {"writeFailed"}
    /\ CountFault
    /\ UNCHANGED <<installed, disk, table, bar>>

-----------------------------------------------------------------------------
\* writePatchesHash.

\* Any order sort may leave, names never descending.
Reorderings(t) ==
    {[i \in DOMAIN t |-> t[f[i]]] :
        f \in {g \in [DOMAIN t -> DOMAIN t] :
                  /\ \A i, j \in DOMAIN t : g[i] = g[j] => i = j
                  /\ \A i, j \in DOMAIN t : i <= j => t[g[i]].name <= t[g[j]].name}}

SortTable ==
    /\ pc = "walk" /\ next > Len(romfs)
    /\ table' \in Reorderings(table)
    /\ pc' = "metaDelete"
    /\ UNCHANGED <<installed, disk, next, buffer, bar, flaws, budget>>

MetaDelete ==
    /\ pc = "metaDelete"
    /\ meta' = NoMeta /\ unflushed' = {}
    /\ flaws' = flaws \ {"metaCut"}
    /\ pc' = "metaCreate"
    /\ UNCHANGED <<installed, cache, process, bar, budget>>

MetaCreate ==
    /\ pc = "metaCreate"
    /\ meta' = EmptyMeta(Len(table))
    /\ pc' = "metaHash"
    /\ UNCHANGED <<installed, cache, unflushed, process, bar, flaws, budget>>

MetaWriteHash ==
    /\ pc = "metaHash"
    /\ meta' = [meta EXCEPT !.hash = Hash(romfs, version)]
    /\ unflushed' = unflushed \cup {"hash"}
    /\ pc' = "metaCount"
    /\ UNCHANGED <<installed, cache, process, bar, flaws, budget>>

MetaWriteWrongCount ==                      \* mutant: the hash is counted as an entry
    /\ pc = "metaCount"
    /\ meta' = [meta EXCEPT !.count = Len(table) + 1]
    /\ unflushed' = unflushed \cup {"count"}
    /\ next' = 1
    /\ pc' = "metaEntries"
    /\ UNCHANGED <<installed, cache, table, buffer, bar, flaws, budget>>

MetaWriteCount ==
    /\ pc = "metaCount"
    /\ meta' = [meta EXCEPT !.count = Len(table)]
    /\ unflushed' = unflushed \cup {"count"}
    /\ next' = 1
    /\ pc' = "metaEntries"
    /\ UNCHANGED <<installed, cache, table, buffer, bar, flaws, budget>>

\* The entries are written with WriteOptionFlag_Flush.
MetaWriteEntry ==
    /\ pc = "metaEntries" /\ next <= Len(table)
    /\ meta' = [meta EXCEPT !.entries[next] = table[next]]
    /\ unflushed' = {}
    /\ next' = next + 1
    /\ UNCHANGED <<installed, cache, pc, table, buffer, bar, flaws, budget>>

MetaCloseForgetsBar ==                      \* mutant: killProgressBar is not called
    /\ pc = "metaEntries" /\ next > Len(table)
    /\ pc' = "running"
    /\ UNCHANGED <<installed, disk, process, bar, flaws, budget>>

MetaClose ==
    /\ pc = "metaEntries" /\ next > Len(table)
    /\ pc' = IF barExists THEN "killBar" ELSE "running"
    /\ UNCHANGED <<installed, disk, process, bar, flaws, budget>>

\* killProgressBar: terminating a program that no longer runs is an error,
\* and the error aborts.  A call that fails while the bar runs is in IoAborts.
KillProgressBar ==
    /\ pc = "killBar"
    /\ IF bars > 0
       THEN bars' = bars - 1 /\ pc' = "running"
       ELSE bars' = bars /\ pc' = "aborted"
    /\ UNCHANGED <<installed, disk, process, barExists, barsBefore, flaws, budget>>

-----------------------------------------------------------------------------
\* The world around the boot.

\* A call under HK_ABORT_UNLESS_R fails: opening or reading patch.meta,
\* getting pm:shell, opening a patch or its source, writing patch.meta,
\* terminating the progress bar.
IoAborts ==
    /\ pc \in {"compare", "initBar", "walk", "metaDelete", "metaCreate",
               "metaHash", "metaCount", "metaEntries", "killBar"}
    /\ MayFail
    /\ pc' = "aborted"
    /\ flaws' = flaws \cup CutFlaws
    /\ CountFault
    /\ UNCHANGED <<installed, disk, process, bar>>

\* The progress bar closes by itself.
BarExits ==
    /\ bars > 0 /\ MayFail
    /\ bars' = bars - 1
    /\ CountFault
    /\ UNCHANGED <<installed, disk, pc, process, barExists, barsBefore, flaws>>

\* The player leaves the running or the crashed game.
Quit ==
    /\ pc \in {"running", "aborted"}
    /\ LoseProcess
    /\ UNCHANGED <<installed, disk, bar, flaws, budget>>

\* The player closes the game while it boots.  DeleteDirectoryRecursively is
\* one call to the file-system process, which finishes it.
CloseInBoot ==
    /\ pc \notin {"off", "running", "aborted", "wipe"}
    /\ outages < MaxOutages
    /\ LoseProcess
    /\ flaws' = flaws \cup CutFlaws
    /\ outages' = outages + 1
    /\ UNCHANGED <<installed, disk, bar, faults, changes>>

\* The console loses power; of the fields not flushed any may be lost.
PowerLoss ==
    /\ outages < MaxOutages
    /\ LoseProcess
    /\ \E lost \in SUBSET unflushed :
          meta' = [meta EXCEPT !.hash = IF "hash" \in lost THEN NoHash ELSE @,
                               !.count = IF "count" \in lost THEN 0 ELSE @]
    /\ unflushed' = {}
    /\ bars' = 0
    /\ flaws' = flaws \cup CutFlaws
    /\ outages' = outages + 1
    /\ UNCHANGED <<installed, cache, barExists, barsBefore, faults, changes>>

InstallMod(r) ==
    /\ pc = "off" /\ changes < MaxChanges
    /\ romfs' = r /\ r # romfs
    /\ changes' = changes + 1
    /\ UNCHANGED <<version, disk, pc, process, bar, flaws, outages, faults>>

UpdateGame(v) ==
    /\ pc = "off" /\ changes < MaxChanges
    /\ version' = v /\ v # version
    /\ changes' = changes + 1
    /\ UNCHANGED <<romfs, disk, pc, process, bar, flaws, outages, faults>>

-----------------------------------------------------------------------------
Wipe == (\E p \in Paths : WipeFile(p)) \/ WipeMeta \/ WipeDone

Patch == SkipFile \/ AbortPatch \/ PatchFile \/ DeleteOld \/ CreateOut \/ WriteOut

WriteMeta == SortTable \/ MetaDelete \/ MetaCreate \/ MetaWriteHash
             \/ MetaWriteCount \/ MetaWriteEntry \/ MetaClose

\* What the booting thread does by itself when no call fails.
BootStep ==
    CacheHit \/ CacheMiss \/ LaunchBar \/ SkipBar \/ Wipe \/ Patch \/ WriteMeta
    \/ KillProgressBar

Environment ==
    \/ Boot \/ Quit \/ CloseInBoot \/ PowerLoss
    \/ WipeFails \/ WalkFails \/ WriteFails \/ IoAborts \/ BarExits
    \/ \E r \in Mods : InstallMod(r)
    \/ \E v \in Versions : UpdateGame(v)

Next == BootStep \/ Environment

Spec == Init /\ [][Next]_vars

\* Only the booting thread is obliged to go on.
FairSpec == Spec /\ WF_vars(BootStep)

-----------------------------------------------------------------------------
\* Properties.

\* The state has its shape, and the alignment table stays within its FixedVec.
TypeOK ==
    /\ romfs \in Mods /\ version \in Versions
    /\ cache \in [Paths -> Content \cup {Absent, Torn}]
    /\ meta \in MetaFiles
    /\ unflushed \subseteq {"hash", "count"}
    /\ pc \in {"off", "compare", "initBar", "wipe", "walk", "replace", "create",
               "write", "metaDelete", "metaCreate", "metaHash", "metaCount",
               "metaEntries", "killBar", "running", "aborted"}
    /\ table \in Seq(Aligned) /\ Len(table) <= MaxPatches
    /\ next \in Nat
    /\ buffer \in {<<>>} \cup (Paths \X Content)
    /\ bars \in Nat /\ barsBefore \in Nat /\ barExists \in BOOLEAN
    /\ flaws \subseteq {"walkFailed", "writeFailed", "wipeFailed", "wipeCut", "metaCut"}
    /\ outages \in Nat /\ faults \in Nat /\ changes \in Nat

\* What TypeOK needs to be inductive: where the boot is decides what is in the
\* table, in buffer and in a half-written patch.meta.
Placed ==
    /\ pc \in {"off", "compare"} => table = <<>>
    /\ Len(meta.entries) <= MaxPatches
    /\ pc \in {"walk", "replace", "create", "write"} => next \in 1..(Len(romfs) + 1)
    /\ pc \in {"replace", "create", "write"} =>
          /\ next <= Len(romfs) /\ Matches(Current, version)
          /\ buffer = <<Out(Current.path), Current.patch.to>>
    /\ pc \in {"metaHash", "metaCount", "metaEntries"} =>
          meta.exists /\ Len(meta.entries) = Len(table)
    /\ pc = "metaEntries" => next \in 1..(Len(table) + 1)

TypeInv == TypeOK /\ Placed

\* No storage failure is to blame for a file of the cache: since it was last
\* wiped no wipe was cut by a power loss, and no failure of a wipe, a walk or a
\* write was dropped.
CleanFiles == flaws \subseteq {"metaCut"}

\* What the hooks owe to a running game: for every path and every archive the
\* file the installed mod makes of it in the installed version.
Serves ==
    /\ \A p \in Paths : Shows(romfs, version, p, OpenFile(p))
    /\ \A n \in Names : ShowsArchive(romfs, version, n, LoadArchive(n))

\* A running game is served the installed mod (openFileHook and the two
\* loadArchive hooks over the cache that applyRomFSPatches left), whatever was
\* installed before and wherever earlier boots were cut short or aborted,
\* except in the wipe; and except after a failure of the wipe, the walk or a
\* write, whose results the code drops.  The exceptions are those of CleanFiles.
\* In each of them the code does serve wrong files, in this boot or in a later
\* one that takes the cache for complete: after a cut wipe, ServesAfterCutWipe;
\* after a wipe that failed half way, files of the old mod; after a directory that
\* could not be read (:353, :356), unpatched files; after a file that could not be
\* written (:316), none or half of it.
ServesCurrentMod == pc = "running" /\ CleanFiles => Serves

\* The same, not excepting a power loss in the middle of
\* DeleteDirectoryRecursively (FSHacks.cpp:560), which may leave patch.meta
\* and have deleted files it vouches for.
ServesAfterCutWipe == pc = "running" /\ flaws \subseteq {"wipeCut"} => Serves

\* Power losses fell anywhere, and no failing call was passed over.
CutsOnly == flaws \subseteq {"wipeCut", "metaCut"}

\* What is left of ServesCurrentMod when power losses fall in the wipe too: a
\* running game opens for every path the file of the installed mod or the
\* game's own, never another mod's, an outdated one or half a file.
ServesNoOtherMod ==
    pc = "running" /\ CutsOnly =>
        \A p \in Paths :
            \/ Shows(romfs, version, p, OpenFile(p))
            \/ Contents(p, version, OpenFile(p))

\* patch.meta was not cut short among its entries, and no walk failed.
CleanTable == flaws \cap {"metaCut", "walkFailed"} = {}

\* In a running game getPatchedSarcAligment finds, by binary search, the
\* alignment of the container of every patched archive and no other, be the
\* table built in this boot or read back from patch.meta.  Excepted are a
\* patch.meta cut short among its entries, which the code accepts
\* (IncompleteMetaRejected), and a walk that failed.
AlignmentsServed ==
    pc = "running" /\ CleanTable =>
        \A p \in Paths : ShowsAlignment(romfs, version, p, getPatchedSarcAligment(p))

\* What patch.meta vouches for, the flaws of CleanFiles excepted: outside a
\* wipe, a hash that is on the card promises the complete outcome of every
\* patch set with that hash.
MetaVouches ==
    CleanFiles /\ meta.exists /\ meta.hash # NoHash /\ pc # "wipe" =>
        \A r \in Mods, v \in Versions :
            meta.hash = Hash(r, v) => IsOutcome(cache, r, v, Len(r))

\* Where MetaVouches comes from: a clean boot patches with no patch.meta on
\* the card, its loop leaves in the cache what the patches walked so far leave
\* (one file at a time being in the making), and the hash is written only when
\* the walk is over (patchDirRecursive before writePatchesHash).
Walked ==
    /\ pc \in {"walk", "replace", "create", "write"} => ~meta.exists
    /\ pc = "walk" => IsOutcome(cache, romfs, version, next - 1)
    /\ pc \in {"replace", "create", "write"} =>
          \A o \in Paths : o # Target => Leaves(romfs, version, next - 1, o, cache[o])

Finished ==
    pc \in {"metaDelete", "metaCreate", "metaHash", "metaCount", "metaEntries",
            "killBar", "running"} =>
        IsOutcome(cache, romfs, version, Len(romfs))

CacheInv == MetaVouches /\ (CleanFiles => Walked /\ Finished)

Inv == TypeInv /\ CacheInv

\* The game never starts with a progress bar of this boot still on screen
\* (killProgressBar at the end of applyRomFSPatches).  One left behind by an
\* earlier boot that aborted counts among barsBefore.
BootLeavesNoBar == pc = "running" => bars <= barsBefore

\* A hash file that the next boot would accept lists every alignment: none of
\* its entries is still the zeros CreateFile reserved.  The size check of
\* readPatchesHash is there to turn incomplete files away (FSHacks.cpp:454).
IncompleteMetaRejected ==
    pc = "off" /\ MetaAccepted /\ meta.hash # NoHash =>
        \A i \in DOMAIN meta.entries : meta.entries[i] # ZeroEntry

\* Every boot ends: in the game, in an abort, or with the process gone.
BootSettles == pc = "compare" ~> pc \in {"running", "aborted", "off"}

\* Every patch of the mod applies, and its compressed sources fit the table.
Patchable(r, v) ==
    LET hits == {i \in DOMAIN r : Matches(r[i], v)}
    IN  /\ \A i \in hits : Base[v][r[i].path].data = r[i].patch.from
        /\ Cardinality({i \in hits : r[i].path.ext = "szs"}) <= MaxPatches

\* The cache is made to be used again: in the end the game boots without
\* patching, unless it boots for ever with a mod that cannot be patched.
\* Nothing else, the end of the progress bar included, aborts for ever.
EventuallyCached == <>[](pc # "wipe") \/ []<>(pc = "aborted" /\ ~Patchable(romfs, version))

\* The patcher implements what it promises, the hash file and the storage
\* failures of its cache hidden.
Promise == INSTANCE PatchedRomFS WITH
    mod <- romfs,
    game <- version,
    suspect <- (IF CleanFiles THEN {} ELSE {"files"}) \cup
               (IF CleanTable THEN {} ELSE {"alignments"}),
    served <- IF pc # "running" THEN [running |-> FALSE]
              ELSE [running |-> TRUE,
                    files |-> [p \in Paths |-> OpenFile(p)],
                    archives |-> [n \in Names |-> LoadArchive(n)],
                    alignments |-> [p \in Paths |-> getPatchedSarcAligment(p)]]

ImplementsPromise == Promise!Spec
=============================================================================
