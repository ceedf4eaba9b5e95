--------------------------- MODULE FSHacksProofs ---------------------------
(***************************************************************************)
(* Theorems about FSHacks for every mod, version, capacity and bound: its  *)
(* shape, its cache, the table of alignments that patchFile fills,         *)
(* writePatchesHash sorts and writes to patch.meta, readPatchesHash reads  *)
(* back and getPatchedSarcAligment searches, and what the whole patcher    *)
(* promises.                                                               *)
(***************************************************************************)
EXTENDS FSHacks, RecursionLemmas, FiniteSetTheorems, TLAPS

-----------------------------------------------------------------------------
\* Lemmas on the operators the patcher is built from.

LEMMA OutType == \A p \in Paths : Out(p) \in Paths
BY DEF Out, Paths, Exts

LEMMA NoOutIsContainer == \A p \in Paths : Out(p).ext # "szs"
BY DEF Out, Paths, Exts

\* An entry of a mod has the shape of one.
LEMMA EntryType ==
    ASSUME NEW r \in Mods, NEW i \in 1..Len(r)
    PROVE  /\ r[i] \in Entries
           /\ r[i].path \in Paths /\ r[i].patch.from \in Content /\ r[i].patch.to \in Content
           /\ Len(r) \in Nat /\ DOMAIN r = 1..Len(r)
<1>1. r \in Seq(Entries)
  BY RomFSTypes
<1>2. Len(r) \in Nat /\ DOMAIN r = 1..Len(r) /\ r[i] \in Entries
  BY <1>1
<1> QED
  BY <1>2 DEF Entries, Patches

LEMMA BaseType ==
    ASSUME NEW v \in Versions, NEW p \in Paths
    PROVE  Base[v][p].data \in Content \cup {Absent} /\ Base[v][p].align \in Nat
BY RomFSTypes DEF Files

\* Sorting keeps the type and the length of the table.
LEMMA ReorderingsType ==
    ASSUME NEW t \in Seq(Aligned), NEW u \in Reorderings(t)
    PROVE  u \in Seq(Aligned) /\ Len(u) = Len(t)
<1>1. PICK f \in [DOMAIN t -> DOMAIN t] : u = [i \in DOMAIN t |-> t[f[i]]]
  BY DEF Reorderings
<1>2. DOMAIN t = 1..Len(t) /\ Len(t) \in Nat
  OBVIOUS
<1>3. \A i \in 1..Len(t) : u[i] \in Aligned
  BY <1>1, <1>2
<1>4. u = [i \in 1..Len(t) |-> u[i]]
  BY <1>1, <1>2
<1>5. u \in [1..Len(t) -> Aligned]
  BY <1>3, <1>4
<1>6. u \in Seq(Aligned)
  BY <1>2, <1>5
<1>7. DOMAIN u = 1..Len(t) /\ DOMAIN u = 1..Len(u) /\ Len(u) \in Nat
  BY <1>5, <1>6
<1> QED
  BY <1>2, <1>6, <1>7

-----------------------------------------------------------------------------
\* Type correctness.  TypeOK is not inductive by itself: that the entries of
\* patch.meta fit the table, and that buffer holds a file when it is written,
\* depend on where the boot is (Placed).

LEMMA TypeInit == Init => TypeInv
BY MaxPatchesAssumption DEF Init, TypeInv, TypeOK, Placed, NoMeta, MetaFiles, Hashes

LEMMA TypeNext == TypeInv /\ [Next]_vars => TypeInv'
<1> SUFFICES ASSUME TypeInv, [Next]_vars PROVE TypeInv'
  OBVIOUS
<1> USE DEF TypeInv, TypeOK, Placed, installed, disk, process, bar, budget
<1>1. CASE Boot
  BY <1>1 DEF Boot, Current
<1>2. CASE CacheHit \/ CacheMiss
  <2>1. table = <<>> /\ pc = "compare"
    BY <1>2 DEF CacheHit, CacheMiss
  <2>2. TableRead \in Seq(Aligned) /\ Len(TableRead) <= MaxPatches
    BY <2>1, MaxPatchesAssumption DEF TableRead, MetaFiles
  <2> QED
    BY <1>2, <2>2 DEF CacheHit, CacheMiss, Current
<1>3. CASE LaunchBar \/ SkipBar
  <2>1. CASE LaunchBar
    BY <2>1, MaxPatchesAssumption DEF LaunchBar, ClearTable
  <2>2. CASE SkipBar
    <3>1. barExists' \in BOOLEAN
      BY <2>2, Zenon DEF SkipBar
    <3>2. table' = <<>> /\ pc' = "wipe" /\ UNCHANGED <<romfs, version, cache, meta, unflushed,
             next, buffer, bars, barsBefore, flaws, outages, faults, changes>>
      BY <2>2, Zenon DEF SkipBar, ClearTable
    <3> QED
      BY <3>1, <3>2, MaxPatchesAssumption
  <2> QED
    BY <1>3, <2>1, <2>2
<1>4. ASSUME NEW p \in Paths, WipeFile(p) PROVE TypeInv'
  BY <1>4 DEF WipeFile, Current
<1>5. CASE WipeMeta
  BY <1>5, MaxPatchesAssumption DEF WipeMeta, NoMeta, MetaFiles, Hashes, Current
<1>6. CASE WipeDone \/ WipeFails
  <2>1. Len(romfs) \in Nat
    BY RomFSTypes
  <2>2. CASE WipeDone
    BY <2>1, <2>2 DEF WipeDone, StartWalk
  <2>3. CASE WipeFails
    BY <2>1, <2>3 DEF WipeFails, StartWalk, CountFault
  <2> QED
    BY <1>6, <2>2, <2>3
<1>7. CASE SkipFile
  BY <1>7, RomFSTypes DEF SkipFile, Current
<1>28. CASE WalkFails
  <2>1. PICK n \in (next + 1)..(Len(romfs) + 1) : next' = n
    BY <1>28 DEF WalkFails
  <2>2. n \in 1..(Len(romfs) + 1) /\ next' \in Nat
    BY <2>1, RomFSTypes
  <2>3. QED
    BY <1>28, <2>1, <2>2, RomFSTypes DEF WalkFails, CountFault
<1>8. CASE AbortPatch
  BY <1>8 DEF AbortPatch, AtPatch
<1>9. CASE PatchFile
  <2>1. pc = "walk" /\ next \in 1..Len(romfs) /\ Matches(Current, version)
    BY <1>9 DEF PatchFile, AtPatch
  <2>2. Current.path \in Paths /\ Current.patch.to \in Content /\ Out(Current.path) \in Paths
    BY <2>1, EntryType, OutType DEF Current
  <2>3. Source.align \in Nat /\ NameHash(Out(Current.path)) \in Nat
    BY <2>2, BaseType, NameHashAssumption DEF Source
  <2>4. [name |-> NameHash(Out(Current.path)), align |-> Source.align] \in Aligned
    BY <2>3 DEF Aligned
  <2>5. table' \in Seq(Aligned) /\ Len(table') <= MaxPatches
    BY <1>9, <2>4, MaxPatchesAssumption DEF PatchFile, Applies
  <2>6. buffer' \in Paths \X Content
    BY <1>9, <2>2 DEF PatchFile
  <2> QED
    BY <1>9, <2>1, <2>5, <2>6 DEF PatchFile, Current
<1>10. CASE DeleteOld \/ CreateOut
  BY <1>10 DEF DeleteOld, CreateOut, Current
<1>11. CASE WriteOut
  <2>1. buffer[2] \in Content
    BY <1>11, EntryType DEF WriteOut, Current
  <2>2. Len(romfs) \in Nat
    BY RomFSTypes
  <2>3. pc' = "walk" /\ next' = next + 1 /\ buffer' = <<>> /\ next \in 1..Len(romfs)
    BY <1>11, <2>2 DEF WriteOut, NextFile
  <2>4. cache' \in [Paths -> Content \cup {Absent, Torn}]
    BY <1>11, <2>1 DEF WriteOut
  <2> QED
    BY <1>11, <2>2, <2>3, <2>4 DEF WriteOut
<1>12. CASE WriteFails
  BY <1>12, RomFSTypes DEF WriteFails, NextFile, CountFault, Current
<1>13. CASE SortTable
  BY <1>13, ReorderingsType DEF SortTable
<1>14. CASE MetaDelete
  BY <1>14, MaxPatchesAssumption DEF MetaDelete, NoMeta, MetaFiles, Hashes
<1>15. CASE MetaCreate
  <2>1. Len(table) \in Nat /\ ZeroEntry \in Aligned
    BY DEF ZeroEntry, Aligned
  <2>2. [i \in 1..Len(table) |-> ZeroEntry] \in Seq(Aligned)
        /\ Len([i \in 1..Len(table) |-> ZeroEntry]) = Len(table)
    BY <2>1
  <2> QED
    BY <1>15, <2>2 DEF MetaCreate, EmptyMeta, MetaFiles, Hashes
<1>16. CASE MetaWriteHash
  <2>1. meta' \in MetaFiles /\ meta'.entries = meta.entries /\ meta'.exists = meta.exists
    <3>1. Hash(romfs, version) \in Hashes
      BY DEF Hashes
    <3> QED
      BY <1>16, <3>1 DEF MetaWriteHash, MetaFiles
  <2> QED
    BY <1>16, <2>1 DEF MetaWriteHash
<1>17. CASE MetaWriteCount
  <2>1. meta' \in MetaFiles /\ meta'.entries = meta.entries /\ meta'.exists = meta.exists
    <3>1. Len(table) \in Nat
      OBVIOUS
    <3> QED
      BY <1>17, <3>1 DEF MetaWriteCount, MetaFiles
  <2>2. pc' = "metaEntries" /\ next' = 1 /\ Len(table') \in Nat
    BY <1>17 DEF MetaWriteCount
  <2> QED
    BY <1>17, <2>1, <2>2 DEF MetaWriteCount
<1>18. CASE MetaWriteEntry
  <2>1. next \in 1..Len(table) /\ table[next] \in Aligned /\ Len(meta.entries) = Len(table)
    BY <1>18 DEF MetaWriteEntry
  <2>2. meta.entries \in Seq(Aligned)
    BY DEF MetaFiles
  <2>3. [meta.entries EXCEPT ![next] = table[next]] \in Seq(Aligned)
        /\ Len([meta.entries EXCEPT ![next] = table[next]]) = Len(meta.entries)
    BY <2>1, <2>2
  <2>4. meta' = [meta EXCEPT !.entries = [meta.entries EXCEPT ![next] = table[next]]]
    BY <1>18 DEF MetaWriteEntry
  <2>5. meta' \in MetaFiles /\ Len(meta'.entries) = Len(meta.entries) /\ meta'.exists = meta.exists
    BY <2>3, <2>4 DEF MetaFiles
  <2> QED
    BY <1>18, <2>1, <2>5 DEF MetaWriteEntry
<1>19. CASE MetaClose
  BY <1>19 DEF MetaClose
<1>20. CASE KillProgressBar
  BY <1>20 DEF KillProgressBar
<1>21. CASE IoAborts
  BY <1>21 DEF IoAborts, CutFlaws, CountFault
<1>22. CASE BarExits
  BY <1>22 DEF BarExits, CountFault, Current
<1>23. CASE Quit \/ CloseInBoot
  <2>1. CASE Quit
    BY <2>1, MaxPatchesAssumption DEF Quit, LoseProcess
  <2>2. CASE CloseInBoot
    BY <2>2, MaxPatchesAssumption DEF CloseInBoot, LoseProcess, CutFlaws
  <2> QED
    BY <1>23, <2>1, <2>2
<1>24. CASE PowerLoss
  <2>1. meta' \in MetaFiles /\ meta'.entries = meta.entries
    <3>1. PICK lost \in SUBSET unflushed :
             meta' = [meta EXCEPT !.hash = IF "hash" \in lost THEN NoHash ELSE @,
                                  !.count = IF "count" \in lost THEN 0 ELSE @]
      BY <1>24 DEF PowerLoss
    <3>2. meta.hash \in Hashes /\ NoHash \in Hashes /\ meta.count \in Nat
      BY DEF MetaFiles, Hashes
    <3> QED
      BY <3>1, <3>2 DEF MetaFiles
  <2> QED
    BY <1>24, <2>1, MaxPatchesAssumption DEF PowerLoss, LoseProcess, CutFlaws
<1>25. ASSUME NEW r \in Mods, InstallMod(r) PROVE TypeInv'
  BY <1>25 DEF InstallMod
<1>26. ASSUME NEW v \in Versions, UpdateGame(v) PROVE TypeInv'
  BY <1>26 DEF UpdateGame
<1>27. CASE UNCHANGED vars
  BY <1>27 DEF vars, Current
<1> QED
  BY <1>1, <1>2, <1>3, <1>4, <1>5, <1>6, <1>7, <1>8, <1>9, <1>10, <1>11, <1>12, <1>13,
     <1>14, <1>15, <1>16, <1>17, <1>18, <1>19, <1>20, <1>21, <1>22, <1>23, <1>24, <1>25,
     <1>26, <1>27, <1>28
  DEF Next, BootStep, Environment, Wipe, Patch, WriteMeta

\* The state of the patcher keeps its shape for every mod and every bound: no
\* boot, cut short or not, puts more than MaxPatches entries in the table.
THEOREM TypeCorrect == Spec => []TypeOK
<1>1. TypeInv => TypeOK
  BY DEF TypeInv
<1> QED
  BY TypeInit, TypeNext, <1>1, PTL DEF Spec

-----------------------------------------------------------------------------
\* What the patches of a mod leave, one patch after the other.

LEMMA LeavesNothing ==
    ASSUME NEW r \in Mods, NEW v \in Versions, NEW o \in Paths
    PROVE  Leaves(r, v, 0, o, Absent)
<1>1. DOMAIN r = 1..Len(r) /\ Len(r) \in Nat
  BY RomFSTypes
<1> QED
  BY <1>1 DEF Leaves, Hits

\* A file of the walk that does not write o changes nothing at o.
LEMMA LeavesSkip ==
    ASSUME NEW r \in Mods, NEW v \in Versions, NEW o \in Paths, NEW n \in 1..Len(r), NEW d,
           ~Matches(r[n], v) \/ Out(r[n].path) # o,
           Leaves(r, v, n - 1, o, d)
    PROVE  Leaves(r, v, n, o, d)
<1>1. DOMAIN r = 1..Len(r) /\ Len(r) \in Nat
  BY RomFSTypes
<1>2. Hits(r, v, n, o) = Hits(r, v, n - 1, o)
  BY <1>1 DEF Hits
<1> QED
  BY <1>2 DEF Leaves

\* A patch that writes o wins over every earlier one.
LEMMA LeavesPatch ==
    ASSUME NEW r \in Mods, NEW v \in Versions, NEW n \in 1..Len(r),
           Matches(r[n], v)
    PROVE  Leaves(r, v, n, Out(r[n].path), r[n].patch.to)
<1>1. DOMAIN r = 1..Len(r) /\ Len(r) \in Nat
  BY RomFSTypes
<1>2. n \in Hits(r, v, n, Out(r[n].path))
  BY <1>1 DEF Hits
<1>3. \A j \in Hits(r, v, n, Out(r[n].path)) : j <= n
  BY DEF Hits
<1> QED
  BY <1>2, <1>3 DEF Leaves

\* Nothing is left exactly where no patch writes.
LEMMA LeavesAbsent ==
    ASSUME NEW r \in Mods, NEW v \in Versions, NEW o \in Paths, NEW d,
           Leaves(r, v, Len(r), o, d)
    PROVE  d = Absent <=> Hits(r, v, Len(r), o) = {}
<1>1. ASSUME NEW i \in Hits(r, v, Len(r), o) PROVE r[i].patch.to # Absent
  <2>1. i \in 1..Len(r)
    BY RomFSTypes DEF Hits
  <2> QED
    BY <2>1, EntryType, RomFSTypes
<1> QED
  BY <1>1 DEF Leaves

\* No patch writes a Yaz0 file: its output is a ".sarc".
LEMMA NoHitOnContainer ==
    ASSUME NEW r \in Mods, NEW v \in Versions, NEW o \in Paths, o.ext = "szs"
    PROVE  Hits(r, v, Len(r), o) = {}
<1> SUFFICES ASSUME NEW i \in Hits(r, v, Len(r), o) PROVE FALSE
  OBVIOUS
<1>1. i \in 1..Len(r) /\ Out(r[i].path) = o
  BY RomFSTypes DEF Hits
<1> QED
  BY <1>1, EntryType, NoOutIsContainer

-----------------------------------------------------------------------------
\* The cache (CacheInv).

LEMMA CacheInit == Init => CacheInv
BY DEF Init, CacheInv, MetaVouches, Walked, Finished, NoMeta

\* A step that keeps the files and at most loses the hash, and does not reach
\* a place where more is promised, keeps the invariant.
LEMMA CacheKept ==
    ASSUME Inv, cache' = cache,
           meta'.exists => meta.exists /\ meta'.hash \in {meta.hash, NoHash},
           CleanFiles' => CleanFiles,
           pc' \in {"off", "compare", "initBar", "wipe", "aborted"},
           pc = "wipe" => pc' = "wipe" \/ ~CleanFiles' \/ ~meta'.exists
    PROVE  CacheInv'
BY DEF Inv, CacheInv, MetaVouches, Walked, Finished

\* The same for a step between two places that promise the finished cache.
LEMMA FinishedKept ==
    ASSUME Inv, UNCHANGED <<romfs, version, cache>>,
           meta'.exists => meta.exists /\ meta'.hash \in {meta.hash, NoHash},
           CleanFiles' => CleanFiles,
           CleanFiles => IsOutcome(cache, romfs, version, Len(romfs)),
           pc # "wipe",
           pc' \in {"metaDelete", "metaCreate", "metaHash", "metaCount", "metaEntries",
                    "killBar", "running"}
    PROVE  CacheInv'
BY DEF Inv, CacheInv, MetaVouches, Walked, Finished

LEMMA CacheNext == Inv /\ [Next]_vars => CacheInv'
<1> SUFFICES ASSUME Inv, [Next]_vars PROVE CacheInv'
  OBVIOUS
<1> USE DEF installed, disk, process, bar, budget
<1>r. romfs \in Mods /\ version \in Versions /\ Len(romfs) \in Nat /\ DOMAIN romfs = 1..Len(romfs)
  BY RomFSTypes DEF Inv, TypeInv, TypeOK
<1>f. flaws \subseteq {"walkFailed", "writeFailed", "wipeFailed", "wipeCut", "metaCut"}
  BY DEF Inv, TypeInv, TypeOK
<1>1. CASE Boot \/ CacheMiss \/ LaunchBar \/ SkipBar \/ Quit
  BY <1>1, CacheKept DEF Boot, CacheMiss, LaunchBar, SkipBar, Quit, LoseProcess, CleanFiles
<1>2. CASE CacheHit
  <2>1. meta.exists /\ meta.hash = Hash(romfs, version) /\ meta.hash # NoHash
    BY <1>2, <1>r, HashAssumption DEF CacheHit, CacheMatches, CachedHash, MetaAccepted
  <2>2. CleanFiles => IsOutcome(cache, romfs, version, Len(romfs))
    BY <1>2, <2>1, <1>r DEF CacheHit, Inv, CacheInv, MetaVouches
  <2> QED
    BY <1>2, <2>2, FinishedKept DEF CacheHit, CleanFiles
<1>3. ASSUME NEW p \in Paths, WipeFile(p) PROVE CacheInv'
  BY <1>3 DEF WipeFile, CacheInv, MetaVouches, Walked, Finished
<1>4. CASE WipeMeta
  BY <1>4 DEF WipeMeta, CacheInv, MetaVouches, Walked, Finished
<1>5. CASE WipeDone
  <2>1. ~meta'.exists /\ pc' = "walk" /\ next' = 1 /\ UNCHANGED <<romfs, version, cache>>
        /\ \A o \in Paths : cache[o] = Absent
    BY <1>5 DEF WipeDone, StartWalk, Wiped, CacheHas
  <2>2. IsOutcome(cache, romfs, version, 0)
    BY <2>1, <1>r, LeavesNothing DEF IsOutcome
  <2> QED
    BY <2>1, <2>2 DEF CacheInv, MetaVouches, Walked, Finished
<1>6. CASE WipeFails
  BY <1>6 DEF WipeFails, StartWalk, CacheInv, MetaVouches, CleanFiles
<1>7. CASE SkipFile
  <2>1. next \in 1..Len(romfs) /\ next' - 1 = next /\ ~Matches(romfs[next], version)
    BY <1>7, <1>r DEF SkipFile, Current, Inv, TypeInv, Placed
  <2>2. CleanFiles => IsOutcome(cache, romfs, version, next)
    <3> SUFFICES ASSUME CleanFiles, NEW o \in Paths PROVE Leaves(romfs, version, next, o, cache[o])
      BY DEF IsOutcome
    <3>1. Leaves(romfs, version, next - 1, o, cache[o])
      BY <1>7 DEF SkipFile, Inv, CacheInv, Walked, IsOutcome
    <3> QED
      BY <3>1, <2>1, <1>r, LeavesSkip
  <2> QED
    BY <1>7, <2>1, <2>2 DEF SkipFile, Inv, CacheInv, MetaVouches, Walked, Finished, CleanFiles
<1>8. CASE AbortPatch
  BY <1>8, CacheKept DEF AbortPatch, AtPatch, CleanFiles
<1>9. CASE PatchFile
  BY <1>9 DEF PatchFile, AtPatch, Inv, CacheInv, MetaVouches, Walked, Finished, CleanFiles, IsOutcome
<1>10. CASE DeleteOld \/ CreateOut
  <2>1. \A o \in Paths : o # Target => cache'[o] = cache[o]
    BY <1>10 DEF DeleteOld, CreateOut, Inv, TypeInv, TypeOK
  <2> QED
    BY <1>10, <2>1
    DEF DeleteOld, CreateOut, Inv, CacheInv, MetaVouches, Walked, Finished, CleanFiles, Target
<1>11. CASE WriteOut
  <2>1. /\ next \in 1..Len(romfs) /\ next' - 1 = next /\ Matches(romfs[next], version)
        /\ Target = Out(romfs[next].path) /\ buffer[2] = romfs[next].patch.to
    BY <1>11, <1>r DEF WriteOut, NextFile, Current, Target, Inv, TypeInv, Placed
  <2>2. Target \in Paths
    BY <2>1, <1>r, EntryType, OutType
  <2>3. cache'[Target] = romfs[next].patch.to /\ \A o \in Paths : o # Target => cache'[o] = cache[o]
    BY <1>11, <2>1, <2>2 DEF WriteOut, Inv, TypeInv, TypeOK
  <2>4. CleanFiles => IsOutcome(cache', romfs, version, next)
    <3> SUFFICES ASSUME CleanFiles, NEW o \in Paths PROVE Leaves(romfs, version, next, o, cache'[o])
      BY DEF IsOutcome
    <3>1. CASE o = Target
      BY <3>1, <2>1, <2>3, <1>r, LeavesPatch
    <3>2. CASE o # Target
      <4>1. Leaves(romfs, version, next - 1, o, cache[o])
        BY <1>11, <3>2 DEF WriteOut, Inv, CacheInv, Walked
      <4> QED
        BY <4>1, <3>2, <2>1, <2>3, <1>r, LeavesSkip
    <3> QED
      BY <3>1, <3>2
  <2> QED
    BY <1>11, <2>1, <2>4
    DEF WriteOut, NextFile, Inv, CacheInv, MetaVouches, Walked, Finished, CleanFiles
<1>12. CASE WriteFails \/ WalkFails
  <2>1. "writeFailed" \in flaws' \/ "walkFailed" \in flaws'
    BY <1>12 DEF WriteFails, WalkFails
  <2>2. ~CleanFiles'
    BY <2>1 DEF CleanFiles
  <2>3. QED
    BY <2>2 DEF CacheInv, MetaVouches
<1>13. CASE SortTable
  <2>1. next - 1 = Len(romfs)
    BY <1>13, <1>r DEF SortTable, Inv, TypeInv, Placed
  <2>2. CleanFiles => IsOutcome(cache, romfs, version, Len(romfs))
    BY <1>13, <2>1 DEF SortTable, Inv, CacheInv, Walked
  <2> QED
    BY <1>13, <2>2, FinishedKept DEF SortTable, CleanFiles
<1>14. CASE MetaDelete
  <2>1. CleanFiles' => CleanFiles
    BY <1>14, <1>f DEF MetaDelete, CleanFiles
  <2> QED
    BY <1>14, <2>1, FinishedKept DEF MetaDelete, NoMeta, Inv, CacheInv, Finished
<1>15. CASE MetaCreate
  BY <1>15 DEF MetaCreate, EmptyMeta, Inv, CacheInv, MetaVouches, Walked, Finished, CleanFiles
<1>16. CASE MetaWriteHash
  <2>1. CleanFiles => IsOutcome(cache, romfs, version, Len(romfs))
    BY <1>16 DEF MetaWriteHash, Inv, CacheInv, Finished
  <2>2. meta'.hash = Hash(romfs, version)
    BY <1>16 DEF MetaWriteHash, Inv, TypeInv, TypeOK, MetaFiles
  <2>3. ASSUME CleanFiles, NEW r \in Mods, NEW v \in Versions, Hash(romfs, version) = Hash(r, v)
        PROVE  IsOutcome(cache, r, v, Len(r))
    <3> SUFFICES ASSUME NEW o \in Paths PROVE Leaves(r, v, Len(r), o, cache[o])
      BY DEF IsOutcome
    <3>1. Leaves(romfs, version, Len(romfs), o, cache[o])
      BY <2>1, <2>3 DEF IsOutcome
    <3>2. cache[o] \in Content \cup {Absent}
      <4>1. CASE Hits(romfs, version, Len(romfs), o) = {}
        BY <4>1, <3>1, <1>r, LeavesAbsent
      <4>2. ASSUME NEW i \in Hits(romfs, version, Len(romfs), o), cache[o] = romfs[i].patch.to
            PROVE  cache[o] \in Content
        BY <4>2, <1>r, EntryType DEF Hits
      <4> QED
        BY <3>1, <4>1, <4>2 DEF Leaves
    <3> QED
      BY <2>3, <3>1, <3>2, <1>r, HashAssumption
  <2> QED
    BY <1>16, <2>1, <2>2, <2>3
    DEF MetaWriteHash, CacheInv, MetaVouches, Walked, Finished, CleanFiles
<1>17. CASE MetaWriteCount \/ MetaWriteEntry \/ MetaClose
  <2>1. meta'.exists => meta.exists /\ meta'.hash \in {meta.hash, NoHash}
    BY <1>17 DEF MetaWriteCount, MetaWriteEntry, MetaClose, Inv, TypeInv, TypeOK, MetaFiles
  <2> QED
    BY <1>17, <2>1, FinishedKept
    DEF MetaWriteCount, MetaWriteEntry, MetaClose, Inv, CacheInv, Finished, CleanFiles
<1>18. CASE KillProgressBar
  <2>1. CASE pc' = "running"
    BY <1>18, <2>1, FinishedKept DEF KillProgressBar, Inv, CacheInv, Finished, CleanFiles
  <2>2. CASE pc' = "aborted"
    BY <1>18, <2>2, CacheKept DEF KillProgressBar, CleanFiles
  <2> QED
    BY <1>18, <2>1, <2>2 DEF KillProgressBar
<1>19. CASE IoAborts \/ CloseInBoot
  <2>1. CleanFiles' => CleanFiles
    BY <1>19 DEF IoAborts, CloseInBoot, CleanFiles
  <2> QED
    BY <1>19, <2>1, CacheKept DEF IoAborts, CloseInBoot, LoseProcess
<1>20. CASE BarExits
  BY <1>20 DEF BarExits, Inv, CacheInv, MetaVouches, Walked, Finished, CleanFiles, Target
<1>21. CASE PowerLoss
  <2>1. CleanFiles' => CleanFiles
    BY <1>21 DEF PowerLoss, CleanFiles
  <2>2. meta'.exists => meta.exists /\ meta'.hash \in {meta.hash, NoHash}
    BY <1>21 DEF PowerLoss, Inv, TypeInv, TypeOK, MetaFiles
  <2>3. pc = "wipe" => ~CleanFiles' \/ ~meta'.exists
    BY <1>21, <2>2 DEF PowerLoss, CutFlaws, CleanFiles
  <2> QED
    BY <1>21, <2>1, <2>2, <2>3, CacheKept DEF PowerLoss, LoseProcess
<1>22. ASSUME NEW r \in Mods, InstallMod(r) PROVE CacheInv'
  BY <1>22, CacheKept DEF InstallMod, CleanFiles
<1>23. ASSUME NEW v \in Versions, UpdateGame(v) PROVE CacheInv'
  BY <1>23, CacheKept DEF UpdateGame, CleanFiles
<1>24. CASE UNCHANGED vars
  BY <1>24 DEF vars, Inv, CacheInv, MetaVouches, Walked, Finished, CleanFiles, Target
<1> QED
  BY <1>1, <1>2, <1>3, <1>4, <1>5, <1>6, <1>7, <1>8, <1>9, <1>10, <1>11, <1>12, <1>13,
     <1>14, <1>15, <1>16, <1>17, <1>18, <1>19, <1>20, <1>21, <1>22, <1>23, <1>24
  DEF Next, BootStep, Environment, Wipe, Patch, WriteMeta

LEMMA InvAlways == Spec => []Inv
<1>1. Init => Inv
  BY TypeInit, CacheInit DEF Inv
<1>2. Inv /\ [Next]_vars => Inv'
  BY TypeNext, CacheNext DEF Inv
<1> QED
  BY <1>1, <1>2, PTL DEF Spec

\* As long as no wipe was cut and no failing wipe, walk or write was passed
\* over since the last complete wipe (CleanFiles), the cache is at every moment
\* what the boot so far makes of it, and what patch.meta says of it is true,
\* for every mod, version and bound: a boot may be cut or abort anywhere else.
THEOREM CacheCorrect == Spec => []CacheInv
<1>1. Inv => CacheInv
  BY DEF Inv
<1> QED
  BY InvAlways, <1>1, PTL

\* Under the same exceptions no boot leaves a hash on the card that promises
\* more than the cache holds, so no later boot, under any mod or version,
\* accepts a wrong or a partial cache for its own (writePatchesHash is the last
\* thing a boot writes).  After a dropped write or walk error it does: the hash
\* then vouches for a file that is missing, half written or not patched.
THEOREM HashFileVouches == Spec => []MetaVouches
<1>1. Inv => MetaVouches
  BY DEF Inv, CacheInv
<1> QED
  BY InvAlways, <1>1, PTL

-----------------------------------------------------------------------------
\* What the running game sees, from a cache that is the outcome of its mod.

LEMMA OutcomeShown ==
    ASSUME Inv, IsOutcome(cache, romfs, version, Len(romfs)), NEW p \in Paths
    PROVE  /\ Shows(romfs, version, p, OpenFile(p))
           /\ CacheHas(p) <=> Hits(romfs, version, Len(romfs), p) # {}
<1>1. romfs \in Mods /\ version \in Versions
  BY DEF Inv, TypeInv, TypeOK
<1>2. Leaves(romfs, version, Len(romfs), p, cache[p])
  BY DEF IsOutcome
<1>3. cache[p] = Absent <=> Hits(romfs, version, Len(romfs), p) = {}
  BY <1>1, <1>2, LeavesAbsent
<1> QED
  BY <1>2, <1>3 DEF Shows, OpenFile, CacheHas, Contents

LEMMA ArchiveShown ==
    ASSUME Inv, IsOutcome(cache, romfs, version, Len(romfs)), NEW n \in Names
    PROVE  ShowsArchive(romfs, version, n, LoadArchive(n))
<1> DEFINE sarc == [name |-> n, ext |-> "sarc"]
           szs  == [name |-> n, ext |-> "szs"]
<1>1. sarc \in Paths /\ szs \in Paths /\ [sarc EXCEPT !.ext = "szs"] = szs /\ szs.ext = "szs"
  BY DEF Paths, Exts
<1>2. romfs \in Mods /\ version \in Versions
  BY DEF Inv, TypeInv, TypeOK
<1>3. Shows(romfs, version, sarc, OpenFile(sarc))
      /\ (CacheHas(sarc) <=> Hits(romfs, version, Len(romfs), sarc) # {})
  BY <1>1, OutcomeShown
<1>4. ~CacheHas(szs)
  <2>1. Hits(romfs, version, Len(romfs), szs) = {}
    BY <1>1, <1>2, NoHitOnContainer
  <2> QED
    BY <2>1, <1>1, OutcomeShown
<1>5. CASE RomFSHas(sarc) \/ CacheHas(sarc)
  <2>1. LoadArchive(n) = OpenFile(sarc)
    BY <1>5 DEF LoadArchive
  <2>2. ~(Hits(romfs, version, Len(romfs), sarc) = {} /\ Base[version][sarc].data = Absent)
    BY <1>3, <1>5 DEF RomFSHas
  <2> QED
    BY <1>3, <2>1, <2>2 DEF ShowsArchive
<1>6. CASE ~(RomFSHas(sarc) \/ CacheHas(sarc))
  <2>1. LoadArchive(n) = Base[version][szs].data
    BY <1>1, <1>4, <1>6 DEF LoadArchive, OpenFile
  <2>2. Hits(romfs, version, Len(romfs), sarc) = {} /\ Base[version][sarc].data = Absent
    BY <1>3, <1>6 DEF RomFSHas
  <2> QED
    BY <2>1, <2>2 DEF ShowsArchive, Contents
<1> QED
  BY <1>5, <1>6

\* A running game sees the installed mod in the installed version, after any
\* sequence of boots, aborts, installations of mods and versions, and of boots
\* cut short outside the wipe.  It is conditional on CleanFiles: that since the
\* cache was last wiped completely no wipe was cut by a power loss and no
\* failure of the wipe, of the walk or of a write was dropped; without that
\* condition it is false (the ServesAfter... properties).
THEOREM ServesCorrect == Spec => []ServesCurrentMod
<1>1. Inv => ServesCurrentMod
  <2> SUFFICES ASSUME Inv, pc = "running", CleanFiles
               PROVE  /\ \A p \in Paths : Shows(romfs, version, p, OpenFile(p))
                      /\ \A n \in Names : ShowsArchive(romfs, version, n, LoadArchive(n))
    BY DEF ServesCurrentMod, Serves
  <2>1. IsOutcome(cache, romfs, version, Len(romfs))
    BY DEF Inv, CacheInv, Finished
  <2> QED
    BY <2>1, OutcomeShown, ArchiveShown
<1> QED
  BY InvAlways, <1>1, PTL

-----------------------------------------------------------------------------
\* What is left when a power loss cuts the wipe too (ServesNoOtherMod).

\* o holds nothing, or what mod r leaves there.
Partly(r, v, o) == cache[o] = Absent \/ Leaves(r, v, Len(r), o, cache[o])

\* Files that patch.meta vouches for may be gone, but no others are there;
\* and a boot that got through its wipe owes nothing to an earlier one.
PartlyVouched ==
    CutsOnly /\ meta.exists /\ meta.hash # NoHash =>
        \A r \in Mods, v \in Versions :
            meta.hash = Hash(r, v) => \A o \in Paths : Partly(r, v, o)

AfterWipe == {"walk", "replace", "create", "write", "metaDelete", "metaCreate",
              "metaHash", "metaCount", "metaEntries", "killBar"}

CutInv ==
    /\ PartlyVouched
    /\ pc \in AfterWipe /\ CutsOnly => CleanFiles
    /\ pc = "running" /\ CutsOnly => \A o \in Paths : Partly(romfs, version, o)

\* A step that keeps the files and at most loses the hash.
LEMMA PartlyKept ==
    ASSUME PartlyVouched, cache' = cache, CutsOnly' => CutsOnly,
           meta'.exists => meta.exists /\ meta'.hash \in {meta.hash, NoHash}
    PROVE  PartlyVouched'
BY DEF PartlyVouched, Partly

LEMMA CutNext == Inv /\ CutInv /\ [Next]_vars => CutInv'
<1> SUFFICES ASSUME Inv, CutInv, [Next]_vars PROVE CutInv'
  OBVIOUS
<1> USE DEF installed, disk, process, bar, budget, CutInv, AfterWipe
<1>r. romfs \in Mods /\ version \in Versions
  BY DEF Inv, TypeInv, TypeOK
<1>f. flaws \subseteq {"walkFailed", "writeFailed", "wipeFailed", "wipeCut", "metaCut"}
  BY DEF Inv, TypeInv, TypeOK
<1>c. CacheInv'
  BY CacheNext
<1>1. CASE Boot \/ CacheMiss \/ LaunchBar \/ SkipBar \/ Quit
  BY <1>1, PartlyKept DEF Boot, CacheMiss, LaunchBar, SkipBar, Quit, LoseProcess, CutsOnly
<1>2. CASE CacheHit
  <2>1. meta.exists /\ meta.hash = Hash(romfs, version) /\ meta.hash # NoHash
    BY <1>2, <1>r, HashAssumption DEF CacheHit, CacheMatches, CachedHash, MetaAccepted
  <2>2. CutsOnly => \A o \in Paths : Partly(romfs, version, o)
    BY <2>1, <1>r DEF PartlyVouched
  <2>3. UNCHANGED <<romfs, version, cache, meta, flaws>> /\ pc' = "running"
    BY <1>2 DEF CacheHit
  <2>4. PartlyVouched'
    BY <2>3, PartlyKept DEF CutsOnly
  <2>5. QED
    BY <2>2, <2>3, <2>4 DEF Partly, CutsOnly
<1>3. ASSUME NEW p \in Paths, WipeFile(p) PROVE CutInv'
  <2>1. /\ pc = "wipe" /\ UNCHANGED <<pc, meta, flaws>>
        /\ cache' = [cache EXCEPT ![p] = Absent]
    BY <1>3 DEF WipeFile
  <2>2. cache \in [Paths -> Content \cup {Absent, Torn}]
    BY DEF Inv, TypeInv, TypeOK
  <2>3. \A o \in Paths : cache'[o] \in {cache[o], Absent}
    BY <2>1, <2>2
  <2>4. PartlyVouched'
    BY <2>1, <2>3 DEF PartlyVouched, Partly, CutsOnly
  <2>5. QED
    BY <2>1, <2>4
<1>4. CASE WipeMeta
  BY <1>4 DEF WipeMeta, NoMeta, PartlyVouched
<1>5. CASE WipeDone
  BY <1>5 DEF WipeDone, Wiped, StartWalk, PartlyVouched, CleanFiles
<1>6. CASE WipeFails \/ WalkFails \/ WriteFails
  <2>1. pc' = "walk"
        /\ ("wipeFailed" \in flaws' \/ "walkFailed" \in flaws' \/ "writeFailed" \in flaws')
    BY <1>6 DEF WipeFails, WalkFails, WriteFails, StartWalk, NextFile
  <2>2. ~CutsOnly'
    BY <2>1 DEF CutsOnly
  <2>3. QED
    BY <2>1, <2>2 DEF PartlyVouched
\* Behind the wipe a state without passed-over failures is clean, and CacheInv
\* speaks for it.
<1>7. ASSUME pc' \in AfterWipe \cup {"running"}, CutsOnly' => CleanFiles' PROVE CutInv'
  <2>1. PartlyVouched'
    BY <1>7, <1>c DEF CacheInv, MetaVouches, PartlyVouched, Partly, IsOutcome
  <2>2. pc' = "running" /\ CutsOnly' => (\A o \in Paths : Partly(romfs, version, o))'
    BY <1>7, <1>c DEF CacheInv, Finished, Partly, IsOutcome
  <2>3. QED
    BY <1>7, <2>1, <2>2
<1>8. CASE pc \in AfterWipe /\ pc' \in AfterWipe \cup {"running"} /\ flaws' \in {flaws, flaws \ {"metaCut"}}
  <2>1. CutsOnly' => CleanFiles'
    BY <1>8, <1>f DEF CutsOnly, CleanFiles
  <2>2. QED
    BY <1>7, <1>8, <2>1
<1>9. CASE SkipFile \/ PatchFile \/ DeleteOld \/ CreateOut \/ WriteOut
  BY <1>8, <1>9 DEF SkipFile, PatchFile, AtPatch, DeleteOld, CreateOut, WriteOut, NextFile
<1>10. CASE WriteMeta
  BY <1>8, <1>10 DEF WriteMeta, SortTable, MetaDelete, MetaCreate, MetaWriteHash, MetaWriteCount,
                     MetaWriteEntry, MetaClose
<1>11. CASE KillProgressBar
  <2>1. UNCHANGED <<cache, meta, flaws>> /\ pc = "killBar" /\ pc' \in {"running", "aborted"}
    BY <1>11 DEF KillProgressBar
  <2>2. CASE pc' = "running"
    BY <1>8, <2>1, <2>2
  <2>3. CASE pc' = "aborted"
    BY <2>1, <2>3, PartlyKept DEF CutsOnly
  <2>4. QED
    BY <2>1, <2>2, <2>3
<1>12. CASE AbortPatch \/ IoAborts \/ CloseInBoot
  BY <1>12, PartlyKept DEF AbortPatch, AtPatch, IoAborts, CloseInBoot, LoseProcess, CutsOnly
<1>13. CASE BarExits \/ UNCHANGED vars
  <2>1. UNCHANGED <<romfs, version, cache, meta, flaws, pc>>
    BY <1>13 DEF BarExits, vars
  <2>2. QED
    BY <2>1 DEF PartlyVouched, Partly, CutsOnly, CleanFiles
<1>14. CASE PowerLoss
  <2>1. meta'.exists = meta.exists /\ meta'.hash \in {meta.hash, NoHash}
    BY <1>14 DEF PowerLoss, Inv, TypeInv, TypeOK, MetaFiles
  <2>2. cache' = cache /\ pc' = "off" /\ (CutsOnly' => CutsOnly)
    BY <1>14 DEF PowerLoss, LoseProcess, CutsOnly
  <2>3. QED
    BY <2>1, <2>2, PartlyKept
<1>15. ASSUME NEW r \in Mods, InstallMod(r) PROVE CutInv'
  BY <1>15, PartlyKept DEF InstallMod, CutsOnly
<1>16. ASSUME NEW v \in Versions, UpdateGame(v) PROVE CutInv'
  BY <1>16, PartlyKept DEF UpdateGame, CutsOnly
<1>17. QED
  BY <1>1, <1>2, <1>3, <1>4, <1>5, <1>6, <1>9, <1>10, <1>11, <1>12, <1>13, <1>14, <1>15, <1>16
  DEF Next, BootStep, Environment, Wipe, Patch

\* A running game opens, for every path, the file of the installed mod or the
\* game's own, wherever power losses cut the earlier boots, the deletion of
\* the cache included; failing calls excepted.
THEOREM NoOtherModServed == Spec => []ServesNoOtherMod
<1>1. Init => CutInv
  BY DEF Init, CutInv, PartlyVouched, AfterWipe, NoMeta
<1>2. Inv /\ CutInv => ServesNoOtherMod
  BY DEF CutInv, Partly, ServesNoOtherMod, Shows, Contents, OpenFile, CacheHas
<1>3. QED
  BY <1>1, <1>2, CutNext, InvAlways, PTL DEF Spec

-----------------------------------------------------------------------------
\* The progress bar: at most one bar of this boot, and only while it patches.

BarInv ==
    /\ bars \in Nat /\ barsBefore \in Nat
    /\ pc \in {"compare", "initBar", "running"} => bars <= barsBefore
    /\ pc \in {"wipe", "walk", "replace", "create", "write", "metaDelete", "metaCreate",
               "metaHash", "metaCount", "metaEntries"} =>
          bars <= barsBefore + (IF barExists THEN 1 ELSE 0)
    /\ pc = "killBar" => bars <= barsBefore + 1

LEMMA BarNext == BarInv /\ [Next]_vars => BarInv'
<1> SUFFICES ASSUME BarInv, [Next]_vars PROVE BarInv'
  OBVIOUS
<1> USE DEF BarInv, installed, disk, process, bar, budget
<1>1. CASE Boot \/ CacheHit \/ CacheMiss
  BY <1>1 DEF Boot, CacheHit, CacheMiss
<1>2. CASE LaunchBar
  BY <1>2 DEF LaunchBar
<1>3. CASE SkipBar
  BY <1>3 DEF SkipBar
<1>4. ASSUME NEW p \in Paths, WipeFile(p) PROVE BarInv'
  BY <1>4 DEF WipeFile
<1>5. CASE WipeMeta \/ WipeDone \/ WipeFails
  BY <1>5 DEF WipeMeta, WipeDone, WipeFails, StartWalk
<1>6. CASE Patch
  BY <1>6 DEF Patch, SkipFile, AbortPatch, PatchFile, AtPatch, DeleteOld, CreateOut, WriteOut, NextFile
<1>7. CASE WriteFails \/ WalkFails
  BY <1>7 DEF WriteFails, WalkFails, NextFile
<1>8. CASE SortTable \/ MetaDelete \/ MetaCreate \/ MetaWriteHash \/ MetaWriteCount \/ MetaWriteEntry
  BY <1>8 DEF SortTable, MetaDelete, MetaCreate, MetaWriteHash, MetaWriteCount, MetaWriteEntry
<1>9. CASE MetaClose
  BY <1>9 DEF MetaClose
<1>10. CASE KillProgressBar
  BY <1>10 DEF KillProgressBar
<1>11. CASE IoAborts \/ Quit \/ CloseInBoot
  BY <1>11 DEF IoAborts, Quit, CloseInBoot, LoseProcess
<1>12. CASE BarExits
  BY <1>12 DEF BarExits
<1>13. CASE PowerLoss
  BY <1>13 DEF PowerLoss, LoseProcess
<1>14. ASSUME NEW r \in Mods, InstallMod(r) PROVE BarInv'
  BY <1>14 DEF InstallMod
<1>15. ASSUME NEW v \in Versions, UpdateGame(v) PROVE BarInv'
  BY <1>15 DEF UpdateGame
<1>16. CASE UNCHANGED vars
  BY <1>16 DEF vars
<1> QED
  BY <1>1, <1>2, <1>3, <1>4, <1>5, <1>6, <1>7, <1>8, <1>9, <1>10, <1>11, <1>12, <1>13,
     <1>14, <1>15, <1>16
  DEF Next, BootStep, Environment, Wipe, Patch, WriteMeta

\* However many boots left a progress bar behind, a boot that ends in the game
\* leaves no more of them than it found (killProgressBar).
THEOREM NoBarLeft == Spec => []BootLeavesNoBar
<1>1. Init => BarInv
  BY DEF Init, BarInv
<1>2. BarInv => BootLeavesNoBar
  BY DEF BarInv, BootLeavesNoBar
<1> QED
  BY <1>1, <1>2, BarNext, PTL DEF Spec

-----------------------------------------------------------------------------
\* The table as it should be.

\* The entry that patchFile appends for the Yaz0 file at path p.
EntryOf(v, p) == [name |-> NameHash(Out(p)), align |-> Base[v][p].align]

\* The Yaz0 files among the sources of the first k patches.
Yaz0s(r, v, k) ==
    {r[i].path : i \in {j \in DOMAIN r : j <= k /\ Matches(r[j], v) /\ r[j].path.ext = "szs"}}

Lists(t, r, v, k) ==
    /\ \A i \in DOMAIN t : \E p \in Yaz0s(r, v, k) : t[i] = EntryOf(v, p)
    /\ \A p \in Yaz0s(r, v, k) : \E i \in DOMAIN t : t[i] = EntryOf(v, p)

Sorted(t) == \A i, j \in DOMAIN t : i <= j => t[i].name <= t[j].name

Complete(t, r, v) == Sorted(t) /\ Lists(t, r, v, Len(r))

\* The table follows a walk that did not fail, and is complete from the sort on.
TableFollows ==
    /\ pc = "wipe" => table = <<>>
    /\ "walkFailed" \notin flaws =>
          /\ pc = "walk" => Lists(table, romfs, version, next - 1)
          /\ pc \in {"replace", "create", "write"} => Lists(table, romfs, version, next)
          /\ pc \in {"metaDelete", "metaCreate", "metaHash", "metaCount", "metaEntries", "killBar"} =>
                Complete(table, romfs, version)
    /\ pc = "running" /\ CleanTable => Complete(table, romfs, version)

\* How far the writing of patch.meta has come.
MetaFollows ==
    /\ meta.count \in {0, Len(meta.entries)}
    /\ pc = "metaHash" => meta.hash = NoHash
    /\ pc \in {"metaCount", "metaEntries"} => meta.hash = Hash(romfs, version)
    /\ pc \in {"metaHash", "metaCount"} => meta.count = 0
    /\ pc = "metaEntries" => \A i \in 1..(next - 1) : meta.entries[i] = table[i]

\* A hash file that a boot accepts has the complete table of every patch set
\* with that hash, unless writing its entries was cut.
MetaUsable ==
    /\ CleanTable /\ MetaAccepted /\ meta.hash # NoHash
    /\ pc \notin {"metaHash", "metaCount", "metaEntries"}

MetaLists ==
    MetaUsable =>
        \A r \in Mods, v \in Versions :
            meta.hash = Hash(r, v) => Complete(meta.entries, r, v)

TableInv == TableFollows /\ MetaFollows /\ MetaLists

-----------------------------------------------------------------------------
\* What each step does to the table.

LEMMA Yaz0Type ==
    ASSUME NEW r \in Mods, NEW v \in Versions, NEW k
    PROVE  \A p \in Yaz0s(r, v, k) : p \in Paths /\ p.ext = "szs"
<1> SUFFICES ASSUME NEW i \in DOMAIN r, r[i].path.ext = "szs" PROVE r[i].path \in Paths
  BY DEF Yaz0s
<1>1. i \in 1..Len(r)
  BY RomFSTypes
<1>2. QED
  BY <1>1, EntryType

LEMMA ListsNothing ==
    ASSUME NEW r \in Mods, NEW v \in Versions
    PROVE  Lists(<<>>, r, v, 0)
<1>1. DOMAIN r = 1..Len(r) /\ Len(r) \in Nat
  BY RomFSTypes
<1>2. Yaz0s(r, v, 0) = {}
  BY <1>1 DEF Yaz0s
<1>3. QED
  BY <1>2 DEF Lists

\* A file that is no patch, or no patch for a Yaz0 file, adds nothing.
LEMMA ListsSkip ==
    ASSUME NEW r \in Mods, NEW v \in Versions, NEW n \in 1..Len(r), NEW t,
           ~Matches(r[n], v) \/ r[n].path.ext # "szs",
           Lists(t, r, v, n - 1)
    PROVE  Lists(t, r, v, n)
<1>1. DOMAIN r = 1..Len(r) /\ Len(r) \in Nat
  BY RomFSTypes
<1>2. Yaz0s(r, v, n) = Yaz0s(r, v, n - 1)
  BY <1>1 DEF Yaz0s
<1>3. QED
  BY <1>2 DEF Lists

\* A patch for a Yaz0 file adds its entry.
LEMMA ListsPatch ==
    ASSUME NEW r \in Mods, NEW v \in Versions, NEW n \in 1..Len(r), NEW t \in Seq(Aligned),
           Matches(r[n], v), r[n].path.ext = "szs",
           Lists(t, r, v, n - 1)
    PROVE  Lists(Append(t, EntryOf(v, r[n].path)), r, v, n)
<1> DEFINE u == Append(t, EntryOf(v, r[n].path))
<1>1. DOMAIN r = 1..Len(r) /\ Len(r) \in Nat
  BY RomFSTypes
<1>2. Yaz0s(r, v, n) = Yaz0s(r, v, n - 1) \cup {r[n].path}
  BY <1>1 DEF Yaz0s
<1>3. /\ DOMAIN t = 1..Len(t) /\ Len(t) \in Nat
      /\ DOMAIN u = 1..(Len(t) + 1)
      /\ \A i \in DOMAIN t : u[i] = t[i]
      /\ u[Len(t) + 1] = EntryOf(v, r[n].path)
  OBVIOUS
<1> HIDE DEF u
<1>4. \A i \in DOMAIN u : i \in DOMAIN t \/ i = Len(t) + 1
  BY <1>3
<1>5. DOMAIN t \subseteq DOMAIN u /\ Len(t) + 1 \in DOMAIN u
  BY <1>3
<1>6. Lists(u, r, v, n)
  BY <1>2, <1>3, <1>4, <1>5 DEF Lists
<1>7. QED
  BY <1>6 DEF u

\* A sort loses no entry: an injection of a finite set into itself is onto.
LEMMA InjectionIsOnto ==
    ASSUME NEW n \in Nat, NEW f \in [1..n -> 1..n],
           \A i, j \in 1..n : f[i] = f[j] => i = j
    PROVE  \A k \in 1..n : \E i \in 1..n : f[i] = k
<1>1. f \in Injection(1..n, 1..n)
  BY DEF Injection, IsInjective
<1>2. IsFiniteSet(1..n)
  BY FS_Interval
<1>3. f \in Surjection(1..n, 1..n)
  BY <1>1, <1>2, FS_Injection
<1>4. QED
  BY <1>3 DEF Surjection

LEMMA SortedAfterSort ==
    ASSUME NEW r \in Mods, NEW v \in Versions, NEW k, NEW t \in Seq(Aligned),
           Lists(t, r, v, k), NEW u \in Reorderings(t)
    PROVE  Sorted(u) /\ Lists(u, r, v, k)
<1>1. PICK f \in [DOMAIN t -> DOMAIN t] :
         /\ u = [i \in DOMAIN t |-> t[f[i]]]
         /\ \A i, j \in DOMAIN t : f[i] = f[j] => i = j
         /\ \A i, j \in DOMAIN t : i <= j => t[f[i]].name <= t[f[j]].name
  BY DEF Reorderings
<1>2. DOMAIN t = 1..Len(t) /\ Len(t) \in Nat
  OBVIOUS
<1>3. DOMAIN u = DOMAIN t /\ \A i \in DOMAIN t : u[i] = t[f[i]]
  BY <1>1
<1>4. \A j \in DOMAIN t : \E i \in DOMAIN t : f[i] = j
  <2> DEFINE n == Len(t)
  <2>1. n \in Nat /\ DOMAIN t = 1..n
    BY <1>2
  <2> HIDE DEF n
  <2>2. f \in [1..n -> 1..n] /\ \A i, j \in 1..n : f[i] = f[j] => i = j
    BY <1>1, <2>1
  <2>3. \A j \in 1..n : \E i \in 1..n : f[i] = j
    BY <2>1, <2>2, InjectionIsOnto
  <2>4. QED
    BY <2>1, <2>3
<1>5. Sorted(u)
  BY <1>1, <1>3 DEF Sorted
<1>6. \A j \in DOMAIN t : \E i \in DOMAIN u : u[i] = t[j]
  BY <1>3, <1>4
<1>7. \A i \in DOMAIN u : \E j \in DOMAIN t : u[i] = t[j]
  BY <1>1, <1>3
<1>8. Lists(u, r, v, k)
  BY <1>6, <1>7 DEF Lists
<1>9. QED
  BY <1>5, <1>8

\* The Yaz0 files of a mod, path by path.
LEMMA ContainersAre ==
    ASSUME NEW r \in Mods, NEW v \in Versions, NEW o \in Paths
    PROVE  /\ \A i \in Containers(r, v, o) :
                 r[i].path \in Yaz0s(r, v, Len(r)) /\ Out(r[i].path) = o
           /\ \A p \in Yaz0s(r, v, Len(r)) :
                 Out(p) = o => \E i \in Containers(r, v, o) : r[i].path = p
<1>1. DOMAIN r = 1..Len(r) /\ Len(r) \in Nat
  BY RomFSTypes
<1>2. QED
  BY <1>1 DEF Containers, Hits, Yaz0s

LEMMA SameOutSamePath ==
    ASSUME NEW p \in Paths, NEW q \in Paths, p.ext = "szs", q.ext = "szs", Out(p) = Out(q)
    PROVE  p = q
BY DEF Paths, Exts, Out

\* Patch sets with the same hash have the same Yaz0 files and alignments.
LEMMA SameHashSameYaz0s ==
    ASSUME NEW r \in Mods, NEW s \in Mods, NEW v \in Versions, NEW w \in Versions,
           Hash(r, v) = Hash(s, w)
    PROVE  v = w /\ Yaz0s(r, v, Len(r)) \subseteq Yaz0s(s, w, Len(s))
<1>1. v = w
  BY HashAssumption
<1>2. ASSUME NEW p \in Yaz0s(r, v, Len(r)) PROVE p \in Yaz0s(s, w, Len(s))
  <2>1. p \in Paths /\ p.ext = "szs" /\ Out(p) \in Paths
    BY Yaz0Type, OutType
  <2>2. Containers(r, v, Out(p)) # {}
    BY <2>1, ContainersAre
  <2>3. Containers(s, w, Out(p)) # {}
    BY <2>1, <2>2, HashAssumption
  <2>4. PICK q \in Yaz0s(s, w, Len(s)) : Out(q) = Out(p)
    BY <2>1, <2>3, ContainersAre
  <2>5. q \in Paths /\ q.ext = "szs"
    BY Yaz0Type
  <2>6. QED
    BY <2>1, <2>4, <2>5, SameOutSamePath
<1>3. QED
  BY <1>1, <1>2

LEMMA CompleteForHash ==
    ASSUME NEW r \in Mods, NEW s \in Mods, NEW v \in Versions, NEW w \in Versions,
           Hash(r, v) = Hash(s, w), NEW t, Complete(t, r, v)
    PROVE  Complete(t, s, w)
<1>1. v = w /\ Yaz0s(r, v, Len(r)) = Yaz0s(s, w, Len(s))
  <2>1. v = w /\ Yaz0s(r, v, Len(r)) \subseteq Yaz0s(s, w, Len(s))
    BY SameHashSameYaz0s
  <2>2. Yaz0s(s, w, Len(s)) \subseteq Yaz0s(r, v, Len(r))
    BY SameHashSameYaz0s
  <2>3. QED
    BY <2>1, <2>2
<1>2. QED
  BY <1>1 DEF Complete, Lists

-----------------------------------------------------------------------------
\* Binary search.  BinarySearch is a recursive function, so it is first shown
\* to exist (RecursionDefines), then to find what is there.

SearchBounds(t) == (1..(Len(t) + 1)) \X (0..Len(t))

Middle(b) == (b[1] + b[2]) \div 2

SearchStep(t, h, b, search) ==
    IF b[1] > b[2] THEN NoIndex
    ELSE IF t[Middle(b)].name = h THEN Middle(b)
    ELSE IF t[Middle(b)].name < h THEN search[<<Middle(b) + 1, b[2]>>]
    ELSE search[<<b[1], Middle(b) - 1>>]

Search(t, h) == CHOOSE search : search = [b \in SearchBounds(t) |-> SearchStep(t, h, b, search)]

Found(t) == {NoIndex} \cup 1..Len(t)

LEMMA SearchIs ==
    ASSUME NEW t, NEW h
    PROVE  BinarySearch(t, h) = Search(t, h)[<<1, Len(t)>>]
BY Zenon DEF BinarySearch, Search, SearchBounds, SearchStep, Middle

\* Half of what is left lies within it, on each side of the middle.
LEMMA MiddleIsBetween ==
    ASSUME NEW low \in Nat, NEW high \in Nat, low <= high
    PROVE  (low + high) \div 2 \in low..high
OBVIOUS

LEMMA HalvesAre ==
    ASSUME NEW t \in Seq(Aligned), NEW b \in SearchBounds(t), b[1] <= b[2]
    PROVE  /\ Middle(b) \in b[1]..b[2] /\ Middle(b) \in 1..Len(t)
           /\ <<Middle(b) + 1, b[2]>> \in SearchBounds(t)
           /\ <<b[1], Middle(b) - 1>> \in SearchBounds(t)
<1>1. Len(t) \in Nat /\ b[1] \in 1..(Len(t) + 1) /\ b[2] \in 0..Len(t)
  BY DEF SearchBounds
<1>2. Middle(b) \in b[1]..b[2]
  BY <1>1, MiddleIsBetween DEF Middle
<1>3. Middle(b) + 1 \in 1..(Len(t) + 1) /\ Middle(b) - 1 \in 0..Len(t) /\ Middle(b) \in 1..Len(t)
  BY <1>1, <1>2
<1>4. QED
  BY <1>1, <1>2, <1>3 DEF SearchBounds

LEMMA SearchExists ==
    ASSUME NEW t \in Seq(Aligned), NEW h \in Nat
    PROVE  \E f \in [SearchBounds(t) -> Found(t)] :
              \A b \in SearchBounds(t) : f[b] = SearchStep(t, h, b, f)
<1> DEFINE D == SearchBounds(t)
           V == Found(t)
           mu == [b \in D |-> IF b[1] > b[2] THEN 0 ELSE b[2] - b[1] + 1]
           Rule == [b \in D |-> [f \in [D -> V] |-> SearchStep(t, h, b, f)]]
<1>1. \A b \in D : b[1] \in Nat /\ b[2] \in Nat
  BY DEF SearchBounds
<1>2. mu \in [D -> Nat]
  BY <1>1
<1>3. \A b \in D : mu[b] = IF b[1] > b[2] THEN 0 ELSE b[2] - b[1] + 1
  OBVIOUS
<1>4. \A b \in D : \A f \in [D -> V] : Rule[b][f] = SearchStep(t, h, b, f)
  OBVIOUS
<1>5. ASSUME NEW b \in D, NEW f \in [D -> V] PROVE SearchStep(t, h, b, f) \in V
  <2>1. CASE b[1] > b[2]
    BY <2>1 DEF SearchStep, Found
  <2>2. CASE b[1] <= b[2]
    <3>1. /\ Middle(b) \in 1..Len(t)
          /\ <<Middle(b) + 1, b[2]>> \in D /\ <<b[1], Middle(b) - 1>> \in D
      BY <2>2, HalvesAre
    <3>2. f[<<Middle(b) + 1, b[2]>>] \in V /\ f[<<b[1], Middle(b) - 1>>] \in V /\ Middle(b) \in V
      BY <3>1 DEF Found
    <3>3. ~(b[1] > b[2])
      BY <2>2, <1>1
    <3> HIDE DEF D, V
    <3>4. QED
      BY <3>2, <3>3 DEF SearchStep
  <2>3. QED
    BY <1>1, <2>1, <2>2
<1>6. Rule \in [D -> [[D -> V] -> V]]
  BY <1>5
<1>7. ASSUME NEW b \in D, NEW f \in [D -> V], NEW g \in [D -> V],
             \A c \in D : mu[c] < mu[b] => f[c] = g[c]
      PROVE  SearchStep(t, h, b, f) = SearchStep(t, h, b, g)
  <2>1. CASE b[1] > b[2]
    BY <2>1 DEF SearchStep
  <2>2. CASE b[1] <= b[2]
    <3> DEFINE c == <<Middle(b) + 1, b[2]>>
               d == <<b[1], Middle(b) - 1>>
    <3>1. Middle(b) \in b[1]..b[2] /\ c \in D /\ d \in D
      BY <2>2, HalvesAre
    <3>2. c[1] = Middle(b) + 1 /\ c[2] = b[2] /\ d[1] = b[1] /\ d[2] = Middle(b) - 1
      OBVIOUS
    <3> HIDE DEF c, d, D, V, mu
    <3>3. mu[c] < mu[b] /\ mu[d] < mu[b]
      BY SMTT(30), <1>1, <1>3, <2>2, <3>1, <3>2
    <3>4. f[c] = g[c] /\ f[d] = g[d]
      BY <1>7, <3>1, <3>3
    <3>5. QED
      BY <3>4 DEF SearchStep, c, d
  <2>3. QED
    BY <1>1, <2>1, <2>2
<1> HIDE DEF D, V, mu, Rule
<1>8. Descends(D, V, mu, Rule)
  <2>1. \A x \in D : \A g, k \in [D -> V] :
           (\A y \in D : mu[y] < mu[x] => g[y] = k[y]) => Rule[x][g] = Rule[x][k]
    BY <1>4, <1>7
  <2>2. QED
    BY <1>2, <1>6, <2>1 DEF Descends
<1>9. V # {}
  BY DEF V, Found
<1>10. PICK f \in [D -> V] : \A x \in D : f[x] = Rule[x][f]
  BY <1>8, <1>9, RecursionDefines
<1>11. \A x \in D : f[x] = SearchStep(t, h, x, f)
  BY <1>4, <1>10
<1>12. QED
  BY <1>10, <1>11 DEF D, V

LEMMA SearchFollows ==
    ASSUME NEW t \in Seq(Aligned), NEW h \in Nat
    PROVE  \A b \in SearchBounds(t) : Search(t, h)[b] = SearchStep(t, h, b, Search(t, h))
<1>1. PICK f \in [SearchBounds(t) -> Found(t)] :
         \A b \in SearchBounds(t) : f[b] = SearchStep(t, h, b, f)
  BY SearchExists
<1>2. f = [b \in SearchBounds(t) |-> SearchStep(t, h, b, f)]
  BY <1>1
<1> DEFINE s == Search(t, h)
<1>3. s = [b \in SearchBounds(t) |-> SearchStep(t, h, b, s)]
  BY <1>2 DEF Search
<1> HIDE DEF s
<1>4. \A b \in SearchBounds(t) : s[b] = SearchStep(t, h, b, s)
  BY <1>3
<1>5. QED
  BY <1>4 DEF s

\* i is where h is between the bounds b of a sorted table, or NoIndex.
Finds(t, h, b, i) ==
    \/ i = NoIndex /\ \A j \in b[1]..b[2] : t[j].name # h
    \/ i \in 1..Len(t) /\ t[i].name = h

LEMMA SearchFinds ==
    ASSUME NEW t \in Seq(Aligned), Sorted(t), NEW h \in Nat
    PROVE  \A b \in SearchBounds(t) : Finds(t, h, b, Search(t, h)[b])
<1> DEFINE s == Search(t, h)
           D == SearchBounds(t)
           S == {n \in Nat : \A b \in D : b[2] - b[1] + 1 <= n => Finds(t, h, b, s[b])}
<1>0. \A b \in D : s[b] = SearchStep(t, h, b, s)
  BY SearchFollows
<1>d. Len(t) \in Nat /\ \A b \in D : b[1] \in 1..(Len(t) + 1) /\ b[2] \in 0..Len(t)
  BY DEF SearchBounds
<1>t. /\ \A i \in 1..Len(t) : t[i].name \in Nat
      /\ \A i, j \in 1..Len(t) : i <= j => t[i].name <= t[j].name
  <2>1. DOMAIN t = 1..Len(t) /\ \A i \in 1..Len(t) : t[i] \in Aligned
    OBVIOUS
  <2>2. QED
    BY <2>1 DEF Sorted, Aligned
<1> HIDE DEF s, D
<1>1. ASSUME NEW b \in D, b[2] < b[1] PROVE Finds(t, h, b, s[b])
  <2>1. s[b] = NoIndex
    BY <1>0, <1>1, <1>d DEF SearchStep
  <2>2. b[1]..b[2] = {}
    BY <1>1, <1>d
  <2>3. QED
    BY <2>1, <2>2 DEF Finds
<1>2. 0 \in S
  <2>1. ASSUME NEW b \in D, b[2] - b[1] + 1 <= 0 PROVE Finds(t, h, b, s[b])
    <3>1. b[2] < b[1]
      BY <1>d, <2>1
    <3>2. QED
      BY <1>1, <3>1
  <2>2. QED
    BY <2>1
<1>3. ASSUME NEW n \in Nat, n \in S PROVE n + 1 \in S
  <2> SUFFICES ASSUME NEW b \in D, b[2] - b[1] + 1 <= n + 1 PROVE Finds(t, h, b, s[b])
    OBVIOUS
  <2>1. CASE b[2] < b[1]
    BY <1>1, <2>1
  <2>2. CASE b[1] <= b[2]
    <3> DEFINE m == Middle(b)
               c == <<m + 1, b[2]>>
               d == <<b[1], m - 1>>
    <3>1. m \in b[1]..b[2] /\ m \in 1..Len(t) /\ c \in D /\ d \in D
      BY <2>2, HalvesAre DEF D
    <3>2. c[1] = m + 1 /\ c[2] = b[2] /\ d[1] = b[1] /\ d[2] = m - 1
      OBVIOUS
    <3>3. s[b] = IF t[m].name = h THEN m ELSE IF t[m].name < h THEN s[c] ELSE s[d]
      <4>1. s[b] = SearchStep(t, h, b, s) /\ ~(b[1] > b[2])
        BY <1>0, <1>d, <2>2
      <4>2. QED
        BY <4>1 DEF SearchStep
    <3> HIDE DEF m, c, d
    <3>4. c[2] - c[1] + 1 <= n /\ d[2] - d[1] + 1 <= n
      <4>1. b[1] \in Int /\ b[2] \in Int /\ m \in b[1]..b[2] /\ b[2] - b[1] + 1 <= n + 1
        BY <1>d, <3>1
      <4>2. b[2] - (m + 1) + 1 <= n /\ (m - 1) - b[1] + 1 <= n
        BY SMTT(30), <4>1
      <4>3. QED
        BY <3>2, <4>2
    <3>5. Finds(t, h, c, s[c]) /\ Finds(t, h, d, s[d])
      BY <1>3, <3>1, <3>4
    <3>6. CASE t[m].name = h
      BY <3>1, <3>3, <3>6 DEF Finds
    <3>7. CASE t[m].name < h
      <4>1. s[b] = s[c]
        BY <3>3, <3>7, <3>1, <1>t
      <4>2. \A j \in b[1]..b[2] : j \in c[1]..c[2] \/ t[j].name <= t[m].name
        BY SMTT(30), <1>d, <1>t, <3>1, <3>2
      <4>3. \A j \in b[1]..b[2] : j \in c[1]..c[2] \/ t[j].name # h
        BY SMTT(30), <4>2, <3>7, <3>1, <1>t, <1>d
      <4>4. QED
        BY <4>1, <4>3, <3>5 DEF Finds
    <3>8. CASE h < t[m].name
      <4>1. s[b] = s[d]
        BY <3>3, <3>8, <3>1, <1>t
      <4>2. \A j \in b[1]..b[2] : j \in d[1]..d[2] \/ t[m].name <= t[j].name
        BY <1>d, <1>t, <3>1, <3>2
      <4>3. \A j \in b[1]..b[2] : j \in d[1]..d[2] \/ t[j].name # h
        BY SMTT(30), <4>2, <3>8, <3>1, <1>t, <1>d
      <4>4. QED
        BY <4>1, <4>3, <3>5 DEF Finds
    <3>9. QED
      BY <3>1, <3>6, <3>7, <3>8, <1>t
  <2>3. QED
    BY <1>d, <2>1, <2>2
<1> HIDE DEF S
<1>4. Nat \subseteq S
  BY <1>2, <1>3, NaturalsIn
<1>5. ASSUME NEW b \in D PROVE Finds(t, h, b, s[b])
  <2>1. Len(t) \in Nat /\ b[2] - b[1] + 1 <= Len(t)
    BY <1>d
  <2>2. Len(t) \in S
    BY <1>4, <2>1
  <2>3. QED
    BY <2>1, <2>2 DEF S
<1>6. QED
  BY <1>5 DEF s, D

\* hk::util::binarySearch finds an entry of that name exactly when there is one.
LEMMA BinarySearchFinds ==
    ASSUME NEW t \in Seq(Aligned), Sorted(t), NEW h \in Nat
    PROVE  \/ BinarySearch(t, h) = NoIndex /\ \A j \in DOMAIN t : t[j].name # h
           \/ BinarySearch(t, h) \in DOMAIN t /\ t[BinarySearch(t, h)].name = h
<1> DEFINE b == <<1, Len(t)>>
<1>1. b \in SearchBounds(t) /\ b[1] = 1 /\ b[2] = Len(t) /\ DOMAIN t = 1..Len(t)
  BY DEF SearchBounds
<1>2. Finds(t, h, b, Search(t, h)[b])
  BY <1>1, SearchFinds
<1>3. BinarySearch(t, h) = Search(t, h)[b]
  BY SearchIs
<1> HIDE DEF b
<1>4. QED
  BY <1>1, <1>2, <1>3 DEF Finds

-----------------------------------------------------------------------------
\* The table (TableFollows).

LEMMA TableInit == Init => TableInv
<1> SUFFICES ASSUME Init PROVE TableInv
  OBVIOUS
<1>1. meta.exists = FALSE /\ meta.count = 0 /\ pc = "off"
  BY DEF Init, NoMeta
<1>2. QED
  BY <1>1 DEF TableInv, TableFollows, MetaFollows, MetaLists, MetaUsable, MetaAccepted

LEMMA ModTypes ==
    ASSUME Inv
    PROVE  /\ romfs \in Mods /\ version \in Versions
           /\ Len(romfs) \in Nat /\ DOMAIN romfs = 1..Len(romfs)
           /\ table \in Seq(Aligned) /\ meta.entries \in Seq(Aligned) /\ meta.count \in Nat
           /\ meta \in MetaFiles
BY RomFSTypes DEF Inv, TypeInv, TypeOK, MetaFiles

\* A boot that accepts patch.meta reads the complete table.
LEMMA TableReadBack ==
    ASSUME Inv, TableInv, pc = "compare", CacheMatches, CleanTable
    PROVE  Complete(TableRead, romfs, version)
<1>1. romfs \in Mods /\ version \in Versions /\ meta.entries \in Seq(Aligned)
  BY ModTypes
<1>2. Hash(romfs, version) # NoHash
  BY <1>1, HashAssumption
<1>3. MetaAccepted /\ meta.hash = Hash(romfs, version)
  BY <1>2 DEF CacheMatches, CachedHash
<1>4. Complete(meta.entries, romfs, version)
  BY <1>1, <1>2, <1>3 DEF TableInv, MetaLists, MetaUsable
<1>5. table = <<>>
  BY DEF Inv, TypeInv, Placed
<1>6. TableRead = meta.entries
  BY <1>1, <1>3, <1>5 DEF TableRead
<1>7. QED
  BY <1>4, <1>6

LEMMA TableNext == Inv /\ TableInv /\ [Next]_vars => TableFollows'
<1> SUFFICES ASSUME Inv, TableInv, [Next]_vars PROVE TableFollows'
  OBVIOUS
<1> USE DEF installed, disk, process, bar, budget
<1>r. /\ romfs \in Mods /\ version \in Versions
      /\ Len(romfs) \in Nat /\ DOMAIN romfs = 1..Len(romfs)
      /\ table \in Seq(Aligned)
  BY ModTypes
<1>t. TableFollows
  BY DEF TableInv
<1>1. CASE Boot \/ CacheMiss
  BY <1>1 DEF Boot, CacheMiss, TableFollows
<1>2. CASE CacheHit
  <2>1. CleanTable => Complete(TableRead, romfs, version)
    BY <1>2, TableReadBack DEF CacheHit
  <2>2. pc' = "running" /\ table' = TableRead /\ UNCHANGED <<romfs, version, flaws>>
    BY <1>2 DEF CacheHit
  <2>3. QED
    BY <2>1, <2>2 DEF TableFollows, CleanTable
<1>3. CASE LaunchBar \/ SkipBar
  BY <1>3 DEF LaunchBar, SkipBar, ClearTable, TableFollows
<1>4. ASSUME NEW p \in Paths, WipeFile(p) PROVE TableFollows'
  BY <1>4, <1>t DEF WipeFile, TableFollows
<1>5. CASE WipeMeta
  BY <1>5, <1>t DEF WipeMeta, TableFollows
<1>6. CASE WipeDone \/ WipeFails
  <2>1. table' = <<>> /\ pc' = "walk" /\ next' - 1 = 0 /\ UNCHANGED <<romfs, version>>
    BY <1>6, <1>t DEF WipeDone, WipeFails, StartWalk, TableFollows
  <2>2. Lists(<<>>, romfs, version, 0)
    BY <1>r, ListsNothing
  <2>3. QED
    BY <2>1, <2>2 DEF TableFollows
<1>7. CASE SkipFile
  <2>1. /\ next \in 1..Len(romfs) /\ next' - 1 = next /\ ~Matches(romfs[next], version)
        /\ pc = "walk" /\ pc' = "walk" /\ UNCHANGED <<romfs, version, table, flaws>>
    BY <1>7, <1>r DEF SkipFile, Current, Inv, TypeInv, Placed
  <2>2. "walkFailed" \notin flaws => Lists(table, romfs, version, next)
    BY <1>r, <1>t, <2>1, ListsSkip DEF TableFollows
  <2>3. QED
    BY <2>1, <2>2 DEF TableFollows
<1>8. CASE AbortPatch \/ IoAborts
  BY <1>8 DEF AbortPatch, IoAborts, TableFollows
<1>9. CASE PatchFile
  <2>1. /\ pc = "walk" /\ next \in 1..Len(romfs) /\ Matches(romfs[next], version)
        /\ pc' = "replace" /\ UNCHANGED <<romfs, version, next, flaws>>
    BY <1>9, <1>r DEF PatchFile, AtPatch, Current, Inv, TypeInv, Placed
  <2>2. "walkFailed" \notin flaws => Lists(table, romfs, version, next - 1)
    BY <1>t, <2>1 DEF TableFollows
  <2>3. CASE romfs[next].path.ext = "szs"
    <3>1. table' = Append(table, EntryOf(version, romfs[next].path))
      BY <1>9, <2>3 DEF PatchFile, IsContainer, Current, Source, EntryOf
    <3>2. QED
      BY <1>r, <2>1, <2>2, <2>3, <3>1, ListsPatch DEF TableFollows
  <2>4. CASE romfs[next].path.ext # "szs"
    <3>1. table' = table
      BY <1>9, <2>4 DEF PatchFile, IsContainer, Current
    <3>2. QED
      BY <1>r, <2>1, <2>2, <2>4, <3>1, ListsSkip DEF TableFollows
  <2>5. QED
    BY <2>3, <2>4
<1>10. CASE DeleteOld \/ CreateOut
  BY <1>10, <1>t DEF DeleteOld, CreateOut, TableFollows
<1>11. CASE WriteOut \/ WriteFails
  <2>1. /\ pc \in {"replace", "create", "write"} /\ pc' = "walk" /\ next' = next + 1
        /\ "walkFailed" \notin flaws' => "walkFailed" \notin flaws
        /\ UNCHANGED <<romfs, version, table>>
    BY <1>11 DEF WriteOut, WriteFails, NextFile
  <2>2. next' - 1 = next
    BY <2>1 DEF Inv, TypeInv, Placed
  <2>3. QED
    BY <1>t, <2>1, <2>2 DEF TableFollows
<1>12. CASE SortTable
  <2>1. next - 1 = Len(romfs) /\ pc = "walk"
    BY <1>12, <1>r DEF SortTable, Inv, TypeInv, Placed
  <2>2. "walkFailed" \notin flaws => Lists(table, romfs, version, Len(romfs))
    BY <1>t, <2>1 DEF TableFollows
  <2>3. table' \in Reorderings(table) /\ UNCHANGED <<romfs, version, flaws>> /\ pc' = "metaDelete"
    BY <1>12 DEF SortTable
  <2>4. PICK u \in Reorderings(table) : table' = u
    BY <2>3
  <2>5. "walkFailed" \notin flaws => Complete(u, romfs, version)
    BY <1>r, <2>2, SortedAfterSort DEF Complete
  <2>6. QED
    BY <2>3, <2>4, <2>5 DEF TableFollows
<1>13. CASE MetaDelete
  BY <1>13, <1>t DEF MetaDelete, TableFollows
<1>14. CASE MetaCreate \/ MetaWriteHash \/ MetaWriteCount \/ MetaWriteEntry \/ MetaClose
  BY <1>14, <1>t
  DEF MetaCreate, MetaWriteHash, MetaWriteCount, MetaWriteEntry, MetaClose, TableFollows, CleanTable
<1>15. CASE KillProgressBar
  BY <1>15, <1>t DEF KillProgressBar, TableFollows, CleanTable
<1>16. CASE BarExits
  BY <1>16, <1>t DEF BarExits, TableFollows, CleanTable
<1>22. CASE WalkFails
  BY <1>22 DEF WalkFails, TableFollows
<1>17. CASE Quit \/ CloseInBoot \/ PowerLoss
  BY <1>17 DEF Quit, CloseInBoot, PowerLoss, LoseProcess, TableFollows
<1>18. ASSUME NEW r \in Mods, InstallMod(r) PROVE TableFollows'
  BY <1>18 DEF InstallMod, TableFollows
<1>19. ASSUME NEW v \in Versions, UpdateGame(v) PROVE TableFollows'
  BY <1>19 DEF UpdateGame, TableFollows
<1>20. CASE UNCHANGED vars
  BY <1>20, <1>t DEF vars, TableFollows, CleanTable
<1>21. QED
  BY <1>1, <1>2, <1>3, <1>4, <1>5, <1>6, <1>7, <1>8, <1>9, <1>10, <1>11, <1>12, <1>13,
     <1>14, <1>15, <1>16, <1>17, <1>18, <1>19, <1>20, <1>22
  DEF Next, BootStep, Environment, Wipe, Patch, WriteMeta

-----------------------------------------------------------------------------
\* patch.meta (MetaFollows, MetaLists).

\* PowerLoss on patch.meta: the entries stay, the two words may be lost.
LEMMA PowerLossDoes ==
    ASSUME Inv, PowerLoss
    PROVE  /\ meta'.exists = meta.exists /\ meta'.entries = meta.entries
           /\ meta'.hash \in {meta.hash, NoHash} /\ meta'.count \in {meta.count, 0}
           /\ pc' = "off" /\ flaws' = flaws \cup CutFlaws
<1>1. PICK lost \in SUBSET unflushed :
         meta' = [meta EXCEPT !.hash = IF "hash" \in lost THEN NoHash ELSE @,
                              !.count = IF "count" \in lost THEN 0 ELSE @]
  BY DEF PowerLoss
<1>2. meta \in MetaFiles
  BY ModTypes
<1>3. QED
  BY <1>1, <1>2 DEF MetaFiles, PowerLoss, LoseProcess

\* What the four writes do to patch.meta.
LEMMA MetaWritesDo ==
    ASSUME Inv
    PROVE  /\ MetaWriteHash =>
                 /\ meta'.hash = Hash(romfs, version)
                 /\ meta'.count = meta.count /\ meta'.entries = meta.entries
           /\ MetaWriteCount =>
                 /\ meta'.count = Len(table)
                 /\ meta'.hash = meta.hash /\ meta'.entries = meta.entries
           /\ MetaWriteEntry =>
                 /\ meta'.entries = [meta.entries EXCEPT ![next] = table[next]]
                 /\ meta'.hash = meta.hash /\ meta'.count = meta.count
<1>1. meta \in MetaFiles
  BY ModTypes
<1>2. QED
  BY <1>1 DEF MetaWriteHash, MetaWriteCount, MetaWriteEntry, MetaFiles

LEMMA MetaFollowsNext == Inv /\ MetaFollows /\ [Next]_vars => MetaFollows'
<1> SUFFICES ASSUME Inv, MetaFollows, [Next]_vars PROVE MetaFollows'
  OBVIOUS
<1> USE DEF installed, disk, process, bar, budget
<1>r. table \in Seq(Aligned) /\ meta.entries \in Seq(Aligned) /\ meta.count \in Nat
  BY ModTypes
<1>1. CASE meta' = meta /\ pc' \notin {"metaHash", "metaCount", "metaEntries"}
  BY <1>1 DEF MetaFollows
<1>2. CASE WipeMeta \/ MetaDelete
  BY <1>2 DEF WipeMeta, MetaDelete, NoMeta, MetaFollows
<1>3. CASE MetaCreate
  BY <1>3 DEF MetaCreate, EmptyMeta, MetaFollows
<1>4. CASE MetaWriteHash
  <2>1. /\ meta'.hash = Hash(romfs, version) /\ meta'.count = meta.count
        /\ meta'.entries = meta.entries /\ pc' = "metaCount" /\ UNCHANGED <<romfs, version>>
    BY <1>4, MetaWritesDo DEF MetaWriteHash
  <2>2. meta.count = 0
    BY <1>4 DEF MetaWriteHash, MetaFollows, Inv, TypeInv, Placed
  <2>3. QED
    BY <2>1, <2>2 DEF MetaFollows
<1>5. CASE MetaWriteCount
  <2>1. /\ meta'.count = Len(table) /\ meta'.hash = meta.hash
        /\ meta'.entries = meta.entries /\ pc = "metaCount" /\ pc' = "metaEntries"
        /\ next' = 1 /\ UNCHANGED <<romfs, version, table>>
    BY <1>5, MetaWritesDo DEF MetaWriteCount
  <2>2. Len(meta.entries) = Len(table)
    BY <2>1 DEF Inv, TypeInv, Placed
  <2>3. QED
    BY <2>1, <2>2 DEF MetaFollows
<1>6. CASE MetaWriteEntry
  <2>1. /\ meta'.entries = [meta.entries EXCEPT ![next] = table[next]]
        /\ meta'.hash = meta.hash /\ meta'.count = meta.count
        /\ pc = "metaEntries" /\ pc' = "metaEntries" /\ next <= Len(table)
        /\ next' = next + 1 /\ UNCHANGED <<romfs, version, table>>
    BY <1>6, MetaWritesDo DEF MetaWriteEntry
  <2>2. Len(meta.entries) = Len(table) /\ next \in 1..Len(table)
    BY <1>r, <2>1 DEF Inv, TypeInv, Placed
  <2>3. Len(meta'.entries) = Len(meta.entries)
    BY <1>r, <2>1, <2>2
  <2>4. \A i \in 1..(next' - 1) : meta'.entries[i] = table[i]
    BY <1>r, <2>1, <2>2 DEF MetaFollows
  <2>5. QED
    BY <2>1, <2>3, <2>4 DEF MetaFollows
<1>7. CASE PowerLoss
  BY <1>7, PowerLossDoes DEF MetaFollows
<1>8. CASE BarExits \/ UNCHANGED vars
  BY <1>8 DEF BarExits, vars, MetaFollows
<1>9. ASSUME NEW p \in Paths, WipeFile(p) PROVE MetaFollows'
  BY <1>9, <1>1 DEF WipeFile
<1>10. CASE Boot \/ CacheHit \/ CacheMiss \/ LaunchBar \/ SkipBar \/ WipeDone \/ WipeFails
  BY <1>10, <1>1 DEF Boot, CacheHit, CacheMiss, LaunchBar, SkipBar, WipeDone, WipeFails, StartWalk
<1>11. CASE Patch \/ WriteFails \/ WalkFails
  BY <1>11, <1>1 DEF Patch, SkipFile, AbortPatch, PatchFile, AtPatch, DeleteOld, CreateOut, WriteOut,
                     NextFile, WriteFails, WalkFails
<1>12. CASE SortTable \/ MetaClose \/ KillProgressBar
  BY <1>12, <1>1 DEF SortTable, MetaClose, KillProgressBar
<1>13. CASE Quit \/ CloseInBoot \/ IoAborts
  BY <1>13, <1>1 DEF Quit, CloseInBoot, IoAborts, LoseProcess
<1>14. ASSUME NEW r \in Mods, InstallMod(r) PROVE MetaFollows'
  BY <1>14, <1>1 DEF InstallMod
<1>15. ASSUME NEW v \in Versions, UpdateGame(v) PROVE MetaFollows'
  BY <1>15, <1>1 DEF UpdateGame
<1>16. QED
  BY <1>2, <1>3, <1>4, <1>5, <1>6, <1>7, <1>8, <1>9, <1>10, <1>11, <1>12, <1>13, <1>14, <1>15
  DEF Next, BootStep, Environment, Wipe, WriteMeta

\* Entries that have all been written are the table, and complete for every
\* patch set with the hash.
LEMMA WrittenLists ==
    ASSUME Inv, TableInv, CleanTable, pc \in {"metaCount", "metaEntries"}, meta.entries = table,
           NEW r \in Mods, NEW v \in Versions, meta.hash = Hash(r, v)
    PROVE  Complete(meta.entries, r, v)
<1>1. romfs \in Mods /\ version \in Versions
  BY ModTypes
<1>2. Complete(table, romfs, version) /\ meta.hash = Hash(romfs, version)
  BY DEF TableInv, TableFollows, MetaFollows, CleanTable
<1>3. QED
  BY <1>1, <1>2, CompleteForHash

LEMMA SameEntries ==
    ASSUME Inv, TableInv, pc = "metaEntries", next > Len(table)
    PROVE  meta.entries = table
<1>1. table \in Seq(Aligned) /\ meta.entries \in Seq(Aligned) /\ Len(meta.entries) = Len(table)
  BY ModTypes DEF Inv, TypeInv, Placed
<1>2. next - 1 = Len(table)
  BY <1>1 DEF Inv, TypeInv, Placed
<1>3. \A i \in 1..Len(table) : meta.entries[i] = table[i]
  BY <1>2 DEF TableInv, MetaFollows
<1>4. QED
  BY <1>1, <1>3

\* A step that writes nothing to patch.meta, but may lose its hash or count,
\* leaves no more usable than before; when it is the last of writing the file,
\* the file is complete or the cut is on record.
LEMMA MetaListsKept ==
    ASSUME Inv, TableInv, meta'.exists = meta.exists, meta'.entries = meta.entries,
           meta'.hash \in {meta.hash, NoHash}, meta'.count \in {meta.count, 0},
           CleanTable' => CleanTable /\ ~MetaIsTorn
    PROVE  MetaLists'
<1> SUFFICES ASSUME MetaUsable', NEW r \in Mods, NEW v \in Versions, meta'.hash = Hash(r, v)
             PROVE  Complete(meta.entries, r, v)
  BY DEF MetaLists
<1>1. /\ table \in Seq(Aligned) /\ meta.entries \in Seq(Aligned)
      /\ meta.count \in {0, Len(meta.entries)}
  BY ModTypes DEF TableInv, MetaFollows
<1>2. /\ meta'.exists /\ meta'.count = Len(meta.entries) /\ meta'.hash # NoHash
      /\ CleanTable'
  BY DEF MetaUsable, MetaAccepted
<1>3. /\ meta.exists /\ meta.count = Len(meta.entries)
      /\ meta.hash = meta'.hash /\ meta.hash # NoHash
  BY <1>1, <1>2
<1>4. CASE pc \notin {"metaHash", "metaCount", "metaEntries"}
  BY <1>2, <1>3, <1>4 DEF TableInv, MetaLists, MetaUsable, MetaAccepted
<1>5. CASE pc = "metaHash"
  BY <1>3, <1>5 DEF TableInv, MetaFollows
<1>6. CASE pc = "metaCount"
  <2>1. Len(meta.entries) = 0 /\ Len(table) = 0
    BY <1>3, <1>6 DEF TableInv, MetaFollows, Inv, TypeInv, Placed
  <2>2. meta.entries = table
    BY <1>1, <2>1
  <2>3. QED
    BY <1>2, <1>3, <1>6, <2>2, WrittenLists
<1>7. CASE pc = "metaEntries"
  <2>1. next \in Nat /\ Len(table) \in Nat /\ ~(next <= Len(table))
    BY <1>1, <1>2, <1>7 DEF MetaIsTorn, Inv, TypeInv, TypeOK
  <2>2. meta.entries = table
    BY <2>1, <1>7, SameEntries
  <2>3. QED
    BY <1>2, <1>3, <1>7, <2>2, WrittenLists
<1>8. QED
  BY <1>4, <1>5, <1>6, <1>7

LEMMA MetaListsNext == Inv /\ TableInv /\ [Next]_vars => MetaLists'
<1> SUFFICES ASSUME Inv, TableInv, [Next]_vars PROVE MetaLists'
  OBVIOUS
<1> USE DEF installed, disk, process, bar, budget
<1>1. CASE /\ meta' = meta
           /\ CleanTable' => CleanTable /\ ~MetaIsTorn
  BY <1>1, MetaListsKept
<1>2. CASE pc' \in {"metaHash", "metaCount", "metaEntries"}
  BY <1>2 DEF MetaLists, MetaUsable
<1>3. CASE ~meta'.exists
  BY <1>3 DEF MetaLists, MetaUsable, MetaAccepted
<1>4. CASE Boot \/ CacheHit \/ CacheMiss \/ LaunchBar \/ SkipBar
  BY <1>4, <1>1 DEF Boot, CacheHit, CacheMiss, LaunchBar, SkipBar, MetaIsTorn, CleanTable
<1>5. ASSUME NEW p \in Paths, WipeFile(p) PROVE MetaLists'
  BY <1>5, <1>1 DEF WipeFile, MetaIsTorn, CleanTable
<1>6. CASE WipeMeta \/ MetaDelete
  BY <1>6, <1>3 DEF WipeMeta, MetaDelete, NoMeta
<1>7. CASE WipeDone
  BY <1>7, <1>3 DEF WipeDone, Wiped
<1>8. CASE WipeFails \/ WriteFails \/ WalkFails
  BY <1>8, <1>1 DEF WipeFails, WriteFails, WalkFails, StartWalk, NextFile, MetaIsTorn, CleanTable
<1>9. CASE Patch
  BY <1>9, <1>1 DEF Patch, SkipFile, AbortPatch, PatchFile, AtPatch, DeleteOld, CreateOut, WriteOut,
                    NextFile, MetaIsTorn, CleanTable
<1>10. CASE SortTable \/ KillProgressBar
  BY <1>10, <1>1 DEF SortTable, KillProgressBar, MetaIsTorn, CleanTable
<1>11. CASE MetaCreate \/ MetaWriteHash \/ MetaWriteCount \/ MetaWriteEntry
  BY <1>11, <1>2 DEF MetaCreate, MetaWriteHash, MetaWriteCount, MetaWriteEntry
<1>12. CASE MetaClose
  <2>1. ~MetaIsTorn
    BY <1>12, ModTypes DEF MetaClose, MetaIsTorn, Inv, TypeInv, TypeOK
  <2>2. QED
    BY <1>12, <2>1, <1>1 DEF MetaClose, CleanTable
<1>13. CASE IoAborts \/ CloseInBoot
  BY <1>13, <1>1 DEF IoAborts, CloseInBoot, CutFlaws, CleanTable
<1>14. CASE Quit
  BY <1>14, <1>1 DEF Quit, LoseProcess, MetaIsTorn, CleanTable
<1>15. CASE PowerLoss
  <2>1. CleanTable' => CleanTable /\ ~MetaIsTorn
    BY <1>15, PowerLossDoes DEF CutFlaws, CleanTable
  <2>2. QED
    BY <1>15, <2>1, PowerLossDoes, MetaListsKept
<1>16. CASE BarExits \/ UNCHANGED vars
  <2>1. UNCHANGED <<meta, flaws, pc>>
    BY <1>16 DEF BarExits, vars
  <2>2. QED
    BY <2>1 DEF TableInv, MetaLists, MetaUsable, MetaAccepted, CleanTable
<1>17. ASSUME NEW r \in Mods, InstallMod(r) PROVE MetaLists'
  BY <1>17, <1>1 DEF InstallMod, MetaIsTorn, CleanTable
<1>18. ASSUME NEW v \in Versions, UpdateGame(v) PROVE MetaLists'
  BY <1>18, <1>1 DEF UpdateGame, MetaIsTorn, CleanTable
<1>19. QED
  BY <1>4, <1>5, <1>6, <1>7, <1>8, <1>9, <1>10, <1>11, <1>12, <1>13, <1>14, <1>15, <1>16, <1>17,
     <1>18
  DEF Next, BootStep, Environment, Wipe, WriteMeta

LEMMA TableAlways == Spec => [](Inv /\ TableInv)
<1>1. Inv /\ TableInv /\ [Next]_vars => Inv' /\ TableInv'
  BY TypeNext, CacheNext, TableNext, MetaFollowsNext, MetaListsNext DEF Inv, TableInv
<1>2. Init => Inv /\ TableInv
  BY TypeInit, CacheInit, TableInit DEF Inv
<1>3. QED
  BY <1>1, <1>2, PTL DEF Spec

-----------------------------------------------------------------------------
\* What getPatchedSarcAligment gives.

\* A complete table answers for every path.
LEMMA CompleteShown ==
    ASSUME Inv, Complete(table, romfs, version), NEW o \in Paths
    PROVE  ShowsAlignment(romfs, version, o, getPatchedSarcAligment(o))
<1> DEFINE h == NameHash(o)
           index == BinarySearch(table, h)
<1>1. romfs \in Mods /\ version \in Versions /\ table \in Seq(Aligned) /\ h \in Nat
  BY ModTypes, NameHashAssumption
<1>2. \/ index = NoIndex /\ \A j \in DOMAIN table : table[j].name # h
      \/ index \in DOMAIN table /\ table[index].name = h
  BY <1>1, BinarySearchFinds DEF Complete
<1>3. getPatchedSarcAligment(o) = IF index = NoIndex THEN -1 ELSE table[index].align
  BY DEF getPatchedSarcAligment
<1>4. NoIndex \notin DOMAIN table
  BY <1>1 DEF NoIndex
<1>5. \A p \in Yaz0s(romfs, version, Len(romfs)) :
         /\ Out(p) \in Paths
         /\ EntryOf(version, p).name = NameHash(Out(p))
         /\ EntryOf(version, p).align = Base[version][p].align
  BY <1>1, Yaz0Type, OutType DEF EntryOf
<1> HIDE DEF h, index
<1>6. CASE index = NoIndex
  <2>1. \A j \in DOMAIN table : table[j].name # h
    BY <1>2, <1>4, <1>6
  <2>2. \A p \in Yaz0s(romfs, version, Len(romfs)) : Out(p) # o
    BY <1>5, <2>1 DEF Complete, Lists, h
  <2>3. Containers(romfs, version, o) = {}
    BY <1>1, <2>2, ContainersAre
  <2>4. QED
    BY <1>3, <1>6, <2>3 DEF ShowsAlignment
<1>7. CASE index # NoIndex
  <2>1. index \in DOMAIN table /\ table[index].name = h
    BY <1>2, <1>7
  <2>2. PICK p \in Yaz0s(romfs, version, Len(romfs)) : table[index] = EntryOf(version, p)
    BY <2>1 DEF Complete, Lists
  <2>3. Out(p) = o
    BY <1>5, <2>1, <2>2, NameHashAssumption DEF h
  <2>4. \E i \in Containers(romfs, version, o) : romfs[i].path = p
    BY <1>1, <2>3, ContainersAre
  <2>5. getPatchedSarcAligment(o) = Base[version][p].align
    BY <1>3, <1>5, <1>7, <2>2
  <2>6. QED
    BY <2>4, <2>5 DEF ShowsAlignment
<1>8. QED
  BY <1>6, <1>7

LEMMA AlignmentsShown == Inv /\ TableInv => AlignmentsServed
<1> SUFFICES ASSUME Inv, TableInv, pc = "running", CleanTable, NEW p \in Paths
             PROVE  ShowsAlignment(romfs, version, p, getPatchedSarcAligment(p))
  BY DEF AlignmentsServed
<1>1. Complete(table, romfs, version)
  BY DEF TableInv, TableFollows
<1>2. QED
  BY <1>1, CompleteShown

\* A running game is given, by binary search in a table built in this boot or
\* read back from patch.meta, the alignment of the container every patched
\* archive was made from, whatever was installed, cut short or lost before,
\* unless a crash cut the writing of the entries themselves or a failing walk
\* passed patches over (CleanTable).
THEOREM AlignmentsCorrect == Spec => []AlignmentsServed
BY TableAlways, AlignmentsShown, PTL

-----------------------------------------------------------------------------
\* The patcher implements its promise (PatchedRomFS), step by step.

Doubts == (IF CleanFiles THEN {} ELSE {"files"}) \cup
          (IF CleanTable THEN {} ELSE {"alignments"})

Seen == [running |-> TRUE,
         files |-> [p \in Paths |-> OpenFile(p)],
         archives |-> [n \in Names |-> LoadArchive(n)],
         alignments |-> [p \in Paths |-> getPatchedSarcAligment(p)]]

Given == IF pc # "running" THEN [running |-> FALSE] ELSE Seen

\* The promise reads the file system as FSHacks does.
LEMMA SameFileSystem ==
    ASSUME NEW r, NEW v, NEW p, NEW d
    PROVE  /\ Promise!Shows(r, v, p, d) <=> Shows(r, v, p, d)
           /\ Promise!ShowsArchive(r, v, p, d) <=> ShowsArchive(r, v, p, d)
           /\ Promise!ShowsAlignment(r, v, p, d) <=> ShowsAlignment(r, v, p, d)
           /\ Promise!Paths = Paths
BY DEF Promise!Shows, Promise!ShowsArchive, Promise!ShowsAlignment, Promise!Paths, Promise!Exts,
       Promise!Leaves, Promise!Hits, Promise!Out, Promise!Matches, Promise!Contents,
       Promise!Containers,
       Shows, ShowsArchive, ShowsAlignment, Paths, Exts, Leaves, Hits, Out, Matches, Contents,
       Containers

\* A running game is given a view its mod and version allow.
LEMMA SeenIsFaithful ==
    Inv /\ TableInv /\ pc = "running" => Promise!Faithful(Seen, romfs, version, Doubts)
<1> SUFFICES ASSUME Inv, TableInv, pc = "running"
             PROVE  Promise!Faithful(Seen, romfs, version, Doubts)
  OBVIOUS
<1>1. Seen.running
  BY DEF Seen
<1>2. ASSUME "files" \notin Doubts
      PROVE  /\ \A p \in Paths : Shows(romfs, version, p, Seen.files[p])
             /\ \A n \in Names : ShowsArchive(romfs, version, n, Seen.archives[n])
  <2>1. CleanFiles
    BY <1>2 DEF Doubts
  <2>2. IsOutcome(cache, romfs, version, Len(romfs))
    BY <2>1 DEF Inv, CacheInv, Finished
  <2>3. /\ \A p \in Paths : Seen.files[p] = OpenFile(p)
        /\ \A n \in Names : Seen.archives[n] = LoadArchive(n)
    BY DEF Seen
  <2>4. QED
    BY <2>2, <2>3, OutcomeShown, ArchiveShown
<1>3. ASSUME "alignments" \notin Doubts, NEW p \in Paths
      PROVE  ShowsAlignment(romfs, version, p, Seen.alignments[p])
  <2>1. CleanTable
    BY <1>3 DEF Doubts
  <2>2. Seen.alignments[p] = getPatchedSarcAligment(p)
    BY DEF Seen
  <2>3. QED
    BY <2>1, <2>2, AlignmentsShown DEF AlignmentsServed
<1>4. QED
  BY <1>1, <1>2, <1>3, SameFileSystem DEF Promise!Faithful

\* A step keeps the game off, changes what is installed while it is off,
\* starts it, stops it, or leaves what it sees alone.
LEMMA StepKinds ==
    ASSUME Inv, [Next]_vars
    PROVE  \/ pc # "running" /\ pc' # "running" /\ UNCHANGED installed
           \/ /\ pc # "running" /\ pc' # "running" /\ UNCHANGED flaws
              /\ romfs' \in Mods /\ version' \in Versions
           \/ pc # "running" /\ pc' = "running" /\ UNCHANGED <<romfs, version, flaws>>
           \/ pc = "running" /\ pc' # "running" /\ UNCHANGED <<romfs, version, flaws>>
           \/ UNCHANGED <<pc, romfs, version, flaws, cache, table>>
<1> USE DEF installed, disk, process, bar, budget
<1>1. CASE Boot \/ CacheHit \/ CacheMiss \/ LaunchBar \/ SkipBar
  BY <1>1 DEF Boot, CacheHit, CacheMiss, LaunchBar, SkipBar
<1>2. ASSUME NEW p \in Paths, WipeFile(p)
      PROVE  pc # "running" /\ pc' # "running" /\ UNCHANGED installed
  BY <1>2 DEF WipeFile
<1>3. CASE WipeMeta \/ WipeDone \/ WipeFails \/ WalkFails \/ WriteFails
  BY <1>3 DEF WipeMeta, WipeDone, WipeFails, WalkFails, WriteFails, StartWalk, NextFile
<1>4. CASE Patch
  BY <1>4 DEF Patch, SkipFile, AbortPatch, PatchFile, AtPatch, DeleteOld, CreateOut, WriteOut, NextFile
<1>5. CASE WriteMeta
  BY <1>5 DEF WriteMeta, SortTable, MetaDelete, MetaCreate, MetaWriteHash, MetaWriteCount,
              MetaWriteEntry, MetaClose
<1>6. CASE KillProgressBar \/ BarExits
  BY <1>6 DEF KillProgressBar, BarExits
<1>7. CASE IoAborts \/ CloseInBoot
  BY <1>7 DEF IoAborts, CloseInBoot, LoseProcess
<1>8. CASE Quit \/ PowerLoss
  BY <1>8 DEF Quit, PowerLoss, LoseProcess, CutFlaws, MetaIsTorn
<1>9. ASSUME NEW r \in Mods, InstallMod(r)
      PROVE  /\ pc # "running" /\ pc' # "running" /\ UNCHANGED flaws
             /\ romfs' \in Mods /\ version' \in Versions
  BY <1>9, ModTypes DEF InstallMod
<1>10. ASSUME NEW v \in Versions, UpdateGame(v)
       PROVE  /\ pc # "running" /\ pc' # "running" /\ UNCHANGED flaws
              /\ romfs' \in Mods /\ version' \in Versions
  BY <1>10, ModTypes DEF UpdateGame
<1>11. CASE UNCHANGED vars
  BY <1>11 DEF vars
<1>12. QED
  BY <1>1, <1>2, <1>3, <1>4, <1>5, <1>6, <1>7, <1>8, <1>9, <1>10, <1>11
  DEF Next, BootStep, Environment, Wipe

LEMMA PromiseInit == Init => Promise!Init
BY DEF Init, CleanFiles, CleanTable, Promise!Init, Promise!NotServing

LEMMA PromiseStep ==
    Inv /\ TableInv /\ Inv' /\ TableInv' /\ [Next]_vars => [Promise!Next]_(Promise!vars)
<1> SUFFICES ASSUME Inv, TableInv, Inv', TableInv', [Next]_vars
             PROVE  [Promise!Next]_(Promise!vars)
  OBVIOUS
<1>1. CASE pc # "running" /\ pc' # "running" /\ UNCHANGED installed
  <2>1. Promise!Storage
    BY <1>1 DEF installed, Promise!Storage, Promise!Parts
  <2>2. QED
    BY <2>1 DEF Promise!Next
<1>2. CASE /\ pc # "running" /\ pc' # "running" /\ UNCHANGED flaws
           /\ romfs' \in Mods /\ version' \in Versions
  <2>1. Promise!Install
    BY <1>2 DEF Promise!Install, CleanFiles, CleanTable
  <2>2. QED
    BY <2>1 DEF Promise!Next
<1>3. CASE pc # "running" /\ pc' = "running" /\ UNCHANGED <<romfs, version, flaws>>
  <2>1. Promise!Faithful(Seen, romfs, version, Doubts)'
    <3>1. (Inv /\ TableInv /\ pc = "running" =>
              Promise!Faithful(Seen, romfs, version, Doubts))'
      BY SeenIsFaithful, PTL
    <3>2. QED
      BY <1>3, <3>1
  <2>2. Doubts' = Doubts
    BY <1>3 DEF Doubts, CleanFiles, CleanTable
  <2>3. Promise!Start
    BY <1>3, <2>1, <2>2 DEF Promise!Start, Seen, Doubts, Promise!Faithful
  <2>4. QED
    BY <2>3 DEF Promise!Next
<1>4. CASE pc = "running" /\ pc' # "running" /\ UNCHANGED <<romfs, version, flaws>>
  <2>1. Promise!Stop
    BY <1>4 DEF Promise!Stop, Promise!NotServing, CleanFiles, CleanTable
  <2>2. QED
    BY <2>1 DEF Promise!Next
<1>5. CASE UNCHANGED <<pc, romfs, version, flaws, cache, table>>
  BY <1>5 DEF Promise!vars, CleanFiles, CleanTable, OpenFile, LoadArchive, CacheHas, RomFSHas,
              getPatchedSarcAligment
<1>6. QED
  BY <1>1, <1>2, <1>3, <1>4, <1>5, StepKinds

\* The whole patcher, with its cache, its hash file, its alignment table and
\* every crash and failure of them, only ever does what the player was
\* promised: whenever the game runs it sees the mod and the version that are
\* installed, and a storage failure puts in doubt no more than it touched.
THEOREM PatcherImplements == Spec => ImplementsPromise
<1>1. Inv /\ TableInv /\ [Next]_vars => Inv' /\ TableInv'
  BY TypeNext, CacheNext, TableNext, MetaFollowsNext, MetaListsNext DEF Inv, TableInv
<1>2. QED
  BY <1>1, TableAlways, PromiseInit, PromiseStep, PTL DEF Spec, ImplementsPromise, Promise!Spec
=============================================================================
