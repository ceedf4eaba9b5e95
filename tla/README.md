# Verification of the Wuhu Kingdom patches

The repository is a code mod for Super Mario Odyssey: a module loaded into the
game that patches files of the game's ROM file system at boot, hooks a number
of game functions, and carries two pieces of third-party code it builds on
(`flips` for BPS patches, a part of `libnx` for IPC and waiting). Paths below
are relative to the repository root; where a file-system hook or a library
lives in a git submodule that is not part of the checkout (`sys/`,
`lib/OdysseyHeaders`), it is modelled from how this code uses it and marked
external in `PROJECT.json`.

## 1. Inventory

| Component | State | Operations | Hard behaviours | Properties that make it correct |
|---|---|---|---|---|
| ROM file-system patcher, `src/pe/FSHacks.cpp` | cache directory and `patch.meta` on the SD card; alignment table, loop position in the process; progress-bar processes | `applyRomFSPatches` (hash, read, wipe, patch, write), file and archive hooks, alignment hooks, progress bar start and kill | power loss and closing between any two writes, failing calls whose result is dropped, mods and versions that change between boots, table capacity | the running game sees exactly the installed mod; alignments survive the round trip through `patch.meta`; boots end; the cache is reused |
| Progress display, `FSHacks.cpp:113-125,391-393` | `sProgress`, read by another process | field writes per patch | unsynchronised writes | numbers shown are consistent |
| BPS patches, `src/flips/` | output buffer, read and write cursors | `bps_apply`, `bps_create_linear`, `bps_get_info`, `bps_disassemble`, number coding | bounds at every command, overflow of sizes, early exits, a growing buffer | apply after create gives the target; no cursor leaves its buffer; every buffer has an owner |
| String replacement, `src/sead/prim/seadSafeString.cpp` | buffer, two cursors | `replaceStringImpl_` | in-place growing and shrinking | equals replacing left to right, within the buffer |
| Waiting, `src/libnx/wait.cpp`, `wait.h` | locals of each waiting thread, listener lists threaded through their stacks, pending cancellations | `waitObjects`, signal all listeners, add and remove a listener | signal, timeout and ready event racing; retries; several listeners | no lost wake-up, deadline kept, lists intact |
| IPC, `src/libnx/service.h`, `cmif.h`, `hipc.h`, `service_guard.h` | session handles, domain object ids, reference counts | create, clone, convert to domain, dispatch, close | ownership of handles, message layout | each handle is closed once; what is written is what is parsed |
| `pm` and `lm` clients, `src/libnx/pm.cpp`, `lmget.cpp` | one session each | one dispatch per function | failed dispatch | results only read after success |
| RC car, `src/Npc/RadiconCarPatch.cpp` | nerve, step, model, sensors, clipping | `control`, `exeHackBreak`, `exeHackReset` | order of nerve and control in a frame | a car that fell into water comes back whole |
| Save redirection, `src/main.cpp:82-140` | directories and saves on the SD card, user name | `getUsername`, `saveWriteHook`, `saveReadHook` | failing calls whose result is dropped, power loss inside a write, nicknames that are no file names | a user reads back what his own last save left; a save is lost only by a failing call or a character the hook overlooks |
| Radish, `src/main.cpp:159-244` | nerve, last wall | `radishExeThrow`, `radishExeBound` | a contact that lasts many frames | one bounce per wall |
| Other hooks of `src/main.cpp` | none | world map, globe, water surface, letters, code patches | none | not modelled: nothing is kept |
| Build files, `config/`, `syms/` | none | none | none | not modelled: nothing runs |

How they interact: `main.cpp` mounts the SD card and calls `applyRomFSPatches`
once, before the game opens its files; that calls `bps_apply` per patch,
`replaceString` on paths, `pmshellLaunchProgram` / `pmshellTerminateProgram`
over the IPC layer, and shares `sProgress` with the progress-bar program by
address. From then on the file hooks sit under every file access of the game.
The actors' hooks and the save hooks are independent of the patcher. The
waiting component is vendored and independent too.

The hazards, with the line at which each bites, are in `PROJECT.json`.

## 2. Plan

What was planned, in order of importance, and where it stands:

1. `RomFS`, `PatchedRomFS`, `FSHacks`, `FSHacksProofs`: the patcher (section 3).
2. `WaitObjects`: waiting (section 4).
3. `Bps`, `BpsApply`, `BpsCreate`, `BpsRoundTrip`: patches (section 5).
4. `Hipc`, `Cmif`, `Service`: IPC (section 6).
5. `ReplaceString`: string replacement (section 7).
6. `SaveRedirect`, `RadiconCar`, `Radish`, composed in `GameHooks` (section 8).
7. Proofs about each of them: `FSHacksProofs`, `WaitObjectsProofs`, `BpsProofs`,
   `ServiceProofs` and `RequestProofs`, `ReplaceStringProofs`, `GameHooksProofs`, over
   `RecursionLemmas` (section 9).

Every safety invariant that a run checks has a theorem. Left to the runs is liveness
(section 9). Left to model: a mod that replaces source files besides patching them (the
hash does not cover those, so an alignment in `patch.meta` can be stale), and the
progress display.

There are twelve runs: six pass, six show a disagreement of the code with its own
words. `MC*` modules hold the small instances.

## 3. The ROM file-system patcher

### Modules

* `RomFS` is the data: paths, mods as the sequence of patch files in walk order,
  which patches match a version (`Matches`), where they write (`Out`) and what
  the first `k` of them leave at a path (`Leaves`), plus what a game should then
  see (`Shows`, `ShowsArchive`, `ShowsAlignment`).
* `PatchedRomFS` is the promise: the player installs, starts and stops; a
  started game has a view faithful to what is installed.
* `FSHacks` is the code. Its actions and the code:

| Actions | Code |
|---|---|
| `Boot`, `CacheHit`, `CacheMiss` | `applyRomFSPatches` to the comparison, `calcPatchesHash`, `readPatchesHash` |
| `LaunchBar`, `SkipBar` | `initProgressBar`, then `sFileAlignmentTable.clear()` |
| `WipeFile`, `WipeMeta`, `WipeDone`, `WipeFails` | `DeleteDirectoryRecursively`, file by file in any order; its result is ignored |
| `SkipFile`, `PatchFile`, `AbortPatch` | `iterateBpsPatches`, `patchDirRecursive`, `patchFile` and its asserts |
| `DeleteOld`, `CreateOut`, `WriteOut`, `WriteFails` | `writeFileToPath`; its result is dropped by `patchFile` |
| `SortTable`, `MetaDelete` ... `MetaClose` | `writePatchesHash`, one action per file operation |
| `KillProgressBar` | `killProgressBar` |
| `IoAborts` | every `HK_ABORT_UNLESS_R` on the way |
| `CloseInBoot`, `PowerLoss`, `Quit`, `BarExits`, `InstallMod`, `UpdateGame` | the console and the player |

  `OpenFile`, `LoadArchive` and `getPatchedSarcAligment` are the hooks, as
  functions of the state.

The abstraction: contents are values, a file is absent, torn (created and not
written) or has contents; a Yaz0 file is known by its extension; a patch applies
exactly to the contents it was made from (its source CRC32). The 32-bit hash is a
constant operator assumed to tell patch sets with different outcomes apart
(`HashAssumption`), and path hashes are assumed not to collide
(`NameHashAssumption`). `patch.meta` keeps its fields: `CreateFile` reserves the
entries as zeros, hash and count are written without a flush (a power loss may
lose either), each entry is written with one.

A walk over a directory may fail and end early (`WalkFails`): `patchDirRecursive` drops
the results of its calls. Left out: the same failures in the walk of `calcPatchesHash`,
entries that a short `ReadDirectory` leaves unwritten, and a `killProgressBar` that fails
while the bar lives and the game goes on. That a full table aborts is taken from how the
code uses `FixedVec`, which is in a submodule.

`flaws` is a history variable: it says what a failure did to the cache. `writeFailed`,
`walkFailed` and `wipeFailed` (dropped results), `wipeCut` (power lost in a wipe while
the old `patch.meta` is still there) and `metaCut` (the boot ended between entries). A
finished wipe clears it, as nothing the new boot relies on survives. `ServesCurrentMod`
and `CacheInv` speak of a cache without the first four (`CleanFiles`),
`AlignmentsServed` of one without `metaCut` and `walkFailed`: a boot cut anywhere else, however often,
does no harm. In each of the flaws the code does serve wrong files. Two have a run that
shows it, `cut_wipe` and `torn_meta`. The three dropped failures have none: taken out of
`CleanFiles`, each gives a counterexample to `ServesCurrentMod` (a file that could not be
written is missing or half written for good, a directory that could not be read leaves
its files unpatched, a wipe that failed leaves files of the old mod), but no line of the
repository says that it should be otherwise.

### Runs

| Run | What it shows |
|---|---|
| `patcher` | `TypeOK`, `CacheInv`, `ServesCurrentMod`, `ServesNoOtherMod` (power losses alone, in a wipe too, leave the game each file of the installed mod or its own, never another mod's or half a file), `AlignmentsServed`, `BootLeavesNoBar`; that `FSHacks` implements `PatchedRomFS` (`ImplementsPromise`); `BootSettles`, and `EventuallyCached`: boots patch for ever only if a patch set cannot be applied or the table is too small, and otherwise the cache is reused |
| `torn_meta` | expected violation: a `patch.meta` cut among its entries has the right size and is accepted |
| `cut_wipe` | expected violation: after a wipe cut by the end of power, with the old `patch.meta` still there and its mod installed again, the game gets files that are not the mod's |

Bounds. Two names and two versions with four mods: none; one patch per version
of an archive plus a plain file; two archives whose table order differs from
their hash order, one of them patched twice in v1, not applicable in v2; one more
compressed source than the table of three takes. That is enough for every branch
of `patchFile`, for a last-patch-wins conflict, for stale files of one mod under
another, and for a sort that does something. Two power losses or closings, one
failing call and two changes of mod or version let a boot be cut, the mod be
changed, that boot be cut too and the mod be changed back, which is the longest
scenario the hash file distinguishes (old, new, old again). `Archives` and
`Overfull` are what make a boot abort.

Fairness. `WF_vars(BootStep)`: the boot is one thread that nothing blocks, so it
goes on as long as the process lives. Nothing is assumed of the player, of the
storage or of the console; the failures are finite because their bounds are.

### Proofs (`FSHacksProofs`)

For every set of mods, versions and files that meets the three assumptions of
`RomFS`, and for every capacity and bound:

* `TypeCorrect`: `Spec => []TypeOK`, by `TypeInv` (`TypeOK` and `Placed`, which
  says what the table, `buffer` and a half-written `patch.meta` hold at each
  place of the boot).
* `HashFileVouches`: `Spec => []MetaVouches`, and `ServesCorrect`:
  `Spec => []ServesCurrentMod`. Neither is inductive. `CacheInv` adds that a
  clean boot patches with no `patch.meta` on the card, that its loop at `next`
  leaves `Leaves(romfs, version, next - 1, ...)` in the cache with at most the
  current target in the making (`Walked`), and that from the sort on the cache is
  the complete outcome (`Finished`). The step that writes the hash then
  establishes `MetaVouches` through `HashAssumption`, and a later hit, for
  whatever mod is then installed, uses it. `LeavesSkip` and `LeavesPatch` are the
  two cases of the loop body.
* `CacheCorrect`: `Spec => []CacheInv` itself, and `NoOtherModServed`:
  `Spec => []ServesNoOtherMod`.
* `NoBarLeft`: `Spec => []BootLeavesNoBar`, by `BarInv`.
* `AlignmentsCorrect`: `Spec => []AlignmentsServed`, by `TableInv`: while patches are
  applied the table lists the compressed sources met so far, from the sort on it is
  the `Complete` table of what is installed (`TableFollows`); a half-written
  `patch.meta` repeats it up to `next` (`MetaFollows`); and a hash file that a boot
  would accept holds the complete table of every patch set with that hash, unless its
  entries were cut (`MetaLists`). A complete table is sorted, without duplicates and
  has the alignments of the containers, and in such a table the binary search ends at
  the entry it looks for: each turn keeps it between `lo` and `hi` and halves the
  distance. `BinarySearch` is a recursive function of the pair of its bounds, which
  `RecursionDefines` shows to exist.
* `PatcherImplements`: `Spec => ImplementsPromise`. The view of a started game is a
  function of the state (what `OpenFile`, `LoadArchive` and `getPatchedSarcAligment`
  give); a step that begins to run the game is the promise's start, which needs
  `ServesCurrentMod` and `AlignmentsServed`, a step that leaves it, installs or updates
  is the promise's own, and every other step leaves its variables alone (`StepKinds`).

Only model-checked: `BootSettles` and `EventuallyCached`, which are liveness.

## 4. Waiting

`WaitObjects` models `_waitObjectsImpl` and `_waitLoop` for each thread, the
listener lists of `wait.h` pointer by pointer (`nxt`, `prv`), and
`_waitableSignalAllListeners` with the compare-exchange (`Notify`) and the
cancellation (`Cancel`) as two steps under the object's mutex. The kernel calls
and the three methods of a waitable are external: `beginWait` tests and links
under the mutex, `onSignal` takes a self-clearing signal or asks for a retry,
`onTimeout` succeeds or asks for a retry. A ready event, a timeout and a pending
cancellation may end the system call in any order the kernel allows. Time is a
choice: a deadline may pass at any step, and a round begun after it polls.
The 64-object limit and the width of the tick counter are not modelled.

| Run | What it shows |
|---|---|
| `wait` | two threads on one waitable with a timer and one event, in opposite orders, one thread with a timeout, a compare-exchange that may fail without reason: `NoLostWakeUp`, `ListsIntact`, `OneTakerPerFiring`, `DeadlineKept`, `SignalWakes` |
| `wait_lists` | expected violation of `EveryListIntact`: two listeners on one waitable, the older leaving first |

Two history variables, which no action reads, say what two flaws of the code have touched.
A waitable is `disordered` when a listener other than the first of its list was removed:
`_waiterNodeAdd` does not link the old first node back to the new one, so that such a
removal drops the nodes before it and may leave a node of a dead stack frame in the list;
a signaller may then go round in it for ever with the mutex held. A node is `missed` when
the weak compare-exchange (`wait.h:45`), which stands outside a loop, failed at it though
no other waitable had won: its thread sleeps on. `EveryListIntact` makes no exception and
is violated; `ListsIntact`, `NoLostWakeUp`, `SignalWakes` and `DeadlineKept` say what is
true for any number of listeners and of such failures: a list whose listeners leave in
the opposite order to that in which they came is intact, everyone in it is told but who
was missed, and a deadline is kept. A cancellation that comes after its wait has ended for
another reason ends the next wait of that thread (the comment at `wait.cpp:96` says this
happens only to who calls `svcCancelSynchronization` himself); the thread goes round again,
and the properties hold with it.

Each object fires once; the threads call again without end, so that what a finished call
leaves behind meets the next one. Fairness: a thread inside a call, a timeout that is due
and a signaller that holds the mutex go on (weakly); nobody is obliged to call, to signal
or to fire.

### Proofs (`WaitObjectsProofs`)

For any numbers of threads, objects, waitables, timers and firings:

* `TypeCorrect`: `Spec => []TypeOK`, by `TypeInv`: indices stay in the thread's array,
  listeners and the node a walk stands on point into it, and a signaller about to
  cancel somebody stands on a node (`SenderOnNode`, `Homes`).
* `OneTaker`: `Spec => []OneTakerPerFiring`, by `Ledger`: each object was taken at most
  as often as it fired, and less often while it is signalled.
* `ListsStayIntact` and `WakeUpsArrive`: `ListsIntact` and `NoLostWakeUp`, of every
  program, with any number of listeners to a waitable and compare-exchanges that fail for
  a reason or without one. Neither is inductive. `Order` says that a list that is not
  disordered is a stack (`Stacked`: the head leads to the newest listener, each to the one
  before it, the oldest back to the head; of the back links only that of the newest is
  right, which is enough as long as the newest is the next to go), and that a walk which
  stands somewhere in it has told everyone above (`Walked`). Who comes is put on top, and
  only while nobody walks; who goes leaves the rest a stack (`ListenKeeps`,
  `CleanUpKeeps`, `WalkKeeps`; `ThreadKeeps` covers the steps that touch no list). What
  the links of a stack reach is the stack (`ChainIsStack`), which gives the first theorem.
  For the second, `ToldIsSent` adds that a waiting thread that was told is cancelled or
  about to be: a signaller leaves a node only when it has cancelled the thread it told, and
  only the thread's own return from the kernel takes a cancellation back.

Only model-checked: `DeadlineKept` and `SignalWakes`, which are about fairness and time.

## 5. BPS patches

### Modules

* `Bps` is the format: `writenum` and `decodenum` with its overflow tests, the
  header, and the two readers that change nothing, `bps_get_info` and
  `bps_disassemble`, as functions of a patch.
* `BpsApply` is `bps_apply`: its tests in their order, one action per command
  kind, one for each error exit, the clean-up at `exit:`.
* `BpsCreate` is `bps_create_linear`: a turn of its loop is `MatchSource`, then
  `NothingChanged` or `WriteLiteral`, then `NoRun` or `CopyRun`. `WriteOrFail` is
  the macro `write` over all the bytes of a command: the buffer doubles as often
  as they need, and growing may fail.
* `BpsRoundTrip` is a caller that creates a patch, applies it (or one from
  elsewhere) and frees what it got.

| Actions | Code (`libbps.cpp`) |
|---|---|
| `bps_apply`, `BadPatch`, `BadSize`, `WrongInput`, `OpenOutput` | 94-162 |
| `BadMetadata`, `ReadMetadata`, `MetadataAstray` | 164-176 |
| `DoSourceRead`, `DoTargetRead`, `DoSourceCopy`, `DoTargetCopy`, `SourceCopyAstray`, `BadCommand` | 178-230 |
| `NumberAstray` | 62-77, from 138, 141, 165, 180, 203 and 217 |
| `Incomplete`, `WrongOutput`, `Return`, `Cleanup` | 231-258 |
| `bps_create_linear`, `NoMemory`, `AllocateBuffer`, `WriteHeader` | 297-331 |
| `MatchSource`, `NothingChanged`, `WriteLiteral`, `NoRun`, `CopyRun`, `Seal` | 332-416 |
| `FreeOutput`, `FreePatch` | `bps_free` |

The abstraction: a patch is a record of its body and three checksums; bytes have
`DigitBits` bits and a stop bit, `size_t` has `Width` bits, so that both overflow
tests of `decodenum` and a number of several digits occur in short patches. `Crc`
is any operator; the instance uses a weak one with three values, so that different
files often have the same checksum and a wrong input can pass the test. The two
files end at their lengths; what the encoder reads before and behind them is the
constant `Beyond`. `mallocImpl`'s result is not tested by `bps_apply` and the model
lets it succeed. What a new buffer holds is `Junk`: `bps_get_info` walks over it when
its third read fails, whose result it drops.

Pointers are offsets, and wrap where the code's tests let them: the input lies at
`InAddress` of the `SizeMax + 1` addresses, the body of the patch at `PatchAddress`.
A copy from the input moves its pointer by any distance (`Wrapped`), then the two
tests of line 210 are taken as they are written (`SourceCopyPasses`); the copy is
executed if it really is in the input (`SourceCopyFits`), and otherwise the call goes
`astray`: it reads outside its buffers, and the model says nothing of what it does
then, except that the program may begin anew. The metadata is taken out of the patch
without a test: if it is longer, `patchat` leaves the patch, and the call ends with
bps_broken after the loop, or goes astray if it has to copy what lies behind the patch
or the pointer wraps (`MetadataAstray`). A number that is cut off by the end of the
patch reads the checksums and on: it is one of the errors that can give
(`SizeErrors`, `NumberErrors`), or the call goes astray (`NumberAstray`).

### Runs

| Run | What it shows |
|---|---|
| `bps` | `PatchConverts`, `WrongInputRejected`, `CursorsInBounds`, `BuffersHandedOver`, `PatchHandedOver`, `IdenticalAgrees`, `InfoAgrees`, `DisassemblyAgrees`, `CallsEnd` |
| `bps_overread` | expected violation of `RoundTrip`: zeros around the files, and a patch whose last run has length 0 |
| `bps_identical` | expected violation of `IdenticalVerdict`: two empty files are not said to be identical, and a target with which the source begins is |
| `bps_astray` | expected violation of `MalformedRejected`: a copy from the input whose pointer wraps passes both tests and reads outside the input |

Bounds. All sources of up to three and targets of up to four bytes of two values;
in addition targets of six to fifteen bytes with runs of one and of two bytes at
the beginning, after a change and at the end, against sources that are empty,
shorter, as long and longer, and pairs with metadata. The buffer begins with eight
bytes, so it grows several times. Bodies from elsewhere: every three bytes out of
five after some headers, and every two after others, of which some are too big, cut
off or wrong, and some have metadata longer than the patch. The input lies 16 bytes
behind address 0 and the patch's body 8, of 128 addresses, so that distances and lengths
(up to 63 and 32) wrap. In `bps` `Beyond` differs from every byte and from every other
place, which is what the encoder would find without its reads outside the files;
`bps_overread` has zeros there. With ones there the loop of the encoder need not end:
for the source 0 0 and the target 1 0 1 it comes to a byte that is equal, alone and not
the last, and as the two bytes behind agree too, being read behind the source, nothing has
changed either (lines 336 and 346), so that it turns without moving. `CallsEnd` is checked
where that cannot be.

`PatchConverts` is `RoundTrip` for files beside which no byte continues a run of the
target (`RunsEndInside`); without that it fails (`bps_overread`). `IdenticalVerdict`
is the header's sentence; `IdenticalAgrees` what is left of it: two equal files that
are not empty are found to be identical, and what is called identical agrees in every
byte of the target. `CursorsInBounds` says of each call that has not gone astray that
its cursors are in their buffers; that a call never does, which is `MalformedRejected`,
is wrong. `InfoAgrees` leaves out whether `bps_get_info` gives a change
fraction: it decodes the size of the metadata a second time (line 475) and so
loses its place. Fairness: a call goes on.

### Proofs (`BpsProofs`)

For every patch, pair of files, input, checksum function and width of bytes and sizes.
Assumed are numbers of at least two bits below the stop bit, fewer than a size has
(`DigitBitsAssumption`, `WidthAssumption`), files of bytes that fit the memory
(`Memory`: a `struct mem` ends before the last address), an input at one of the
addresses (`AddressAssumption`), patches of the shape of one (`ForeignAssumption`), and
a first buffer that holds the magic (`FirstBufferAssumption`). What lies around the files
is any `Beyond`, even no byte.

* The number coding: `decodenum` gives a number and a later place for every sequence of
  bytes, and no place behind their end unless it was cut off (`DecodenumTotal`), and behind what `writenum` wrote it gives that number
  and the place after it, if it fits a `size_t` (`DecodesWritten`): the two overflow
  tests never turn away a number the encoder wrote. Both are recursive functions, over
  digits from the lowest; `ScanReads` is the induction over what is left of the number.
* `BuffersGiven` and `SuccessVerified`: `BuffersHandedOver`, and `SuccessIsVerified`, which
  is proved only (it follows from the tests before the return), by
  `ApplyInv`, which says at each place of the call what was compared and what is
  allocated; neither is inductive, as only the way to "done" tells an accepted wrong
  input from a right one.
* `CursorsStayInBounds`: `CursorsInBounds`, for every patch and every place of the
  input in memory, by `CursorInv`: a command is executed only if it fits, and ends
  inside the body (`CommandEndsInside`); a step that goes astray leaves the cursors.
* `BufferHandedOver`: `PatchHandedOver`, by `BufferInv`: between two writes the buffer
  has room for at least one more byte, and doubling it as often as a command's bytes
  need makes room for them all (`GrowMakesRoom`).
* `PatchesRoundTrip`: `PatchConverts`. What was written is a chart: a set of marks (a place
  in the body, an offset of the target, a cursor), each leading to another by one
  command that reads from the mark before what the target has there (`Leads`,
  `Chart`). Every turn of the creating loop appends a command to the chart
  (`ChartInv`, as long as the runs end inside the target, `PeriodInside`, `RunInside`; its
  hardest part is that the cursor of the next run of two bytes has not overtaken its
  beginning, `TailApart`). The reader then stands on a mark at every
  command (`Reads`), so it meets no error, and leaves the chart at the end of the
  target.
* `WrongInputTurnedAway`: `WrongInputRejected`, by `Rejection` over the same facts.
* `IdenticalIsFound`: `IdenticalAgrees`. For a target with which the source begins the
  whole body is one command (`VerdictInv`); a body is the header alone, or one read
  of what the files share behind it, or has a number that ends before its last byte,
  and then not the form that is looked for (`AloneInv`).
* `TypesCorrect`: `Spec => []TypeOK`.
* `InfoTellsOrigin`: `InfoAgrees`. The header of a created patch is read as it was
  written (`HeaderReads`, `InfoIs`), whatever runs follow it (`BodyInv`), and the walk over its commands, which looks at no
  status, ends at some score (`WalkEnds`), which the cap makes at most the size.
* `ListingAgrees`: `DisassemblyAgrees`, for every patch. `TraceInv` says at each
  command that the listing of the patch is the lines of the commands executed so far
  and behind them what the lister prints from the cursors `bps_apply` now has
  (`Printed`); a command that fits its buffers is the next line (`TraceOn`).

The walk and the listing are recursions over places of the patch that move on at every
command; `LaterDefines` and `LaterFirst` of `RecursionLemmas` say that such a
recursion defines a function, and give the induction from the end.

Only `PatchConverts` says something of what lies beside the files, and says it in its
own formula. `TypesCorrect` takes checksums for numbers (`CrcIsNumber`), which crc32's
are. Only model-checked: `CallsEnd`, which is liveness.

## 6. IPC

`Hipc` lays out messages and parses them (`hipcMakeRequest`, `hipcParseRequest`,
`hipcParseResponse`, with the widths of the header's fields), `Cmif` forms requests
and fills them from the buffers of a command (`cmifMakeRequest`, the writers of
`cmif.h`, and `serviceMakeRequest` with its two passes over the attributes), and
`Service` is the sessions: threads share one guarded service, initialise it, make
it a domain or not, dispatch, clone, close and leave.

| Actions | Code |
|---|---|
| `nameInitialize`, `serviceGuardBeginInit`, `serviceGuardEndInit`, `nameExit`, `serviceGuardExit` | `service_guard.h` |
| `serviceCreate`, `FinishQuery`, `FinishConvert` | `serviceCreate`, `cmifQueryPointerBufferSize`, `serviceConvertToDomain` |
| `serviceDispatch`, `Send`, `FinishDispatch` | `serviceDispatchImpl`, in which the session is read only when the request is sent; `serviceParseResponse` |
| `serviceClone`, `FinishClone` | `serviceClone`, `serviceCloneEx` |
| `CloseSub`, `FinishClose` | `serviceClose`, also as the guard's clean-up function |

External are the kernel (it gives free handles, each of them once), the server (it answers
what it is asked, refuses whatever it likes, and may give no object) and the user
of a service. The user closes what he got before he leaves and takes nothing from
a clone that failed. `ServerSees` is how a server takes the buffers out of a
request, `Response` how it lays out an answer. A pointer is a value, `u32` is
2^30 wide.

Run `ipc`: `OwnedOnce` (every open handle and every live object has exactly one
owner, at every step), `GuardCounts`, `NoDeadTarget`, `RequestFits`,
`RequestUnderstood`, `PointersFit`, `CallsReturn`. Two threads, four handles and
two domain objects: enough for a session, a clone or sub-session, and two handles
out of one command, while the other thread comes or goes. One thread sends every
kind of buffer in every direction, after an auto-select one that fits the pointer
buffer or not, and objects and handles both ways; the other the commands of
`pm.cpp` and `lmget.cpp` that return a handle and fill a buffer. The rest of these two
clients is the same dispatch with other sizes and command numbers.

Fairness: a thread in a call runs, a server answers, and the mutex is fair to its
waiters (strong fairness: it is free again and again).

What the properties exclude, because the code does not guarantee it:
`PointersFit` is for commands with auto-select buffers only, as explicit pointer
buffers are not compared with what is left of the server's buffer and make
`server_pointer_size` wrap. A clone that fails has `own_handle` 1 and session 0.
The 256 bytes of the message buffer are not modelled. A command is what
`SfDispatchParams` can hold (`DispatchParams`, eight of each), except that it asks for
one object at most, a bound of the model (no caller here asks for any).

### Proofs (`ServiceProofs`, `RequestProofs`)

For any finite sets of threads, handles and objects, any commands and pointer sizes:
`GuardCorrect` (`Spec => []GuardCounts`), `GuardExcludes` (one thread at a time
initialises or closes the service), `ServiceOwnsOnce` (`OwnedOnce`),
`ServiceTargetsLive` (`NoDeadTarget`) and `ServiceTypeCorrect` (`TypeOK`).

`GuardCounts` speaks of states with the mutex free; `GuardInv` adds that the mutex is
held exactly in the critical section and, in `Phase`, what its holder owes the count:
one more than there are users until `EndInit`, one less once `Exit` took the last.
`StepKeeps` covers every step that leaves the guard alone, `OwnerKeeps` those of the
holder, `LockStep` those that take or release the mutex.

`OwnedOnce` is not inductive: it says nothing of what an answer on its way will be
taken for. `OwnInv` shares the open handles out between the guarded service and the
threads (`SharedOut`: all of them, none to two; likewise the objects) and says of each
thread what it keeps (`Keeps`: a service of its own has a handle, or an object of the
guarded domain), what its request is for (`Asks`) and what an answer to it holds
(`Hears`). The last is where message layout comes in: `Laid` says that a response has,
below its data, the copied handles and then the moved ones that the command expects,
and behind it the object, at the places where `cmifParseResponse` will look
(`ResponseLaid`), nothing twice, and `DispatchTakes` that `serviceParseResponse`,
which counts the copies and the moves of a command's attributes as it goes, takes each
of them and takes it once (`RanksAre`). Every action then has a lemma of its own. What
moves handles does so through `StepOwns` and `SharedAfter`: what one thread loses or
gains, all of them together lose or gain. `OwnInv` needs `GuardInv`: the last close
finds no user (so nothing of a domain goes with it), and nobody but the one in the guard
changes the service while it is set up. `OwnNext` puts the actions together.

Assumed are finite sets of threads, handles and objects, the last two numbered from 1
(0 is "none" in the code), and commands that `SfDispatchParams` can hold.

`RequestProofs` is about what a request says: `ServicePointersFit` (`PointersFit`),
`ServiceRequestFits` (`RequestFits`) and `ServiceRequestUnderstood`
(`RequestUnderstood`). They speak of requests on their way, so they rest on `SentInv`:
what a thread is about to send is still what its call forms from the service it goes
to, as nobody else changes that service in between (`OwnInv` and `GuardInv` again).
What is left is what a request of one command is, whatever the command:

* `ProcessIs`: `_serviceRequestProcessBuffer` adds one entry to each region that its
  buffer uses (`Uses`) and to no other, and the other side sees the buffer in it; an
  auto-select buffer has two, of which one is empty. `FillsAdds` says it of the n-th
  buffer of a command, and the inductions over buffers start from there.
* `PointersFit`: an auto-select buffer takes of `server_pointer_size` what its
  descriptor says, and only what is left, so the sum stays within what the server
  reported.
* `RequestFits`: as many buffers use a region as `_serviceRequestFormatProcessBuffer`
  counts for it, buffer by buffer, and `hipcCalcRequestLayout` lays each region behind the
  one before. `cmifMakeRequest` rounds its data words up, so that the table of sizes
  has room behind payload and objects.
* `RequestUnderstood`: what `hipcParseRequest` reads from the header is what
  `hipcMakeRequest` wrote, when the fields are wide enough. `ServerSees` goes through
  the regions in the order of the command and takes off each entry it has seen; what
  is left is always what the remaining buffers wrote.

Two assumptions more are needed, and both are how the code is called. The server reports
its pointer buffer in a `u16` (`PointerSizesAssumption`,
`cmifQueryPointerBufferSize`). And a command can be told at all (`TellableAssumption`):
its arguments fit the ten bits of `num_data_words`, its buffers go one of the three ways
there are, and, in a command with a buffer of a fixed pointer kind, no size is cut to
the 16 bits of a static descriptor. Nothing in `service.h` compares those sizes: a fixed
pointer buffer beyond what is left makes `server_pointer_size` wrap, and from then on
auto-select buffers of any size are put into descriptors too small for them. Without
such a buffer no bound on sizes is assumed.

## 7. String replacement

`ReplaceString` is `replaceStringImpl_`, one action per round of each of its loops,
over the memory of the buffer and, on each side, as much as the call's strings are long. `Replaced` is the reference:
the occurrences found from the left, each replaced, knowing nothing of buffers.

Run `replace`: `Replaces` (result, length, count and overflow flag agree with the
reference), `StaysInBuffer` (not a character behind the buffer is written, in the
middle of a call either, and none before it but by a call that grows a string in place and
finds a character of `old_str` there),
`Returns`. All texts of up to five of two characters, with strings
to look for that overlap themselves or not, and strings to insert that are empty,
shorter, as long, longer or contain what is looked for; sizes from one character to
more than enough.

The branch that grows a string in place (lines 97-146) is wrong for most inputs,
and the properties say how far it is right: it returns exactly when nothing but
`old_str` follows the first character (`Returns`; in line 134 neither cursor moves
otherwise), and agrees with the other branch only for an `old_str` that does not
overlap itself (`Borderless`). It also reads before the buffer, and if it finds a
character of `old_str` there (`NothingBefore` is false) it may write there, against the
assertions of lines 144-145: with the text "a", "aa" to be replaced by "baa" and an "a"
before the buffer, "baa" is written from two characters before it on. The
patcher calls `replaceString` only to shrink a path (`FSHacks.cpp:300, 386`), so it
never gets there. Fairness: the call runs.

### Proofs (`ReplaceStringProofs`)

Two theorems, for any text, strings and size of buffer: `AllReplaced` (`Replaces`) and
`NothingElseWritten` (`StaysInBuffer`). Both branches are covered. For growing in place
`AllReplaced` is under `Borderless` and `NothingBefore`, and what is said of the
characters before the buffer under `NothingBefore`; that nothing is written behind it is
unconditional.

* The reference. `Replaced` recurs over the occurrences found from the left. `Occ`,
  `Pieces` and `Flat` are its parts as definitions of their own, whose equations follow
  from `RecursionLemmas` (`FromIs`, `FlatIs`; `ReplacedIs` and `KeptIs` lead back to what
  the properties say). `Visit(t, o, i)` says that this search looks at place i; from such
  a place an occurrence or a character is one round of the loop (`ScanNew`, `ScanChar`),
  every occurrence found is at such a place (`OccVisited`), and up to it the text alone
  decides (`PrefixOcc`, `PrefixFlat`), so the reference can be asked about the text read
  so far.
* From the left, `ScanInv`: at `src_i` the search looks, `dst_i` is the length of what
  comes of the text before, the buffer begins with that, in place the text from `src_i`
  on is still there, and `ret` has counted what the reference counts so far. Alone
  "dst does not pass src" would not do: that what is compared is still the text needs
  the text to be untouched, and that needs `d <= s`, which holds because in place the
  new string is not longer (`Shrinks`). `LeftInv` keeps room for the end, and in both
  loops of growing what is behind the buffer.
* From the right, `BackInv`. `Backing` says that the text up to `src_i` is untouched and
  that the target is ahead of the source by at least the lead (`Lead`) the search from
  the left has at any place up to there; the lead never gets shorter (`LeadGrows`), and
  wherever a search from the right finds `old_str`, the one from the left has found one
  on its way (`FoundOnTheWay`). So the target stays ahead of the source, and in the
  buffer, even where the two searches find different occurrences. `Placed` says that
  behind the target the result is complete; it holds only for a `Borderless`
  `old_str`, for which the two searches find the same (`BorderlessFinds`).

`BackInv` was first checked with TLC on a small instance. The
memory around the buffer, an abstraction, was of fixed width and is as wide now as the
call's strings together (`Reach`): with a fixed width neither theorem holds for longer
strings.

## 8. Hooks of the game

`SaveRedirect`, `RadiconCar` and `Radish` are components of their own; `GameHooks`
runs them together as the game does, with the save hooks between the frames of a
stage.

| Actions | Code |
|---|---|
| `getUsername`, `saveWriteHook`, `DirectoryKnown`, `DirectoryUnknown`, `CreateDirectory`, `CreateFails`, `WriteSave`, `saveReadHook` | `main.cpp:82-140` |
| `control`, `exeHackBreak`, `exeHackReset` | `RadiconCarPatch.cpp` |
| `radishExeThrow`, `radishExeBound` | `main.cpp:159-244` |

External are the account service, the SD card, the game's own reading and writing of
a save, the nerves of the game before and after those modelled, animations and
physics: a frame chooses what an actor touches. The card takes a file in two steps: from
its first byte on the old save is gone, with its last it is whole, and a failing write or
the end of power in between leaves it torn. What the card forbids in a name
(`CardForbids`) is a constant of its own, apart from the hook's list (`Disallowed`). Left
out: that `strncpy` leaves a name of 0x20 characters without a terminator, what a
`FixedString` does with a path that is too long for it (it lives in a submodule), and the
velocity of a radish, which `reboundVelocityFromCollision` (`main.cpp:239`) turns at a
wall before the wall is compared with the remembered one: what bounces once per wall is
the nerve. `tryCancelHack` may fail, and then the car comes back with the player still
in it.

Run `game`: `ReadsOwnSave`, `SaveReachesCard`, `CarComesBack`, `WallOnce`. Three
users: one, with two saves, whose nickname is too long and full of characters no file
may have, one with a harmless nickname, and one with a character that the card forbids
and the list lacks, whose saves are all lost. Two failures or power losses: a save can
fail, be cut, be done again under the user's name or "default", and be read after the
other users'. Two walls let a radish bounce to and fro. `ReadsOwnSave` is for users whose
directory is theirs alone: nicknames that differ only in disallowed characters or after
the cut share one, and so do all users whose name the account service does not give. It
promises no whole save after a cut: the code keeps no copy of the old one.

Fairness: the frames of a loaded stage go on (`WF`), and the animation of a car that
breaks ends (`SF`, as that frame comes again and again).

### Proofs (`GameHooksProofs`)

For any users, nicknames, walls and bounds: `OwnSaveRead` (`ReadsOwnSave`), `SaveKept`
(`SaveReachesCard`), `WallsOnce` (`WallOnce`). `ReadInv` adds that a directory with
one owner always holds what the owner's last save left (`OwnersFiles`) and that a hook runs
under its user's name or "default". `CardInv` adds which parents exist at each
`CreateDirectory` of a hook in which nothing failed (`PathMade`). `BounceInv` ties
`mCollidedWallSensor` to the last bounce. Assumed is that the card takes "_" and
"default" (`NamesAssumption`), not that the hook's list is all it forbids.

## 9. Proved, checked, neither

Proved for every value of the constants: what the "Proofs" of sections 3 to 8 list.
What a theorem supposes beyond the `ASSUME`s of the modules stands in its statement or in
the property it is about, and the sections above say what the code does without it.

The codings and searches of the code are recursive functions (`f[x \in D] == ...`),
which TLA+ defines by `CHOOSE`: nothing follows from such a definition before a
function that satisfies it is known to exist. The library's theorems on induction and
recursion take a predicate as a parameter, which the installed provers cannot be
given, so `RecursionLemmas` states them with sets and functions: a set that contains 0
and successors contains every number (`NaturalsIn`, from the least member of its
complement), and a rule that looks only at arguments of lower measure has a function
that follows it everywhere (`RecursionDefines`). A recursion of several arguments
takes them as one tuple or record, to be within reach of these lemmas, and powers of two
are the function `Pow2`.

Only model-checked, on the instances above:

* liveness: `BootSettles`, `EventuallyCached`, `SignalWakes`, `CallsEnd`, `CallsReturn`,
  `Returns`, `CarComesBack`, and with them `DeadlineKept`.
  `Returns` also says what the text was like if a call that grew a string in place
  returned; that half is safety, and is model-checked with the other.

Not modelled:

* the progress display: `sProgress` is read by a program outside the repository, and
  nothing the mod does depends on it;
* `bps_create_delta` (declared in `libbps.h`, defined nowhere here), `bps_compare` and
  `main` of `libbps.cpp` (debug code that is not compiled), the computation of
  CRC32;
* `cmifCopyFromCurrentDomain`, `serviceConvertToDomain` of a service without a session
  of its own, `target_session`: nothing calls them. The guard macros have no user in
  the repository either; they are modelled as their text says;
* the hooks of `main.cpp` that keep no state (world map, globe, water surface,
  letters) and the patches of single instructions;
* build, symbol and configuration files: nothing runs.
