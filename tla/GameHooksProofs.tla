--------------------------- MODULE GameHooksProofs ---------------------------
(***************************************************************************)
(* Theorems about the hooks of the game, for all users, nicknames, walls   *)
(* and bounds.                                                             *)
(***************************************************************************)
EXTENDS GameHooks, TLAPS

\* Nobody else's nickname leads to u's directory.
Owns(u) ==
    /\ DirectoryOf(u) # Default
    /\ \A v \in Users \ {u} : DirectoryOf(v) # DirectoryOf(u)

-----------------------------------------------------------------------------
\* The strengthening of ReadsOwnSave: a hook runs under its user's name or under
\* "default", a directory of one owner holds what the owner's last save left, and
\* a hook that read holds what is in the directory it looked in.

StateShape ==
    /\ user \in Users
    /\ DOMAIN files = Usernames /\ DOMAIN mine = Users
    /\ spc # "idle" => name \in {DirectoryOf(user), Default}

OwnersFiles == \A u \in Users : Owns(u) => files[DirectoryOf(u)] = mine[u]

ReadInv ==
    /\ StateShape
    /\ OwnersFiles
    /\ spc = "read" => got = files[name]

\* The strengthening of SaveReachesCard: with no failed call yet, the hook that
\* makes a directory finds its parents made, and the one that writes finds its own.
Takes == name = Default \/ ~Overlooked(user)

PathMade ==
    /\ spc = "create2" => made >= 1
    /\ spc = "create3" => made >= 2
    /\ spc = "create4" => made = 3
    /\ (spc = "write" /\ Takes) => name \in dirs
    /\ Takes => spc # "lost"

CardInv ==
    /\ StateShape
    /\ made \in 0..3
    /\ ~failed => PathMade

\* The hook makes a name the card takes out of every nickname in which it
\* overlooks nothing.
LEMMA NamesAllowed ==
    /\ \A u \in Users : ~Overlooked(u) => Allowed(DirectoryOf(u))
    /\ Allowed(Default)
<1>1. ASSUME NEW u \in Users, ~Overlooked(u) PROVE Allowed(DirectoryOf(u))
  BY <1>1, NamesAssumption DEF Allowed, DirectoryOf, Sanitized, Overlooked
<1>2. \A i \in DOMAIN Default : Default[i] = "default"
  <2>1. Len(Default) = 1 /\ Default[1] = "default" /\ DOMAIN Default = 1..1
    BY DEF Default
  <2> QED
    BY <2>1
<1>3. Allowed(Default)
  BY <1>2, NamesAssumption DEF Allowed
<1> QED
  BY <1>1, <1>3

LEMMA ShapeInit == SaveInit => StateShape
BY DEF SaveInit, StateShape

\* The name of a hook that begins.
LEMMA NameOfHook ==
    ASSUME getUsername PROVE name' \in {DirectoryOf(user), Default}
BY DEF getUsername

LEMMA ShapeNext == StateShape /\ [SaveNext]_saveVars => StateShape'
<1> SUFFICES ASSUME StateShape, [SaveNext]_saveVars PROVE StateShape'
  OBVIOUS
<1> USE DEF StateShape
<1>1. CASE saveWriteHook
  BY <1>1, NameOfHook DEF saveWriteHook
<1>2. CASE DirectoryKnown
  BY <1>2 DEF DirectoryKnown
<1>3. CASE DirectoryUnknown
  BY <1>3 DEF DirectoryUnknown
<1>4. CASE CreateDirectory
  BY <1>4 DEF CreateDirectory, Creating, CreateFrom
<1>5. CASE CreateFails
  BY <1>5 DEF CreateFails, Creating, CreateFrom
<1>6. CASE WriteSave
  BY <1>6 DEF WriteSave, Puts
<1>7. CASE saveReadHook
  BY <1>7, NameOfHook DEF saveReadHook
<1>8. CASE HookReturns \/ OpenUser \/ PowerOff
  BY <1>8 DEF HookReturns, OpenUser, PowerOff
<1>9. CASE UNCHANGED saveVars
  BY <1>9 DEF saveVars
<1> QED
  BY <1>1, <1>2, <1>3, <1>4, <1>5, <1>6, <1>7, <1>8, <1>9 DEF SaveNext

-----------------------------------------------------------------------------
\* Only a write changes what is on the card.
LEMMA OwnersFilesNext ==
    StateShape /\ OwnersFiles /\ [SaveNext]_saveVars => OwnersFiles'
<1> SUFFICES ASSUME StateShape, OwnersFiles, [SaveNext]_saveVars,
                    NEW u \in Users, Owns(u)
             PROVE  files'[DirectoryOf(u)] = mine'[u]
  BY DEF OwnersFiles, Owns
<1>1. files[DirectoryOf(u)] = mine[u] /\ DirectoryOf(u) \in Usernames
  BY DEF OwnersFiles, Usernames
<1>2. CASE files' = files /\ mine' = mine
  BY <1>1, <1>2
<1>3. ASSUME NEW save, WriteSave, Puts(save) PROVE files'[DirectoryOf(u)] = mine'[u]
  <2> USE DEF Puts
  <2>1. name \in {DirectoryOf(user), Default} /\ user \in Users
    BY <1>3 DEF WriteSave, StateShape
  <2>2. CASE name = Default
    BY <1>1, <1>3, <2>2 DEF Owns, StateShape
  <2>3. CASE name # Default /\ u = user
    BY <1>1, <1>3, <2>1, <2>3 DEF StateShape
  <2>4. CASE name # Default /\ u # user
    <3>1. DirectoryOf(u) # name
      BY <2>1, <2>4 DEF Owns
    <3> QED
      BY <1>1, <1>3, <2>4, <3>1 DEF StateShape
  <2> QED
    BY <2>2, <2>3, <2>4
<1>4. (files' = files /\ mine' = mine)
      \/ (WriteSave /\ \E save : Puts(save))
  <2>1. CASE WriteSave
    BY <2>1 DEF WriteSave
  <2>2. CASE saveWriteHook \/ DirectoryKnown \/ DirectoryUnknown \/ CreateDirectory \/ CreateFails
    BY <2>2 DEF saveWriteHook, DirectoryKnown, DirectoryUnknown, CreateDirectory, CreateFails
  <2>3. CASE saveReadHook \/ HookReturns \/ OpenUser \/ PowerOff
    BY <2>3 DEF saveReadHook, HookReturns, OpenUser, PowerOff
  <2>4. CASE UNCHANGED saveVars
    BY <2>4 DEF saveVars
  <2> QED
    BY <2>1, <2>2, <2>3, <2>4 DEF SaveNext
<1> QED
  BY <1>2, <1>3, <1>4

LEMMA ReadInit == SaveInit => ReadInv
<1> SUFFICES ASSUME SaveInit PROVE ReadInv
  OBVIOUS
<1>1. OwnersFiles
  BY DEF OwnersFiles, SaveInit, Usernames
<1> QED
  BY <1>1, ShapeInit DEF ReadInv, SaveInit

LEMMA ReadNext == ReadInv /\ [SaveNext]_saveVars => ReadInv'
<1> SUFFICES ASSUME ReadInv, [SaveNext]_saveVars PROVE ReadInv'
  OBVIOUS
<1>1. (spc = "read" => got = files[name])'
  <2> USE DEF ReadInv
  <2>1. CASE saveReadHook
    BY <2>1 DEF saveReadHook
  <2>2. CASE saveWriteHook \/ DirectoryKnown \/ DirectoryUnknown
    BY <2>2 DEF saveWriteHook, DirectoryKnown, DirectoryUnknown
  <2>3. CASE CreateDirectory \/ CreateFails
    BY <2>3 DEF CreateDirectory, CreateFails, Creating, CreateFrom
  <2>4. CASE WriteSave
    BY <2>4 DEF WriteSave
  <2>5. CASE HookReturns \/ OpenUser \/ PowerOff
    BY <2>5 DEF HookReturns, OpenUser, PowerOff
  <2>6. CASE UNCHANGED saveVars
    BY <2>6 DEF saveVars
  <2> QED
    BY <2>1, <2>2, <2>3, <2>4, <2>5, <2>6 DEF SaveNext
<1> QED
  BY <1>1, ShapeNext, OwnersFilesNext DEF ReadInv

-----------------------------------------------------------------------------
LEMMA CardInit == SaveInit => CardInv
BY ShapeInit DEF CardInv, SaveInit, PathMade

LEMMA CardNext == CardInv /\ [SaveNext]_saveVars => CardInv'
<1> SUFFICES ASSUME CardInv, [SaveNext]_saveVars PROVE CardInv'
  OBVIOUS
<1>1. StateShape'
  BY ShapeNext DEF CardInv
<1>2. (made \in 0..3)' /\ (~failed => PathMade)'
  <2> USE DEF CardInv, PathMade, Takes
  <2>1. CASE saveWriteHook
    BY <2>1 DEF saveWriteHook
  <2>2. CASE DirectoryKnown \/ DirectoryUnknown
    BY <2>2 DEF DirectoryKnown, DirectoryUnknown, Succeeds
  <2>3. CASE CreateDirectory
    <3>1. PICK i \in 1..4 :
             /\ Creating(i)
             /\ made' = IF i <= 3 /\ made = i - 1 THEN i ELSE made
             /\ dirs' = IF i = 4 /\ made = 3 /\ Allowed(name) THEN dirs \cup {name} ELSE dirs
      BY <2>3 DEF CreateDirectory
    <3>2. failed' = failed /\ name' = name
      BY <2>3 DEF CreateDirectory
    <3>3. CASE i = 1
      BY <3>1, <3>2, <3>3 DEF Creating, CreateFrom
    <3>4. CASE i = 2
      BY <3>1, <3>2, <3>4 DEF Creating, CreateFrom
    <3>5. CASE i = 3
      BY <3>1, <3>2, <3>5 DEF Creating, CreateFrom
    <3>6. CASE i = 4
      <4>1. spc = "create4" /\ spc' = "write"
        BY <3>1, <3>6 DEF Creating, CreateFrom
      <4>2. Takes => Allowed(name)
        BY <4>1, NamesAllowed DEF StateShape
      <4>3. user' = user /\ (Takes' <=> Takes)
        BY <2>3, <3>2 DEF CreateDirectory, Overlooked
      <4> QED
        BY <3>1, <3>2, <3>6, <4>1, <4>2, <4>3
    <3> QED
      BY <3>3, <3>4, <3>5, <3>6
  <2>4. CASE CreateFails
    BY <2>4 DEF CreateFails
  <2>5. CASE WriteSave
    BY <2>5 DEF WriteSave, Succeeds
  <2>6. CASE saveReadHook
    BY <2>6 DEF saveReadHook
  <2>7. CASE HookReturns \/ OpenUser \/ PowerOff
    BY <2>7 DEF HookReturns, OpenUser, PowerOff
  <2>8. CASE UNCHANGED saveVars
    BY <2>8 DEF saveVars
  <2> QED
    BY <2>1, <2>2, <2>3, <2>4, <2>5, <2>6, <2>7, <2>8 DEF SaveNext
<1> QED
  BY <1>1, <1>2 DEF CardInv

-----------------------------------------------------------------------------
\* A radish in the air forgets no wall: bouncedOff is what mCollidedWallSensor
\* holds while it bounds, and it is thrown with no bounce behind it.

BounceInv ==
    /\ rnerve = "Throw" => bouncedOff = NoWall
    /\ (rnerve = "Bound" /\ bouncedOff # NoWall) => wallSensor = bouncedOff

LEMMA BounceInit == RadishInit => BounceInv
BY DEF RadishInit, BounceInv

LEMMA BounceNext == BounceInv /\ [RadishFrame]_radishVars => BounceInv'
<1> SUFFICES ASSUME BounceInv, [RadishFrame]_radishVars PROVE BounceInv'
  OBVIOUS
<1> USE DEF BounceInv, SetRadishNerve, KeepRadishNerve, BouncesOff
<1>1. CASE ThrowRadish
  BY <1>1 DEF ThrowRadish
<1>2. ASSUME NEW wall, NEW ground \in BOOLEAN, radishExeThrow(wall, ground) PROVE BounceInv'
  BY <1>2 DEF radishExeThrow
<1>3. ASSUME NEW wall, NEW ground \in BOOLEAN, NEW fire \in BOOLEAN, NEW rebounds \in BOOLEAN,
             radishExeBound(wall, ground, fire, rebounds)
      PROVE  BounceInv'
  BY <1>3 DEF radishExeBound
<1>4. CASE UNCHANGED radishVars
  BY <1>4 DEF radishVars
<1> QED
  BY <1>1, <1>2, <1>3, <1>4 DEF RadishFrame

WallStep ==
    (first' /\ rnerve' = "Bound" /\ bouncedOff' # NoWall) => bouncedOff' # bouncedOff

LEMMA BounceStep == BounceInv /\ [RadishFrame]_radishVars => [WallStep]_radishVars
<1> SUFFICES ASSUME BounceInv, RadishFrame PROVE WallStep
  OBVIOUS
<1> USE DEF BounceInv, WallStep, SetRadishNerve, KeepRadishNerve, BouncesOff
<1>1. CASE ThrowRadish
  BY <1>1 DEF ThrowRadish
<1>2. ASSUME NEW wall, NEW ground \in BOOLEAN, radishExeThrow(wall, ground) PROVE WallStep
  BY <1>2 DEF radishExeThrow
<1>3. ASSUME NEW wall, NEW ground \in BOOLEAN, NEW fire \in BOOLEAN, NEW rebounds \in BOOLEAN,
             radishExeBound(wall, ground, fire, rebounds)
      PROVE  WallStep
  BY <1>3 DEF radishExeBound
<1> QED
  BY <1>1, <1>2, <1>3 DEF RadishFrame

-----------------------------------------------------------------------------
\* A step of the game is a step of the save hooks and of the radish, or leaves
\* them as they are.
LEMMA Parts == [Next]_vars => [SaveNext]_saveVars /\ [RadishFrame]_radishVars
BY DEF Next, Saving, Driving, Throwing, vars

\* A user whose directory is his alone reads what the last of his own saves left
\* there, whole, or torn if its own write was cut: for any users and nicknames,
\* after any saves, failures and power losses, inside a write too (saveReadHook,
\* saveWriteHook).
THEOREM OwnSaveRead == Spec => []ReadsOwnSave
<1>1. Init => ReadInv
  BY ReadInit DEF Init
<1>2. ReadInv /\ [Next]_vars => ReadInv'
  BY ReadNext, Parts
<1>3. ReadInv => ReadsOwnSave
  BY DEF ReadInv, StateShape, OwnersFiles, Owns, ReadsOwnSave, OwnDirectory
<1> QED
  BY <1>1, <1>2, <1>3, PTL DEF Spec

\* A save is lost only when a storage call fails in its own hook, or when the card
\* forbids a character of the nickname that disallowedChars lacks, whatever an
\* earlier hook left on the card (saveWriteHook).
THEOREM SaveKept == Spec => []SaveReachesCard
<1>1. Init => CardInv
  BY CardInit DEF Init
<1>2. CardInv /\ [Next]_vars => CardInv'
  BY CardNext, Parts
<1>3. CardInv => SaveReachesCard
  BY DEF CardInv, PathMade, Takes, SaveReachesCard
<1> QED
  BY <1>1, <1>2, <1>3, PTL DEF Spec

\* In the air a radish begins no bounce off the wall of its last one, for any
\* walls (radishExeThrow, radishExeBound).
THEOREM WallsOnce == Spec => WallOnce
<1>1. Init => BounceInv
  BY BounceInit DEF Init
<1>2. BounceInv /\ [Next]_vars => BounceInv'
  BY BounceNext, Parts
<1>3. BounceInv /\ [Next]_vars => [WallStep]_radishVars
  BY BounceStep, Parts
<1> QED
  BY <1>1, <1>2, <1>3, PTL DEF Spec, WallOnce, WallStep
=============================================================================
