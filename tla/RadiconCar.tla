------------------------------ MODULE RadiconCar ------------------------------
(***************************************************************************)
(* The RC car that breaks when it lands in water: src/Npc/                 *)
(* RadiconCarPatch.cpp.  The game updates an actor's nerve and then calls  *)
(* its control, once a frame.  The game's own nerves, animations and       *)
(* physics are external; the game moves between its own nerves only.       *)
(***************************************************************************)
EXTENDS Integers

VARIABLES
    nerve, step,
    inWater,
    isTypeRace,         \* mIsTypeRace
    hacked,             \* the player is in the car
    shown, clipping, sensors, resetting, action,
    phase               \* what of the frame is next

carVars == <<nerve, step, inWater, isTypeRace, hacked, shown, clipping, sensors, resetting,
             action, phase>>
looks == <<shown, clipping, sensors, resetting, action>>

GameNerves == {"Wait", "MoveAuto", "Move"}

CarInit ==
    /\ isTypeRace \in BOOLEAN
    /\ nerve = "Wait" /\ step = 0 /\ inWater = FALSE /\ hacked = FALSE
    /\ shown = TRUE /\ clipping = TRUE /\ sensors = TRUE /\ resetting = FALSE
    /\ action = "plays" /\ phase = "nerve"

\* al::setNerve; the new nerve's first step is in the next frame.
SetNerve(n) == nerve' = n /\ step' = 0
KeepNerve == nerve' = nerve /\ step' = IF step < 2 THEN step + 1 ELSE step

ExeEnds == phase' = "control"

\* External: exeWait, exeMoveAuto, exeMove and the others.  The player takes
\* the car over and leaves it, and it drives into water.
GameExe ==
    /\ phase = "nerve" /\ nerve \in GameNerves
    /\ \/ SetNerve("Move") /\ hacked' = TRUE
       \/ SetNerve(IF isTypeRace THEN "Wait" ELSE "MoveAuto") /\ hacked' = FALSE
       \/ KeepNerve /\ UNCHANGED hacked
    /\ inWater' \in BOOLEAN
    /\ ExeEnds
    /\ UNCHANGED <<isTypeRace, looks>>

exeHackBreak ==
    LET begins == step = 0
        playing == IF begins THEN "plays" ELSE action
    IN  /\ phase = "nerve" /\ nerve = "HackBreak"
        /\ clipping' = IF begins THEN FALSE ELSE clipping
        /\ action' \in {playing, "ended"}       \* external: "Disappear" ends some time
        /\ IF action' = "ended" THEN SetNerve("HackReset") ELSE KeepNerve
        /\ ExeEnds
        /\ UNCHANGED <<inWater, isTypeRace, hacked, shown, sensors, resetting>>

exeHackReset ==
    /\ phase = "nerve" /\ nerve = "HackReset"
    /\ \/ /\ step = 0
          /\ shown' = FALSE /\ action' = "stopped" /\ resetting' = TRUE /\ sensors' = FALSE
          /\ hacked' \in {hacked, FALSE}        \* tryCancelHack, which may fail
          /\ KeepNerve /\ UNCHANGED <<clipping, inWater>>
       \/ /\ step = 1
          /\ KeepNerve /\ UNCHANGED <<looks, hacked, inWater>>
       \/ /\ step = 2
          /\ inWater' = FALSE                   \* external: where it was put down is dry
          /\ clipping' = TRUE /\ shown' = TRUE /\ resetting' = FALSE /\ action' = "plays"
          /\ sensors' = TRUE
          /\ SetNerve(IF isTypeRace THEN "Wait" ELSE "MoveAuto")
          /\ UNCHANGED hacked
    /\ ExeEnds
    /\ UNCHANGED isTypeRace

BreaksAgain == inWater                          \* mutant: the nerve is not looked at
Breaks == inWater /\ nerve \notin {"HackBreak", "HackReset"}

control ==
    /\ phase = "control"
    /\ IF Breaks THEN SetNerve("HackBreak") ELSE UNCHANGED <<nerve, step>>
    /\ phase' = "nerve"
    /\ UNCHANGED <<inWater, isTypeRace, hacked, looks>>

CarFrame == GameExe \/ exeHackBreak \/ exeHackReset \/ control

AnimationEnds == exeHackBreak /\ action' = "ended"

-----------------------------------------------------------------------------
\* Whole: seen, touched and clipped.
CarWhole == shown /\ clipping /\ sensors /\ ~resetting /\ action = "plays"

\* A car that fell into water comes back whole, in a nerve of the game, whether
\* or not the player could be let out of it (control, exeHackBreak, exeHackReset);
\* a car in a nerve of the game is whole.
CarComesBack ==
    /\ nerve = "HackBreak" ~> nerve \in GameNerves /\ CarWhole
    /\ [](nerve \in GameNerves => CarWhole)
=============================================================================
