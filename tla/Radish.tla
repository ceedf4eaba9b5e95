-------------------------------- MODULE Radish --------------------------------
(***************************************************************************)
(* A thrown radish: exeThrow and exeBound as src/main.cpp replaces them.   *)
(* What it touches is external, chosen in each frame; so are the nerves    *)
(* before and after these two.                                             *)
(***************************************************************************)
EXTENDS Naturals

CONSTANTS Walls, NoWall

VARIABLES
    rnerve, first,      \* the nerve, and whether this is its first step
    clipped,            \* clipping is valid
    wallSensor,         \* mCollidedWallSensor
    bouncedOff          \* history: the wall of the last bounce since it last touched the ground

radishVars == <<rnerve, first, clipped, wallSensor, bouncedOff>>

RadishInit ==
    rnerve = "Hold" /\ first = TRUE /\ clipped = TRUE /\ wallSensor = NoWall /\ bouncedOff = NoWall

SetRadishNerve(n) == rnerve' = n /\ first' = TRUE
KeepRadishNerve == UNCHANGED rnerve /\ first' = FALSE

\* It bounces off a wall; the ground makes it forget.
BouncesOff(wall, ground) ==
    bouncedOff' = IF ground THEN NoWall ELSE IF wall # NoWall THEN wall ELSE bouncedOff

\* External: the other nerves.
ThrowRadish ==
    /\ rnerve \in {"Hold", "Land"}
    /\ SetRadishNerve(IF rnerve = "Hold" THEN "Throw" ELSE "Hold")
    /\ clipped' = TRUE /\ bouncedOff' = NoWall
    /\ UNCHANGED wallSensor

ThrowForgets(wall, ground) ==       \* mutant: the wall is not remembered
    /\ rnerve = "Throw"
    /\ clipped' = IF first THEN FALSE ELSE clipped
    /\ IF wall # NoWall \/ ground
       THEN SetRadishNerve("Bound")
       ELSE KeepRadishNerve
    /\ wallSensor' = IF first THEN NoWall ELSE wallSensor
    /\ BouncesOff(wall, ground)

radishExeThrow(wall, ground) ==
    /\ rnerve = "Throw"
    /\ clipped' = IF first THEN FALSE ELSE clipped
    /\ IF wall # NoWall \/ ground
       THEN wallSensor' = wall /\ SetRadishNerve("Bound")
       ELSE wallSensor' = (IF first THEN NoWall ELSE wallSensor) /\ KeepRadishNerve
    /\ BouncesOff(wall, ground)

\* rebounds: reboundVelocityFromCollision; fire: a floor of "DamageFire".  At a wall
\* it turns the velocity before the wall is compared, the remembered one's too: the
\* velocity is left out, and what is bounced off is the nerve begun anew.
radishExeBound(wall, ground, fire, rebounds) ==
    /\ rnerve = "Bound"
    /\ IF ground /\ ~fire
       THEN /\ SetRadishNerve(IF rebounds THEN "Bound" ELSE "Land")
            /\ UNCHANGED wallSensor
            /\ BouncesOff(NoWall, TRUE)
       ELSE IF wall # NoWall /\ ~fire /\ rebounds /\ wall # wallSensor
       THEN /\ SetRadishNerve("Bound")
            /\ wallSensor' = wall
            /\ BouncesOff(wall, FALSE)
       ELSE KeepRadishNerve /\ UNCHANGED wallSensor /\ BouncesOff(NoWall, ground)
    /\ UNCHANGED clipped

RadishFrame ==
    \/ ThrowRadish
    \/ \E wall \in Walls \cup {NoWall}, ground \in BOOLEAN, fire \in BOOLEAN, rebounds \in BOOLEAN :
           radishExeThrow(wall, ground) \/ radishExeBound(wall, ground, fire, rebounds)

-----------------------------------------------------------------------------
\* In the air a radish does not begin its bounce (the nerve) twice in a row off one wall,
\* however many frames it keeps touching it (mCollidedWallSensor): each time it
\* begins to bound without the ground, it is off another wall than the last time.
WallOnce ==
    [][(first' /\ rnerve' = "Bound" /\ bouncedOff' # NoWall) => bouncedOff' # bouncedOff]_radishVars
=============================================================================
