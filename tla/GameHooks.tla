------------------------------ MODULE GameHooks ------------------------------
(***************************************************************************)
(* The hooks of src/main.cpp together: in a stage its actors move frame by *)
(* frame, and the save hooks run between and during frames.                *)
(***************************************************************************)
EXTENDS SaveRedirect, RadiconCar, Radish

VARIABLE stage          \* the stage that is loaded: one with the car, or one with radishes

vars == <<saveVars, carVars, radishVars, stage>>

Init == stage \in {"car", "radish"} /\ SaveInit /\ CarInit /\ RadishInit

Saving == SaveNext /\ UNCHANGED <<carVars, radishVars, stage>>
Driving == stage = "car" /\ CarFrame /\ UNCHANGED <<saveVars, radishVars, stage>>
Throwing == stage = "radish" /\ RadishFrame /\ UNCHANGED <<saveVars, carVars, stage>>

Next == Saving \/ Driving \/ Throwing

\* The game's frames go on, and the animation of a car that breaks ends.
Spec == Init /\ [][Next]_vars /\ WF_vars(Driving) /\ SF_vars(Driving /\ AnimationEnds)
=============================================================================
