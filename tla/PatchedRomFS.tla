---------------------------- MODULE PatchedRomFS ----------------------------
(***************************************************************************)
(* What the ROM file-system patcher promises to the player, without its    *)
(* cache, its hash file or its steps: whenever the game runs, it sees the  *)
(* patches of the mod that is installed now, applied to the game version   *)
(* that is installed now, until it stops.                                  *)
(*                                                                         *)
(* "suspect" names the parts of the view that the storage has put in       *)
(* doubt; it is the weakening the code really has (FSHacks.tla, flaws).    *)
(***************************************************************************)
EXTENDS RomFS

VARIABLES
    mod,        \* the installed patch set
    game,       \* the installed version
    suspect,    \* parts of the view that storage faults have put in doubt
    served      \* NotServing, or what the running game sees

Parts == {"files", "alignments"}

NotServing == [running |-> FALSE]

View(f, a, n) == [running |-> TRUE, files |-> f, archives |-> a, alignments |-> n]

\* s is a view the game may be given under mod r in version v.
Faithful(s, r, v, doubts) ==
    /\ s.running
    /\ "files" \notin doubts =>
          /\ \A p \in Paths : Shows(r, v, p, s.files[p])
          /\ \A n \in Names : ShowsArchive(r, v, n, s.archives[n])
    /\ "alignments" \notin doubts =>
          \A p \in Paths : ShowsAlignment(r, v, p, s.alignments[p])

Init ==
    /\ mod \in Mods
    /\ game \in Versions
    /\ suspect = {}
    /\ served = NotServing

\* The player installs another mod or another version while the game is off.
Install ==
    /\ ~served.running
    /\ mod' \in Mods /\ game' \in Versions
    /\ UNCHANGED <<suspect, served>>

\* The storage loses or recovers something the view depends on.
Storage ==
    /\ ~served.running
    /\ suspect' \in SUBSET Parts
    /\ UNCHANGED <<mod, game, served>>

Start ==
    /\ ~served.running
    /\ Faithful(served', mod, game, suspect)
    /\ UNCHANGED <<mod, game, suspect>>

Stop ==
    /\ served.running
    /\ served' = NotServing
    /\ UNCHANGED <<mod, game, suspect>>

Next == Install \/ Storage \/ Start \/ Stop

vars == <<mod, game, suspect, served>>

Spec == Init /\ [][Next]_vars
=============================================================================
