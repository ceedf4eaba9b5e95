----------------------------- MODULE MCGameHooks -----------------------------
(***************************************************************************)
(* Three users: one with a nickname that is no file name and too long, one *)
(* with a harmless one, one with a character that only the card forbids.   *)
(***************************************************************************)
EXTENDS GameHooks

CONSTANTS u1, u2, u3, w1, w2

MCNicknameOf(u) ==
    CASE u = u1 -> <<"<", "a", "/", "c">>
      [] u = u2 -> <<"_", "b", "_">>
      [] u = u3 -> <<"quote">>

MCMaxSaves(u) == IF u = u1 THEN 2 ELSE 1
=============================================================================
