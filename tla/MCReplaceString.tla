-------------------------- MODULE MCReplaceString --------------------------
(***************************************************************************)
(* Strings of two characters; old_str may overlap itself (aa, aba), and    *)
(* new_str is empty, shorter, as long, longer, or contains old_str.        *)
(***************************************************************************)
EXTENDS ReplaceString

CONSTANTS a, b

Strings(n) == UNION {[1..k -> {a, b}] : k \in 0..n}

MCTexts == Strings(5)
MCOlds == {<<>>, <<a>>, <<a, a>>, <<a, b>>, <<a, b, a>>}
MCNews == {<<>>, <<b>>, <<a, b>>, <<b, a, a>>, <<b, a, b, a>>}
=============================================================================
