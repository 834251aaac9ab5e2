----------------------------- MODULE MCPTRSync -----------------------------
(***************************************************************************)
(* A repository of four updates for TLC.  Hash ids and update order        *)
(* disagree, index 0 holds a definitions update after a mappings update in *)
(* hash_id order, and m1 is added, deleted and added again.                *)
(***************************************************************************)
EXTENDS PTRSync, TLC

CONSTANTS m1, m2

MCUpdate == 1..4
MCMapping == {m1, m2}
MCIndexOf == <<1, 0, 0, 2>>
MCKindOf == <<"mappings", "mappings", "definitions", "mappings">>
MCAdds == <<{m2}, {m1}, {}, {m1}>>
MCDeletes == <<{m1}, {}, {}, {m2}>>
MCDefines == <<{}, {}, {m1, m2}, {}>>
MCPending == {m1}
MCPetitioned == {m1}

Symmetry == Permutations(Proc)
=============================================================================
