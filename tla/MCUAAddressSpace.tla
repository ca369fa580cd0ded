-------------------------- MODULE MCUAAddressSpace --------------------------
(* Small instances of UAAddressSpace for TLC: a branch a1 under the root,   *)
(* an item i1 in it, and an item j1 that no branch lists.                   *)
EXTENDS UAAddressSpace, TLC

CONSTANTS c1, c2, root, a1, i1, j1

TwoClients == {c1, c2}
OneClient == {c1}
OneBranch == {a1}
OneItem == {i1}
TwoItems == {i1, j1}
Contents == (root :> <<a1>>) @@ (a1 :> <<i1>>)
Depths == (root :> 0) @@ (a1 :> 1)
=============================================================================
