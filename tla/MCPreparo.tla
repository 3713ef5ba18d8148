------------------------------ MODULE MCPreparo ------------------------------
(***************************************************************************)
(* Small instances of Preparo: preparos that share rows, as two requests   *)
(* for consorcios, or one for modais and one for pendentes, do.            *)
(***************************************************************************)
EXTENDS Preparo

CONSTANTS a, b, c, p1, p2, p3

Tres == {a, b, c}

\* Two windows alike and one apart; who owes has a row in each.
OsTres == {p1, p2, p3}
SelecaoDosTres ==
    [p \in OsTres |-> CASE p = p1 -> {a, b} [] p = p2 -> {a, b} [] p = p3 -> {c}]
OsQueDevem == {b, c}

\* Two windows that share a row.
Dois == {p1, p2}
SelecaoDosDois == [p \in Dois |-> IF p = p1 THEN {a, b} ELSE {b, c}]

Nada == {}
FalhaNaCopia == {"falhaNaCopia"}
=============================================================================
