------------------------------ MODULE MCRetorno ------------------------------
(***************************************************************************)
(* Small instances of Retorno: one ordinary payment of Intersul (p1) and   *)
(* one pending payment (p2) with a child that has a failed row and a new   *)
(* one.                                                                    *)
(***************************************************************************)
EXTENDS Retorno, TLC

CONSTANTS p1, p2, filhaVelha, filhaNova

MCPagamentos    == {p1, p2}
MCFilhas        == {filhaVelha, filhaNova}
MCFilhasAntigas == {filhaVelha}
MCFilhasDe      == [p \in MCPagamentos |-> IF p = p2 THEN MCFilhas ELSE {}]
MCChave         == [p \in MCPagamentos |-> p]
MCIntersul      == {p1}

\* One pending payment alone.
SoPagamentos    == {p2}
SoFilhasDe      == [p \in SoPagamentos |-> MCFilhas]
SoChave         == [p \in SoPagamentos |-> p]
SoIntersul      == {}

\* Which reader is which does not matter to the safety properties.
Simetria == Permutations(Leitores)

SoBD   == {"BD"}
SoZero == {"00"}
SemErros == {}
LoteHF == {"HF"}
=============================================================================
