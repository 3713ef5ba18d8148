-------------------------- MODULE MCTravaDistribuida --------------------------
(***************************************************************************)
(* Two instances: A with two connections and two executions (the hourly    *)
(* jobs of modais and of guardadores), B with one of each.                 *)
(***************************************************************************)
EXTENDS TravaDistribuida

CONSTANTS A, B, a1, a2, b1, modais, guardadores, outra

MCInstancias  == {A, B}
MCConexoes    == {a1, a2, b1}
MCPoolDe      == [c \in MCConexoes |-> IF c = b1 THEN B ELSE A]
MCExecucoes   == {modais, guardadores, outra}
MCInstanciaDe == [e \in MCExecucoes |-> IF e = outra THEN B ELSE A]
MesmaConexao  == {"mesmaConexao"}
=============================================================================
