--------------------------- MODULE MCSincronizacao ---------------------------
(***************************************************************************)
(* An order of a Thursday and one of the Friday after, in two cycles; two  *)
(* instances with a job each and the manual synchronisation on the first.  *)
(***************************************************************************)
EXTENDS Sincronizacao

CONSTANTS quinta, sexta, jobA, jobB, A, B, a1, a2, b1

MCOrdens      == {quinta, sexta}
MCDiaDe       == [o \in MCOrdens |-> IF o = quinta THEN 4 ELSE 5]
MCVersoes     == 1..3
MCVersoesDe   == [o \in MCOrdens |-> IF o = quinta THEN MCVersoes ELSE {1}]
MCDados       == [v \in MCVersoes |-> [c \in Campos |->
                    IF c = "valor" THEN v ELSE IF v = 3 THEN 2 ELSE 1]]
MCJobs        == {jobA, jobB}
MCInstancias  == {A, B}
MCInstanciaDe == [p \in MCJobs \cup {Manual} |-> IF p = jobB THEN B ELSE A]
MCConexoes    == {a1, a2, b1}
MCPoolDe      == [c \in MCConexoes |-> IF c = b1 THEN B ELSE A]
SemRiscos     == {}
=============================================================================
