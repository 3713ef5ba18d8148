----------------------------- MODULE Conciliacao -----------------------------
(***************************************************************************)
(* What the return handling promises: the bank credits payments, and the   *)
(* program closes (baixa) a payment as paid only after the bank credited   *)
(* it, once and for good.                                                  *)
(***************************************************************************)
EXTENDS FiniteSets

CONSTANT Pagamentos

VARIABLES creditados,   \* payments the bank has credited
          baixados      \* payments the program shows as paid

vars == <<creditados, baixados>>

Init == creditados = {} /\ baixados = {}

\* A return file of the bank may tell of several credits at once.
Creditar == \E S \in SUBSET (Pagamentos \ creditados) :
                /\ S # {}
                /\ creditados' = creditados \cup S
                /\ UNCHANGED baixados

Baixar == \E p \in creditados \ baixados :
              /\ baixados' = baixados \cup {p}
              /\ UNCHANGED creditados

Next == Creditar \/ Baixar

Spec == Init /\ [][Next]_vars
=============================================================================
