----------------------------- MODULE MCPagamento -----------------------------
(***************************************************************************)
(* Small instances of Pagamento and Relatorio: two orders of one payee, o1 *)
(* old enough to be taken loose by the pending procedure.                  *)
(***************************************************************************)
EXTENDS Relatorio

CONSTANTS o1, o2

Duas == {o1, o2}
Uma  == {o1}
Nada == {}
Permissionario == [tipo |-> "permissionarios", iguais |-> {}]
ComCopias      == [tipo |-> "permissionarios", iguais |-> Duas]
Guarda         == [tipo |-> "guardadores", iguais |-> {}]

SoPermissionario == {Permissionario}
Todos  == {Permissionario, ComCopias, Guarda}
Envios == [f \in Favorecidos |-> IF f = Permissionario THEN 3 ELSE 2]
Dias   == [f \in Favorecidos |-> IF f = Guarda THEN 3 ELSE 2]

LimparEnviado == {"limparEnviado"}
=============================================================================
