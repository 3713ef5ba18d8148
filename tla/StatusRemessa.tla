---------------------------- MODULE StatusRemessa ----------------------------
(***************************************************************************)
(* The payment status machine of novo-remessa, without the database: what  *)
(* one record of a bank return file does to one row of                     *)
(* ordem_pagamento_agrupado_historico, and what the row of a parent (pai)  *)
(* does to the rows of its children (filhas).                              *)
(*                                                                         *)
(* A row is [status, motivo].  A real refusal code of the bank is any      *)
(* occurrence other than "00", "BD" and blank.                             *)
(***************************************************************************)
EXTENDS Integers

\* StatusRemessaEnum
Criado             == 0
PreparadoParaEnvio == 1
AguardandoPagamento == 2
Efetivado          == 3
NaoEfetivado       == 4
PendenciaPaga      == 5

StatusRemessaEnum == 0..5

\* Occurrences of a return: inclusion accepted, credit made, blank.
BD      == "BD"
Zero    == "00"
Branco  == ""

\* The column is NULL until a return fills it; a header occurrence saved
\* without trim() keeps its blanks, so a blank one is stored as spaces.
Nulo    == "NULL"
Espacos == "          "

Linha(status, motivo) == [status |-> status, motivo |-> motivo]

OcorrenciaOk(ocorrencia) == ocorrencia \in {BD, Zero}

\* JavaScript's !motivo and SQL's coalesce(motivo, '') = ''
SemMotivo(h) == h.motivo \in {Nulo, Branco}

Pago(h)      == h.status \in {Efetivado, PendenciaPaga}
Resolvido(h) == Pago(h) \/ h.status = NaoEfetivado

\* Mutant: rows of a refused file are not found again.
CasaSemReabrir(h) == h.status \in {PreparadoParaEnvio, AguardandoPagamento}

\* Mutant: only the first return finds its row.
CasaSoPreparado(h) == \/ h.status = PreparadoParaEnvio
                      \/ h.status = NaoEfetivado /\ SemMotivo(h)

\* The rows a return record may still find (getDetalheARetorno).
Casa(h) == \/ h.status \in {PreparadoParaEnvio, AguardandoPagamento}
           \/ h.status = NaoEfetivado /\ SemMotivo(h)

StatusDePago(temFilhas) == IF temFilhas THEN PendenciaPaga ELSE Efetivado

SemTrim(lote) == IF lote = Branco THEN Espacos ELSE lote

\* First return of a payment that was sent.
PrimeiraVolta(h, lote) == h.status = PreparadoParaEnvio /\ lote # h.motivo

\* A refused batch at the first return: the code leaves the loop AND the
\* method, before the children are told.
ErroNoHeaderLote(h, lote) == PrimeiraVolta(h, lote) /\ ~OcorrenciaOk(lote)

\* Mutant: the record's own occurrence is not looked at.
ReabreSemDetalhe(h, lote, det) == /\ h.status = NaoEfetivado
                                  /\ SemMotivo(h)
                                  /\ OcorrenciaOk(lote)

\* A file refused as a whole left no reason; the resent file reopens it.
Reabre(h, lote, det) == /\ h.status = NaoEfetivado
                        /\ SemMotivo(h)
                        /\ OcorrenciaOk(lote)
                        /\ OcorrenciaOk(det)

\* Mutant: "BD" finishes a payment that is waiting.
BaixaComBD(h, lote, det, temFilhas) ==
    IF PrimeiraVolta(h, lote)
    THEN Linha(IF OcorrenciaOk(lote) /\ OcorrenciaOk(det)
               THEN AguardandoPagamento ELSE NaoEfetivado, det)
    ELSE IF h.status = AguardandoPagamento
         THEN Linha(IF OcorrenciaOk(det) THEN StatusDePago(temFilhas)
                                         ELSE NaoEfetivado, det)
         ELSE h

\* One turn of atualizarStatusRemessaHistorico's loop.
Baixa(h, lote, det, temFilhas) ==
    CASE ErroNoHeaderLote(h, lote) -> Linha(NaoEfetivado, lote)
      [] PrimeiraVolta(h, lote) /\ OcorrenciaOk(lote) ->
            Linha(IF OcorrenciaOk(det) THEN AguardandoPagamento
                                       ELSE NaoEfetivado, det)
      [] Reabre(h, lote, det) ->
            Linha(IF det = BD THEN AguardandoPagamento
                              ELSE StatusDePago(temFilhas), det)
      [] h.status = AguardandoPagamento /\ ~OcorrenciaOk(lote) ->
            Linha(NaoEfetivado, SemTrim(lote))
      [] h.status = AguardandoPagamento /\ OcorrenciaOk(lote) /\ det = Zero ->
            Linha(StatusDePago(temFilhas), det)
      [] h.status = AguardandoPagamento /\ OcorrenciaOk(lote)
                                        /\ ~OcorrenciaOk(det) ->
            Linha(NaoEfetivado, det)
      [] OTHER -> h          \* a repeated "BD", or a row that is closed

\* Mutant: only a paid parent tells its children.
PropagadoSoPago(pai, filha) ==
    IF Pago(pai) THEN Linha(PendenciaPaga, filha.motivo) ELSE filha

\* Mutant: a parent that is resolved, refused too, pays its children.
PropagadoSempre(pai, filha) ==
    IF Resolvido(pai) THEN Linha(PendenciaPaga, filha.motivo) ELSE filha

\* propagarPagamentoPaiParaFilhas on one row of a child.
Propagado(pai, filha) ==
    LET alvo == IF Pago(pai) THEN PendenciaPaga ELSE NaoEfetivado
    IN  IF ~Resolvido(pai) \/ filha.status = alvo
        THEN filha
        ELSE Linha(alvo, IF alvo = NaoEfetivado THEN pai.motivo
                                                ELSE filha.motivo)
=============================================================================
