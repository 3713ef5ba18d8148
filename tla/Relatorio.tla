------------------------------ MODULE Relatorio ------------------------------
(***************************************************************************)
(* What the two payment reports show of the tables of Pagamento: the       *)
(* Consolidado and the Movimentacao Financeira, for one payee and with     *)
(* dates that cover every day.  The module adds no state: a report is a    *)
(* set of rows, computed from the same tables the procedures write.        *)
(*                                                                         *)
(* The reports write the rules of the procedures again, as other queries,  *)
(* and a pending payment stands in the tables twice, as the children that  *)
(* were refused and as the parent that is sent in their place.  A row here *)
(* is a grouping, the place of the historico, and the orders whose value   *)
(* it adds to the total.  Guardadores have queries of their own, asked for *)
(* here over several days.                                                 *)
(***************************************************************************)
EXTENDS Pagamento

Registro(l) == [opa |-> l[1], lugar |-> l[2], valor |-> LinhaDe(l).valor]

\* agrupamentoSemFilhas: pai and filhas would add the same payment twice.
AgrupamentoSemFilhas(i) == FilhasDe(i) = {}

Tem(i, status) == StatusDe(i) \cap status # {}
MotivoMostrado(h) == h.motivo \notin {"AM", "AE"}

\* Rows with a DetalheA and a payee's name, of its own order or of a child's.
ComDetalhe == {l \in Linhas : LinhaDe(l).header # 0 /\ Cobertas(l[1]) # {}}

\* Mutant: the children that a pending parent covers stay in the list.
NaoSubstituidoComCobertas(l) ==
    AgrupamentoSemFilhas(l[1]) \/ LinhaDe(l).status \in 0..2

\* excluiAgrupamentoSubstituido: a parent shows while it is on its way, and
\* hides the refused children it covers; once answered it is the reverse.
NaoSubstituido(l) ==
    LET h == LinhaDe(l)
        EmCurso == {Criado, PreparadoParaEnvio, AguardandoPagamento}
    IN  /\ AgrupamentoSemFilhas(l[1]) \/ h.status \in EmCurso
        /\ h.status = NaoEfetivado =>
              ~(opas[l[1]].pai \in Ids /\ Tem(opas[l[1]].pai, EmCurso))
        /\ MotivoMostrado(h)

\* getQueryConsorcios and getQueryVanzeiros: what was sent, by due date.
Historicos == {l \in ComDetalhe : NaoSubstituido(l)}

\* pendenciaRejeitadaPermissionario and ...Guardador: the rule of the
\* procedures, once more.
PendenciaRejeitada(l) ==
    LET i == l[1] IN
    /\ Rejeicao(LinhaDe(l))
    /\ SemCopiaPaga(i)
    /\ ~Tem(i, {PreparadoParaEnvio, AguardandoPagamento, Efetivado, PendenciaPaga})
    /\ opas[i].pai \in Ids => ~Tem(opas[i].pai, StatusRemessaEnum \ {NaoEfetivado})
    /\ l[2] = UltimaRejeicao(i)

\* pendenciaOrdemSoltaPermissionario and ...Guardador: one row for each loose
\* order the procedure would take.
Atrasadas == {[opa |-> 0, lugar |-> 0, valor |-> {o}] :
                 o \in {q \in Soltas : /\ Guardador \/ q \in Antigas
                                       /\ ~JaPagaOuEmAndamento(q)}}

\* findConsolidado, filter "Erro": rejected and returned payments, and the
\* late orders.
Pendencias == {Registro(l) : l \in {n \in Historicos : PendenciaRejeitada(n)}}
Erro == Pendencias \cup Atrasadas

\* findConsolidado without a status filter, but for what is still to be
\* grouped in this cycle.
SemFiltro == {Registro(l) : l \in Historicos} \cup Atrasadas

-----------------------------------------------------------------------------
(* What was paid.                                                          *)

\* Rows of a child paid through its parent that have a DetalheA.
Quitadas(i) == {l \in ComDetalhe : l[1] = i /\ LinhaDe(l).status = PendenciaPaga}

\* umaLinhaPorFilhaPaga: the one of the grouping's total, then the newest.
UmaLinhaPorFilhaPaga(l) ==
    LET inteira(m) == LinhaDe(m).valor = opas[m[1]].total
    IN  \A m \in Quitadas(l[1]) \ {l} :
            \/ inteira(l) /\ ~inteira(m)
            \/ (inteira(l) <=> inteira(m)) /\ m[2] < l[2]

\* getQueryPendenciaPaga of both screens: the child's row, whatever file it
\* was first sent in.
PagasPeloPai == {l \in UNION {Quitadas(i) : i \in Ids} :
                    /\ MotivoMostrado(LinhaDe(l))
                    /\ AgrupamentoSemFilhas(l[1])
                    /\ UmaLinhaPorFilhaPaga(l)}

\* Mutant: the query that starts from DetalheA is the only one.
NenhumaNuncaEnviada == {}

\* PASSO 0: paid children that no file of their own ever asked for, shown with
\* the total of the grouping.
NuncaEnviadas ==
    {i \in Ids : LET h == opas[i].hist[UltimoDe(opas[i].hist)]
                 IN  /\ opas[i].pai \in Ids
                     /\ AgrupamentoSemFilhas(i)
                     /\ opas[i].ordens # {}
                     /\ h.status = PendenciaPaga
                     /\ MotivoMostrado(h)
                     /\ \A g \in HistoricosDe(i) : g.header = 0}

PendenciasPagas ==
    {Registro(l) : l \in PagasPeloPai}
        \cup {[opa |-> i, lugar |-> 0, valor |-> opas[i].total] : i \in NuncaEnviadas}

\* Consolidado, filters "Pago" and "Pendencia Paga".
PagoConsolidado ==
    {Registro(l) : l \in {n \in Historicos : LinhaDe(n).status = Efetivado}}
        \cup PendenciasPagas

\* buildGroupedQuery, the base of the Movimentacao Financeira: groupings with
\* an order of their own, and never a parent.
Base == {l \in ComDetalhe : /\ opas[l[1]].ordens # {}
                            /\ AgrupamentoSemFilhas(l[1])
                            /\ MotivoMostrado(LinhaDe(l))}

\* STATUS_CASE.
StatusCase(h) ==
    CASE h.status = PendenciaPaga                         -> "Pendencia Paga"
      [] h.status = AguardandoPagamento                   -> "Aguardando Pagamento"
      [] h.status \in {Criado, PreparadoParaEnvio}        -> "A Pagar"
      [] h.status = Efetivado \/ (h.status = NaoEfetivado /\ h.motivo \in {Zero, BD})
                                                          -> "Pago"
      [] OTHER                                            -> "Rejeitado"

\* buildGuardadorPendenciaPagaSingleDateQuery: every such row of a child.
QuitadasGuardador == {l \in UNION {Quitadas(i) : i \in Ids} :
                         MotivoMostrado(LinhaDe(l)) /\ AgrupamentoSemFilhas(l[1])}

\* buildGuardadorBaseQuery: a refused payment only if it is pending.
BaseGuardador == {l \in Base : \/ StatusCase(LinhaDe(l)) # "Rejeitado"
                               \/ PendenciaRejeitada(l)}

\* Movimentacao of guardadores, filters "Estorno", "Rejeitado" and
\* "Pendentes": buildGuardadorPendenteNaoEnviadoQuery is the last one.
ErroGuardador ==
    {Registro(l) : l \in {n \in BaseGuardador : StatusCase(LinhaDe(n)) = "Rejeitado"}}
        \cup {[opa |-> i, lugar |-> 0, valor |-> opas[i].total] :
                 i \in {k \in Ids : NuncaEnviado(k)}}
        \cup Atrasadas

\* Movimentacao of guardadores, filters "Pago" and "Pendencia Paga".
PagoGuardador ==
    {Registro(l) : l \in {n \in BaseGuardador : StatusCase(LinhaDe(n)) = "Pago"}
                           \cup QuitadasGuardador}
        \cup {[opa |-> i, lugar |-> 0, valor |-> opas[i].total] : i \in NuncaEnviadas}

\* Movimentacao, filters "Pago" and "Pendencia Paga".
PagoMovimentacao ==
    {Registro(l) : l \in {n \in Base : StatusCase(LinhaDe(n)) = "Pago"}}
        \cup PendenciasPagas

\* buildPendenciaPagamentoTemplate: the children of a refused parent, and the
\* refused groupings that have none.
PendenciasMovimentacao ==
    LET Ultimo(i) == opas[i].hist[UltimoDe(opas[i].hist)]
    IN  {Registro(l) : l \in {n \in ComDetalhe :
            LET i == n[1] IN
            /\ opas[i].ordens # {}
            /\ IF opas[i].pai \in Ids
               THEN /\ StatusCase(Ultimo(opas[i].pai)) = "Rejeitado"
                    /\ MotivoMostrado(Ultimo(opas[i].pai))
               ELSE /\ StatusCase(LinhaDe(n)) = "Rejeitado"
                    /\ MotivoMostrado(LinhaDe(n))
                    /\ AgrupamentoSemFilhas(i)}}

-----------------------------------------------------------------------------
(* Properties.                                                             *)

\* Rows of a report that add an order to the total.
Vezes(o, linhas) == Cardinality({r \in linhas : o \in r.valor})

\* The rows of a report hold the orders S, each of them once.
Confere(linhas, S) == \A o \in Ordens : Vezes(o, linhas) = IF o \in S THEN 1 ELSE 0

\* regras-pendencia.ts: the Consolidado lists as pending what the procedure
\* would pay again, each order once and nothing else, whatever was grouped,
\* cleared, refused or sent again, and so do both screens of guardadores; the
\* Movimentacao, that keeps another rule, at least does not miss any of it.
\* Only the reports know the reason "AE": refused with it, a payment would be
\* paid again and not shown.
PendenciaEhOQueSePaga ==
    LET falhas == UNION {opas[i].ordens : i \in {j \in Ids : Pendente(j) \/ NuncaEnviado(j)}}
    IN  /\ Confere(IF Guardador THEN ErroGuardador ELSE Erro,
                   falhas \cup OrdensNuncaAgrupadas(Ordens))
        /\ ~Guardador => \A o \in falhas : Vezes(o, PendenciasMovimentacao) > 0

\* A parent and the children it pays are never counted together: without a
\* filter two groupings never add the same order to the Consolidado, and what
\* the bank has not answered for good is there, as long as no file was
\* returned whole (a file sent again shows its parents refused, and so hides
\* them, until the answer).  Two attempts of one grouping are two rows.
ContadaUmaVez ==
    ~Guardador =>
        /\ \A r, q \in SemFiltro : r.opa # q.opa => r.valor \cap q.valor = {}
        /\ ~HaDevolvido =>
              \A k \in DOMAIN instrucoes :
                  instrucoes[k].fase \in {"recebida", "incluida"} =>
                      \A o \in instrucoes[k].valor : Vezes(o, SemFiltro) > 0

\* Once every answer was read, what the screens show as paid is what the bank
\* credited, each order once, by itself or through its parents.
PagoConfere ==
    (\A k \in DOMAIN instrucoes : instrucoes[k].retorno = <<>>) =>
        LET pagas == {o \in Ordens : creditos[o] > 0}
        IN  IF Guardador THEN Confere(PagoGuardador, pagas)
            ELSE Confere(PagoConsolidado, pagas) /\ Confere(PagoMovimentacao, pagas)
=============================================================================
