----------------------------- MODULE Sincronizacao -----------------------------
(***************************************************************************)
(* How payment orders come from BigQuery: sincronizarOrdensPagamento, the  *)
(* hourly job that calls it under the lock and then groups what it        *)
(* brought, the manual synchronisation, which takes no lock, and the       *)
(* review of the quarantine.                                               *)
(*                                                                         *)
(* An execution keeps two copies: what BigQuery answered, and the orders   *)
(* as they were when it began its loop.  It decides by them, order by      *)
(* order, whether to insert, to update or to hold a change for review,     *)
(* while BigQuery, the registers, the groupings and the reviewer move on.  *)
(* The update and its audit row are two writes, with no transaction.       *)
(*                                                                         *)
(* A version of an order is a number; Dados gives its two amounts.  valor  *)
(* and valorGratuidade are grouped apart, so an order may be free in one   *)
(* and contained in the other.  One owner is enough: orders do not share   *)
(* anything but the grouping of a payment day.                             *)
(***************************************************************************)
EXTENDS PeriodoPagamento, FiniteSets, Sequences

CONSTANTS
    Ordens,       \* the ids of BigQuery
    DiaDe,        \* the day each was captured
    Versoes,      \* 1..n, the contents BigQuery gives, in the order it does
    VersoesDe,    \* those an order goes through
    Dados,        \* Dados[v][campo], the amounts of a version
    Jobs,         \* executions of the hourly job
    Manual,       \* the synchronisation an administrator asks for
    Instancias, InstanciaDe, Conexoes, PoolDe,   \* see TravaDistribuida
    Ninguem,      \* no connection, no order
    MaxVezes, MaxQuedas,
    PrimeiroDia, MaxDia,   \* the days of a run
    MaxFalhas,    \* bound on rejected calls
    Riscos        \* see RiscosPossiveis

RiscosPossiveis ==
    { "sobrepor",       \* a manual synchronisation, or the grouping of
                        \* gratuities, while another execution runs
      "mesmaConexao",   \* see TravaDistribuida
      "conexaoFecha",
      "semAuditar",     \* the audit row is refused, or the instance restarts before it
      "aprovarAntiga",  \* approving a row BigQuery no longer says
      "voltaDeVersao",  \* BigQuery goes back to an earlier content
      "atravessaDia" }  \* an execution lasts into the next day

Campos    == {"valor", "valorGratuidade"}
Processos == Jobs \cup {Manual}
NULL      == 0    \* no version, and no payment day

ASSUME SincronizacaoAssumption ==
    /\ DiaDe \in [Ordens -> Int]
    /\ Versoes \subseteq Nat \ {NULL}
    /\ VersoesDe \in [Ordens -> SUBSET Versoes]
    /\ Dados \in [Versoes -> [Campos -> Nat]]
    /\ \A v, w \in Versoes : Dados[v] = Dados[w] => v = w
    /\ IsFiniteSet(Jobs) /\ Manual \notin Jobs
    /\ Ninguem \notin Ordens \cup Conexoes
    /\ InstanciaDe \in [Processos -> Instancias]
    /\ PoolDe \in [Conexoes -> Instancias]
    /\ MaxVezes \in Nat /\ MaxQuedas \in Nat
    /\ PrimeiroDia \in Nat \ {NULL} /\ MaxDia \in Nat /\ PrimeiroDia <= MaxDia
    /\ MaxFalhas \in Nat
    /\ Riscos \subseteq RiscosPossiveis

VARIABLES
    hoje,        \* the day
    bq,          \* BigQuery: the version it shows of each order
    cadastro,    \* the owner: "nenhum", "semConta" (or blocked), "comConta"
    ordem,       \* table ordem_pagamento
    parcelas,    \* what each grouping added to its total for an order, in order
    quarentena,  \* table ordem_pagamento_quarentena
    trilha,      \* the `depois` of ordem_pagamento_auditoria
    vista,       \* the version the last finished comparison of an order saw
    pc, dia, resposta, existentes, fila, atual, cursor,   \* of each execution
    falhas,
    dona, vezes, trava, quedas      \* of the lock

tabelas == <<ordem, parcelas, quarentena, trilha, vista>>
memoria == <<pc, dia, resposta, existentes, fila, atual, cursor>>
fora    == <<hoje, bq, cadastro>>
lock    == <<dona, vezes, trava, quedas>>
vars    == <<fora, tabelas, memoria, falhas, lock>>

Trava == INSTANCE TravaDistribuida
           WITH Execucoes <- Jobs,
                InstanciaDe <- [j \in Jobs |-> InstanciaDe[j]],
                Riscos <- Riscos \cap {"mesmaConexao", "conexaoFecha"},
                pc <- trava

\* A row of ordem_pagamento.  grupo[c] is the payment day of the grouping the
\* order is in, for that amount.
Inexistente == [existe |-> FALSE, dono |-> FALSE,
                dados |-> [c \in Campos |-> NULL], grupo |-> [c \in Campos |-> NULL]]
Nova(dono, v) == [existe |-> TRUE, dono |-> dono,
                  dados |-> Dados[v], grupo |-> [c \in Campos |-> NULL]]

Livre(r, c) == r.grupo[c] = NULL

SemResposta   == [o \in Ordens |-> NULL]
SemExistentes == [o \in Ordens |-> Inexistente]
SemCursor     == [o \in {} |-> NULL]

Init ==
    /\ hoje = PrimeiroDia
    /\ bq = SemResposta
    /\ cadastro = "nenhum"
    /\ ordem = SemExistentes
    /\ parcelas = [o \in Ordens |-> [c \in Campos |-> <<>>]]
    /\ quarentena = {}
    /\ trilha = {}
    /\ vista = SemResposta
    /\ pc = [p \in Processos |-> "fora"]
    /\ dia = [p \in Processos |-> PrimeiroDia]
    /\ resposta = [p \in Processos |-> SemResposta]
    /\ existentes = [p \in Processos |-> SemExistentes]
    /\ fila = [p \in Processos |-> {}]
    /\ atual = [p \in Processos |-> Ninguem]
    /\ cursor = [p \in Processos |-> SemCursor]
    /\ falhas = 0
    /\ Trava!Init

Parados == \A p \in Processos : pc[p] = "fora"

\* An execution that ends keeps nothing.
Esquecer(ps) ==
    /\ dia' = [p \in Processos |-> IF p \in ps THEN PrimeiroDia ELSE dia[p]]
    /\ resposta' = [p \in Processos |-> IF p \in ps THEN SemResposta ELSE resposta[p]]
    /\ existentes' = [p \in Processos |-> IF p \in ps THEN SemExistentes ELSE existentes[p]]
    /\ fila' = [p \in Processos |-> IF p \in ps THEN {} ELSE fila[p]]
    /\ atual' = [p \in Processos |-> IF p \in ps THEN Ninguem ELSE atual[p]]
    /\ cursor' = [p \in Processos |-> IF p \in ps THEN SemCursor ELSE cursor[p]]

-----------------------------------------------------------------------------
(* Around the application.                                                 *)

\* BigQuery shows an order, that day or later.  After its cycle the job does
\* not look for it any more, and only the manual one brings it.
Publicar(o) ==
    /\ bq[o] = NULL
    /\ DiaDe[o] <= hoje
    /\ \E v \in VersoesDe[o] : bq' = [bq EXCEPT ![o] = v]
    /\ UNCHANGED <<hoje, cadastro, tabelas, memoria, falhas, lock>>

\* BigQuery corrects an order.
Corrigir(o) ==
    /\ bq[o] # NULL
    /\ \E v \in VersoesDe[o] :
          /\ v # bq[o]
          /\ v > bq[o] \/ "voltaDeVersao" \in Riscos
          /\ bq' = [bq EXCEPT ![o] = v]
    /\ UNCHANGED <<hoje, cadastro, tabelas, memoria, falhas, lock>>

\* The owner is registered, gives a bank account, is blocked, is unblocked.
Cadastrar ==
    /\ cadastro' \in {"semConta", "comConta"} \ {cadastro}
    /\ UNCHANGED <<hoje, bq, tabelas, memoria, falhas, lock>>

VirarDia ==
    /\ hoje < MaxDia
    /\ "atravessaDia" \in Riscos \/ Parados
    /\ hoje' = hoje + 1
    /\ UNCHANGED <<bq, cadastro, tabelas, memoria, falhas, lock>>

-----------------------------------------------------------------------------
(* The synchronisation.                                                    *)

\* The hourly job takes the lock and computes its period.
AcquireLock(j) ==
    /\ "sobrepor" \in Riscos \/ pc[Manual] = "fora"
    /\ pc[j] = "fora"
    /\ Trava!AcquireLock(j)
    /\ pc' = [pc EXCEPT ![j] = "consultar"]
    /\ dia' = [dia EXCEPT ![j] = hoje]
    /\ UNCHANGED <<fora, tabelas, resposta, existentes, fila, atual, cursor, falhas>>

\* getFromWeek: what BigQuery has of the days captured in the period.
Responder(p, periodo) ==
    /\ resposta' = [resposta EXCEPT ![p] =
                      [o \in Ordens |-> IF DiaDe[o] \in periodo THEN bq[o] ELSE NULL]]
    /\ pc' = [pc EXCEPT ![p] = "buscar"]

Consultar(j) ==
    /\ pc[j] = "consultar"
    /\ Responder(j, DataInicio(dia[j])..DataFim(dia[j]))
    /\ UNCHANGED <<fora, tabelas, dia, existentes, fila, atual, cursor, falhas, lock>>

\* sincronizarOrdensPorPeriodo: any days, no lock.
IniciarManual ==
    /\ "sobrepor" \in Riscos \/ Parados
    /\ pc[Manual] = "fora"
    /\ \E ini, fim \in PrimeiroDia..hoje : ini <= fim /\ Responder(Manual, ini..fim)
    /\ UNCHANGED <<fora, tabelas, dia, existentes, fila, atual, cursor, falhas, lock>>

\* Mutant: the entities without their foreign keys, which the QueryBuilder
\* does not fill.
BuscarPorBqIdsSemVinculos(p) ==
    /\ pc[p] = "buscar"
    /\ fila' = [fila EXCEPT ![p] = {o \in Ordens : resposta[p][o] # NULL}]
    /\ existentes' = [existentes EXCEPT ![p] =
          [o \in Ordens |-> IF resposta[p][o] # NULL
              THEN [ordem[o] EXCEPT !.grupo = Inexistente.grupo] ELSE Inexistente]]
    /\ pc' = [pc EXCEPT ![p] = "laco"]
    /\ UNCHANGED <<fora, tabelas, dia, resposta, atual, cursor, falhas, lock>>

\* One query for all the orders of the answer, before the loop; a second one
\* brings their groupings.
BuscarPorBqIds(p) ==
    /\ pc[p] = "buscar"
    /\ fila' = [fila EXCEPT ![p] = {o \in Ordens : resposta[p][o] # NULL}]
    /\ existentes' = [existentes EXCEPT ![p] =
          [o \in Ordens |-> IF resposta[p][o] # NULL THEN ordem[o] ELSE Inexistente]]
    /\ pc' = [pc EXCEPT ![p] = "laco"]
    /\ UNCHANGED <<fora, tabelas, dia, resposta, atual, cursor, falhas, lock>>

\* camposDivergentes, by the copy the execution has; the free ones are
\* applied and the others held.
Divergentes(p, o) ==
    {c \in Campos : existentes[p][o].dados[c] # Dados[resposta[p][o]][c]}
\* Mutant: an order with one amount free is free.
AplicaveisQualquer(p, o) ==
    {c \in Divergentes(p, o) : \E k \in Campos : Livre(existentes[p][o], k)}
Aplicaveis(p, o) == {c \in Divergentes(p, o) : Livre(existentes[p][o], c)}
Contidos(p, o) == Divergentes(p, o) \ Aplicaveis(p, o)

\* ordemLivreParaVincular: the owner is looked for again.
SemDono(r) == ~r.dono /\ \A c \in Campos : Livre(r, c)

\* vincularUsuario: only if the row still has no owner and no grouping.
Vincular(r, existente) ==
    IF SemDono(existente) /\ cadastro # "nenhum" /\ SemDono(r)
    THEN [r EXCEPT !.dono = TRUE] ELSE r

\* Go on with the next order.
Proxima(p, o) ==
    /\ fila' = [fila EXCEPT ![p] = @ \ {o}]
    /\ atual' = [atual EXCEPT ![p] = Ninguem]
    /\ pc' = [pc EXCEPT ![p] = "laco"]
    /\ UNCHANGED <<dia, resposta, existentes, cursor>>

Passar(p, o, passo) ==
    /\ atual' = [atual EXCEPT ![p] = o]
    /\ pc' = [pc EXCEPT ![p] = passo]
    /\ UNCHANGED <<dia, resposta, existentes, fila, cursor>>

\* A new order.  bqId is unique: the insert of one that another execution
\* inserted first is refused, an error of that order.
Duplicada(p, o) == ~existentes[p][o].existe /\ ordem[o].existe

Inserir(p, o) ==
    /\ pc[p] = "laco" /\ o \in fila[p]
    /\ ~existentes[p][o].existe /\ ~Duplicada(p, o)
    /\ ordem' = [ordem EXCEPT ![o] = Nova(cadastro # "nenhum", resposta[p][o])]
    /\ Passar(p, o, "auditar")
    /\ UNCHANGED <<fora, parcelas, quarentena, trilha, vista, falhas, lock>>

\* Changed and free: the row is updated by its id, whatever it is by now.
Atualizar(p, o) ==
    /\ pc[p] = "laco" /\ o \in fila[p]
    /\ existentes[p][o].existe
    /\ Aplicaveis(p, o) # {}
    /\ LET r == Vincular(ordem[o], existentes[p][o])
           novos == [c \in Campos |-> IF c \in Aplicaveis(p, o)
                                      THEN Dados[resposta[p][o]][c] ELSE r.dados[c]]
       IN  ordem' = [ordem EXCEPT ![o] = [r EXCEPT !.dados = novos]]
    /\ Passar(p, o, "auditar")
    /\ UNCHANGED <<fora, parcelas, quarentena, trilha, vista, falhas, lock>>

\* The same, or changed only where it is contained.
Manter(p, o) ==
    /\ pc[p] = "laco" /\ o \in fila[p]
    /\ existentes[p][o].existe
    /\ Aplicaveis(p, o) = {}
    /\ ordem' = [ordem EXCEPT ![o] = Vincular(ordem[o], existentes[p][o])]
    /\ \/ /\ Contidos(p, o) = {}
          /\ Proxima(p, o)
          /\ vista' = [vista EXCEPT ![o] = resposta[p][o]]
       \/ /\ Contidos(p, o) # {}
          /\ Passar(p, o, "conter")
          /\ UNCHANGED vista
    /\ UNCHANGED <<fora, parcelas, quarentena, trilha, falhas, lock>>

\* Mutant: only an insert leaves an audit row.
EscritosSoNova(p, o) == IF existentes[p][o].existe THEN {} ELSE Campos
\* The audit row of an insert or an update.
Escritos(p, o) == IF existentes[p][o].existe THEN Aplicaveis(p, o) ELSE Campos

Auditar(p) ==
    /\ pc[p] = "auditar"
    /\ LET o == atual[p] IN
       /\ trilha' = trilha \cup
             {<<o, c, Dados[resposta[p][o]][c]>> : c \in Escritos(p, o)}
       /\ \/ /\ existentes[p][o].existe /\ Contidos(p, o) # {}
             /\ Passar(p, o, "conter")
             /\ UNCHANGED vista
          \/ /\ ~(existentes[p][o].existe /\ Contidos(p, o) # {})
             /\ Proxima(p, o)
             /\ vista' = [vista EXCEPT ![o] = resposta[p][o]]
    /\ UNCHANGED <<fora, ordem, parcelas, quarentena, falhas, lock>>

\* Mutant: an order that was in quarantine once is not put there again.
JaEmQuarentenaPorOrdem(o, v) == \E q \in quarentena : q.ordem = o
\* This version of BigQuery was already in quarantine, whatever became of it.
JaEmQuarentena(o, v) == \E q \in quarentena : q.ordem = o /\ q.versao = v

\* enviarParaQuarentena, with its audit row.
Conter(p) ==
    /\ pc[p] = "conter"
    /\ LET o == atual[p]
           v == resposta[p][o]
       IN  /\ quarentena' =
                 IF JaEmQuarentena(o, v) THEN quarentena
                 ELSE quarentena \cup {[ordem |-> o, versao |-> v,
                                        campos |-> Contidos(p, o), status |-> "pendente"]}
           /\ vista' = [vista EXCEPT ![o] = v]
           /\ Proxima(p, o)
    /\ UNCHANGED <<fora, ordem, parcelas, trilha, falhas, lock>>

\* The loop is over: the job goes on to group, the manual one is done.
\* reconciliarPorDia and finalizarExecucao only write for the reports.
Concluir(p) ==
    /\ pc[p] = "laco" /\ fila[p] = {}
    /\ pc' = [pc EXCEPT ![p] = IF p = Manual THEN "fora" ELSE "agrupar"]
    /\ resposta' = [resposta EXCEPT ![p] = SemResposta]
    /\ existentes' = [existentes EXCEPT ![p] = SemExistentes]
    /\ UNCHANGED <<fora, tabelas, dia, fila, atual, cursor, falhas, lock>>

-----------------------------------------------------------------------------
(* The grouping.                                                           *)

\* Mutant: P_AGRUPAR_ORDENS takes the grouped orders too.
AgrupaveisSemVinculo(j) ==
    {o \in Ordens : ordem[o].dono /\ DiaDe[o] \in DataInicio(dia[j])..DataFim(dia[j])}
\* The cursor of P_AGRUPAR_ORDENS: the free orders with an owner, and their
\* amounts as they are when it opens.
Agrupaveis(j) ==
    {o \in Ordens : /\ ordem[o].dono
                    /\ Livre(ordem[o], "valor")
                    /\ DiaDe[o] \in DataInicio(dia[j])..DataFim(dia[j])}

AbrirCursor(j) ==
    /\ pc[j] = "agrupar"
    /\ cursor' = [cursor EXCEPT ![j] =
                    [o \in Agrupaveis(j) |-> ordem[o].dados["valor"]]]
    /\ pc' = [pc EXCEPT ![j] = "gravar"]
    /\ UNCHANGED <<fora, tabelas, dia, resposta, existentes, fila, atual, falhas, lock>>

\* The orders in os enter the groupings of a payment day with the amounts ns.
Agrupar(os, c, pagamento, ns) ==
    /\ ordem' = [o \in Ordens |-> IF o \in os
                    THEN [ordem[o] EXCEPT !.grupo[c] = pagamento] ELSE ordem[o]]
    /\ parcelas' = [o \in Ordens |-> IF o \in os
                    THEN [parcelas[o] EXCEPT ![c] = Append(@, ns[o])] ELSE parcelas[o]]

\* Its loop, up to the COMMIT: each order is added to the total of the
\* grouping of that payment, and linked to it by its id.  An owner without a
\* bank account, or blocked, is passed over: a rule of the procedure of the
\* gratuities, which states it is also that of p_agrupar_ordens, though the
\* version of the latter in the repository has not got it.
AgruparOrdens(j) ==
    /\ pc[j] = "gravar"
    /\ Agrupar({o \in DOMAIN cursor[j] : cadastro = "comConta"}, "valor",
               DataPagamento(dia[j]), cursor[j])
    /\ pc' = [pc EXCEPT ![j] = "soltar"]
    /\ cursor' = [cursor EXCEPT ![j] = SemCursor]
    /\ UNCHANGED <<fora, quarentena, trilha, vista, dia, resposta, existentes, fila,
                   atual, falhas, lock>>

\* The remessa of gratuities (P_AGRUPAR_ORDENS_GRATUIDADE): the orders of the
\* day, paid the same day; no lock.
AgruparGratuidade ==
    /\ "sobrepor" \in Riscos \/ Parados
    /\ LET os == {o \in Ordens : /\ ordem[o].dono
                                 /\ cadastro = "comConta"
                                 /\ Livre(ordem[o], "valorGratuidade")
                                 /\ ordem[o].dados["valorGratuidade"] > 0
                                 /\ DiaDe[o] = hoje}
       IN  /\ os # {}
           /\ Agrupar(os, "valorGratuidade", hoje,
                      [o \in os |-> ordem[o].dados["valorGratuidade"]])
    /\ UNCHANGED <<fora, quarentena, trilha, vista, memoria, falhas, lock>>

-----------------------------------------------------------------------------
(* Failures, the end, and the reviewer.                                    *)

\* The finally of the job.
ReleaseLock(j) ==
    /\ pc[j] = "soltar"
    /\ Trava!ReleaseLock(j)
    /\ pc' = [pc EXCEPT ![j] = "fora"]
    /\ Esquecer({j})
    /\ UNCHANGED <<fora, tabelas, falhas>>

\* Mutant: the lock is released only when the job worked.
AbortarSemFinally(p) ==
    /\ falhas < MaxFalhas
    /\ pc[p] \in {"consultar", "buscar", "agrupar", "gravar"}
    /\ pc' = [pc EXCEPT ![p] = "fora"]
    /\ Esquecer({p})
    /\ falhas' = falhas + 1
    /\ UNCHANGED <<fora, tabelas, lock>>

\* A call outside the loop is rejected: the execution is over, and a grouping
\* not committed is undone.
Abortar(p) ==
    /\ falhas < MaxFalhas
    /\ pc[p] \in {"consultar", "buscar", "agrupar", "gravar"}
    /\ pc' = [pc EXCEPT ![p] = IF p = Manual THEN "fora" ELSE "soltar"]
    /\ Esquecer({p})
    /\ falhas' = falhas + 1
    /\ UNCHANGED <<fora, tabelas, lock>>

\* A call for an order is rejected: the order counts as an error and the loop
\* goes on.
ErroNaOrdem(p, o) ==
    /\ Duplicada(p, o) \/ falhas < MaxFalhas
    /\ \/ pc[p] = "laco" /\ o \in fila[p]
       \/ pc[p] = "conter" /\ o = atual[p]
       \/ "semAuditar" \in Riscos /\ pc[p] = "auditar" /\ o = atual[p]
    /\ Proxima(p, o)
    /\ falhas' = IF Duplicada(p, o) THEN falhas ELSE falhas + 1
    /\ UNCHANGED <<fora, tabelas, lock>>

\* An instance restarts.
Reiniciar(i) ==
    /\ Trava!Reiniciar(i)
    /\ LET ps == {p \in Processos : InstanciaDe[p] = i}
       IN  /\ "semAuditar" \in Riscos \/ \A p \in ps : pc[p] # "auditar"
           /\ pc' = [p \in Processos |-> IF p \in ps THEN "fora" ELSE pc[p]]
           /\ Esquecer(ps)
    /\ UNCHANGED <<fora, tabelas, falhas>>

FecharConexao ==
    /\ Trava!FecharConexao
    /\ UNCHANGED <<fora, tabelas, memoria, falhas>>

Revisada(q, status) == (quarentena \ {q}) \cup {[q EXCEPT !.status = status]}

\* revisarQuarentena, one transaction with the row and the order locked:
\* approving writes the held amounts, in a grouping or not, and leaves the
\* total of the grouping as it is.
Aprovar(q) ==
    /\ q.status = "pendente"
    /\ "aprovarAntiga" \in Riscos \/ q.versao = bq[q.ordem]
    /\ ordem' = [ordem EXCEPT ![q.ordem].dados =
          [c \in Campos |-> IF c \in q.campos THEN Dados[q.versao][c] ELSE @[c]]]
    /\ trilha' = trilha \cup {<<q.ordem, c, Dados[q.versao][c]>> : c \in q.campos}
    /\ quarentena' = Revisada(q, "aprovada")
    /\ UNCHANGED <<fora, parcelas, vista, memoria, falhas, lock>>

Rejeitar(q) ==
    /\ q.status = "pendente"
    /\ quarentena' = Revisada(q, "rejeitada")
    /\ UNCHANGED <<fora, ordem, parcelas, trilha, vista, memoria, falhas, lock>>

-----------------------------------------------------------------------------

\* A step of an execution.
Passo(p) ==
    \/ BuscarPorBqIds(p) \/ Auditar(p) \/ Conter(p) \/ Concluir(p)
    \/ \E o \in Ordens : Inserir(p, o) \/ Atualizar(p, o) \/ Manter(p, o)

PassoDoJob(j) ==
    Consultar(j) \/ Passo(j) \/ AbrirCursor(j) \/ AgruparOrdens(j) \/ ReleaseLock(j)

Next ==
    \/ \E o \in Ordens : Publicar(o) \/ Corrigir(o)
    \/ Cadastrar \/ VirarDia
    \/ \E j \in Jobs : AcquireLock(j) \/ PassoDoJob(j)
    \/ IniciarManual \/ Passo(Manual)
    \/ AgruparGratuidade
    \/ \E p \in Processos : Abortar(p) \/ \E o \in Ordens : ErroNaOrdem(p, o)
    \/ \E i \in Instancias : Reiniciar(i)
    \/ FecharConexao
    \/ \E q \in quarentena : Aprovar(q) \/ Rejeitar(q)

Spec == Init /\ [][Next]_vars

-----------------------------------------------------------------------------
(* Properties.                                                             *)

\* Every variable has its type, and the place of an execution says whether
\* it has an order in hand and whether its lock is running.
TypeOK ==
    /\ hoje \in PrimeiroDia..MaxDia
    /\ bq \in [Ordens -> Versoes \cup {NULL}]
    /\ cadastro \in {"nenhum", "semConta", "comConta"}
    /\ ordem \in [Ordens -> [existe : BOOLEAN, dono : BOOLEAN,
                             dados : [Campos -> Nat], grupo : [Campos -> Int]]]
    /\ parcelas \in [Ordens -> [Campos -> Seq(Nat)]]
    /\ quarentena \subseteq [ordem : Ordens, versao : Versoes, campos : SUBSET Campos,
                             status : {"pendente", "aprovada", "rejeitada"}]
    /\ trilha \subseteq Ordens \X Campos \X Nat
    /\ vista \in [Ordens -> Versoes \cup {NULL}]
    /\ pc \in [Processos -> {"fora", "consultar", "buscar", "laco", "auditar", "conter",
                             "agrupar", "gravar", "soltar"}]
    /\ fila \in [Processos -> SUBSET Ordens]
    /\ \A p \in Processos : pc[p] \in {"auditar", "conter"} <=> atual[p] \in Ordens
    /\ \A p \in Processos : DOMAIN cursor[p] \subseteq Ordens
    /\ \A j \in Jobs : pc[j] # "fora" <=> trava[j] = "rodando"
    /\ falhas \in 0..MaxFalhas

\* An amount of an order enters the total of one grouping, once, whatever
\* executions, failures and restarts came in between.
SomadaUmaVez ==
    \A o \in Ordens, c \in Campos :
        Len(parcelas[o][c]) = IF Livre(ordem[o], c) THEN 0 ELSE 1

\* The total of a grouping is made of the amounts its orders have, except
\* where a reviewer approved another (the total is not corrected).
SomaConfere ==
    \A o \in Ordens, c \in Campos :
        \/ Livre(ordem[o], c)
        \/ parcelas[o][c][1] = ordem[o].dados[c]
        \/ \E q \in quarentena : q.ordem = o /\ c \in q.campos /\ q.status = "aprovada"

\* "mudou, ordem contida -> NAO altera" (ordem-sync-auditoria.ts:48): only an
\* approval changes an amount that is in a grouping, also when the execution
\* read the order before it was grouped.
NaoAlteraContida ==
    [][\A o \in Ordens, c \in Campos :
          ~Livre(ordem[o], c) /\ ordem'[o].dados[c] # ordem[o].dados[c]
          => \E q \in quarentena : /\ q.ordem = o /\ c \in q.campos
                                  /\ [q EXCEPT !.status = "aprovada"] \in quarentena']_vars

\* Every amount an order has is the `depois` of an audit row, or the row is
\* about to be written.
MudancaAuditada ==
    \A o \in Ordens :
        ordem[o].existe =>
        \/ \A c \in Campos : <<o, c, ordem[o].dados[c]>> \in trilha
        \/ \E p \in Processos : pc[p] = "auditar" /\ atual[p] = o

\* Once an execution compared an order with the version BigQuery still
\* shows, a difference is in front of a reviewer, or was refused by one.
DivergenciaVisivel ==
    \A o \in Ordens :
        vista[o] = bq[o] /\ bq[o] # NULL =>
        \A c \in Campos :
            \/ ordem[o].dados[c] = Dados[bq[o]][c]
            \/ \E q \in quarentena : /\ q.ordem = o /\ q.versao = bq[o] /\ c \in q.campos
                                   /\ q.status \in {"pendente", "rejeitada"}

\* An order is paid on the day the monthly report shows it under, in
\* whichever hour of its cycle the job grouped it.
PagaNoDiaDaJanela ==
    \A o \in Ordens :
        Livre(ordem[o], "valor") \/ ordem[o].grupo["valor"] = DataReferencia(DiaDe[o])
==============================================================================
