# Formal model of the payment core of api-cct

`api-cct` pays the operators of Rio's buses, vans and kiosks, and its parking
guards. It imports payment orders from BigQuery, groups them by payee, writes
CNAB 240 files (*remessas*) to the bank, reads the bank's return files
(*retornos*) to close each payment, and shows what became of it in reports.
The money moves at the bank; what the program must get right is **which
payments it asks for, how often, and what it says became of them**. These
modules state that, check it, and prove part of it.

Definitions keep the names of the source (Portuguese where the source is).
`PROJECT.json` maps every definition to the lines it models, lists the hazards
of the code with the properties aimed at each, and names for every property a
plausible bug that breaks it.

Contents: 1 the system, 2 the modules, 3 the runs, 4 what the violations say,
5 known exposures (risks), 6 proofs, 7 disagreements without a run,
8 not modelled, 9 plan.

## 1. The system

| Part (source) | State | Operations | Module |
| --- | --- | --- | --- |
| Synchronisation (`ordem-pagamento.service`, `cron-jobs.service`, `auditoria/`) | `ordem_pagamento`, quarantine, audit trail | hourly and manual import, comparison, update, review, then grouping | `Sincronizacao`, `PeriodoPagamento` |
| Grouping (`P_AGRUPAR_ORDENS*`, `ordem-pagamento-agrupado.*`) | `ordem_pagamento_agrupado` (OPA), `..._historico` | normal, pending (permissionários, guardadores) | `Pagamento` |
| Preparo (`remessa.service`: `prepararRemessa`) | `HeaderArquivo`, `DetalheA/B`, status of the historico, NSA, undue payments | select, number, open header, debit, detail, status | `Preparo`, `Pagamento` |
| Sending (`gerarCnabText`, `enviarRemessa`, `renovarNsaRemessa`, `sftp.service`) | header status, the bank's folder | text, upload, dated copy, mark as sent, renew the NSA | `Preparo`, `Pagamento` |
| Clearing (`limparPreparo` of consorcio and pendente) | all of the above | undo today's preparo | `Pagamento` |
| Return (`retorno.service`, cron `updateRetorno`) | folders on SFTP, historico, `emProcessamento` | read, match, apply, surcharge, propagate, move | `Retorno`, `Conciliacao` |
| Lock (`distributed-lock`) | PostgreSQL advisory locks | acquire, release | `TravaDistribuida` |
| Reports (`relatorio/`) | none | which rows are pending, paid, listed | `Relatorio`, `PeriodoPagamento` |
| Agents and invites (`agentes/`, `mail-history`, `auth`, `auth-licensee`) | `user`, `invite`, `user_relationships`, a watermark | import, mail the queue, send again, conclude a registration | `Convites` |
| Statement, lancamentos, antifraud, sessions, dashboards | their tables | single writes or only reads | none (section 8) |

The parts have no calls between each other worth a message: they interact
through tables, each step being a few awaited queries outside a transaction
(the procedures and the clearings are transactions). So what is hard is:

* **order**: endpoints are pressed by an operator, in any order, days apart;
  one order is paid alone, then as a *filha* of a pending *pai*, then again;
* **interleaving**: cron ticks do not wait for each other; asynchronous
  preparos overlap with sending; several services share one open header; the
  manual synchronisation takes no lock; instances share a database;
* **staleness**: an execution decides order by order from two copies made at
  its start; a resend writes back an invite it read before the mail left;
* **crashes and exceptions** between any two awaits, with the operation
  repeated later on what was left;
* **the bank**: answers twice, late, out of order, with a code of the batch or
  of the payment or with no code at all, or rejects a whole file;
* **rules written several times**: what is pending, in two procedures and in
  the queries of two reports; the calendar of payments, in six places.

What makes each part correct: an amount is summed into one grouping and is
what the order says (synchronisation); an order is asked of the bank at most
once while the bank may still pay it, and is never paid twice (grouping,
preparo, clearing); what was sent is on record and findable by its answer
(preparo, sending); a payment is closed only after the bank credited it, every
file is read and every credit reaches the books (return); the reports list as
pending what would be paid again and as paid what was credited (reports);
everyone who should be invited is, and an invite that was used stays used
(invites).

## 2. Modules

| Module | What it is |
| --- | --- |
| `StatusRemessa` | The status machine as pure operators: `Baixa` is one turn of the loop of `atualizarStatusRemessaHistorico`, `Propagado` the UPDATE of `propagarPagamentoPaiParaFilhas`, `Casa` the WHERE of `getDetalheARetorno`. Shared by `Retorno`, `Pagamento`, `Preparo`. |
| `Conciliacao` | Abstract specification: the bank credits, then, once and for good, the program closes. |
| `Retorno` | Readers, the lock, files in folders, records applied one by one; bank and operator as environment. Implements `Conciliacao` (`Livro`). |
| `Pagamento` | One payee's orders through grouping, preparo, sending, answer, pending regrouping, clearing and resending; one action per endpoint, several days. |
| `Relatorio` | What the Consolidado and the Movimentação Financeira show of the tables of `Pagamento`; no state of its own. |
| `Preparo` | Preparing and sending one `HeaderName`, one action per awaited query: the NSA, the header, the debit of undue payments, details, status, upload, rejection of a file and its renewal; failures and restarts. |
| `TravaDistribuida` | The advisory lock of the synchronisation jobs over pools of connections, with several executions and instances. |
| `PeriodoPagamento` | The calendar, as functions of the day: the job's rule and the five other places that write it again. |
| `Sincronizacao` | The hourly job under the lock (it instantiates `TravaDistribuida`), the manual synchronisation, the two groupings and the review of the quarantine, against BigQuery. |
| `Convites` | The import of agents by a watermark, the queue of invites within its quota, resends, and the end of a registration. |
| `*_proofs` | Theorems about `Retorno`, `Pagamento` (its types in `PagamentoTipos_proofs`), `TravaDistribuida`, `Sincronizacao`, `Preparo`, `PeriodoPagamento` and `Convites`, checked by TLAPS. |
| `MC*` | Small instances for TLC. |

Compositions: `Relatorio` extends `Pagamento`, so that one run asks both what
is paid and what is shown; `Sincronizacao` instantiates `TravaDistribuida` and
extends `PeriodoPagamento`; `Retorno` implements `Conciliacao`.

### Retorno

A reader (`pc[l]`) is one execution of `retornoExec`: `Tick` starts it,
`LerRetornoSftp` and `GetFirstRetornoPagamento` list the folder and keep a
*copy* of a file, `SalvarRetorno` tests and sets `emProcessamento` in one
step (there is no await between the two), `ProcessarRegistro` applies one
record (match, `getHistorico`, and the saves of
`atualizarStatusRemessaHistorico`), and the two writes that come after those
have steps of their own: `AplicarAcrescimoIntersul` and
`PropagarPagamentoPaiParaFilhas`. `MoverPara` moves the file and lets the lock
go. `Excecao`, `ExcecaoAoMover` and `ExcecaoSftp` are the rejections the code
catches, at the place it catches them; `ExcecaoAoLer` is a file that cannot be
parsed, which throws before the `try` that moves files: the lock is given back
and the file stays. `Reiniciar` kills the readers and keeps the tables and
folders. What distinguishes payments in a match is `Chave`. The file's name
order is abstracted to any order. The several saves of one record on a family
are one step of the model; they concern rows that only this reader, holding
the lock, writes.

### Pagamento

An OPA is `[ordens, total, pai, dia, hist]`, a row of `hist` carries its status
and the `DetalheA` made for it (`header`, `valor`); `hist` is a function from
the rows' own numbers, so that deleting one does not rename the others. Amounts are **sets of
orders**, so that "which orders did this payment pay" can be asked, and two
amounts are equal only if they pay the same orders. `instrucoes` are the
payments the bank was asked for; `creditos` counts what it paid, order by
order. `prepararPagamentos` is two actions because the grouping procedure
commits by itself and also runs from the hourly job.

`favorecido` is the payee of a behaviour and never changes. Its `tipo` chooses
the procedure of pending payments: for permissionários PASSO 0 takes orders
older than ten days and PASSO 1 the refusals of the days asked for; for
guardadores PASSO 0 takes the days asked for, PASSO 1 every refusal, and a
third branch what was grouped before yesterday and never asked for
(`NuncaEnviado`). `iguais` are orders of that payee that are copies of one
another, rows of other ids with the same day and value, which is what
`fn_ordem_pagamento_ja_paga_ou_em_andamento` (`JaPagaOuEmAndamento`) looks for.

Nothing in the tables forbids paying twice; it follows from which statuses
each query looks at, *and from what the operator refrains from asking*, see
`Riscos` in section 5.

### Relatorio

A report is a set of rows `[opa, lugar, valor]`: the grouping, the row of its
historico, and the orders whose value it adds to the total. `Historicos`,
`Erro`, `SemFiltro` and `PagoConsolidado` are the queries of the Consolidado;
`Base`, `PagoMovimentacao` and `PendenciasMovimentacao` those of the
Movimentação; `BaseGuardador`, `ErroGuardador` and `PagoGuardador` those of
the screens of guardadores, asked over several days. Dates cover every day and
there is no filter by name or value. A pending payment stands in the tables
twice, as the child that was refused and as the parent sent in its place, so
the properties count how often a report adds each order.

### Preparo

Each preparo holds a snapshot of the rows still `Criado` and walks them: the
debit, `ExistsDetalheA`, `GerarDetalheAB`, `AtualizaStatusRemessa`, an await
between each. Opening a header is three steps: look for the open one, read and
save the NSA counter, save the header; so two preparos may each make one, and
`UNIQUE(ordemPagamentoAgrupadoHistoricoId)` refuses the second insert of a
detail. What the payee of an undue payment owes is read once for a row
(`LerIndevidos`) and debited later. The bank may reject a whole file;
`renovarNsaRemessa` then opens its header again with another number.
`inacabados` is what the operator knows: a preparo asked for and not known to
have finished.

### TravaDistribuida

`acquireLock` and `releaseLock` are queries of a pool; PostgreSQL gives the
lock to the **session** (`dona`), counts how often that session took it
(`vezes`) and lets it take it again. An action therefore picks any connection
of the instance's pool: `AcquireLock` runs the job if the lock is free or the
connection is the holder's, `ReleaseLock` (the `finally`) gives back one hold
if it is served by the holder's connection and none otherwise, or if the query
is rejected. `Reiniciar` ends the executions and sessions of one instance.

### PeriodoPagamento

A day is an integer. `DataInicio`, `DataFim` and `DataPagamento` are
`calcularPeriodoPagamento`; `JanelaConsorcios`, `DatasBase`,
`CalcularJanelaPagamento`, `DataReferencia` and the two `Stuc` operators are
the other places that write the calendar: the file of the consortia, the
monthly report and its detail, and the report of gratuities. date-fns is
modelled by what it does.

### Sincronizacao

An execution (`pc[p]`) asks BigQuery (`Consultar`), reads the orders it has
(`BuscarPorBqIds`), and then decides order by order: insert, update, keep, or
hold for review what is already in a grouping (`Conter`), each followed by its
audit row as another write (`Auditar`). A version of an order is a number and
`Dados` gives its two amounts, because `valor` and `valorGratuidade` are
grouped apart and an order may be free in one and contained in the other. The
hourly execution then groups with a cursor (`AbrirCursor`, `Agrupar`) under
the lock; the manual one takes no lock. `vista` is a history variable: the
version the last finished comparison saw.

### Convites

`Sincronizar` reads the rows changed since the watermark; a row is three
writes (`CriarUsuario`, `Convidar`, `Relacionar`); `FalharLinha` is a rejected
row, after which the mark may not move past it. Three constants say what a row
or a user may lack: a document (`Identificados`), without which nobody is
created; an association (`Associados`), without which nothing is related; a
permit code or a name (`Completos`), without which the invite is used and the
profile refused (`PerfilMostrado`). In the first two cases the row is done all
the same. `IniciarEnvio` reads the quota
and the unsent invites, then each is mailed (`EnviarConvite`, or
`EnvioRecusado`) and saved (`GravarEnvio`). `PedirReenvio` is the
administrator's resend, `AbrirConvite`, `ConcluirCadastro` and `AtivarUsuario`
the payee's part.

## 3. Runs

| Run | Bounds | Distinct states | Shows |
| --- | --- | --- | --- |
| `retorno_seguro` | an Intersul payment and a pending one with an old and a new child, 2 readers, 3 files, 1 restart, 1 exception, every order of files, batch codes | 1,680,276 | `TravaCorreta`, `BaixaSoComCredito`, `AcrescimoNoMaximoUmaVez`, and the refinement `ImplementaConciliacao`: whatever happens while files are read, a payment is closed only after its credit, once |
| `retorno_completo` | same payments, 2 readers, 4 files, bank waits for its files to be read, no failure, fair | 9,051 | at rest the books agree with the bank (`LivrosConferem`, `AcrescimoAplicado`, `FilhasSeguemPai`); every file leaves, every credit becomes a baixa |
| `retorno_lote_recusado` | 1 pending payment, 1 file | | **violation** of `FilhasSeguemPai` |
| `pagamento_disciplinado` | 2 orders (one old enough to be taken loose), 3 groupings; a permissionário over 2 days and 3 files, one over 2 days and 2 files whose two orders are copies of each other, a guardador over 3 days and 2 files; no risk | 539,023 | never paid twice, never two live requests, loose orders unpaid, books do not lie, every answer finds exactly its row, the criterion of the pending procedures is enough; and the reports: pending is what would be paid again, paid is what was credited, nothing counted twice |
| `pagamento_limpar_enviado` | 1 order, risk `limparEnviado` | | **violation** of `PagoNoMaximoUmaVez` |
| `pagamento_fresca_recusada` | 1 old loose order, no risk | | **violation** of `FalhaContinuaElegivel` |
| `preparo_disciplinado` | 3 rows, 3 preparos, two over the same two rows, one of them of a debtor who has the third, 3 headers, numbers from 999998, 1 rejected file, 2 restarts, 1 exception | 2,774,081 | asked once, on record, nothing left behind in a sent header, no open header of a file the bank has, no number used twice (past 999999 too), the debt falls by what the payments lack |
| `preparo_copia_perdida` | the copy may fail | | **violation** of `AbertoNaoEnviado` |
| `trava_instancias` | an instance with 2 connections and 2 executions, another with one of each, 6 holds, 2 restarts, risk `mesmaConexao` | | no release frees the lock under another execution (`TravaCobre`), no two instances run at once |
| `trava_mesma_conexao` | the same, 2 holds | | **violation** of `UmaExecucao` |
| `sincronizacao` | an order of a Thursday in 3 versions (the third changes only one amount) and one of the Friday after, in another cycle; 2 instances with a job each and the manual synchronisation; 1 restart, 1 rejected call, 2 days | 1,515,348 | an amount is summed once, in the right cycle, what is in a grouping changes only by an approval, every change is audited, every difference is before a reviewer |
| `convites` | 3 van drivers, one refusing every mail, 3 guards: one without association and permit code, who answers, one with an association and the same address, one without document and updated together with the second; 1 import and 1 mailer at a time, quota 2, 1 resend, 2 invites a user, 1 failure, midnight at any step; fair | 136,350 | no row is skipped, no user is without invite, the quota holds, who received can conclude (and sees its profile, if it is complete), a used invite stays used, every invite is mailed some day |

Why these bounds. Two readers are all that a boolean lock tells apart; three
files are an answer, its successor and one more read out of order; one restart
and one exception suffice for "applied twice", and with both the second half
of a file is applied by another reader. In `Pagamento` three groupings and
three files are a payment refused, its parent refused, and a second parent; or
two payments and the parent of both; the second order is what makes children,
totals and windows differ; the third day is what makes a grouping of a
guardador old enough to be "never sent". In `Preparo` two preparos over the
same rows contend for a header, a number and a detail, a row of a debtor among
them is what they must not have ahead together, a third preparo has another
row of that debtor, and numbers start one before the last so that a run passes
it. In `Sincronizacao` Thursday and Friday are the two sides of a border
between cycles, and three versions are the least with a change to one amount
and a change to both. In `Convites` one address that refuses and a quota of
two is the border case of the liveness property: a second one would block the
queue for ever. Of the two guards with one address the second to be imported is
left out, and a failure may make either the second.

All models but `convites` and those of `Retorno` stop when their bounds are
used up, hence `CHECK_DEADLOCK FALSE` there.

**Fairness.** `Retorno.FairSpec`: weak fairness of `Avancar(l)`, a reader's own
steps and the tick that starts it, justified by the cron, which ticks every 30
minutes whatever happened before, and by awaits that settle: the SFTP and
database clients reject or resolve. Nothing is assumed of the bank or of
failures; the run of liveness has `MaxQuedas = MaxFalhas = 0` because an
exception in the middle of a file really loses the records after it.
`Convites.Justica`: the two cron jobs (`cron-jobs.service.ts:158-273`) start
again and again and their awaits settle (weak fairness of starting and of each
step), and days pass, whatever runs at midnight. Nothing is assumed of who
answers an invite, of the administrator, or of failures (at most `MaxFalhas`).

## 4. What the violations say

1. `retorno_lote_recusado`: `retorno.service.ts:166` returns before the
   propagation when the batch of a pending payment is refused: the children
   keep their status, against the comment at lines 237-241. They are still
   `Criado` or keep an older reason.
2. `pagamento_limpar_enviado`: `limparPreparo` selects by the status
   `PreparadoParaEnvio`, which sending does not change, so clearing after
   sending frees orders the bank will pay; the comment says such groups never
   reached the bank.
3. `pagamento_fresca_recusada`: PASSO 1 wants a `DetalheA`, and a grouping made
   by PASSO 0 never has one, since what is sent is its parent. When the bank
   refuses that parent the orders are neither loose nor pending, no report
   lists them and no procedure takes them, against two comments that say such
   failures remain eligible.
4. `preparo_copia_perdida`: the upload succeeds, its dated copy fails, and the
   empty path says that nothing was sent: the header stays open with payments
   the bank has.
5. `trava_mesma_conexao`: the lock is re-entrant per session and the pool may
   serve two executions with one connection. Both hourly jobs call the method
   of modais (`cron-jobs.service.ts:280` and `290`), and so does the start of
   the application (`109`).

## 5. Known exposures

Every module names in `Riscos` what the code leaves to the operator, to its
neighbours or to luck. The passing runs have none (except `mesmaConexao` where
it is harmless); with one of them added to a run's `Riscos`, TLC finds the
property on the right violated.

| Module | Risk | What happens | Breaks |
| --- | --- | --- | --- |
| `Pagamento` | `limparEnviado` | a preparo whose file was sent is cleared | `PagoNoMaximoUmaVez` (a run) |
| | `pendenteDeDevolvido` | pending is grouped while a file was returned whole: `''` passes `IS NOT NULL` and `NOT IN`, and the file is sent again | `PagoNoMaximoUmaVez` |
| | `janelaAntiga` | a normal preparo over days already pending selects the children | `PagoNoMaximoUmaVez` |
| | `prepararDeNovo` | a normal preparo over days already asked of the bank takes a grouping again by an older row left `Criado` (4.1); needs 4 groupings, 5 files and 2 days of one order | `UmPedidoVivo`, `PagoNoMaximoUmaVez` |
| | `agruparDeNovo` | late orders join a grouping already prepared | `LivroNaoMente` |
| | `renovarAceito` | a file the bank took is renewed and sent again | `PagoNoMaximoUmaVez` |
| `Preparo` | `sobrepor` | sending while a preparo runs or is unfinished | `PedidoUmaVez`, `NadaFicaParaTras` |
| | `quedaAoEnviar`, `falhaNaCopia` | restart after the upload; the copy fails | `PedidoUmaVez`, `AbertoNaoEnviado` |
| | `nsaAoMesmoTempo` | two between read and save of the counter | `NsaUnico`, `PedidoUmaVez` |
| | `mesmaLinha` | a second preparo has a debtor's row ahead that the first has not saved as prepared: it debits again, or writes its own value over the first discount | `DividaConfere` |
| | `doisDescontos`, `cairAoDebitar`, `debitoPerdido` | a debt read for two rows; a preparo taken up after a debit; the debit's write, not awaited, is rejected | `DividaConfere` |
| `TravaDistribuida` | `mesmaConexao` | see 4.5 | `UmaExecucao` (a run) |
| | `conexaoFecha` | the pool closes the holder's idle connection (node-postgres does after ten seconds) and the database frees the lock while the job runs | `TravaCobre`, `UmaInstanciaPorVez` |
| `Sincronizacao` | `sobrepor` | a manual execution beside the job: it updates from what it read before the job grouped | `NaoAlteraContida`, `SomaConfere`, `DivergenciaVisivel` |
| | `conexaoFecha`; `mesmaConexao` with both jobs on one instance | two jobs at once: both have an order in their cursor | `SomadaUmaVez`, and those above |
| | `semAuditar` | rejected or interrupted between an update and its audit row | `MudancaAuditada` |
| | `voltaDeVersao` | BigQuery returns to a content reviewed before: it is not held again | `DivergenciaVisivel` |
| | `aprovarAntiga` | the reviewer approves a content BigQuery no longer has | `DivergenciaVisivel` |
| | `atravessaDia` | an execution computes its cycle, and groups the day after | `PagaNoDiaDaJanela` |
| `Convites` | `linhaAtrasada` | a row comes late with an older date than the mark | `NenhumaLinhaPulada` |
| | `quedaEntre` | restart between user and invite | `UsuarioTemConvite` |
| | `sobrepor`, `usarDuranteReenvio` | the invite is used while a mail is on its way | `ConviteUsadoNaoVolta` |
| | `sobrepor` | two executions read what is left of the quota before either mails; needs every address to accept | `QuotaRespeitada` |
| | `perderGravacao` | the mail left and the save did not happen | `RecebeuPodeConcluir`, `QuotaRespeitada` |
| | `reenviarNoDia` | an invite is mailed twice in a day and counts once; needs every address to accept | `QuotaRespeitada` |

`Sincronizacao`'s `mesmaConexao` needs both jobs on one instance, where the run
has them on two. Three premises are not risks but constants or guards of a run:
the first return answers "BD" (with "00", read again after a restart, it closes
a payment before its credit: `CodigosInclusao`), the bank waits for its first
return to be read (`BancoEspera`, for the properties at rest only), and fewer
addresses refuse than the quota allows (for `TodoConviteSai`).

## 6. Proofs

Checked by TLAPS, for every value of the constants. "Assumes" is what a
theorem needs beyond the module's own assumptions.

| Theorem | States | Assumes |
| --- | --- | --- |
| `Retorno_proofs!Tipos` | `TypeOK` | |
| `Retorno_proofs!Trava` | `TravaCorreta` | |
| `Retorno_proofs!BaixaCorreta` | `BaixaSoComCredito` | `SoPorBD`, `ChavesDistintas` |
| `Retorno_proofs!ImplementaLivro` | `ImplementaConciliacao` | `SoPorBD`, `ChavesDistintas` |
| `Retorno_proofs!AcrescimoCorreto` | `AcrescimoNoMaximoUmaVez` | |
| `Retorno_proofs!LivrosSempreConferem` | `LivrosConferem` | `BancoEspera`, `SoPorBD`, `ChavesDistintas`, no exception |
| `Retorno_proofs!FilhasSeguemSempre` | `FilhasSeguemPai` | `UmPaiPorFilha`, no refused batch, exception or restart |
| `Retorno_proofs!AcrescimoAplicadoSempre` | `AcrescimoAplicado` | no exception, no restart |
| `TravaDistribuida_proofs!TravaTipos` | `TypeOK` | |
| `TravaDistribuida_proofs!CobreSempre` | `TravaCobre` | no `conexaoFecha` |
| `TravaDistribuida_proofs!ExclusaoEntreInstancias` | `UmaInstanciaPorVez` | no `conexaoFecha` |
| `TravaDistribuida_proofs!SoPelaDonaSempre` | an execution that begins beside others was served by the connection that holds the lock, and is counted: the one way to what `trava_mesma_conexao` shows | no `conexaoFecha` |
| `PeriodoPagamento_proofs!JanelasLadrilhamSempre` | a day is in a cycle iff it has that payment | |
| `PeriodoPagamento_proofs!CopiasConcordamSempre` | the five other copies of the calendar agree with the job | |
| `PeriodoPagamento_proofs!LimiteProtegeSempre` | before the safe limit every payment day has passed | |
| `PagamentoTipos_proofs!TypeOKSempre` | `TypeOK` | |
| `Pagamento_proofs!InvSempre` | `IInv`, the inductive invariant below | no risk |
| `Pagamento_proofs!UmPedidoVivoSempre` | `UmPedidoVivo` | no risk |
| `Pagamento_proofs!PagoNoMaximoUmaVezSempre` | `PagoNoMaximoUmaVez` | no risk |
| `Pagamento_proofs!SoltaNaoPagaSempre` | `SoltaNaoPaga` | no risk |
| `Pagamento_proofs!LivroNaoMenteSempre` | `LivroNaoMente` | no risk |
| `Pagamento_proofs!RespostaAchaSuaLinhaSempre` | `RespostaAchaSuaLinha` | no risk |
| `Pagamento_proofs!PendenteNaoPagoSempre` | `PendenteNaoPago` | no risk |
| `Pagamento_proofs!ContadaUmaVezSempre` | `ContadaUmaVez` | no risk |
| `Pagamento_proofs!PagoConfereSempre` | `PagoConfere` | no risk, `MotivosMostrados` |
| `Pagamento_proofs!PendenciaEhOQueSePagaSempre` | `PendenciaEhOQueSePaga` | no risk, `MotivosMostrados` |
| `Sincronizacao_proofs!TypeOKSempre` | `TypeOK` | |
| `Sincronizacao_proofs!CumpreATrava` | a behaviour of `Sincronizacao` is one of `TravaDistribuida` | |
| `Sincronizacao_proofs!SomadaUmaVezSempre` | `SomadaUmaVez` | no `mesmaConexao`, `conexaoFecha` |
| `Sincronizacao_proofs!SomaConfereSempre` | `SomaConfere` | nor `sobrepor` |
| `Sincronizacao_proofs!NaoAlteraContidaSempre` | `NaoAlteraContida` | nor `sobrepor` |
| `Sincronizacao_proofs!DivergenciaVisivelSempre` | `DivergenciaVisivel` | nor `sobrepor`, `voltaDeVersao`, `aprovarAntiga` |
| `Sincronizacao_proofs!MudancaAuditadaSempre` | `MudancaAuditada` | no `semAuditar` |
| `Sincronizacao_proofs!PagaNoDiaSempre` | `PagaNoDiaDaJanela` | no `atravessaDia` |
| `Preparo_proofs!TypeOKSempre` | `TypeOK` | |
| `Preparo_proofs!PedidoNoLivroSempre` | `PedidoNoLivro` | no `sobrepor` |
| `Preparo_proofs!PedidoUmaVezSempre` | `PedidoUmaVez` | `EnvioDisciplinado`, `ContadorNaoVolta` |
| `Preparo_proofs!NadaFicaParaTrasSempre` | `NadaFicaParaTras` | `EnvioDisciplinado`, `ContadorNaoVolta` |
| `Preparo_proofs!AbertoNaoEnviadoSempre` | `AbertoNaoEnviado` | `EnvioDisciplinado`, `ContadorNaoVolta` |
| `Preparo_proofs!NsaUnicoSempre` | `NsaUnico` | `EnvioDisciplinado`, `ContadorNaoVolta` |
| `Preparo_proofs!DividaConfereSempre` | `DividaConfere` | finitely many rows; no `doisDescontos`, `mesmaLinha`, `cairAoDebitar`, `debitoPerdido` |
| `Convites_proofs!NenhumaLinhaPuladaSempre` | `NenhumaLinhaPulada` | no `linhaAtrasada` |
| `Convites_proofs!UsuarioTemConviteSempre` | `UsuarioTemConvite` | no `quedaEntre` |
| `Convites_proofs!RecebeuPodeConcluirSempre` | `RecebeuPodeConcluir` | no `perderGravacao` |
| `Convites_proofs!ConviteUsadoNaoVoltaSempre` | `ConviteUsadoNaoVolta` | no `sobrepor`, `usarDuranteReenvio` |
| `Convites_proofs!QuotaRespeitadaSempre` | `QuotaRespeitada` | no `sobrepor`, `perderGravacao`, `reenviarNoDia` |

`SoPorBD` says the bank includes with "BD" only. `ChavesDistintas` says no two
payments agree on payee, value, date and account: the code matches by those
four and takes the first. `EnvioDisciplinado` says that one request to send
runs at a time and excludes `sobrepor`, `quedaAoEnviar`, `falhaNaCopia` and
`nsaAoMesmoTempo`; `ContadorNaoVolta`, that the counter of files only grows.
`MotivosMostrados` says that the bank does not refuse with "AM" or "AE", the
two reasons a report may hide. It is needed: with "AE" for `Recusa` or
`ErroDeLote` TLC finds `PagoConfere` and `PendenciaEhOQueSePaga` violated, with
"AM" the second, by the Movimentação, which looks for "AM" in the row of the
parent too.

**Retorno.** `TypeOK` is inductive by itself: it also says that a reader past
the listing holds a file that was written and only records that are in it.
`TravaCorreta` is inductive given `TypeOK`: the lock is set where it is
tested, and each way out of the processing places frees it, also the exception
of a file that cannot be parsed. For `BaixaSoComCredito` the invariant is
`IInv`: files are never changed once written, so **every file that says "00"
of a payment tells of a credit, for ever** (`ArquivoDizCredito`), and the only
step that makes a row paid applies such a record to the row it matches, which
under `ChavesDistintas` is its own (`BaixaPaga`, `RegistroSoComCredito`). It
does not depend on which reader applies which copy how often, which is why
repeated and stale files are harmless. The refinement adds that a row that is
paid stays paid (a paid row does not match: `CasaNaoPago`) and that a record
closes one payment at a time. For the surcharge, a reader about to apply it
holds the lock and a row just closed and not yet charged (`AcrescimoDevido`);
a row once closed is never matched again, so no other reader gets there.

The three properties at rest each say what the work in progress may still owe.
For `LivrosConferem` (`LivrosAbertos`): only payments of the last file, while it
is in the folder, may disagree with the bank; their row is where the bank had it
before that file, or already where the file puts it, and a record brings either
to the second (`BaixaConfere`), so a file begun by a reader that a restart
killed, or applied by two, does no harm. For `FilhasSeguemPai`
(`FilhasSeguem`) and `AcrescimoAplicado` (`AcrescimoVem`): what is missing is on
its way, in the hands of a reader. Both hold for a bank that does not wait, and
the first theorem with restarts and refused batches, which the run leaves out.
What they assume is needed: with a bank that does not wait, "00" for an
inclusion, or one exception, TLC finds `LivrosConferem` violated; with one
restart or one exception the other two, which are saved after the status of the
parent; and with a refused batch `FilhasSeguemPai` (`retorno_lote_recusado`).
`UmPaiPorFilha` says that a child has one parent: `pai` is a column.

**TravaDistribuida.** That running executions belong to the instance of the
holder's session (`DonaEDaInstancia`) is not inductive: a release could free
the lock while another execution of the instance runs. It cannot, because the
session holds the lock at least once per running execution (`TravaCobre`):
each grant adds one hold and one execution, each release takes one execution
and at most one hold. So the hold that frees the lock is that of the last
execution. The two together are the inductive invariant. It also gives what is
left of "one execution at a time": since a lock that covers somebody is not
free, who gets in beside others was served by the holder's connection
(`SoPelaDonaSempre`).

**PeriodoPagamento.** A day is its week and its weekday (`SemanaEDia`); seven
cases of linear arithmetic each. That the windows tile is only proved: no run
states it, and `sincronizacao` checks what follows from it for the orders.

**Pagamento.** `PagamentoTipos_proofs` proves the types for whatever the
operator asks for (`Tipos` adds to `TypeOK` what a parent is). The six
properties are proved when `Riscos = {}`, for any orders, payees and bounds,
from one invariant, `IInv`. None of them is inductive alone, because a request
at the bank, its row, its file and the orders it covers are four tables that
nothing ties together. `IInv` says how they agree:

* `Grupos`, `Filhas`: an order is in one grouping; a parent pays what its
  children hold until it is refused; a child has no request of its own at the
  bank. With them, two groupings at the bank, or one there and one paid, share
  no order (`Separadas`).
* `Livro`, `UmPedidoPorGrupo`: the columns of a row agree with one another (a
  row without `DetalheA` was never prepared, a `DetalheA` pays the total of its
  grouping), and a grouping has one row with a `DetalheA`.
* `NuncaPedidos`: which rows a grouping never asked for has, so that a clearing
  leaves at least one and a preparo takes the right one.
* `Arquivos`: a row of an open file can be answered, one of a file that was
  sent is at the bank or was answered; a file is opened again only when all of
  its payments were returned and read.
* `Pedidos`: every payment the bank has, or whose answer was not read, has its
  row, in the status that answer expects (`LinhaDoPedido`); payments at the
  bank share no order.
* `Creditados`: an order was credited once or never, and the rows shown as paid
  cover credited orders only.

TLC checked `IInv` on the states of `pagamento_disciplinado` and on a longer
history of one order (5 groupings, 4 files, 3 days) before the proof. There is a
lemma for each endpoint. The reading of an answer (`InvLerRetorno`) is short
given `LerCerto`, which says that it changes the row of that payment and the
rows of its children, and nothing else. The proof also found the risk
`prepararDeNovo`: without that guard `NuncaPedidos` is not inductive, and TLC
turned the step that fails into a history with two payments.

**Relatorio.** The same module proves the reports, which have no state, from
`IInv` and one more invariant, `Baixadas`: a row has a reason that goes with
its status (`Motivadas`), a grouping that is no child is never paid through a
parent (`PagasPorSi`), and when a parent is paid no row of its children is left
in another status (`PagasComOPai`). `IInv` allows all three to fail, since it
only asks that a row shown as paid has credited orders; without the last one a
child would have a refused row beside the paid one, and the reports two. The
proofs do not compare sets of rows: a report that has for every grouping that
was paid (`FoiPaga`), or would be taken again (`Falhou`), the one row that says
so (`DizTudo`, `DizFalhas`), and nothing else, holds each of their orders once
(`DizTudoConfere`, `DizFalhasConfere`), since an order is in one grouping; what
remains is one short lemma for each query. For `ContadaUmaVez`, a parent that
shows is on its way (`Mostrada`), so each of its orders is of a child, whose own
request is then neither at the bank nor paid, but refused, and hidden. TLC
checked `Baixadas` before the proof.

**Sincronizacao.** One lemma per action says what it does to the tables and to
the memory of the execution (`Tipos`, with what the place of an execution says
of its memory, `EmOrdem`); `Casos` and `DeQuem` then sort the steps by what
they do and whose they are, and every proof splits on those. Each theorem
excludes the risks of section 5 that break its property, and no other:

* `CumpreATrava` maps a step to a step of the lock or a stutter. So one job runs
  at a time (`UmJob`), if the lock excludes; then nobody else groups the orders
  of an open cursor (`CursorLivre`), which makes `SomadaUmaVez` inductive.
  The manual synchronisation may run all the while: it groups nothing.
* `SomaConfere` and `NaoAlteraContida` need one execution at a time (`SoUm`):
  the grouping in a copy is then that of the order (`CopiaFiel`), so what the
  copy calls free is free, and the amounts of a cursor are those of its orders
  but for approvals (`CursorConfere`).
* `MudancaAuditada` is about two writes: an amount is in the audit, or the
  execution that wrote it, with this answer, still has to write the row
  (`Coberta`), and leaves that place only by writing it (`AuditandoFica`).
* `PagaNoDiaDaJanela`: nothing of an order is known before the day it was
  captured (`Capturadas`), a job ends on the day it began, so its cursor has
  captured days of its cycle up to that day (`NoSeuDia`), whose payment day is
  the one the reports compute (`PagamentoDoCiclo`, over the calendar).
* `DivergenciaVisivel` relates five copies of an order. When BigQuery goes only
  forward, so do answers, quarantine and `vista` (`EmVersao`). A step then
  either makes an amount what BigQuery shows (`Melhora`), or happens after
  BigQuery moved past whatever anybody has seen (`Passada`), and in both cases
  what was said of copies, of the order in hand and of the rows of the
  quarantine stays true (`CopiaFica`, `MaosFicam`, `LinhaFica`).

TLC checked the invariants on the instance of `sincronizacao`, with and without
the risks a theorem allows, before they were proved.

**Preparo.** `PedidoNoLivro` needs `InvLivro`: a preparo remembers every row of
its window that is not prepared yet (`LembraDosSeus`), so a `DetalheA` whose row
is still `Criado` belongs to a preparo that has not ended
(`DetalheTemPreparo`); without `sobrepor` a sender starts only when there is
none, hence takes only rows that are prepared (`LinhasNoLivro`).

The four properties of sending come from one invariant, `InvEnvio`, which adds
two parts. `Numeros`: a number that a header has, is about to get, or was
rejected with is not above the counter, whoever has read the counter and not
saved it is alone, and a number is in one place. `Banco`: **a header is one of
three things**, not asked for (`NaoPedida`: no row of it at the bank), asked for
(`Pedida`: each row of it once) or rejected (`Recusada`), and it is still open
only in the first case, or while its sender is past the upload; what a
sender holds is the whole of its header (`EnvioInteiro`), since no preparo writes
while it runs, and a renewal only reopens a rejected one (`RenovaRecusado`). Two
premises deserve a word. With two senders both may read one open header, which
is what `Remetentes` with one member stands for in the runs. And when the
counter goes round, numbers of files rejected 999,999 files ago come again:
`renovarNsaRemessa` looks a header up by such a number. The run does pass
999,999, with three files, so the properties are checked across that border and
proved on each side of it.

`DividaConfere` is about a sum over the rows that is right only between writes.
`InvDivida` says what is missing in between: a debit that was saved and whose
`DetalheA` was not (`Pendente`) is added to it (`ContaFecha`), there is at most
one, since only one preparo knows what is owed and has rows of the debtor ahead
(`CadaUmComASua`), what it read is still what is owed until it debits
(`LeituraConfere`), and the row it is about to write has no discount yet
(`DescontoDeQuem`, `LinhaConfere`). The proof found `mesmaLinha`: while a second
preparo could have the row, the last fact fails, and TLC turned that into a
history as soon as the shared row was the debtor's. The lemmas about the sum
(`SomaExiste`, `SomaZero`, `SomaTrocada`: one row changes the sum by what it
changes) are proved from the definition of the community module by taking a
smallest set that fails (`PorLinhas`), for there is no induction to cite.

**Convites.** The mark moves over rows, so the invariant `IndSinc` speaks of
every mark there is, saved or in the memory of an execution: nothing below it
is undone (`MarcasSeguras`), and what an execution no longer has in its list
is done or not older than the rest of it, until a row fails (`ListaEmDia`).
Whoever is about to be related is a user (`AtualCriado`), so a row that is left
is done also when it has no association.
`IndConvite` adds that an invite once written is never taken away.

The mails rest on `IndCorreio`, which needs no premise: an invite is written
once, by who created the user, and what is queued was never mailed again nor
shown as mailed that day (`ConviteInteiro`, `ConvidadoUmaVez`). With it,
`RecebidoNoRegistro` says that who received an invite has it as "sent" or
"used", or somebody is about to write that; it holds with any number of
executions at once. `UmCarteiro` and `ReenvioFiel` say what exclusion gives:
what an execution has left is still queued, each invite once, and the invite
that is mailed again is as it was read. `ContaDoDia` then counts: the mails of
the day are not more than the invites that say so, but for the one on its way,
and these and what is left to mail fit in the quota. The proof does not need
midnight to find nobody at work, so the model lets a day begin at any step.
`Unsent` is written as a recursive function instead of `SelectSeq`, which the
provers cannot expand; `UnsentEhFila` proves what it selects.

Only model-checked: liveness (`TodoArquivoSai`, `CreditoLevaABaixa` and the
others that need fairness), which is out of the prover's reach.

## 7. Disagreements without a run

Met while modelling the reports; the properties of `Relatorio` are stated
around them, and say so.

* The template of pending payments of the Movimentação does not apply
  `pendenciaRejeitadaPermissionario`, though the comment at
  `relatorio-novo-remessa-financial-movement.service.ts:465-471` says it
  follows the rule. A child whose parent was refused by its batch (4.1),
  grouped again and cleared, then prepared normally, is still listed as
  rejected while it is on its way. So `PendenciaEhOQueSePaga` only asks that
  the Movimentação misses nothing.
* Without a filter the Consolidado lists a refused attempt and the new attempt
  of one grouping as two rows: `ContadaUmaVez` compares different groupings.
* The parents of a file that is sent again are shown refused, and so hidden,
  until the bank answers; and the Movimentação never lists a pending parent on
  its way, which the Consolidado does (ADR 0017). No screen of guardadores
  lists one: `ContadaUmaVez` is about permissionários.
* Without a filter the Consolidado, and that of guardadores over several days,
  leave out paid children that no file of their own asked for, which the
  filter "Pago" shows: `PagoConfere` is about the filtered screens.
* The reason "AE" is hidden by the reports and by nothing else: the procedures
  would pay such a refusal again.
* Two loose orders of a guardador with the same day and value are one row of a
  report (`SELECT DISTINCT`) and two for the procedure; and the function that
  looks for copies only sees those already asked for, so two copies both loose
  or both refused are both paid. The normal grouping does not look at all.
* `findParent` does not look at the kind of payee: parents of the other kind
  are taken and skipped later for want of an order.

And while modelling the invites; `Convites` follows the code.

* The import takes a guard without `numero_identificacao`
  (`agentes-sync.service.ts:218`, `299-302`), creates the user and mails the
  invite; `getInviteProfile` marks that invite used and then refuses the user
  for want of a permit code (`auth-licensee.service.ts:221-250`).
  `concludeRegistration` means to refuse it too, but asks for `undefined`
  (line 323), and the base gives `null` for an empty column
  (`user.entity.ts:132-133`): it accepts. So `RecebeuPodeConcluir` promises the
  profile only to those in `Completos`.
* A row without cnpj is done without a relation (`agentes-sync.service.ts:245`)
  and one without document without a user (`192-195`), and the mark moves past
  both: nothing reads them again until BigQuery updates them. For
  `NenhumaLinhaPulada` they are done.

## 8. Not modelled

* The five-argument `P_AGRUPAR_ORDENS` that the code calls is not in the
  repository. `AgruparOrdens` follows the four-argument one (1735929476563)
  and the gratuidade copy that says it has the same rule (1791231987774).
* The single payment (*pagamento único*) and the preparo and clearing of
  gratuidade: the same queries on other columns. Their grouping is in
  `Sincronizacao`.
* `limparAgrupamentos`, which deletes by day whatever the status: its only
  caller, `remessaModalExec`, is itself called from nowhere.
* The upload goes to `/backup/remessa`, while `config.type.ts:94` names
  `/remessa` as the folder the bank reads; the models take an upload as
  reaching the bank, as the documents do.
* CNAB text and its parser, lots, segment B, NSR: layout, not control.
* In `Preparo`, rows skipped for want of an order or of a bank code
  (`remessa.service.ts:154-156`, `206-208`): they behave as rows that are not in
  the window.
* Bank statement and *lancamentos*: rows are appended; approvals are single
  writes, or a many-to-many list that the ORM compares with what it loaded,
  and the path that pays them is switched off.
* Antifraud, dashboards, Eleição, totals by consortium, filters and paging of
  the reports: they only read, and no rule of payment is in them.
* Sessions, passwords, roles and the other screens of users.

## 9. Plan

1. An abstract specification of what `Pagamento` and `Preparo` promise
   together (a request is made once, answered once) and the refinement.
2. The preparo of gratuidade beside the ordinary one of the same orders.
