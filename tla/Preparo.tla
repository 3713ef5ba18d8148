------------------------------- MODULE Preparo -------------------------------
(***************************************************************************)
(* Preparing and sending one kind of remessa (one HeaderName), step by     *)
(* step.  A preparo takes a snapshot of the rows still Criado, gets the    *)
(* open HeaderArquivo or makes one with the next NSA, reads what the payee *)
(* owes and then writes, row by row, the debit, a DetalheA and the row's   *)
(* status: separate writes, outside a transaction.  A sender reads the     *)
(* open header, uploads the file, uploads a dated copy and marks the       *)
(* header as sent.  The bank may reject a whole file, and its header is    *)
(* then opened again, with another NSA.                                    *)
(*                                                                         *)
(* Preparos overlap (consorcios and guardadores take no lock; modais and   *)
(* pendentes have a lock each but share HeaderName.MODAL), and fail or are *)
(* restarted between any two steps.  Riscos names what the code leaves to  *)
(* the operator and to luck.                                               *)
(***************************************************************************)
EXTENDS StatusRemessa, Sequences, FiniteSets, FiniteSetsExt, Functions

CONSTANTS
    Pagamentos,    \* rows of the historico, one DetalheA each
    Preparadores,  \* preparos that may run at once
    Selecao,       \* the rows in the window of each preparo
    Ninguem,       \* no row
    Devedores,     \* the rows of the payee who was overpaid
    Divida,        \* what that payee owes at first
    Valor,         \* what is paid in a row
    Teto,          \* valorMaximo: what is discounted from a row at most
    PrimeiroNsa,   \* the counter at first
    UltimoNsa,     \* 999999
    Remetentes,    \* requests to send that may run at once
    Riscos,        \* see RiscosPossiveis
    MaxHeaders,    \* bound on headers
    MaxRecusas,    \* bound on files the bank rejects
    MaxQuedas,     \* bound on restarts
    MaxFalhas      \* bound on exceptions of a preparo

RiscosPossiveis ==
    { "sobrepor",       \* prepare and send at once, or send after a failed preparo
      "quedaAoEnviar",  \* restart after the upload, before the save
      "falhaNaCopia",   \* the file is uploaded, its dated copy is not
      "nsaAoMesmoTempo", \* two at once between the read and the save of the NSA
      "doisDescontos",  \* what is owed is read for two rows before it is debited
      "mesmaLinha",     \* two preparos have one row of who owes ahead
      "cairAoDebitar",  \* a preparo ends after a debit, before the row's status
      "debitoPerdido" } \* the write of the debit, not awaited, is rejected

ASSUME PreparoAssumption ==
    /\ Selecao \in [Preparadores -> SUBSET Pagamentos]
    /\ Riscos \subseteq RiscosPossiveis
    /\ MaxHeaders \in Nat /\ MaxQuedas \in Nat /\ MaxFalhas \in Nat
    /\ MaxRecusas \in Nat
    /\ Devedores \subseteq Pagamentos
    /\ Divida \in Nat /\ Valor \in Nat /\ Teto \in Nat
    /\ UltimoNsa \in Nat \ {0, 1} /\ PrimeiroNsa \in 1..UltimoNsa
    /\ Ninguem \notin Pagamentos

VARIABLES
    historico,   \* statusRemessa of each row
    detalhe,     \* header of the DetalheA of each row, 0 when it has none
    headers,     \* status and NSA of each HeaderArquivo
    nsa,         \* setting any__cnab_current_nsa
    saldo,       \* saldoDevedor of the payee's pagamento_indevido
    desconto,    \* what the value of each DetalheA lacks
    pedidos,     \* times each payment was accepted by the bank
    recusados,   \* the NSAs of the files the bank rejected
    preparo,     \* each preparo's place and memory
    remetente,   \* each sender's place and memory
    renovacao,   \* place and memory of the request for a new NSA
    inacabados,  \* preparos asked for and not known to have finished
    quedas, falhas

indevido_vars == <<saldo, desconto>>
banco_vars    == <<pedidos, recusados>>
limite_vars   == <<quedas, falhas>>
db_vars == <<historico, detalhe, headers, nsa, indevido_vars>>
vars    == <<db_vars, banco_vars, preparo, remetente, renovacao, inacabados,
             limite_vars>>

SemPreparo   == [passo |-> "fora", header |-> 0, nsa |-> 0, faltam |-> {},
                 existe |-> FALSE, atual |-> Ninguem, lido |-> 0, desconto |-> 0]
SemEnvio     == [passo |-> "fora", header |-> 0, nsa |-> 0, linhas |-> {}]
SemRenovacao == [passo |-> "fora", header |-> 0, nsa |-> 0]

Init ==
    /\ historico = [h \in Pagamentos |-> Criado]
    /\ detalhe = [h \in Pagamentos |-> 0]
    /\ headers = <<>>
    /\ nsa = PrimeiroNsa
    /\ saldo = Divida
    /\ desconto = [h \in Pagamentos |-> 0]
    /\ pedidos = [h \in Pagamentos |-> 0]
    /\ recusados = {}
    /\ preparo = [p \in Preparadores |-> SemPreparo]
    /\ remetente = [r \in Remetentes |-> SemEnvio]
    /\ renovacao = SemRenovacao
    /\ inacabados = {}
    /\ quedas = 0
    /\ falhas = 0

Preparando(p, passo) == preparo[p].passo = passo

-----------------------------------------------------------------------------
(* The number of a file: getNextNSA reads the counter and then saves it.   *)

ProximoNsa(n) == IF n < UltimoNsa THEN n + 1 ELSE 1

Numerando == renovacao.passo = "gravarNsa" \/ \E p \in Preparadores : Preparando(p, "gravarNsa")

PodeLerNsa == "nsaAoMesmoTempo" \in Riscos \/ ~Numerando

-----------------------------------------------------------------------------
(* A preparo.                                                              *)

Anotar(p, nova) == preparo' = [preparo EXCEPT ![p] = nova]
SoPreparo == UNCHANGED <<banco_vars, remetente, renovacao, limite_vars>>

\* Mutant: rows already prepared are taken again.
SelecionadosSemStatus(p) == Selecao[p]

\* getOrdens: the rows of the window still Criado.
Selecionados(p) == {h \in Selecao[p] : historico[h] = Criado}

\* The rows of who owes that a preparo has ahead.
ADescontar(p) == (preparo[p].faltam \cup {preparo[p].atual}) \cap Devedores

\* prepararRemessa begins; without rows it ends there.
PrepararRemessa(p) ==
    /\ Preparando(p, "fora")
    /\ "sobrepor" \in Riscos \/ \A r \in Remetentes : remetente[r] = SemEnvio
    /\ "mesmaLinha" \in Riscos
         \/ \A q \in Preparadores : Selecionados(p) \cap ADescontar(q) = {}
    /\ \/ /\ Selecionados(p) # {}
          /\ Anotar(p, [SemPreparo EXCEPT !.passo = "header", !.faltam = Selecionados(p)])
          /\ inacabados' = inacabados \cup {p}
       \/ /\ Selecionados(p) = {} /\ p \in inacabados
          /\ inacabados' = inacabados \ {p}
          /\ UNCHANGED preparo
    /\ UNCHANGED db_vars
    /\ SoPreparo

\* Mutant: a header of any status is reused.
GeradosSemStatus == DOMAIN headers

Gerados == {i \in DOMAIN headers : headers[i].status = "remessaGerado"}

\* gerarHeaderArquivo: the open header of this name, or else a new one, which
\* another preparo may be making too.
GerarHeaderArquivo(p) ==
    /\ Preparando(p, "header")
    /\ \/ \E i \in Gerados :
              Anotar(p, [preparo[p] EXCEPT !.passo = "resolver", !.header = i])
       \/ Gerados = {} /\ Anotar(p, [preparo[p] EXCEPT !.passo = "nsa"])
    /\ UNCHANGED <<db_vars, inacabados>>
    /\ SoPreparo

LerNsa(p) ==
    /\ Preparando(p, "nsa")
    /\ PodeLerNsa
    /\ Anotar(p, [preparo[p] EXCEPT !.passo = "gravarNsa", !.nsa = ProximoNsa(nsa)])
    /\ UNCHANGED <<db_vars, inacabados>>
    /\ SoPreparo

\* Mutant: the counter is not saved.
GravarNsaSoEmMemoria(p) ==
    /\ Preparando(p, "gravarNsa")
    /\ Anotar(p, [preparo[p] EXCEPT !.passo = "salvarHeader"])
    /\ UNCHANGED <<db_vars, inacabados>>
    /\ SoPreparo
GravarNsa(p) ==
    /\ Preparando(p, "gravarNsa")
    /\ nsa' = preparo[p].nsa
    /\ Anotar(p, [preparo[p] EXCEPT !.passo = "salvarHeader"])
    /\ UNCHANGED <<historico, detalhe, headers, indevido_vars, inacabados>>
    /\ SoPreparo

SalvarHeader(p) ==
    /\ Preparando(p, "salvarHeader")
    /\ Len(headers) < MaxHeaders
    /\ headers' = Append(headers, [status |-> "remessaGerado", nsa |-> preparo[p].nsa])
    /\ Anotar(p, [preparo[p] EXCEPT !.passo = "resolver", !.header = Len(headers')])
    /\ UNCHANGED <<historico, detalhe, nsa, indevido_vars, inacabados>>
    /\ SoPreparo

\* It has them ahead, and knows how much is owed.
ComSaldoLido(p) == ~Preparando(p, "fora") /\ preparo[p].lido > 0 /\ ADescontar(p) # {}

\* resolverOrdem, for every row before the first is written: each row gets a
\* copy of its own of what is owed.
LerIndevidos(p) ==
    /\ Preparando(p, "resolver")
    /\ \/ "doisDescontos" \in Riscos
       \/ /\ Cardinality(ADescontar(p)) <= 1
          /\ ADescontar(p) # {} => \A q \in Preparadores : ~ComSaldoLido(q)
    /\ Anotar(p, [preparo[p] EXCEPT !.passo = "ordem",
                                    !.lido = IF ADescontar(p) = {} THEN 0 ELSE saldo])
    /\ UNCHANGED <<db_vars, inacabados>>
    /\ SoPreparo

\* existsDetalheA for the next row, or the end of the loop.
ExistsDetalheA(p) ==
    /\ Preparando(p, "ordem")
    /\ \/ \E h \in preparo[p].faltam :
              /\ Anotar(p, [preparo[p] EXCEPT
                       !.passo = IF h \in Devedores /\ preparo[p].lido > 0 THEN "debitar"
                                 ELSE "detalhe",
                       !.atual = h, !.faltam = @ \ {h}, !.existe = detalhe[h] # 0])
              /\ UNCHANGED inacabados
       \/ /\ preparo[p].faltam = {}
          /\ Anotar(p, SemPreparo)
          /\ inacabados' = inacabados \ {p}
    /\ UNCHANGED db_vars
    /\ SoPreparo

\* At most the debt, the limit and the payment.
Desconto(lido) == Min({Valor, Teto, lido})

\* Mutant: the whole payment goes off the debt.
DebitarValorInteiro(p) ==
    LET desc == Desconto(preparo[p].lido) IN
    /\ Preparando(p, "debitar")
    /\ saldo' = IF Valor < preparo[p].lido THEN preparo[p].lido - Valor ELSE 0
    /\ Anotar(p, [preparo[p] EXCEPT !.passo = "detalhe", !.desconto = desc])
    /\ UNCHANGED <<historico, detalhe, headers, nsa, desconto, inacabados>>
    /\ SoPreparo
\* debitarPagamentoIndevido: the debt falls before the DetalheA says so.  It
\* is saved without an await: rejected, nobody knows.
DebitarPagamentoIndevido(p) ==
    LET desc == Desconto(preparo[p].lido) IN
    /\ Preparando(p, "debitar")
    /\ \/ saldo' = preparo[p].lido - desc
       \/ "debitoPerdido" \in Riscos /\ UNCHANGED saldo
    /\ Anotar(p, [preparo[p] EXCEPT !.passo = "detalhe", !.desconto = desc])
    /\ UNCHANGED <<historico, detalhe, headers, nsa, desconto, inacabados>>
    /\ SoPreparo

\* gerarDetalheAB: the DetalheA is updated, which moves it to this preparo's
\* header and leaves it with this preparo's discount, or inserted; UNIQUE
\* refuses the insert if another preparo came first, and the preparo ends
\* there.
GerarDetalheAB(p) ==
    LET h == preparo[p].atual
    IN  /\ Preparando(p, "detalhe")
        /\ \/ /\ preparo[p].existe \/ detalhe[h] = 0
              /\ detalhe' = [detalhe EXCEPT ![h] = preparo[p].header]
              /\ desconto' = [desconto EXCEPT ![h] = preparo[p].desconto]
              /\ Anotar(p, [preparo[p] EXCEPT !.passo = "status"])
           \/ /\ ~preparo[p].existe /\ detalhe[h] # 0
              /\ Anotar(p, SemPreparo)
              /\ UNCHANGED <<detalhe, desconto>>
        /\ UNCHANGED <<historico, headers, nsa, saldo, inacabados>>
        /\ SoPreparo

\* Mutant: the status is forgotten.
AtualizaStatusRemessaEsquecida(p) ==
    /\ Preparando(p, "status")
    /\ Anotar(p, [preparo[p] EXCEPT !.passo = "ordem", !.atual = Ninguem,
                                    !.desconto = 0])
    /\ UNCHANGED <<db_vars, inacabados>>
    /\ SoPreparo

\* atualizaStatusRemessa: the row's status, saved apart from its DetalheA.
AtualizaStatusRemessa(p) ==
    /\ Preparando(p, "status")
    /\ historico' = [historico EXCEPT ![preparo[p].atual] = PreparadoParaEnvio]
    /\ Anotar(p, [preparo[p] EXCEPT !.passo = "ordem", !.atual = Ninguem,
                                    !.desconto = 0])
    /\ UNCHANGED <<detalhe, headers, nsa, indevido_vars, inacabados>>
    /\ SoPreparo

\* A debit the row's status does not tell of yet.
Debitando(p) == preparo[p].desconto > 0

\* A write of the preparo rejects: what it wrote so far stays.
ExcecaoNoPreparo(p) ==
    /\ ~Preparando(p, "fora")
    /\ "cairAoDebitar" \in Riscos \/ ~Debitando(p)
    /\ falhas < MaxFalhas
    /\ falhas' = falhas + 1
    /\ Anotar(p, SemPreparo)
    /\ UNCHANGED <<db_vars, banco_vars, remetente, renovacao, inacabados, quedas>>

-----------------------------------------------------------------------------
(* Sending.                                                                *)

Enviando(r, passo) == remetente[r].passo = passo
Remeter(r, novo) == remetente' = [remetente EXCEPT ![r] = novo]
SoEnvio == UNCHANGED <<historico, detalhe, nsa, indevido_vars, preparo, renovacao,
                       inacabados, limite_vars>>

\* gerarCnabText: the first open header and every DetalheA in it, whatever
\* the status of its row.
GerarCnabText(r) ==
    /\ Enviando(r, "fora")
    /\ "sobrepor" \in Riscos \/ inacabados = {}
    /\ \E i \in Gerados :
           Remeter(r, [passo |-> "enviar", header |-> i, nsa |-> headers[i].nsa,
                       linhas |-> {h \in Pagamentos : detalhe[h] = i}])
    /\ UNCHANGED <<headers, banco_vars>>
    /\ SoEnvio

\* submitCnabRemessa uploads the file, which the bank takes or rejects whole,
\* or gives up with ''.
SubmitCnabRemessa(r) ==
    /\ Enviando(r, "enviar")
    /\ \/ /\ pedidos' = [h \in Pagamentos |->
                            pedidos[h] + IF h \in remetente[r].linhas THEN 1 ELSE 0]
          /\ Remeter(r, [remetente[r] EXCEPT !.passo = "copia"])
          /\ UNCHANGED recusados
       \/ /\ Cardinality(recusados) < MaxRecusas
          /\ recusados' = recusados \cup {remetente[r].nsa}
          /\ Remeter(r, [remetente[r] EXCEPT !.passo = "copia"])
          /\ UNCHANGED pedidos
       \/ Remeter(r, SemEnvio) /\ UNCHANGED banco_vars
    /\ UNCHANGED headers
    /\ SoEnvio

\* submitCnabBackupRemessa: a failure leaves the path '', as if nothing had
\* been uploaded.
SubmitCnabBackupRemessa(r) ==
    /\ Enviando(r, "copia")
    /\ \E novo \in {[remetente[r] EXCEPT !.passo = "salvar"]} \cup
                   (IF "falhaNaCopia" \in Riscos THEN {SemEnvio} ELSE {}) :
           Remeter(r, novo)
    /\ UNCHANGED <<headers, banco_vars>>
    /\ SoEnvio

\* Mutant: the header stays open.
EnviarRemessaSemSalvar(r) ==
    /\ Enviando(r, "salvar")
    /\ Remeter(r, SemEnvio)
    /\ UNCHANGED <<headers, banco_vars>>
    /\ SoEnvio

\* enviarRemessa saves the header of the file that was uploaded.
EnviarRemessa(r) ==
    /\ Enviando(r, "salvar")
    /\ headers' = [headers EXCEPT ![remetente[r].header].status = "remessaEnviado"]
    /\ Remeter(r, SemEnvio)
    /\ UNCHANGED banco_vars
    /\ SoEnvio

-----------------------------------------------------------------------------
(* renovarNsaRemessa, for a file the bank rejected.                        *)

SoRenovacao == UNCHANGED <<historico, detalhe, indevido_vars, banco_vars, preparo,
                           remetente, inacabados, limite_vars>>

\* Sent or not, of any name; the last one is taken.
ComNsa(n) == {i \in DOMAIN headers : headers[i].nsa = n}

RenovarNsaRemessa(n) ==
    /\ renovacao.passo = "fora"
    /\ "sobrepor" \in Riscos \/ \A r \in Remetentes : remetente[r] = SemEnvio
    /\ n \in recusados
    /\ \E i \in ComNsa(n) :
           /\ \A j \in ComNsa(n) : j <= i
           /\ Gerados \subseteq {i}
           /\ renovacao' = [passo |-> "nsa", header |-> i, nsa |-> 0]
    /\ UNCHANGED <<headers, nsa>>
    /\ SoRenovacao

LerNsaNovo ==
    /\ renovacao.passo = "nsa"
    /\ PodeLerNsa
    /\ renovacao' = [renovacao EXCEPT !.passo = "gravarNsa", !.nsa = ProximoNsa(nsa)]
    /\ UNCHANGED <<headers, nsa>>
    /\ SoRenovacao

GravarNsaNovo ==
    /\ renovacao.passo = "gravarNsa"
    /\ nsa' = renovacao.nsa
    /\ renovacao' = [renovacao EXCEPT !.passo = "salvar"]
    /\ UNCHANGED headers
    /\ SoRenovacao

Reabrir ==
    /\ renovacao.passo = "salvar"
    /\ headers' = [headers EXCEPT ![renovacao.header] =
                      [status |-> "remessaGerado", nsa |-> renovacao.nsa]]
    /\ renovacao' = SemRenovacao
    /\ UNCHANGED nsa
    /\ SoRenovacao

-----------------------------------------------------------------------------

\* The application restarts: preparos and senders are gone.
Reiniciar ==
    /\ quedas < MaxQuedas
    /\ \/ "quedaAoEnviar" \in Riscos
       \/ \A r \in Remetentes : remetente[r].passo \notin {"copia", "salvar"}
    /\ "cairAoDebitar" \in Riscos \/ \A p \in Preparadores : ~Debitando(p)
    /\ quedas' = quedas + 1
    /\ preparo' = [p \in Preparadores |-> SemPreparo]
    /\ remetente' = [r \in Remetentes |-> SemEnvio]
    /\ renovacao' = SemRenovacao
    /\ UNCHANGED <<db_vars, banco_vars, inacabados, falhas>>

-----------------------------------------------------------------------------
Preparar(p) == \/ PrepararRemessa(p) \/ GerarHeaderArquivo(p)
               \/ LerNsa(p) \/ GravarNsa(p) \/ SalvarHeader(p)
               \/ LerIndevidos(p) \/ ExistsDetalheA(p)
               \/ DebitarPagamentoIndevido(p) \/ GerarDetalheAB(p)
               \/ AtualizaStatusRemessa(p) \/ ExcecaoNoPreparo(p)

Enviar(r) == \/ GerarCnabText(r) \/ SubmitCnabRemessa(r)
             \/ SubmitCnabBackupRemessa(r) \/ EnviarRemessa(r)

Next == \/ \E p \in Preparadores : Preparar(p)
        \/ \E r \in Remetentes : Enviar(r)
        \/ \E n \in recusados : RenovarNsaRemessa(n)
        \/ LerNsaNovo \/ GravarNsaNovo \/ Reabrir
        \/ Reiniciar

Spec == Init /\ [][Next]_vars

-----------------------------------------------------------------------------
(* Properties.                                                             *)

PassosDePreparo == {"fora", "header", "nsa", "gravarNsa", "salvarHeader", "resolver",
                    "ordem", "debitar", "detalhe", "status"}
PassosDeEnvio   == {"fora", "enviar", "copia", "salvar"}

\* Every variable has its type.
TypeOK ==
    /\ historico \in [Pagamentos -> {Criado, PreparadoParaEnvio}]
    /\ detalhe \in [Pagamentos -> 0..Len(headers)]
    /\ headers \in Seq([status : {"remessaGerado", "remessaEnviado"}, nsa : 0..UltimoNsa])
    /\ nsa \in 0..UltimoNsa
    /\ saldo \in 0..Divida
    /\ desconto \in [Pagamentos -> 0..Teto]
    /\ pedidos \in [Pagamentos -> Nat]
    /\ recusados \subseteq 0..UltimoNsa
    /\ preparo \in [Preparadores ->
                      [passo : PassosDePreparo, header : 0..Len(headers),
                       nsa : 0..UltimoNsa, faltam : SUBSET Pagamentos, existe : BOOLEAN,
                       atual : Pagamentos \cup {Ninguem}, lido : 0..Divida,
                       desconto : 0..Teto]]
    /\ remetente \in [Remetentes -> [passo : PassosDeEnvio, header : 0..Len(headers),
                                     nsa : 0..UltimoNsa, linhas : SUBSET Pagamentos]]
    /\ renovacao \in [passo : {"fora", "nsa", "gravarNsa", "salvar"},
                      header : 0..Len(headers), nsa : 0..UltimoNsa]
    /\ inacabados \subseteq Preparadores
    /\ quedas \in 0..MaxQuedas /\ falhas \in 0..MaxFalhas

\* A payment reaches the bank once: a preparo that ran twice, overlapped
\* another or was taken up again after a failure does not ask for it again.
PedidoUmaVez == \A h \in Pagamentos : pedidos[h] <= 1

\* What the bank was asked is PreparadoParaEnvio, so that the record of its
\* return finds the row, and no later preparo takes it.
PedidoNoLivro ==
    \A h \in Pagamentos : pedidos[h] > 0 => historico[h] = PreparadoParaEnvio

\* No DetalheA is left behind in a header that was already sent, unless the
\* bank rejected the file.
NadaFicaParaTras ==
    \A h \in Pagamentos :
        detalhe[h] # 0 /\ headers[detalhe[h]].status = "remessaEnviado" =>
            pedidos[h] > 0 \/ headers[detalhe[h]].nsa \in recusados

\* A header is still open only while the bank does not have its payments:
\* the comment of submitCnabRemessa, "remotePath stays '' on failure".
AbertoNaoEnviado ==
    \A h \in Pagamentos :
        /\ detalhe[h] # 0
        /\ headers[detalhe[h]].status = "remessaGerado"
        /\ \A r \in Remetentes : Enviando(r, "fora")
        => pedidos[h] = 0

\* No two files have one NSA, also past the last number and whoever took the
\* number and then was restarted; and a file that waits to be sent does not
\* have one that was rejected.
NsaUnico ==
    /\ \A i, j \in DOMAIN headers : headers[i].nsa = headers[j].nsa => i = j
    /\ \A i \in Gerados : headers[i].nsa \notin recusados
                        \/ \E r \in Remetentes : remetente[r].header = i

\* "Quanto do indevido ja foi descontado: valorIndevido - saldoDevedor"
\* (pagamentos-indevidos-guardadores.service.ts:27): what the debt lost is
\* what the payments lack, between two rows, also when a preparo was taken
\* up again or overlapped another.
DividaConfere ==
    (\A p \in Preparadores : ~Debitando(p)) =>
        saldo + SumFunction(desconto) = Divida
=============================================================================
