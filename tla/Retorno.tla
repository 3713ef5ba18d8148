------------------------------- MODULE Retorno -------------------------------
(***************************************************************************)
(* Reading the bank's return files (retorno.service.ts, driven by          *)
(* CronJobsService.retornoExec) for the payments of one remessa.           *)
(*                                                                         *)
(* The bank leaves files in /retorno; every tick of the cron starts a      *)
(* reader that takes files one by one until the folder is empty.  A file   *)
(* is applied record by record, each in several awaited database writes,   *)
(* and moved to a backup folder at the end.  Readers overlap (a tick does  *)
(* not wait for the previous one), writes fail, and the application may    *)
(* restart between any two steps.                                          *)
(***************************************************************************)
EXTENDS StatusRemessa, Sequences, FiniteSets

CONSTANTS
    Pagamentos,        \* payments of the remessa, each a row with a DetalheA
    Filhas,            \* rows of the children of pending payments
    FilhasAntigas,     \* those of them left by an earlier, failed attempt
    FilhasDe,          \* the children's rows of each payment
    Chave,             \* what a record is matched by: CPF, value, date, account
    Intersul,          \* payments whose payee is Intersul
    Ninguem,           \* no payment
    Leitores,          \* readers that may be alive at once
    CodigosInclusao,   \* occurrences the bank accepts a payment with
    Recusa,            \* an occurrence that refuses a payment
    ErrosDeLote,       \* occurrences that refuse a whole batch
    BancoEspera,       \* the bank acts only when no file is waiting
    MaxArquivos,       \* bound on the files the bank writes
    MaxQuedas,         \* bound on restarts
    MaxFalhas          \* bound on exceptions

ASSUME FamiliasAssumption ==
    /\ FilhasDe \in [Pagamentos -> SUBSET Filhas]
    /\ Pagamentos \cap Filhas = {}
    /\ FilhasAntigas \subseteq Filhas
    /\ Intersul \subseteq Pagamentos
    /\ DOMAIN Chave = Pagamentos
    /\ Ninguem \notin Pagamentos

ASSUME OcorrenciasAssumption ==
    /\ CodigosInclusao \subseteq {BD, Zero}
    /\ \A e \in ErrosDeLote \cup {Recusa} :
          e \in STRING /\ ~OcorrenciaOk(e) /\ e \notin {Branco, Nulo}

ASSUME LimitesAssumption ==
    /\ BancoEspera \in BOOLEAN
    /\ MaxArquivos \in Nat /\ MaxQuedas \in Nat /\ MaxFalhas \in Nat

VARIABLES
    historico,        \* rows of ordem_pagamento_agrupado_historico
    acrescimos,       \* times the 5% of Intersul was added to the DetalheA
    banco,            \* what the bank did with each payment
    arquivos,         \* every return file written: [lote, dets]
    retorno,          \* files in the folder /retorno
    backup,           \* files in the success and failure folders
    emProcessamento,  \* the service's lock
    pc,               \* where each reader is
    arquivo,          \* the file whose copy the reader holds
    faltam,           \* records of it still to be applied
    atual,            \* the payment whose record is being applied
    quedas, falhas    \* restarts and exceptions so far

banco_vars   == <<banco, arquivos>>
leitor_vars  == <<pc, arquivo, faltam, atual>>
db_vars      == <<historico, acrescimos>>
limite_vars  == <<quedas, falhas>>
vars == <<historico, acrescimos, banco, arquivos, retorno, backup,
          emProcessamento, pc, arquivo, faltam, atual, quedas, falhas>>

Linhas == Pagamentos \cup Filhas

Fases == {"enviado", "incluido", "creditado", "recusado", "devolvido"}

\* "registro" and the four after it run inside salvarRetorno's try.
Processando == {"registro", "acrescimo", "propagar", "moverFalha"}
Pastas == {"sucesso", "falha"}
Passos == {"fora", "ler", "listar", "salvar"} \cup Processando

NovaLinha(h) ==
    CASE h \in Pagamentos    -> Linha(PreparadoParaEnvio, Nulo)
      [] h \in FilhasAntigas -> Linha(NaoEfetivado, Recusa)
      [] OTHER               -> Linha(Criado, Nulo)

Init ==
    /\ historico = [h \in Linhas |-> NovaLinha(h)]
    /\ acrescimos = [p \in Pagamentos |-> 0]
    /\ banco = [p \in Pagamentos |-> "enviado"]
    /\ arquivos = <<>>
    /\ retorno = {}
    /\ backup = [pasta \in Pastas |-> {}]
    /\ emProcessamento = FALSE
    /\ pc = [l \in Leitores |-> "fora"]
    /\ arquivo = [l \in Leitores |-> 0]
    /\ faltam = [l \in Leitores |-> {}]
    /\ atual = [l \in Leitores |-> Ninguem]
    /\ quedas = 0
    /\ falhas = 0

-----------------------------------------------------------------------------
(* The bank and the operator who resends a refused file: the environment.  *)

NaFase(fase) == {p \in Pagamentos : banco[p] = fase}

Ociosa == retorno = {} /\ \A l \in Leitores : pc[l] = "fora"

\* The bank writes a file about the payments of DOMAIN dets.
Escrever(lote, dets, fases) ==
    /\ Len(arquivos) < MaxArquivos
    /\ BancoEspera => Ociosa
    /\ arquivos' = Append(arquivos, [lote |-> lote, dets |-> dets])
    /\ retorno' = retorno \cup {Len(arquivos) + 1}
    /\ banco' = [p \in Pagamentos |->
                    IF p \in DOMAIN dets THEN fases[p] ELSE banco[p]]
    /\ UNCHANGED <<historico, acrescimos, backup, emProcessamento,
                   leitor_vars, limite_vars>>

\* First return: every payment of the batch is included or refused.
PrimeiroRetorno ==
    LET S == NaFase("enviado")
    IN  /\ S # {}
        /\ \E dets \in [S -> CodigosInclusao \cup {Recusa}] :
               Escrever(BD, dets, [p \in S |-> IF dets[p] = Recusa
                                               THEN "recusado" ELSE "incluido"])

\* Second return, of any of the included payments: credited or given back.
SegundoRetorno ==
    \E S \in SUBSET NaFase("incluido") :
        /\ S # {}
        /\ \E dets \in [S -> {Zero, Recusa}] :
               Escrever(Zero, dets, [p \in S |-> IF dets[p] = Zero
                                                 THEN "creditado" ELSE "recusado"])

\* The batch is refused with a code, at either return.
LoteRecusado ==
    \E S \in {NaFase("enviado"), NaFase("incluido")}, erro \in ErrosDeLote :
        /\ S # {}
        /\ Escrever(erro, [p \in S |-> Recusa], [p \in S |-> "recusado"])

\* The file is refused as a whole: every occurrence comes blank.
ArquivoDevolvido ==
    LET S == NaFase("enviado")
    IN  /\ S # {}
        /\ Escrever(Branco, [p \in S |-> Branco], [p \in S |-> "devolvido"])

\* renovarNsaRemessa and a new submission: no row is changed.
Reenviar ==
    /\ NaFase("devolvido") # {}
    /\ BancoEspera => Ociosa
    /\ banco' = [p \in Pagamentos |-> IF banco[p] = "devolvido"
                                      THEN "enviado" ELSE banco[p]]
    /\ UNCHANGED <<db_vars, arquivos, retorno, backup, emProcessamento,
                   leitor_vars, limite_vars>>

Ambiente == PrimeiroRetorno \/ SegundoRetorno \/ LoteRecusado
                \/ ArquivoDevolvido \/ Reenviar

-----------------------------------------------------------------------------
(* A reader: retornoExec, lerRetornoSftp and salvarRetorno.                *)

Ir(l, passo) == pc' = [pc EXCEPT ![l] = passo]

\* The copy of the file and what was left of it go out of scope.
Soltar(l, passo) == /\ Ir(l, passo)
                    /\ arquivo' = [arquivo EXCEPT ![l] = 0]
                    /\ faltam' = [faltam EXCEPT ![l] = {}]
                    /\ atual' = [atual EXCEPT ![l] = Ninguem]

\* The cron starts a run every 30 minutes, whatever the last one is doing.
Tick(l) ==
    /\ pc[l] = "fora"
    /\ Ir(l, "ler")
    /\ UNCHANGED <<db_vars, banco_vars, retorno, backup, emProcessamento,
                   arquivo, faltam, atual, limite_vars>>

\* lerRetornoSftp: null, which ends the run, while a file is being applied.
LerRetornoSftp(l) ==
    /\ pc[l] = "ler"
    /\ Ir(l, IF emProcessamento THEN "fora" ELSE "listar")
    /\ UNCHANGED <<db_vars, banco_vars, retorno, backup, emProcessamento,
                   arquivo, faltam, atual, limite_vars>>

\* getFirstRetornoPagamento: the last name of a listing in no given order.
GetFirstRetornoPagamento(l) ==
    /\ pc[l] = "listar"
    /\ \/ retorno = {} /\ Ir(l, "fora") /\ UNCHANGED arquivo
       \/ \E f \in retorno : /\ arquivo' = [arquivo EXCEPT ![l] = f]
                             /\ Ir(l, "salvar")
    /\ UNCHANGED <<db_vars, banco_vars, retorno, backup, emProcessamento,
                   faltam, atual, limite_vars>>

\* Mutant: salvarRetorno without the lock's test.
SalvarRetornoSemTrava(l) ==
    /\ pc[l] = "salvar"
    /\ emProcessamento' = TRUE
    /\ faltam' = [faltam EXCEPT ![l] = DOMAIN arquivos[arquivo[l]].dets]
    /\ Ir(l, "registro")
    /\ UNCHANGED <<db_vars, banco_vars, retorno, backup, arquivo, atual,
                   limite_vars>>

\* salvarRetorno takes the lock, or ignores the file and the loop goes on.
SalvarRetorno(l) ==
    /\ pc[l] = "salvar"
    /\ \/ /\ emProcessamento
          /\ Soltar(l, "ler")
          /\ UNCHANGED emProcessamento
       \/ /\ ~emProcessamento
          /\ emProcessamento' = TRUE
          /\ faltam' = [faltam EXCEPT ![l] = DOMAIN arquivos[arquivo[l]].dets]
          /\ Ir(l, "registro")
          /\ UNCHANGED <<arquivo, atual>>
    /\ UNCHANGED <<db_vars, banco_vars, retorno, backup, limite_vars>>

\* getDetalheARetorno: the payments a record of p may be taken for.  The
\* 5% of Intersul changes the value the record is matched by.
GetDetalheARetorno(p) ==
    {q \in Pagamentos : /\ Chave[q] = Chave[p]
                        /\ acrescimos[q] = 0
                        /\ Casa(historico[q])}

\* getHistorico: the row itself and the rows of its children still open.
GetHistorico(q) ==
    {q} \cup {h \in FilhasDe[q] : historico[h].status \notin {NaoEfetivado, Efetivado}}

\* Mutant: the 5% without the test of Efetivado.
AtualizarStatusAcresceSempre(l, q, lote, det) ==
    LET muitos == GetHistorico(q) # {q}
    IN  /\ historico' = [historico EXCEPT ![q] = Baixa(@, lote, det, muitos)]
        /\ atual' = [atual EXCEPT ![l] = q]
        /\ Ir(l, IF q \in Intersul THEN "acrescimo" ELSE "propagar")

\* Mutant: the 5% is forgotten.
AtualizarStatusSemAcrescimo(l, q, lote, det) ==
    LET muitos == GetHistorico(q) # {q}
    IN  /\ historico' = [historico EXCEPT ![q] = Baixa(@, lote, det, muitos)]
        /\ atual' = [atual EXCEPT ![l] = q]
        /\ Ir(l, "propagar")

\* atualizarStatusRemessaHistorico up to the end of its loop.
AtualizarStatus(l, q, lote, det) ==
    LET muitos == GetHistorico(q) # {q}
        nova   == Baixa(historico[q], lote, det, muitos)
    IN  /\ historico' = [h \in Linhas |->
                           IF h \in GetHistorico(q)
                           THEN Baixa(historico[h], lote, det, muitos)
                           ELSE historico[h]]
        /\ \/ ErroNoHeaderLote(historico[q], lote) /\ UNCHANGED <<pc, atual>>
           \/ /\ ~ErroNoHeaderLote(historico[q], lote)
              /\ atual' = [atual EXCEPT ![l] = q]
              /\ Ir(l, IF /\ q \in Intersul
                          /\ historico[q].status # Efetivado
                          /\ nova.status = Efetivado
                       THEN "acrescimo" ELSE "propagar")

\* One record of the file, or the move to the success folder after the last.
ProcessarRegistro(l) ==
    /\ pc[l] = "registro"
    /\ \E p \in faltam[l] :
           LET f == arquivos[arquivo[l]]
           IN  /\ faltam' = [faltam EXCEPT ![l] = @ \ {p}]
               /\ \/ /\ GetDetalheARetorno(p) = {}
                     /\ UNCHANGED <<historico, atual, pc>>
                  \/ \E q \in GetDetalheARetorno(p) :
                         AtualizarStatus(l, q, f.lote, f.dets[p])
    /\ UNCHANGED <<acrescimos, banco_vars, retorno, backup, emProcessamento,
                   arquivo, limite_vars>>

\* aplicarAcrescimoIntersul, saved apart from the status.
AplicarAcrescimoIntersul(l) ==
    /\ pc[l] = "acrescimo"
    /\ acrescimos' = [acrescimos EXCEPT ![atual[l]] = @ + 1]
    /\ Ir(l, "propagar")
    /\ UNCHANGED <<historico, banco_vars, retorno, backup, emProcessamento,
                   arquivo, faltam, atual, limite_vars>>

\* propagarPagamentoPaiParaFilhas: one UPDATE, apart from the parent's.
PropagarPagamentoPaiParaFilhas(l) ==
    /\ pc[l] = "propagar"
    /\ historico' = [h \in Linhas |->
                       IF h \in FilhasDe[atual[l]]
                       THEN Propagado(historico[atual[l]], historico[h])
                       ELSE historico[h]]
    /\ Ir(l, "registro")
    /\ atual' = [atual EXCEPT ![l] = Ninguem]
    /\ UNCHANGED <<acrescimos, banco_vars, retorno, backup, emProcessamento,
                   arquivo, faltam, limite_vars>>

\* Mutant: no finally, the lock stays taken.
MoverParaSemFinally(l, pasta) ==
    /\ retorno' = retorno \ {arquivo[l]}
    /\ backup' = [backup EXCEPT ![pasta] = @ \cup {arquivo[l]}]
    /\ Soltar(l, "ler")
    /\ UNCHANGED <<db_vars, banco_vars, emProcessamento, limite_vars>>

\* moveToBackup renames the file, or writes the copy where it is gone; the
\* finally then gives the lock back, and retornoExec reads again.
MoverPara(l, pasta) ==
    /\ retorno' = retorno \ {arquivo[l]}
    /\ backup' = [backup EXCEPT ![pasta] = @ \cup {arquivo[l]}]
    /\ emProcessamento' = FALSE
    /\ Soltar(l, "ler")
    /\ UNCHANGED <<db_vars, banco_vars, limite_vars>>

MoverSucesso(l) == pc[l] = "registro" /\ faltam[l] = {} /\ MoverPara(l, "sucesso")
MoverFalha(l)   == pc[l] = "moverFalha" /\ MoverPara(l, "falha")

\* An await of the try rejects: the catch moves the file to the failures.
Excecao(l) ==
    /\ pc[l] \in Processando \ {"moverFalha"}
    /\ falhas < MaxFalhas
    /\ falhas' = falhas + 1
    /\ Ir(l, "moverFalha")
    /\ UNCHANGED <<db_vars, banco_vars, retorno, backup, emProcessamento,
                   arquivo, faltam, atual, quedas>>

\* The move to the failures rejects too (the same failure, for the bound): the
\* file stays where it is.
ExcecaoAoMover(l) ==
    /\ pc[l] = "moverFalha"
    /\ emProcessamento' = FALSE
    /\ Soltar(l, "ler")
    /\ UNCHANGED <<db_vars, banco_vars, retorno, backup, limite_vars>>

\* The file cannot be parsed: processarRetorno throws before its try, so the
\* lock is given back but nobody moves the file, and the loop of retornoExec
\* goes on to take it again.  Not counted: such a file stays so.
ExcecaoAoLer(l) ==
    /\ pc[l] = "salvar"
    /\ ~emProcessamento
    /\ MaxFalhas > 0
    /\ Soltar(l, "ler")
    /\ UNCHANGED <<db_vars, banco_vars, retorno, backup, emProcessamento, limite_vars>>

\* The SFTP does not answer: lerRetornoSftp rejects and ends the run.
ExcecaoSftp(l) ==
    /\ pc[l] = "listar"
    /\ falhas < MaxFalhas
    /\ falhas' = falhas + 1
    /\ Ir(l, "fora")
    /\ UNCHANGED <<db_vars, banco_vars, retorno, backup, emProcessamento,
                   arquivo, faltam, atual, quedas>>

\* The application restarts: the lock and the readers were in memory.
Reiniciar ==
    /\ quedas < MaxQuedas
    /\ quedas' = quedas + 1
    /\ emProcessamento' = FALSE
    /\ pc' = [l \in Leitores |-> "fora"]
    /\ arquivo' = [l \in Leitores |-> 0]
    /\ faltam' = [l \in Leitores |-> {}]
    /\ atual' = [l \in Leitores |-> Ninguem]
    /\ UNCHANGED <<db_vars, banco_vars, retorno, backup, falhas>>

Avancar(l) == \/ Tick(l) \/ LerRetornoSftp(l) \/ GetFirstRetornoPagamento(l)
              \/ SalvarRetorno(l) \/ ProcessarRegistro(l)
              \/ AplicarAcrescimoIntersul(l)
              \/ PropagarPagamentoPaiParaFilhas(l)
              \/ MoverSucesso(l) \/ MoverFalha(l)

Falhar(l) == Excecao(l) \/ ExcecaoAoMover(l) \/ ExcecaoAoLer(l) \/ ExcecaoSftp(l)

Next == \/ Ambiente
        \/ \E l \in Leitores : Avancar(l) \/ Falhar(l)
        \/ Reiniciar

Spec == Init /\ [][Next]_vars

\* The cron keeps ticking and a started run goes on; the bank owes nothing.
FairSpec == Spec /\ \A l \in Leitores : WF_vars(Avancar(l))

-----------------------------------------------------------------------------
(* Properties.                                                             *)

Ocorrencias == CodigosInclusao \cup ErrosDeLote \cup {BD, Zero, Branco, Recusa}
Motivos     == Ocorrencias \cup {Nulo, Espacos}

Registros == UNION {[S -> Ocorrencias] : S \in SUBSET Pagamentos}

TabelasOK ==
    /\ historico \in [Linhas -> [status : StatusRemessaEnum, motivo : Motivos]]
    /\ acrescimos \in [Pagamentos -> Nat]
    /\ banco \in [Pagamentos -> Fases]

ArquivosOK ==
    /\ arquivos \in Seq([lote : Ocorrencias, dets : Registros])
    /\ retorno \in SUBSET (1..Len(arquivos))
    /\ backup \in [Pastas -> SUBSET (1..Len(arquivos))]

LeitoresOK ==
    /\ emProcessamento \in BOOLEAN
    /\ pc \in [Leitores -> Passos]
    /\ arquivo \in [Leitores -> 0..Len(arquivos)]
    /\ \A l \in Leitores :
          pc[l] \in Processando \cup {"salvar"} => arquivo[l] # 0
    /\ faltam \in [Leitores -> SUBSET Pagamentos]
    /\ \A l \in Leitores :
          pc[l] \in Processando => faltam[l] \subseteq DOMAIN arquivos[arquivo[l]].dets
    /\ atual \in [Leitores -> Pagamentos \cup {Ninguem}]
    /\ \A l \in Leitores :
          pc[l] \in {"acrescimo", "propagar"} => atual[l] \in Pagamentos

LimitesOK == quedas \in 0..MaxQuedas /\ falhas \in 0..MaxFalhas

\* Every variable has its type; a reader past the listing holds a real file
\* and applies only records that are in it.
TypeOK == TabelasOK /\ ArquivosOK /\ LeitoresOK /\ LimitesOK

Processa(l) == pc[l] \in Processando

\* emProcessamento, tested and set without an await in between, lets one
\* reader at a time apply a file, and is never left taken by nobody: not by
\* an exception (the finally) nor by a restart.
TravaCorreta ==
    /\ emProcessamento <=> \E l \in Leitores : Processa(l)
    /\ \A l, m \in Leitores : Processa(l) /\ Processa(m) => l = m

\* What BaixaSoComCredito rests on: "00" only tells of credits, and no two
\* payments of a day are to the same account, payee and value.
SoPorBD         == CodigosInclusao = {BD}
ChavesDistintas == \A p, q \in Pagamentos : Chave[p] = Chave[q] => p = q

\* Every file that says "00" of a payment tells of a credit, for ever.
ArquivoDizCredito ==
    \A i \in 1..Len(arquivos) : \A p \in DOMAIN arquivos[i].dets :
        arquivos[i].dets[p] = Zero => banco[p] = "creditado"

\* A payment is shown as paid (Efetivado, "Segundo retorno", or
\* PendenciaPaga) only if the bank has credited it, whatever the order in
\* which files are read, read again after a restart, or read twice.
BaixaSoComCredito ==
    \A p \in Pagamentos : Pago(historico[p]) => banco[p] = "creditado"

\* The return handling implements the ledger's promise: paid after credited,
\* once, and for good.
Livro == INSTANCE Conciliacao WITH
            creditados <- {p \in Pagamentos : banco[p] = "creditado"},
            baixados   <- {p \in Pagamentos : Pago(historico[p])}
ImplementaConciliacao == Livro!Spec

\* A return read again never adds the 5% of Intersul a second time, and no
\* one else's payment grows: aplicarAcrescimoIntersul runs once per payment.
AcrescimoNoMaximoUmaVez ==
    \A p \in Pagamentos :
        /\ acrescimos[p] <= 1
        /\ acrescimos[p] = 1 => p \in Intersul /\ historico[p].status = Efetivado

\* The 5% that is about to be saved was not saved before.
AcrescimoDevido ==
    \A l \in Leitores : pc[l] = "acrescimo" =>
        /\ atual[l] \in Intersul
        /\ historico[atual[l]].status = Efetivado
        /\ acrescimos[atual[l]] = 0

\* Once every file is read, the books agree with the bank: credited payments
\* are paid, refused ones are NaoEfetivado, a payment of a returned file is
\* NaoEfetivado without a reason, an included one is waited for.
LivrosConferem ==
    Ociosa => \A p \in Pagamentos :
        LET h == historico[p]
        IN  CASE banco[p] = "creditado" -> Pago(h)
              [] banco[p] = "recusado"  -> h.status = NaoEfetivado
              [] banco[p] = "devolvido" -> h.status = NaoEfetivado /\ SemMotivo(h)
              [] banco[p] = "incluido"  -> h.status = AguardandoPagamento
              [] OTHER -> Casa(h)

\* Once every file is read, a payment of Intersul without children that was
\* paid has its 5%.
AcrescimoAplicado ==
    Ociosa => \A p \in Intersul :
        historico[p].status = Efetivado => acrescimos[p] = 1

\* Once every file is read, a resolved parent has told its children: paid,
\* they are PendenciaPaga; failed for a reason, they are NaoEfetivado.
FilhasSeguemPai ==
    Ociosa => \A p \in Pagamentos : \A h \in FilhasDe[p] :
        /\ Pago(historico[p]) => historico[h].status = PendenciaPaga
        /\ historico[p].status = NaoEfetivado /\ ~SemMotivo(historico[p])
              => historico[h].status = NaoEfetivado

\* Every file leaves /retorno for a backup folder, if the failures end.
TodoArquivoSai ==
    \A f \in 1..MaxArquivos : f \in retorno ~> f \notin retorno

\* A credit of the bank ends up shown as paid, and its family with it.
CreditoLevaABaixa ==
    \A p \in Pagamentos :
        banco[p] = "creditado" ~>
            /\ Pago(historico[p])
            /\ \A h \in FilhasDe[p] : historico[h].status = PendenciaPaga
=============================================================================
