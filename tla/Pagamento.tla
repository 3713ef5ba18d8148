------------------------------ MODULE Pagamento ------------------------------
(***************************************************************************)
(* The life of the orders of one payee: grouped (OrdemPagamentoAgrupado),  *)
(* prepared into a remessa, sent, answered by the bank, grouped again as   *)
(* pending when refused, cleared, resent.  Every endpoint is one action on *)
(* the tables; what may go wrong inside one of them is the subject of the  *)
(* modules Retorno and Preparo.                                            *)
(*                                                                         *)
(* An order must be paid at most once, and nothing in the tables says so:  *)
(* it follows from the statuses each query looks at, and from what the     *)
(* operator does not ask for.  Riscos names those requests, so that a run  *)
(* says which of them the statuses do not withstand.                       *)
(***************************************************************************)
EXTENDS StatusRemessa, SequencesExt

CONSTANTS
    Ordens,      \* the payee's orders, of different days and values
    Antigas,     \* those captured more than ten days ago
    Favorecidos, \* the payees a run is about: [tipo, iguais]
    Recusa,      \* an occurrence that refuses a payment
    ErroDeLote,  \* an occurrence that refuses a batch
    Riscos,      \* what the operator may ask for, see RiscosPossiveis
    MaxOpas,     \* bound on groupings ever made
    MaxEnvios,   \* bound on files sent, by payee
    MaxDias      \* bound on days, by payee

\* TipoPendente: the same tables and endpoints, but for another procedure of
\* pending payments and other columns of the order.
TipoPendente == {"permissionarios", "guardadores"}

RiscosPossiveis ==
    { "limparEnviado",        \* clear a preparo whose file was sent
      "pendenteDeDevolvido",  \* group pending while a file was returned whole
      "janelaAntiga",         \* prepare normally over days already pending
      "prepararDeNovo",       \* prepare normally over days already asked of the bank
      "agruparDeNovo",        \* group late orders of a day already prepared
      "renovarAceito" }       \* resend a file the bank did not return

ASSUME PagamentoAssumption ==
    /\ Antigas \subseteq Ordens
    /\ Favorecidos \subseteq [tipo : TipoPendente, iguais : SUBSET Ordens]
    /\ {Recusa, ErroDeLote} \subseteq STRING
    /\ ~OcorrenciaOk(Recusa) /\ ~OcorrenciaOk(ErroDeLote)
    /\ {Recusa, ErroDeLote} \cap {Branco, Nulo} = {}
    /\ Riscos \subseteq RiscosPossiveis
    /\ MaxOpas \in Nat
    /\ MaxEnvios \in [Favorecidos -> Nat]
    /\ MaxDias \in [Favorecidos -> Nat \ {0}]

VARIABLES
    favorecido, \* the payee: which kind, and which of its orders are copies
                \* of one another (equal day, value and id)
    opas,       \* ordem_pagamento_agrupado and its historicos, by id
    geradas,    \* ids given out by the sequence of opas
    headers,    \* status of each HeaderArquivo, by id
    instrucoes, \* payments asked of the bank, in the order they were sent
    envios,     \* files sent
    creditos,   \* times the bank credited each order
    hoje        \* the day

vars == <<favorecido, opas, geradas, headers, instrucoes, envios, creditos, hoje>>
banco_vars == <<instrucoes, envios, creditos>>

\* A row of the historico with its DetalheA: header 0 is "no DetalheA".
\* Amounts are sets of orders: valor is what the DetalheA pays, total what
\* the grouping summed when it was made.
Historico == [status |-> Criado, motivo |-> Nulo, dia |-> hoje,
              header |-> 0, valor |-> {}]

\* hist holds the rows of a grouping by id, so that a deleted one leaves a gap.
Opa(ordens, total) == [ordens |-> ordens, total |-> total, pai |-> 0,
                       dia |-> hoje, hist |-> [k \in {1} |-> Historico]]

Ids == DOMAIN opas
HistoricosDe(i) == {opas[i].hist[k] : k \in DOMAIN opas[i].hist}
StatusDe(i) == {h.status : h \in HistoricosDe(i)}

\* The newest row of a grouping, and the rows with one more.
UltimoDe(hist) == Max(DOMAIN hist)
MaisUm(hist) == [k \in DOMAIN hist \cup {UltimoDe(hist) + 1} |->
                   IF k \in DOMAIN hist THEN hist[k] ELSE Historico]

\* Every row of the historico, as <<grouping, place>>.
Linhas == UNION {{i} \X DOMAIN opas[i].hist : i \in Ids}
LinhaDe(l) == opas[l[1]].hist[l[2]]
FilhasDe(i) == {f \in Ids : opas[f].pai = i}

\* The payee is a guardador.
Guardador == favorecido.tipo = "guardadores"

\* The orders a grouping pays: its own, or its children's.
Cobertas(i) == opas[i].ordens \cup UNION {opas[f].ordens : f \in FilhasDe(i)}

Agrupadas == UNION {opas[i].ordens : i \in Ids}
Soltas == Ordens \ Agrupadas

\* gerarHeaderArquivo: the open header, or a new one.
Gerados == {h \in DOMAIN headers : headers[h] = "remessaGerado"}
HeaderAberto == IF Gerados # {} THEN CHOOSE h \in Gerados : TRUE
                                ELSE Len(headers) + 1

\* Details of a header still in the tables.
Detalhes(hdr) == {i \in Ids : \E h \in HistoricosDe(i) : h.header = hdr}

Init ==
    /\ favorecido \in Favorecidos
    /\ opas = [i \in {} |-> Opa({}, {})]
    /\ geradas = 0
    /\ headers = <<>>
    /\ instrucoes = <<>>
    /\ envios = 0
    /\ creditos = [o \in Ordens |-> 0]
    /\ hoje = 1

-----------------------------------------------------------------------------
(* Grouping and preparing.                                                 *)

\* The row of a grouping before anything is asked for it.
Intocada(h) == h.status = Criado /\ h.header = 0

\* The groupings of the day a loose order of that window joins.
DeHoje(janela) == {i \in Ids : opas[i].dia = hoje /\ opas[i].ordens \cap janela # {}}

\* p_agrupar_ordens: the loose orders of a window make a grouping of the day,
\* or are added to the one there is, whatever became of it since.
AgruparOrdens ==
    \E janela \in SUBSET Ordens :
        LET novas == Soltas \cap janela
        IN  /\ novas # {}
            /\ \/ /\ DeHoje(janela) = {}
                  /\ geradas < MaxOpas
                  /\ opas' = [i \in Ids \cup {geradas + 1} |->
                                 IF i \in Ids THEN opas[i] ELSE Opa(novas, novas)]
                  /\ geradas' = geradas + 1
               \/ /\ \E i \in DeHoje(janela) :
                        /\ \/ "agruparDeNovo" \in Riscos
                           \/ opas[i].pai = 0 /\ \A h \in HistoricosDe(i) : Intocada(h)
                        /\ opas' = [opas EXCEPT ![i].ordens = @ \cup novas,
                                                ![i].total  = @ \cup novas]
                  /\ UNCHANGED geradas
            /\ UNCHANGED <<favorecido, headers, banco_vars, hoje>>

\* prepararRemessa of the selected groupings: the last historico of each gets
\* (or keeps) its DetalheA in the open header and becomes PreparadoParaEnvio.
PrepararRemessa(ordens) ==
    /\ ordens # {}
    /\ opas' = [i \in Ids |->
                  IF i \in ordens
                  THEN [opas[i] EXCEPT !.hist[UltimoDe(opas[i].hist)] =
                          [@ EXCEPT !.status = PreparadoParaEnvio,
                                    !.header = HeaderAberto,
                                    !.valor  = opas[i].total]]
                  ELSE opas[i]]
    /\ headers' = IF Gerados # {} THEN headers
                                  ELSE Append(headers, "remessaGerado")
    /\ UNCHANGED <<favorecido, geradas, banco_vars, hoje>>

ComCriado == {i \in Ids : Criado \in StatusDe(i)}

\* findAllCustom: status 0 and an order in the window; nothing of a parent.
FindAllCustom(janela) == {i \in ComCriado : opas[i].ordens \cap janela # {}}

\* Mutant: the children's own rows are prepared too.
FindAllPendenteComFilhas(janela) ==
    {i \in ComCriado : /\ opas[i].dia = hoje
                       /\ \/ FilhasDe(i) # {}
                          \/ opas[i].ordens \cap janela # {}}

\* findAllPendente: today's parents, and today's groupings without one that
\* have an order in the window, a query that does not look at guardadores.
FindAllPendente(janela) ==
    {i \in ComCriado : /\ opas[i].dia = hoje
                       /\ \/ FilhasDe(i) # {}
                          \/ /\ ~Guardador
                             /\ opas[i].pai = 0 /\ opas[i].ordens \cap janela # {}}

\* The second half of prepararPagamentos: the procedure that groups commits by
\* itself, is also run by the hourly job, and skips payees without bank data.
PrepararNormal ==
    \E ordens \in {FindAllCustom(janela) : janela \in SUBSET Ordens} :
        /\ "janelaAntiga" \in Riscos \/ \A i \in ordens : opas[i].pai = 0
        /\ "prepararDeNovo" \in Riscos
           \/ \A i \in ordens : \A h \in HistoricosDe(i) : h.header = 0
        /\ PrepararRemessa(ordens)

PrepararPendentes ==
    \E ordens \in {FindAllPendente(janela) : janela \in SUBSET Ordens} :
        PrepararRemessa(ordens)

\* A refusal by the bank.  A blank reason passes "IS NOT NULL" and "NOT IN".
Rejeicao(h) == /\ h.status = NaoEfetivado
               /\ h.motivo \notin {Nulo, "AM", Zero, BD}
               /\ h.header # 0

\* Of the refused attempts of a grouping, the one with the newest DetalheA.
UltimaRejeicao(i) == Max({k \in DOMAIN opas[i].hist : Rejeicao(opas[i].hist[k])})

\* fn_ordem_pagamento_ja_paga_ou_em_andamento: a copy of the order is in a
\* grouping that was asked for or paid, by itself or through its parent.
JaPagaOuEmAndamento(o) ==
    /\ o \in favorecido.iguais
    /\ \E i \in Ids :
          /\ opas[i].ordens \cap (favorecido.iguais \ {o}) # {}
          /\ \E j \in {i, opas[i].pai} \cap Ids : \E h \in HistoricosDe(j) :
                h.header # 0 /\ h.status \in {PreparadoParaEnvio, AguardandoPagamento,
                                              Efetivado, PendenciaPaga}

\* Mutant: copies are not looked for.
SemCopiaPagaNunca(i) == TRUE

\* A grouping with such an order is left to be looked at by somebody.
SemCopiaPaga(i) == \A o \in opas[i].ordens : ~JaPagaOuEmAndamento(o)

\* Mutant: the parent's historicos are not looked at.
PendenteSemPai(i) ==
    /\ SemCopiaPaga(i)
    /\ \E h \in HistoricosDe(i) : Rejeicao(h)
    /\ StatusDe(i) \cap {PreparadoParaEnvio, AguardandoPagamento,
                         Efetivado, PendenciaPaga} = {}

\* PASSO 1: refused by the bank, not paid nor on its way by itself or through
\* its parent.
Pendente(i) ==
    /\ opas[i].ordens # {}
    /\ SemCopiaPaga(i)
    /\ \E h \in HistoricosDe(i) : Rejeicao(h)
    /\ StatusDe(i) \cap {PreparadoParaEnvio, AguardandoPagamento,
                         Efetivado, PendenciaPaga} = {}
    /\ opas[i].pai \in Ids => StatusDe(opas[i].pai) \subseteq {NaoEfetivado}

\* A file returned whole is on record, or on its way to be.
HaDevolvido ==
    \/ \E i \in Ids : \E h \in HistoricosDe(i) : h.status = NaoEfetivado /\ h.motivo = Branco
    \/ \E k \in DOMAIN instrucoes : instrucoes[k].retorno = <<Branco, Branco>>

\* Third branch of the guardadores: grouped before yesterday, never asked for.
NuncaEnviado(i) ==
    /\ Guardador
    /\ opas[i].ordens # {} /\ opas[i].pai = 0
    /\ opas[i].dia < hoje - 1
    /\ \A h \in HistoricosDe(i) : Intocada(h)
    /\ SemCopiaPaga(i)

\* The loose orders PASSO 0 takes: the old ones, or for guardadores those of
\* the days asked for.
OrdensNuncaAgrupadas(janela) ==
    {o \in Soltas : /\ o \in IF Guardador THEN janela ELSE Antigas
                    /\ ~JaPagaOuEmAndamento(o)}

\* The refused groupings PASSO 1 takes: of the days asked for, or for
\* guardadores all of them.
Falhas(dias) == {i \in Ids : Pendente(i) /\ (Guardador \/ opas[i].dia \in dias)}

\* The groupings never asked for, and the loose orders' one.
Nunca == {i \in Ids : NuncaEnviado(i)}
IdFresca(frescas) == IF frescas = {} THEN {} ELSE {geradas + 1}

\* What the parent pays, and a grouping that becomes its child.
TotalDoPai(falhas, frescas) ==
    UNION ({frescas} \cup {opas[i].total : i \in Nunca}
             \cup {opas[i].hist[UltimaRejeicao(i)].valor : i \in falhas})
Filha(opa, pai) == [opa EXCEPT !.pai = pai, !.hist = MaisUm(@)]

\* PASSO 0 groups loose orders, PASSO 1 puts that grouping and the pending
\* ones under a new parent; the children get one more historico.
AgruparSobPai(falhas, frescas) ==
    LET filhas == falhas \cup Nunca \cup IdFresca(frescas)
        pai    == geradas + Cardinality(IdFresca(frescas)) + 1
    IN  /\ filhas # {}
        /\ pai <= MaxOpas
        /\ opas' = [i \in Ids \cup filhas \cup {pai} |->
                      IF i = pai THEN Opa({}, TotalDoPai(falhas, frescas))
                      ELSE IF i \in IdFresca(frescas) THEN Filha(Opa(frescas, frescas), pai)
                      ELSE IF i \in filhas THEN Filha(opas[i], pai)
                      ELSE opas[i]]
        /\ geradas' = pai
        /\ UNCHANGED <<favorecido, headers, banco_vars, hoje>>

\* p_agrupar_ordens_consorcio_pendentes, p_agrupar_ordens_guardador_pendente.
AgruparPendentes ==
    \E falhas  \in {Falhas(dias) : dias \in SUBSET (1..hoje)},
       frescas \in {OrdensNuncaAgrupadas(janela) : janela \in SUBSET Ordens} :
        /\ HaDevolvido => "pendenteDeDevolvido" \in Riscos
        /\ AgruparSobPai(falhas, frescas)

-----------------------------------------------------------------------------
(* Clearing a preparo.                                                     *)

\* A header left without details is deleted.
SemOrfaos(novas) ==
    [h \in DOMAIN headers |->
        IF \/ Detalhes(h) = {}
           \/ \E i \in DOMAIN novas : \E k \in DOMAIN novas[i].hist :
                  novas[i].hist[k].header = h
        THEN headers[h] ELSE "apagado"]

ForaDoBanco(alvos) ==
    \/ "limparEnviado" \in Riscos
    \/ \A i \in alvos : \A h \in HistoricosDe(i) :
          h.header # 0 => headers[h.header] = "remessaGerado"

\* limparPreparo of consorcios and modais: today's groupings with a prepared
\* row; the orders are loose again.
LimparPreparo ==
    LET alvos == {i \in Ids : /\ opas[i].dia = hoje
                              /\ opas[i].ordens # {}
                              /\ \E h \in HistoricosDe(i) :
                                    /\ h.status = PreparadoParaEnvio
                                    /\ h.header # 0}
        presas == {i \in alvos : \E h \in HistoricosDe(i) :
                      h.header # 0 /\ h.status # PreparadoParaEnvio}
        ficam == [i \in Ids \ alvos |-> opas[i]]
    IN  /\ alvos # {}
        /\ presas = {}          \* another DetalheA: the DELETE is rolled back
        /\ ForaDoBanco(alvos)
        /\ opas' = ficam
        /\ headers' = SemOrfaos(ficam)
        /\ UNCHANGED <<favorecido, geradas, banco_vars, hoje>>

\* A historico the pending procedure opened today.
Aberta(h) == Intocada(h) /\ h.dia = hoje

\* Children made for this preparo: of today, never paid nor asked for.
FilhasNovas(filhas) == {f \in filhas : /\ opas[f].dia = hoje
                                       /\ \A h \in HistoricosDe(f) : Intocada(h)}

\* The other rows of a child.
Fechados(f) == Restrict(opas[f].hist,
                        {k \in DOMAIN opas[f].hist : ~Aberta(opas[f].hist[k])})

\* Mutant: the child keeps pointing at the parent.
FilhaSoltaComPai(f) == [opas[f] EXCEPT !.hist = Fechados(f)]

\* A child that stays loses the historicos opened for it, and its parent.
FilhaSolta(f) == [opas[f] EXCEPT !.pai = 0, !.hist = Fechados(f)]

\* limparPreparo of pending payments: today's parents not yet answered.
LimparPreparoPendentes ==
    LET pais   == {i \in Ids : /\ opas[i].dia = hoje
                               /\ FilhasDe(i) # {}
                               /\ StatusDe(i) \subseteq {Criado, PreparadoParaEnvio}}
        filhas == UNION {FilhasDe(i) : i \in pais}
        novas  == FilhasNovas(filhas)
        ficam  == [i \in Ids \ (pais \cup novas) |->
                      IF i \in filhas THEN FilhaSolta(i) ELSE opas[i]]
    IN  /\ pais # {}
        /\ ForaDoBanco(pais)
        /\ opas' = ficam
        /\ headers' = SemOrfaos(ficam)
        /\ UNCHANGED <<favorecido, geradas, banco_vars, hoje>>

-----------------------------------------------------------------------------
(* Sending, and sending again.                                             *)

\* Mutant: the header is not saved after the upload.
EnviadoSemSalvar(hdr) == headers

\* The header once its file is at the bank.
Enviado(hdr) == [headers EXCEPT ![hdr] = "remessaEnviado"]

\* gerarCnabText and enviarRemessa: every DetalheA of the open header goes.
EnviarRemessa ==
    /\ envios < MaxEnvios[favorecido]
    /\ \E hdr \in Gerados :
           LET linhas == {l \in Linhas : LinhaDe(l).header = hdr}
               pedido(l) == [dia |-> opas[l[1]].dia,
                             valor |-> LinhaDe(l).valor,
                             header |-> hdr,
                             fase |-> "recebida", retorno |-> <<>>]
               fila == SetToSeq(linhas)
           IN  /\ instrucoes' = instrucoes \o [n \in DOMAIN fila |-> pedido(fila[n])]
               /\ headers' = Enviado(hdr)
    /\ envios' = envios + 1
    /\ UNCHANGED <<favorecido, opas, geradas, creditos, hoje>>

Devolvido(hdr) ==
    \A k \in DOMAIN instrucoes :
        instrucoes[k].header = hdr =>
            instrucoes[k].fase = "devolvida" /\ instrucoes[k].retorno = <<>>

\* renovarNsaRemessa: the header is open again; 409 if another one is.  It is
\* asked for when the return of that file was read; the code does not look.
RenovarNsaRemessa ==
    \E hdr \in DOMAIN headers :
        /\ headers[hdr] = "remessaEnviado"
        /\ Gerados = {}
        /\ "renovarAceito" \in Riscos \/ Devolvido(hdr)
        /\ headers' = [headers EXCEPT ![hdr] = "remessaGerado"]
        /\ UNCHANGED <<favorecido, opas, geradas, banco_vars, hoje>>

VirarDia ==
    /\ hoje < MaxDias[favorecido]
    /\ hoje' = hoje + 1
    /\ UNCHANGED <<favorecido, opas, geradas, headers, banco_vars>>

-----------------------------------------------------------------------------
(* The bank.  retorno holds the occurrences of its last answer, as         *)
(* <<batch, detail>>, until the program reads them.                        *)

Responder(k, fase, lote, det) ==
    /\ instrucoes' = [instrucoes EXCEPT ![k].fase = fase,
                                        ![k].retorno = <<lote, det>>]
    /\ UNCHANGED <<favorecido, opas, geradas, headers, envios, hoje>>

BancoInclui(k) ==
    /\ instrucoes[k].fase = "recebida"
    /\ \/ Responder(k, "incluida", BD, BD)
       \/ Responder(k, "recusada", BD, Recusa)
       \/ Responder(k, "recusada", ErroDeLote, Recusa)
    /\ UNCHANGED creditos

BancoCredita(k) ==
    /\ instrucoes[k].fase = "incluida"
    /\ instrucoes[k].retorno = <<>>
    /\ \/ /\ Responder(k, "creditada", Zero, Zero)
          /\ creditos' = [o \in Ordens |-> creditos[o] +
                             IF o \in instrucoes[k].valor THEN 1 ELSE 0]
       \/ Responder(k, "recusada", Zero, Recusa) /\ UNCHANGED creditos

\* A file is returned whole, all its payments with blank occurrences.
BancoDevolve ==
    \E hdr \in DOMAIN headers :
        LET S == {k \in DOMAIN instrucoes : /\ instrucoes[k].header = hdr
                                            /\ instrucoes[k].fase = "recebida"}
        IN  /\ S # {}
            /\ instrucoes' = [k \in DOMAIN instrucoes |->
                                IF k \in S
                                THEN [instrucoes[k] EXCEPT !.fase = "devolvida",
                                                           !.retorno = <<Branco, Branco>>]
                                ELSE instrucoes[k]]
            /\ UNCHANGED <<favorecido, opas, geradas, headers, envios, creditos, hoje>>

Banco == \/ \E k \in DOMAIN instrucoes : BancoInclui(k) \/ BancoCredita(k)
         \/ BancoDevolve

-----------------------------------------------------------------------------
(* The program reads an answer.                                            *)

\* getDetalheARetorno: a row with a DetalheA of that value and day.
GetDetalheARetorno(pedido) ==
    {l \in Linhas :
        /\ opas[l[1]].dia = pedido.dia
        /\ LinhaDe(l).header # 0
        /\ LinhaDe(l).valor = pedido.valor
        /\ Cobertas(l[1]) # {}
        /\ Casa(LinhaDe(l))}

Aplicada(h, lote, det, muitos) ==
    LET b == Baixa(h, lote, det, muitos)
    IN  [h EXCEPT !.status = b.status, !.motivo = b.motivo]

\* getHistorico: the row itself, and the open rows of the children.
EmAberto(h) == h.status \notin {NaoEfetivado, Efetivado}
ComFilhas(i) == \E f \in FilhasDe(i) : \E h \in HistoricosDe(f) : EmAberto(h)

\* A row of a child: its own turn of the loop, and what its parent tells it.
DaFilha(h, pai, lote, det, muitos) ==
    LET a == IF EmAberto(h) THEN Aplicada(h, lote, det, muitos) ELSE h
        p == Propagado(pai, a)
    IN  [h EXCEPT !.status = p.status, !.motivo = p.motivo]

AtualizarStatusRemessaHistorico(i, n, lote, det) ==
    LET raiz == opas[i].hist[n]
        nova == Aplicada(raiz, lote, det, ComFilhas(i))
        para == ErroNoHeaderLote(raiz, lote)
    IN  [j \in Ids |->
           IF j = i THEN [opas[i] EXCEPT !.hist[n] = nova]
           ELSE IF j \in FilhasDe(i) /\ ~para
           THEN [opas[j] EXCEPT !.hist =
                   [m \in DOMAIN @ |-> DaFilha(@[m], nova, lote, det, ComFilhas(i))]]
           ELSE opas[j]]

\* A record that finds no row is only logged.
LerRetorno(k) ==
    LET r == instrucoes[k].retorno
        achadas == GetDetalheARetorno(instrucoes[k])
    IN  /\ r # <<>>
        /\ instrucoes' = [instrucoes EXCEPT ![k].retorno = <<>>]
        /\ opas' \in IF achadas = {} THEN {opas}
                     ELSE {AtualizarStatusRemessaHistorico(l[1], l[2], r[1], r[2]) :
                              l \in achadas}
        /\ UNCHANGED <<favorecido, geradas, headers, envios, creditos, hoje>>

-----------------------------------------------------------------------------
Next == \/ AgruparOrdens \/ PrepararNormal
        \/ AgruparPendentes \/ PrepararPendentes
        \/ LimparPreparo \/ LimparPreparoPendentes
        \/ EnviarRemessa \/ RenovarNsaRemessa
        \/ VirarDia
        \/ Banco
        \/ \E k \in DOMAIN instrucoes : LerRetorno(k)

Spec == Init /\ [][Next]_vars

-----------------------------------------------------------------------------
(* Properties.                                                             *)

Fases == {"recebida", "incluida", "creditada", "recusada", "devolvida"}
Ocorrencias == {Branco, BD, Zero, Recusa, ErroDeLote}

\* Every variable has its type; children point at groupings that exist.
TypeOK ==
    /\ geradas \in 0..MaxOpas
    /\ Ids \subseteq 1..geradas
    /\ \A i \in Ids :
          /\ opas[i].ordens \subseteq Ordens
          /\ opas[i].total \subseteq Ordens
          /\ opas[i].pai \in Ids \cup {0}
          /\ opas[i].dia \in 1..hoje
          /\ \A h \in HistoricosDe(i) :
                /\ h.status \in StatusRemessaEnum
                /\ h.motivo \in Ocorrencias \cup {Nulo, Espacos}
                /\ h.dia \in 1..hoje
                /\ h.header \in 0..Len(headers)
                /\ h.valor \subseteq Ordens
    /\ \A h \in DOMAIN headers :
          headers[h] \in {"remessaGerado", "remessaEnviado", "apagado"}
    /\ \A k \in DOMAIN instrucoes : instrucoes[k].fase \in Fases
    /\ envios \in 0..MaxEnvios[favorecido]
    /\ creditos \in [Ordens -> Nat]
    /\ hoje \in 1..MaxDias[favorecido]
    /\ favorecido \in Favorecidos

\* What the migration 1791500000000 promises: only what was never paid goes
\* to the bank.  No order is credited twice.
PagoNoMaximoUmaVez == \A o \in Ordens : creditos[o] <= 1

Vivas(o) == {k \in DOMAIN instrucoes :
                /\ o \in instrucoes[k].valor
                /\ instrucoes[k].fase \notin {"recusada", "devolvida"}}

\* Stronger, and long before the money moves: the bank never holds two
\* requests for one order, by itself and inside a pending parent.
UmPedidoVivo == \A o \in Ordens : Cardinality(Vivas(o)) <= 1

\* An order that is loose, and so may be grouped and paid again, is not
\* asked of the bank and was not credited.
SoltaNaoPaga == \A o \in Soltas : Vivas(o) = {}

\* A grouping is shown as paid only if every order of it was credited, also
\* when the credit was its parent's.
LivroNaoMente ==
    \A i \in Ids : \A h \in HistoricosDe(i) :
        Pago(h) => \A o \in Cobertas(i) : creditos[o] > 0

\* Every answer of the bank finds the row it is about, and no other, whatever
\* was grouped, cleared or refused in between.
RespostaAchaSuaLinha ==
    \A k \in DOMAIN instrucoes :
        instrucoes[k].retorno # <<>> =>
            Cardinality(GetDetalheARetorno(instrucoes[k])) = 1

\* As long as no file was returned whole, a grouping that the pending
\* procedure may take again holds no order the bank still has or has paid, nor
\* a copy of one that is in another grouping: the NOT EXISTS are enough.
PendenteNaoPago ==
    ~HaDevolvido =>
        \A i \in Ids : Pendente(i) \/ NuncaEnviado(i) =>
            \A o \in opas[i].ordens :
                LET copias == IF o \in favorecido.iguais THEN favorecido.iguais ELSE {}
                IN  \A q \in {o} \cup (copias \ opas[i].ordens) : Vivas(q) = {}

\* "Failed attempts remain eligible": a grouping whose own payment, and its
\* parent's, were refused is taken by the next pending procedure.
FalhaContinuaElegivel ==
    \A i \in Ids :
        LET falhou(j) == StatusDe(j) = {NaoEfetivado}
        IN  /\ opas[i].ordens # {}
            /\ falhou(i)
            /\ opas[i].pai \in Ids => falhou(opas[i].pai)
            /\ favorecido.iguais = {}
            => Pendente(i)
=============================================================================
