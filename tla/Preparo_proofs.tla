---------------------------- MODULE Preparo_proofs ----------------------------
(***************************************************************************)
(* Proofs about Preparo, for any rows, selections and number of preparos   *)
(* at once: the types; that what the bank was asked is recorded as         *)
(* prepared, was asked once and is in no open file; that files have        *)
(* numbers of their own; and that a debt falls by what payments lack.      *)
(***************************************************************************)
EXTENDS Preparo, SequenceTheorems, FiniteSetTheorems, TLAPS

Header == [status : {"remessaGerado", "remessaEnviado"}, nsa : 0..UltimoNsa]

\* The least of three numbers is one of them, and no greater than any.
LEMMA DescontoCabe ==
    ASSUME NEW lido \in Nat
    PROVE  Desconto(lido) \in Nat /\ Desconto(lido) <= lido /\ Desconto(lido) <= Teto
<1> DEFINE S == {Valor, Teto, lido}
           EhMin(x) == x \in S /\ \A y \in S : x =< y
<1>1. \E x : EhMin(x)
  BY PreparoAssumption
<1>2. Desconto(lido) = CHOOSE x : EhMin(x)
  BY DEF Desconto, Min
<1>3. EhMin(CHOOSE x : EhMin(x))
  <2> HIDE DEF EhMin
  <2> QED
    BY <1>1
<1> QED
  BY <1>2, <1>3, PreparoAssumption

\* What the state of a preparo, of a sender and of a renewal is made of.
TipoPreparo(n) ==
    [passo : PassosDePreparo, header : 0..n, nsa : 0..UltimoNsa,
     faltam : SUBSET Pagamentos, existe : BOOLEAN, atual : Pagamentos \cup {Ninguem},
     lido : 0..Divida, desconto : 0..Teto]
TipoRemetente(n) ==
    [passo : PassosDeEnvio, header : 0..n, nsa : 0..UltimoNsa, linhas : SUBSET Pagamentos]
TipoRenovacao(n) ==
    [passo : {"fora", "nsa", "gravarNsa", "salvar"}, header : 0..n, nsa : 0..UltimoNsa]

LEMMA Parados ==
    ASSUME NEW n \in Nat
    PROVE  /\ SemPreparo \in TipoPreparo(n)
           /\ SemEnvio \in TipoRemetente(n)
           /\ SemRenovacao \in TipoRenovacao(n)
BY PreparoAssumption DEF SemPreparo, SemEnvio, SemRenovacao, TipoPreparo, TipoRemetente,
                         TipoRenovacao, PassosDePreparo, PassosDeEnvio

\* A step of a preparo that changes only its own memory keeps the types.
LEMMA AnotarTipo ==
    ASSUME TypeOK, NEW p \in Preparadores, NEW nova \in TipoPreparo(Len(headers)),
           Anotar(p, nova), UNCHANGED <<db_vars, banco_vars, remetente, renovacao, quedas>>,
           inacabados' \subseteq inacabados \cup {p}, falhas' \in 0..MaxFalhas
    PROVE  TypeOK'
BY DEF TypeOK, Anotar, TipoPreparo, db_vars, banco_vars, indevido_vars

LEMMA PreparoAnotado ==
    ASSUME TypeOK, NEW p \in Preparadores, NEW n \in Nat, Len(headers) <= n,
           NEW nova \in TipoPreparo(n), Anotar(p, nova)
    PROVE  preparo' \in [Preparadores -> TipoPreparo(n)]
<1>1. Len(headers) \in Nat
  BY DEF TypeOK
<1>2. preparo \in [Preparadores -> TipoPreparo(n)]
  <2>1. 0..Len(headers) \subseteq 0..n
    BY <1>1
  <2>2. TipoPreparo(Len(headers)) \subseteq TipoPreparo(n)
    BY <2>1 DEF TipoPreparo
  <2> QED
    BY <2>2 DEF TypeOK, TipoPreparo
<1> QED
  BY <1>2 DEF Anotar

LEMMA ProximoNsaCabe == ASSUME NEW n \in 0..UltimoNsa PROVE ProximoNsa(n) \in 0..UltimoNsa
BY PreparoAssumption DEF ProximoNsa

LEMMA TypeOKMantidoPreparo ==
    ASSUME TypeOK, NEW p \in Preparadores, Preparar(p) PROVE TypeOK'
<1>0. preparo[p] \in TipoPreparo(Len(headers)) /\ Len(headers) \in Nat
  BY DEF TypeOK, TipoPreparo
<1>1. CASE PrepararRemessa(p)
  <2>1. CASE Anotar(p, [SemPreparo EXCEPT !.passo = "header", !.faltam = Selecionados(p)])
             /\ inacabados' = inacabados \cup {p}
    <3>1. [SemPreparo EXCEPT !.passo = "header", !.faltam = Selecionados(p)]
             \in TipoPreparo(Len(headers))
      BY <1>0, PreparoAssumption, Parados DEF TipoPreparo, PassosDePreparo, Selecionados
    <3> QED
      BY <1>1, <2>1, <3>1, AnotarTipo
         DEF PrepararRemessa, SoPreparo, limite_vars, TypeOK
  <2>2. CASE inacabados' = inacabados \ {p} /\ UNCHANGED preparo
    BY <1>1, <2>2 DEF PrepararRemessa, SoPreparo, limite_vars, db_vars, banco_vars,
                      indevido_vars, TypeOK
  <2> QED
    BY <1>1, <2>1, <2>2 DEF PrepararRemessa
<1>2. CASE GerarHeaderArquivo(p)
  <2>1. ASSUME NEW i \in Gerados
        PROVE  [preparo[p] EXCEPT !.passo = "resolver", !.header = i] \in TipoPreparo(Len(headers))
    <3>1. i \in 0..Len(headers)
      BY <2>1 DEF TypeOK, Gerados
    <3> QED
      BY <1>0, <3>1 DEF TipoPreparo, PassosDePreparo
  <2>2. [preparo[p] EXCEPT !.passo = "nsa"] \in TipoPreparo(Len(headers))
    BY <1>0 DEF TipoPreparo, PassosDePreparo
  <2>3. /\ UNCHANGED <<db_vars, banco_vars, remetente, renovacao, quedas, falhas>>
        /\ inacabados' = inacabados
    BY <1>2 DEF GerarHeaderArquivo, SoPreparo, limite_vars
  <2>4. \E nova \in TipoPreparo(Len(headers)) : Anotar(p, nova)
    BY <1>2, <2>1, <2>2 DEF GerarHeaderArquivo
  <2> QED
    BY <2>3, <2>4, AnotarTipo DEF TypeOK
<1>3. CASE LerNsa(p)
  <2>1. [preparo[p] EXCEPT !.passo = "gravarNsa", !.nsa = ProximoNsa(nsa)]
           \in TipoPreparo(Len(headers))
    <3>1. ProximoNsa(nsa) \in 0..UltimoNsa
      BY ProximoNsaCabe DEF TypeOK
    <3> QED
      BY <1>0, <3>1 DEF TipoPreparo, PassosDePreparo
  <2> QED
    BY <1>3, <2>1, AnotarTipo DEF LerNsa, SoPreparo, limite_vars, TypeOK
<1>4. CASE GravarNsa(p)
  <2>1. [preparo[p] EXCEPT !.passo = "salvarHeader"] \in TipoPreparo(Len(headers))
    BY <1>0 DEF TipoPreparo, PassosDePreparo
  <2>2. preparo' \in [Preparadores -> TipoPreparo(Len(headers))]
    BY <1>0, <1>4, <2>1, PreparoAnotado DEF GravarNsa
  <2>3. nsa' \in 0..UltimoNsa
    BY <1>0, <1>4 DEF GravarNsa, TipoPreparo
  <2> QED
    BY <1>4, <2>2, <2>3 DEF GravarNsa, SoPreparo, limite_vars, banco_vars, indevido_vars,
       TypeOK, TipoPreparo
<1>5. CASE SalvarHeader(p)
  <2> DEFINE novo == [status |-> "remessaGerado", nsa |-> preparo[p].nsa]
             n == Len(headers) + 1
  <2>1. novo \in Header
    BY <1>0 DEF Header, TipoPreparo
  <2>2. headers' \in Seq(Header) /\ Len(headers') = n /\ n \in Nat
    <3>1. headers \in Seq(Header)
      BY DEF TypeOK, Header
    <3>2. headers' = Append(headers, novo)
      BY <1>5 DEF SalvarHeader
    <3> HIDE DEF novo
    <3> QED
      BY <2>1, <3>1, <3>2
  <2>3. [preparo[p] EXCEPT !.passo = "resolver", !.header = n] \in TipoPreparo(n)
    <3>1. n \in 0..n
      BY <2>2
    <3>2. preparo[p] \in TipoPreparo(Len(headers))
      BY <1>0
    <3> HIDE DEF n
    <3> QED
      BY <3>1, <3>2 DEF TipoPreparo, PassosDePreparo
  <2>4. preparo' \in [Preparadores -> TipoPreparo(n)]
    BY <1>0, <1>5, <2>2, <2>3, PreparoAnotado DEF SalvarHeader
  <2>5. 0..Len(headers) \subseteq 0..n
    BY <1>0
  <2> QED
    BY <1>5, <2>2, <2>4, <2>5 DEF SalvarHeader, SoPreparo, limite_vars, banco_vars,
       indevido_vars, TypeOK, TipoPreparo, Header
<1>6. CASE LerIndevidos(p)
  <2> DEFINE nova == [preparo[p] EXCEPT !.passo = "ordem",
                                        !.lido = IF ADescontar(p) = {} THEN 0 ELSE saldo]
  <2>1. nova \in TipoPreparo(Len(headers))
    <3>1. (IF ADescontar(p) = {} THEN 0 ELSE saldo) \in 0..Divida
      BY PreparoAssumption DEF TypeOK
    <3> HIDE DEF ADescontar
    <3> QED
      BY <1>0, <3>1 DEF TipoPreparo, PassosDePreparo
  <2> QED
    BY <1>6, <2>1, AnotarTipo DEF LerIndevidos, SoPreparo, limite_vars, TypeOK
<1>7. CASE ExistsDetalheA(p)
  <2>1. ASSUME NEW h \in preparo[p].faltam, NEW passo \in {"debitar", "detalhe"},
               NEW existe \in BOOLEAN
        PROVE  [preparo[p] EXCEPT !.passo = passo, !.atual = h, !.faltam = @ \ {h},
                                  !.existe = existe] \in TipoPreparo(Len(headers))
    BY <1>0, <2>1 DEF TipoPreparo, PassosDePreparo
  <2>2. /\ UNCHANGED <<db_vars, banco_vars, remetente, renovacao, quedas, falhas>>
        /\ inacabados' \subseteq inacabados \cup {p}
    BY <1>7 DEF ExistsDetalheA, SoPreparo, limite_vars
  <2>3. \E nova \in TipoPreparo(Len(headers)) : Anotar(p, nova)
    BY <1>0, <1>7, <2>1, Parados DEF ExistsDetalheA
  <2> QED
    BY <2>2, <2>3, AnotarTipo DEF TypeOK
<1>8. CASE DebitarPagamentoIndevido(p)
  <2> DEFINE desc == Desconto(preparo[p].lido)
  <2>1. desc \in 0..Teto /\ preparo[p].lido - desc \in 0..Divida
    <3>1. preparo[p].lido \in 0..Divida
      BY <1>0 DEF TipoPreparo
    <3>2. preparo[p].lido \in Nat
      BY <3>1, PreparoAssumption
    <3>3. desc \in Nat /\ desc <= preparo[p].lido /\ desc <= Teto
      BY <3>2, DescontoCabe
    <3> HIDE DEF desc
    <3> QED
      BY <3>1, <3>3, PreparoAssumption
  <2>2. [preparo[p] EXCEPT !.passo = "detalhe", !.desconto = desc]
           \in TipoPreparo(Len(headers))
    <3> HIDE DEF desc
    <3> QED
      BY <1>0, <2>1 DEF TipoPreparo, PassosDePreparo
  <2>3. preparo' \in [Preparadores -> TipoPreparo(Len(headers))]
    BY <1>0, <1>8, <2>2, PreparoAnotado DEF DebitarPagamentoIndevido
  <2>4. saldo' \in 0..Divida
    BY <1>8, <2>1 DEF DebitarPagamentoIndevido, TypeOK
  <2> QED
    BY <1>8, <2>3, <2>4 DEF DebitarPagamentoIndevido, SoPreparo, limite_vars, banco_vars,
       TypeOK, TipoPreparo
<1>9. CASE GerarDetalheAB(p)
  <2>1. [preparo[p] EXCEPT !.passo = "status"] \in TipoPreparo(Len(headers))
    BY <1>0 DEF TipoPreparo, PassosDePreparo
  <2>2. preparo' \in [Preparadores -> TipoPreparo(Len(headers))]
    BY <1>0, <1>9, <2>1, Parados, PreparoAnotado DEF GerarDetalheAB
  <2>3. detalhe' \in [Pagamentos -> 0..Len(headers)] /\ desconto' \in [Pagamentos -> 0..Teto]
    BY <1>0, <1>9 DEF GerarDetalheAB, TypeOK, TipoPreparo
  <2> QED
    BY <1>9, <2>2, <2>3 DEF GerarDetalheAB, SoPreparo, limite_vars, banco_vars, TypeOK,
       TipoPreparo
<1>10. CASE AtualizaStatusRemessa(p)
  <2>1. [preparo[p] EXCEPT !.passo = "ordem", !.atual = Ninguem, !.desconto = 0]
           \in TipoPreparo(Len(headers))
    <3>1. 0 \in 0..Teto
      BY PreparoAssumption
    <3> QED
      BY <1>0, <3>1 DEF TipoPreparo, PassosDePreparo
  <2>2. preparo' \in [Preparadores -> TipoPreparo(Len(headers))]
    BY <1>0, <1>10, <2>1, PreparoAnotado DEF AtualizaStatusRemessa
  <2>3. historico' \in [Pagamentos -> {Criado, PreparadoParaEnvio}]
    BY <1>10 DEF AtualizaStatusRemessa, TypeOK
  <2> QED
    BY <1>10, <2>2, <2>3 DEF AtualizaStatusRemessa, SoPreparo, limite_vars, banco_vars,
       indevido_vars, TypeOK, TipoPreparo
<1>11. CASE ExcecaoNoPreparo(p)
  <2>1. falhas' \in 0..MaxFalhas
    BY <1>11, PreparoAssumption DEF ExcecaoNoPreparo, TypeOK
  <2>2. SemPreparo \in TipoPreparo(Len(headers)) /\ Anotar(p, SemPreparo)
    BY <1>0, <1>11, Parados DEF ExcecaoNoPreparo
  <2>3. /\ UNCHANGED <<db_vars, banco_vars, remetente, renovacao, quedas>>
        /\ inacabados' \subseteq inacabados \cup {p}
    BY <1>11 DEF ExcecaoNoPreparo
  <2> QED
    BY <2>1, <2>2, <2>3, AnotarTipo
<1> QED
  BY <1>1, <1>2, <1>3, <1>4, <1>5, <1>6, <1>7, <1>8, <1>9, <1>10, <1>11 DEF Preparar

LEMMA RemetenteAnotado ==
    ASSUME TypeOK, NEW r \in Remetentes, NEW novo \in TipoRemetente(Len(headers)),
           Remeter(r, novo)
    PROVE  remetente' \in [Remetentes -> TipoRemetente(Len(headers))]
BY DEF TypeOK, Remeter, TipoRemetente

LEMMA HeadersTipo ==
    ASSUME TypeOK
    PROVE  /\ headers \in Seq(Header)
           /\ Len(headers) \in Nat
           /\ DOMAIN headers = 1..Len(headers)
           /\ \A i \in DOMAIN headers : headers[i] \in Header
<1>1. headers \in Seq(Header)
  BY DEF TypeOK, Header
<1> QED
  BY <1>1

\* A header is saved again in its place.
LEMMA HeaderTrocado ==
    ASSUME TypeOK, NEW i, NEW novo, i \in DOMAIN headers => novo \in Header
    PROVE  /\ [headers EXCEPT ![i] = novo] \in Seq(Header)
           /\ Len([headers EXCEPT ![i] = novo]) = Len(headers)
<1>1. headers \in Seq(Header) /\ DOMAIN headers = 1..Len(headers)
  BY HeadersTipo
<1>2. CASE i \in DOMAIN headers
  BY <1>1, <1>2, ExceptSeq
<1>3. CASE i \notin DOMAIN headers
  <2>1. [headers EXCEPT ![i] = novo] = headers
    BY <1>1, <1>3
  <2> QED
    BY <1>1, <2>1
<1> QED
  BY <1>2, <1>3

LEMMA TypeOKMantidoEnvio ==
    ASSUME TypeOK, NEW r \in Remetentes, Enviar(r) PROVE TypeOK'
<1>0. remetente[r] \in TipoRemetente(Len(headers)) /\ Len(headers) \in Nat
  BY DEF TypeOK, TipoRemetente
<1>1. CASE GerarCnabText(r)
  <2>1. ASSUME NEW i \in Gerados
        PROVE  [passo |-> "enviar", header |-> i, nsa |-> headers[i].nsa,
                linhas |-> {h \in Pagamentos : detalhe[h] = i}] \in TipoRemetente(Len(headers))
    <3>1. i \in DOMAIN headers
      BY <2>1 DEF Gerados
    <3>2. headers[i] \in Header /\ i \in 0..Len(headers)
      BY <3>1, HeadersTipo
    <3> QED
      BY <3>2 DEF Header, TipoRemetente, PassosDeEnvio
  <2>2. \E novo \in TipoRemetente(Len(headers)) : Remeter(r, novo)
    BY <1>1, <2>1 DEF GerarCnabText
  <2>3. remetente' \in [Remetentes -> TipoRemetente(Len(headers))]
    BY <2>2, RemetenteAnotado
  <2> QED
    BY <1>1, <2>3 DEF GerarCnabText, SoEnvio, indevido_vars, banco_vars, limite_vars, TypeOK,
       TipoRemetente
<1>2. CASE SubmitCnabRemessa(r)
  <2>1. [remetente[r] EXCEPT !.passo = "copia"] \in TipoRemetente(Len(headers))
    BY <1>0 DEF TipoRemetente, PassosDeEnvio
  <2>2. remetente' \in [Remetentes -> TipoRemetente(Len(headers))]
    <3>1. \E novo \in TipoRemetente(Len(headers)) : Remeter(r, novo)
      BY <1>0, <1>2, <2>1, Parados DEF SubmitCnabRemessa
    <3> QED
      BY <3>1, RemetenteAnotado
  <2>3. pedidos' \in [Pagamentos -> Nat]
    <3>1. pedidos \in [Pagamentos -> Nat]
      BY DEF TypeOK
    <3>2. \A h \in Pagamentos :
             pedidos[h] + (IF h \in remetente[r].linhas THEN 1 ELSE 0) \in Nat
      BY <3>1
    <3>3. CASE pedidos' = pedidos
      BY <3>1, <3>3
    <3>4. CASE pedidos' = [h \in Pagamentos |->
                             pedidos[h] + IF h \in remetente[r].linhas THEN 1 ELSE 0]
      BY <3>2, <3>4
    <3> QED
      BY <1>2, <3>3, <3>4 DEF SubmitCnabRemessa, banco_vars
  <2>4. recusados' \subseteq 0..UltimoNsa
    BY <1>0, <1>2 DEF SubmitCnabRemessa, TypeOK, banco_vars, TipoRemetente
  <2> QED
    BY <1>2, <2>2, <2>3, <2>4 DEF SubmitCnabRemessa, SoEnvio, indevido_vars, limite_vars,
       TypeOK, TipoRemetente
<1>3. CASE SubmitCnabBackupRemessa(r)
  <2>1. [remetente[r] EXCEPT !.passo = "salvar"] \in TipoRemetente(Len(headers))
    BY <1>0 DEF TipoRemetente, PassosDeEnvio
  <2>2. remetente' \in [Remetentes -> TipoRemetente(Len(headers))]
    <3>1. \E novo \in TipoRemetente(Len(headers)) : Remeter(r, novo)
      BY <1>0, <1>3, <2>1, Parados DEF SubmitCnabBackupRemessa
    <3> QED
      BY <3>1, RemetenteAnotado
  <2> QED
    BY <1>3, <2>2 DEF SubmitCnabBackupRemessa, SoEnvio, indevido_vars, banco_vars,
       limite_vars, TypeOK, TipoRemetente
<1>4. CASE EnviarRemessa(r)
  <2>1. remetente' \in [Remetentes -> TipoRemetente(Len(headers))]
    BY <1>0, <1>4, Parados, RemetenteAnotado DEF EnviarRemessa
  <2>2. headers' \in Seq(Header) /\ Len(headers') = Len(headers)
    <3> DEFINE i == remetente[r].header
               novo == [headers[i] EXCEPT !.status = "remessaEnviado"]
    <3>1. headers' = [headers EXCEPT ![i] = novo]
      BY <1>4 DEF EnviarRemessa
    <3>2. i \in DOMAIN headers => novo \in Header
      <4>1. i \in DOMAIN headers => headers[i] \in Header
        BY HeadersTipo
      <4> QED
        BY <4>1 DEF Header
    <3> HIDE DEF i, novo
    <3> QED
      BY <3>1, <3>2, HeaderTrocado
  <2> QED
    BY <1>4, <2>1, <2>2 DEF EnviarRemessa, SoEnvio, indevido_vars, banco_vars, limite_vars,
       TypeOK, TipoRemetente, Header
<1> QED
  BY <1>1, <1>2, <1>3, <1>4 DEF Enviar

LEMMA TypeOKMantidoRenovacao ==
    ASSUME TypeOK, (\E n \in recusados : RenovarNsaRemessa(n)) \/ LerNsaNovo
                       \/ GravarNsaNovo \/ Reabrir
    PROVE  TypeOK'
<1>0. renovacao \in TipoRenovacao(Len(headers)) /\ Len(headers) \in Nat
  BY DEF TypeOK, TipoRenovacao
<1>1. CASE \E n \in recusados : RenovarNsaRemessa(n)
  <2>1. renovacao' \in TipoRenovacao(Len(headers))
    BY <1>0, <1>1, PreparoAssumption DEF RenovarNsaRemessa, ComNsa, TipoRenovacao, TypeOK
  <2> QED
    BY <1>1, <2>1 DEF RenovarNsaRemessa, SoRenovacao, indevido_vars, banco_vars, limite_vars,
       TypeOK, TipoRenovacao
<1>2. CASE LerNsaNovo
  <2>1. renovacao' \in TipoRenovacao(Len(headers))
    <3>1. ProximoNsa(nsa) \in 0..UltimoNsa
      BY ProximoNsaCabe DEF TypeOK
    <3> QED
      BY <1>0, <1>2, <3>1 DEF LerNsaNovo, TipoRenovacao
  <2> QED
    BY <1>2, <2>1 DEF LerNsaNovo, SoRenovacao, indevido_vars, banco_vars, limite_vars,
       TypeOK, TipoRenovacao
<1>3. CASE GravarNsaNovo
  <2>1. renovacao' \in TipoRenovacao(Len(headers)) /\ nsa' \in 0..UltimoNsa
    BY <1>0, <1>3 DEF GravarNsaNovo, TipoRenovacao
  <2> QED
    BY <1>3, <2>1 DEF GravarNsaNovo, SoRenovacao, indevido_vars, banco_vars, limite_vars,
       TypeOK, TipoRenovacao
<1>4. CASE Reabrir
  <2>1. headers' \in Seq(Header) /\ Len(headers') = Len(headers)
    <3> DEFINE i == renovacao.header
               novo == [status |-> "remessaGerado", nsa |-> renovacao.nsa]
    <3>1. headers' = [headers EXCEPT ![i] = novo]
      BY <1>4 DEF Reabrir
    <3>2. novo \in Header
      BY <1>0 DEF Header, TipoRenovacao
    <3> HIDE DEF i, novo
    <3> QED
      BY <3>1, <3>2, HeaderTrocado
  <2>2. renovacao' \in TipoRenovacao(Len(headers))
    BY <1>0, <1>4, Parados DEF Reabrir
  <2> QED
    BY <1>4, <2>1, <2>2 DEF Reabrir, SoRenovacao, indevido_vars, banco_vars, limite_vars,
       TypeOK, TipoRenovacao, Header
<1> QED
  BY <1>1, <1>2, <1>3, <1>4

LEMMA TypeOKMantido == ASSUME TypeOK, [Next]_vars PROVE TypeOK'
<1>1. CASE Reiniciar
  <2>1. /\ preparo' \in [Preparadores -> TipoPreparo(Len(headers))]
        /\ remetente' \in [Remetentes -> TipoRemetente(Len(headers))]
        /\ renovacao' \in TipoRenovacao(Len(headers))
    <3>1. Len(headers) \in Nat
      BY DEF TypeOK
    <3> QED
      BY <1>1, <3>1, Parados DEF Reiniciar
  <2>2. quedas' \in 0..MaxQuedas
    BY <1>1, PreparoAssumption DEF Reiniciar, TypeOK
  <2> QED
    BY <1>1, <2>1, <2>2 DEF Reiniciar, db_vars, indevido_vars, banco_vars, TypeOK,
       TipoPreparo, TipoRemetente, TipoRenovacao
<1>2. CASE UNCHANGED vars
  BY <1>2 DEF vars, db_vars, indevido_vars, banco_vars, limite_vars, TypeOK
<1> QED
  BY <1>1, <1>2, TypeOKMantidoPreparo, TypeOKMantidoEnvio, TypeOKMantidoRenovacao DEF Next

LEMMA TypeOKInicial == ASSUME Init PROVE TypeOK
<1>1. /\ headers = <<>> /\ Len(headers) = 0
      /\ headers \in Seq(Header)
  BY DEF Init, Header
<1>2. /\ preparo \in [Preparadores -> TipoPreparo(0)]
      /\ remetente \in [Remetentes -> TipoRemetente(0)]
      /\ renovacao \in TipoRenovacao(0)
  BY Parados DEF Init
<1> QED
  BY <1>1, <1>2, PreparoAssumption
     DEF Init, TypeOK, Header, TipoPreparo, TipoRemetente, TipoRenovacao

\* Whatever is risked, every variable keeps its type: no DetalheA, preparo or
\* sender names a header that does not exist, and the debt never goes below
\* zero, even when it is debited from a stale copy.
THEOREM TypeOKSempre == Spec => []TypeOK
<1>1. Init => TypeOK
  BY TypeOKInicial
<1>2. TypeOK /\ [Next]_vars => TypeOK'
  BY TypeOKMantido
<1> QED
  BY <1>1, <1>2, PTL DEF Spec

-----------------------------------------------------------------------------
(* What the bank was asked is in the book.                                 *)

NaLinha == {"debitar", "detalhe", "status"}

\* A preparo at work is unfinished, and every row of its window is prepared,
\* ahead of it or in its hands.
LembraDosSeus(p) ==
    preparo[p].passo # "fora" =>
        /\ p \in inacabados
        /\ preparo[p].faltam \subseteq Selecao[p]
        /\ preparo[p].passo \in NaLinha => preparo[p].atual \in Selecao[p]
        /\ preparo[p].passo \notin NaLinha => preparo[p].atual = Ninguem
        /\ \A h \in Selecao[p] : \/ historico[h] = PreparadoParaEnvio
                                 \/ h \in preparo[p].faltam
                                 \/ h = preparo[p].atual

\* A DetalheA whose row is still Criado is of a preparo that has not ended.
DetalheTemPreparo ==
    \A h \in Pagamentos : detalhe[h] # 0 /\ historico[h] = Criado =>
        \E p \in inacabados : h \in Selecao[p]

\* What a sender took is prepared.
LinhasNoLivro ==
    \A r \in Remetentes : \A h \in remetente[r].linhas : historico[h] = PreparadoParaEnvio

InvLivro ==
    /\ TypeOK
    /\ \A p \in Preparadores : LembraDosSeus(p)
    /\ DetalheTemPreparo
    /\ LinhasNoLivro
    /\ PedidoNoLivro

\* A preparo's step leaves what the others remember, as long as a prepared
\* row stays so.
LEMMA OutrosLembram ==
    ASSUME TypeOK, NEW p \in Preparadores, NEW nova, Anotar(p, nova),
           NEW q \in Preparadores, q # p, LembraDosSeus(q),
           q \in inacabados => q \in inacabados',
           \A h \in Pagamentos : historico[h] = PreparadoParaEnvio
                                   => historico'[h] = PreparadoParaEnvio
    PROVE  LembraDosSeus(q)'
<1>1. preparo'[q] = preparo[q]
  BY DEF TypeOK, Anotar
<1>2. Selecao[q] \subseteq Pagamentos
  BY PreparoAssumption
<1> QED
  BY <1>1, <1>2 DEF LembraDosSeus

\* A step of a preparo that leaves the rows and the DetalheAs as they are.
LEMMA LivroAnotado ==
    ASSUME InvLivro, TypeOK', NEW p \in Preparadores, NEW nova, Anotar(p, nova),
           UNCHANGED <<historico, detalhe, inacabados, remetente, pedidos>>,
           LembraDosSeus(p)'
    PROVE  InvLivro'
<1>1. \A q \in Preparadores : LembraDosSeus(q)'
  BY OutrosLembram DEF InvLivro
<1>2. DetalheTemPreparo' /\ LinhasNoLivro' /\ PedidoNoLivro'
  BY DEF InvLivro, DetalheTemPreparo, LinhasNoLivro, PedidoNoLivro
<1> QED
  BY <1>1, <1>2 DEF InvLivro

\* The preparo stops where it is.
LEMMA LivroParado ==
    ASSUME InvLivro, TypeOK', NEW p \in Preparadores, Anotar(p, SemPreparo),
           UNCHANGED <<historico, detalhe, inacabados, remetente, pedidos>>
    PROVE  InvLivro'
<1>1. preparo'[p].passo = "fora"
  BY DEF Anotar, InvLivro, TypeOK, SemPreparo
<1> QED
  BY <1>1, LivroAnotado DEF LembraDosSeus

LEMMA LivroMantidoPreparo ==
    ASSUME InvLivro, TypeOK', NEW p \in Preparadores, Preparar(p)
    PROVE  InvLivro'
<1> DEFINE quieto == UNCHANGED <<historico, detalhe, inacabados, remetente, pedidos>>
<1>0. /\ preparo[p] \in TipoPreparo(Len(headers)) /\ LembraDosSeus(p) /\ TypeOK
      /\ Selecao[p] \subseteq Pagamentos /\ Ninguem \notin Pagamentos
  BY PreparoAssumption DEF InvLivro, TypeOK, TipoPreparo
<1>m. \A nova : Anotar(p, nova) => preparo'[p] = nova
  BY DEF Anotar, InvLivro, TypeOK
<1>1. CASE PrepararRemessa(p)
  <2>1. CASE /\ Anotar(p, [SemPreparo EXCEPT !.passo = "header",
                                             !.faltam = Selecionados(p)])
             /\ inacabados' = inacabados \cup {p}
    <3>1. /\ preparo'[p].passo = "header" /\ preparo'[p].faltam = Selecionados(p)
          /\ preparo'[p].atual = Ninguem
      BY <1>m, <2>1 DEF SemPreparo
    <3>2. UNCHANGED <<historico, detalhe, remetente, pedidos>>
      BY <1>1 DEF PrepararRemessa, SoPreparo, db_vars, banco_vars
    <3>3. LembraDosSeus(p)'
      BY <1>0, <2>1, <3>1, <3>2
         DEF LembraDosSeus, Selecionados, NaLinha, TypeOK
    <3>4. \A q \in Preparadores : LembraDosSeus(q)'
      BY <2>1, <3>2, <3>3, OutrosLembram DEF InvLivro
    <3> QED
      BY <2>1, <3>2, <3>4 DEF InvLivro, DetalheTemPreparo, LinhasNoLivro, PedidoNoLivro
  <2>2. CASE Selecionados(p) = {} /\ inacabados' = inacabados \ {p} /\ UNCHANGED preparo
    <3>1. UNCHANGED <<historico, detalhe, remetente, pedidos>>
      BY <1>1 DEF PrepararRemessa, SoPreparo, db_vars, banco_vars
    <3>2. \A q \in Preparadores : LembraDosSeus(q)'
      BY <1>1, <2>2, <3>1 DEF InvLivro, LembraDosSeus, PrepararRemessa, Preparando
    <3>3. DetalheTemPreparo'
      BY <2>2, <3>1 DEF InvLivro, DetalheTemPreparo, Selecionados
    <3> QED
      BY <3>1, <3>2, <3>3 DEF InvLivro, LinhasNoLivro, PedidoNoLivro
  <2> QED
    BY <1>1, <2>1, <2>2 DEF PrepararRemessa
<1>2. CASE \/ GerarHeaderArquivo(p) \/ LerNsa(p) \/ GravarNsa(p) \/ SalvarHeader(p)
           \/ LerIndevidos(p)
  <2>1. quieto
    BY <1>2 DEF GerarHeaderArquivo, LerNsa, GravarNsa, SalvarHeader, LerIndevidos, SoPreparo,
                db_vars, banco_vars
  <2>2. \E nova : /\ Anotar(p, nova) /\ nova.faltam = preparo[p].faltam
                  /\ nova.atual = preparo[p].atual
                  /\ nova.passo \notin NaLinha /\ preparo[p].passo \notin NaLinha
                  /\ preparo[p].passo # "fora"
    BY <1>0, <1>2 DEF GerarHeaderArquivo, LerNsa, GravarNsa, SalvarHeader, LerIndevidos,
                      TipoPreparo, NaLinha, Preparando
  <2>3. PICK nova : /\ Anotar(p, nova) /\ nova.faltam = preparo[p].faltam
                    /\ nova.atual = preparo[p].atual
                    /\ nova.passo \notin NaLinha /\ preparo[p].passo \notin NaLinha
                    /\ preparo[p].passo # "fora"
    BY <2>2
  <2>4. LembraDosSeus(p)'
    BY <1>0, <1>m, <2>1, <2>3 DEF LembraDosSeus
  <2> QED
    BY <2>1, <2>3, <2>4, LivroAnotado
<1>3. CASE ExistsDetalheA(p)
  <2>0. UNCHANGED <<historico, detalhe, remetente, pedidos>>
    BY <1>3 DEF ExistsDetalheA, SoPreparo, db_vars, banco_vars
  <2>1. CASE preparo[p].faltam = {} /\ Anotar(p, SemPreparo) /\ inacabados' = inacabados \ {p}
    <3>1. \A h \in Selecao[p] : historico[h] = PreparadoParaEnvio
      BY <1>0, <1>3, <2>1 DEF LembraDosSeus, ExistsDetalheA, Preparando, NaLinha
    <3>2. LembraDosSeus(p)'
      BY <1>m, <2>1 DEF LembraDosSeus, SemPreparo
    <3>3. \A q \in Preparadores : LembraDosSeus(q)'
      BY <2>0, <2>1, <3>2, OutrosLembram DEF InvLivro
    <3>4. DetalheTemPreparo'
      BY <2>0, <2>1, <3>1 DEF InvLivro, DetalheTemPreparo, Criado, PreparadoParaEnvio
    <3> QED
      BY <2>0, <3>3, <3>4 DEF InvLivro, LinhasNoLivro, PedidoNoLivro
  <2>2. CASE inacabados' = inacabados /\ ~(preparo[p].faltam = {} /\ Anotar(p, SemPreparo))
    <3>1. PICK h \in preparo[p].faltam, passo \in {"debitar", "detalhe"} :
             Anotar(p, [preparo[p] EXCEPT !.passo = passo, !.atual = h, !.faltam = @ \ {h},
                                          !.existe = detalhe[h] # 0])
      BY <1>3, <2>2 DEF ExistsDetalheA
    <3>2. /\ preparo'[p].passo = passo /\ preparo'[p].atual = h
          /\ preparo'[p].faltam = preparo[p].faltam \ {h}
      BY <1>0, <1>m, <3>1 DEF TipoPreparo
    <3>3. preparo[p].passo = "ordem"
      BY <1>3 DEF ExistsDetalheA, Preparando
    <3>4. LembraDosSeus(p)'
      BY <1>0, <2>0, <2>2, <3>2, <3>3 DEF LembraDosSeus, NaLinha
    <3> QED
      BY <2>0, <2>2, <3>1, <3>4, LivroAnotado
  <2> QED
    BY <1>3, <2>1, <2>2 DEF ExistsDetalheA
<1>4. CASE DebitarPagamentoIndevido(p)
  <2>1. quieto
    BY <1>4 DEF DebitarPagamentoIndevido, SoPreparo, banco_vars
  <2>2. /\ preparo'[p].passo = "detalhe" /\ preparo'[p].atual = preparo[p].atual
        /\ preparo'[p].faltam = preparo[p].faltam /\ preparo[p].passo = "debitar"
    BY <1>0, <1>m, <1>4 DEF DebitarPagamentoIndevido, TipoPreparo, Preparando
  <2>3. LembraDosSeus(p)'
    BY <1>0, <2>1, <2>2 DEF LembraDosSeus, NaLinha
  <2> QED
    BY <1>4, <2>1, <2>3, LivroAnotado DEF DebitarPagamentoIndevido
<1>5. CASE GerarDetalheAB(p)
  <2>0. UNCHANGED <<historico, inacabados, remetente, pedidos>>
    BY <1>5 DEF GerarDetalheAB, SoPreparo, banco_vars
  <2>1. CASE UNCHANGED detalhe /\ Anotar(p, SemPreparo)
    BY <2>0, <2>1, LivroParado
  <2>2. CASE /\ detalhe' = [detalhe EXCEPT ![preparo[p].atual] = preparo[p].header]
             /\ Anotar(p, [preparo[p] EXCEPT !.passo = "status"])
    <3>1. /\ preparo'[p].passo = "status" /\ preparo'[p].atual = preparo[p].atual
          /\ preparo'[p].faltam = preparo[p].faltam /\ preparo[p].passo = "detalhe"
      BY <1>0, <1>m, <1>5, <2>2 DEF GerarDetalheAB, TipoPreparo, Preparando
    <3>2. LembraDosSeus(p)'
      BY <1>0, <2>0, <3>1 DEF LembraDosSeus, NaLinha
    <3>3. \A q \in Preparadores : LembraDosSeus(q)'
      BY <2>0, <2>2, <3>2, OutrosLembram DEF InvLivro
    <3>4. p \in inacabados /\ preparo[p].atual \in Selecao[p]
      BY <1>0, <3>1 DEF LembraDosSeus, NaLinha
    <3>5. \A h \in Pagamentos : h # preparo[p].atual => detalhe'[h] = detalhe[h]
      BY <1>0, <2>2 DEF TypeOK
    <3>6. DetalheTemPreparo'
      BY <2>0, <3>4, <3>5 DEF InvLivro, DetalheTemPreparo
    <3> QED
      BY <2>0, <3>3, <3>6 DEF InvLivro, LinhasNoLivro, PedidoNoLivro
  <2> QED
    BY <1>5, <2>1, <2>2 DEF GerarDetalheAB
<1>6. CASE AtualizaStatusRemessa(p)
  <2>0. UNCHANGED <<detalhe, inacabados, remetente, pedidos>>
    BY <1>6 DEF AtualizaStatusRemessa, SoPreparo, banco_vars
  <2>1. /\ historico' = [historico EXCEPT ![preparo[p].atual] = PreparadoParaEnvio]
        /\ preparo'[p].passo = "ordem" /\ preparo'[p].atual = Ninguem
        /\ preparo'[p].faltam = preparo[p].faltam /\ preparo[p].passo = "status"
    BY <1>0, <1>m, <1>6 DEF AtualizaStatusRemessa, TipoPreparo, Preparando
  <2>2. \A h \in Pagamentos :
           historico'[h] = IF h = preparo[p].atual THEN PreparadoParaEnvio ELSE historico[h]
    BY <1>0, <2>1 DEF TypeOK
  <2>3. LembraDosSeus(p)'
    BY <1>0, <2>0, <2>1, <2>2 DEF LembraDosSeus, NaLinha
  <2>4. \A q \in Preparadores : LembraDosSeus(q)'
    BY <1>6, <2>0, <2>2, <2>3, OutrosLembram DEF InvLivro, AtualizaStatusRemessa
  <2>5. DetalheTemPreparo' /\ PedidoNoLivro'
    BY <2>0, <2>2 DEF InvLivro, DetalheTemPreparo, PedidoNoLivro, Criado, PreparadoParaEnvio
  <2>6. LinhasNoLivro'
    <3>1. \A r \in Remetentes : remetente[r].linhas \subseteq Pagamentos
      BY <1>0 DEF TypeOK
    <3> QED
      BY <2>0, <2>2, <3>1 DEF InvLivro, LinhasNoLivro
  <2> QED
    BY <2>4, <2>5, <2>6 DEF InvLivro
<1>7. CASE ExcecaoNoPreparo(p)
  BY <1>7, LivroParado DEF ExcecaoNoPreparo, db_vars, banco_vars
<1> QED
  BY <1>1, <1>2, <1>3, <1>4, <1>5, <1>6, <1>7 DEF Preparar

LEMMA LivroMantidoEnvio ==
    ASSUME InvLivro, TypeOK', "sobrepor" \notin Riscos, NEW r \in Remetentes, Enviar(r)
    PROVE  InvLivro'
<1>0. UNCHANGED <<historico, detalhe, preparo, inacabados>>
  BY DEF Enviar, GerarCnabText, SubmitCnabRemessa, SubmitCnabBackupRemessa, EnviarRemessa,
         SoEnvio
<1>1. (\A p \in Preparadores : LembraDosSeus(p)') /\ DetalheTemPreparo'
  BY <1>0 DEF InvLivro, LembraDosSeus, DetalheTemPreparo
<1>2. CASE GerarCnabText(r)
  <2>1. inacabados = {} /\ UNCHANGED pedidos
    BY <1>2 DEF GerarCnabText, banco_vars
  <2>2. \A h \in Pagamentos : detalhe[h] # 0 => historico[h] = PreparadoParaEnvio
    BY <2>1 DEF InvLivro, TypeOK, DetalheTemPreparo
  <2>3. PICK i \in Gerados :
           Remeter(r, [passo |-> "enviar", header |-> i, nsa |-> headers[i].nsa,
                       linhas |-> {h \in Pagamentos : detalhe[h] = i}])
    BY <1>2 DEF GerarCnabText
  <2>4. i # 0
    BY <2>3, HeadersTipo DEF Gerados, InvLivro
  <2>5. LinhasNoLivro'
    BY <1>0, <2>2, <2>3, <2>4 DEF InvLivro, TypeOK, LinhasNoLivro, Remeter
  <2> QED
    BY <1>0, <1>1, <2>1, <2>5 DEF InvLivro, PedidoNoLivro
<1>3. CASE SubmitCnabRemessa(r) \/ SubmitCnabBackupRemessa(r) \/ EnviarRemessa(r)
  <2>1. \E novo : Remeter(r, novo) /\ (novo.linhas = remetente[r].linhas \/ novo.linhas = {})
    <3>1. remetente[r] \in TipoRemetente(Len(headers))
      BY DEF InvLivro, TypeOK, TipoRemetente
    <3>2. \A passo : [remetente[r] EXCEPT !.passo = passo].linhas = remetente[r].linhas
      BY <3>1 DEF TipoRemetente
    <3>3. SemEnvio.linhas = {}
      BY DEF SemEnvio
    <3> QED
      BY <1>3, <3>2, <3>3
         DEF SubmitCnabRemessa, SubmitCnabBackupRemessa, EnviarRemessa
  <2>2. LinhasNoLivro'
    BY <1>0, <2>1 DEF InvLivro, TypeOK, LinhasNoLivro, Remeter
  <2>3. \A h \in Pagamentos :
           pedidos'[h] = pedidos[h] \/ h \in remetente[r].linhas
    <3>1. CASE UNCHANGED pedidos
      BY <3>1
    <3>2. CASE pedidos' = [h \in Pagamentos |->
                             pedidos[h] + IF h \in remetente[r].linhas THEN 1 ELSE 0]
      <4>1. pedidos \in [Pagamentos -> Nat]
        BY DEF InvLivro, TypeOK
      <4> QED
        BY <3>2, <4>1
    <3> QED
      BY <1>3, <3>1, <3>2 DEF SubmitCnabRemessa, SubmitCnabBackupRemessa, EnviarRemessa,
                              banco_vars
  <2>4. PedidoNoLivro'
    BY <1>0, <2>3 DEF InvLivro, PedidoNoLivro, LinhasNoLivro
  <2> QED
    BY <1>1, <2>2, <2>4 DEF InvLivro
<1> QED
  BY <1>2, <1>3 DEF Enviar

LEMMA LivroMantido ==
    ASSUME InvLivro, "sobrepor" \notin Riscos, [Next]_vars PROVE InvLivro'
<1>0. TypeOK'
  BY TypeOKMantido DEF InvLivro
<1>1. CASE Reiniciar
  <2>1. UNCHANGED <<historico, detalhe, inacabados, pedidos>>
    BY <1>1 DEF Reiniciar, db_vars, banco_vars
  <2>2. /\ \A p \in Preparadores : preparo'[p].passo = "fora"
        /\ \A r \in Remetentes : remetente'[r].linhas = {}
    BY <1>1 DEF Reiniciar, SemPreparo, SemEnvio
  <2> QED
    BY <1>0, <2>1, <2>2 DEF InvLivro, LembraDosSeus, DetalheTemPreparo, LinhasNoLivro,
                            PedidoNoLivro
<1>2. CASE (\E n \in recusados : RenovarNsaRemessa(n)) \/ LerNsaNovo \/ GravarNsaNovo
             \/ Reabrir \/ UNCHANGED vars
  <2>1. UNCHANGED <<historico, detalhe, pedidos, preparo, remetente, inacabados>>
    BY <1>2 DEF RenovarNsaRemessa, LerNsaNovo, GravarNsaNovo, Reabrir, SoRenovacao, vars,
                db_vars, banco_vars
  <2> QED
    BY <1>0, <2>1 DEF InvLivro, LembraDosSeus, DetalheTemPreparo, LinhasNoLivro,
                      PedidoNoLivro
<1> QED
  BY <1>0, <1>1, <1>2, LivroMantidoPreparo, LivroMantidoEnvio DEF Next

LEMMA LivroInicial == ASSUME Init PROVE InvLivro
<1>1. TypeOK
  BY TypeOKInicial
<1>2. /\ \A p \in Preparadores : preparo[p].passo = "fora"
      /\ \A r \in Remetentes : remetente[r].linhas = {}
  BY DEF Init, SemPreparo, SemEnvio
<1> QED
  BY <1>1, <1>2 DEF Init, InvLivro, LembraDosSeus, DetalheTemPreparo, LinhasNoLivro,
                    PedidoNoLivro

\* If no file is sent while a preparo is unfinished, what the bank was asked
\* is recorded as prepared: for any number of preparos at once, and however
\* restarts, exceptions and the write of the debit fall.
THEOREM PedidoNoLivroSempre ==
    ASSUME "sobrepor" \notin Riscos PROVE Spec => []PedidoNoLivro
<1>1. Init => InvLivro
  BY LivroInicial
<1>2. InvLivro /\ [Next]_vars => InvLivro'
  BY LivroMantido
<1>3. InvLivro => PedidoNoLivro
  BY DEF InvLivro
<1> QED
  BY <1>1, <1>2, <1>3, PTL DEF Spec

-----------------------------------------------------------------------------
(* The numbers of the files.                                               *)

Headers == DOMAIN headers

\* The preparos that took a number, saved, and have no header yet.
ComNumero == {p \in Preparadores : preparo[p].passo = "salvarHeader"}
Gravando  == {p \in Preparadores : preparo[p].passo = "gravarNsa"}

\* Every number in use came from the counter, which did not go round.
NumerosDoContador ==
    /\ \A i \in Headers : headers[i].nsa <= nsa
    /\ \A p \in ComNumero : preparo[p].nsa <= nsa
    /\ renovacao.passo = "salvar" => renovacao.nsa <= nsa
    /\ \A n \in recusados : n <= nsa

\* Who is about to save the counter is alone, and knows the number after it.
ProximoLido ==
    /\ \A p \in Gravando : /\ preparo[p].nsa = ProximoNsa(nsa)
                           /\ renovacao.passo # "gravarNsa"
                           /\ \A q \in Gravando : p = q
    /\ renovacao.passo = "gravarNsa" => renovacao.nsa = ProximoNsa(nsa)

\* A number is in one place only, and no file had it yet when it is not in a
\* header.
NumerosDistintos ==
    /\ \A i, j \in Headers : headers[i].nsa = headers[j].nsa => i = j
    /\ \A p \in ComNumero :
           /\ \A i \in Headers : headers[i].nsa # preparo[p].nsa
           /\ \A q \in ComNumero : preparo[p].nsa = preparo[q].nsa => p = q
           /\ preparo[p].nsa \notin recusados
    /\ renovacao.passo = "salvar" =>
           /\ \A i \in Headers : headers[i].nsa # renovacao.nsa
           /\ \A p \in ComNumero : preparo[p].nsa # renovacao.nsa
           /\ renovacao.nsa \notin recusados

-----------------------------------------------------------------------------
(* What the bank has of each header.                                       *)

Linhas(i) == {h \in Pagamentos : detalhe[h] = i}
Pedida(i)   == headers[i].nsa \notin recusados /\ \A h \in Linhas(i) : pedidos[h] = 1
Recusada(i) == headers[i].nsa \in recusados /\ \A h \in Linhas(i) : pedidos[h] = 0
NaoPedida(i) == headers[i].nsa \notin recusados /\ \A h \in Linhas(i) : pedidos[h] = 0

NoBanco(r) == remetente[r].passo \in {"copia", "salvar"}

\* A sender works alone, on a header that is open and on all its rows.
EnvioInteiro ==
    \A r \in Remetentes :
        IF remetente[r].passo = "fora" THEN remetente[r] = SemEnvio
        ELSE /\ inacabados = {}
             /\ remetente[r].header \in Gerados
             /\ remetente[r].nsa = headers[remetente[r].header].nsa
             /\ remetente[r].linhas = Linhas(remetente[r].header)
             /\ NoBanco(r) => Pedida(remetente[r].header) \/ Recusada(remetente[r].header)

\* What is open and not in a sender's hands was not asked; what was sent was
\* asked once, or rejected, and is out of every preparo's reach.
HeadersConferem ==
    \A i \in Headers :
        /\ i \in Gerados => \/ NaoPedida(i)
                           \/ \E r \in Remetentes : NoBanco(r) /\ remetente[r].header = i
        /\ i \notin Gerados =>
              /\ Pedida(i) \/ Recusada(i)
              /\ \A h \in Linhas(i) : historico[h] = PreparadoParaEnvio
              /\ \A h \in Linhas(i), p \in Preparadores :
                     h \notin preparo[p].faltam /\ h # preparo[p].atual

SemDetalheNaoPedida == \A h \in Pagamentos : detalhe[h] = 0 => pedidos[h] = 0

\* A preparo writes in an open header.
PreparaNoAberto ==
    \A p \in Preparadores :
        preparo[p].passo \in {"resolver", "ordem", "debitar", "detalhe", "status"} =>
            preparo[p].header \in Gerados

\* What is renewed was sent and rejected.
RenovaRecusado ==
    renovacao.passo # "fora" =>
        /\ renovacao.header \in Headers \ Gerados
        /\ headers[renovacao.header].nsa \in recusados

Numeros == NumerosDoContador /\ ProximoLido /\ NumerosDistintos

\* A preparo that is not at work has nothing in its hands.
ParadoVazio ==
    \A p \in Preparadores : preparo[p].passo = "fora" => preparo[p] = SemPreparo

Banco == /\ EnvioInteiro
         /\ HeadersConferem /\ SemDetalheNaoPedida
         /\ PreparaNoAberto /\ RenovaRecusado /\ ParadoVazio

InvEnvio == InvLivro /\ Numeros /\ Banco

\* A header is added at the end.
LEMMA HeaderNovo ==
    ASSUME TypeOK, NEW novo, headers' = Append(headers, novo)
    PROVE  /\ Len(headers') = Len(headers) + 1
           /\ DOMAIN headers' = DOMAIN headers \cup {Len(headers) + 1}
           /\ Len(headers) + 1 \notin DOMAIN headers
           /\ headers'[Len(headers) + 1] = novo
           /\ \A i \in DOMAIN headers : headers'[i] = headers[i]
<1>1. headers \in Seq(Header) /\ Len(headers) \in Nat /\ DOMAIN headers = 1..Len(headers)
  BY HeadersTipo
<1>2. /\ Len(Append(headers, novo)) = Len(headers) + 1
      /\ DOMAIN Append(headers, novo) = 1..(Len(headers) + 1)
      /\ Append(headers, novo)[Len(headers) + 1] = novo
      /\ \A i \in 1..Len(headers) : Append(headers, novo)[i] = headers[i]
  BY <1>1
<1> QED
  BY <1>1, <1>2

\* One request to send at a time, and nothing left to luck from the number of
\* a file to its header saved as sent.
EnvioDisciplinado ==
    /\ Riscos \cap {"sobrepor", "quedaAoEnviar", "falhaNaCopia", "nsaAoMesmoTempo"} = {}
    /\ \A r, s \in Remetentes : r = s

LEMMA PreparoTrocado ==
    ASSUME TypeOK, NEW p \in Preparadores, NEW nova, Anotar(p, nova)
    PROVE  /\ preparo'[p] = nova
           /\ \A q \in Preparadores : q # p => preparo'[q] = preparo[q]
BY DEF TypeOK, Anotar

\* A step that takes no number and saves none.
LEMMA NumerosQuietos ==
    ASSUME Numeros, UNCHANGED <<nsa, recusados>>,
           DOMAIN headers' = DOMAIN headers,
           \A i \in DOMAIN headers : headers'[i].nsa = headers[i].nsa,
           renovacao'.passo \in {"gravarNsa", "salvar"} => renovacao' = renovacao,
           \A p \in Preparadores :
               preparo'[p].passo \in {"gravarNsa", "salvarHeader"} =>
                   preparo'[p].passo = preparo[p].passo /\ preparo'[p].nsa = preparo[p].nsa
    PROVE  Numeros'
<1>1. NumerosDoContador'
  BY DEF Numeros, NumerosDoContador, ComNumero, Headers
<1>2. ProximoLido'
  <2>1. ProximoNsa(nsa)' = ProximoNsa(nsa)
    BY DEF ProximoNsa
  <2> QED
    BY <2>1 DEF Numeros, ProximoLido, Gravando
<1>3. NumerosDistintos'
  BY DEF Numeros, NumerosDistintos, ComNumero, Headers
<1> QED
  BY <1>1, <1>2, <1>3 DEF Numeros

\* A preparo's step that takes no number and saves none.
LEMMA NumerosAnotados ==
    ASSUME TypeOK, Numeros, NEW p \in Preparadores, NEW nova, Anotar(p, nova),
           nova.passo \notin {"gravarNsa", "salvarHeader"},
           UNCHANGED <<nsa, recusados, headers, renovacao>>
    PROVE  Numeros'
<1>1. \A q \in Preparadores :
         preparo'[q].passo \in {"gravarNsa", "salvarHeader"} =>
             preparo'[q].passo = preparo[q].passo /\ preparo'[q].nsa = preparo[q].nsa
  BY PreparoTrocado
<1> QED
  BY <1>1, NumerosQuietos

\* The counter goes on by one as long as it does not go round.
LEMMA ContadorAvanca ==
    ASSUME TypeOK, ProximoNsa(nsa) # nsa => ProximoNsa(nsa) > nsa
    PROVE  ProximoNsa(nsa) = nsa + 1 /\ ProximoNsa(nsa) \in Nat /\ nsa \in Nat
BY PreparoAssumption DEF TypeOK, ProximoNsa

LEMMA NumerosMantidosPreparo ==
    ASSUME InvLivro, Numeros, TypeOK', EnvioDisciplinado, [nsa' > nsa]_nsa,
           NEW p \in Preparadores, Preparar(p)
    PROVE  Numeros'
<1>0. /\ TypeOK /\ preparo[p] \in TipoPreparo(Len(headers)) /\ nsa \in Nat
      /\ DOMAIN headers = 1..Len(headers) /\ Len(headers) \in Nat
  <2>1. TypeOK
    BY DEF InvLivro
  <2>2. preparo[p] \in TipoPreparo(Len(headers)) /\ nsa \in Nat
    BY <2>1 DEF TypeOK, TipoPreparo
  <2> QED
    BY <2>1, <2>2, HeadersTipo
<1>t. preparo[p] \in TipoPreparo(Len(headers))
  BY <1>0
<1>m. \A nova : Anotar(p, nova) => preparo'[p] = nova
  BY <1>0, PreparoTrocado
<1>o. (\E nova : Anotar(p, nova)) =>
         \A q \in Preparadores : q # p => preparo'[q] = preparo[q]
  BY <1>0, PreparoTrocado
<1>n. /\ \A i \in DOMAIN headers : headers[i].nsa \in Nat
      /\ \A q \in Preparadores : preparo[q].nsa \in Nat
      /\ renovacao.nsa \in Nat /\ \A n \in recusados : n \in Nat
  <2>1. \A i \in DOMAIN headers : headers[i].nsa \in Nat
    BY <1>0, HeadersTipo DEF Header
  <2>2. /\ \A q \in Preparadores : preparo[q].nsa \in 0..UltimoNsa
        /\ renovacao.nsa \in 0..UltimoNsa /\ recusados \subseteq 0..UltimoNsa
    BY <1>0 DEF TypeOK
  <2>3. 0..UltimoNsa \subseteq Nat
    OBVIOUS
  <2> QED
    BY <2>1, <2>2, <2>3
<1>1. CASE PrepararRemessa(p)
  <2>1. CASE UNCHANGED preparo
    BY <1>1, <2>1, NumerosQuietos DEF PrepararRemessa, SoPreparo, db_vars, banco_vars
  <2>2. CASE Anotar(p, [SemPreparo EXCEPT !.passo = "header", !.faltam = Selecionados(p)])
    <3>1. [SemPreparo EXCEPT !.passo = "header", !.faltam = Selecionados(p)].passo = "header"
      BY DEF SemPreparo
    <3> QED
      BY <1>0, <1>1, <2>2, <3>1, NumerosAnotados
         DEF PrepararRemessa, SoPreparo, db_vars, banco_vars
  <2> QED
    BY <1>1, <2>1, <2>2 DEF PrepararRemessa
<1>2. CASE \/ GerarHeaderArquivo(p) \/ LerIndevidos(p) \/ ExistsDetalheA(p)
           \/ DebitarPagamentoIndevido(p) \/ GerarDetalheAB(p) \/ AtualizaStatusRemessa(p)
           \/ ExcecaoNoPreparo(p)
  <2>1. UNCHANGED <<nsa, recusados, headers, renovacao>>
    BY <1>2 DEF GerarHeaderArquivo, LerIndevidos, ExistsDetalheA, DebitarPagamentoIndevido,
       GerarDetalheAB, AtualizaStatusRemessa, ExcecaoNoPreparo, SoPreparo, db_vars, banco_vars
  <2>2. preparo'[p].passo \notin {"gravarNsa", "salvarHeader"}
    <3>1. SemPreparo.passo = "fora"
      BY DEF SemPreparo
    <3>2. CASE GerarHeaderArquivo(p)
      BY <1>t, <1>m, <3>1, <3>2 DEF GerarHeaderArquivo, TipoPreparo
    <3>3. CASE LerIndevidos(p) \/ GerarDetalheAB(p)
      BY <1>t, <1>m, <3>1, <3>3 DEF LerIndevidos, GerarDetalheAB, TipoPreparo
    <3>4. CASE ExistsDetalheA(p)
      BY <1>t, <1>m, <3>1, <3>4 DEF ExistsDetalheA, TipoPreparo
    <3>5. CASE DebitarPagamentoIndevido(p) \/ AtualizaStatusRemessa(p)
      BY <1>t, <1>m, <3>5 DEF DebitarPagamentoIndevido, AtualizaStatusRemessa, TipoPreparo
    <3>6. CASE ExcecaoNoPreparo(p)
      BY <1>m, <3>1, <3>6 DEF ExcecaoNoPreparo
    <3> QED
      BY <1>2, <3>2, <3>3, <3>4, <3>5, <3>6
  <2>3. \E nova : Anotar(p, nova)
    BY <1>2 DEF GerarHeaderArquivo, LerIndevidos, ExistsDetalheA, DebitarPagamentoIndevido,
       GerarDetalheAB, AtualizaStatusRemessa, ExcecaoNoPreparo
  <2> QED
    BY <1>0, <1>m, <2>1, <2>2, <2>3, NumerosAnotados
<1>3. CASE LerNsa(p)
  <2>1. /\ preparo'[p].passo = "gravarNsa" /\ preparo'[p].nsa = ProximoNsa(nsa)
        /\ \A q \in Preparadores : q # p => preparo'[q] = preparo[q]
        /\ preparo[p].passo = "nsa"
    <3>1. Anotar(p, [preparo[p] EXCEPT !.passo = "gravarNsa", !.nsa = ProximoNsa(nsa)])
      BY <1>3 DEF LerNsa
    <3> QED
      BY <1>t, <1>3, <3>1, <1>m, <1>o DEF LerNsa, TipoPreparo, Preparando
  <2>2. /\ renovacao.passo # "gravarNsa"
        /\ \A q \in Preparadores : preparo[q].passo # "gravarNsa"
    BY <1>3 DEF LerNsa, PodeLerNsa, EnvioDisciplinado, Numerando, Preparando
  <2>3. UNCHANGED <<nsa, recusados, headers, renovacao>>
    BY <1>3 DEF LerNsa, SoPreparo, db_vars, banco_vars
  <2>4. ComNumero' = ComNumero /\ Gravando' = {p}
    BY <2>1, <2>2 DEF ComNumero, Gravando
  <2>5. \A q \in ComNumero : preparo'[q] = preparo[q]
    BY <2>1 DEF ComNumero
  <2>6. NumerosDoContador' /\ NumerosDistintos'
    BY <2>3, <2>4, <2>5 DEF Numeros, NumerosDoContador, NumerosDistintos, Headers
  <2>7. ProximoLido'
    BY <2>1, <2>2, <2>3, <2>4 DEF ProximoLido, ProximoNsa
  <2> QED
    BY <2>6, <2>7 DEF Numeros
<1>4. CASE GravarNsa(p)
  <2>1. /\ preparo'[p].passo = "salvarHeader" /\ preparo'[p].nsa = preparo[p].nsa
        /\ \A q \in Preparadores : q # p => preparo'[q] = preparo[q]
        /\ preparo[p].passo = "gravarNsa"
    BY <1>0, <1>4, PreparoTrocado DEF GravarNsa, TipoPreparo, Preparando
  <2>2. UNCHANGED <<recusados, headers, renovacao>> /\ nsa' = preparo[p].nsa
    BY <1>4 DEF GravarNsa, SoPreparo, banco_vars
  <2>3. /\ preparo[p].nsa = ProximoNsa(nsa) /\ renovacao.passo # "gravarNsa"
        /\ \A q \in Preparadores : preparo[q].passo = "gravarNsa" => q = p
    BY <2>1 DEF Numeros, ProximoLido, Gravando
  <2>4. nsa' = nsa + 1
    BY <1>0, <2>2, <2>3, ContadorAvanca
  <2>5. ComNumero' = ComNumero \cup {p} /\ Gravando' = {} /\ p \notin ComNumero
    BY <2>1, <2>3 DEF ComNumero, Gravando
  <2>6. \A q \in ComNumero : preparo'[q] = preparo[q]
    BY <2>1, <2>5 DEF ComNumero
  <2>7. NumerosDoContador'
    BY <1>0, <1>n, <2>1, <2>2, <2>4, <2>5, <2>6
       DEF Numeros, NumerosDoContador, Headers, ComNumero
  <2>8. NumerosDistintos'
    <3>1. \A i \in Headers : headers[i].nsa < nsa'
      BY <1>0, <1>n, <2>4 DEF Numeros, NumerosDoContador, Headers
    <3>2. \A q \in ComNumero : preparo[q].nsa < nsa'
      BY <1>0, <1>n, <2>4 DEF Numeros, NumerosDoContador, ComNumero
    <3>3. renovacao.passo = "salvar" => renovacao.nsa < nsa'
      BY <1>0, <1>n, <2>4 DEF Numeros, NumerosDoContador
    <3>4. \A n \in recusados : n < nsa'
      BY <1>0, <1>n, <2>4 DEF Numeros, NumerosDoContador
    <3> QED
      BY <1>0, <1>n, <2>1, <2>2, <2>5, <2>6, <3>1, <3>2, <3>3, <3>4
         DEF Numeros, NumerosDistintos, Headers
  <2>9. ProximoLido'
    BY <2>2, <2>3, <2>5 DEF ProximoLido
  <2> QED
    BY <2>7, <2>8, <2>9 DEF Numeros
<1>5. CASE SalvarHeader(p)
  <2> DEFINE k == Len(headers) + 1
  <2>1. /\ preparo'[p].passo = "resolver" /\ preparo[p].passo = "salvarHeader"
        /\ \A q \in Preparadores : q # p => preparo'[q] = preparo[q]
    <3>1. Anotar(p, [preparo[p] EXCEPT !.passo = "resolver", !.header = Len(headers')])
      BY <1>5 DEF SalvarHeader
    <3> QED
      BY <1>t, <1>5, <3>1, <1>m, <1>o DEF SalvarHeader, TipoPreparo, Preparando
  <2>2. UNCHANGED <<nsa, recusados, renovacao>>
    BY <1>5 DEF SalvarHeader, SoPreparo, banco_vars
  <2>3. /\ DOMAIN headers' = DOMAIN headers \cup {k} /\ k \notin DOMAIN headers
        /\ headers'[k].nsa = preparo[p].nsa
        /\ \A i \in DOMAIN headers : headers'[i] = headers[i]
    BY <1>0, <1>5, HeaderNovo DEF SalvarHeader
  <2>4. ComNumero' = ComNumero \ {p} /\ p \in ComNumero /\ Gravando' = Gravando
    BY <2>1 DEF ComNumero, Gravando
  <2>5. \A q \in Preparadores : q # p => preparo'[q].nsa = preparo[q].nsa
    BY <2>1
  <2> HIDE DEF k
  <2>6. NumerosDoContador'
    BY <2>2, <2>3, <2>4, <2>5 DEF Numeros, NumerosDoContador, Headers, ComNumero
  <2>7. NumerosDistintos'
    BY <2>2, <2>3, <2>4, <2>5 DEF Numeros, NumerosDistintos, Headers, ComNumero
  <2>8. ProximoLido'
    BY <2>1, <2>2, <2>4, <2>5 DEF Numeros, ProximoLido, Gravando, ProximoNsa
  <2> QED
    BY <2>6, <2>7, <2>8 DEF Numeros
<1> QED
  BY <1>1, <1>2, <1>3, <1>4, <1>5 DEF Preparar

\* A sender or a renewal leaves the preparos alone.
LEMMA NumerosMantidosEnvio ==
    ASSUME InvLivro, Numeros, Banco, NEW r \in Remetentes, Enviar(r)
    PROVE  Numeros'
<1>0. /\ TypeOK /\ UNCHANGED <<nsa, preparo, renovacao>>
      /\ \A p \in Preparadores : preparo'[p] = preparo[p]
  BY DEF InvLivro, Enviar, GerarCnabText, SubmitCnabRemessa, SubmitCnabBackupRemessa,
         EnviarRemessa, SoEnvio
<1>1. /\ DOMAIN headers' = DOMAIN headers
      /\ \A i \in DOMAIN headers : headers'[i].nsa = headers[i].nsa
  <2>1. CASE UNCHANGED headers
    BY <2>1
  <2>2. CASE EnviarRemessa(r)
    <3>1. \A i \in DOMAIN headers : headers[i] \in Header
      BY <1>0, HeadersTipo
    <3> QED
      BY <2>2, <3>1 DEF EnviarRemessa, Header
  <2> QED
    BY <2>1, <2>2 DEF Enviar, GerarCnabText, SubmitCnabRemessa, SubmitCnabBackupRemessa
<1>2. CASE UNCHANGED recusados
  BY <1>0, <1>1, <1>2, NumerosQuietos
<1>3. CASE SubmitCnabRemessa(r) /\ recusados' = recusados \cup {remetente[r].nsa}
  <2>1. PICK i \in DOMAIN headers : remetente[r].nsa = headers[i].nsa
    BY <1>3 DEF Banco, EnvioInteiro, Gerados, SubmitCnabRemessa, Enviando
  <2>2. /\ \A q \in ComNumero : headers[i].nsa # preparo[q].nsa
        /\ renovacao.passo = "salvar" => headers[i].nsa # renovacao.nsa
        /\ headers[i].nsa <= nsa
    BY <2>1 DEF Numeros, NumerosDistintos, NumerosDoContador, Headers
  <2>3. NumerosDoContador'
    BY <1>0, <1>1, <1>3, <2>1, <2>2 DEF Numeros, NumerosDoContador, ComNumero, Headers
  <2>4. NumerosDistintos'
    BY <1>0, <1>1, <1>3, <2>1, <2>2 DEF Numeros, NumerosDistintos, ComNumero, Headers
  <2>5. ProximoLido'
    <3>1. ProximoNsa(nsa)' = ProximoNsa(nsa)
      BY <1>0 DEF ProximoNsa
    <3> QED
      BY <1>0, <3>1 DEF Numeros, ProximoLido, Gravando
  <2> QED
    BY <2>3, <2>4, <2>5 DEF Numeros
<1> QED
  BY <1>2, <1>3 DEF Enviar, GerarCnabText, SubmitCnabRemessa, SubmitCnabBackupRemessa,
                    EnviarRemessa, banco_vars

LEMMA NumerosMantidosRenovacao ==
    ASSUME InvLivro, Numeros, Banco, EnvioDisciplinado, [nsa' > nsa]_nsa,
           (\E n \in recusados : RenovarNsaRemessa(n)) \/ LerNsaNovo \/ GravarNsaNovo
             \/ Reabrir
    PROVE  Numeros'
<1>0. /\ TypeOK /\ UNCHANGED <<preparo, recusados>> /\ nsa \in Nat
      /\ renovacao \in TipoRenovacao(Len(headers))
      /\ \A p \in Preparadores : preparo'[p] = preparo[p]
  BY DEF InvLivro, TypeOK, TipoRenovacao, RenovarNsaRemessa, LerNsaNovo, GravarNsaNovo,
         Reabrir, SoRenovacao, banco_vars
<1>c. ComNumero' = ComNumero /\ Gravando' = Gravando
  BY <1>0 DEF ComNumero, Gravando
<1>1. CASE \E n \in recusados : RenovarNsaRemessa(n)
  <2>1. UNCHANGED <<headers, nsa>> /\ renovacao'.passo = "nsa"
    BY <1>1 DEF RenovarNsaRemessa
  <2> QED
    BY <1>0, <2>1, NumerosQuietos
<1>2. CASE LerNsaNovo
  <2>1. /\ renovacao'.passo = "gravarNsa" /\ renovacao'.nsa = ProximoNsa(nsa)
        /\ UNCHANGED <<headers, nsa>> /\ Gravando = {}
    BY <1>0, <1>2 DEF LerNsaNovo, TipoRenovacao, PodeLerNsa, EnvioDisciplinado, Numerando,
                      Preparando, Gravando
  <2>2. NumerosDoContador' /\ NumerosDistintos'
    BY <1>0, <1>c, <2>1 DEF Numeros, NumerosDoContador, NumerosDistintos, Headers
  <2>3. ProximoLido'
    BY <1>c, <2>1 DEF ProximoLido, ProximoNsa
  <2> QED
    BY <2>2, <2>3 DEF Numeros
<1>3. CASE GravarNsaNovo
  <2>1. /\ renovacao'.passo = "salvar" /\ renovacao'.nsa = renovacao.nsa
        /\ renovacao.passo = "gravarNsa"
        /\ UNCHANGED headers /\ nsa' = renovacao.nsa /\ Gravando = {}
    BY <1>0, <1>3 DEF GravarNsaNovo, TipoRenovacao, Numeros, ProximoLido
  <2>2. nsa' = nsa + 1
    BY <1>0, <2>1, ContadorAvanca DEF Numeros, ProximoLido
  <2>3. /\ \A i \in Headers : headers[i].nsa \in Nat
        /\ \A p \in ComNumero : preparo[p].nsa \in Nat
        /\ \A n \in recusados : n \in Nat
    <3>1. \A i \in Headers : headers[i].nsa \in Nat
      BY <1>0, HeadersTipo DEF Header, Headers
    <3>2. (\A p \in ComNumero : preparo[p].nsa \in 0..UltimoNsa) /\ recusados \subseteq 0..UltimoNsa
      BY <1>0 DEF TypeOK, ComNumero
    <3>3. 0..UltimoNsa \subseteq Nat
      OBVIOUS
    <3> QED
      BY <3>1, <3>2, <3>3
  <2>4. /\ \A i \in Headers : headers[i].nsa < nsa'
        /\ \A p \in ComNumero : preparo[p].nsa < nsa'
        /\ \A n \in recusados : n < nsa'
    BY <1>0, <2>2, <2>3 DEF Numeros, NumerosDoContador
  <2>5. NumerosDoContador'
    BY <1>0, <1>c, <2>1, <2>2, <2>3, <2>4 DEF NumerosDoContador, Headers, ComNumero
  <2>6. NumerosDistintos'
    BY <1>0, <1>c, <2>1, <2>2, <2>3, <2>4 DEF Numeros, NumerosDistintos, Headers, ComNumero
  <2>7. ProximoLido'
    BY <1>c, <2>1 DEF ProximoLido
  <2> QED
    BY <2>5, <2>6, <2>7 DEF Numeros
<1>4. CASE Reabrir
  <2>1. /\ renovacao'.passo = "fora" /\ renovacao.passo = "salvar" /\ UNCHANGED nsa
        /\ renovacao.header \in DOMAIN headers
    BY <1>4 DEF Reabrir, SemRenovacao, Banco, RenovaRecusado, Headers
  <2>2. /\ DOMAIN headers' = DOMAIN headers
        /\ headers'[renovacao.header].nsa = renovacao.nsa
        /\ \A i \in DOMAIN headers : i # renovacao.header => headers'[i] = headers[i]
    BY <1>4, <2>1 DEF Reabrir
  <2>3. NumerosDoContador'
    BY <1>0, <1>c, <2>1, <2>2 DEF Numeros, NumerosDoContador, Headers
  <2>4. NumerosDistintos'
    BY <1>0, <1>c, <2>1, <2>2 DEF Numeros, NumerosDistintos, Headers
  <2>5. ProximoLido'
    <3>1. ProximoNsa(nsa)' = ProximoNsa(nsa)
      BY <2>1 DEF ProximoNsa
    <3> QED
      BY <1>0, <1>c, <2>1, <3>1 DEF Numeros, ProximoLido, Gravando
  <2> QED
    BY <2>3, <2>4, <2>5 DEF Numeros
<1> QED
  BY <1>1, <1>2, <1>3, <1>4

-----------------------------------------------------------------------------
(* What the bank has, kept.                                                *)

\* While a preparo works there is no sender.
LEMMA SemRemetente ==
    ASSUME InvLivro, Banco, EnvioDisciplinado, TypeOK, NEW p \in Preparadores, Preparar(p)
    PROVE  \A r \in Remetentes : remetente[r] = SemEnvio
<1>1. CASE PrepararRemessa(p)
  BY <1>1 DEF PrepararRemessa, EnvioDisciplinado
<1>2. CASE preparo[p].passo # "fora"
  BY <1>2 DEF InvLivro, LembraDosSeus, Banco, EnvioInteiro
<1>3. PrepararRemessa(p) \/ preparo[p].passo # "fora"
  BY DEF Preparar, Preparando, GerarHeaderArquivo, LerNsa, GravarNsa, SalvarHeader,
         LerIndevidos, ExistsDetalheA, DebitarPagamentoIndevido, GerarDetalheAB,
         AtualizaStatusRemessa, ExcecaoNoPreparo
<1> QED
  BY <1>1, <1>2, <1>3

\* The rows of what was sent stay out of reach when a preparo takes only rows
\* it had or rows still Criado.
LEMMA ForaDeAlcance ==
    ASSUME TypeOK, Banco, NEW p \in Preparadores, NEW nova, Anotar(p, nova),
           nova.faltam \cup {nova.atual} \subseteq
               preparo[p].faltam \cup {preparo[p].atual, Ninguem}
                 \cup {h \in Pagamentos : historico[h] = Criado},
           NEW i \in Headers, i \notin Gerados, NEW h \in Linhas(i)
    PROVE  \A q \in Preparadores : h \notin preparo'[q].faltam /\ h # preparo'[q].atual
<1>1. /\ historico[h] = PreparadoParaEnvio /\ h # Ninguem
      /\ \A q \in Preparadores : h \notin preparo[q].faltam /\ h # preparo[q].atual
  BY PreparoAssumption DEF Banco, HeadersConferem, Linhas
<1>2. PreparadoParaEnvio # Criado
  BY DEF PreparadoParaEnvio, Criado
<1>3. h \notin nova.faltam /\ h # nova.atual
  BY <1>1, <1>2
<1> QED
  BY <1>1, <1>3, PreparoTrocado

\* A preparo's step that leaves the headers, the DetalheAs and the bank.
LEMMA BancoAnotado ==
    ASSUME TypeOK, TypeOK', Banco, \A r \in Remetentes : remetente[r] = SemEnvio,
           NEW p \in Preparadores, NEW nova, Anotar(p, nova),
           UNCHANGED <<headers, detalhe, pedidos, recusados, remetente, renovacao>>,
           \A h \in Pagamentos : historico[h] = PreparadoParaEnvio
                                   => historico'[h] = PreparadoParaEnvio,
           nova.faltam \cup {nova.atual} \subseteq
               preparo[p].faltam \cup {preparo[p].atual, Ninguem}
                 \cup {h \in Pagamentos : historico[h] = Criado},
           nova.passo \in {"resolver", "ordem", "debitar", "detalhe", "status"}
               => nova.header \in Gerados,
           nova.passo = "fora" => nova = SemPreparo
    PROVE  Banco'
<1>1. EnvioInteiro'
  BY DEF EnvioInteiro, SemEnvio
<1>g. Gerados' = Gerados /\ Headers' = Headers
  BY DEF Gerados, Headers
<1>2. \A i \in Headers : /\ Linhas(i)' = Linhas(i) /\ Pedida(i)' = Pedida(i)
                         /\ Recusada(i)' = Recusada(i) /\ NaoPedida(i)' = NaoPedida(i)
  BY DEF Linhas, Pedida, Recusada, NaoPedida
<1>3. HeadersConferem'
  <2> SUFFICES ASSUME NEW i \in Headers
               PROVE  /\ i \in Gerados => NaoPedida(i)'
                      /\ i \notin Gerados =>
                            /\ Pedida(i)' \/ Recusada(i)'
                            /\ \A h \in Linhas(i)' : historico'[h] = PreparadoParaEnvio
                            /\ \A h \in Linhas(i)', q \in Preparadores :
                                  h \notin preparo'[q].faltam /\ h # preparo'[q].atual
    BY <1>g DEF HeadersConferem
  <2>1. i \in Gerados => NaoPedida(i)
    BY DEF Banco, HeadersConferem, NoBanco, SemEnvio
  <2>2. ASSUME i \notin Gerados
        PROVE  /\ Pedida(i) \/ Recusada(i)
               /\ \A h \in Linhas(i) : h \in Pagamentos /\ historico[h] = PreparadoParaEnvio
    BY <2>2 DEF Banco, HeadersConferem, Linhas
  <2>3. ASSUME i \notin Gerados, NEW h \in Linhas(i)
        PROVE  \A q \in Preparadores : h \notin preparo'[q].faltam /\ h # preparo'[q].atual
    BY <2>3, ForaDeAlcance
  <2> QED
    BY <1>2, <2>1, <2>2, <2>3
<1>4. SemDetalheNaoPedida' /\ RenovaRecusado'
  BY <1>g DEF Banco, SemDetalheNaoPedida, RenovaRecusado
<1>5. PreparaNoAberto' /\ ParadoVazio'
  BY <1>g, PreparoTrocado DEF Banco, PreparaNoAberto, ParadoVazio
<1> QED
  BY <1>1, <1>3, <1>4, <1>5 DEF Banco

LEMMA BancoMantidoPreparo ==
    ASSUME InvLivro, Numeros, Banco, TypeOK', EnvioDisciplinado, NEW p \in Preparadores,
           Preparar(p)
    PROVE  Banco'
<1>0. TypeOK /\ \A r \in Remetentes : remetente[r] = SemEnvio
  BY SemRemetente DEF InvLivro
<1>t. preparo[p] \in TipoPreparo(Len(headers)) /\ Len(headers) \in Nat
  <2>1. TypeOK
    BY <1>0
  <2>2. preparo[p] \in TipoPreparo(Len(headers))
    BY <2>1 DEF TypeOK, TipoPreparo
  <2> QED
    BY <2>1, <2>2, HeadersTipo
<1>m. \A nova : Anotar(p, nova) => preparo'[p] = nova
  BY <1>0, PreparoTrocado
<1>s. SemPreparo.passo = "fora" /\ SemPreparo.faltam = {} /\ SemPreparo.atual = Ninguem
  BY DEF SemPreparo
<1>p. preparo[p].passo \in {"resolver", "ordem", "debitar", "detalhe", "status"}
         => preparo[p].header \in Gerados
  BY DEF Banco, PreparaNoAberto
<1>1. CASE PrepararRemessa(p)
  <2> DEFINE nova == [SemPreparo EXCEPT !.passo = "header", !.faltam = Selecionados(p)]
  <2>1. /\ UNCHANGED <<headers, detalhe, pedidos, recusados, remetente, renovacao, historico>>
        /\ Anotar(p, nova) \/ UNCHANGED preparo
    BY <1>1 DEF PrepararRemessa, SoPreparo, db_vars, banco_vars
  <2>2. nova.passo = "header" /\ nova.faltam = Selecionados(p) /\ nova.atual = Ninguem
    BY DEF SemPreparo
  <2>3. Selecionados(p) \subseteq {h \in Pagamentos : historico[h] = Criado}
    BY PreparoAssumption DEF Selecionados
  <2>4. CASE Anotar(p, nova)
    <3> HIDE DEF nova
    <3> QED
      BY <1>0, <2>1, <2>2, <2>3, <2>4, BancoAnotado
  <2>5. CASE UNCHANGED preparo
    <3>1. Anotar(p, preparo[p])
      BY <1>0, <2>5 DEF Anotar, TypeOK
    <3>2. preparo[p].passo = "fora" /\ preparo[p] = SemPreparo
      BY <1>1 DEF PrepararRemessa, Preparando, Banco, ParadoVazio
    <3> QED
      BY <1>0, <1>s, <2>1, <3>1, <3>2, BancoAnotado
  <2> QED
    BY <2>1, <2>4, <2>5
<1>2. CASE GerarHeaderArquivo(p) \/ LerNsa(p) \/ GravarNsa(p) \/ LerIndevidos(p)
             \/ ExistsDetalheA(p) \/ DebitarPagamentoIndevido(p) \/ AtualizaStatusRemessa(p)
             \/ ExcecaoNoPreparo(p) \/ (GerarDetalheAB(p) /\ UNCHANGED detalhe /\ Anotar(p, SemPreparo))
  <2>1. UNCHANGED <<headers, detalhe, pedidos, recusados, remetente, renovacao>>
    BY <1>2 DEF GerarHeaderArquivo, LerNsa, GravarNsa, LerIndevidos, ExistsDetalheA,
       DebitarPagamentoIndevido, AtualizaStatusRemessa, ExcecaoNoPreparo, GerarDetalheAB,
       SoPreparo, db_vars, banco_vars
  <2>2. \A h \in Pagamentos : historico[h] = PreparadoParaEnvio
                                => historico'[h] = PreparadoParaEnvio
    <3>1. CASE UNCHANGED historico
      BY <3>1
    <3>2. CASE AtualizaStatusRemessa(p)
      BY <1>0, <3>2 DEF AtualizaStatusRemessa, TypeOK
    <3> QED
      BY <1>2, <3>1, <3>2 DEF GerarHeaderArquivo, LerNsa, GravarNsa, LerIndevidos,
         ExistsDetalheA, DebitarPagamentoIndevido, ExcecaoNoPreparo, GerarDetalheAB, db_vars
  <2>3. \E nova : Anotar(p, nova)
    BY <1>2 DEF GerarHeaderArquivo, LerNsa, GravarNsa, LerIndevidos, ExistsDetalheA,
       DebitarPagamentoIndevido, AtualizaStatusRemessa, ExcecaoNoPreparo
  <2>4. /\ preparo'[p].faltam \subseteq preparo[p].faltam
        /\ preparo'[p].atual \in preparo[p].faltam \cup {preparo[p].atual, Ninguem}
        /\ preparo'[p].passo \in {"resolver", "ordem", "debitar", "detalhe", "status"}
               => preparo'[p].header \in Gerados
        /\ preparo'[p].passo = "fora" => preparo'[p] = SemPreparo
    <3>1. CASE GerarHeaderArquivo(p)
      BY <1>t, <1>m, <3>1 DEF GerarHeaderArquivo, TipoPreparo
    <3>2. CASE LerNsa(p) \/ GravarNsa(p)
      BY <1>t, <1>m, <3>2 DEF LerNsa, GravarNsa, TipoPreparo
    <3>3. CASE LerIndevidos(p)
      BY <1>t, <1>m, <1>p, <3>3 DEF LerIndevidos, TipoPreparo, Preparando
    <3>4. CASE ExistsDetalheA(p)
      <4>1. CASE Anotar(p, SemPreparo)
        BY <1>m, <1>s, <4>1
      <4>2. ASSUME NEW h \in preparo[p].faltam, NEW passo \in {"debitar", "detalhe"},
                   NEW nova,
                   nova = [preparo[p] EXCEPT !.passo = passo, !.atual = h,
                                             !.faltam = @ \ {h}, !.existe = detalhe[h] # 0],
                   Anotar(p, nova)
            PROVE  /\ preparo'[p].faltam \subseteq preparo[p].faltam
                   /\ preparo'[p].atual = h /\ preparo'[p].header = preparo[p].header
                   /\ preparo'[p].passo = passo
        <5>1. preparo'[p] = nova
          BY <1>m, <4>2
        <5>2. nova.faltam \subseteq preparo[p].faltam /\ nova.atual = h
          BY <1>t, <4>2 DEF TipoPreparo
        <5>3. nova.header = preparo[p].header /\ nova.passo = passo
          BY <1>t, <4>2 DEF TipoPreparo
        <5> QED
          BY <5>1, <5>2, <5>3
      <4> QED
        BY <1>p, <3>4, <4>1, <4>2 DEF ExistsDetalheA, Preparando
    <3>5. CASE DebitarPagamentoIndevido(p)
      BY <1>t, <1>m, <1>p, <3>5 DEF DebitarPagamentoIndevido, TipoPreparo, Preparando
    <3>6. CASE AtualizaStatusRemessa(p)
      BY <1>t, <1>m, <1>p, <3>6 DEF AtualizaStatusRemessa, TipoPreparo, Preparando
    <3>7. CASE Anotar(p, SemPreparo)
      BY <1>m, <1>s, <3>7
    <3> QED
      BY <1>2, <3>1, <3>2, <3>3, <3>4, <3>5, <3>6, <3>7 DEF ExcecaoNoPreparo
  <2>5. PICK nova : Anotar(p, nova)
    BY <2>3
  <2>6. preparo'[p] = nova
    BY <1>m, <2>5
  <2> QED
    BY <1>0, <2>1, <2>2, <2>4, <2>5, <2>6, BancoAnotado
<1>3. CASE SalvarHeader(p)
  <2> DEFINE k == Len(headers) + 1
  <2>1. /\ UNCHANGED <<historico, detalhe, pedidos, recusados, remetente, renovacao>>
        /\ headers' = Append(headers, [status |-> "remessaGerado", nsa |-> preparo[p].nsa])
        /\ preparo[p].passo = "salvarHeader"
    BY <1>3 DEF SalvarHeader, SoPreparo, banco_vars, Preparando
  <2>2. /\ Headers' = Headers \cup {k} /\ k \notin Headers
        /\ headers'[k].status = "remessaGerado" /\ headers'[k].nsa = preparo[p].nsa
        /\ \A i \in Headers : headers'[i] = headers[i]
        /\ Len(headers') = k
    BY <1>0, <2>1, HeaderNovo DEF Headers
  <2>3. /\ preparo'[p].passo = "resolver" /\ preparo'[p].header = k
        /\ preparo'[p].faltam = preparo[p].faltam /\ preparo'[p].atual = preparo[p].atual
        /\ \A q \in Preparadores : q # p => preparo'[q] = preparo[q]
    <3>1. Anotar(p, [preparo[p] EXCEPT !.passo = "resolver", !.header = Len(headers')])
      BY <1>3 DEF SalvarHeader
    <3>2. \A q \in Preparadores : q # p => preparo'[q] = preparo[q]
      BY <1>0, <3>1, PreparoTrocado
    <3> QED
      BY <1>t, <1>m, <2>2, <3>1, <3>2 DEF TipoPreparo
  <2>4. k \notin Headers /\ \A h \in Pagamentos : detalhe[h] # k
    <3>1. \A h \in Pagamentos : detalhe[h] \in 0..Len(headers)
      BY <1>0 DEF TypeOK
    <3> QED
      BY <1>t, <2>2, <3>1
  <2>n. preparo[p].nsa \notin recusados
    BY <2>1 DEF Numeros, NumerosDistintos, ComNumero
  <2> HIDE DEF k
  <2>5. Gerados' = Gerados \cup {k}
    BY <2>2 DEF Gerados, Headers
  <2>6. \A i \in Headers : /\ Linhas(i)' = Linhas(i) /\ Pedida(i)' = Pedida(i)
                           /\ Recusada(i)' = Recusada(i) /\ NaoPedida(i)' = NaoPedida(i)
    BY <2>1, <2>2 DEF Linhas, Pedida, Recusada, NaoPedida
  <2>7. EnvioInteiro'
    BY <1>0, <2>1 DEF EnvioInteiro, SemEnvio
  <2>8. HeadersConferem'
    <3> SUFFICES ASSUME NEW i \in Headers \cup {k}
                 PROVE  /\ i \in Gerados' => NaoPedida(i)'
                        /\ i \notin Gerados' =>
                              /\ Pedida(i)' \/ Recusada(i)'
                              /\ \A h \in Linhas(i)' : historico'[h] = PreparadoParaEnvio
                              /\ \A h \in Linhas(i)', q \in Preparadores :
                                    h \notin preparo'[q].faltam /\ h # preparo'[q].atual
      BY <2>2 DEF HeadersConferem
    <3>1. CASE i = k
      <4>1. NaoPedida(i)'
        BY <2>1, <2>2, <2>4, <2>n, <3>1 DEF NaoPedida, Linhas
      <4> QED
        BY <2>5, <3>1, <4>1
    <3>2. CASE i \in Headers /\ i \in Gerados
      <4>1. NaoPedida(i)
        BY <1>0, <3>2 DEF Banco, HeadersConferem, NoBanco, SemEnvio
      <4> QED
        BY <2>5, <2>6, <3>2, <4>1
    <3>3. CASE i \in Headers /\ i \notin Gerados
      <4>1. /\ Pedida(i) \/ Recusada(i)
            /\ \A h \in Linhas(i) : historico[h] = PreparadoParaEnvio
            /\ \A h \in Linhas(i), q \in Preparadores :
                  h \notin preparo[q].faltam /\ h # preparo[q].atual
        BY <3>3 DEF Banco, HeadersConferem
      <4> QED
        BY <2>1, <2>2, <2>3, <2>5, <2>6, <3>3, <4>1
    <3> QED
      BY <3>1, <3>2, <3>3
  <2>9. SemDetalheNaoPedida' /\ RenovaRecusado'
    BY <2>1, <2>2, <2>5 DEF Banco, SemDetalheNaoPedida, RenovaRecusado
  <2>10. PreparaNoAberto' /\ ParadoVazio'
    BY <2>3, <2>5 DEF Banco, PreparaNoAberto, ParadoVazio
  <2> QED
    BY <2>7, <2>8, <2>9, <2>10 DEF Banco
<1>4. CASE GerarDetalheAB(p) /\ ~(UNCHANGED detalhe /\ Anotar(p, SemPreparo))
  <2> DEFINE h == preparo[p].atual
             j == preparo[p].header
  <2>1. /\ UNCHANGED <<historico, headers, pedidos, recusados, remetente, renovacao>>
        /\ detalhe' = [detalhe EXCEPT ![h] = j] /\ preparo[p].passo = "detalhe"
        /\ Anotar(p, [preparo[p] EXCEPT !.passo = "status"])
    BY <1>4 DEF GerarDetalheAB, SoPreparo, banco_vars, Preparando
  <2>2. h \in Pagamentos /\ j \in Gerados /\ preparo[p].passo # "fora"
    BY <1>p, <2>1, PreparoAssumption DEF InvLivro, LembraDosSeus, NaLinha
  <2>3. /\ preparo'[p].passo = "status" /\ preparo'[p].header = j
        /\ preparo'[p].faltam = preparo[p].faltam /\ preparo'[p].atual = h
        /\ \A q \in Preparadores : q # p => preparo'[q] = preparo[q]
    <3>1. \A q \in Preparadores : q # p => preparo'[q] = preparo[q]
      BY <1>0, <2>1, PreparoTrocado
    <3> QED
      BY <1>t, <1>m, <2>1, <3>1 DEF TipoPreparo
  <2> HIDE DEF h, j
  <2>4. /\ detalhe'[h] = j
        /\ \A g \in Pagamentos : g # h => detalhe'[g] = detalhe[g]
    BY <1>0, <2>1, <2>2 DEF TypeOK
  <2>g. Gerados' = Gerados /\ Headers' = Headers /\ Gerados \subseteq Headers
    BY <2>1 DEF Gerados, Headers
  <2>5. \A i \in Gerados : NaoPedida(i)
    BY <1>0, <2>g DEF Banco, HeadersConferem, NoBanco, SemEnvio
  <2>6. pedidos[h] = 0
    <3>1. CASE detalhe[h] = 0
      BY <2>2, <3>1 DEF Banco, SemDetalheNaoPedida
    <3>2. CASE detalhe[h] # 0
      <4>1. detalhe[h] \in Headers /\ h \in Linhas(detalhe[h])
        <5>1. detalhe[h] \in 0..Len(headers)
          BY <1>0, <2>2 DEF TypeOK
        <5> QED
          BY <1>0, <1>t, <2>2, <3>2, <5>1, HeadersTipo DEF Headers, Linhas
      <4>2. detalhe[h] \in Gerados
        BY <4>1 DEF Banco, HeadersConferem, h
      <4> QED
        BY <2>5, <4>1, <4>2 DEF NaoPedida
    <3> QED
      BY <3>1, <3>2
  <2>7. \A i \in Headers : Linhas(i)' \subseteq Linhas(i) \cup (IF i = j THEN {h} ELSE {})
    BY <2>2, <2>4 DEF Linhas
  <2>8. HeadersConferem'
    <3> SUFFICES ASSUME NEW i \in Headers
                 PROVE  /\ i \in Gerados => NaoPedida(i)'
                        /\ i \notin Gerados =>
                              /\ Pedida(i)' \/ Recusada(i)'
                              /\ \A g \in Linhas(i)' : historico'[g] = PreparadoParaEnvio
                              /\ \A g \in Linhas(i)', q \in Preparadores :
                                    g \notin preparo'[q].faltam /\ g # preparo'[q].atual
      BY <2>g DEF HeadersConferem
    <3>1. CASE i \in Gerados
      BY <2>1, <2>5, <2>6, <2>7, <3>1 DEF NaoPedida
    <3>2. CASE i \notin Gerados
      <4>1. Linhas(i)' \subseteq Linhas(i)
        BY <2>2, <2>7, <3>2
      <4>2. /\ Pedida(i) \/ Recusada(i)
            /\ \A g \in Linhas(i) : historico[g] = PreparadoParaEnvio
            /\ \A g \in Linhas(i), q \in Preparadores :
                  g \notin preparo[q].faltam /\ g # preparo[q].atual
        BY <3>2 DEF Banco, HeadersConferem
      <4>3. Pedida(i)' \/ Recusada(i)'
        BY <2>1, <4>1, <4>2 DEF Pedida, Recusada
      <4>4. \A q \in Preparadores : preparo'[q].faltam = preparo[q].faltam
                                   /\ preparo'[q].atual = preparo[q].atual
        BY <2>3 DEF h
      <4> QED
        BY <2>1, <3>2, <4>1, <4>2, <4>3, <4>4
    <3> QED
      BY <3>1, <3>2
  <2>9. EnvioInteiro'
    BY <1>0, <2>1 DEF EnvioInteiro, SemEnvio
  <2>10. SemDetalheNaoPedida' /\ RenovaRecusado'
    BY <2>1, <2>4, <2>6, <2>g DEF Banco, SemDetalheNaoPedida, RenovaRecusado
  <2>11. PreparaNoAberto' /\ ParadoVazio'
    BY <2>2, <2>3, <2>g DEF Banco, PreparaNoAberto, ParadoVazio
  <2> QED
    BY <2>8, <2>9, <2>10, <2>11 DEF Banco
<1> QED
  BY <1>1, <1>2, <1>3, <1>4 DEF Preparar

LEMMA RemetenteTrocado ==
    ASSUME TypeOK, NEW r \in Remetentes, NEW novo, Remeter(r, novo)
    PROVE  /\ remetente'[r] = novo
           /\ \A s \in Remetentes : s # r => remetente'[s] = remetente[s]
BY DEF TypeOK, Remeter

\* What a sender takes, and what it has when it is under way.
LEMMA DoRemetente ==
    ASSUME Banco, NEW r \in Remetentes, remetente[r].passo # "fora"
    PROVE  /\ inacabados = {}
           /\ remetente[r].header \in Gerados /\ remetente[r].header \in Headers
           /\ remetente[r].nsa = headers[remetente[r].header].nsa
           /\ remetente[r].linhas = Linhas(remetente[r].header)
           /\ NoBanco(r) => Pedida(remetente[r].header) \/ Recusada(remetente[r].header)
BY DEF Banco, EnvioInteiro, Gerados, Headers

LEMMA BancoMantidoEnvio ==
    ASSUME InvLivro, Numeros, Banco, TypeOK', EnvioDisciplinado, NEW r \in Remetentes, Enviar(r)
    PROVE  Banco'
<1>0. /\ TypeOK /\ UNCHANGED <<historico, detalhe, preparo, renovacao, inacabados>>
      /\ \A s \in Remetentes : s = r
  BY DEF InvLivro, Enviar, GerarCnabText, SubmitCnabRemessa, SubmitCnabBackupRemessa,
         EnviarRemessa, SoEnvio, EnvioDisciplinado
<1>t. remetente[r] \in TipoRemetente(Len(headers))
  <2>1. TypeOK
    BY <1>0
  <2> QED
    BY <2>1 DEF TypeOK, TipoRemetente
<1>m. \A novo : Remeter(r, novo) => remetente'[r] = novo
  BY <1>0, RemetenteTrocado
<1>v. ParadoVazio'
  BY <1>0 DEF Banco, ParadoVazio
<1>l. \A i : Linhas(i)' = Linhas(i)
  BY <1>0 DEF Linhas
<1>1. CASE GerarCnabText(r)
  <2>1. /\ UNCHANGED <<headers, pedidos, recusados>> /\ inacabados = {}
        /\ remetente[r].passo = "fora"
    BY <1>1 DEF GerarCnabText, banco_vars, EnvioDisciplinado, Enviando
  <2>2. PICK i \in Gerados : Remeter(r, [passo |-> "enviar", header |-> i,
                                         nsa |-> headers[i].nsa,
                                         linhas |-> {h \in Pagamentos : detalhe[h] = i}])
    BY <1>1 DEF GerarCnabText
  <2>3. /\ remetente'[r].passo = "enviar" /\ remetente'[r].header = i
        /\ remetente'[r].nsa = headers[i].nsa /\ remetente'[r].linhas = Linhas(i)
    BY <1>m, <2>2 DEF Linhas
  <2>g. Gerados' = Gerados /\ Headers' = Headers
    BY <2>1 DEF Gerados, Headers
  <2>4. EnvioInteiro'
    BY <1>0, <1>l, <2>1, <2>3, <2>g DEF EnvioInteiro, NoBanco
  <2>5. \A k \in Headers : /\ Pedida(k)' = Pedida(k) /\ Recusada(k)' = Recusada(k)
                           /\ NaoPedida(k)' = NaoPedida(k)
    BY <1>l, <2>1 DEF Pedida, Recusada, NaoPedida
  <2>6. \A s \in Remetentes : ~NoBanco(s)
    BY <1>0, <2>1 DEF NoBanco
  <2>7. HeadersConferem'
    BY <1>0, <1>l, <2>5, <2>6, <2>g DEF Banco, HeadersConferem
  <2> QED
    BY <1>0, <1>v, <2>1, <2>4, <2>7, <2>g
       DEF Banco, SemDetalheNaoPedida, PreparaNoAberto, RenovaRecusado
<1>2. CASE SubmitCnabRemessa(r)
  <2>i. PICK i : i = remetente[r].header
    OBVIOUS
  <2>1. /\ UNCHANGED headers /\ remetente[r].passo = "enviar" /\ SemEnvio.passo = "fora"
    BY <1>2 DEF SubmitCnabRemessa, Enviando, SemEnvio
  <2>2. /\ inacabados = {} /\ i \in Gerados /\ i \in Headers
        /\ remetente[r].nsa = headers[i].nsa /\ remetente[r].linhas = Linhas(i)
    BY <2>1, <2>i, DoRemetente
  <2>3. \A s \in Remetentes : ~NoBanco(s)
    BY <1>0, <2>1 DEF NoBanco
  <2>4. NaoPedida(i)
    BY <2>2, <2>3 DEF Banco, HeadersConferem
  <2>g. Gerados' = Gerados /\ Headers' = Headers
    BY <2>1 DEF Gerados, Headers
  <2>p. PreparaNoAberto'
    BY <1>0, <2>g DEF Banco, PreparaNoAberto
  <2>5. CASE Remeter(r, SemEnvio) /\ UNCHANGED banco_vars
    <3>1. \A k \in Headers : /\ Pedida(k)' = Pedida(k) /\ Recusada(k)' = Recusada(k)
                             /\ NaoPedida(k)' = NaoPedida(k)
      BY <1>l, <2>1, <2>5 DEF Pedida, Recusada, NaoPedida, banco_vars
    <3>2. HeadersConferem'
      BY <1>0, <1>l, <2>3, <2>g, <3>1 DEF Banco, HeadersConferem
    <3>3. EnvioInteiro'
      BY <1>0, <1>m, <2>1, <2>5 DEF EnvioInteiro
    <3> QED
      BY <1>0, <1>v, <2>1, <2>5, <2>g, <2>p, <3>2, <3>3
         DEF Banco, SemDetalheNaoPedida, RenovaRecusado, banco_vars
  <2>6. CASE Remeter(r, [remetente[r] EXCEPT !.passo = "copia"])
    <3>1. /\ remetente'[r].passo = "copia" /\ remetente'[r].header = i
          /\ remetente'[r].nsa = headers[i].nsa /\ remetente'[r].linhas = Linhas(i)
          /\ NoBanco(r)'
      BY <1>t, <1>m, <2>2, <2>6, <2>i DEF TipoRemetente, NoBanco
    <3>2. CASE /\ UNCHANGED recusados
               /\ pedidos' = [h \in Pagamentos |->
                                pedidos[h] + IF h \in remetente[r].linhas THEN 1 ELSE 0]
      <4>1. /\ \A h \in Linhas(i) : pedidos'[h] = 1
            /\ \A h \in Pagamentos : h \notin Linhas(i) => pedidos'[h] = pedidos[h]
        <5>1. \A h \in Linhas(i) : pedidos[h] = 0 /\ h \in Pagamentos
          BY <2>4 DEF NaoPedida, Linhas
        <5>2. \A h \in Pagamentos : pedidos[h] \in Nat
          BY <1>0 DEF TypeOK
        <5> QED
          BY <2>2, <3>2, <5>1, <5>2
      <4>2. Pedida(i)'
        BY <1>l, <2>1, <2>4, <3>2, <4>1 DEF Pedida, NaoPedida
      <4>3. \A k \in Headers : k # i => \A h \in Linhas(k) : pedidos'[h] = pedidos[h]
        BY <4>1 DEF Linhas
      <4>4. \A k \in Headers : k # i => /\ Pedida(k)' = Pedida(k) /\ Recusada(k)' = Recusada(k)
                                        /\ NaoPedida(k)' = NaoPedida(k)
        BY <1>l, <2>1, <3>2, <4>3 DEF Pedida, Recusada, NaoPedida
      <4>5. EnvioInteiro'
        BY <1>0, <1>l, <2>1, <2>2, <2>g, <3>1, <4>2 DEF EnvioInteiro
      <4>6. HeadersConferem'
        BY <1>0, <1>l, <2>2, <2>3, <2>g, <3>1, <4>2, <4>4 DEF Banco, HeadersConferem
      <4>7. SemDetalheNaoPedida'
        <5>1. \A h \in Linhas(i) : detalhe[h] # 0
          BY <1>0, <2>2, HeadersTipo DEF Linhas, Headers
        <5> QED
          BY <1>0, <4>1, <5>1 DEF Banco, SemDetalheNaoPedida
      <4>8. RenovaRecusado'
        BY <1>0, <2>1, <2>g, <3>2 DEF Banco, RenovaRecusado
      <4> QED
        BY <1>v, <2>p, <4>5, <4>6, <4>7, <4>8 DEF Banco
    <3>3. CASE UNCHANGED pedidos /\ recusados' = recusados \cup {remetente[r].nsa}
      <4>1. Recusada(i)'
        BY <1>l, <2>1, <2>2, <2>4, <3>3 DEF Recusada, NaoPedida
      <4>2. \A k \in Headers : k # i => headers[k].nsa # remetente[r].nsa
        BY <2>2 DEF Numeros, NumerosDistintos
      <4>3. \A k \in Headers : k # i => /\ Pedida(k)' = Pedida(k) /\ Recusada(k)' = Recusada(k)
                                        /\ NaoPedida(k)' = NaoPedida(k)
        BY <1>l, <2>1, <3>3, <4>2 DEF Pedida, Recusada, NaoPedida
      <4>4. EnvioInteiro'
        BY <1>0, <1>l, <2>1, <2>2, <2>g, <3>1, <4>1 DEF EnvioInteiro
      <4>5. HeadersConferem'
        BY <1>0, <1>l, <2>2, <2>3, <2>g, <3>1, <4>1, <4>3 DEF Banco, HeadersConferem
      <4>6. SemDetalheNaoPedida' /\ RenovaRecusado'
        BY <1>0, <2>1, <2>g, <3>3 DEF Banco, SemDetalheNaoPedida, RenovaRecusado
      <4> QED
        BY <1>v, <2>p, <4>4, <4>5, <4>6 DEF Banco
    <3> QED
      BY <1>2, <1>m, <2>1, <3>1, <3>2, <3>3 DEF SubmitCnabRemessa
  <2> QED
    BY <1>2, <2>5, <2>6 DEF SubmitCnabRemessa
<1>3. CASE SubmitCnabBackupRemessa(r)
  <2>i. PICK i : i = remetente[r].header
    OBVIOUS
  <2>1. /\ UNCHANGED <<headers, pedidos, recusados>> /\ remetente[r].passo = "copia"
        /\ Remeter(r, [remetente[r] EXCEPT !.passo = "salvar"])
    BY <1>3 DEF SubmitCnabBackupRemessa, Enviando, banco_vars, EnvioDisciplinado
  <2>2. /\ remetente'[r].passo = "salvar" /\ remetente'[r].header = i
        /\ remetente'[r].nsa = remetente[r].nsa /\ remetente'[r].linhas = remetente[r].linhas
    BY <1>t, <1>m, <2>1, <2>i DEF TipoRemetente
  <2>3. NoBanco(r) /\ NoBanco(r)'
    BY <2>1, <2>2 DEF NoBanco
  <2>4. /\ inacabados = {} /\ i \in Gerados
        /\ remetente[r].nsa = headers[i].nsa /\ remetente[r].linhas = Linhas(i)
        /\ Pedida(i) \/ Recusada(i)
    BY <2>1, <2>3, <2>i, DoRemetente
  <2>g. Gerados' = Gerados /\ Headers' = Headers
    BY <2>1 DEF Gerados, Headers
  <2>5. \A k : /\ Pedida(k)' = Pedida(k) /\ Recusada(k)' = Recusada(k)
               /\ NaoPedida(k)' = NaoPedida(k)
    BY <1>l, <2>1 DEF Pedida, Recusada, NaoPedida
  <2>6. EnvioInteiro'
    BY <1>0, <1>l, <2>1, <2>2, <2>4, <2>5, <2>g DEF EnvioInteiro
  <2>7. HeadersConferem'
    BY <1>0, <1>l, <2>2, <2>3, <2>5, <2>g, <2>i DEF Banco, HeadersConferem
  <2> QED
    BY <1>0, <1>v, <2>1, <2>6, <2>7, <2>g
       DEF Banco, SemDetalheNaoPedida, PreparaNoAberto, RenovaRecusado
<1>4. CASE EnviarRemessa(r)
  <2>i. PICK i : i = remetente[r].header
    OBVIOUS
  <2>1. /\ UNCHANGED <<pedidos, recusados>> /\ remetente[r].passo = "salvar"
        /\ headers' = [headers EXCEPT ![i].status = "remessaEnviado"]
        /\ Remeter(r, SemEnvio)
    BY <1>4, <2>i DEF EnviarRemessa, Enviando, banco_vars
  <2>2. remetente'[r] = SemEnvio /\ SemEnvio.passo = "fora" /\ NoBanco(r)
    BY <1>m, <2>1 DEF SemEnvio, NoBanco
  <2>3. /\ inacabados = {} /\ i \in Gerados /\ i \in Headers
        /\ Pedida(i) \/ Recusada(i)
    BY <2>1, <2>2, <2>i, DoRemetente
  <2>4. /\ Headers' = Headers /\ headers'[i].status = "remessaEnviado"
        /\ headers'[i].nsa = headers[i].nsa
        /\ \A k \in Headers : k # i => headers'[k] = headers[k]
    <3>1. headers[i] \in Header
      BY <1>0, <2>3, HeadersTipo DEF Headers
    <3> QED
      BY <2>1, <2>3, <3>1 DEF Headers, Header
  <2>5. Gerados' = Gerados \ {i}
    BY <2>3, <2>4 DEF Gerados, Headers
  <2>6. \A k \in Headers : /\ Pedida(k)' = Pedida(k) /\ Recusada(k)' = Recusada(k)
                           /\ NaoPedida(k)' = NaoPedida(k)
    <3>1. \A k \in Headers : headers'[k].nsa = headers[k].nsa
      BY <2>4
    <3> QED
      BY <1>l, <2>1, <3>1 DEF Pedida, Recusada, NaoPedida
  <2>7. \A p \in Preparadores : preparo[p] = SemPreparo
    <3>1. \A p \in Preparadores : preparo[p].passo = "fora"
      BY <2>3 DEF InvLivro, LembraDosSeus
    <3> QED
      BY <3>1 DEF Banco, ParadoVazio
  <2>8. \A k \in Headers : \A h \in Linhas(k) :
           h \in Pagamentos /\ historico[h] = PreparadoParaEnvio
    <3>1. \A k \in Headers : k # 0
      BY <1>0, HeadersTipo DEF Headers
    <3>2. \A h \in Pagamentos : historico[h] \in {Criado, PreparadoParaEnvio}
      BY <1>0 DEF TypeOK
    <3> QED
      <4>1. \A h \in Pagamentos : detalhe[h] # 0 => historico[h] # Criado
        BY <2>3 DEF InvLivro, DetalheTemPreparo
      <4> QED
        BY <3>1, <3>2, <4>1 DEF Linhas
  <2>9. HeadersConferem'
    <3> SUFFICES ASSUME NEW k \in Headers
                 PROVE  /\ k \in Gerados' => NaoPedida(k)'
                        /\ k \notin Gerados' =>
                              /\ Pedida(k)' \/ Recusada(k)'
                              /\ \A h \in Linhas(k)' : historico'[h] = PreparadoParaEnvio
                              /\ \A h \in Linhas(k)', p \in Preparadores :
                                    h \notin preparo'[p].faltam /\ h # preparo'[p].atual
      BY <2>4 DEF HeadersConferem
    <3>1. k \in Gerados' => NaoPedida(k)
      BY <1>0, <2>5, <2>i DEF Banco, HeadersConferem
    <3>2. k \notin Gerados' => Pedida(k) \/ Recusada(k)
      BY <2>3, <2>5 DEF Banco, HeadersConferem
    <3>3. \A h \in Linhas(k), p \in Preparadores :
             h \notin preparo[p].faltam /\ h # preparo[p].atual
      BY <2>7, <2>8, PreparoAssumption DEF SemPreparo
    <3> QED
      BY <1>0, <1>l, <2>6, <2>8, <3>1, <3>2, <3>3
  <2>10. EnvioInteiro'
    BY <1>0, <2>2 DEF EnvioInteiro
  <2>11. PreparaNoAberto'
    BY <1>0, <2>7 DEF PreparaNoAberto, SemPreparo
  <2>12. SemDetalheNaoPedida'
    BY <1>0, <2>1 DEF Banco, SemDetalheNaoPedida
  <2>13. RenovaRecusado'
    BY <1>0, <2>1, <2>3, <2>4, <2>5 DEF Banco, RenovaRecusado
  <2> QED
    BY <1>v, <2>9, <2>10, <2>11, <2>12, <2>13 DEF Banco
<1> QED
  BY <1>1, <1>2, <1>3, <1>4 DEF Enviar

LEMMA BancoMantidoRenovacao ==
    ASSUME InvLivro, Numeros, Banco, TypeOK', EnvioDisciplinado,
           (\E n \in recusados : RenovarNsaRemessa(n)) \/ LerNsaNovo \/ GravarNsaNovo
             \/ Reabrir
    PROVE  Banco'
<1>0. /\ TypeOK
      /\ UNCHANGED <<historico, detalhe, pedidos, recusados, preparo, remetente, inacabados>>
      /\ renovacao \in TipoRenovacao(Len(headers))
  BY DEF InvLivro, TypeOK, TipoRenovacao, RenovarNsaRemessa, LerNsaNovo, GravarNsaNovo,
         Reabrir, SoRenovacao, banco_vars
<1>v. ParadoVazio' /\ SemDetalheNaoPedida'
  BY <1>0 DEF Banco, ParadoVazio, SemDetalheNaoPedida
<1>l. /\ \A i : Linhas(i)' = Linhas(i)
      /\ \A r \in Remetentes : NoBanco(r)' = NoBanco(r)
  BY <1>0 DEF Linhas, NoBanco
<1>1. CASE UNCHANGED headers /\ RenovaRecusado'
  <2>1. Gerados' = Gerados /\ Headers' = Headers
    BY <1>1 DEF Gerados, Headers
  <2>2. \A i : /\ Pedida(i)' = Pedida(i) /\ Recusada(i)' = Recusada(i)
               /\ NaoPedida(i)' = NaoPedida(i)
    BY <1>0, <1>1, <1>l DEF Pedida, Recusada, NaoPedida
  <2>3. EnvioInteiro'
    BY <1>0, <1>1, <1>l, <2>1, <2>2 DEF Banco, EnvioInteiro
  <2>4. HeadersConferem'
    BY <1>0, <1>l, <2>1, <2>2 DEF Banco, HeadersConferem
  <2>5. PreparaNoAberto'
    BY <1>0, <2>1 DEF Banco, PreparaNoAberto
  <2> QED
    BY <1>1, <1>v, <2>3, <2>4, <2>5 DEF Banco
<1>2. CASE \E n \in recusados : RenovarNsaRemessa(n)
  <2>1. PICK n \in recusados : RenovarNsaRemessa(n)
    BY <1>2
  <2>2. PICK i \in ComNsa(n) : renovacao' = [passo |-> "nsa", header |-> i, nsa |-> 0]
    BY <2>1 DEF RenovarNsaRemessa
  <2>3. /\ UNCHANGED headers /\ i \in Headers /\ headers[i].nsa \in recusados
        /\ \A r \in Remetentes : remetente[r] = SemEnvio
    BY <2>1, <2>2 DEF RenovarNsaRemessa, ComNsa, Headers, EnvioDisciplinado
  <2>4. i \notin Gerados
    BY <2>3 DEF Banco, HeadersConferem, NaoPedida, NoBanco, SemEnvio
  <2>5. RenovaRecusado'
    BY <1>0, <2>2, <2>3, <2>4 DEF RenovaRecusado, Headers, Gerados
  <2> QED
    BY <1>1, <2>3, <2>5
<1>3. CASE LerNsaNovo \/ GravarNsaNovo
  <2>1. /\ UNCHANGED headers /\ renovacao'.header = renovacao.header
        /\ renovacao.passo # "fora"
    BY <1>0, <1>3 DEF LerNsaNovo, GravarNsaNovo, TipoRenovacao
  <2>2. RenovaRecusado'
    BY <1>0, <2>1 DEF Banco, RenovaRecusado, Headers, Gerados
  <2> QED
    BY <1>1, <2>1, <2>2
<1>4. CASE Reabrir
  <2>i. PICK i : i = renovacao.header
    OBVIOUS
  <2>1. /\ renovacao.passo = "salvar" /\ renovacao'.passo = "fora"
        /\ headers' = [headers EXCEPT ![i] = [status |-> "remessaGerado",
                                              nsa |-> renovacao.nsa]]
    BY <1>4, <2>i DEF Reabrir, SemRenovacao
  <2>2. i \in Headers /\ i \notin Gerados /\ headers[i].nsa \in recusados
    BY <2>1, <2>i DEF Banco, RenovaRecusado
  <2>3. /\ Headers' = Headers
        /\ headers'[i].nsa = renovacao.nsa /\ headers'[i].status = "remessaGerado"
        /\ \A k \in Headers : k # i => headers'[k] = headers[k]
    BY <2>1, <2>2 DEF Headers
  <2>4. Gerados' = Gerados \cup {i}
    BY <2>2, <2>3 DEF Gerados, Headers
  <2>5. \A k \in Headers : k # i => /\ Pedida(k)' = Pedida(k) /\ Recusada(k)' = Recusada(k)
                                    /\ NaoPedida(k)' = NaoPedida(k)
    BY <1>0, <1>l, <2>3 DEF Pedida, Recusada, NaoPedida
  <2>6. NaoPedida(i)'
    <3>1. renovacao.nsa \notin recusados
      BY <2>1 DEF Numeros, NumerosDistintos
    <3>2. Pedida(i) \/ Recusada(i)
      BY <2>2 DEF Banco, HeadersConferem
    <3>3. \A h \in Linhas(i) : pedidos[h] = 0
      BY <2>2, <3>2 DEF Pedida, Recusada
    <3> QED
      BY <1>0, <1>l, <2>3, <3>1, <3>3 DEF NaoPedida
  <2>7. EnvioInteiro'
    <3>1. ASSUME NEW r \in Remetentes, remetente[r].passo # "fora",
                 NEW k, k = remetente[r].header
          PROVE  /\ inacabados = {} /\ k \in Gerados'
                 /\ remetente[r].nsa = headers'[k].nsa
                 /\ remetente[r].linhas = Linhas(k)
                 /\ NoBanco(r) => Pedida(k)' \/ Recusada(k)'
      <4>1. /\ inacabados = {} /\ k \in Gerados /\ k \in Headers
            /\ remetente[r].nsa = headers[k].nsa
            /\ remetente[r].linhas = Linhas(k)
            /\ NoBanco(r) => Pedida(k) \/ Recusada(k)
        BY <3>1, DoRemetente
      <4>2. k # i
        BY <2>2, <4>1
      <4> QED
        BY <2>3, <2>4, <2>5, <4>1, <4>2
    <3>2. \A r \in Remetentes : remetente[r].passo = "fora" => remetente[r] = SemEnvio
      BY DEF Banco, EnvioInteiro
    <3> QED
      BY <1>0, <1>l, <3>1, <3>2 DEF EnvioInteiro
  <2>8. HeadersConferem'
    BY <1>0, <1>l, <2>3, <2>4, <2>5, <2>6 DEF Banco, HeadersConferem
  <2>9. PreparaNoAberto' /\ RenovaRecusado'
    BY <1>0, <2>1, <2>4 DEF Banco, PreparaNoAberto, RenovaRecusado
  <2> QED
    BY <1>v, <2>7, <2>8, <2>9 DEF Banco
<1> QED
  BY <1>2, <1>3, <1>4

\* A restart does not fall between an upload and its header.
LEMMA EnvioMantidoReinicio ==
    ASSUME InvLivro, Numeros, Banco, TypeOK', EnvioDisciplinado, Reiniciar
    PROVE  Numeros' /\ Banco'
<1>1. /\ UNCHANGED <<historico, detalhe, headers, nsa, pedidos, recusados, inacabados>>
      /\ \A p \in Preparadores : preparo'[p] = SemPreparo
      /\ \A r \in Remetentes : remetente'[r] = SemEnvio /\ ~NoBanco(r)
      /\ renovacao'.passo = "fora"
  BY DEF Reiniciar, db_vars, banco_vars, EnvioDisciplinado, NoBanco, SemRenovacao
<1>2. SemPreparo.passo = "fora" /\ SemPreparo.faltam = {} /\ SemPreparo.atual = Ninguem
  BY DEF SemPreparo
<1>3. Numeros'
  BY <1>1, <1>2, NumerosQuietos
<1>4. /\ Gerados' = Gerados /\ Headers' = Headers
      /\ \A i : /\ Linhas(i)' = Linhas(i) /\ Pedida(i)' = Pedida(i)
                /\ Recusada(i)' = Recusada(i) /\ NaoPedida(i)' = NaoPedida(i)
  BY <1>1 DEF Gerados, Headers, Linhas, Pedida, Recusada, NaoPedida
<1>5. HeadersConferem'
  <2>1. \A i : \A h \in Linhas(i) : h # Ninguem
    BY PreparoAssumption DEF Linhas
  <2> QED
    BY <1>1, <1>2, <1>4, <2>1 DEF Banco, HeadersConferem
<1>6. EnvioInteiro' /\ PreparaNoAberto' /\ RenovaRecusado' /\ ParadoVazio'
  BY <1>1, <1>2 DEF EnvioInteiro, PreparaNoAberto, RenovaRecusado, ParadoVazio, SemEnvio
<1>7. SemDetalheNaoPedida'
  BY <1>1 DEF Banco, SemDetalheNaoPedida
<1> QED
  BY <1>3, <1>5, <1>6, <1>7 DEF Banco

LEMMA EnvioMantido ==
    ASSUME InvEnvio, EnvioDisciplinado, [Next]_vars, [nsa' > nsa]_nsa PROVE InvEnvio'
<1>0. InvLivro /\ Numeros /\ Banco /\ InvLivro' /\ TypeOK'
  BY LivroMantido DEF InvEnvio, EnvioDisciplinado, InvLivro
<1>1. CASE \E p \in Preparadores : Preparar(p)
  BY <1>0, <1>1, NumerosMantidosPreparo, BancoMantidoPreparo DEF InvEnvio
<1>2. CASE \E r \in Remetentes : Enviar(r)
  BY <1>0, <1>2, NumerosMantidosEnvio, BancoMantidoEnvio DEF InvEnvio
<1>3. CASE (\E n \in recusados : RenovarNsaRemessa(n)) \/ LerNsaNovo \/ GravarNsaNovo
             \/ Reabrir
  BY <1>0, <1>3, NumerosMantidosRenovacao, BancoMantidoRenovacao DEF InvEnvio
<1>4. CASE Reiniciar
  BY <1>0, <1>4, EnvioMantidoReinicio DEF InvEnvio
<1>5. CASE UNCHANGED vars
  <2>1. UNCHANGED <<historico, detalhe, headers, nsa, pedidos, recusados, preparo, remetente,
                    renovacao, inacabados>>
    BY <1>5 DEF vars, db_vars, banco_vars
  <2>2. Numeros'
    BY <1>0, <2>1, NumerosQuietos
  <2>3. /\ Gerados' = Gerados /\ Headers' = Headers
        /\ \A i : /\ Linhas(i)' = Linhas(i) /\ Pedida(i)' = Pedida(i)
                  /\ Recusada(i)' = Recusada(i) /\ NaoPedida(i)' = NaoPedida(i)
        /\ \A r : NoBanco(r)' = NoBanco(r)
    BY <2>1 DEF Gerados, Headers, Linhas, Pedida, Recusada, NaoPedida, NoBanco
  <2>4. EnvioInteiro' /\ HeadersConferem'
    BY <1>0, <2>1, <2>3 DEF Banco, EnvioInteiro, HeadersConferem
  <2>5. SemDetalheNaoPedida' /\ PreparaNoAberto' /\ RenovaRecusado' /\ ParadoVazio'
    BY <1>0, <2>1, <2>3
       DEF Banco, SemDetalheNaoPedida, PreparaNoAberto, RenovaRecusado, ParadoVazio
  <2> QED
    BY <1>0, <2>2, <2>4, <2>5 DEF InvEnvio, Banco
<1> QED
  BY <1>1, <1>2, <1>3, <1>4, <1>5 DEF Next

LEMMA EnvioInicial == ASSUME Init PROVE InvEnvio
<1>1. InvLivro
  BY LivroInicial
<1>2. /\ headers = <<>> /\ recusados = {} /\ renovacao = SemRenovacao
      /\ \A p \in Preparadores : preparo[p] = SemPreparo
      /\ \A r \in Remetentes : remetente[r] = SemEnvio
      /\ \A h \in Pagamentos : pedidos[h] = 0
  BY DEF Init
<1>3. /\ SemPreparo.passo = "fora" /\ SemEnvio.passo = "fora" /\ SemRenovacao.passo = "fora"
      /\ Headers = {} /\ ComNumero = {} /\ Gravando = {}
  BY <1>2 DEF SemPreparo, SemEnvio, SemRenovacao, Headers, ComNumero, Gravando
<1>4. Numeros
  BY <1>2, <1>3 DEF Numeros, NumerosDoContador, ProximoLido, NumerosDistintos
<1>5. Banco
  BY <1>2, <1>3 DEF Banco, EnvioInteiro, HeadersConferem, SemDetalheNaoPedida,
                    PreparaNoAberto, RenovaRecusado, ParadoVazio
<1> QED
  BY <1>1, <1>4, <1>5 DEF InvEnvio

\* Where each row with a DetalheA stands.
LEMMA LinhaNoHeader ==
    ASSUME InvEnvio, NEW h \in Pagamentos, detalhe[h] # 0
    PROVE  detalhe[h] \in Headers /\ h \in Linhas(detalhe[h])
<1>1. TypeOK
  BY DEF InvEnvio, InvLivro
<1>2. detalhe[h] \in 0..Len(headers)
  BY <1>1 DEF TypeOK
<1> QED
  BY <1>1, <1>2, HeadersTipo DEF Headers, Linhas

LEMMA EnvioConfere ==
    ASSUME InvEnvio
    PROVE  PedidoUmaVez /\ NadaFicaParaTras /\ AbertoNaoEnviado /\ NsaUnico
<1>b. Banco /\ Numeros
  BY DEF InvEnvio
<1>1. ASSUME NEW h \in Pagamentos, detalhe[h] # 0
      PROVE  \/ NaoPedida(detalhe[h])
             \/ /\ Pedida(detalhe[h]) \/ Recusada(detalhe[h])
                /\ \/ detalhe[h] \notin Gerados
                   \/ \E r \in Remetentes : NoBanco(r)
  <2>1. detalhe[h] \in Headers
    BY <1>1, LinhaNoHeader
  <2>2. CASE \E r \in Remetentes : NoBanco(r) /\ remetente[r].header = detalhe[h]
    <3>1. PICK r \in Remetentes : NoBanco(r) /\ remetente[r].header = detalhe[h]
      BY <2>2
    <3>2. remetente[r].passo # "fora"
      BY <3>1 DEF NoBanco
    <3> QED
      BY <1>b, <3>1, <3>2, DoRemetente
  <2> QED
    BY <1>b, <2>1, <2>2 DEF Banco, HeadersConferem
<1>2. PedidoUmaVez
  <2> SUFFICES ASSUME NEW h \in Pagamentos PROVE pedidos[h] <= 1
    BY DEF PedidoUmaVez
  <2>1. CASE detalhe[h] = 0
    BY <1>b, <2>1 DEF Banco, SemDetalheNaoPedida
  <2>2. CASE detalhe[h] # 0
    <3>1. h \in Linhas(detalhe[h])
      BY <2>2, LinhaNoHeader
    <3>2. pedidos[h] = 0 \/ pedidos[h] = 1
      BY <1>1, <2>2, <3>1 DEF NaoPedida, Pedida, Recusada
    <3> QED
      BY <3>2
  <2> QED
    BY <2>1, <2>2
<1>3. NadaFicaParaTras
  <2> SUFFICES ASSUME NEW h \in Pagamentos, detalhe[h] # 0,
                      headers[detalhe[h]].status = "remessaEnviado"
               PROVE  pedidos[h] > 0 \/ headers[detalhe[h]].nsa \in recusados
    BY DEF NadaFicaParaTras
  <2>1. detalhe[h] \in Headers /\ h \in Linhas(detalhe[h])
    BY LinhaNoHeader
  <2>2. detalhe[h] \notin Gerados
    BY DEF Gerados
  <2>3. Pedida(detalhe[h]) \/ Recusada(detalhe[h])
    BY <1>b, <2>1, <2>2 DEF Banco, HeadersConferem
  <2> QED
    BY <2>1, <2>3 DEF Pedida, Recusada
<1>4. AbertoNaoEnviado
  <2> SUFFICES ASSUME NEW h \in Pagamentos, detalhe[h] # 0,
                      headers[detalhe[h]].status = "remessaGerado",
                      \A r \in Remetentes : Enviando(r, "fora")
               PROVE  pedidos[h] = 0
    BY DEF AbertoNaoEnviado
  <2>1. detalhe[h] \in Headers /\ h \in Linhas(detalhe[h])
    BY LinhaNoHeader
  <2>2. detalhe[h] \in Gerados
    BY <2>1 DEF Gerados, Headers
  <2>3. NaoPedida(detalhe[h])
    BY <1>b, <2>1, <2>2 DEF Banco, HeadersConferem, NoBanco, Enviando
  <2> QED
    BY <2>1, <2>3 DEF NaoPedida
<1>5. NsaUnico
  <2>1. \A i, j \in DOMAIN headers : headers[i].nsa = headers[j].nsa => i = j
    BY <1>b DEF Numeros, NumerosDistintos, Headers
  <2>2. \A i \in Gerados : \/ headers[i].nsa \notin recusados
                           \/ \E r \in Remetentes : remetente[r].header = i
    BY <1>b DEF Banco, HeadersConferem, NaoPedida, Gerados, Headers
  <2> QED
    BY <2>1, <2>2 DEF NsaUnico
<1> QED
  BY <1>2, <1>3, <1>4, <1>5

\* What a theorem about sending supposes of the counter: any__cnab_current_nsa
\* does not go round.  When it does, the numbers of the files the bank rejected
\* 999999 files ago come again.
ContadorNaoVolta == [][nsa' > nsa]_nsa

LEMMA EnvioSempre ==
    ASSUME EnvioDisciplinado PROVE Spec /\ ContadorNaoVolta => []InvEnvio
<1>1. Init => InvEnvio
  BY EnvioInicial
<1>2. InvEnvio /\ [Next]_vars /\ [nsa' > nsa]_nsa => InvEnvio'
  BY EnvioMantido
<1> QED
  BY <1>1, <1>2, PTL DEF Spec, ContadorNaoVolta

\* With one request to send at a time, no file sent while a preparo is
\* unfinished, and neither a restart nor a failed copy between the upload and
\* the save of the header, the bank is asked for each payment at most once,
\* whatever it rejects and is renewed.
THEOREM PedidoUmaVezSempre ==
    ASSUME EnvioDisciplinado PROVE Spec /\ ContadorNaoVolta => []PedidoUmaVez
<1>1. InvEnvio => PedidoUmaVez
  BY EnvioConfere
<1> QED
  BY <1>1, EnvioSempre, PTL

\* Under the same conditions no row stays in a header that was sent without
\* the bank having it, but for the files the bank rejected.
THEOREM NadaFicaParaTrasSempre ==
    ASSUME EnvioDisciplinado PROVE Spec /\ ContadorNaoVolta => []NadaFicaParaTras
<1>1. InvEnvio => NadaFicaParaTras
  BY EnvioConfere
<1> QED
  BY <1>1, EnvioSempre, PTL

\* And the header still open has only rows the bank was not asked for.
THEOREM AbertoNaoEnviadoSempre ==
    ASSUME EnvioDisciplinado PROVE Spec /\ ContadorNaoVolta => []AbertoNaoEnviado
<1>1. InvEnvio => AbertoNaoEnviado
  BY EnvioConfere
<1> QED
  BY <1>1, EnvioSempre, PTL

\* And no two files have one number, which getNextNSA reads and saves in two
\* steps, nor does a file that waits have one the bank rejected.
THEOREM NsaUnicoSempre ==
    ASSUME EnvioDisciplinado PROVE Spec /\ ContadorNaoVolta => []NsaUnico
<1>1. InvEnvio => NsaUnico
  BY EnvioConfere
<1> QED
  BY <1>1, EnvioSempre, PTL

-----------------------------------------------------------------------------
(* A sum over the rows, one of which changes.                              *)

\* it is the iteration over the subsets of S that SumFunction chooses.
SomaDe(f, S, it) ==
    it = [s \in SUBSET S |->
             IF s = {} THEN 0
             ELSE f[CHOOSE x \in s : TRUE] + it[s \ {CHOOSE x \in s : TRUE}]]

LEMMA SomaEscolhida ==
    ASSUME NEW f
    PROVE  SumFunction(f) = (CHOOSE it : SomaDe(f, DOMAIN f, it))[DOMAIN f]
BY DEF SumFunction, SumFunctionOnSet, FoldFunctionOnSet, MapThenFoldSet, SomaDe

\* A set of naturals has a least one.
LEMMA MenorNatural ==
    ASSUME NEW T, T \subseteq Nat, T # {} PROVE \E n \in T : \A m \in T : n <= m
<1>1. \E n \in T : \A m \in T : ~(<<m, n>> \in OpToRel(<, Nat))
  BY NatLessThanWellFounded, WFMin
<1>2. PICK n \in T : \A m \in T : ~(<<m, n>> \in OpToRel(<, Nat))
  BY <1>1
<1>3. \A m \in T : ~(m < n)
  BY <1>2 DEF OpToRel
<1> QED
  BY <1>3

\* What holds of no row and of a set whenever it holds of the set without a
\* row of it holds of every subset of a finite set.
LEMMA PorLinhas ==
    ASSUME NEW S, IsFiniteSet(S), NEW B, {} \in B,
           \A s \in SUBSET S : s # {} /\ (\A x \in s : s \ {x} \in B) => s \in B
    PROVE  SUBSET S \subseteq B
<1> SUFFICES ASSUME NEW c \in SUBSET S, c \notin B PROVE FALSE
  OBVIOUS
<1> DEFINE T == {n \in Nat : \E s \in SUBSET S : s \notin B /\ Cardinality(s) = n}
<1>1. \A s \in SUBSET S : IsFiniteSet(s) /\ Cardinality(s) \in Nat
  BY FS_Subset, FS_CardinalityType
<1>2. T # {} /\ T \subseteq Nat
  BY <1>1
<1>3. PICK n \in T : \A m \in T : n <= m
  <2> HIDE DEF T
  <2> QED
    BY <1>2, MenorNatural
<1>4. PICK s \in SUBSET S : s \notin B /\ Cardinality(s) = n
  BY <1>3
<1>5. \A x \in s : s \ {x} \in B
  <2> SUFFICES ASSUME NEW x \in s, s \ {x} \notin B PROVE FALSE
    OBVIOUS
  <2>1. Cardinality(s \ {x}) = Cardinality(s) - 1
    BY <1>1, <1>4, FS_RemoveElement
  <2>2. s \ {x} \in SUBSET S /\ Cardinality(s \ {x}) \in Nat
    BY <1>1, <1>4
  <2>3. Cardinality(s \ {x}) \in T
    BY <2>2
  <2>4. n \in Nat /\ n <= Cardinality(s \ {x})
    BY <1>2, <1>3, <2>3
  <2> HIDE DEF T
  <2> QED
    BY <1>4, <2>1, <2>2, <2>4
<1> QED
  BY <1>4, <1>5

\* The sum of a subset, from the sum of the subset without the row it chooses.
UmaLinha(s) == CHOOSE x \in s : TRUE

\* Such an iteration exists over a finite set: one over the sets up to each
\* size extends the one before.
SomaAte(f, S, n, it) ==
    it = [s \in {t \in SUBSET S : Cardinality(t) <= n} |->
             IF s = {} THEN 0 ELSE f[UmaLinha(s)] + it[s \ {UmaLinha(s)}]]

LEMMA SomaExiste ==
    ASSUME NEW S, IsFiniteSet(S), NEW f
    PROVE  \E it : SomaDe(f, S, it)
<1> DEFINE T == {n \in Nat : ~\E it : SomaAte(f, S, n, it)}
<1>1. \A s \in SUBSET S : /\ IsFiniteSet(s) /\ Cardinality(s) \in Nat
                          /\ Cardinality(s) <= Cardinality(S)
                          /\ Cardinality(s) = 0 => s = {}
                          /\ \A x \in s : Cardinality(s \ {x}) = Cardinality(s) - 1
  BY FS_Subset, FS_CardinalityType, FS_EmptySet, FS_RemoveElement
<1>2. \A s : s # {} => UmaLinha(s) \in s
  BY DEF UmaLinha
<1>3. T = {}
  <2> SUFFICES ASSUME T # {} PROVE FALSE
    OBVIOUS
  <2>1. PICK n \in T : \A m \in T : n <= m
    <3>1. T \subseteq Nat
      OBVIOUS
    <3> HIDE DEF T
    <3> QED
      BY <3>1, MenorNatural
  <2> SUFFICES \E it : SomaAte(f, S, n, it)
    OBVIOUS
  <2>2. CASE n = 0
    <3> DEFINE it == [s \in {t \in SUBSET S : Cardinality(t) <= n} |-> 0]
    <3>1. \A s \in {t \in SUBSET S : Cardinality(t) <= n} : s = {}
      BY <1>1, <2>2
    <3>2. SomaAte(f, S, n, it)
      BY <3>1 DEF SomaAte
    <3> QED
      BY <3>2
  <2>3. CASE n # 0
    <3>1. n - 1 \in Nat /\ n - 1 \notin T
      BY <2>1, <2>3
    <3>2. PICK ja : SomaAte(f, S, n - 1, ja)
      BY <3>1
    <3> DEFINE D == {t \in SUBSET S : Cardinality(t) <= n}
               A == {t \in SUBSET S : Cardinality(t) <= n - 1}
               it == [s \in D |-> IF s = {} THEN 0
                                  ELSE f[UmaLinha(s)] + ja[s \ {UmaLinha(s)}]]
    <3>3. n \in Nat
      BY <2>1
    <3>4. \A s \in D : s # {} => s \ {UmaLinha(s)} \in A
      BY <1>1, <1>2, <3>3
    <3>5. A \subseteq D
      BY <1>1, <3>3
    <3>6. \A s \in A : ja[s] = IF s = {} THEN 0 ELSE f[UmaLinha(s)] + ja[s \ {UmaLinha(s)}]
      BY <3>2 DEF SomaAte
    <3> HIDE DEF A
    <3>7. \A s \in A : it[s] = ja[s]
      BY <3>5, <3>6
    <3>8. it = [s \in D |-> IF s = {} THEN 0 ELSE f[UmaLinha(s)] + it[s \ {UmaLinha(s)}]]
      <4>1. \A s \in D : s # {} => it[s \ {UmaLinha(s)}] = ja[s \ {UmaLinha(s)}]
        BY <3>4, <3>7
      <4> HIDE DEF D
      <4> QED
        BY <4>1
    <3>9. SomaAte(f, S, n, it)
      <4> HIDE DEF it
      <4> QED
        BY <3>8 DEF SomaAte
    <3> QED
      BY <3>9
  <2> QED
    BY <2>2, <2>3
<1>4. Cardinality(S) \in Nat
  BY FS_CardinalityType
<1>5. PICK it : SomaAte(f, S, Cardinality(S), it)
  BY <1>3, <1>4
<1>6. {t \in SUBSET S : Cardinality(t) <= Cardinality(S)} = SUBSET S
  BY <1>1
<1>7. SomaDe(f, S, it)
  BY <1>5, <1>6 DEF SomaAte, SomaDe, UmaLinha
<1> QED
  BY <1>7

\* it gives the sum of f over each subset of S.
Itera(f, S, it) ==
    /\ it[{}] = 0
    /\ \A s \in SUBSET S :
          s # {} => UmaLinha(s) \in s /\ it[s] = f[UmaLinha(s)] + it[s \ {UmaLinha(s)}]

\* The sum is that of one such iteration.
LEMMA SomaIterada ==
    ASSUME NEW S, IsFiniteSet(S), NEW f, DOMAIN f = S
    PROVE  \E it : SumFunction(f) = it[S] /\ Itera(f, S, it)
<1> DEFINE it == CHOOSE i : SomaDe(f, S, i)
<1>1. SumFunction(f) = it[S]
  BY SomaEscolhida
<1>2. SomaDe(f, S, it)
  BY SomaExiste
<1>3. \A s : s # {} => UmaLinha(s) \in s
  BY DEF UmaLinha
<1> HIDE DEF it
<1>4. /\ it[{}] = 0
      /\ \A s \in SUBSET S : s # {} => it[s] = f[UmaLinha(s)] + it[s \ {UmaLinha(s)}]
  BY <1>2 DEF SomaDe, UmaLinha
<1> QED
  BY <1>1, <1>3, <1>4 DEF Itera

\* The sum of the values at zero.
LEMMA SomaZero ==
    ASSUME NEW S, IsFiniteSet(S)
    PROVE  SumFunction([x \in S |-> 0]) = 0
<1> DEFINE f == [x \in S |-> 0]
<1>1. PICK it : SumFunction(f) = it[S] /\ Itera(f, S, it)
  BY SomaIterada
<1> DEFINE B == {s \in SUBSET S : it[s] = 0}
<1>2. {} \in B
  BY <1>1 DEF Itera
<1>3. ASSUME NEW s \in SUBSET S, s # {}, \A x \in s : s \ {x} \in B PROVE s \in B
  <2>x. PICK x : x = UmaLinha(s)
    OBVIOUS
  <2>1. x \in s /\ x \in S /\ it[s] = f[x] + it[s \ {x}] /\ it[s \ {x}] = 0
    BY <1>1, <1>3, <2>x DEF Itera
  <2> QED
    BY <2>1
<1>4. SUBSET S \subseteq B
  <2> HIDE DEF B
  <2> QED
    BY <1>2, <1>3, PorLinhas
<1> QED
  BY <1>1, <1>4

\* A row's value changes the sum by what it changes, and a sum of numbers is
\* a number.
LEMMA SomaTrocada ==
    ASSUME NEW S, IsFiniteSet(S), NEW f \in [S -> Int], NEW h \in S, NEW v \in Int
    PROVE  /\ SumFunction(f) \in Int
           /\ SumFunction([f EXCEPT ![h] = v]) = SumFunction(f) - f[h] + v
<1> DEFINE g == [f EXCEPT ![h] = v]
<1>1. PICK a : SumFunction(f) = a[S] /\ Itera(f, S, a)
  <2>1. DOMAIN f = S
    OBVIOUS
  <2> QED
    BY <2>1, SomaIterada
<1>2. PICK b : SumFunction(g) = b[S] /\ Itera(g, S, b)
  <2>1. DOMAIN g = S
    OBVIOUS
  <2> HIDE DEF g
  <2> QED
    BY <2>1, SomaIterada
<1> DEFINE B == {s \in SUBSET S : /\ a[s] \in Int
                                  /\ b[s] = a[s] + (IF h \in s THEN v - f[h] ELSE 0)}
<1>3. {} \in B
  BY <1>1, <1>2 DEF Itera
<1>4. ASSUME NEW s \in SUBSET S, s # {}, \A x \in s : s \ {x} \in B PROVE s \in B
  <2>x. PICK x : x = UmaLinha(s)
    OBVIOUS
  <2>1. /\ x \in s /\ x \in S /\ f[x] \in Int /\ f[h] \in Int
        /\ a[s] = f[x] + a[s \ {x}] /\ b[s] = g[x] + b[s \ {x}]
    BY <1>1, <1>2, <1>4, <2>x DEF Itera
  <2>2. /\ a[s \ {x}] \in Int
        /\ b[s \ {x}] = a[s \ {x}] + (IF h \in s \ {x} THEN v - f[h] ELSE 0)
    BY <1>4, <2>1
  <2>3. g[x] = IF x = h THEN v ELSE f[x]
    BY <2>1
  <2> HIDE DEF g
  <2>4. a[s] \in Int /\ b[s] = a[s] + (IF h \in s THEN v - f[h] ELSE 0)
    <3>1. CASE x = h
      BY <2>1, <2>2, <2>3, <3>1
    <3>2. CASE x # h /\ h \in s
      BY <2>1, <2>2, <2>3, <3>2
    <3>3. CASE x # h /\ h \notin s
      BY <2>1, <2>2, <2>3, <3>3
    <3> QED
      BY <3>1, <3>2, <3>3
  <2> QED
    BY <2>4
<1>5. SUBSET S \subseteq B
  <2> HIDE DEF B
  <2> QED
    BY <1>3, <1>4, PorLinhas
<1>6. a[S] \in Int /\ b[S] = a[S] + (v - f[h]) /\ f[h] \in Int
  BY <1>5
<1> HIDE DEF g
<1>7. SumFunction(f) \in Int /\ SumFunction(g) = SumFunction(f) - f[h] + v
  BY <1>1, <1>2, <1>6
<1> QED
  BY <1>7 DEF g

-----------------------------------------------------------------------------
(* What is owed.                                                           *)

\* The steps before a preparo reads what is owed.
AntesDeLer == {"fora", "header", "nsa", "gravarNsa", "salvarHeader", "resolver"}

\* What a preparo has in its hands, and knows of it.
MaoConfere(p) ==
    /\ preparo[p].passo = "fora" => preparo[p] = SemPreparo
    /\ preparo[p].passo \notin NaLinha => preparo[p].atual = Ninguem /\ preparo[p].desconto = 0
    /\ preparo[p].passo \in NaLinha =>
           preparo[p].atual \in Pagamentos /\ preparo[p].atual \notin preparo[p].faltam
    /\ preparo[p].passo \in AntesDeLer => preparo[p].lido = 0
    /\ preparo[p].passo = "debitar" =>
           preparo[p].atual \in Devedores /\ preparo[p].lido > 0 /\ preparo[p].desconto = 0
    /\ preparo[p].desconto > 0 => preparo[p].atual \in Devedores /\ preparo[p].lido > 0

\* Of the rows of who owes it has at most one ahead, which is still Criado and
\* is as the preparo saw it.
LinhaConfere(p) ==
    /\ preparo[p].lido > 0 => \A g, h \in ADescontar(p) : g = h
    /\ \A h \in ADescontar(p) : historico[h] = Criado
    /\ preparo[p].atual \in Devedores =>
           /\ preparo[p].passo \in {"debitar", "detalhe"} =>
                  (preparo[p].existe <=> detalhe[preparo[p].atual] # 0)
           /\ preparo[p].passo = "status" =>
                  desconto[preparo[p].atual] = preparo[p].desconto

\* Until it debits, what it read is what is owed.
LeituraConfere(p) ==
    ComSaldoLido(p) /\ (preparo[p].atual \notin Devedores \/ preparo[p].passo = "debitar") =>
        preparo[p].lido = saldo

\* Nobody has the row of another, nor knows what is owed with another.
CadaUmComASua ==
    \A p, q \in Preparadores : p # q =>
        ADescontar(p) \cap ADescontar(q) = {} /\ ~(ComSaldoLido(p) /\ ComSaldoLido(q))

\* A row still Criado has a discount only between its DetalheA and its status.
DescontoDeQuem ==
    \A h \in Pagamentos :
        desconto[h] = 0
          \/ /\ h \in Devedores
             /\ historico[h] = Criado =>
                    \E p \in Preparadores : preparo[p].passo = "status" /\ preparo[p].atual = h

\* The debit was saved and the DetalheA does not tell of it yet.
Pendente(p) == preparo[p].passo = "detalhe" /\ preparo[p].desconto > 0

\* What is owed, what was discounted and what is about to be are the debt.
ContaFecha ==
    /\ \A p \in Preparadores :
           Pendente(p) => saldo + SumFunction(desconto) + preparo[p].desconto = Divida
    /\ (\A p \in Preparadores : ~Pendente(p)) => saldo + SumFunction(desconto) = Divida

InvDivida ==
    /\ TypeOK
    /\ \A p \in Preparadores : MaoConfere(p) /\ LinhaConfere(p) /\ LeituraConfere(p)
    /\ CadaUmComASua
    /\ DescontoDeQuem
    /\ ContaFecha

\* Nothing of the debt is left to luck: one row of who owes at a time, and no
\* end of a preparo nor rejected write between a debit and its row.
DescontoDisciplinado ==
    Riscos \cap {"doisDescontos", "mesmaLinha", "cairAoDebitar", "debitoPerdido"} = {}

LEMMA NoMaximoUma ==
    ASSUME NEW S, IsFiniteSet(S), Cardinality(S) <= 1
    PROVE  \A g, h \in S : g = h
<1>1. Cardinality(S) = 0 \/ Cardinality(S) = 1
  BY FS_CardinalityType
<1> QED
  BY <1>1, FS_EmptySet, FS_Singleton

\* What the others have stays as it was.
LEMMA AsOutrasMaos ==
    ASSUME InvDivida, NEW p \in Preparadores, NEW nova, Anotar(p, nova),
           NEW q \in Preparadores, q # p,
           \A h \in ADescontar(q) : historico'[h] = historico[h] /\ detalhe'[h] = detalhe[h]
                                      /\ desconto'[h] = desconto[h],
           ComSaldoLido(q) => UNCHANGED saldo
    PROVE  /\ MaoConfere(q)' /\ LinhaConfere(q)'
           /\ LeituraConfere(q)'
           /\ ADescontar(q)' = ADescontar(q) /\ ComSaldoLido(q)' = ComSaldoLido(q)
           /\ Pendente(q)' = Pendente(q) /\ preparo'[q] = preparo[q]
<1>1. preparo'[q] = preparo[q]
  BY PreparoTrocado DEF InvDivida
<1>2. ADescontar(q)' = ADescontar(q) /\ Pendente(q)' = Pendente(q)
  BY <1>1 DEF ADescontar, Pendente
<1>3. ComSaldoLido(q)' = ComSaldoLido(q)
  BY <1>1, <1>2 DEF ComSaldoLido, Preparando
<1>4. MaoConfere(q) /\ LinhaConfere(q) /\ LeituraConfere(q)
  BY DEF InvDivida
<1>5. MaoConfere(q)'
  BY <1>1, <1>4 DEF MaoConfere
<1>6. preparo[q].atual \in Devedores => preparo[q].atual \in ADescontar(q)
  BY DEF ADescontar
<1>7. LinhaConfere(q)'
  BY <1>1, <1>2, <1>4, <1>6 DEF LinhaConfere
<1>8. LeituraConfere(q)'
  BY <1>1, <1>3, <1>4 DEF LeituraConfere
<1> QED
  BY <1>1, <1>2, <1>3, <1>5, <1>7, <1>8

\* A step of a preparo that neither debits nor writes a row.
LEMMA DividaAnotada ==
    ASSUME InvDivida, TypeOK', NEW p \in Preparadores, NEW nova, Anotar(p, nova),
           UNCHANGED <<historico, detalhe, saldo, desconto>>,
           MaoConfere(p)', LinhaConfere(p)', LeituraConfere(p)',
           \A q \in Preparadores : q # p => ADescontar(p)' \cap ADescontar(q) = {},
           ComSaldoLido(p)' => \/ ComSaldoLido(p)
                               \/ \A q \in Preparadores : ~ComSaldoLido(q),
           ~Pendente(p), ~Pendente(p)',
           preparo[p].passo = "status" => preparo[p].desconto = 0
    PROVE  InvDivida'
<1>1. \A q \in Preparadores : q # p =>
         /\ MaoConfere(q)' /\ LinhaConfere(q)' /\ LeituraConfere(q)'
         /\ ADescontar(q)' = ADescontar(q) /\ ComSaldoLido(q)' = ComSaldoLido(q)
         /\ Pendente(q)' = Pendente(q) /\ preparo'[q] = preparo[q]
  BY AsOutrasMaos
<1>2. CadaUmComASua'
  BY <1>1 DEF InvDivida, CadaUmComASua
<1>3. DescontoDeQuem'
  <2> SUFFICES ASSUME NEW h \in Pagamentos, desconto[h] # 0
               PROVE  /\ h \in Devedores
                      /\ historico[h] = Criado =>
                            \E q \in Preparadores : preparo'[q].passo = "status"
                                                      /\ preparo'[q].atual = h
    BY DEF DescontoDeQuem
  <2>1. /\ h \in Devedores
        /\ historico[h] = Criado =>
              \E q \in Preparadores : preparo[q].passo = "status" /\ preparo[q].atual = h
    BY DEF InvDivida, DescontoDeQuem
  <2>2. ~(preparo[p].passo = "status" /\ preparo[p].atual = h)
    BY <2>1 DEF InvDivida, LinhaConfere
  <2> QED
    BY <1>1, <2>1, <2>2
<1>4. ContaFecha'
  BY <1>1 DEF InvDivida, ContaFecha
<1> QED
  BY <1>1, <1>2, <1>3, <1>4 DEF InvDivida

LEMMA DividaMantidaPreparo ==
    ASSUME InvDivida, TypeOK', DescontoDisciplinado, IsFiniteSet(Pagamentos),
           NEW p \in Preparadores, Preparar(p)
    PROVE  InvDivida'
<1>0. /\ TypeOK /\ preparo[p] \in TipoPreparo(Len(headers))
      /\ Ninguem \notin Devedores /\ Devedores \subseteq Pagamentos
  <2>1. TypeOK
    BY DEF InvDivida
  <2>2. preparo[p] \in TipoPreparo(Len(headers))
    BY <2>1 DEF TypeOK, TipoPreparo
  <2> QED
    BY <2>1, <2>2, PreparoAssumption
<1>t. preparo[p] \in TipoPreparo(Len(headers))
  BY <1>0
<1>m. \A nova : Anotar(p, nova) => preparo'[p] = nova
  BY <1>0, PreparoTrocado
<1>i. /\ MaoConfere(p) /\ LinhaConfere(p) /\ LeituraConfere(p)
      /\ \A q \in Preparadores : q # p =>
            ADescontar(p) \cap ADescontar(q) = {} /\ ~(ComSaldoLido(p) /\ ComSaldoLido(q))
  BY DEF InvDivida, CadaUmComASua
<1>s. /\ SemPreparo.passo = "fora" /\ SemPreparo.faltam = {} /\ SemPreparo.atual = Ninguem
      /\ SemPreparo.lido = 0 /\ SemPreparo.desconto = 0
  BY DEF SemPreparo
<1>f. ASSUME Anotar(p, SemPreparo), UNCHANGED <<historico, detalhe, saldo, desconto>>,
             ~Pendente(p), preparo[p].passo = "status" => preparo[p].desconto = 0
      PROVE  InvDivida'
  <2>1. preparo'[p] = SemPreparo
    BY <1>f, <1>m
  <2>2. ADescontar(p)' = {} /\ ~ComSaldoLido(p)' /\ ~Pendente(p)'
    BY <1>0, <1>s, <2>1 DEF ADescontar, ComSaldoLido, Preparando, Pendente
  <2>3. MaoConfere(p)' /\ LinhaConfere(p)' /\ LeituraConfere(p)'
    BY <1>0, <1>s, <2>1, <2>2
       DEF MaoConfere, LinhaConfere, LeituraConfere, NaLinha, AntesDeLer
  <2> QED
    BY <1>f, <2>2, <2>3, DividaAnotada
<1>1. CASE PrepararRemessa(p)
  <2>1. /\ UNCHANGED <<historico, detalhe, saldo, desconto>> /\ preparo[p].passo = "fora"
        /\ \A q \in Preparadores : Selecionados(p) \cap ADescontar(q) = {}
    BY <1>1 DEF PrepararRemessa, SoPreparo, db_vars, indevido_vars, Preparando,
                DescontoDisciplinado
  <2>2. CASE Anotar(p, [SemPreparo EXCEPT !.passo = "header", !.faltam = Selecionados(p)])
    <3>1. /\ preparo'[p].passo = "header" /\ preparo'[p].faltam = Selecionados(p)
          /\ preparo'[p].atual = Ninguem /\ preparo'[p].lido = 0
          /\ preparo'[p].desconto = 0
      BY <1>m, <2>2 DEF SemPreparo
    <3>2. /\ ADescontar(p)' = Selecionados(p) \cap Devedores
          /\ ~ComSaldoLido(p)' /\ ~Pendente(p)' /\ ~Pendente(p)
      BY <1>0, <2>1, <3>1 DEF ADescontar, ComSaldoLido, Pendente
    <3>3. MaoConfere(p)' /\ LinhaConfere(p)' /\ LeituraConfere(p)'
      BY <1>0, <2>1, <3>1, <3>2
         DEF MaoConfere, LinhaConfere, LeituraConfere, NaLinha, AntesDeLer, Selecionados
    <3> QED
      BY <2>1, <2>2, <3>2, <3>3, DividaAnotada
  <2>3. CASE UNCHANGED preparo
    <3>1. Anotar(p, SemPreparo)
      BY <1>0, <1>i, <2>1, <2>3 DEF Anotar, TypeOK, MaoConfere
    <3> QED
      BY <1>f, <2>1, <3>1 DEF Pendente
  <2> QED
    BY <1>1, <2>2, <2>3 DEF PrepararRemessa
<1>2. CASE GerarHeaderArquivo(p) \/ LerNsa(p) \/ GravarNsa(p) \/ SalvarHeader(p)
  <2>1. UNCHANGED <<historico, detalhe, saldo, desconto>> /\ \E nova : Anotar(p, nova)
    BY <1>2 DEF GerarHeaderArquivo, LerNsa, GravarNsa, SalvarHeader, db_vars, indevido_vars
  <2>2. /\ preparo[p].passo \in AntesDeLer
        /\ preparo'[p].passo \in AntesDeLer \ {"fora"}
        /\ preparo'[p].faltam = preparo[p].faltam /\ preparo'[p].atual = preparo[p].atual
        /\ preparo'[p].lido = preparo[p].lido /\ preparo'[p].desconto = preparo[p].desconto
    <3>1. CASE GerarHeaderArquivo(p)
      BY <1>t, <1>m, <3>1 DEF GerarHeaderArquivo, TipoPreparo, Preparando, AntesDeLer
    <3>2. CASE LerNsa(p)
      BY <1>t, <1>m, <3>2 DEF LerNsa, TipoPreparo, Preparando, AntesDeLer
    <3>3. CASE GravarNsa(p)
      BY <1>t, <1>m, <3>3 DEF GravarNsa, TipoPreparo, Preparando, AntesDeLer
    <3>4. CASE SalvarHeader(p)
      BY <1>t, <1>m, <3>4 DEF SalvarHeader, TipoPreparo, Preparando, AntesDeLer
    <3> QED
      BY <1>2, <3>1, <3>2, <3>3, <3>4
  <2>3. preparo[p].passo \notin NaLinha /\ preparo'[p].passo \notin NaLinha
    BY <2>2 DEF AntesDeLer, NaLinha
  <2>4. /\ ADescontar(p)' = ADescontar(p) /\ ~ComSaldoLido(p)' /\ ~Pendente(p)' /\ ~Pendente(p)
    BY <1>i, <2>2 DEF ADescontar, ComSaldoLido, Pendente, MaoConfere, AntesDeLer
  <2>5. MaoConfere(p)' /\ LinhaConfere(p)' /\ LeituraConfere(p)'
    BY <1>i, <2>1, <2>2, <2>3, <2>4
       DEF MaoConfere, LinhaConfere, LeituraConfere, NaLinha, AntesDeLer
  <2> QED
    BY <1>i, <2>1, <2>2, <2>4, <2>5, DividaAnotada DEF AntesDeLer
<1>3. CASE LerIndevidos(p)
  <2>1. /\ UNCHANGED <<historico, detalhe, saldo, desconto>>
        /\ preparo[p].passo = "resolver"
        /\ Cardinality(ADescontar(p)) <= 1
        /\ ADescontar(p) # {} => \A q \in Preparadores : ~ComSaldoLido(q)
    BY <1>3 DEF LerIndevidos, db_vars, indevido_vars, Preparando, DescontoDisciplinado
  <2>2. /\ preparo'[p].passo = "ordem" /\ preparo'[p].faltam = preparo[p].faltam
        /\ preparo'[p].atual = preparo[p].atual /\ preparo'[p].desconto = preparo[p].desconto
        /\ preparo'[p].lido = IF ADescontar(p) = {} THEN 0 ELSE saldo
    BY <1>t, <1>m, <1>3 DEF LerIndevidos, TipoPreparo
  <2>3. \A g, h \in ADescontar(p) : g = h
    <3>1. ADescontar(p) \in SUBSET Pagamentos
      BY <1>0 DEF ADescontar
    <3> QED
      BY <2>1, <3>1, FS_Subset, NoMaximoUma
  <2>4. ADescontar(p)' = ADescontar(p)
    BY <2>2 DEF ADescontar
  <2>5. /\ ~Pendente(p)' /\ ~Pendente(p)
        /\ ComSaldoLido(p)' => ADescontar(p) # {}
    BY <2>1, <2>2, <2>4 DEF Pendente, ComSaldoLido
  <2>6. MaoConfere(p)'
    BY <1>i, <2>1, <2>2 DEF MaoConfere, NaLinha, AntesDeLer
  <2>7. LinhaConfere(p)'
    BY <1>0, <1>i, <2>1, <2>2, <2>3, <2>4 DEF LinhaConfere, MaoConfere, NaLinha
  <2>8. LeituraConfere(p)'
    BY <2>1, <2>2, <2>5 DEF LeituraConfere
  <2> QED
    BY <1>i, <1>3, <2>1, <2>4, <2>5, <2>6, <2>7, <2>8, DividaAnotada DEF LerIndevidos
<1>4. CASE ExistsDetalheA(p)
  <2>1. /\ UNCHANGED <<historico, detalhe, saldo, desconto>> /\ preparo[p].passo = "ordem"
        /\ ~Pendente(p)
    BY <1>4 DEF ExistsDetalheA, db_vars, indevido_vars, Preparando, Pendente
  <2>2. CASE Anotar(p, SemPreparo)
    BY <1>f, <2>1, <2>2
  <2>3. ASSUME NEW h \in preparo[p].faltam, NEW nova,
               nova = [preparo[p] EXCEPT
                          !.passo = IF h \in Devedores /\ preparo[p].lido > 0 THEN "debitar"
                                    ELSE "detalhe",
                          !.atual = h, !.faltam = @ \ {h}, !.existe = detalhe[h] # 0],
               Anotar(p, nova)
        PROVE  InvDivida'
    <3>1. preparo'[p] = nova
      BY <1>m, <2>3
    <3>2. /\ nova.passo = IF h \in Devedores /\ preparo[p].lido > 0 THEN "debitar" ELSE "detalhe"
          /\ nova.atual = h /\ nova.faltam = preparo[p].faltam \ {h}
          /\ nova.lido = preparo[p].lido /\ nova.desconto = preparo[p].desconto
      BY <1>t, <2>3 DEF TipoPreparo
    <3>3. nova.existe <=> detalhe[h] # 0
      BY <1>t, <2>3 DEF TipoPreparo
    <3>4. h \in Pagamentos /\ preparo[p].atual = Ninguem /\ preparo[p].desconto = 0
      BY <1>t, <1>i, <2>1 DEF TipoPreparo, MaoConfere, NaLinha
    <3>5. ADescontar(p)' = ADescontar(p)
      BY <1>0, <3>1, <3>2, <3>4 DEF ADescontar
    <3>6. ComSaldoLido(p)' => ComSaldoLido(p)
      BY <2>1, <3>1, <3>2, <3>5 DEF ComSaldoLido, Preparando
    <3>7. ~Pendente(p)'
      BY <3>1, <3>2, <3>4 DEF Pendente
    <3>8. MaoConfere(p)'
      BY <1>i, <3>1, <3>2, <3>4 DEF MaoConfere, NaLinha, AntesDeLer
    <3>9. LinhaConfere(p)'
      BY <1>i, <2>1, <3>1, <3>2, <3>3, <3>5 DEF LinhaConfere
    <3>10. LeituraConfere(p)'
      BY <1>0, <1>i, <2>1, <3>1, <3>2, <3>4, <3>6 DEF LeituraConfere
    <3> QED
      BY <1>i, <2>1, <2>3, <3>5, <3>6, <3>7, <3>8, <3>9, <3>10, DividaAnotada
  <2> QED
    BY <1>4, <2>2, <2>3 DEF ExistsDetalheA
<1>5. CASE ExcecaoNoPreparo(p)
  <2>1. ~Debitando(p) /\ Anotar(p, SemPreparo)
        /\ UNCHANGED <<historico, detalhe, saldo, desconto>>
    BY <1>5 DEF ExcecaoNoPreparo, db_vars, indevido_vars, DescontoDisciplinado
  <2>2. preparo[p].desconto \in Nat
    BY <1>t, PreparoAssumption DEF TipoPreparo
  <2>3. preparo[p].desconto = 0
    BY <2>1, <2>2 DEF Debitando
  <2> QED
    BY <1>f, <2>1, <2>3 DEF Pendente
<1>r. ASSUME NEW x \in Preparadores, Pendente(x) PROVE ComSaldoLido(x)
  <2>1. preparo[x].desconto > 0 /\ preparo[x].passo = "detalhe" /\ MaoConfere(x)
    BY <1>r DEF Pendente, InvDivida
  <2> QED
    BY <2>1 DEF MaoConfere, ComSaldoLido, Preparando, ADescontar
<1>d. desconto \in [Pagamentos -> Int] /\ saldo \in Int /\ Divida \in Int
  <2>1. desconto \in [Pagamentos -> 0..Teto] /\ saldo \in 0..Divida
    BY <1>0 DEF TypeOK
  <2> QED
    BY <2>1, PreparoAssumption
<1>n. /\ preparo[p].desconto \in Nat /\ preparo[p].lido \in Nat
      /\ preparo[p].faltam \subseteq Pagamentos
  BY <1>t, PreparoAssumption DEF TipoPreparo
<1>6. CASE DebitarPagamentoIndevido(p)
  <2>h. PICK h : h = preparo[p].atual
    OBVIOUS
  <2>d. PICK d : d = Desconto(preparo[p].lido)
    OBVIOUS
  <2>1. /\ UNCHANGED <<historico, detalhe, desconto>> /\ preparo[p].passo = "debitar"
        /\ saldo' = preparo[p].lido - d
        /\ Anotar(p, [preparo[p] EXCEPT !.passo = "detalhe", !.desconto = d])
    BY <1>6, <2>d DEF DebitarPagamentoIndevido, DescontoDisciplinado, Preparando
  <2>2. /\ preparo'[p].passo = "detalhe" /\ preparo'[p].faltam = preparo[p].faltam
        /\ preparo'[p].atual = preparo[p].atual /\ preparo'[p].desconto = d
        /\ preparo'[p].lido = preparo[p].lido /\ preparo'[p].existe = preparo[p].existe
    BY <1>t, <1>m, <2>1 DEF TipoPreparo
  <2>3. h \in Devedores /\ h \in Pagamentos /\ preparo[p].lido > 0 /\ preparo[p].desconto = 0
    BY <1>0, <1>i, <2>1, <2>h DEF MaoConfere
  <2>4. ADescontar(p)' = ADescontar(p) /\ h \in ADescontar(p)
    BY <2>2, <2>3, <2>h DEF ADescontar
  <2>5. ComSaldoLido(p) /\ preparo[p].lido = saldo /\ ~Pendente(p)
    BY <1>i, <2>1, <2>3, <2>4 DEF ComSaldoLido, Preparando, LeituraConfere, Pendente
  <2>6. d \in Nat
    BY <1>n, <2>d, DescontoCabe
  <2>7. \A q \in Preparadores : q # p => ~ComSaldoLido(q) /\ ~Pendente(q)
    BY <1>i, <1>r, <2>5
  <2>8. \A q \in Preparadores : q # p =>
          /\ MaoConfere(q)' /\ LinhaConfere(q)' /\ LeituraConfere(q)'
          /\ ADescontar(q)' = ADescontar(q) /\ ComSaldoLido(q)' = ComSaldoLido(q)
          /\ Pendente(q)' = Pendente(q) /\ preparo'[q] = preparo[q]
    BY <2>1, <2>7, AsOutrasMaos
  <2>9. MaoConfere(p)'
    BY <1>i, <2>1, <2>2, <2>3, <2>h DEF MaoConfere, NaLinha, AntesDeLer
  <2>10. LinhaConfere(p)' /\ LeituraConfere(p)'
    BY <1>i, <2>1, <2>2, <2>3, <2>4, <2>h DEF LinhaConfere, LeituraConfere
  <2>11. CadaUmComASua'
    BY <1>i, <2>4, <2>5, <2>8 DEF InvDivida, CadaUmComASua
  <2>12. DescontoDeQuem'
    BY <2>1, <2>2, <2>8 DEF InvDivida, DescontoDeQuem
  <2>13. SumFunction(desconto) \in Int
    BY <1>d, <2>3, SomaTrocada
  <2>14. saldo + SumFunction(desconto) = Divida
    BY <2>5, <2>7 DEF InvDivida, ContaFecha
  <2>15. saldo' + SumFunction(desconto)' + d = Divida
    BY <1>d, <2>1, <2>5, <2>6, <2>13, <2>14
  <2>16. d = 0 => saldo' + SumFunction(desconto)' = Divida
    BY <1>d, <2>1, <2>5, <2>13, <2>14
  <2>17. Pendente(p)' <=> d # 0
    BY <2>2, <2>6 DEF Pendente
  <2>18. ContaFecha'
    BY <2>2, <2>7, <2>8, <2>15, <2>16, <2>17 DEF ContaFecha
  <2> QED
    BY <2>8, <2>9, <2>10, <2>11, <2>12, <2>18 DEF InvDivida
<1>7. CASE GerarDetalheAB(p)
  <2>h. PICK h : h = preparo[p].atual
    OBVIOUS
  <2>d. PICK d : d = preparo[p].desconto
    OBVIOUS
  <2>1. UNCHANGED <<historico, saldo>> /\ preparo[p].passo = "detalhe"
    BY <1>7 DEF GerarDetalheAB, Preparando
  <2>2. h \in Pagamentos /\ d \in Nat
    BY <1>i, <1>n, <2>1, <2>h, <2>d DEF MaoConfere, NaLinha
  <2>3. d > 0 => h \in Devedores
    BY <1>i, <2>h, <2>d DEF MaoConfere
  <2>4. CASE ~preparo[p].existe /\ detalhe[h] # 0 /\ Anotar(p, SemPreparo)
             /\ UNCHANGED <<detalhe, desconto>>
    <3>1. h \notin Devedores
      BY <1>i, <2>1, <2>4, <2>h DEF LinhaConfere
    <3>2. ~Pendente(p)
      BY <2>2, <2>3, <2>d, <3>1 DEF Pendente
    <3> QED
      BY <1>f, <2>1, <2>4, <3>2
  <2>5. CASE /\ detalhe' = [detalhe EXCEPT ![h] = preparo[p].header]
             /\ desconto' = [desconto EXCEPT ![h] = d]
             /\ Anotar(p, [preparo[p] EXCEPT !.passo = "status"])
    <3>1. /\ preparo'[p].passo = "status" /\ preparo'[p].faltam = preparo[p].faltam
          /\ preparo'[p].atual = preparo[p].atual /\ preparo'[p].lido = preparo[p].lido
          /\ preparo'[p].desconto = preparo[p].desconto
      BY <1>t, <1>m, <2>5 DEF TipoPreparo
    <3>2. desconto'[h] = d /\ \A g \in Pagamentos : g # h => /\ desconto'[g] = desconto[g]
                                                             /\ detalhe'[g] = detalhe[g]
      <4>1. detalhe \in [Pagamentos -> 0..Len(headers)]
        BY <1>0 DEF TypeOK
      <4> QED
        BY <1>d, <2>2, <2>5, <4>1
    <3>3. ADescontar(p)' = ADescontar(p) /\ (h \in Devedores => h \in ADescontar(p))
      BY <2>h, <3>1 DEF ADescontar
    <3>4. ASSUME NEW q \in Preparadores, q # p, NEW g \in ADescontar(q)
          PROVE  g \in Pagamentos /\ g # h
      BY <1>0, <1>i, <3>3, <3>4 DEF ADescontar
    <3>5. \A q \in Preparadores : q # p =>
            /\ MaoConfere(q)' /\ LinhaConfere(q)' /\ LeituraConfere(q)'
            /\ ADescontar(q)' = ADescontar(q) /\ ComSaldoLido(q)' = ComSaldoLido(q)
            /\ Pendente(q)' = Pendente(q) /\ preparo'[q] = preparo[q]
      <4> SUFFICES ASSUME NEW q \in Preparadores, q # p
                   PROVE  /\ MaoConfere(q)' /\ LinhaConfere(q)' /\ LeituraConfere(q)'
                          /\ ADescontar(q)' = ADescontar(q)
                          /\ ComSaldoLido(q)' = ComSaldoLido(q)
                          /\ Pendente(q)' = Pendente(q) /\ preparo'[q] = preparo[q]
        OBVIOUS
      <4>1. \A g \in ADescontar(q) : historico'[g] = historico[g] /\ detalhe'[g] = detalhe[g]
                                       /\ desconto'[g] = desconto[g]
        BY <2>1, <3>2, <3>4
      <4> QED
        BY <2>1, <2>5, <4>1, AsOutrasMaos
    <3>6. ComSaldoLido(p)' = ComSaldoLido(p) /\ ~Pendente(p)'
      BY <2>1, <3>1, <3>3 DEF ComSaldoLido, Preparando, Pendente
    <3>7. MaoConfere(p)'
      BY <1>i, <2>1, <3>1 DEF MaoConfere, NaLinha, AntesDeLer
    <3>8. LinhaConfere(p)' /\ LeituraConfere(p)'
      BY <1>i, <2>1, <2>h, <2>d, <3>1, <3>2, <3>3, <3>6 DEF LinhaConfere, LeituraConfere
    <3>9. CadaUmComASua'
      BY <1>i, <3>3, <3>5, <3>6 DEF InvDivida, CadaUmComASua
    <3>10. DescontoDeQuem'
      <4> SUFFICES ASSUME NEW g \in Pagamentos, desconto'[g] # 0
                   PROVE  /\ g \in Devedores
                          /\ historico[g] = Criado =>
                                \E q \in Preparadores : preparo'[q].passo = "status"
                                                          /\ preparo'[q].atual = g
        BY <2>1 DEF DescontoDeQuem
      <4>1. CASE g = h
        BY <2>2, <2>3, <2>h, <3>1, <3>2, <4>1
      <4>2. CASE g # h
        <5>1. /\ g \in Devedores
              /\ historico[g] = Criado =>
                    \E q \in Preparadores : preparo[q].passo = "status" /\ preparo[q].atual = g
          BY <3>2, <4>2 DEF InvDivida, DescontoDeQuem
        <5> QED
          BY <2>1, <3>5, <5>1
      <4> QED
        BY <4>1, <4>2
    <3>11. desconto[h] = 0
      <4> SUFFICES ASSUME desconto[h] # 0 PROVE FALSE
        OBVIOUS
      <4>1. /\ h \in Devedores
            /\ historico[h] = Criado =>
                  \E q \in Preparadores : preparo[q].passo = "status" /\ preparo[q].atual = h
        BY <2>2 DEF InvDivida, DescontoDeQuem
      <4>2. historico[h] = Criado
        BY <1>i, <3>3, <4>1 DEF LinhaConfere
      <4>3. PICK q \in Preparadores : preparo[q].passo = "status" /\ preparo[q].atual = h
        BY <4>1, <4>2
      <4>4. h \in ADescontar(q) /\ q # p
        BY <2>1, <4>1, <4>3 DEF ADescontar
      <4> QED
        BY <3>4, <4>4
    <3>12. /\ SumFunction(desconto) \in Int
           /\ SumFunction(desconto') = SumFunction(desconto) + d
      <4>1. d \in Int
        BY <2>2
      <4>2. /\ SumFunction(desconto) \in Int
            /\ SumFunction([desconto EXCEPT ![h] = d]) = SumFunction(desconto) - desconto[h] + d
        BY <1>d, <2>2, <4>1, SomaTrocada
      <4>3. SumFunction(desconto) - desconto[h] + d = SumFunction(desconto) + d
        BY <3>11, <4>1, <4>2
      <4> QED
        BY <2>5, <4>2, <4>3
    <3>13. CASE d = 0
      <4>1. SumFunction(desconto') = SumFunction(desconto) /\ ~Pendente(p)
        BY <2>d, <3>12, <3>13 DEF Pendente
      <4>2. ContaFecha'
        BY <2>1, <3>5, <3>6, <4>1 DEF InvDivida, ContaFecha
      <4> QED
        BY <3>5, <3>7, <3>8, <3>9, <3>10, <4>2 DEF InvDivida
    <3>14. CASE d # 0
      <4>1. Pendente(p)
        BY <2>1, <2>2, <2>d, <3>14 DEF Pendente
      <4>2. \A q \in Preparadores : ~Pendente(q)'
        BY <1>i, <1>r, <3>5, <3>6, <4>1
      <4>3. saldo + SumFunction(desconto) + d = Divida
        BY <2>d, <4>1 DEF InvDivida, ContaFecha
      <4>4. saldo' + SumFunction(desconto') = Divida
        BY <1>d, <2>1, <2>2, <3>12, <4>3
      <4>5. ContaFecha'
        BY <4>2, <4>4 DEF ContaFecha
      <4> QED
        BY <3>5, <3>7, <3>8, <3>9, <3>10, <4>5 DEF InvDivida
    <3> QED
      BY <3>13, <3>14
  <2> QED
    BY <1>7, <2>4, <2>5, <2>h, <2>d DEF GerarDetalheAB
<1>8. CASE AtualizaStatusRemessa(p)
  <2>h. PICK h : h = preparo[p].atual
    OBVIOUS
  <2>1. /\ UNCHANGED <<detalhe, saldo, desconto>> /\ preparo[p].passo = "status"
        /\ historico' = [historico EXCEPT ![h] = PreparadoParaEnvio]
        /\ Anotar(p, [preparo[p] EXCEPT !.passo = "ordem", !.atual = Ninguem, !.desconto = 0])
    BY <1>8, <2>h DEF AtualizaStatusRemessa, indevido_vars, Preparando
  <2>2. /\ preparo'[p].passo = "ordem" /\ preparo'[p].faltam = preparo[p].faltam
        /\ preparo'[p].atual = Ninguem /\ preparo'[p].lido = preparo[p].lido
        /\ preparo'[p].desconto = 0
    BY <1>t, <1>m, <2>1 DEF TipoPreparo
  <2>3. h \in Pagamentos /\ h \notin preparo[p].faltam
    BY <1>i, <2>1, <2>h DEF MaoConfere, NaLinha
  <2>4. /\ historico'[h] = PreparadoParaEnvio
        /\ \A g \in Pagamentos : g # h => historico'[g] = historico[g]
    BY <1>0, <2>1, <2>3 DEF TypeOK
  <2>5. /\ ADescontar(p)' = preparo[p].faltam \cap Devedores
        /\ ADescontar(p) = (preparo[p].faltam \cup {h}) \cap Devedores
    BY <1>0, <2>2, <2>h DEF ADescontar
  <2>6. ASSUME NEW q \in Preparadores, q # p, NEW g \in ADescontar(q)
        PROVE  g \in Pagamentos /\ g # h
    <3>1. g \in Devedores /\ g \in Pagamentos
      BY <1>0 DEF ADescontar
    <3>2. g \notin ADescontar(p)
      BY <1>i, <2>6
    <3> QED
      BY <2>5, <3>1, <3>2
  <2>7. \A q \in Preparadores : q # p =>
          /\ MaoConfere(q)' /\ LinhaConfere(q)' /\ LeituraConfere(q)'
          /\ ADescontar(q)' = ADescontar(q) /\ ComSaldoLido(q)' = ComSaldoLido(q)
          /\ Pendente(q)' = Pendente(q) /\ preparo'[q] = preparo[q]
    <3> SUFFICES ASSUME NEW q \in Preparadores, q # p
                 PROVE  /\ MaoConfere(q)' /\ LinhaConfere(q)' /\ LeituraConfere(q)'
                        /\ ADescontar(q)' = ADescontar(q)
                        /\ ComSaldoLido(q)' = ComSaldoLido(q)
                        /\ Pendente(q)' = Pendente(q) /\ preparo'[q] = preparo[q]
      OBVIOUS
    <3>1. \A g \in ADescontar(q) : historico'[g] = historico[g] /\ detalhe'[g] = detalhe[g]
                                     /\ desconto'[g] = desconto[g]
      BY <2>1, <2>4, <2>6
    <3> QED
      BY <2>1, <3>1, AsOutrasMaos
  <2>8. ComSaldoLido(p)' => ComSaldoLido(p) /\ preparo[p].lido > 0
    BY <2>1, <2>2, <2>5 DEF ComSaldoLido, Preparando
  <2>9. ~Pendente(p) /\ ~Pendente(p)'
    BY <2>1, <2>2 DEF Pendente
  <2>10. MaoConfere(p)'
    BY <2>2 DEF MaoConfere, NaLinha, AntesDeLer
  <2>11. LinhaConfere(p)'
    <3>1. \A g \in ADescontar(p)' : g \in ADescontar(p) /\ g # h /\ g \in Pagamentos
      BY <1>n, <2>3, <2>5
    <3>2. preparo'[p].atual \notin Devedores
      BY <1>0, <2>2
    <3>3. \A g \in ADescontar(p)' : historico'[g] = Criado
      BY <1>i, <2>4, <3>1 DEF LinhaConfere
    <3>4. preparo'[p].lido > 0 => \A a, b \in ADescontar(p)' : a = b
      BY <1>i, <2>2, <3>1 DEF LinhaConfere
    <3> QED
      BY <3>2, <3>3, <3>4 DEF LinhaConfere
  <2>12. LeituraConfere(p)'
    <3> SUFFICES ASSUME ComSaldoLido(p)' PROVE preparo[p].lido = saldo
      BY <2>1, <2>2 DEF LeituraConfere
    <3>1. PICK g : g \in ADescontar(p)'
      BY DEF ComSaldoLido
    <3>2. g \in ADescontar(p) /\ g # h
      BY <2>3, <2>5, <3>1
    <3>3. h \notin Devedores
      BY <1>i, <2>5, <2>8, <3>2 DEF LinhaConfere
    <3> QED
      BY <1>i, <2>8, <2>h, <3>3 DEF LeituraConfere
  <2>13. CadaUmComASua'
    BY <1>i, <2>5, <2>7, <2>8 DEF InvDivida, CadaUmComASua
  <2>14. DescontoDeQuem'
    <3> SUFFICES ASSUME NEW g \in Pagamentos, desconto[g] # 0
                 PROVE  /\ g \in Devedores
                        /\ historico'[g] = Criado =>
                              \E q \in Preparadores : preparo'[q].passo = "status"
                                                        /\ preparo'[q].atual = g
      BY <2>1 DEF DescontoDeQuem
    <3>1. /\ g \in Devedores
          /\ historico[g] = Criado =>
                \E q \in Preparadores : preparo[q].passo = "status" /\ preparo[q].atual = g
      BY DEF InvDivida, DescontoDeQuem
    <3>2. CASE g = h
      BY <2>4, <3>1, <3>2 DEF Criado, PreparadoParaEnvio
    <3>3. CASE g # h
      BY <2>4, <2>7, <2>h, <3>1, <3>3
    <3> QED
      BY <3>2, <3>3
  <2>15. ContaFecha'
    BY <2>1, <2>7, <2>9 DEF InvDivida, ContaFecha
  <2> QED
    BY <2>7, <2>10, <2>11, <2>12, <2>13, <2>14, <2>15 DEF InvDivida
<1> QED
  BY <1>1, <1>2, <1>3, <1>4, <1>5, <1>6, <1>7, <1>8 DEF Preparar

\* Who sends, and who renews a number, does not touch what is owed.
LEMMA DividaQuieta ==
    ASSUME InvDivida, TypeOK', UNCHANGED <<historico, detalhe, saldo, desconto, preparo>>
    PROVE  InvDivida'
<1>1. \A q : /\ ADescontar(q)' = ADescontar(q) /\ ComSaldoLido(q)' = ComSaldoLido(q)
             /\ Pendente(q)' = Pendente(q)
  BY DEF ADescontar, ComSaldoLido, Preparando, Pendente
<1>2. \A q \in Preparadores : MaoConfere(q)' /\ LinhaConfere(q)' /\ LeituraConfere(q)'
  BY <1>1 DEF InvDivida, MaoConfere, LinhaConfere, LeituraConfere
<1>3. CadaUmComASua' /\ DescontoDeQuem' /\ ContaFecha'
  BY <1>1 DEF InvDivida, CadaUmComASua, DescontoDeQuem, ContaFecha
<1> QED
  BY <1>2, <1>3 DEF InvDivida

LEMMA DividaMantidaReinicio ==
    ASSUME InvDivida, TypeOK', DescontoDisciplinado, Reiniciar PROVE InvDivida'
<1>1. /\ UNCHANGED <<historico, saldo, desconto>>
      /\ \A p \in Preparadores : preparo'[p] = SemPreparo
      /\ \A p \in Preparadores : ~Debitando(p)
  BY DEF Reiniciar, db_vars, indevido_vars, DescontoDisciplinado
<1>2. \A p \in Preparadores :
         /\ MaoConfere(p)' /\ LinhaConfere(p)' /\ LeituraConfere(p)'
         /\ ADescontar(p)' = {} /\ ~ComSaldoLido(p)' /\ ~Pendente(p)'
  <2>1. /\ SemPreparo.passo = "fora" /\ SemPreparo.faltam = {} /\ SemPreparo.atual = Ninguem
        /\ SemPreparo.lido = 0 /\ SemPreparo.desconto = 0 /\ Ninguem \notin Devedores
    BY PreparoAssumption DEF SemPreparo
  <2>2. \A p \in Preparadores : ADescontar(p)' = {} /\ ~ComSaldoLido(p)' /\ ~Pendente(p)'
    BY <1>1, <2>1 DEF ADescontar, ComSaldoLido, Pendente
  <2> QED
    BY <1>1, <2>1, <2>2 DEF MaoConfere, LinhaConfere, LeituraConfere, NaLinha, AntesDeLer
<1>3. \A p \in Preparadores : preparo[p].desconto = 0
  <2> SUFFICES ASSUME NEW p \in Preparadores PROVE preparo[p].desconto = 0
    OBVIOUS
  <2>1. preparo[p] \in TipoPreparo(Len(headers))
    BY DEF InvDivida, TypeOK, TipoPreparo
  <2>2. preparo[p].desconto \in Nat
    BY <2>1, PreparoAssumption DEF TipoPreparo
  <2> QED
    BY <1>1, <2>2 DEF Debitando
<1>4. CadaUmComASua'
  BY <1>2 DEF CadaUmComASua
<1>5. DescontoDeQuem'
  <2> SUFFICES ASSUME NEW h \in Pagamentos, desconto[h] # 0
               PROVE  h \in Devedores /\ historico[h] # Criado
    BY <1>1 DEF DescontoDeQuem
  <2>1. /\ h \in Devedores
        /\ historico[h] = Criado =>
              \E q \in Preparadores : preparo[q].passo = "status" /\ preparo[q].atual = h
    BY DEF InvDivida, DescontoDeQuem
  <2>2. \A q \in Preparadores : ~(preparo[q].passo = "status" /\ preparo[q].atual = h)
    BY <1>3, <2>1 DEF InvDivida, LinhaConfere
  <2> QED
    BY <2>1, <2>2
<1>6. ContaFecha'
  <2>1. \A p \in Preparadores : ~Pendente(p)
    BY <1>3 DEF Pendente
  <2> QED
    BY <1>1, <1>2, <2>1 DEF InvDivida, ContaFecha
<1> QED
  BY <1>2, <1>4, <1>5, <1>6 DEF InvDivida

LEMMA DividaMantida ==
    ASSUME InvDivida, DescontoDisciplinado, IsFiniteSet(Pagamentos), [Next]_vars
    PROVE  InvDivida'
<1>0. TypeOK'
  BY TypeOKMantido DEF InvDivida
<1>1. CASE \E p \in Preparadores : Preparar(p)
  BY <1>0, <1>1, DividaMantidaPreparo
<1>2. CASE \E r \in Remetentes : Enviar(r)
  BY <1>0, <1>2, DividaQuieta
     DEF Enviar, GerarCnabText, SubmitCnabRemessa, SubmitCnabBackupRemessa, EnviarRemessa,
         SoEnvio, indevido_vars
<1>3. CASE (\E n \in recusados : RenovarNsaRemessa(n)) \/ LerNsaNovo \/ GravarNsaNovo
             \/ Reabrir
  BY <1>0, <1>3, DividaQuieta
     DEF RenovarNsaRemessa, LerNsaNovo, GravarNsaNovo, Reabrir, SoRenovacao, indevido_vars
<1>4. CASE Reiniciar
  BY <1>0, <1>4, DividaMantidaReinicio
<1>5. CASE UNCHANGED vars
  BY <1>0, <1>5, DividaQuieta DEF vars, db_vars, indevido_vars
<1> QED
  BY <1>1, <1>2, <1>3, <1>4, <1>5 DEF Next

LEMMA DividaInicial == ASSUME Init, IsFiniteSet(Pagamentos) PROVE InvDivida
<1>1. /\ \A p \in Preparadores : preparo[p] = SemPreparo
      /\ desconto = [h \in Pagamentos |-> 0] /\ saldo = Divida
  BY DEF Init
<1>2. \A p \in Preparadores :
         /\ MaoConfere(p) /\ LinhaConfere(p) /\ LeituraConfere(p)
         /\ ADescontar(p) = {} /\ ~ComSaldoLido(p) /\ ~Pendente(p)
  <2>1. /\ SemPreparo.passo = "fora" /\ SemPreparo.faltam = {} /\ SemPreparo.atual = Ninguem
        /\ SemPreparo.lido = 0 /\ SemPreparo.desconto = 0 /\ Ninguem \notin Devedores
    BY PreparoAssumption DEF SemPreparo
  <2>2. \A p \in Preparadores : ADescontar(p) = {} /\ ~ComSaldoLido(p) /\ ~Pendente(p)
    BY <1>1, <2>1 DEF ADescontar, ComSaldoLido, Pendente
  <2> QED
    BY <1>1, <2>1, <2>2 DEF MaoConfere, LinhaConfere, LeituraConfere, NaLinha, AntesDeLer
<1>3. SumFunction(desconto) = 0
  BY <1>1, SomaZero
<1>4. CadaUmComASua /\ DescontoDeQuem
  BY <1>1, <1>2 DEF CadaUmComASua, DescontoDeQuem
<1>5. ContaFecha
  BY <1>1, <1>2, <1>3, PreparoAssumption DEF ContaFecha
<1> QED
  BY <1>2, <1>4, <1>5, TypeOKInicial DEF InvDivida

\* While each row of who owes is in the hands of one preparo, which reads what
\* is owed for one row at a time and does not end, nor have its write
\* rejected, between the debit and the row's status, what the debt lost is
\* what the payments lack, however many rows, preparos and restarts.
THEOREM DividaConfereSempre ==
    ASSUME DescontoDisciplinado, IsFiniteSet(Pagamentos) PROVE Spec => []DividaConfere
<1>1. Init => InvDivida
  BY DividaInicial
<1>2. InvDivida /\ [Next]_vars => InvDivida'
  BY DividaMantida
<1>3. InvDivida => DividaConfere
  BY DEF InvDivida, ContaFecha, DividaConfere, Pendente, Debitando
<1> QED
  BY <1>1, <1>2, <1>3, PTL DEF Spec
==============================================================================
