------------------------- MODULE PagamentoTipos_proofs -------------------------
(***************************************************************************)
(* Proofs about the tables of Pagamento, for any orders, payees, bounds    *)
(* and requests of the operator: what its operators return, and the types. *)
(***************************************************************************)
EXTENDS Pagamento, FiniteSetTheorems, SequenceTheorems, TLAPS

-----------------------------------------------------------------------------
(* Operators.                                                              *)

\* A finite set of numbers that is not empty has a greatest one: of the sets
\* of those above each, one has no other inside it.
LEMMA MaiorExiste ==
    ASSUME NEW S \in SUBSET Int, IsFiniteSet(S), S # {}
    PROVE  /\ Max(S) \in S
           /\ \A y \in S : y <= Max(S)
<1> DEFINE Acima(x) == {y \in S : y > x}
           T == {Acima(x) : x \in S}
<1>1. T \subseteq FiniteSubsetsOf(S) /\ T # {}
  <2>1. \A x \in S : Acima(x) \in SUBSET S /\ IsFiniteSet(Acima(x))
    BY FS_Subset
  <2> QED
    BY <2>1 DEF FiniteSubsetsOf
<1>2. PICK A \in T : \A B \in T : <<B, A>> \notin StrictSubsetOrdering(S)
  <2> HIDE DEF T
  <2> QED
    BY <1>1, FS_StrictSubsetOrderingWellFounded, WFMin
<1>3. PICK x \in S : A = Acima(x)
  OBVIOUS
<1>4. \A y \in S : x >= y
  <2> SUFFICES ASSUME NEW y \in S, y > x PROVE FALSE
    OBVIOUS
  <2>1. Acima(y) \subseteq A /\ y \in A /\ y \notin Acima(y)
    <3>1. /\ \A z \in S : z > y => z > x
          /\ ~(y > y)
      OBVIOUS
    <3>2. A = {z \in S : z > x}
      BY <1>3
    <3>3. Acima(y) \subseteq A
      <4> HIDE DEF T
      <4> QED
        BY <3>1, <3>2
    <3>4. y \in A
      BY <3>2
    <3> QED
      BY <3>1, <3>3, <3>4
  <2>2. Acima(y) \in T
    OBVIOUS
  <2>3. <<Acima(y), A>> \in StrictSubsetOrdering(S)
    <3> HIDE DEF T
    <3> QED
      BY <2>1, <1>3 DEF StrictSubsetOrdering
  <2> QED
    BY <1>2, <2>2, <2>3
<1> QED
  BY <1>4 DEF Max

LEMMA MaiorDeUm == ASSUME NEW x \in Int PROVE Max({x}) = x
BY DEF Max

\* What a grouping, its rows, and what was asked of the bank are made of.
TipoHistorico(d, n) ==
    [status : StatusRemessaEnum, motivo : Ocorrencias \cup {Nulo, Espacos},
     dia : 1..d, header : 0..n, valor : SUBSET Ordens]
TipoHist(d, n) == UNION {[D -> TipoHistorico(d, n)] :
                            D \in {E \in SUBSET Nat : E # {} /\ IsFiniteSet(E)}}
TipoOpa(ids, d, n) ==
    [ordens : SUBSET Ordens, total : SUBSET Ordens, pai : ids \cup {0},
     dia : 1..d, hist : TipoHist(d, n)]
TipoPedido ==
    [dia : Nat, valor : SUBSET Ordens, header : Nat, fase : Fases,
     retorno : {<<>>} \cup (Ocorrencias \X Ocorrencias)]
StatusDeHeader == {"remessaGerado", "remessaEnviado", "apagado"}

EhFuncao(f) == f = [k \in DOMAIN f |-> f[k]]

LEMMA HistTipo ==
    ASSUME NEW d, NEW n, NEW f
    PROVE  f \in TipoHist(d, n) <=>
              /\ EhFuncao(f)
              /\ DOMAIN f \in SUBSET Nat /\ DOMAIN f # {} /\ IsFiniteSet(DOMAIN f)
              /\ \A k \in DOMAIN f : f[k] \in TipoHistorico(d, n)
BY DEF TipoHist, EhFuncao

\* The newest row is one of them, and the one MaisUm adds is another.
LEMMA UltimoExiste ==
    ASSUME NEW d, NEW n, NEW f \in TipoHist(d, n)
    PROVE  /\ UltimoDe(f) \in DOMAIN f /\ UltimoDe(f) \in Nat
           /\ UltimoDe(f) + 1 \notin DOMAIN f
           /\ \A k : k \in DOMAIN MaisUm(f) <=> k \in DOMAIN f \/ k = UltimoDe(f) + 1
           /\ \A k \in DOMAIN f : MaisUm(f)[k] = f[k]
           /\ MaisUm(f)[UltimoDe(f) + 1] = Historico
<1>1. DOMAIN f \in SUBSET Nat /\ DOMAIN f # {} /\ IsFiniteSet(DOMAIN f)
  BY HistTipo
<1>2. UltimoDe(f) \in DOMAIN f /\ \A k \in DOMAIN f : k <= UltimoDe(f)
  BY <1>1, MaiorExiste DEF UltimoDe
<1>3. UltimoDe(f) + 1 \notin DOMAIN f
  BY <1>1, <1>2
<1> QED
  BY <1>1, <1>2, <1>3 DEF MaisUm

LEMMA MaisUmTipo ==
    ASSUME NEW d, NEW n, NEW f \in TipoHist(d, n), Historico \in TipoHistorico(d, n)
    PROVE  MaisUm(f) \in TipoHist(d, n)
<1> DEFINE g == MaisUm(f)
<1>1. /\ DOMAIN f \in SUBSET Nat /\ DOMAIN f # {} /\ IsFiniteSet(DOMAIN f)
      /\ \A k \in DOMAIN f : f[k] \in TipoHistorico(d, n)
  BY HistTipo
<1>2. /\ UltimoDe(f) \in Nat
      /\ DOMAIN g = DOMAIN f \cup {UltimoDe(f) + 1}
      /\ \A k \in DOMAIN f : g[k] = f[k]
      /\ g[UltimoDe(f) + 1] = Historico
  <2>1. UltimoDe(f) \in Nat
    BY UltimoExiste
  <2>2. \A k : k \in DOMAIN g <=> k \in DOMAIN f \/ k = UltimoDe(f) + 1
    BY UltimoExiste
  <2>3. \A k \in DOMAIN f : g[k] = f[k]
    BY UltimoExiste
  <2>4. g[UltimoDe(f) + 1] = Historico
    BY UltimoExiste
  <2>5. DOMAIN g = DOMAIN f \cup {UltimoDe(f) + 1}
    <3> HIDE DEF g
    <3> QED
      BY <2>2
  <2> QED
    BY <2>1, <2>3, <2>4, <2>5
<1>3. EhFuncao(g)
  BY DEF MaisUm, EhFuncao
<1> HIDE DEF g
<1>4. IsFiniteSet(DOMAIN g)
  BY <1>1, <1>2, FS_AddElement
<1>5. \A k \in DOMAIN g : g[k] \in TipoHistorico(d, n)
  BY <1>1, <1>2
<1>6. DOMAIN g \in SUBSET Nat /\ DOMAIN g # {}
  BY <1>1, <1>2
<1> QED
  BY <1>3, <1>4, <1>5, <1>6, HistTipo DEF g

LEMMA HistTrocado ==
    ASSUME NEW d, NEW n, NEW f \in TipoHist(d, n), NEW k, NEW r \in TipoHistorico(d, n)
    PROVE  [f EXCEPT ![k] = r] \in TipoHist(d, n)
<1> DEFINE g == [f EXCEPT ![k] = r]
<1>1. /\ DOMAIN f \in SUBSET Nat /\ DOMAIN f # {} /\ IsFiniteSet(DOMAIN f)
      /\ \A m \in DOMAIN f : f[m] \in TipoHistorico(d, n)
  BY HistTipo
<1>2. /\ EhFuncao(g)
      /\ DOMAIN g = DOMAIN f
      /\ \A m \in DOMAIN g : g[m] \in TipoHistorico(d, n)
  BY <1>1, HistTipo DEF EhFuncao
<1> HIDE DEF g
<1> QED
  BY <1>1, <1>2, HistTipo DEF g

LEMMA HistReduzido ==
    ASSUME NEW d, NEW n, NEW f \in TipoHist(d, n), NEW S \in SUBSET DOMAIN f, S # {}
    PROVE  Restrict(f, S) \in TipoHist(d, n)
<1> DEFINE g == Restrict(f, S)
<1>1. /\ DOMAIN f \in SUBSET Nat /\ IsFiniteSet(DOMAIN f)
      /\ \A m \in DOMAIN f : f[m] \in TipoHistorico(d, n)
  BY HistTipo
<1>2. /\ EhFuncao(g)
      /\ DOMAIN g = S
      /\ \A m \in DOMAIN g : g[m] \in TipoHistorico(d, n)
  BY <1>1 DEF Restrict, EhFuncao
<1>3. IsFiniteSet(S)
  BY <1>1, FS_Subset
<1> HIDE DEF g
<1> QED
  BY <1>1, <1>2, <1>3, HistTipo DEF g

\* Types only grow: with the groupings, the day and the headers.
LEMMA TiposCrescem ==
    ASSUME NEW ids, NEW ids2, ids \subseteq ids2, NEW d \in Nat, NEW d2 \in Nat, d <= d2,
           NEW n \in Nat, NEW n2 \in Nat, n <= n2
    PROVE  /\ TipoHistorico(d, n) \subseteq TipoHistorico(d2, n2)
           /\ TipoHist(d, n) \subseteq TipoHist(d2, n2)
           /\ TipoOpa(ids, d, n) \subseteq TipoOpa(ids2, d2, n2)
<1>1. 1..d \subseteq 1..d2 /\ 0..n \subseteq 0..n2
  OBVIOUS
<1>2. TipoHistorico(d, n) \subseteq TipoHistorico(d2, n2)
  BY <1>1 DEF TipoHistorico
<1>3. ASSUME NEW f \in TipoHist(d, n) PROVE f \in TipoHist(d2, n2)
  <2>1. /\ EhFuncao(f)
        /\ DOMAIN f \in SUBSET Nat /\ DOMAIN f # {} /\ IsFiniteSet(DOMAIN f)
        /\ \A k \in DOMAIN f : f[k] \in TipoHistorico(d, n)
    BY HistTipo
  <2> QED
    BY <1>2, <2>1, HistTipo
<1>4. TipoOpa(ids, d, n) \subseteq TipoOpa(ids2, d2, n2)
  BY <1>1, <1>3 DEF TipoOpa
<1> QED
  BY <1>2, <1>3, <1>4

-----------------------------------------------------------------------------
(* The invariant of the types.                                             *)

\* The first row of a grouping stays, or one that something was done with.
TemLinha ==
    \A i \in Ids : \E k \in DOMAIN opas[i].hist :
        opas[i].hist[k].dia = opas[i].dia \/ ~Intocada(opas[i].hist[k])

\* A parent has no order of its own, and no parent.
Mae(i) == opas[i].ordens = {}
MaesSemOrdens == \A i \in Ids : opas[i].pai # 0 => ~Mae(i) /\ Mae(opas[i].pai)

Tipos ==
    /\ favorecido \in Favorecidos
    /\ geradas \in 0..MaxOpas
    /\ Ids \subseteq 1..geradas
    /\ opas \in [Ids -> TipoOpa(Ids, hoje, Len(headers))]
    /\ headers \in Seq(StatusDeHeader)
    /\ instrucoes \in Seq(TipoPedido)
    /\ envios \in 0..MaxEnvios[favorecido]
    /\ creditos \in [Ordens -> Nat]
    /\ hoje \in 1..MaxDias[favorecido]
    /\ TemLinha
    /\ MaesSemOrdens

\* What the types say of each grouping, row, header and payment.
LEMMA Limites ==
    ASSUME Tipos
    PROVE  /\ hoje \in Nat /\ hoje >= 1 /\ geradas \in Nat
           /\ Len(headers) \in Nat /\ DOMAIN headers = 1..Len(headers)
           /\ Len(instrucoes) \in Nat /\ DOMAIN instrucoes = 1..Len(instrucoes)
           /\ 0 \notin Ids /\ Ids \subseteq Nat
<1>1. MaxDias[favorecido] \in Nat
  BY PagamentoAssumption DEF Tipos
<1>2. MaxOpas \in Nat
  BY PagamentoAssumption
<1>3. hoje \in Nat /\ hoje >= 1 /\ geradas \in Nat
  BY <1>1, <1>2 DEF Tipos
<1>4. 0 \notin Ids /\ Ids \subseteq Nat
  BY <1>3 DEF Tipos
<1>5. headers \in Seq(StatusDeHeader) /\ instrucoes \in Seq(TipoPedido)
  BY DEF Tipos
<1> QED
  BY <1>3, <1>4, <1>5, LenProperties

LEMMA TipoDaOpa ==
    ASSUME Tipos, NEW i \in Ids
    PROVE  /\ opas[i] \in TipoOpa(Ids, hoje, Len(headers))
           /\ opas[i].ordens \subseteq Ordens /\ opas[i].total \subseteq Ordens
           /\ opas[i].pai \in Ids \cup {0} /\ opas[i].dia \in 1..hoje
           /\ opas[i].dia \in Nat
           /\ opas[i].hist \in TipoHist(hoje, Len(headers))
           /\ DOMAIN opas[i].hist \in SUBSET Nat
           /\ DOMAIN opas[i].hist # {} /\ IsFiniteSet(DOMAIN opas[i].hist)
           /\ EhFuncao(opas[i].hist)
<1>1. opas[i] \in TipoOpa(Ids, hoje, Len(headers)) /\ hoje \in Nat
  BY Limites DEF Tipos
<1>2. /\ opas[i].ordens \subseteq Ordens /\ opas[i].total \subseteq Ordens
      /\ opas[i].pai \in Ids \cup {0} /\ opas[i].dia \in 1..hoje
      /\ opas[i].hist \in TipoHist(hoje, Len(headers))
  BY <1>1 DEF TipoOpa
<1> QED
  BY <1>1, <1>2, HistTipo

LEMMA TipoDaLinha ==
    ASSUME Tipos, NEW i \in Ids, NEW k \in DOMAIN opas[i].hist
    PROVE  /\ opas[i].hist[k] \in TipoHistorico(hoje, Len(headers))
           /\ opas[i].hist[k].status \in StatusRemessaEnum
           /\ opas[i].hist[k].motivo \in Ocorrencias \cup {Nulo, Espacos}
           /\ opas[i].hist[k].dia \in 1..hoje /\ opas[i].hist[k].dia \in Nat
           /\ opas[i].hist[k].header \in 0..Len(headers) /\ opas[i].hist[k].header \in Nat
           /\ opas[i].hist[k].valor \subseteq Ordens
<1>1. opas[i].hist[k] \in TipoHistorico(hoje, Len(headers))
  BY TipoDaOpa, HistTipo
<1>2. hoje \in Nat /\ Len(headers) \in Nat
  BY Limites
<1> QED
  BY <1>1, <1>2 DEF TipoHistorico

LEMMA TipoDoPedido ==
    ASSUME Tipos, NEW n \in DOMAIN instrucoes
    PROVE  /\ instrucoes[n] \in TipoPedido
           /\ instrucoes[n].dia \in Nat /\ instrucoes[n].valor \subseteq Ordens
           /\ instrucoes[n].header \in Nat /\ instrucoes[n].fase \in Fases
           /\ instrucoes[n].retorno \in {<<>>} \cup (Ocorrencias \X Ocorrencias)
<1>1. instrucoes[n] \in TipoPedido
  BY Limites, ElementOfSeq DEF Tipos
<1> QED
  BY <1>1 DEF TipoPedido

LEMMA TiposValem == Tipos => TypeOK
<1> SUFFICES ASSUME Tipos PROVE TypeOK
  OBVIOUS
<1>1. ASSUME NEW i \in Ids
      PROVE  /\ opas[i].ordens \subseteq Ordens
             /\ opas[i].total \subseteq Ordens
             /\ opas[i].pai \in Ids \cup {0}
             /\ opas[i].dia \in 1..hoje
             /\ \A h \in HistoricosDe(i) :
                   /\ h.status \in StatusRemessaEnum
                   /\ h.motivo \in Ocorrencias \cup {Nulo, Espacos}
                   /\ h.dia \in 1..hoje
                   /\ h.header \in 0..Len(headers)
                   /\ h.valor \subseteq Ordens
  BY <1>1, TipoDaOpa, TipoDaLinha DEF HistoricosDe
<1>2. \A h \in DOMAIN headers : headers[h] \in StatusDeHeader
  BY Limites, ElementOfSeq DEF Tipos
<1>3. \A k \in DOMAIN instrucoes : instrucoes[k].fase \in Fases
  BY TipoDoPedido
<1> QED
  BY <1>1, <1>2, <1>3 DEF TypeOK, Tipos, StatusDeHeader

\* A new row and a new grouping.
LEMMA HistDeUma ==
    ASSUME NEW d, NEW n, NEW r \in TipoHistorico(d, n)
    PROVE  [k \in {1} |-> r] \in TipoHist(d, n)
<1> DEFINE f == [k \in {1} |-> r]
<1>1. IsFiniteSet({1})
  BY FS_Singleton, Zenon
<1>2. DOMAIN f = {1}
  OBVIOUS
<1>3. IsFiniteSet(DOMAIN f)
  BY <1>1, <1>2, Zenon
<1>4. /\ DOMAIN f \in SUBSET Nat /\ DOMAIN f # {} /\ EhFuncao(f)
      /\ \A k \in DOMAIN f : f[k] \in TipoHistorico(d, n)
  BY DEF EhFuncao
<1> HIDE DEF f
<1> QED
  BY <1>3, <1>4, HistTipo DEF f

LEMMA OpaNova ==
    ASSUME Tipos, NEW o \in SUBSET Ordens, NEW t \in SUBSET Ordens
    PROVE  /\ Historico \in TipoHistorico(hoje, Len(headers))
           /\ Opa(o, t).ordens = o /\ Opa(o, t).total = t /\ Opa(o, t).pai = 0
           /\ Opa(o, t).dia = hoje /\ DOMAIN Opa(o, t).hist = {1}
           /\ Opa(o, t).hist[1] = Historico
           /\ Opa(o, t) \in TipoOpa(Ids, hoje, Len(headers))
<1>1. Historico \in TipoHistorico(hoje, Len(headers))
  <2>1. hoje \in 1..hoje /\ 0 \in 0..Len(headers)
    BY Limites
  <2> QED
    BY <2>1 DEF Historico, TipoHistorico, StatusRemessaEnum, Criado
<1>2. [k \in {1} |-> Historico] \in TipoHist(hoje, Len(headers))
  BY <1>1, HistDeUma
<1>3. hoje \in 1..hoje
  BY Limites
<1> QED
  BY <1>1, <1>2, <1>3 DEF Opa, TipoOpa

\* What is left alone keeps its type.
LEMMA OpasIguais ==
    ASSUME Tipos, opas' = opas, geradas' = geradas, hoje <= hoje', hoje' \in Nat,
           Len(headers) <= Len(headers'), Len(headers') \in Nat
    PROVE  /\ Ids' = Ids
           /\ Ids' \subseteq 1..geradas'
           /\ opas' \in [Ids' -> TipoOpa(Ids', hoje', Len(headers'))]
           /\ TemLinha' /\ MaesSemOrdens'
<1>1. Ids' = Ids
  BY DEF Ids
<1>2. TipoOpa(Ids, hoje, Len(headers)) \subseteq TipoOpa(Ids', hoje', Len(headers'))
  BY <1>1, Limites, TiposCrescem
<1>3. opas \in [Ids -> TipoOpa(Ids, hoje, Len(headers))]
  BY DEF Tipos
<1>4. TemLinha'
  BY <1>1 DEF Tipos, TemLinha, Intocada
<1>5. MaesSemOrdens'
  BY <1>1 DEF Tipos, MaesSemOrdens, Mae
<1> QED
  BY <1>1, <1>2, <1>3, <1>4, <1>5 DEF Tipos

\* A header is saved again in its place.
LEMMA HeaderTrocado ==
    ASSUME Tipos, NEW hdr \in DOMAIN headers, NEW s \in StatusDeHeader,
           headers' = [headers EXCEPT ![hdr] = s]
    PROVE  /\ headers' \in Seq(StatusDeHeader)
           /\ Len(headers') = Len(headers) /\ DOMAIN headers' = DOMAIN headers
           /\ headers'[hdr] = s
           /\ \A h \in DOMAIN headers : h # hdr => headers'[h] = headers[h]
<1>1. headers \in Seq(StatusDeHeader) /\ hdr \in 1..Len(headers)
  BY Limites DEF Tipos
<1>2. headers' \in Seq(StatusDeHeader) /\ Len(headers') = Len(headers)
  BY <1>1, ExceptSeq
<1> QED
  BY <1>1, <1>2, LenProperties

\* A payment changes in its place.
LEMMA PedidoTrocado ==
    ASSUME Tipos, NEW n \in DOMAIN instrucoes, NEW p \in TipoPedido,
           instrucoes' = [instrucoes EXCEPT ![n] = p]
    PROVE  /\ instrucoes' \in Seq(TipoPedido)
           /\ DOMAIN instrucoes' = DOMAIN instrucoes
           /\ instrucoes'[n] = p
           /\ \A m \in DOMAIN instrucoes : m # n => instrucoes'[m] = instrucoes[m]
<1>1. instrucoes \in Seq(TipoPedido) /\ n \in 1..Len(instrucoes)
  BY Limites DEF Tipos
<1>2. instrucoes' \in Seq(TipoPedido) /\ Len(instrucoes') = Len(instrucoes)
  BY <1>1, ExceptSeq
<1> QED
  BY <1>1, <1>2, LenProperties

-----------------------------------------------------------------------------
(* The types, action by action.                                            *)

LEMMA TiposInit == Init => Tipos
<1> SUFFICES ASSUME Init PROVE Tipos
  OBVIOUS
<1>1. Ids = {}
  BY DEF Init, Ids
<1>2. headers = <<>> /\ instrucoes = <<>>
  BY DEF Init
<1>3. opas \in [Ids -> TipoOpa(Ids, hoje, Len(headers))]
  BY <1>1 DEF Init
<1>4. favorecido \in Favorecidos
  BY DEF Init
<1>5. 0 \in 0..MaxEnvios[favorecido] /\ 1 \in 1..MaxDias[favorecido] /\ 0 \in 0..MaxOpas
  BY <1>4, PagamentoAssumption
<1>6. creditos \in [Ordens -> Nat]
  BY DEF Init
<1> QED
  BY <1>1, <1>2, <1>3, <1>4, <1>5, <1>6 DEF Init, Tipos, TemLinha, MaesSemOrdens

LEMMA TiposVirarDia == ASSUME Tipos, VirarDia PROVE Tipos'
<1>1. hoje' \in 1..MaxDias[favorecido'] /\ hoje <= hoje' /\ hoje' \in Nat
  <2>1. MaxDias[favorecido] \in Nat
    BY PagamentoAssumption DEF Tipos
  <2> QED
    BY <2>1, Limites DEF VirarDia, Tipos
<1>2. /\ Ids' \subseteq 1..geradas'
      /\ opas' \in [Ids' -> TipoOpa(Ids', hoje', Len(headers'))]
      /\ TemLinha' /\ MaesSemOrdens'
  BY <1>1, Limites, OpasIguais DEF VirarDia
<1> QED
  BY <1>1, <1>2 DEF VirarDia, Tipos, banco_vars

LEMMA TiposRenovar == ASSUME Tipos, RenovarNsaRemessa PROVE Tipos'
<1>1. PICK hdr \in DOMAIN headers : headers' = [headers EXCEPT ![hdr] = "remessaGerado"]
  BY DEF RenovarNsaRemessa
<1>2. headers' \in Seq(StatusDeHeader) /\ Len(headers') = Len(headers)
  BY <1>1, HeaderTrocado DEF StatusDeHeader
<1>3. /\ Ids' \subseteq 1..geradas'
      /\ opas' \in [Ids' -> TipoOpa(Ids', hoje', Len(headers'))]
      /\ TemLinha' /\ MaesSemOrdens'
  BY <1>2, Limites, OpasIguais DEF RenovarNsaRemessa
<1> QED
  BY <1>2, <1>3 DEF RenovarNsaRemessa, Tipos, banco_vars

LEMMA LinhasFinitas == ASSUME Tipos PROVE IsFiniteSet(Linhas)
<1> DEFINE De(i) == {i} \X DOMAIN opas[i].hist
           T == {De(i) : i \in Ids}
           f == [i \in Ids |-> De(i)]
<1>1. IsFiniteSet(Ids)
  <2>1. IsFiniteSet(1..geradas) /\ Ids \in SUBSET (1..geradas)
    BY Limites, FS_Interval DEF Tipos
  <2> QED
    BY <2>1, FS_Subset
<1>2. \A i \in Ids : IsFiniteSet(De(i))
  BY TipoDaOpa, FS_Singleton, FS_Product
<1>3. f \in Surjection(Ids, T)
  BY DEF Surjection
<1>4. IsFiniteSet(T)
  <2> HIDE DEF f, T
  <2> QED
    BY <1>1, <1>3, FS_Surjection
<1>5. \A S \in T : IsFiniteSet(S)
  BY <1>2
<1>6. IsFiniteSet(UNION T)
  <2> HIDE DEF T
  <2> QED
    BY <1>4, <1>5, FS_UNION
<1> QED
  BY <1>6 DEF Linhas

\* SetToSeq lists every element once.
LEMMA SetToSeqLista ==
    ASSUME NEW S, IsFiniteSet(S)
    PROVE  /\ Cardinality(S) \in Nat
           /\ SetToSeq(S) \in [1..Cardinality(S) -> S]
           /\ \A a, b \in 1..Cardinality(S) : SetToSeq(S)[a] = SetToSeq(S)[b] => a = b
           /\ \A x \in S : \E a \in 1..Cardinality(S) : SetToSeq(S)[a] = x
<1> DEFINE n == Cardinality(S)
           Lista(f) == f \in [1..n -> S] /\ IsInjective(f)
<1>1. n \in Nat /\ ExistsBijection(1..n, S)
  BY FS_CardinalityType
<1>2. PICK g \in Bijection(1..n, S) : TRUE
  BY <1>1 DEF ExistsBijection
<1>3. Lista(g)
  BY <1>2 DEF Bijection, Injection
<1>4. SetToSeq(S) = CHOOSE f \in [1..n -> S] : IsInjective(f)
  BY DEF SetToSeq
<1> DEFINE fila == SetToSeq(S)
<1>5. fila \in [1..n -> S] /\ IsInjective(fila)
  <2> HIDE DEF n, fila
  <2> QED
    BY <1>3, <1>4 DEF fila
<1>6. fila \in Injection(1..n, S)
  BY <1>5 DEF Injection
<1>7. IsFiniteSet(1..n) /\ Cardinality(1..n) = n
  BY <1>1, FS_Interval
<1>8. fila \in Surjection(1..n, S)
  <2> HIDE DEF fila
  <2> QED
    BY <1>6, <1>7, FS_Injection
<1> QED
  BY <1>1, <1>5, <1>8 DEF IsInjective, Surjection

\* What EnviarRemessa asks of the bank for one row.
Pedido(l, hdr) == [dia |-> opas[l[1]].dia, valor |-> LinhaDe(l).valor, header |-> hdr,
                   fase |-> "recebida", retorno |-> <<>>]

\* EnviarRemessa adds one payment for each row of the open header.
LEMMA EnviarEfeito ==
    ASSUME Tipos, EnviarRemessa
    PROVE  \E hdr \in Gerados :
              /\ headers' = [headers EXCEPT ![hdr] = "remessaEnviado"]
              /\ instrucoes' \in Seq(TipoPedido)
              /\ DOMAIN instrucoes \subseteq DOMAIN instrucoes'
              /\ \A n \in DOMAIN instrucoes : instrucoes'[n] = instrucoes[n]
              /\ \E f \in [DOMAIN instrucoes' \ DOMAIN instrucoes ->
                             {l \in Linhas : LinhaDe(l).header = hdr}] :
                    /\ \A n \in DOMAIN f : instrucoes'[n] = Pedido(f[n], hdr)
                    /\ \A n, m \in DOMAIN f : f[n] = f[m] => n = m
                    /\ \A l \in Linhas : LinhaDe(l).header = hdr =>
                          \E n \in DOMAIN f : f[n] = l
<1>1. PICK hdr \in Gerados :
        /\ LET linhas == {l \in Linhas : LinhaDe(l).header = hdr}
               fila == SetToSeq(linhas)
           IN  instrucoes' = instrucoes \o [n \in DOMAIN fila |-> Pedido(fila[n], hdr)]
        /\ headers' = [headers EXCEPT ![hdr] = "remessaEnviado"]
  BY DEF EnviarRemessa, Enviado, Pedido
<1> DEFINE linhas == {l \in Linhas : LinhaDe(l).header = hdr}
           fila == SetToSeq(linhas)
           novas == [n \in DOMAIN fila |-> Pedido(fila[n], hdr)]
           c == Cardinality(linhas)
           m == Len(instrucoes)
<1>2. instrucoes' = instrucoes \o novas
  BY <1>1
<1>3. IsFiniteSet(linhas)
  BY LinhasFinitas, FS_Subset
<1>4. /\ c \in Nat /\ fila \in [1..c -> linhas]
      /\ \A a, b \in 1..c : fila[a] = fila[b] => a = b
      /\ \A x \in linhas : \E a \in 1..c : fila[a] = x
  <2> HIDE DEF linhas
  <2> QED
    BY <1>3, SetToSeqLista
<1>5. ASSUME NEW l \in linhas PROVE Pedido(l, hdr) \in TipoPedido
  <2>1. PICK i \in Ids : \E k \in DOMAIN opas[i].hist : l = <<i, k>>
    BY DEF Linhas
  <2>2. PICK k \in DOMAIN opas[i].hist : l = <<i, k>>
    BY <2>1
  <2>3. opas[i].dia \in Nat /\ opas[i].hist[k].valor \subseteq Ordens
    BY TipoDaOpa, TipoDaLinha
  <2>4. hdr \in Nat
    BY Limites DEF Gerados
  <2> QED
    BY <2>2, <2>3, <2>4 DEF Pedido, TipoPedido, LinhaDe, Fases
<1>6. novas \in Seq(TipoPedido) /\ Len(novas) = c
  <2>1. novas \in [1..c -> TipoPedido]
    BY <1>4, <1>5
  <2> HIDE DEF novas
  <2> QED
    BY <1>4, <2>1
<1>7. instrucoes \in Seq(TipoPedido) /\ m \in Nat /\ DOMAIN instrucoes = 1..m
  BY Limites DEF Tipos
<1>8. /\ instrucoes' \in Seq(TipoPedido) /\ Len(instrucoes') = m + c
      /\ DOMAIN instrucoes' = 1..(m + c)
      /\ \A n \in 1..(m + c) : instrucoes'[n] = IF n <= m THEN instrucoes[n] ELSE novas[n - m]
  <2> HIDE DEF novas, c
  <2>1. /\ instrucoes' \in Seq(TipoPedido) /\ Len(instrucoes') = m + c
        /\ \A n \in 1..(m + c) : instrucoes'[n] = IF n <= m THEN instrucoes[n] ELSE novas[n - m]
    BY <1>2, <1>6, <1>7, ConcatProperties
  <2> QED
    BY <2>1, LenProperties
<1> DEFINE D == DOMAIN instrucoes' \ DOMAIN instrucoes
           f == [n \in D |-> fila[n - m]]
<1>9. D = (m + 1)..(m + c)
  <2> HIDE DEF c
  <2> QED
    BY <1>4, <1>7, <1>8
<1>10. \A n \in D : n - m \in 1..c
  <2> HIDE DEF c, D
  <2> QED
    BY <1>4, <1>7, <1>9
<1>11. \A a \in 1..c : a + m \in D /\ (a + m) - m = a
  <2> HIDE DEF c, D
  <2> QED
    BY <1>4, <1>7, <1>9
<1>12. f \in [D -> linhas]
  <2> HIDE DEF c, D, linhas, fila
  <2> QED
    BY <1>4, <1>10
<1>13. \A n \in DOMAIN f : instrucoes'[n] = Pedido(f[n], hdr)
  <2> SUFFICES ASSUME NEW n \in D PROVE instrucoes'[n] = Pedido(fila[n - m], hdr)
    OBVIOUS
  <2>1. n \in 1..(m + c) /\ ~(n <= m)
    <3> HIDE DEF c, D
    <3> QED
      BY <1>4, <1>7, <1>9
  <2>2. instrucoes'[n] = novas[n - m]
    BY <1>8, <2>1
  <2>3. n - m \in DOMAIN fila
    <3> HIDE DEF c, D, linhas, fila
    <3> QED
      BY <1>4, <1>10
  <2> QED
    BY <2>2, <2>3
<1>14. \A a, b \in DOMAIN f : f[a] = f[b] => a = b
  <2> SUFFICES ASSUME NEW a \in D, NEW b \in D, fila[a - m] = fila[b - m] PROVE a = b
    OBVIOUS
  <2>1. a - m = b - m
    <3> HIDE DEF c, D, linhas, fila
    <3> QED
      BY <1>4, <1>10
  <2>2. a \in Int /\ b \in Int
    <3> HIDE DEF c, D
    <3> QED
      BY <1>4, <1>7, <1>9
  <2> QED
    BY <1>7, <2>1, <2>2
<1>15. \A l \in Linhas : LinhaDe(l).header = hdr => \E n \in DOMAIN f : f[n] = l
  <2> SUFFICES ASSUME NEW l \in linhas PROVE \E n \in D : fila[n - m] = l
    OBVIOUS
  <2>1. PICK a \in 1..c : fila[a] = l
    BY <1>4
  <2> HIDE DEF c, D, linhas, fila
  <2> QED
    BY <1>11, <2>1
<1>16. \A n \in DOMAIN instrucoes : n \in DOMAIN instrucoes' /\ instrucoes'[n] = instrucoes[n]
  <2> HIDE DEF c
  <2>1. \A n \in 1..m : n \in 1..(m + c) /\ n <= m
    BY <1>4, <1>7
  <2> QED
    BY <1>7, <1>8, <2>1
<1>17. \E g \in [D -> linhas] :
          /\ \A n \in DOMAIN g : instrucoes'[n] = Pedido(g[n], hdr)
          /\ \A a, b \in DOMAIN g : g[a] = g[b] => a = b
          /\ \A l \in Linhas : LinhaDe(l).header = hdr => \E n \in DOMAIN g : g[n] = l
  <2> HIDE DEF f, D, linhas
  <2> QED
    BY <1>12, <1>13, <1>14, <1>15
<1> QED
  <2> HIDE DEF linhas, novas, c, m, f
  <2> QED
    BY <1>1, <1>8, <1>16, <1>17 DEF linhas

LEMMA TiposEnviar == ASSUME Tipos, EnviarRemessa PROVE Tipos'
<1>1. PICK hdr \in Gerados : headers' = [headers EXCEPT ![hdr] = "remessaEnviado"]
                             /\ instrucoes' \in Seq(TipoPedido)
  BY EnviarEfeito
<1>2. headers' \in Seq(StatusDeHeader) /\ Len(headers') = Len(headers)
  BY <1>1, HeaderTrocado DEF StatusDeHeader, Gerados
<1>3. /\ Ids' \subseteq 1..geradas'
      /\ opas' \in [Ids' -> TipoOpa(Ids', hoje', Len(headers'))]
      /\ TemLinha' /\ MaesSemOrdens'
  BY <1>2, Limites, OpasIguais DEF EnviarRemessa
<1>4. envios' \in 0..MaxEnvios[favorecido']
  <2>1. MaxEnvios[favorecido] \in Nat
    BY PagamentoAssumption DEF Tipos
  <2> QED
    BY <2>1 DEF EnviarRemessa, Tipos
<1> QED
  BY <1>1, <1>2, <1>3, <1>4 DEF EnviarRemessa, Tipos

LEMMA TiposBanco == ASSUME Tipos, Banco PROVE Tipos'
<1>1. /\ instrucoes' \in Seq(TipoPedido)
      /\ creditos' \in [Ordens -> Nat]
      /\ UNCHANGED <<favorecido, opas, geradas, headers, envios, hoje>>
  <2>1. {Recusa, ErroDeLote, BD, Zero, Branco} \subseteq Ocorrencias
    BY DEF Ocorrencias
  <2>2. ASSUME NEW k \in DOMAIN instrucoes, NEW fase \in Fases,
               NEW lote \in Ocorrencias, NEW det \in Ocorrencias, Responder(k, fase, lote, det)
        PROVE  /\ instrucoes' \in Seq(TipoPedido)
               /\ UNCHANGED <<favorecido, opas, geradas, headers, envios, hoje>>
    <3>1. [instrucoes[k] EXCEPT !.fase = fase, !.retorno = <<lote, det>>] \in TipoPedido
      BY <2>2, TipoDoPedido DEF TipoPedido
    <3>2. instrucoes' = [instrucoes EXCEPT ![k] =
                           [instrucoes[k] EXCEPT !.fase = fase, !.retorno = <<lote, det>>]]
      BY <2>2 DEF Responder
    <3> QED
      BY <2>2, <3>1, <3>2, PedidoTrocado DEF Responder
  <2>3. CASE \E k \in DOMAIN instrucoes : BancoInclui(k)
    <3>1. PICK k \in DOMAIN instrucoes : BancoInclui(k)
      BY <2>3
    <3>2. creditos' \in [Ordens -> Nat]
      BY <3>1 DEF BancoInclui, Tipos
    <3>3. \E fase \in Fases : \E lote, det \in Ocorrencias : Responder(k, fase, lote, det)
      BY <2>1, <3>1 DEF BancoInclui, Fases
    <3> QED
      BY <2>2, <3>2, <3>3
  <2>4. CASE \E k \in DOMAIN instrucoes : BancoCredita(k)
    <3>1. PICK k \in DOMAIN instrucoes : BancoCredita(k)
      BY <2>4
    <3>2. creditos' \in [Ordens -> Nat]
      <4>1. creditos \in [Ordens -> Nat]
        BY DEF Tipos
      <4>2. \A o \in Ordens : creditos[o] + (IF o \in instrucoes[k].valor THEN 1 ELSE 0) \in Nat
        BY <4>1
      <4>3. \/ creditos' = creditos
            \/ creditos' = [o \in Ordens |-> creditos[o] +
                             IF o \in instrucoes[k].valor THEN 1 ELSE 0]
        BY <3>1 DEF BancoCredita
      <4> QED
        BY <4>1, <4>2, <4>3
    <3>3. \E fase \in Fases : \E lote, det \in Ocorrencias : Responder(k, fase, lote, det)
      BY <2>1, <3>1 DEF BancoCredita, Fases
    <3> QED
      BY <2>2, <3>2, <3>3
  <2>5. CASE BancoDevolve
    <3>1. PICK hdr \in DOMAIN headers :
            LET S == {k \in DOMAIN instrucoes : /\ instrucoes[k].header = hdr
                                                /\ instrucoes[k].fase = "recebida"}
            IN  instrucoes' = [k \in DOMAIN instrucoes |->
                                 IF k \in S
                                 THEN [instrucoes[k] EXCEPT !.fase = "devolvida",
                                                            !.retorno = <<Branco, Branco>>]
                                 ELSE instrucoes[k]]
      BY <2>5 DEF BancoDevolve
    <3>2. \A k \in DOMAIN instrucoes :
             [instrucoes[k] EXCEPT !.fase = "devolvida", !.retorno = <<Branco, Branco>>]
               \in TipoPedido
      BY <2>1, TipoDoPedido DEF TipoPedido, Fases
    <3>3. instrucoes' \in [1..Len(instrucoes) -> TipoPedido]
      BY <3>1, <3>2, Limites, TipoDoPedido
    <3>4. instrucoes' \in Seq(TipoPedido)
      BY <3>3, Limites
    <3> QED
      BY <2>5, <3>4 DEF BancoDevolve, Tipos
  <2> QED
    BY <2>3, <2>4, <2>5 DEF Banco
<1>2. /\ Ids' \subseteq 1..geradas'
      /\ opas' \in [Ids' -> TipoOpa(Ids', hoje', Len(headers'))]
      /\ TemLinha' /\ MaesSemOrdens'
  BY <1>1, Limites, OpasIguais
<1> QED
  BY <1>1, <1>2 DEF Tipos

\* AgruparOrdens makes a grouping of loose orders, or adds them to one of
\* today.
LEMMA AgruparEfeito ==
    ASSUME Tipos, AgruparOrdens
    PROVE  \E novas \in SUBSET Soltas :
              /\ novas # {}
              /\ \/ /\ geradas + 1 \notin Ids /\ geradas + 1 <= MaxOpas
                    /\ geradas' = geradas + 1
                    /\ \A i : i \in Ids' <=> i \in Ids \/ i = geradas + 1
                    /\ EhFuncao(opas')
                    /\ \A i \in Ids : opas'[i] = opas[i]
                    /\ opas'[geradas + 1] = Opa(novas, novas)
                 \/ \E i \in Ids :
                       /\ ~Mae(i)
                       /\ \/ "agruparDeNovo" \in Riscos
                          \/ opas[i].pai = 0 /\ \A h \in HistoricosDe(i) : Intocada(h)
                       /\ Ids' = Ids /\ geradas' = geradas
                       /\ opas' = [opas EXCEPT ![i] =
                             [opas[i] EXCEPT !.ordens = opas[i].ordens \cup novas,
                                             !.total  = opas[i].total \cup novas]]
<1>1. PICK janela \in SUBSET Ordens :
        LET novas == Soltas \cap janela
        IN  /\ novas # {}
            /\ \/ /\ DeHoje(janela) = {}
                  /\ geradas < MaxOpas
                  /\ opas' = [i \in Ids \cup {geradas + 1} |->
                                 IF i \in Ids THEN opas[i] ELSE Opa(novas, novas)]
                  /\ geradas' = geradas + 1
               \/ /\ \E i \in DeHoje(janela) :
                        /\ \/ "agruparDeNovo" \in Riscos
                           \/ opas[i].pai = 0 /\ \A h \in HistoricosDe(i) : Intocada(h)
                        /\ opas' = [opas EXCEPT ![i].ordens = @ \cup novas,
                                                ![i].total  = @ \cup novas]
                  /\ UNCHANGED geradas
  BY DEF AgruparOrdens
<1> DEFINE novas == Soltas \cap janela
<1>2. novas \in SUBSET Soltas /\ novas # {}
  BY <1>1
<1>3. geradas \in Nat /\ MaxOpas \in Nat /\ geradas + 1 \notin Ids
  BY Limites, PagamentoAssumption DEF Tipos
<1>4. CASE /\ geradas < MaxOpas
           /\ opas' = [i \in Ids \cup {geradas + 1} |->
                          IF i \in Ids THEN opas[i] ELSE Opa(novas, novas)]
           /\ geradas' = geradas + 1
  <2> HIDE DEF novas
  <2>1. Ids' = Ids \cup {geradas + 1}
    BY <1>4 DEF Ids
  <2>2. /\ \A i \in Ids : opas'[i] = opas[i]
        /\ opas'[geradas + 1] = Opa(novas, novas)
    BY <1>3, <1>4
  <2>3. EhFuncao(opas')
    BY <1>4 DEF EhFuncao
  <2>4. /\ geradas + 1 \notin Ids /\ geradas + 1 <= MaxOpas
        /\ geradas' = geradas + 1
        /\ \A i : i \in Ids' <=> i \in Ids \/ i = geradas + 1
    BY <1>3, <1>4, <2>1
  <2> QED
    BY <1>2, <2>2, <2>3, <2>4
<1>5. CASE /\ \E i \in DeHoje(janela) :
                 /\ \/ "agruparDeNovo" \in Riscos
                    \/ opas[i].pai = 0 /\ \A h \in HistoricosDe(i) : Intocada(h)
                 /\ opas' = [opas EXCEPT ![i].ordens = @ \cup novas,
                                         ![i].total  = @ \cup novas]
           /\ UNCHANGED geradas
  <2> HIDE DEF novas
  <2>1. PICK i \in DeHoje(janela) :
                 /\ \/ "agruparDeNovo" \in Riscos
                    \/ opas[i].pai = 0 /\ \A h \in HistoricosDe(i) : Intocada(h)
                 /\ opas' = [opas EXCEPT ![i].ordens = @ \cup novas,
                                         ![i].total  = @ \cup novas]
    BY <1>5
  <2>2. i \in Ids /\ ~Mae(i)
    BY <2>1 DEF DeHoje, Mae
  <2>3. opas[i] \in TipoOpa(Ids, hoje, Len(headers))
    BY <2>2, TipoDaOpa
  <2>4. opas \in [Ids -> TipoOpa(Ids, hoje, Len(headers))]
    BY DEF Tipos
  <2>5. opas' = [opas EXCEPT ![i] =
                             [opas[i] EXCEPT !.ordens = opas[i].ordens \cup novas,
                                             !.total  = opas[i].total \cup novas]]
    BY <2>1, <2>2, <2>3, <2>4 DEF TipoOpa
  <2>6. Ids' = Ids
    BY <2>5 DEF Ids
  <2> QED
    BY <1>2, <1>5, <2>1, <2>2, <2>5, <2>6
<1> QED
  BY <1>1, <1>4, <1>5

LEMMA TiposAgrupar == ASSUME Tipos, AgruparOrdens PROVE Tipos'
<1>1. PICK novas \in SUBSET Soltas :
              /\ novas # {}
              /\ \/ /\ geradas + 1 \notin Ids /\ geradas + 1 <= MaxOpas
                    /\ geradas' = geradas + 1
                    /\ \A i : i \in Ids' <=> i \in Ids \/ i = geradas + 1
                    /\ EhFuncao(opas')
                    /\ \A i \in Ids : opas'[i] = opas[i]
                    /\ opas'[geradas + 1] = Opa(novas, novas)
                 \/ \E i \in Ids :
                       /\ ~Mae(i)
                       /\ \/ "agruparDeNovo" \in Riscos
                          \/ opas[i].pai = 0 /\ \A h \in HistoricosDe(i) : Intocada(h)
                       /\ Ids' = Ids /\ geradas' = geradas
                       /\ opas' = [opas EXCEPT ![i] =
                             [opas[i] EXCEPT !.ordens = opas[i].ordens \cup novas,
                                             !.total  = opas[i].total \cup novas]]
  BY AgruparEfeito
<1>2. UNCHANGED <<favorecido, headers, banco_vars, hoje>>
  BY DEF AgruparOrdens
<1>3. novas \in SUBSET Ordens
  BY <1>1 DEF Soltas
<1>4. CASE /\ geradas + 1 \notin Ids /\ geradas + 1 <= MaxOpas
           /\ geradas' = geradas + 1
           /\ \A i : i \in Ids' <=> i \in Ids \/ i = geradas + 1
           /\ EhFuncao(opas')
           /\ \A i \in Ids : opas'[i] = opas[i]
           /\ opas'[geradas + 1] = Opa(novas, novas)
  <2>1. Ids' \subseteq 1..geradas' /\ geradas' \in 0..MaxOpas
    <3>1. geradas \in Nat /\ MaxOpas \in Nat /\ Ids \subseteq 1..geradas
      BY Limites, PagamentoAssumption DEF Tipos
    <3>2. 1..geradas \subseteq 1..(geradas + 1) /\ geradas + 1 \in 1..(geradas + 1)
      BY <3>1
    <3>3. \A i \in Ids' : i \in 1..(geradas + 1)
      BY <1>4, <3>1, <3>2
    <3>4. geradas + 1 \in 0..MaxOpas
      BY <1>4, <3>1
    <3> QED
      BY <1>4, <3>3, <3>4
  <2>2. TipoOpa(Ids, hoje, Len(headers)) \subseteq TipoOpa(Ids', hoje', Len(headers'))
    <3>1. Ids \subseteq Ids' /\ hoje' = hoje /\ headers' = headers
      BY <1>2, <1>4
    <3>2. hoje \in Nat /\ Len(headers) \in Nat /\ hoje <= hoje
          /\ Len(headers) <= Len(headers)
      BY Limites
    <3>3. TipoOpa(Ids, hoje, Len(headers)) \subseteq TipoOpa(Ids', hoje, Len(headers))
      BY <3>1, <3>2, TiposCrescem
    <3> QED
      BY <3>1, <3>3
  <2> DEFINE nova == Opa(novas, novas)
  <2>7. /\ nova \in TipoOpa(Ids, hoje, Len(headers))
        /\ nova.pai = 0 /\ nova.dia = hoje
        /\ 1 \in DOMAIN nova.hist /\ nova.hist[1].dia = hoje
    BY <1>3, OpaNova DEF Historico
  <2>8. opas'[geradas + 1] = nova
    BY <1>4
  <2> HIDE DEF nova
  <2>3. \A i \in Ids' : opas'[i] \in TipoOpa(Ids', hoje', Len(headers'))
    BY <1>4, <2>2, <2>7, <2>8, TipoDaOpa
  <2>4. opas' \in [Ids' -> TipoOpa(Ids', hoje', Len(headers'))]
    BY <1>4, <2>3 DEF EhFuncao, Ids
  <2>5. TemLinha'
    <3> SUFFICES ASSUME NEW i \in Ids'
                 PROVE  \E k \in DOMAIN opas'[i].hist :
                           opas'[i].hist[k].dia = opas'[i].dia \/ ~Intocada(opas'[i].hist[k])
      BY DEF TemLinha, Intocada
    <3>1. CASE i \in Ids
      <4>1. opas'[i] = opas[i]
        BY <1>4, <3>1
      <4>2. \E k \in DOMAIN opas[i].hist :
               opas[i].hist[k].dia = opas[i].dia \/ ~Intocada(opas[i].hist[k])
        BY <3>1 DEF Tipos, TemLinha
      <4> QED
        BY <4>1, <4>2
    <3>2. CASE i = geradas + 1
      BY <2>7, <2>8, <3>2
    <3> QED
      BY <1>4, <3>1, <3>2
  <2>6. MaesSemOrdens'
    <3> SUFFICES ASSUME NEW i \in Ids', opas'[i].pai # 0
                 PROVE  opas'[i].ordens # {} /\ opas'[opas'[i].pai].ordens = {}
      BY DEF MaesSemOrdens, Mae
    <3>1. i \in Ids
      BY <1>4, <2>7, <2>8
    <3>2. opas[i].pai \in Ids
      BY <1>4, <3>1, TipoDaOpa
    <3> QED
      BY <1>4, <3>1, <3>2 DEF Tipos, MaesSemOrdens, Mae
  <2> QED
    BY <1>2, <2>1, <2>4, <2>5, <2>6 DEF Tipos, banco_vars
<1>5. CASE \E i \in Ids :
                       /\ ~Mae(i)
                       /\ Ids' = Ids /\ geradas' = geradas
                       /\ opas' = [opas EXCEPT ![i] =
                             [opas[i] EXCEPT !.ordens = opas[i].ordens \cup novas,
                                             !.total  = opas[i].total \cup novas]]
  <2>1. PICK i \in Ids :
                       /\ ~Mae(i)
                       /\ Ids' = Ids /\ geradas' = geradas
                       /\ opas' = [opas EXCEPT ![i] =
                             [opas[i] EXCEPT !.ordens = opas[i].ordens \cup novas,
                                             !.total  = opas[i].total \cup novas]]
    BY <1>5
  <2> DEFINE nova == [opas[i] EXCEPT !.ordens = opas[i].ordens \cup novas,
                                     !.total  = opas[i].total \cup novas]
  <2>2. /\ nova \in TipoOpa(Ids, hoje, Len(headers))
        /\ nova.pai = opas[i].pai /\ nova.dia = opas[i].dia /\ nova.hist = opas[i].hist
        /\ nova.ordens # {}
    BY <1>1, <1>3, TipoDaOpa DEF TipoOpa
  <2>3. opas \in [Ids -> TipoOpa(Ids, hoje, Len(headers))]
    BY DEF Tipos
  <2> HIDE DEF nova
  <2>4. /\ opas' \in [Ids -> TipoOpa(Ids, hoje, Len(headers))]
        /\ opas'[i] = nova /\ \A j \in Ids \ {i} : opas'[j] = opas[j]
    BY <2>1, <2>2, <2>3 DEF nova
  <2>5. TemLinha'
    <3> SUFFICES ASSUME NEW j \in Ids
                 PROVE  \E k \in DOMAIN opas'[j].hist :
                           opas'[j].hist[k].dia = opas'[j].dia \/ ~Intocada(opas'[j].hist[k])
      BY <2>1 DEF TemLinha, Intocada
    <3>1. opas'[j].hist = opas[j].hist /\ opas'[j].dia = opas[j].dia
      BY <2>2, <2>4
    <3> QED
      BY <3>1 DEF Tipos, TemLinha
  <2>6. MaesSemOrdens'
    <3> SUFFICES ASSUME NEW j \in Ids, opas'[j].pai # 0
                 PROVE  opas'[j].ordens # {} /\ opas'[opas'[j].pai].ordens = {}
      BY <2>1 DEF MaesSemOrdens, Mae
    <3>1. opas'[j].pai = opas[j].pai /\ opas[j].pai \in Ids
      BY <2>2, <2>4, TipoDaOpa
    <3>2. opas[j].ordens # {} /\ opas[opas[j].pai].ordens = {} /\ opas[i].ordens # {}
      BY <2>1, <3>1 DEF Tipos, MaesSemOrdens, Mae
    <3> QED
      BY <2>2, <2>4, <3>1, <3>2
  <2> QED
    BY <1>2, <2>1, <2>4, <2>5, <2>6 DEF Tipos, banco_vars
<1> QED
  BY <1>1, <1>4, <1>5

\* The open header, or the one more there is.
LEMMA HeaderDoPreparo ==
    ASSUME Tipos, NEW S, PrepararRemessa(S)
    PROVE  /\ headers' \in Seq(StatusDeHeader)
           /\ Len(headers') \in Nat /\ Len(headers) <= Len(headers')
           /\ HeaderAberto \in 1..Len(headers') /\ headers'[HeaderAberto] = "remessaGerado"
           /\ DOMAIN headers' = 1..Len(headers')
           /\ \A h \in DOMAIN headers : h \in DOMAIN headers' /\ headers'[h] = headers[h]
           /\ \A h \in DOMAIN headers' : h \in DOMAIN headers \/ h = HeaderAberto
           /\ HeaderAberto \in DOMAIN headers => headers[HeaderAberto] = "remessaGerado"
<1>1. headers \in Seq(StatusDeHeader) /\ Len(headers) \in Nat /\ DOMAIN headers = 1..Len(headers)
  BY Limites DEF Tipos
<1>2. CASE Gerados # {}
  <2>1. HeaderAberto \in Gerados /\ headers' = headers
    BY <1>2 DEF HeaderAberto, PrepararRemessa
  <2>2. HeaderAberto \in DOMAIN headers /\ headers[HeaderAberto] = "remessaGerado"
    BY <2>1 DEF Gerados
  <2> QED
    BY <1>1, <2>1, <2>2
<1>3. CASE Gerados = {}
  <2>1. HeaderAberto = Len(headers) + 1 /\ headers' = Append(headers, "remessaGerado")
    BY <1>3 DEF HeaderAberto, PrepararRemessa
  <2>2. /\ headers' \in Seq(StatusDeHeader) /\ Len(headers') = Len(headers) + 1
        /\ \A h \in 1..Len(headers) : headers'[h] = headers[h]
        /\ headers'[Len(headers) + 1] = "remessaGerado"
    BY <1>1, <2>1, AppendProperties DEF StatusDeHeader
  <2>3. DOMAIN headers' = 1..Len(headers')
    BY <2>2, LenProperties
  <2> QED
    BY <1>1, <2>1, <2>2, <2>3
<1> QED
  BY <1>2, <1>3

LEMMA HeadersCrescem ==
    ASSUME Tipos, NEW n \in Nat, Len(headers) <= n
    PROVE  /\ TipoHistorico(hoje, Len(headers)) \subseteq TipoHistorico(hoje, n)
           /\ TipoHist(hoje, Len(headers)) \subseteq TipoHist(hoje, n)
           /\ TipoOpa(Ids, hoje, Len(headers)) \subseteq TipoOpa(Ids, hoje, n)
<1>1. hoje \in Nat /\ hoje <= hoje /\ Len(headers) \in Nat /\ Ids \subseteq Ids
  BY Limites
<1> QED
  BY <1>1, TiposCrescem

\* prepararRemessa changes the last row of each grouping it was given.
LEMMA PrepararEfeito ==
    ASSUME Tipos, NEW S \in SUBSET Ids, PrepararRemessa(S)
    PROVE  /\ Ids' = Ids /\ EhFuncao(opas')
           /\ \A i \in Ids : i \notin S => opas'[i] = opas[i]
           /\ \A i \in S :
                 /\ opas'[i] \in TipoOpa(Ids, hoje, Len(headers'))
                 /\ opas'[i].ordens = opas[i].ordens /\ opas'[i].total = opas[i].total
                 /\ opas'[i].pai = opas[i].pai /\ opas'[i].dia = opas[i].dia
                 /\ DOMAIN opas'[i].hist = DOMAIN opas[i].hist
                 /\ \A k \in DOMAIN opas[i].hist :
                       k # UltimoDe(opas[i].hist) => opas'[i].hist[k] = opas[i].hist[k]
                 /\ \A k \in DOMAIN opas[i].hist : k = UltimoDe(opas[i].hist) =>
                       /\ opas'[i].hist[k].status = PreparadoParaEnvio
                       /\ opas'[i].hist[k].motivo = opas[i].hist[k].motivo
                       /\ opas'[i].hist[k].dia = opas[i].hist[k].dia
                       /\ opas'[i].hist[k].header = HeaderAberto
                       /\ opas'[i].hist[k].valor = opas[i].total
<1>1. /\ opas' = [i \in Ids |->
                  IF i \in S
                  THEN [opas[i] EXCEPT !.hist[UltimoDe(opas[i].hist)] =
                          [@ EXCEPT !.status = PreparadoParaEnvio,
                                    !.header = HeaderAberto,
                                    !.valor  = opas[i].total]]
                  ELSE opas[i]]
      /\ headers' = IF Gerados # {} THEN headers ELSE Append(headers, "remessaGerado")
  BY DEF PrepararRemessa
<1>2. Ids' = Ids /\ EhFuncao(opas') /\ \A i \in Ids : i \notin S => opas'[i] = opas[i]
  BY <1>1 DEF Ids, EhFuncao
<1>3. /\ Len(headers') \in Nat /\ Len(headers) <= Len(headers') /\ Len(headers) \in Nat
      /\ HeaderAberto \in 0..Len(headers')
  <2>1. Len(headers') \in Nat /\ Len(headers) <= Len(headers') /\ HeaderAberto \in 1..Len(headers')
    BY HeaderDoPreparo
  <2> QED
    BY <2>1, Limites
<1>4. ASSUME NEW i \in S
      PROVE  /\ opas'[i] \in TipoOpa(Ids, hoje, Len(headers'))
             /\ opas'[i].ordens = opas[i].ordens /\ opas'[i].total = opas[i].total
             /\ opas'[i].pai = opas[i].pai /\ opas'[i].dia = opas[i].dia
             /\ DOMAIN opas'[i].hist = DOMAIN opas[i].hist
             /\ \A k \in DOMAIN opas[i].hist :
                   k # UltimoDe(opas[i].hist) => opas'[i].hist[k] = opas[i].hist[k]
             /\ \A k \in DOMAIN opas[i].hist : k = UltimoDe(opas[i].hist) =>
                   /\ opas'[i].hist[k].status = PreparadoParaEnvio
                   /\ opas'[i].hist[k].motivo = opas[i].hist[k].motivo
                   /\ opas'[i].hist[k].dia = opas[i].hist[k].dia
                   /\ opas'[i].hist[k].header = HeaderAberto
                   /\ opas'[i].hist[k].valor = opas[i].total
  <2> DEFINE u == UltimoDe(opas[i].hist)
             r == [opas[i].hist[u] EXCEPT !.status = PreparadoParaEnvio,
                                          !.header = HeaderAberto,
                                          !.valor  = opas[i].total]
             f == [opas[i].hist EXCEPT ![u] = r]
  <2>1. /\ opas[i] \in TipoOpa(Ids, hoje, Len(headers))
        /\ opas[i].hist \in TipoHist(hoje, Len(headers))
        /\ opas[i].total \in SUBSET Ordens /\ EhFuncao(opas[i].hist)
    BY TipoDaOpa
  <2>2. u \in DOMAIN opas[i].hist
    BY <2>1, UltimoExiste
  <2>3. opas[i].hist[u] \in TipoHistorico(hoje, Len(headers'))
    <3>1. opas[i].hist[u] \in TipoHistorico(hoje, Len(headers))
      BY <2>2, TipoDaLinha
    <3>2. 0..Len(headers) \subseteq 0..Len(headers')
      BY <1>3
    <3> HIDE DEF u
    <3> QED
      BY <3>1, <3>2 DEF TipoHistorico
  <2>4. /\ r \in TipoHistorico(hoje, Len(headers'))
        /\ r.status = PreparadoParaEnvio /\ r.motivo = opas[i].hist[u].motivo
        /\ r.dia = opas[i].hist[u].dia /\ r.header = HeaderAberto /\ r.valor = opas[i].total
    <3> DEFINE t == opas[i].hist[u]
               total == opas[i].total
    <3>1. PreparadoParaEnvio \in StatusRemessaEnum
      BY DEF StatusRemessaEnum, PreparadoParaEnvio
    <3>2. t \in TipoHistorico(hoje, Len(headers')) /\ total \in SUBSET Ordens
      BY <2>1, <2>3
    <3> HIDE DEF t, total
    <3>3. LET q == [t EXCEPT !.status = PreparadoParaEnvio, !.header = HeaderAberto,
                             !.valor = total]
          IN  /\ q \in TipoHistorico(hoje, Len(headers'))
              /\ q.status = PreparadoParaEnvio /\ q.motivo = t.motivo
              /\ q.dia = t.dia /\ q.header = HeaderAberto /\ q.valor = total
      BY <1>3, <3>1, <3>2 DEF TipoHistorico
    <3> QED
      BY <3>3 DEF t, total
  <2>5. opas'[i] = [opas[i] EXCEPT !.hist = f]
    <3> HIDE DEF u
    <3> QED
      BY <1>1, <2>1 DEF TipoOpa, u
  <2>6. /\ TipoOpa(Ids, hoje, Len(headers)) \subseteq TipoOpa(Ids, hoje, Len(headers'))
        /\ TipoHist(hoje, Len(headers)) \subseteq TipoHist(hoje, Len(headers'))
    BY <1>3, HeadersCrescem
  <2>7. /\ f \in TipoHist(hoje, Len(headers'))
        /\ DOMAIN f = DOMAIN opas[i].hist /\ f[u] = r
        /\ \A k \in DOMAIN opas[i].hist : k # u => f[k] = opas[i].hist[k]
    <3>1. opas[i].hist \in TipoHist(hoje, Len(headers'))
      BY <2>1, <2>6
    <3> HIDE DEF r, u
    <3>2. f \in TipoHist(hoje, Len(headers'))
      BY <2>4, <3>1, HistTrocado
    <3> QED
      BY <2>1, <2>2, <3>2 DEF EhFuncao
  <2>8. /\ opas'[i] \in TipoOpa(Ids, hoje, Len(headers'))
        /\ opas'[i].ordens = opas[i].ordens /\ opas'[i].total = opas[i].total
        /\ opas'[i].pai = opas[i].pai /\ opas'[i].dia = opas[i].dia
        /\ opas'[i].hist = f
    <3> HIDE DEF f
    <3>1. opas[i] \in TipoOpa(Ids, hoje, Len(headers'))
      BY <2>1, <2>6
    <3> QED
      BY <2>5, <2>7, <3>1 DEF TipoOpa
  <2> HIDE DEF f, r
  <2> QED
    BY <2>4, <2>7, <2>8
<1> QED
  BY <1>2, <1>4

LEMMA TiposPreparar ==
    ASSUME Tipos, NEW S \in SUBSET Ids, PrepararRemessa(S) PROVE Tipos'
<1>1. /\ headers' \in Seq(StatusDeHeader)
      /\ Len(headers') \in Nat /\ Len(headers) <= Len(headers')
      /\ HeaderAberto # 0
  <2>1. /\ headers' \in Seq(StatusDeHeader) /\ HeaderAberto \in 1..Len(headers')
        /\ Len(headers') \in Nat /\ Len(headers) <= Len(headers')
    BY HeaderDoPreparo
  <2> QED
    BY <2>1
<1>2. UNCHANGED <<favorecido, geradas, banco_vars, hoje>>
  BY DEF PrepararRemessa
<1>3. /\ Ids' = Ids /\ EhFuncao(opas')
      /\ \A i \in Ids : i \notin S => opas'[i] = opas[i]
      /\ \A i \in S : opas'[i] \in TipoOpa(Ids, hoje, Len(headers'))
      /\ \A i \in Ids : opas'[i].pai = opas[i].pai /\ opas'[i].ordens = opas[i].ordens
  BY PrepararEfeito
<1>4. TipoOpa(Ids, hoje, Len(headers)) \subseteq TipoOpa(Ids, hoje, Len(headers'))
  BY <1>1, HeadersCrescem
<1>5. opas' \in [Ids -> TipoOpa(Ids, hoje, Len(headers'))]
  BY <1>3, <1>4, TipoDaOpa DEF EhFuncao, Ids
<1>6. TemLinha'
  <2> SUFFICES ASSUME NEW i \in Ids
               PROVE  \E k \in DOMAIN opas'[i].hist :
                         opas'[i].hist[k].dia = opas'[i].dia \/ ~Intocada(opas'[i].hist[k])
    BY <1>3 DEF TemLinha, Intocada
  <2>1. PICK k \in DOMAIN opas[i].hist :
           opas[i].hist[k].dia = opas[i].dia \/ ~Intocada(opas[i].hist[k])
    BY DEF Tipos, TemLinha
  <2>2. CASE i \notin S
    BY <1>3, <2>1, <2>2
  <2>3. CASE i \in S
    <3>1. /\ DOMAIN opas'[i].hist = DOMAIN opas[i].hist /\ opas'[i].dia = opas[i].dia
          /\ k # UltimoDe(opas[i].hist) => opas'[i].hist[k] = opas[i].hist[k]
          /\ k = UltimoDe(opas[i].hist) => opas'[i].hist[k].status = PreparadoParaEnvio
      BY <2>1, <2>3, PrepararEfeito
    <3> QED
      BY <2>1, <3>1 DEF Intocada, Criado, PreparadoParaEnvio
  <2> QED
    BY <2>2, <2>3
<1>7. MaesSemOrdens'
  <2> SUFFICES ASSUME NEW i \in Ids, opas'[i].pai # 0
               PROVE  opas'[i].ordens # {} /\ opas'[opas'[i].pai].ordens = {}
    BY <1>3 DEF MaesSemOrdens, Mae
  <2>1. opas[i].pai \in Ids /\ opas[i].pai # 0
    BY <1>3, TipoDaOpa
  <2> QED
    BY <1>3, <2>1 DEF Tipos, MaesSemOrdens, Mae
<1> QED
  BY <1>1, <1>2, <1>3, <1>5, <1>6, <1>7 DEF Tipos, banco_vars

\* Headers left without rows are deleted, and no other.
LEMMA SemOrfaosEfeito ==
    ASSUME Tipos, headers' = SemOrfaos(opas')
    PROVE  /\ headers' \in Seq(StatusDeHeader) /\ Len(headers') = Len(headers)
           /\ DOMAIN headers' = DOMAIN headers
           /\ \A h \in DOMAIN headers : headers'[h] \in {headers[h], "apagado"}
           /\ \A h \in DOMAIN headers, i \in Ids' : \A k \in DOMAIN opas'[i].hist :
                 opas'[i].hist[k].header = h => headers'[h] = headers[h]
<1>1. headers \in Seq(StatusDeHeader) /\ Len(headers) \in Nat /\ DOMAIN headers = 1..Len(headers)
      /\ \A h \in DOMAIN headers : headers[h] \in StatusDeHeader
  BY Limites, ElementOfSeq DEF Tipos
<1>2. headers' = [h \in DOMAIN headers |->
        IF \/ Detalhes(h) = {}
           \/ \E i \in DOMAIN opas' : \E k \in DOMAIN opas'[i].hist :
                  opas'[i].hist[k].header = h
        THEN headers[h] ELSE "apagado"]
  BY DEF SemOrfaos
<1>3. /\ DOMAIN headers' = 1..Len(headers)
      /\ \A h \in DOMAIN headers : headers'[h] \in {headers[h], "apagado"}
  BY <1>1, <1>2
<1>4. \A h \in DOMAIN headers, i \in Ids' : \A k \in DOMAIN opas'[i].hist :
         opas'[i].hist[k].header = h => headers'[h] = headers[h]
  BY <1>2 DEF Ids
<1>5. headers' \in [1..Len(headers) -> StatusDeHeader]
  BY <1>1, <1>2 DEF StatusDeHeader
<1>6. headers' \in Seq(StatusDeHeader) /\ Len(headers') = Len(headers)
  BY <1>1, <1>5
<1> QED
  BY <1>1, <1>3, <1>4, <1>6

\* The groupings limparPreparo deletes.
Alvos == {i \in Ids : /\ opas[i].dia = hoje
                      /\ opas[i].ordens # {}
                      /\ \E h \in HistoricosDe(i) : /\ h.status = PreparadoParaEnvio
                                                    /\ h.header # 0}

LEMMA LimparEfeito ==
    ASSUME Tipos, LimparPreparo
    PROVE  /\ Ids' = Ids \ Alvos /\ EhFuncao(opas')
           /\ \A i \in Ids' : opas'[i] = opas[i]
           /\ headers' = SemOrfaos(opas')
           /\ ForaDoBanco(Alvos)
           /\ \A i \in Alvos : \A h \in HistoricosDe(i) :
                 h.header # 0 => h.status = PreparadoParaEnvio
<1>1. /\ opas' = [i \in Ids \ Alvos |-> opas[i]]
      /\ headers' = SemOrfaos([i \in Ids \ Alvos |-> opas[i]])
      /\ ForaDoBanco(Alvos)
      /\ {i \in Alvos : \E h \in HistoricosDe(i) :
                      h.header # 0 /\ h.status # PreparadoParaEnvio} = {}
  BY DEF LimparPreparo, Alvos
<1>2. headers' = SemOrfaos(opas')
  BY <1>1
<1>3. Ids' = Ids \ Alvos /\ EhFuncao(opas') /\ \A i \in Ids' : opas'[i] = opas[i]
  BY <1>1 DEF Ids, EhFuncao
<1>4. \A i \in Alvos : \A h \in HistoricosDe(i) : h.header # 0 => h.status = PreparadoParaEnvio
  BY <1>1
<1> QED
  BY <1>1, <1>2, <1>3, <1>4

LEMMA TiposLimpar == ASSUME Tipos, LimparPreparo PROVE Tipos'
<1>1. /\ Ids' = Ids \ Alvos /\ EhFuncao(opas')
      /\ \A i \in Ids' : opas'[i] = opas[i]
  BY LimparEfeito
<1>2. headers' \in Seq(StatusDeHeader) /\ Len(headers') = Len(headers)
  BY LimparEfeito, SemOrfaosEfeito
<1>3. UNCHANGED <<favorecido, geradas, banco_vars, hoje>>
  BY DEF LimparPreparo
\* A parent has no order, and so is not deleted.
<1>4. ASSUME NEW i \in Ids' PROVE opas[i].pai \in Ids' \cup {0}
  <2>1. i \in Ids /\ opas[i].pai \in Ids \cup {0}
    BY <1>1, TipoDaOpa
  <2>2. CASE opas[i].pai # 0
    <3>1. opas[opas[i].pai].ordens = {}
      BY <2>1, <2>2 DEF Tipos, MaesSemOrdens, Mae
    <3> QED
      BY <1>1, <2>1, <3>1 DEF Alvos
  <2> QED
    BY <2>2
<1>5. ASSUME NEW i \in Ids' PROVE opas'[i] \in TipoOpa(Ids', hoje', Len(headers'))
  <2>1. opas[i] \in TipoOpa(Ids, hoje, Len(headers)) /\ i \in Ids
    BY <1>1, TipoDaOpa
  <2>2. opas[i] \in TipoOpa(Ids', hoje, Len(headers))
    BY <1>4, <2>1 DEF TipoOpa
  <2> QED
    BY <1>1, <1>2, <1>3, <2>2
<1>6. opas' \in [Ids' -> TipoOpa(Ids', hoje', Len(headers'))]
  BY <1>1, <1>5 DEF EhFuncao, Ids
<1>7. TemLinha'
  <2> SUFFICES ASSUME NEW i \in Ids'
               PROVE  \E k \in DOMAIN opas'[i].hist :
                         opas'[i].hist[k].dia = opas'[i].dia \/ ~Intocada(opas'[i].hist[k])
    BY DEF TemLinha, Intocada
  <2>1. opas'[i] = opas[i] /\ i \in Ids
    BY <1>1
  <2> QED
    BY <2>1 DEF Tipos, TemLinha
<1>8. MaesSemOrdens'
  <2> SUFFICES ASSUME NEW i \in Ids', opas'[i].pai # 0
               PROVE  opas'[i].ordens # {} /\ opas'[opas'[i].pai].ordens = {}
    BY DEF MaesSemOrdens, Mae
  <2>1. opas'[i] = opas[i] /\ i \in Ids /\ opas[i].pai \in Ids'
    BY <1>1, <1>4
  <2>2. opas[i].ordens # {} /\ opas[opas[i].pai].ordens = {}
    BY <2>1 DEF Tipos, MaesSemOrdens, Mae
  <2> QED
    BY <1>1, <2>1, <2>2
<1> QED
  BY <1>1, <1>2, <1>3, <1>6, <1>7, <1>8 DEF Tipos, banco_vars

\* The parents limparPreparo of pending payments deletes, and the children.
Pais == {i \in Ids : /\ opas[i].dia = hoje
                     /\ FilhasDe(i) # {}
                     /\ StatusDe(i) \subseteq {Criado, PreparadoParaEnvio}}
FilhasDosPais == UNION {FilhasDe(i) : i \in Pais}

LEMMA LimparPendentesEfeito ==
    ASSUME Tipos, LimparPreparoPendentes
    PROVE  /\ Ids' = Ids \ (Pais \cup FilhasNovas(FilhasDosPais)) /\ EhFuncao(opas')
           /\ \A i \in Ids' : i \notin FilhasDosPais => opas'[i] = opas[i]
           /\ \A i \in Ids' : i \in FilhasDosPais =>
                 /\ opas'[i] \in TipoOpa({}, hoje, Len(headers))
                 /\ opas'[i].ordens = opas[i].ordens /\ opas'[i].total = opas[i].total
                 /\ opas'[i].pai = 0 /\ opas'[i].dia = opas[i].dia
                 /\ \A k : k \in DOMAIN opas'[i].hist <=>
                       k \in DOMAIN opas[i].hist /\ ~Aberta(opas[i].hist[k])
                 /\ \A k \in DOMAIN opas'[i].hist : opas'[i].hist[k] = opas[i].hist[k]
                 /\ \E k \in DOMAIN opas'[i].hist :
                       opas'[i].hist[k].dia = opas'[i].dia \/ ~Intocada(opas'[i].hist[k])
           /\ headers' = SemOrfaos(opas')
           /\ ForaDoBanco(Pais)
<1> DEFINE novas == FilhasNovas(FilhasDosPais)
<1>1. /\ opas' = [i \in Ids \ (Pais \cup novas) |->
                      IF i \in FilhasDosPais THEN FilhaSolta(i) ELSE opas[i]]
      /\ headers' = SemOrfaos([i \in Ids \ (Pais \cup novas) |->
                      IF i \in FilhasDosPais THEN FilhaSolta(i) ELSE opas[i]])
      /\ ForaDoBanco(Pais)
  BY DEF LimparPreparoPendentes, Pais, FilhasDosPais
<1>2. headers' = SemOrfaos(opas')
  BY <1>1
<1> HIDE DEF novas
<1>3. /\ Ids' = Ids \ (Pais \cup novas) /\ EhFuncao(opas')
      /\ \A i \in Ids' : i \notin FilhasDosPais => opas'[i] = opas[i]
      /\ \A i \in Ids' : i \in FilhasDosPais => opas'[i] = FilhaSolta(i)
  BY <1>1 DEF Ids, EhFuncao
<1>4. ASSUME NEW i \in Ids', i \in FilhasDosPais
      PROVE  /\ opas'[i] \in TipoOpa({}, hoje, Len(headers))
             /\ opas'[i].ordens = opas[i].ordens /\ opas'[i].total = opas[i].total
             /\ opas'[i].pai = 0 /\ opas'[i].dia = opas[i].dia
             /\ \A k : k \in DOMAIN opas'[i].hist <=>
                   k \in DOMAIN opas[i].hist /\ ~Aberta(opas[i].hist[k])
             /\ \A k \in DOMAIN opas'[i].hist : opas'[i].hist[k] = opas[i].hist[k]
             /\ \E k \in DOMAIN opas'[i].hist :
                   opas'[i].hist[k].dia = opas'[i].dia \/ ~Intocada(opas'[i].hist[k])
  <2> DEFINE D == {k \in DOMAIN opas[i].hist : ~Aberta(opas[i].hist[k])}
             f == Restrict(opas[i].hist, D)
  <2>1. i \in Ids /\ i \notin novas
    BY <1>3, <1>4
  <2>2. \E k \in D : opas[i].hist[k].dia = opas[i].dia \/ ~Intocada(opas[i].hist[k])
    <3>1. PICK k \in DOMAIN opas[i].hist :
             opas[i].hist[k].dia = opas[i].dia \/ ~Intocada(opas[i].hist[k])
      BY <2>1 DEF Tipos, TemLinha
    <3>2. CASE ~Intocada(opas[i].hist[k])
      BY <3>1, <3>2 DEF Aberta
    <3>3. CASE opas[i].dia # hoje /\ Intocada(opas[i].hist[k])
      BY <3>1, <3>3 DEF Aberta
    <3>4. CASE opas[i].dia = hoje
      <4>1. ~(\A h \in HistoricosDe(i) : Intocada(h))
        BY <1>4, <2>1, <3>4 DEF novas, FilhasNovas
      <4> QED
        BY <4>1 DEF HistoricosDe, Aberta
    <3> QED
      BY <3>2, <3>3, <3>4
  <2>3. f \in TipoHist(hoje, Len(headers))
    <3>1. opas[i].hist \in TipoHist(hoje, Len(headers)) /\ D \in SUBSET DOMAIN opas[i].hist
          /\ D # {}
      BY <2>1, <2>2, TipoDaOpa
    <3> HIDE DEF D
    <3> QED
      BY <3>1, HistReduzido
  <2>4. DOMAIN f = D /\ \A k \in D : f[k] = opas[i].hist[k]
    BY DEF Restrict
  <2>5. opas'[i] = [opas[i] EXCEPT !.pai = 0, !.hist = f]
    BY <1>3, <1>4 DEF FilhaSolta, Fechados
  <2> HIDE DEF f
  <2>6. /\ opas'[i] \in TipoOpa({}, hoje, Len(headers))
        /\ opas'[i].ordens = opas[i].ordens /\ opas'[i].total = opas[i].total
        /\ opas'[i].pai = 0 /\ opas'[i].dia = opas[i].dia /\ opas'[i].hist = f
    BY <2>1, <2>3, <2>5, TipoDaOpa DEF TipoOpa
  <2> QED
    BY <2>2, <2>4, <2>6
<1> QED
  BY <1>1, <1>2, <1>3, <1>4 DEF novas

\* A child of a parent that is deleted, and that stays, is told so.
LEMMA TiposLimparPendentes == ASSUME Tipos, LimparPreparoPendentes PROVE Tipos'
<1>1. /\ Ids' = Ids \ (Pais \cup FilhasNovas(FilhasDosPais)) /\ EhFuncao(opas')
      /\ \A i \in Ids' : i \notin FilhasDosPais => opas'[i] = opas[i]
      /\ \A i \in Ids' : i \in FilhasDosPais =>
            /\ opas'[i] \in TipoOpa({}, hoje, Len(headers))
            /\ opas'[i].pai = 0
            /\ \E k \in DOMAIN opas'[i].hist :
                  opas'[i].hist[k].dia = opas'[i].dia \/ ~Intocada(opas'[i].hist[k])
      /\ \A i \in Ids' : opas'[i].ordens = opas[i].ordens
  BY LimparPendentesEfeito
<1>2. headers' \in Seq(StatusDeHeader) /\ Len(headers') = Len(headers)
  BY LimparPendentesEfeito, SemOrfaosEfeito
<1>3. UNCHANGED <<favorecido, geradas, banco_vars, hoje>>
  BY DEF LimparPreparoPendentes
<1>4. ASSUME NEW i \in Ids', i \notin FilhasDosPais PROVE opas[i].pai \in Ids' \cup {0}
  <2>1. i \in Ids /\ opas[i].pai \in Ids \cup {0}
    BY <1>1, TipoDaOpa
  <2>2. CASE opas[i].pai # 0
    <3>1. opas[i].pai \notin Pais
      BY <1>4, <2>1 DEF FilhasDosPais, FilhasDe
    <3>2. opas[opas[i].pai].ordens = {}
      BY <2>1, <2>2 DEF Tipos, MaesSemOrdens, Mae
    <3>3. opas[i].pai \notin FilhasNovas(FilhasDosPais)
      <4> SUFFICES ASSUME opas[i].pai \in FilhasDosPais PROVE FALSE
        BY DEF FilhasNovas
      <4>1. opas[opas[i].pai].pai \in Pais
        BY DEF FilhasDosPais, FilhasDe
      <4>2. opas[opas[i].pai].pai # 0
        BY <4>1, Limites DEF Pais
      <4> QED
        BY <2>1, <2>2, <3>2, <4>2 DEF Tipos, MaesSemOrdens, Mae
    <3> QED
      BY <1>1, <2>1, <2>2, <3>1, <3>3
  <2> QED
    BY <2>2
<1>5. ASSUME NEW i \in Ids' PROVE opas'[i] \in TipoOpa(Ids', hoje', Len(headers'))
  <2>1. CASE i \in FilhasDosPais
    <3>1. opas'[i] \in TipoOpa({}, hoje, Len(headers))
      BY <1>1, <2>1
    <3> QED
      BY <1>2, <1>3, <3>1 DEF TipoOpa
  <2>2. CASE i \notin FilhasDosPais
    <3>1. opas[i] \in TipoOpa(Ids, hoje, Len(headers)) /\ i \in Ids
      BY <1>1, TipoDaOpa
    <3>2. opas[i] \in TipoOpa(Ids', hoje, Len(headers))
      BY <1>4, <2>2, <3>1 DEF TipoOpa
    <3> QED
      BY <1>1, <1>2, <1>3, <2>2, <3>2
  <2> QED
    BY <2>1, <2>2
<1>6. opas' \in [Ids' -> TipoOpa(Ids', hoje', Len(headers'))]
  BY <1>1, <1>5 DEF EhFuncao, Ids
<1>7. TemLinha'
  <2> SUFFICES ASSUME NEW i \in Ids'
               PROVE  \E k \in DOMAIN opas'[i].hist :
                         opas'[i].hist[k].dia = opas'[i].dia \/ ~Intocada(opas'[i].hist[k])
    BY DEF TemLinha, Intocada
  <2>1. CASE i \in FilhasDosPais
    BY <1>1, <2>1
  <2>2. CASE i \notin FilhasDosPais
    <3>1. opas'[i] = opas[i] /\ i \in Ids
      BY <1>1, <2>2
    <3> QED
      BY <3>1 DEF Tipos, TemLinha
  <2> QED
    BY <2>1, <2>2
<1>8. MaesSemOrdens'
  <2> SUFFICES ASSUME NEW i \in Ids', opas'[i].pai # 0
               PROVE  opas'[i].ordens # {} /\ opas'[opas'[i].pai].ordens = {}
    BY DEF MaesSemOrdens, Mae
  <2>1. i \notin FilhasDosPais
    BY <1>1
  <2>2. opas'[i] = opas[i] /\ i \in Ids /\ opas[i].pai \in Ids'
    BY <1>1, <1>4, <2>1
  <2>3. opas[i].ordens # {} /\ opas[opas[i].pai].ordens = {}
    BY <2>2 DEF Tipos, MaesSemOrdens, Mae
  <2> QED
    BY <1>1, <2>2, <2>3
<1> QED
  BY <1>1, <1>2, <1>3, <1>6, <1>7, <1>8 DEF Tipos, banco_vars

\* What the pending procedure opens for the orders it finds loose.
LEMMA FrescaNova ==
    ASSUME Tipos, NEW R \in SUBSET Ordens, NEW p, NEW ids, p \in ids
    PROVE  LET nova == Filha(Opa(R, R), p)
           IN  /\ nova \in TipoOpa(ids, hoje, Len(headers))
               /\ nova.ordens = R /\ nova.total = R /\ nova.pai = p /\ nova.dia = hoje
               /\ \A k : k \in DOMAIN nova.hist <=> k = 1 \/ k = 2
               /\ nova.hist[1] = Historico /\ nova.hist[2] = Historico
<1> DEFINE opa == Opa(R, R)
           nova == [opa EXCEPT !.pai = p, !.hist = MaisUm(@)]
<1>1. /\ Historico \in TipoHistorico(hoje, Len(headers))
      /\ opa.ordens = R /\ opa.total = R /\ opa.pai = 0 /\ opa.dia = hoje
      /\ DOMAIN opa.hist = {1} /\ opa.hist[1] = Historico
      /\ opa \in TipoOpa(Ids, hoje, Len(headers))
  BY OpaNova
<1> HIDE DEF opa
<1>2. opa.hist \in TipoHist(hoje, Len(headers))
  BY <1>1 DEF TipoOpa
<1>3. UltimoDe(opa.hist) = 1
  BY <1>1, MaiorDeUm DEF UltimoDe
<1>4. /\ \A k : k \in DOMAIN MaisUm(opa.hist) <=> k = 1 \/ k = 2
      /\ MaisUm(opa.hist)[1] = Historico /\ MaisUm(opa.hist)[2] = Historico
  <2>1. /\ \A k : k \in DOMAIN MaisUm(opa.hist) <=> k \in {1} \/ k = 1 + 1
        /\ \A k \in {1} : MaisUm(opa.hist)[k] = opa.hist[k]
        /\ MaisUm(opa.hist)[1 + 1] = Historico
    BY <1>1, <1>2, <1>3, UltimoExiste
  <2> QED
    BY <1>1, <2>1
<1>5. MaisUm(opa.hist) \in TipoHist(hoje, Len(headers))
  BY <1>1, <1>2, MaisUmTipo
<1>6. /\ nova \in TipoOpa(ids, hoje, Len(headers))
      /\ nova.ordens = R /\ nova.total = R /\ nova.pai = p /\ nova.dia = hoje
      /\ nova.hist = MaisUm(opa.hist)
  BY <1>1, <1>5 DEF TipoOpa
<1> QED
  BY <1>4, <1>6 DEF opa, Filha

\* A grouping that becomes a child, with one more row.
LEMMA FilhaNova ==
    ASSUME Tipos, NEW i \in Ids, NEW p, NEW ids, p \in ids
    PROVE  LET nova == Filha(opas[i], p)
               u == UltimoDe(opas[i].hist) + 1
           IN  /\ nova \in TipoOpa(ids, hoje, Len(headers))
               /\ nova.ordens = opas[i].ordens /\ nova.total = opas[i].total
               /\ nova.pai = p /\ nova.dia = opas[i].dia
               /\ u \notin DOMAIN opas[i].hist
               /\ \A k : k \in DOMAIN nova.hist <=> k \in DOMAIN opas[i].hist \/ k = u
               /\ \A k \in DOMAIN opas[i].hist : nova.hist[k] = opas[i].hist[k]
               /\ nova.hist[u] = Historico
<1> DEFINE nova == [opas[i] EXCEPT !.pai = p, !.hist = MaisUm(@)]
           u == UltimoDe(opas[i].hist) + 1
           g == MaisUm(opas[i].hist)
<1>1. /\ Historico \in TipoHistorico(hoje, Len(headers))
      /\ opas[i].hist \in TipoHist(hoje, Len(headers))
      /\ opas[i] \in TipoOpa(Ids, hoje, Len(headers))
  BY OpaNova, TipoDaOpa
<1>2. /\ u \notin DOMAIN opas[i].hist
      /\ \A k : k \in DOMAIN g <=> k \in DOMAIN opas[i].hist \/ k = u
      /\ \A k \in DOMAIN opas[i].hist : g[k] = opas[i].hist[k]
      /\ g[u] = Historico
  BY <1>1, UltimoExiste
<1>3. g \in TipoHist(hoje, Len(headers))
  BY <1>1, MaisUmTipo
<1> HIDE DEF u
<1>4. /\ nova \in TipoOpa(ids, hoje, Len(headers))
      /\ nova.ordens = opas[i].ordens /\ nova.total = opas[i].total
      /\ nova.pai = p /\ nova.dia = opas[i].dia /\ nova.hist = g
  BY <1>1, <1>3 DEF TipoOpa
<1> QED
  BY <1>2, <1>4 DEF u, Filha

LEMMA UltimaRejeicaoExiste ==
    ASSUME Tipos, NEW i \in Ids, \E h \in HistoricosDe(i) : Rejeicao(h)
    PROVE  /\ UltimaRejeicao(i) \in DOMAIN opas[i].hist
           /\ Rejeicao(opas[i].hist[UltimaRejeicao(i)])
<1> DEFINE S == {k \in DOMAIN opas[i].hist : Rejeicao(opas[i].hist[k])}
<1>1. S # {}
  BY DEF HistoricosDe
<1>2. S \in SUBSET Int /\ IsFiniteSet(S)
  <2>1. DOMAIN opas[i].hist \in SUBSET Nat /\ IsFiniteSet(DOMAIN opas[i].hist)
    BY TipoDaOpa
  <2> QED
    BY <2>1, FS_Subset
<1>3. Max(S) \in S
  <2> HIDE DEF S
  <2> QED
    BY <1>1, <1>2, MaiorExiste
<1> QED
  BY <1>3 DEF UltimaRejeicao

\* The pending procedure makes a parent, and children of what it takes: F the
\* refused groupings, N those never asked for, and one of R, the loose orders.
PendentesFeito(F, R, fresca, pai, total) ==
    /\ F \in SUBSET Ids /\ \A i \in F : Pendente(i)
    /\ R \in SUBSET Soltas
    /\ fresca = IF R = {} THEN {} ELSE {geradas + 1}
    /\ geradas + 1 \notin Ids /\ pai \notin Ids /\ pai \notin fresca /\ pai \in Nat
    /\ pai > geradas /\ pai <= MaxOpas /\ geradas' = pai
    /\ fresca \subseteq 1..pai
    /\ F \cup Nunca \cup fresca # {}
    /\ total \in SUBSET Ordens
    /\ \A o : (\/ o \in R
               \/ \E i \in Nunca : o \in opas[i].total
               \/ \E i \in F : o \in opas[i].hist[UltimaRejeicao(i)].valor)
              <=> o \in total
    /\ \A i : i \in Ids' <=> i \in Ids \/ i \in fresca \/ i = pai
    /\ EhFuncao(opas')
    /\ opas'[pai] = Opa({}, total)
    /\ \A i \in Ids : i \notin F /\ i \notin Nunca => opas'[i] = opas[i]
    /\ \A i \in Ids : i \in F \/ i \in Nunca => opas'[i] = Filha(opas[i], pai)
    /\ \A i \in fresca : opas'[i] = Filha(Opa(R, R), pai)

LEMMA AgruparSobPaiEfeito ==
    ASSUME Tipos, NEW F \in SUBSET Ids, \A i \in F : Pendente(i),
           NEW R \in SUBSET Soltas, AgruparSobPai(F, R)
    PROVE  \E fresca, pai, total : PendentesFeito(F, R, fresca, pai, total)
<1> DEFINE fresca == IdFresca(R)
           pai == geradas + Cardinality(IdFresca(R)) + 1
           total == TotalDoPai(F, R)
<1>1. /\ Nunca \subseteq Ids /\ R \subseteq Ordens
      /\ \A i \in F : \E h \in HistoricosDe(i) : Rejeicao(h)
  BY DEF Pendente, Nunca, Soltas
<1>2. /\ F \cup Nunca \cup fresca # {} /\ pai <= MaxOpas /\ geradas' = pai
      /\ opas' = [i \in Ids \cup (F \cup Nunca \cup fresca) \cup {pai} |->
                    IF i = pai THEN Opa({}, total)
                    ELSE IF i \in fresca THEN Filha(Opa(R, R), pai)
                    ELSE IF i \in F \cup Nunca \cup fresca THEN Filha(opas[i], pai)
                    ELSE opas[i]]
  BY DEF AgruparSobPai
<1>3. \A o : (\/ o \in R
              \/ \E i \in Nunca : o \in opas[i].total
              \/ \E i \in F : o \in opas[i].hist[UltimaRejeicao(i)].valor)
              <=> o \in total
  <2>1. \A o : o \in total <=>
           \E S \in {R} \cup {opas[i].total : i \in Nunca}
                        \cup {opas[i].hist[UltimaRejeicao(i)].valor : i \in F} : o \in S
    BY Zenon DEF TotalDoPai
  <2>2. \A S : S \in {R} \cup {opas[i].total : i \in Nunca}
                        \cup {opas[i].hist[UltimaRejeicao(i)].valor : i \in F} <=>
               \/ S = R
               \/ \E i \in Nunca : S = opas[i].total
               \/ \E i \in F : S = opas[i].hist[UltimaRejeicao(i)].valor
    OBVIOUS
  <2> HIDE DEF total
  <2> QED
    BY <2>1, <2>2
<1> HIDE DEF total
<1>5. total \in SUBSET Ordens
  <2>1. \A i \in F : opas[i].hist[UltimaRejeicao(i)].valor \subseteq Ordens
    BY <1>1, UltimaRejeicaoExiste, TipoDaLinha
  <2>2. \A i \in Nunca : opas[i].total \subseteq Ordens
    BY <1>1, TipoDaOpa
  <2> QED
    BY <1>1, <1>3, <2>1, <2>2
<1>6. fresca = IF R = {} THEN {} ELSE {geradas + 1}
  BY DEF IdFresca
<1>7. Cardinality(fresca) = IF R = {} THEN 0 ELSE 1
  BY <1>6, FS_EmptySet, FS_Singleton
<1>8. geradas \in Nat /\ Ids \subseteq 1..geradas
  BY Limites DEF Tipos
<1>9. pai = IF R = {} THEN geradas + 1 ELSE geradas + 2
  <2>1. pai = geradas + Cardinality(fresca) + 1
    OBVIOUS
  <2> HIDE DEF fresca, pai
  <2> QED
    BY <1>7, <1>8, <2>1
<1> HIDE DEF pai, fresca
<1>10. /\ geradas + 1 \notin Ids /\ pai \notin Ids /\ pai \notin fresca /\ pai \in Nat
       /\ pai > geradas /\ fresca \subseteq 1..pai
  BY <1>6, <1>8, <1>9
<1>11. fresca \cap Ids = {}
  BY <1>6, <1>10
<1>12. Ids' = Ids \cup fresca \cup {pai}
  <2>1. DOMAIN opas' = Ids \cup (F \cup Nunca \cup fresca) \cup {pai}
    BY <1>2
  <2> QED
    BY <1>1, <2>1 DEF Ids
<1>13. EhFuncao(opas')
  BY <1>2, Zenon DEF EhFuncao
<1>14. /\ opas'[pai] = Opa({}, total)
       /\ \A i \in Ids : i \notin F /\ i \notin Nunca => opas'[i] = opas[i]
       /\ \A i \in Ids : i \in F \/ i \in Nunca => opas'[i] = Filha(opas[i], pai)
       /\ \A i \in fresca : opas'[i] = Filha(Opa(R, R), pai)
  BY <1>2, <1>10, <1>11
<1>15. \A i : i \in Ids' <=> i \in Ids \/ i \in fresca \/ i = pai
  BY <1>12
<1>16. PendentesFeito(F, R, fresca, pai, total)
  BY <1>2, <1>5, <1>6, <1>10, <1>13, <1>14, <1>15, <1>3 DEF PendentesFeito
<1> QED
  BY <1>16

LEMMA PendentesEfeito ==
    ASSUME Tipos, AgruparPendentes
    PROVE  \E F \in SUBSET Ids, R \in SUBSET Soltas : \E fresca, pai, total :
              PendentesFeito(F, R, fresca, pai, total)
<1>1. PICK dias \in SUBSET (1..hoje), janela \in SUBSET Ordens :
              AgruparSobPai(Falhas(dias), OrdensNuncaAgrupadas(janela))
  BY DEF AgruparPendentes
<1>2. Falhas(dias) \in SUBSET Ids /\ \A i \in Falhas(dias) : Pendente(i)
  BY DEF Falhas
<1>3. OrdensNuncaAgrupadas(janela) \in SUBSET Soltas
  BY DEF OrdensNuncaAgrupadas
<1> QED
  BY <1>1, <1>2, <1>3, AgruparSobPaiEfeito

LEMMA TiposPendentes == ASSUME Tipos, AgruparPendentes PROVE Tipos'
<1>1. PICK F, R, fresca, pai, total :
                 /\ F \in SUBSET Ids /\ R \in SUBSET Soltas
                 /\ PendentesFeito(F, R, fresca, pai, total)
  BY PendentesEfeito
<1>2. UNCHANGED <<favorecido, headers, banco_vars, hoje>>
  BY DEF AgruparPendentes, AgruparSobPai
<1>3. /\ pai \in Nat /\ pai \notin Ids /\ pai \notin fresca /\ geradas' = pai
      /\ fresca \subseteq 1..pai /\ pai > geradas /\ pai <= MaxOpas
      /\ total \in SUBSET Ordens /\ R \in SUBSET Ordens
      /\ EhFuncao(opas') /\ opas'[pai] = Opa({}, total)
      /\ \A i : i \in Ids' <=> i \in Ids \/ i \in fresca \/ i = pai
      /\ fresca \cap Ids = {} /\ (fresca # {} => R # {})
  BY <1>1 DEF PendentesFeito, Soltas
<1>4. \A i \in Ids : \/ opas'[i] = opas[i]
                     \/ /\ opas'[i] = Filha(opas[i], pai)
                        /\ i \in F \/ i \in Nunca
  BY <1>1 DEF PendentesFeito
<1>5. \A i \in fresca : opas'[i] = Filha(Opa(R, R), pai)
  BY <1>1 DEF PendentesFeito
<1>6. geradas' \in 0..MaxOpas /\ Ids' \subseteq 1..geradas'
  <2>1. geradas \in Nat /\ MaxOpas \in Nat /\ Ids \subseteq 1..geradas
    BY Limites, PagamentoAssumption DEF Tipos
  <2>2. 1..geradas \subseteq 1..pai /\ pai \in 1..pai /\ pai \in 0..MaxOpas
    BY <1>3, <2>1
  <2> QED
    BY <1>3, <2>1, <2>2
<1>7. pai \in Ids' /\ Ids \subseteq Ids'
  BY <1>3
<1>8. TipoOpa(Ids, hoje, Len(headers)) \subseteq TipoOpa(Ids', hoje, Len(headers))
  <2>1. hoje \in Nat /\ Len(headers) \in Nat /\ hoje <= hoje /\ Len(headers) <= Len(headers)
    BY Limites
  <2> QED
    BY <1>7, <2>1, TiposCrescem
\* A grouping that was there: its place in the tables.
<1>9. ASSUME NEW i \in Ids
      PROVE  /\ opas'[i] \in TipoOpa(Ids', hoje, Len(headers))
             /\ opas'[i].ordens = opas[i].ordens
             /\ opas'[i].pai = opas[i].pai \/ (opas'[i].pai = pai /\ opas[i].ordens # {})
             /\ \E k \in DOMAIN opas'[i].hist :
                   opas'[i].hist[k].dia = opas'[i].dia \/ ~Intocada(opas'[i].hist[k])
  <2>1. opas[i] \in TipoOpa(Ids', hoje, Len(headers))
    BY <1>8, TipoDaOpa
  <2>2. PICK k \in DOMAIN opas[i].hist :
           opas[i].hist[k].dia = opas[i].dia \/ ~Intocada(opas[i].hist[k])
    BY DEF Tipos, TemLinha
  <2>3. CASE opas'[i] = opas[i]
    BY <2>1, <2>2, <2>3
  <2>4. CASE opas'[i] = Filha(opas[i], pai) /\ (i \in F \/ i \in Nunca)
    <3>1. opas[i].ordens # {}
      BY <1>1, <2>4 DEF PendentesFeito, Pendente, Nunca, NuncaEnviado
    <3>2. /\ opas'[i] \in TipoOpa(Ids', hoje, Len(headers))
          /\ opas'[i].ordens = opas[i].ordens
          /\ opas'[i].pai = pai /\ opas'[i].dia = opas[i].dia
          /\ k \in DOMAIN opas'[i].hist /\ opas'[i].hist[k] = opas[i].hist[k]
      BY <1>7, <2>2, <2>4, FilhaNova
    <3> QED
      BY <2>2, <3>1, <3>2
  <2> QED
    BY <1>4, <2>3, <2>4
<1>10. ASSUME NEW i \in fresca
       PROVE  /\ opas'[i] \in TipoOpa(Ids', hoje, Len(headers))
              /\ opas'[i].ordens # {} /\ opas'[i].pai = pai
              /\ \E k \in DOMAIN opas'[i].hist : opas'[i].hist[k].dia = opas'[i].dia
  <2>1. /\ opas'[i] \in TipoOpa(Ids', hoje, Len(headers))
        /\ opas'[i].ordens = R /\ opas'[i].pai = pai /\ opas'[i].dia = hoje
        /\ 1 \in DOMAIN opas'[i].hist /\ opas'[i].hist[1] = Historico
    BY <1>3, <1>5, <1>7, FrescaNova
  <2> QED
    BY <1>3, <2>1 DEF Historico
<1>11. /\ opas'[pai] \in TipoOpa(Ids', hoje, Len(headers))
       /\ opas'[pai].ordens = {} /\ opas'[pai].pai = 0
       /\ \E k \in DOMAIN opas'[pai].hist : opas'[pai].hist[k].dia = opas'[pai].dia
  <2> DEFINE nova == Opa({}, total)
  <2>1. /\ nova \in TipoOpa(Ids, hoje, Len(headers))
        /\ nova.ordens = {} /\ nova.pai = 0 /\ nova.dia = hoje
        /\ 1 \in DOMAIN nova.hist /\ nova.hist[1].dia = hoje
    <3>1. {} \in SUBSET Ordens /\ total \in SUBSET Ordens
      BY <1>3
    <3>2. Historico.dia = hoje
      BY DEF Historico
    <3> QED
      BY <3>1, <3>2, OpaNova
  <2>2. opas'[pai] = nova
    BY <1>3
  <2> HIDE DEF nova
  <2> QED
    BY <1>8, <2>1, <2>2
<1>12. opas' \in [Ids' -> TipoOpa(Ids', hoje', Len(headers'))]
  <2>1. \A i \in Ids' : opas'[i] \in TipoOpa(Ids', hoje, Len(headers))
    BY <1>3, <1>9, <1>10, <1>11
  <2> QED
    BY <1>2, <1>3, <2>1 DEF EhFuncao, Ids
<1>13. TemLinha'
  <2>1. \A i \in Ids' : \E k \in DOMAIN opas'[i].hist :
           opas'[i].hist[k].dia = opas'[i].dia \/ ~Intocada(opas'[i].hist[k])
    BY <1>3, <1>9, <1>10, <1>11
  <2> QED
    BY <2>1 DEF TemLinha, Intocada
<1>14. MaesSemOrdens'
  <2> SUFFICES ASSUME NEW i \in Ids', opas'[i].pai # 0
               PROVE  opas'[i].ordens # {} /\ opas'[opas'[i].pai].ordens = {}
    BY DEF MaesSemOrdens, Mae
  <2>1. CASE opas'[i].pai = pai /\ (i \in Ids => opas[i].ordens # {})
    BY <1>3, <1>9, <1>10, <1>11, <2>1
  <2>2. CASE i \in Ids /\ opas'[i].pai = opas[i].pai
    <3>1. opas[i].pai \in Ids /\ opas[i].ordens # {} /\ opas[opas[i].pai].ordens = {}
      BY <2>2, TipoDaOpa DEF Tipos, MaesSemOrdens, Mae
    <3> QED
      BY <1>9, <2>2, <3>1
  <2> QED
    BY <1>3, <1>9, <1>10, <1>11, <2>1, <2>2
<1> QED
  BY <1>2, <1>6, <1>12, <1>13, <1>14 DEF Tipos, banco_vars

-----------------------------------------------------------------------------
(* Reading an answer.                                                      *)

\* What an answer makes of a row, whatever the occurrences.
LEMMA BaixaTipo ==
    ASSUME NEW h, h.status \in StatusRemessaEnum,
           h.motivo \in Ocorrencias \cup {Nulo, Espacos},
           NEW lote \in Ocorrencias, NEW det \in Ocorrencias, NEW muitos \in BOOLEAN
    PROVE  /\ Baixa(h, lote, det, muitos).status \in StatusRemessaEnum
           /\ Baixa(h, lote, det, muitos).motivo \in Ocorrencias \cup {Nulo, Espacos}
<1>1. /\ NaoEfetivado \in StatusRemessaEnum /\ AguardandoPagamento \in StatusRemessaEnum
      /\ StatusDePago(muitos) \in StatusRemessaEnum
  BY DEF StatusRemessaEnum, NaoEfetivado, AguardandoPagamento, StatusDePago, PendenciaPaga,
         Efetivado
<1>2. SemTrim(lote) \in Ocorrencias \cup {Nulo, Espacos}
  BY DEF SemTrim
<1> QED
  BY <1>1, <1>2 DEF Baixa, Linha

LEMMA PropagadoTipo ==
    ASSUME NEW pai, NEW h, h.status \in StatusRemessaEnum,
           h.motivo \in Ocorrencias \cup {Nulo, Espacos},
           pai.motivo \in Ocorrencias \cup {Nulo, Espacos}
    PROVE  /\ Propagado(pai, h).status \in StatusRemessaEnum
           /\ Propagado(pai, h).motivo \in Ocorrencias \cup {Nulo, Espacos}
BY DEF Propagado, Linha, StatusRemessaEnum, PendenciaPaga, NaoEfetivado

LEMMA AplicadaTipo ==
    ASSUME Tipos, NEW h \in TipoHistorico(hoje, Len(headers)),
           NEW lote \in Ocorrencias, NEW det \in Ocorrencias, NEW muitos \in BOOLEAN
    PROVE  LET a == Aplicada(h, lote, det, muitos)
               b == Baixa(h, lote, det, muitos)
           IN  /\ a \in TipoHistorico(hoje, Len(headers))
               /\ a.status = b.status /\ a.motivo = b.motivo
               /\ a.dia = h.dia /\ a.header = h.header /\ a.valor = h.valor
<1> DEFINE b == Baixa(h, lote, det, muitos)
<1>1. h.status \in StatusRemessaEnum /\ h.motivo \in Ocorrencias \cup {Nulo, Espacos}
  BY DEF TipoHistorico
<1>2. b.status \in StatusRemessaEnum /\ b.motivo \in Ocorrencias \cup {Nulo, Espacos}
  BY <1>1, BaixaTipo
<1> HIDE DEF b
<1>3. LET a == [h EXCEPT !.status = b.status, !.motivo = b.motivo]
      IN  /\ a \in TipoHistorico(hoje, Len(headers))
          /\ a.status = b.status /\ a.motivo = b.motivo
          /\ a.dia = h.dia /\ a.header = h.header /\ a.valor = h.valor
  BY <1>2 DEF TipoHistorico
<1> QED
  BY <1>3 DEF Aplicada, b

\* A child's row after its parent's answer.
LEMMA DaFilhaTipo ==
    ASSUME Tipos, NEW h \in TipoHistorico(hoje, Len(headers)),
           NEW pai \in TipoHistorico(hoje, Len(headers)),
           NEW lote \in Ocorrencias, NEW det \in Ocorrencias, NEW muitos \in BOOLEAN
    PROVE  LET d == DaFilha(h, pai, lote, det, muitos)
               a == IF EmAberto(h) THEN Aplicada(h, lote, det, muitos) ELSE h
               p == Propagado(pai, a)
           IN  /\ d \in TipoHistorico(hoje, Len(headers))
               /\ d.status = p.status /\ d.motivo = p.motivo
               /\ d.dia = h.dia /\ d.header = h.header /\ d.valor = h.valor
<1> DEFINE a == IF EmAberto(h) THEN Aplicada(h, lote, det, muitos) ELSE h
           p == Propagado(pai, a)
<1>1. a \in TipoHistorico(hoje, Len(headers))
  BY AplicadaTipo
<1> HIDE DEF a
<1>2. /\ a.status \in StatusRemessaEnum /\ a.motivo \in Ocorrencias \cup {Nulo, Espacos}
      /\ pai.motivo \in Ocorrencias \cup {Nulo, Espacos}
  BY <1>1 DEF TipoHistorico
<1>3. p.status \in StatusRemessaEnum /\ p.motivo \in Ocorrencias \cup {Nulo, Espacos}
  BY <1>2, PropagadoTipo
<1> HIDE DEF p
<1>4. LET d == [h EXCEPT !.status = p.status, !.motivo = p.motivo]
      IN  /\ d \in TipoHistorico(hoje, Len(headers))
          /\ d.status = p.status /\ d.motivo = p.motivo
          /\ d.dia = h.dia /\ d.header = h.header /\ d.valor = h.valor
  BY <1>3 DEF TipoHistorico
<1> QED
  BY <1>4 DEF DaFilha, p, a

LEMMA DaFilhaFica ==
    ASSUME Tipos, NEW h \in TipoHistorico(hoje, Len(headers)),
           NEW pai \in TipoHistorico(hoje, Len(headers)),
           NEW lote \in Ocorrencias, NEW det \in Ocorrencias, NEW muitos \in BOOLEAN
    PROVE  LET d == DaFilha(h, pai, lote, det, muitos)
           IN  /\ d \in TipoHistorico(hoje, Len(headers))
               /\ d.dia = h.dia /\ d.header = h.header /\ d.valor = h.valor
BY DaFilhaTipo

\* The answer <<lote, det>> was applied to row n of grouping i.
Lido(i, n, lote, det) ==
    /\ i \in Ids /\ n \in DOMAIN opas[i].hist
    /\ lote \in Ocorrencias /\ det \in Ocorrencias
    /\ Ids' = Ids /\ EhFuncao(opas')
    /\ \A j \in Ids :
          /\ opas'[j] \in TipoOpa(Ids, hoje, Len(headers))
          /\ opas'[j].ordens = opas[j].ordens /\ opas'[j].total = opas[j].total
          /\ opas'[j].pai = opas[j].pai /\ opas'[j].dia = opas[j].dia
          /\ DOMAIN opas'[j].hist = DOMAIN opas[j].hist
    /\ \A j \in Ids : \A m \in DOMAIN opas[j].hist :
          /\ opas'[j].hist[m].dia = opas[j].hist[m].dia
          /\ opas'[j].hist[m].header = opas[j].hist[m].header
          /\ opas'[j].hist[m].valor = opas[j].hist[m].valor
    /\ opas'[i].hist[n] = Aplicada(opas[i].hist[n], lote, det, ComFilhas(i))
    /\ \A m \in DOMAIN opas[i].hist : m # n => opas'[i].hist[m] = opas[i].hist[m]
    /\ \A j \in Ids :
          IF j # i /\ opas[j].pai = i /\ ~ErroNoHeaderLote(opas[i].hist[n], lote)
          THEN \A m \in DOMAIN opas[j].hist : opas'[j].hist[m] =
                  DaFilha(opas[j].hist[m], opas'[i].hist[n], lote, det, ComFilhas(i))
          ELSE j # i => opas'[j] = opas[j]

LEMMA AtualizarEfeito ==
    ASSUME Tipos, NEW i \in Ids, NEW n \in DOMAIN opas[i].hist,
           NEW lote \in Ocorrencias, NEW det \in Ocorrencias,
           opas' = AtualizarStatusRemessaHistorico(i, n, lote, det)
    PROVE  Lido(i, n, lote, det)
<1> DEFINE nova == Aplicada(opas[i].hist[n], lote, det, ComFilhas(i))
           para == ErroNoHeaderLote(opas[i].hist[n], lote)
           muitos == ComFilhas(i)
           Tipo == TipoHistorico(hoje, Len(headers))
<1>1. opas' = [j \in Ids |->
           IF j = i THEN [opas[i] EXCEPT !.hist[n] = nova]
           ELSE IF j \in FilhasDe(i) /\ ~para
           THEN [opas[j] EXCEPT !.hist =
                   [m \in DOMAIN opas[j].hist |->
                      DaFilha(opas[j].hist[m], nova, lote, det, muitos)]]
           ELSE opas[j]]
  BY DEF AtualizarStatusRemessaHistorico
<1>2. muitos \in BOOLEAN
  BY DEF ComFilhas
<1>3. /\ opas[i].hist[n] \in Tipo /\ nova \in Tipo
      /\ nova.dia = opas[i].hist[n].dia /\ nova.header = opas[i].hist[n].header
      /\ nova.valor = opas[i].hist[n].valor
  <2>1. opas[i].hist[n] \in Tipo
    BY TipoDaLinha
  <2> HIDE DEF muitos
  <2> QED
    BY <1>2, <2>1, AplicadaTipo DEF muitos
<1> HIDE DEF nova, muitos, para, Tipo
<1>4. Ids' = Ids /\ EhFuncao(opas')
  BY <1>1 DEF Ids, EhFuncao
\* The grouping the answer is about.
<1>5. /\ opas'[i] \in TipoOpa(Ids, hoje, Len(headers))
      /\ opas'[i].ordens = opas[i].ordens /\ opas'[i].total = opas[i].total
      /\ opas'[i].pai = opas[i].pai /\ opas'[i].dia = opas[i].dia
      /\ DOMAIN opas'[i].hist = DOMAIN opas[i].hist
      /\ opas'[i].hist[n] = nova
      /\ \A m \in DOMAIN opas[i].hist : m # n => opas'[i].hist[m] = opas[i].hist[m]
  <2> DEFINE g == [opas[i].hist EXCEPT ![n] = nova]
  <2>1. /\ opas[i] \in TipoOpa(Ids, hoje, Len(headers))
        /\ opas[i].hist \in TipoHist(hoje, Len(headers)) /\ EhFuncao(opas[i].hist)
    BY TipoDaOpa
  <2>2. g \in TipoHist(hoje, Len(headers))
    BY <1>3, <2>1, HistTrocado DEF Tipo
  <2>3. /\ DOMAIN g = DOMAIN opas[i].hist /\ g[n] = nova
        /\ \A m \in DOMAIN opas[i].hist : m # n => g[m] = opas[i].hist[m]
    BY <2>1 DEF EhFuncao
  <2>4. opas'[i] = [opas[i] EXCEPT !.hist = g]
    BY <1>1, <2>1 DEF TipoOpa
  <2> HIDE DEF g
  <2> QED
    BY <2>1, <2>2, <2>3, <2>4 DEF TipoOpa
\* Its children.
<1>6. ASSUME NEW j \in Ids, j # i, opas[j].pai = i, ~para
      PROVE  /\ opas'[j] \in TipoOpa(Ids, hoje, Len(headers))
             /\ opas'[j].ordens = opas[j].ordens /\ opas'[j].total = opas[j].total
             /\ opas'[j].pai = opas[j].pai /\ opas'[j].dia = opas[j].dia
             /\ DOMAIN opas'[j].hist = DOMAIN opas[j].hist
             /\ \A m \in DOMAIN opas[j].hist :
                   /\ opas'[j].hist[m] = DaFilha(opas[j].hist[m], nova, lote, det, muitos)
                   /\ opas'[j].hist[m].dia = opas[j].hist[m].dia
                   /\ opas'[j].hist[m].header = opas[j].hist[m].header
                   /\ opas'[j].hist[m].valor = opas[j].hist[m].valor
  <2> DEFINE g == [m \in DOMAIN opas[j].hist |->
                      DaFilha(opas[j].hist[m], nova, lote, det, muitos)]
  <2>1. /\ opas[j] \in TipoOpa(Ids, hoje, Len(headers))
        /\ DOMAIN opas[j].hist \in SUBSET Nat
        /\ DOMAIN opas[j].hist # {} /\ IsFiniteSet(DOMAIN opas[j].hist)
    BY TipoDaOpa
  <2>2. ASSUME NEW m \in DOMAIN opas[j].hist
        PROVE  LET d == DaFilha(opas[j].hist[m], nova, lote, det, muitos)
               IN  /\ d \in TipoHistorico(hoje, Len(headers))
                   /\ d.dia = opas[j].hist[m].dia
                   /\ d.header = opas[j].hist[m].header
                   /\ d.valor = opas[j].hist[m].valor
    <3> DEFINE h == opas[j].hist[m]
    <3>1. h \in TipoHistorico(hoje, Len(headers)) /\ nova \in TipoHistorico(hoje, Len(headers))
      BY <1>3, TipoDaLinha DEF Tipo
    <3> HIDE DEF h
    <3>2. LET d == DaFilha(h, nova, lote, det, muitos)
          IN  /\ d \in TipoHistorico(hoje, Len(headers))
              /\ d.dia = h.dia /\ d.header = h.header /\ d.valor = h.valor
      BY <1>2, <3>1, DaFilhaFica
    <3> QED
      BY <3>2 DEF h
  <2>3. /\ EhFuncao(g) /\ DOMAIN g = DOMAIN opas[j].hist
        /\ \A m \in DOMAIN opas[j].hist :
              g[m] = DaFilha(opas[j].hist[m], nova, lote, det, muitos)
    BY DEF EhFuncao
  <2>4. opas'[j] = [opas[j] EXCEPT !.hist = g]
    BY <1>1, <1>6 DEF FilhasDe
  <2> HIDE DEF g
  <2>5. g \in TipoHist(hoje, Len(headers))
    BY <2>1, <2>2, <2>3, HistTipo
  <2>6. /\ opas'[j] \in TipoOpa(Ids, hoje, Len(headers))
        /\ opas'[j].ordens = opas[j].ordens /\ opas'[j].total = opas[j].total
        /\ opas'[j].pai = opas[j].pai /\ opas'[j].dia = opas[j].dia
        /\ opas'[j].hist = g
    BY <2>1, <2>4, <2>5 DEF TipoOpa
  <2> QED
    BY <2>2, <2>3, <2>6
<1>7. ASSUME NEW j \in Ids, j # i, ~(opas[j].pai = i /\ ~para) PROVE opas'[j] = opas[j]
  BY <1>1, <1>7 DEF FilhasDe
<1>8. \A j \in Ids :
          /\ opas'[j] \in TipoOpa(Ids, hoje, Len(headers))
          /\ opas'[j].ordens = opas[j].ordens /\ opas'[j].total = opas[j].total
          /\ opas'[j].pai = opas[j].pai /\ opas'[j].dia = opas[j].dia
          /\ DOMAIN opas'[j].hist = DOMAIN opas[j].hist
  BY <1>5, <1>6, <1>7, TipoDaOpa
<1>9. \A j \in Ids : \A m \in DOMAIN opas[j].hist :
          /\ opas'[j].hist[m].dia = opas[j].hist[m].dia
          /\ opas'[j].hist[m].header = opas[j].hist[m].header
          /\ opas'[j].hist[m].valor = opas[j].hist[m].valor
  BY <1>3, <1>5, <1>6, <1>7
<1>10. \A j \in Ids :
          IF j # i /\ opas[j].pai = i /\ ~para
          THEN \A m \in DOMAIN opas[j].hist : opas'[j].hist[m] =
                  DaFilha(opas[j].hist[m], opas'[i].hist[n], lote, det, muitos)
          ELSE j # i => opas'[j] = opas[j]
  BY <1>5, <1>6, <1>7
<1> QED
  BY <1>4, <1>5, <1>8, <1>9, <1>10 DEF Lido, nova, para, muitos

\* An answer is read once; it is applied to a row it finds, if any.
LEMMA LerRetornoEfeito ==
    ASSUME Tipos, NEW k \in DOMAIN instrucoes, LerRetorno(k)
    PROVE  /\ instrucoes[k].retorno # <<>>
           /\ instrucoes' \in Seq(TipoPedido) /\ DOMAIN instrucoes' = DOMAIN instrucoes
           /\ \A m \in DOMAIN instrucoes : m # k => instrucoes'[m] = instrucoes[m]
           /\ instrucoes'[k] = [instrucoes[k] EXCEPT !.retorno = <<>>]
           /\ UNCHANGED <<favorecido, geradas, headers, envios, creditos, hoje>>
           /\ \/ opas' = opas /\ GetDetalheARetorno(instrucoes[k]) = {}
              \/ \E i \in Ids : \E n \in DOMAIN opas[i].hist :
                    /\ <<i, n>> \in GetDetalheARetorno(instrucoes[k])
                    /\ Lido(i, n, instrucoes[k].retorno[1], instrucoes[k].retorno[2])
<1> DEFINE r == instrucoes[k].retorno
           achadas == GetDetalheARetorno(instrucoes[k])
           lida == [instrucoes[k] EXCEPT !.retorno = <<>>]
<1>1. /\ r # <<>>
      /\ instrucoes' = [instrucoes EXCEPT ![k].retorno = <<>>]
      /\ opas' \in IF achadas = {} THEN {opas}
                    ELSE {AtualizarStatusRemessaHistorico(l[1], l[2], r[1], r[2]) :
                             l \in achadas}
      /\ UNCHANGED <<favorecido, geradas, headers, envios, creditos, hoje>>
  BY DEF LerRetorno
<1>2. r \in Ocorrencias \X Ocorrencias /\ instrucoes[k] \in TipoPedido
  BY <1>1, TipoDoPedido
<1>3. r[1] \in Ocorrencias /\ r[2] \in Ocorrencias
  BY <1>2
<1>4. lida \in TipoPedido
  BY <1>2 DEF TipoPedido
<1>5. instrucoes' = [instrucoes EXCEPT ![k] = lida]
  BY <1>1
<1>6. /\ instrucoes' \in Seq(TipoPedido) /\ DOMAIN instrucoes' = DOMAIN instrucoes
      /\ instrucoes'[k] = lida
      /\ \A m \in DOMAIN instrucoes : m # k => instrucoes'[m] = instrucoes[m]
  BY <1>4, <1>5, PedidoTrocado
<1>7. CASE achadas # {}
  <2> HIDE DEF achadas, r
  <2>1. PICK l \in achadas :
           opas' = AtualizarStatusRemessaHistorico(l[1], l[2], r[1], r[2])
    BY <1>1, <1>7
  <2>2. PICK i \in Ids : \E n \in DOMAIN opas[i].hist : l = <<i, n>>
    BY <2>1 DEF achadas, GetDetalheARetorno, Linhas
  <2>3. PICK n \in DOMAIN opas[i].hist : l = <<i, n>>
    BY <2>2
  <2>4. opas' = AtualizarStatusRemessaHistorico(i, n, r[1], r[2])
    BY <2>1, <2>3
  <2>5. Lido(i, n, r[1], r[2])
    BY <1>3, <2>4, AtualizarEfeito
  <2> QED
    BY <1>1, <1>6, <2>1, <2>3, <2>5 DEF achadas, r
<1>8. CASE achadas = {}
  BY <1>1, <1>6, <1>8
<1> QED
  BY <1>7, <1>8

LEMMA TiposLerRetorno ==
    ASSUME Tipos, NEW k \in DOMAIN instrucoes, LerRetorno(k) PROVE Tipos'
<1>1. /\ instrucoes' \in Seq(TipoPedido)
      /\ UNCHANGED <<favorecido, geradas, headers, envios, creditos, hoje>>
  BY LerRetornoEfeito
<1>2. CASE opas' = opas
  <2>1. /\ Ids' \subseteq 1..geradas'
        /\ opas' \in [Ids' -> TipoOpa(Ids', hoje', Len(headers'))]
        /\ TemLinha' /\ MaesSemOrdens'
    BY <1>1, <1>2, Limites, OpasIguais
  <2> QED
    BY <1>1, <2>1 DEF Tipos
<1>3. ASSUME NEW i, NEW n, NEW lote, NEW det, Lido(i, n, lote, det) PROVE Tipos'
  <2>1. /\ Ids' = Ids /\ EhFuncao(opas')
        /\ \A j \in Ids :
              /\ opas'[j] \in TipoOpa(Ids, hoje, Len(headers))
              /\ opas'[j].ordens = opas[j].ordens
              /\ opas'[j].pai = opas[j].pai /\ opas'[j].dia = opas[j].dia
              /\ DOMAIN opas'[j].hist = DOMAIN opas[j].hist
        /\ \A j \in Ids : \A m \in DOMAIN opas[j].hist :
              /\ opas'[j].hist[m].dia = opas[j].hist[m].dia
              /\ opas'[j].hist[m].header = opas[j].hist[m].header
    BY <1>3 DEF Lido
  <2>2. opas' \in [Ids' -> TipoOpa(Ids', hoje', Len(headers'))]
    BY <1>1, <2>1 DEF EhFuncao, Ids
\* A row that was touched stays so: an answer makes no row Criado.
  <2>3. ASSUME NEW j \in Ids, NEW m \in DOMAIN opas[j].hist, ~Intocada(opas[j].hist[m])
        PROVE  ~Intocada(opas'[j].hist[m])
    <3>1. CASE opas[j].hist[m].header # 0
      BY <2>1, <3>1 DEF Intocada
    <3>2. CASE opas[j].hist[m].status # Criado
      <4>1. opas'[j].hist[m].status # Criado
        <5>1. opas[j].hist[m] \in TipoHistorico(hoje, Len(headers))
          BY TipoDaLinha
        <5>2. \A h \in TipoHistorico(hoje, Len(headers)) : h.status # Criado =>
                 Aplicada(h, lote, det, ComFilhas(i)).status # Criado
          <6> SUFFICES ASSUME NEW h \in TipoHistorico(hoje, Len(headers)), h.status # Criado
                       PROVE  Aplicada(h, lote, det, ComFilhas(i)).status # Criado
            OBVIOUS
          <6>1. Baixa(h, lote, det, ComFilhas(i)).status # Criado
            BY DEF Baixa, Linha, StatusDePago, Criado, NaoEfetivado, AguardandoPagamento,
                   PendenciaPaga, Efetivado
          <6>2. lote \in Ocorrencias /\ det \in Ocorrencias /\ ComFilhas(i) \in BOOLEAN
            BY <1>3 DEF Lido, ComFilhas
          <6> QED
            BY <6>1, <6>2, AplicadaTipo
        <5>3. ASSUME NEW p \in TipoHistorico(hoje, Len(headers))
              PROVE  DaFilha(opas[j].hist[m], p, lote, det, ComFilhas(i)).status # Criado
          <6> DEFINE h == opas[j].hist[m]
                     a == IF EmAberto(h) THEN Aplicada(h, lote, det, ComFilhas(i)) ELSE h
          <6>1. a.status # Criado
            BY <3>2, <5>1, <5>2
          <6> HIDE DEF a
          <6>2. Propagado(p, a).status # Criado
            BY <6>1 DEF Propagado, Linha, Criado, NaoEfetivado, PendenciaPaga
          <6>3. lote \in Ocorrencias /\ det \in Ocorrencias /\ ComFilhas(i) \in BOOLEAN
            BY <1>3 DEF Lido, ComFilhas
          <6>4. DaFilha(h, p, lote, det, ComFilhas(i)).status = Propagado(p, a).status
            BY <5>1, <6>3, DaFilhaTipo DEF a
          <6> QED
            BY <6>2, <6>4
        <5>4. /\ i \in Ids /\ n \in DOMAIN opas[i].hist
              /\ opas'[i].hist[n] = Aplicada(opas[i].hist[n], lote, det, ComFilhas(i))
              /\ \A q \in DOMAIN opas[i].hist : q # n => opas'[i].hist[q] = opas[i].hist[q]
              /\ \/ j = i
                 \/ opas'[j] = opas[j]
                 \/ opas'[j].hist[m] =
                       DaFilha(opas[j].hist[m], opas'[i].hist[n], lote, det, ComFilhas(i))
          BY <1>3 DEF Lido
        <5>5. opas'[i].hist[n] \in TipoHistorico(hoje, Len(headers))
          <6>1. /\ opas[i].hist[n] \in TipoHistorico(hoje, Len(headers))
                /\ lote \in Ocorrencias /\ det \in Ocorrencias /\ ComFilhas(i) \in BOOLEAN
            BY <1>3, <5>4, TipoDaLinha DEF Lido, ComFilhas
          <6> QED
            BY <5>4, <6>1, AplicadaTipo
        <5> QED
          BY <3>2, <5>1, <5>2, <5>3, <5>4, <5>5
      <4> QED
        BY <4>1 DEF Intocada
    <3> QED
      BY <2>3, <3>1, <3>2 DEF Intocada
  <2>4. TemLinha'
    <3>1. \A j \in Ids : \E m \in DOMAIN opas'[j].hist :
             opas'[j].hist[m].dia = opas'[j].dia \/ ~Intocada(opas'[j].hist[m])
      BY <2>1, <2>3 DEF Tipos, TemLinha
    <3> QED
      BY <2>1, <3>1 DEF TemLinha, Intocada
  <2>5. MaesSemOrdens'
    <3> SUFFICES ASSUME NEW j \in Ids, opas'[j].pai # 0
                 PROVE  opas'[j].ordens # {} /\ opas'[opas'[j].pai].ordens = {}
      BY <2>1 DEF MaesSemOrdens, Mae
    <3>1. opas[j].pai \in Ids /\ opas[j].pai # 0
      BY <2>1, TipoDaOpa
    <3>2. opas[j].ordens # {} /\ opas[opas[j].pai].ordens = {}
      BY <3>1 DEF Tipos, MaesSemOrdens, Mae
    <3> QED
      BY <2>1, <3>1, <3>2
  <2> QED
    BY <1>1, <2>1, <2>2, <2>4, <2>5 DEF Tipos
<1> QED
  BY <1>2, <1>3, LerRetornoEfeito

-----------------------------------------------------------------------------
\* Every step keeps the types.
LEMMA TiposPasso == Tipos /\ [Next]_vars => Tipos'
<1> SUFFICES ASSUME Tipos, [Next]_vars PROVE Tipos'
  OBVIOUS
<1>1. CASE AgruparOrdens
  BY <1>1, TiposAgrupar
<1>2. CASE PrepararNormal
  <2>1. PICK janela \in SUBSET Ordens : PrepararRemessa(FindAllCustom(janela))
    BY <1>2 DEF PrepararNormal
  <2>2. FindAllCustom(janela) \in SUBSET Ids
    BY DEF FindAllCustom, ComCriado
  <2> QED
    BY <2>1, <2>2, TiposPreparar
<1>3. CASE AgruparPendentes
  BY <1>3, TiposPendentes
<1>4. CASE PrepararPendentes
  <2>1. PICK janela \in SUBSET Ordens : PrepararRemessa(FindAllPendente(janela))
    BY <1>4 DEF PrepararPendentes
  <2>2. FindAllPendente(janela) \in SUBSET Ids
    BY DEF FindAllPendente, ComCriado
  <2> QED
    BY <2>1, <2>2, TiposPreparar
<1>5. CASE LimparPreparo
  BY <1>5, TiposLimpar
<1>6. CASE LimparPreparoPendentes
  BY <1>6, TiposLimparPendentes
<1>7. CASE EnviarRemessa
  BY <1>7, TiposEnviar
<1>8. CASE RenovarNsaRemessa
  BY <1>8, TiposRenovar
<1>9. CASE VirarDia
  BY <1>9, TiposVirarDia
<1>10. CASE Banco
  BY <1>10, TiposBanco
<1>11. CASE \E k \in DOMAIN instrucoes : LerRetorno(k)
  BY <1>11, TiposLerRetorno
<1>12. CASE UNCHANGED vars
  <2>1. /\ Ids' \subseteq 1..geradas'
        /\ opas' \in [Ids' -> TipoOpa(Ids', hoje', Len(headers'))]
        /\ TemLinha' /\ MaesSemOrdens'
    BY <1>12, Limites, OpasIguais DEF vars
  <2> QED
    BY <1>12, <2>1 DEF vars, Tipos
<1> QED
  BY <1>1, <1>2, <1>3, <1>4, <1>5, <1>6, <1>7, <1>8, <1>9, <1>10, <1>11, <1>12 DEF Next

\* Every variable has its type, for any payee, any number of orders, groupings,
\* files and days, and whatever the operator asks for: the tables never point at
\* a grouping or a header that is gone, and a grouping never loses all its rows.
THEOREM TiposSempre == Spec => []Tipos
<1>1. Init => Tipos
  BY TiposInit
<1>2. Tipos /\ [Next]_vars => Tipos'
  BY TiposPasso
<1> QED
  BY <1>1, <1>2, PTL DEF Spec

\* The type invariant the runs check.
THEOREM TypeOKSempre == Spec => []TypeOK
<1>1. Tipos => TypeOK
  BY TiposValem
<1> QED
  BY <1>1, TiposSempre, PTL
==============================================================================
