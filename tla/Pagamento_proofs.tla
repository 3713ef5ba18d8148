--------------------------- MODULE Pagamento_proofs ---------------------------
(***************************************************************************)
(* Proofs about Pagamento when the operator asks for none of the Riscos:   *)
(* no order is asked twice of the bank, nor credited twice, nor shown as   *)
(* paid when it was not, for any orders, payees and bounds; and the two    *)
(* reports of Relatorio list as pending, as paid and in all what the       *)
(* tables and the bank hold.                                               *)
(***************************************************************************)
EXTENDS PagamentoTipos_proofs, Relatorio

-----------------------------------------------------------------------------
(* The inductive invariant.                                                *)

\* What the bank may still answer; refused for a reason.
Viva(h)     == h.header # 0 /\ Casa(h)
Recusada(h) == h.status = NaoEfetivado /\ ~SemMotivo(h)

\* A row as it is in a file the bank did not accept yet.
Fresca(h) == \/ h.status = PreparadoParaEnvio /\ h.motivo = Nulo
             \/ h.status = NaoEfetivado /\ h.motivo = Branco

SemPedido(i) == \A k \in DOMAIN opas[i].hist : opas[i].hist[k].header = 0

\* A grouping sums its orders, or is a parent, which has one row; no order is
\* in two groupings.
Grupos ==
    /\ \A i \in Ids : opas[i].total # {}
    /\ \A i \in Ids : ~Mae(i) => opas[i].total = opas[i].ordens
    /\ \A i, j \in Ids : i # j => opas[i].ordens \cap opas[j].ordens = {}
    /\ \A i \in Ids : Mae(i) => opas[i].pai = 0 /\ DOMAIN opas[i].hist = {1}

\* A parent pays what its children hold, until it is refused and they may be
\* taken from it; a child is not at the bank by itself, and is paid only when
\* its parent is.
Filhas ==
    /\ \A i \in Ids : opas[i].pai # 0 => opas[i].ordens \subseteq opas[opas[i].pai].total
    /\ \A i \in Ids : Mae(i) /\ ~Recusada(opas[i].hist[1]) =>
          \A o \in opas[i].total : \E f \in Ids : opas[f].pai = i /\ o \in opas[f].ordens
    /\ \A i \in Ids : opas[i].pai # 0 =>
          \A k \in DOMAIN opas[i].hist : ~Viva(opas[i].hist[k])
    /\ \A i \in Ids : opas[i].pai # 0 /\ ~Pago(opas[opas[i].pai].hist[1]) =>
          \A k \in DOMAIN opas[i].hist : ~Pago(opas[i].hist[k])

\* The columns of a row agree with one another, and a DetalheA pays the total.
Colunas(i, h) ==
    /\ h.status = Criado => h.header = 0 /\ h.motivo = Nulo
    /\ h.header = 0 => h.status \in {Criado, NaoEfetivado, PendenciaPaga}
    /\ h.header # 0 => h.header \in DOMAIN headers /\ headers[h.header] # "apagado"
    /\ h.header # 0 => h.valor = opas[i].total
    /\ h.status = NaoEfetivado => h.motivo # Nulo
    /\ h.status = PreparadoParaEnvio => h.motivo = Nulo
    /\ opas[i].dia <= h.dia

Livro == \A i \in Ids : \A k \in DOMAIN opas[i].hist : Colunas(i, opas[i].hist[k])

UmPedidoPorGrupo ==
    \A i \in Ids : \A k, m \in DOMAIN opas[i].hist :
        opas[i].hist[k].header # 0 /\ opas[i].hist[m].header # 0 => k = m

\* The rows of a grouping never asked for: one, or one more as a child; and no
\* row is left to prepare in a grouping of today that was asked for.
UmaLinha(i) == \E k : /\ DOMAIN opas[i].hist = {k}
                      /\ Intocada(opas[i].hist[k])
                      /\ opas[i].hist[k].dia = opas[i].dia
DuasLinhas(i) == \E k, m : /\ k # m /\ DOMAIN opas[i].hist = {k, m}
                           /\ Intocada(opas[i].hist[k]) /\ Intocada(opas[i].hist[m])
                           /\ opas[i].hist[k].dia = opas[i].dia
                           /\ opas[i].hist[m].dia = opas[opas[i].pai].dia
NuncaPedidos ==
    /\ \A i \in Ids : ~Mae(i) /\ opas[i].pai = 0 /\ SemPedido(i) => UmaLinha(i)
    /\ \A i \in Ids : opas[i].pai # 0 /\ SemPedido(i)
                        /\ opas[opas[i].pai].hist[1].status \in {Criado, PreparadoParaEnvio}
                      => DuasLinhas(i)
    /\ \A i \in Ids : ~Mae(i) /\ opas[i].pai = 0 /\ ~SemPedido(i) /\ opas[i].dia = hoje =>
          \A k \in DOMAIN opas[i].hist : opas[i].hist[k].status # Criado

\* The row's payment was answered, or it is at the bank.
NoBanco(h) == \E n \in DOMAIN instrucoes :
                 /\ instrucoes[n].header = h.header
                 /\ instrucoes[n].valor = h.valor
                 /\ ~(instrucoes[n].fase = "devolvida" /\ instrucoes[n].retorno = <<>>)

\* The rows of an open file and of a file that was sent.
NoArquivo(h) ==
    h.header # 0 =>
        /\ headers[h.header] = "remessaGerado" => Fresca(h)
        /\ headers[h.header] = "remessaEnviado" =>
              \/ h.status = NaoEfetivado /\ h.motivo = Branco
              \/ NoBanco(h)

Arquivos ==
    /\ \A i \in Ids : \A k \in DOMAIN opas[i].hist : NoArquivo(opas[i].hist[k])
    /\ \A i, j \in Ids : \A k \in DOMAIN opas[i].hist : \A m \in DOMAIN opas[j].hist :
          /\ i # j
          /\ opas[i].hist[k].header # 0
          /\ opas[i].hist[k].header = opas[j].hist[m].header
          => opas[i].hist[k].valor \cap opas[j].hist[m].valor = {}
    /\ \A n \in DOMAIN instrucoes :
          headers[instrucoes[n].header] = "remessaGerado" =>
             instrucoes[n].fase = "devolvida" /\ instrucoes[n].retorno = <<>>

\* What the bank may have answered, and is not read.
FaseCerta(p) ==
    /\ p.fase = "recebida"  => p.retorno = <<>>
    /\ p.fase = "incluida"  => p.retorno \in {<<>>, <<BD, BD>>}
    /\ p.fase = "creditada" => p.retorno \in {<<>>, <<Zero, Zero>>}
    /\ p.fase = "recusada"  => p.retorno \in {<<>>, <<BD, Recusa>>, <<ErroDeLote, Recusa>>,
                                              <<Zero, Recusa>>}
    /\ p.fase = "devolvida" => p.retorno \in {<<>>, <<Branco, Branco>>}

\* The bank has the payment, or its answer was not read; or it was credited.
Aberto(p) == p.fase \in {"recebida", "incluida"} \/ p.retorno # <<>>
Vivo(p) == p.fase \notin {"recusada", "devolvida"} \/ p.retorno # <<>>

\* Its row waits for the credit.
Esperando(p) == \/ p.fase = "incluida" /\ p.retorno = <<>>
                \/ p.fase = "creditada"
                \/ p.retorno = <<Zero, Recusa>>

\* The row a payment is about, and the row of a payment that was made.
LinhaDoPedido(p, i, h) ==
    /\ opas[i].dia = p.dia
    /\ h.header = p.header /\ h.valor = p.valor
    /\ IF Esperando(p) THEN h.status = AguardandoPagamento ELSE Fresca(h)
LinhaDoCredito(p, h) == Pago(h) /\ h.header = p.header /\ h.valor = p.valor

Pedidos ==
    /\ \A n \in DOMAIN instrucoes :
          /\ FaseCerta(instrucoes[n])
          /\ instrucoes[n].header \in DOMAIN headers
          /\ instrucoes[n].valor # {}
    /\ \A n \in DOMAIN instrucoes : Aberto(instrucoes[n]) =>
          /\ headers[instrucoes[n].header] = "remessaEnviado"
          /\ \E i \in Ids : \E k \in DOMAIN opas[i].hist :
                LinhaDoPedido(instrucoes[n], i, opas[i].hist[k])
    /\ \A n, m \in DOMAIN instrucoes :
          n # m /\ Vivo(instrucoes[n]) /\ Vivo(instrucoes[m]) =>
             instrucoes[n].valor \cap instrucoes[m].valor = {}
    /\ \A n \in DOMAIN instrucoes :
          instrucoes[n].fase = "creditada" /\ instrucoes[n].retorno = <<>> =>
             \E i \in Ids : \E k \in DOMAIN opas[i].hist :
                LinhaDoCredito(instrucoes[n], opas[i].hist[k])

Creditada(o) == \E n \in DOMAIN instrucoes : /\ instrucoes[n].fase = "creditada"
                                             /\ o \in instrucoes[n].valor

Creditados ==
    /\ \A o \in Ordens : creditos[o] = IF Creditada(o) THEN 1 ELSE 0
    /\ \A i \in Ids : \A k \in DOMAIN opas[i].hist :
          Pago(opas[i].hist[k]) => \A o \in opas[i].total : creditos[o] > 0

IInv == /\ Tipos /\ Grupos /\ Filhas /\ Livro /\ UmPedidoPorGrupo
        /\ NuncaPedidos /\ Arquivos /\ Pedidos /\ Creditados

-----------------------------------------------------------------------------
(* What the invariant says of rows and payments.                           *)

\* Two groupings at the bank, or one there and one paid, share no order.
Separadas ==
    \A i, j \in Ids : \A k \in DOMAIN opas[i].hist : \A m \in DOMAIN opas[j].hist :
        /\ i # j
        /\ Viva(opas[i].hist[k])
        /\ Viva(opas[j].hist[m]) \/ Pago(opas[j].hist[m])
        => opas[i].total \cap opas[j].total = {}

LEMMA VivaNaoPaga ==
    ASSUME NEW h PROVE Viva(h) => ~Pago(h) /\ ~Recusada(h)
BY DEF Viva, Casa, Pago, Recusada, SemMotivo, PreparadoParaEnvio, AguardandoPagamento,
       NaoEfetivado, Efetivado, PendenciaPaga

LEMMA PagaNaoRecusada ==
    ASSUME NEW h PROVE Pago(h) => ~Recusada(h)
BY DEF Pago, Recusada, NaoEfetivado, Efetivado, PendenciaPaga

\* The orders a grouping pays are its own or of a child, unless it is a parent
\* that was refused.
LEMMA DeQuemE ==
    ASSUME Tipos, Grupos, Filhas, NEW i \in Ids, NEW k \in DOMAIN opas[i].hist,
           ~Recusada(opas[i].hist[k]), NEW o \in opas[i].total
    PROVE  \E f \in Ids : /\ o \in opas[f].ordens
                          /\ IF Mae(i) THEN opas[f].pai = i /\ k = 1 ELSE f = i
<1>1. CASE ~Mae(i)
  BY <1>1 DEF Grupos
<1>2. CASE Mae(i)
  <2>1. k = 1
    BY <1>2 DEF Grupos
  <2> QED
    BY <1>2, <2>1 DEF Filhas
<1> QED
  BY <1>1, <1>2

LEMMA SeparadasValem == Tipos /\ Grupos /\ Filhas => Separadas
<1> SUFFICES ASSUME Tipos, Grupos, Filhas,
                    NEW i \in Ids, NEW j \in Ids, i # j,
                    NEW k \in DOMAIN opas[i].hist, NEW m \in DOMAIN opas[j].hist,
                    Viva(opas[i].hist[k]),
                    Viva(opas[j].hist[m]) \/ Pago(opas[j].hist[m]),
                    NEW o \in opas[i].total, o \in opas[j].total
             PROVE  FALSE
  BY DEF Separadas
<1>1. ~Recusada(opas[i].hist[k]) /\ ~Pago(opas[i].hist[k]) /\ ~Recusada(opas[j].hist[m])
  BY VivaNaoPaga, PagaNaoRecusada
<1>2. PICK f \in Ids : /\ o \in opas[f].ordens
                       /\ IF Mae(i) THEN opas[f].pai = i /\ k = 1 ELSE f = i
  BY <1>1, DeQuemE
<1>3. PICK g \in Ids : /\ o \in opas[g].ordens
                       /\ IF Mae(j) THEN opas[g].pai = j /\ m = 1 ELSE g = j
  BY <1>1, DeQuemE
<1>4. f = g
  BY <1>2, <1>3 DEF Grupos
<1>5. i # 0 /\ j # 0
  BY Limites
<1>6. CASE Mae(i) /\ ~Mae(j)
  <2>1. opas[j].pai = i /\ k = 1
    BY <1>2, <1>3, <1>4, <1>6
  <2> QED
    BY <1>1, <1>5, <2>1 DEF Filhas
<1>7. CASE ~Mae(i) /\ Mae(j)
  <2>1. opas[i].pai = j
    BY <1>2, <1>3, <1>4, <1>7
  <2> QED
    BY <1>5, <2>1 DEF Filhas
<1> QED
  BY <1>2, <1>3, <1>4, <1>6, <1>7

\* The same after a step.
LEMMA SeparadasDepois ==
    ASSUME Tipos', Grupos', Filhas' PROVE Separadas'
BY SeparadasValem, PTL

\* The row of a payment the bank has or made, or whose answer was not read.
LEMMA LinhaDoVivo ==
    ASSUME IInv, NEW n \in DOMAIN instrucoes, Vivo(instrucoes[n])
    PROVE  \E i \in Ids : \E k \in DOMAIN opas[i].hist :
              LET h == opas[i].hist[k]
                  p == instrucoes[n]
              IN  /\ h.header = p.header /\ h.header # 0 /\ h.header \in DOMAIN headers
                  /\ h.valor = p.valor /\ p.valor = opas[i].total /\ p.valor # {}
                  /\ \/ /\ Aberto(p) /\ LinhaDoPedido(p, i, h)
                        /\ Viva(h) /\ headers[h.header] = "remessaEnviado"
                     \/ /\ ~Aberto(p) /\ p.fase = "creditada"
                        /\ Pago(h)
<1> DEFINE p == instrucoes[n]
<1>1. p.header \in DOMAIN headers /\ p.header # 0 /\ p.valor # {} /\ p.fase \in Fases
  BY Limites, TipoDoPedido DEF IInv, Pedidos
<1>2. CASE Aberto(p)
  <2>1. PICK i \in Ids : \E k \in DOMAIN opas[i].hist : LinhaDoPedido(p, i, opas[i].hist[k])
    BY <1>2 DEF IInv, Pedidos
  <2>2. PICK k \in DOMAIN opas[i].hist : LinhaDoPedido(p, i, opas[i].hist[k])
    BY <2>1
  <2> DEFINE h == opas[i].hist[k]
  <2>3. h.header = p.header /\ h.valor = p.valor /\ headers[p.header] = "remessaEnviado"
    BY <1>2, <2>2 DEF IInv, Pedidos, LinhaDoPedido
  <2>4. Colunas(i, h)
    BY DEF IInv, Livro
  <2>5. h.valor = opas[i].total
    BY <1>1, <2>3, <2>4 DEF Colunas
  <2>6. Viva(h)
    BY <1>1, <2>2 DEF LinhaDoPedido, Viva, Casa, Fresca, SemMotivo
  <2> HIDE DEF h, p
  <2>7. /\ h.header = p.header /\ h.header # 0 /\ h.header \in DOMAIN headers
        /\ h.valor = p.valor /\ p.valor = opas[i].total /\ p.valor # {}
        /\ Aberto(p) /\ LinhaDoPedido(p, i, h)
        /\ Viva(h) /\ headers[h.header] = "remessaEnviado"
    BY <1>1, <1>2, <2>2, <2>3, <2>5, <2>6 DEF h
  <2> QED
    BY <2>7 DEF h, p
<1>3. CASE ~Aberto(p)
  <2>1. p.fase = "creditada" /\ p.retorno = <<>>
    BY <1>1, <1>3 DEF Aberto, Vivo, Fases
  <2>2. PICK i \in Ids : \E k \in DOMAIN opas[i].hist : LinhaDoCredito(p, opas[i].hist[k])
    BY <2>1 DEF IInv, Pedidos
  <2>3. PICK k \in DOMAIN opas[i].hist : LinhaDoCredito(p, opas[i].hist[k])
    BY <2>2
  <2> DEFINE h == opas[i].hist[k]
  <2>4. h.header = p.header /\ h.valor = p.valor /\ Pago(h)
    BY <2>3 DEF LinhaDoCredito
  <2>5. Colunas(i, h)
    BY DEF IInv, Livro
  <2>6. h.valor = opas[i].total
    BY <1>1, <2>4, <2>5 DEF Colunas
  <2> HIDE DEF h, p
  <2>7. /\ h.header = p.header /\ h.header # 0 /\ h.header \in DOMAIN headers
        /\ h.valor = p.valor /\ p.valor = opas[i].total /\ p.valor # {}
        /\ ~Aberto(p) /\ p.fase = "creditada" /\ Pago(h)
    BY <1>1, <1>3, <2>1, <2>4, <2>6
  <2> QED
    BY <2>7 DEF h, p
<1> QED
  BY <1>2, <1>3

\* The orders of a payment are in a grouping whose row, or whose parent's row,
\* is at the bank or paid.
LEMMA OrdemDoVivo ==
    ASSUME IInv, NEW n \in DOMAIN instrucoes, Vivo(instrucoes[n]),
           NEW o \in instrucoes[n].valor
    PROVE  \E f \in Ids : /\ o \in opas[f].ordens
                          /\ \E i \in {f, opas[f].pai} \cap Ids : \E h \in HistoricosDe(i) :
                                h.header # 0 /\ (Viva(h) \/ Pago(h))
<1>1. PICK i \in Ids : \E k \in DOMAIN opas[i].hist :
         /\ opas[i].hist[k].header # 0 /\ o \in opas[i].total
         /\ Viva(opas[i].hist[k]) \/ Pago(opas[i].hist[k])
  BY LinhaDoVivo
<1>2. PICK k \in DOMAIN opas[i].hist :
         /\ opas[i].hist[k].header # 0 /\ o \in opas[i].total
         /\ Viva(opas[i].hist[k]) \/ Pago(opas[i].hist[k])
  BY <1>1
<1>3. ~Recusada(opas[i].hist[k])
  BY <1>2, VivaNaoPaga, PagaNaoRecusada
<1>4. PICK f \in Ids : o \in opas[f].ordens /\ (f = i \/ opas[f].pai = i)
  BY <1>2, <1>3, DeQuemE DEF IInv
<1>5. opas[i].hist[k] \in HistoricosDe(i)
  BY DEF HistoricosDe
<1> QED
  BY <1>2, <1>4, <1>5

-----------------------------------------------------------------------------
(* The properties the runs check follow from it.                           *)

LEMMA VivasSaoVivos ==
    ASSUME NEW o, NEW n \in Vivas(o)
    PROVE  n \in DOMAIN instrucoes /\ o \in instrucoes[n].valor /\ Vivo(instrucoes[n])
BY DEF Vivas, Vivo

LEMMA UmPedidoVivoVale == IInv => UmPedidoVivo
<1> SUFFICES ASSUME IInv, NEW o \in Ordens PROVE Cardinality(Vivas(o)) <= 1
  BY DEF UmPedidoVivo
<1>1. ASSUME NEW n \in Vivas(o), NEW m \in Vivas(o) PROVE n = m
  BY VivasSaoVivos DEF IInv, Pedidos
<1>2. CASE Vivas(o) = {}
  BY <1>2, FS_EmptySet
<1>3. CASE Vivas(o) # {}
  <2>1. PICK n \in Vivas(o) : Vivas(o) = {n}
    BY <1>1, <1>3
  <2>2. Cardinality({n}) = 1
    BY FS_Singleton
  <2>3. Cardinality(Vivas(o)) = 1
    BY <2>1, <2>2, Zenon
  <2> QED
    BY <2>3
<1> QED
  BY <1>2, <1>3

LEMMA PagoNoMaximoUmaVezVale == IInv => PagoNoMaximoUmaVez
BY DEF IInv, Creditados, PagoNoMaximoUmaVez

LEMMA SoltaNaoPagaVale == IInv => SoltaNaoPaga
<1> SUFFICES ASSUME IInv, NEW o \in Soltas, NEW n \in Vivas(o) PROVE FALSE
  BY DEF SoltaNaoPaga
<1>1. PICK f \in Ids : o \in opas[f].ordens
  BY VivasSaoVivos, OrdemDoVivo
<1> QED
  BY <1>1 DEF Soltas, Agrupadas

LEMMA LivroNaoMenteVale == IInv => LivroNaoMente
<1> SUFFICES ASSUME IInv, NEW i \in Ids, NEW k \in DOMAIN opas[i].hist,
                    Pago(opas[i].hist[k]), NEW o \in Cobertas(i)
             PROVE  creditos[o] > 0
  BY DEF LivroNaoMente, HistoricosDe
<1>1. o \in opas[i].ordens \/ \E f \in Ids : opas[f].pai = i /\ o \in opas[f].ordens
  BY DEF Cobertas, FilhasDe
<1>2. i # 0
  BY Limites DEF IInv
<1>3. o \in opas[i].total
  <2>1. CASE o \in opas[i].ordens
    BY <2>1 DEF IInv, Grupos, Mae
  <2>2. CASE \E f \in Ids : opas[f].pai = i /\ o \in opas[f].ordens
    BY <1>2, <2>2 DEF IInv, Filhas
  <2> QED
    BY <1>1, <2>1, <2>2
<1> QED
  BY <1>3 DEF IInv, Creditados

\* While no file was returned whole, a row at the bank or paid has a status the
\* pending procedure looks at.
LEMMA EmAndamento ==
    ASSUME IInv, ~HaDevolvido, NEW i \in Ids, NEW h \in HistoricosDe(i), Viva(h) \/ Pago(h)
    PROVE  h.status \in {PreparadoParaEnvio, AguardandoPagamento, Efetivado, PendenciaPaga}
<1>1. PICK k \in DOMAIN opas[i].hist : h = opas[i].hist[k]
  BY DEF HistoricosDe
<1>2. Colunas(i, h)
  BY <1>1 DEF IInv, Livro
<1>3. ~(h.status = NaoEfetivado /\ h.motivo = Branco)
  BY DEF HaDevolvido
<1> QED
  BY <1>2, <1>3 DEF Colunas, Viva, Casa, Pago, SemMotivo

LEMMA PendenteNaoPagoVale == IInv => PendenteNaoPago
<1> SUFFICES ASSUME IInv, ~HaDevolvido, NEW i \in Ids, Pendente(i) \/ NuncaEnviado(i),
                    NEW o \in opas[i].ordens,
                    NEW q, q = o \/ ( /\ o \in favorecido.iguais /\ q \in favorecido.iguais
                                      /\ q \notin opas[i].ordens ),
                    NEW n \in Vivas(q)
             PROVE  FALSE
  BY DEF PendenteNaoPago
<1>1. PICK f \in Ids : /\ q \in opas[f].ordens
                       /\ \E j \in {f, opas[f].pai} \cap Ids : \E h \in HistoricosDe(j) :
                                h.header # 0 /\ (Viva(h) \/ Pago(h))
  BY VivasSaoVivos, OrdemDoVivo
<1>2. PICK j \in {f, opas[f].pai} \cap Ids : \E h \in HistoricosDe(j) :
         /\ h.header # 0
         /\ h.status \in {PreparadoParaEnvio, AguardandoPagamento, Efetivado, PendenciaPaga}
  BY <1>1, EmAndamento
<1>3. PICK h \in HistoricosDe(j) :
         /\ h.header # 0
         /\ h.status \in {PreparadoParaEnvio, AguardandoPagamento, Efetivado, PendenciaPaga}
  BY <1>2
\* A copy of the order: the procedure looks for it.
<1>4. CASE q # o
  <2>1. ~JaPagaOuEmAndamento(o) /\ o \in favorecido.iguais /\ q \in favorecido.iguais \ {o}
    BY <1>4 DEF Pendente, NuncaEnviado, SemCopiaPaga
  <2>2. q \in opas[f].ordens \cap (favorecido.iguais \ {o})
    BY <1>1, <2>1
  <2> QED
    BY <1>3, <2>1, <2>2 DEF JaPagaOuEmAndamento
\* The order itself: its grouping is this one.
<1>5. CASE q = o
  <2>1. f = i
    BY <1>1, <1>5 DEF IInv, Grupos
  <2>2. h.status \in StatusDe(j) /\ 0 \notin Ids
    BY Limites DEF StatusDe, IInv
  <2>3. CASE Pendente(i)
    <3>1. j # i
      BY <1>3, <2>2, <2>3 DEF Pendente
    <3>2. h.status = NaoEfetivado
      BY <1>2, <2>1, <2>2, <2>3, <3>1 DEF Pendente
    <3> QED
      BY <1>3, <3>2 DEF NaoEfetivado, PreparadoParaEnvio, AguardandoPagamento, Efetivado,
                        PendenciaPaga
  <2>4. CASE NuncaEnviado(i)
    <3>1. j = i
      BY <1>2, <2>1, <2>2, <2>4 DEF NuncaEnviado
    <3> QED
      BY <1>3, <2>4, <3>1 DEF NuncaEnviado, Intocada
  <2> QED
    BY <2>3, <2>4
<1> QED
  BY <1>4, <1>5

\* The row an answer finds is the one that was asked for.
LEMMA UmaLinhaAchada ==
    ASSUME IInv, NEW n \in DOMAIN instrucoes, instrucoes[n].retorno # <<>>,
           NEW i \in Ids, NEW k \in DOMAIN opas[i].hist,
           Viva(opas[i].hist[k]), opas[i].hist[k].header = instrucoes[n].header,
           LinhaDoPedido(instrucoes[n], i, opas[i].hist[k])
    PROVE  GetDetalheARetorno(instrucoes[n]) = {<<i, k>>}
<1> DEFINE p == instrucoes[n]
           h == opas[i].hist[k]
<1>1. /\ h.valor = p.valor /\ h.valor = opas[i].total /\ opas[i].dia = p.dia /\ h.header # 0
  BY DEF LinhaDoPedido, IInv, Livro, Colunas, Viva
<1>2. Cobertas(i) # {}
  <2>1. PICK o \in opas[i].total : TRUE
    BY DEF IInv, Grupos
  <2>2. PICK f \in Ids : o \in opas[f].ordens /\ (f = i \/ opas[f].pai = i)
    BY <2>1, VivaNaoPaga, DeQuemE DEF IInv
  <2> QED
    BY <2>2 DEF Cobertas, FilhasDe
<1>3. <<i, k>> \in GetDetalheARetorno(p)
  BY <1>1, <1>2 DEF GetDetalheARetorno, Linhas, LinhaDe, Viva
<1>4. ASSUME NEW l \in GetDetalheARetorno(p) PROVE l = <<i, k>>
  <2>1. PICK j \in Ids : \E m \in DOMAIN opas[j].hist : l = <<j, m>>
    BY DEF GetDetalheARetorno, Linhas
  <2>2. PICK m \in DOMAIN opas[j].hist : l = <<j, m>>
    BY <2>1
  <2>3. Viva(opas[j].hist[m]) /\ opas[j].hist[m].valor = p.valor
    BY <2>2 DEF GetDetalheARetorno, LinhaDe, Viva
  <2>4. opas[j].total = p.valor /\ p.valor # {}
    BY <2>3 DEF IInv, Livro, Colunas, Viva, Pedidos
  <2>5. j = i
    BY <1>1, <2>3, <2>4, SeparadasValem DEF IInv, Separadas
  <2>6. m = k
    BY <2>3, <2>5 DEF IInv, UmPedidoPorGrupo, Viva
  <2> QED
    BY <2>2, <2>5, <2>6
<1> QED
  BY <1>3, <1>4

LEMMA RespostaAchaSuaLinhaVale == IInv => RespostaAchaSuaLinha
<1> SUFFICES ASSUME IInv, NEW n \in DOMAIN instrucoes, instrucoes[n].retorno # <<>>
             PROVE  Cardinality(GetDetalheARetorno(instrucoes[n])) = 1
  BY DEF RespostaAchaSuaLinha
<1>1. Vivo(instrucoes[n]) /\ Aberto(instrucoes[n])
  BY DEF Vivo, Aberto
<1>2. PICK i \in Ids : \E k \in DOMAIN opas[i].hist :
         /\ Viva(opas[i].hist[k]) /\ opas[i].hist[k].header = instrucoes[n].header
         /\ LinhaDoPedido(instrucoes[n], i, opas[i].hist[k])
  BY <1>1, LinhaDoVivo
<1>3. PICK k \in DOMAIN opas[i].hist : GetDetalheARetorno(instrucoes[n]) = {<<i, k>>}
  BY <1>2, UmaLinhaAchada
<1> QED
  BY <1>3, FS_Singleton

-----------------------------------------------------------------------------
(* Steps that leave the groupings alone.                                   *)

LEMMA OpasIguaisInv ==
    ASSUME IInv, opas' = opas, hoje <= hoje', hoje' \in Nat
    PROVE  /\ Ids' = Ids /\ Grupos' /\ Filhas' /\ UmPedidoPorGrupo' /\ NuncaPedidos'
           /\ \A i \in Ids : SemPedido(i)' = SemPedido(i)
<1>1. Ids' = Ids
  BY DEF Ids
<1>2. \A i \in Ids : Mae(i)' = Mae(i) /\ SemPedido(i)' = SemPedido(i)
  BY DEF Mae, SemPedido
<1>3. Grupos'
  BY <1>1, <1>2 DEF IInv, Grupos
<1>4. Filhas'
  <2>1. \A h : Recusada(h)' = Recusada(h) /\ Viva(h)' = Viva(h) /\ Pago(h)' = Pago(h)
    BY DEF Recusada, Viva, Pago, SemMotivo, Casa
  <2> QED
    BY <1>1, <1>2, <2>1 DEF IInv, Filhas
<1>5. UmPedidoPorGrupo'
  BY <1>1 DEF IInv, UmPedidoPorGrupo
<1>6. NuncaPedidos'
  <2>1. \A i \in Ids : opas[i].dia = hoje' => opas[i].dia = hoje
    <3>1. \A i \in Ids : opas[i].dia \in 1..hoje
      BY TipoDaOpa DEF IInv
    <3>2. hoje \in Nat
      BY Limites DEF IInv
    <3> QED
      BY <3>1, <3>2
  <2> QED
    BY <1>1, <1>2, <2>1 DEF IInv, NuncaPedidos, UmaLinha, DuasLinhas, Intocada
<1> QED
  BY <1>1, <1>2, <1>3, <1>4, <1>5, <1>6

\* The columns stay right as long as the headers of the rows do.
LEMMA LivroIgual ==
    ASSUME IInv, opas' = opas,
           \A h \in DOMAIN headers : /\ h \in DOMAIN headers'
                                     /\ headers[h] # "apagado" => headers'[h] # "apagado"
    PROVE  Livro'
<1>1. Ids' = Ids
  BY DEF Ids
<1> QED
  BY <1>1 DEF IInv, Livro, Colunas

LEMMA InvVirarDia == ASSUME IInv, VirarDia PROVE IInv'
<1>1. Tipos'
  BY TiposVirarDia DEF IInv
<1>2. /\ opas' = opas /\ headers' = headers /\ instrucoes' = instrucoes /\ creditos' = creditos
      /\ hoje <= hoje' /\ hoje' \in Nat /\ Ids' = Ids
  BY Limites DEF VirarDia, banco_vars, IInv, Ids
<1>3. Grupos' /\ Filhas' /\ UmPedidoPorGrupo' /\ NuncaPedidos'
  BY <1>2, OpasIguaisInv
<1>4. Livro'
  BY <1>2, LivroIgual
<1>5. Arquivos'
  BY <1>2 DEF IInv, Arquivos, NoArquivo, NoBanco, Fresca
<1>6. Pedidos'
  BY <1>2 DEF IInv, Pedidos, FaseCerta, Aberto, Vivo, LinhaDoPedido, LinhaDoCredito,
              Esperando, Fresca, Pago
<1>7. Creditados'
  BY <1>2 DEF IInv, Creditados, Creditada, Pago
<1> QED
  BY <1>1, <1>3, <1>4, <1>5, <1>6, <1>7 DEF IInv

LEMMA InvIgual == ASSUME IInv, UNCHANGED vars PROVE IInv'
<1>1. Tipos'
  BY TiposPasso DEF IInv
<1>2. /\ opas' = opas /\ headers' = headers /\ instrucoes' = instrucoes /\ creditos' = creditos
      /\ hoje <= hoje' /\ hoje' \in Nat /\ Ids' = Ids
  BY Limites DEF vars, IInv, Ids
<1>3. Grupos' /\ Filhas' /\ UmPedidoPorGrupo' /\ NuncaPedidos'
  BY <1>2, OpasIguaisInv
<1>4. Livro'
  BY <1>2, LivroIgual
<1>5. Arquivos'
  BY <1>2 DEF IInv, Arquivos, NoArquivo, NoBanco, Fresca
<1>6. Pedidos'
  BY <1>2 DEF IInv, Pedidos, FaseCerta, Aberto, Vivo, LinhaDoPedido, LinhaDoCredito,
              Esperando, Fresca, Pago
<1>7. Creditados'
  BY <1>2 DEF IInv, Creditados, Creditada, Pago
<1> QED
  BY <1>1, <1>3, <1>4, <1>5, <1>6, <1>7 DEF IInv

\* A file that was returned whole is sent again as it is: its rows are still
\* there to be sent.
LEMMA InvRenovar == ASSUME IInv, Riscos = {}, RenovarNsaRemessa PROVE IInv'
<1>1. PICK hdr \in DOMAIN headers :
        /\ headers[hdr] = "remessaEnviado" /\ Gerados = {} /\ Devolvido(hdr)
        /\ headers' = [headers EXCEPT ![hdr] = "remessaGerado"]
  BY DEF RenovarNsaRemessa
<1>2. Tipos'
  BY TiposRenovar DEF IInv
<1>3. /\ opas' = opas /\ instrucoes' = instrucoes /\ creditos' = creditos
      /\ hoje <= hoje' /\ hoje' \in Nat /\ Ids' = Ids
  BY Limites DEF RenovarNsaRemessa, banco_vars, IInv, Ids
<1>4. /\ DOMAIN headers' = DOMAIN headers /\ headers'[hdr] = "remessaGerado"
      /\ \A h \in DOMAIN headers : h # hdr => headers'[h] = headers[h]
  BY <1>1, HeaderTrocado DEF IInv, StatusDeHeader
<1>5. \A h \in DOMAIN headers : headers[h] # "remessaGerado"
  BY <1>1 DEF Gerados
<1>6. Grupos' /\ Filhas' /\ UmPedidoPorGrupo' /\ NuncaPedidos'
  BY <1>3, OpasIguaisInv
<1>7. Livro'
  BY <1>3, <1>4, LivroIgual
<1>8. Arquivos'
  <2>1. ASSUME NEW i \in Ids, NEW k \in DOMAIN opas[i].hist PROVE NoArquivo(opas[i].hist[k])'
    <3> DEFINE h == opas[i].hist[k]
    <3>1. NoArquivo(h) /\ Colunas(i, h)
      BY DEF IInv, Arquivos, Livro
    <3>2. CASE h.header = 0
      BY <1>3, <3>2 DEF NoArquivo
    <3>3. CASE h.header # 0 /\ h.header # hdr
      <4>1. headers'[h.header] = headers[h.header]
        BY <1>4, <3>1, <3>3 DEF Colunas
      <4> QED
        BY <1>3, <3>1, <3>3, <4>1 DEF NoArquivo, NoBanco, Fresca
    <3>4. CASE h.header # 0 /\ h.header = hdr
      <4>1. ~NoBanco(h)
        BY <1>1, <3>4 DEF NoBanco, Devolvido
      <4>2. Fresca(h)
        BY <1>1, <3>1, <3>4, <4>1 DEF NoArquivo, Fresca
      <4> QED
        BY <1>3, <1>4, <3>4, <4>2 DEF NoArquivo, Fresca
    <3> QED
      BY <3>2, <3>3, <3>4
  <2>2. ASSUME NEW n \in DOMAIN instrucoes, headers'[instrucoes[n].header] = "remessaGerado"
        PROVE  instrucoes[n].fase = "devolvida" /\ instrucoes[n].retorno = <<>>
    <3>1. instrucoes[n].header \in DOMAIN headers
      BY DEF IInv, Pedidos
    <3> QED
      BY <1>1, <1>4, <1>5, <2>2, <3>1 DEF Devolvido
  <2> QED
    BY <1>3, <2>1, <2>2 DEF IInv, Arquivos
<1>9. Pedidos'
  <2>1. ASSUME NEW n \in DOMAIN instrucoes, Aberto(instrucoes[n])
        PROVE  headers'[instrucoes[n].header] = "remessaEnviado"
    <3>1. instrucoes[n].header \in DOMAIN headers
          /\ headers[instrucoes[n].header] = "remessaEnviado"
      BY <2>1 DEF IInv, Pedidos
    <3>2. instrucoes[n].header # hdr
      BY <1>1, <2>1 DEF Devolvido, Aberto
    <3> QED
      BY <1>4, <3>1, <3>2
  <2> QED
    BY <1>3, <1>4, <2>1 DEF IInv, Pedidos, FaseCerta, Aberto, Vivo, LinhaDoPedido,
              LinhaDoCredito, Esperando, Fresca, Pago
<1>10. Creditados'
  BY <1>3 DEF IInv, Creditados, Creditada, Pago
<1> QED
  BY <1>2, <1>6, <1>7, <1>8, <1>9, <1>10 DEF IInv

-----------------------------------------------------------------------------
(* The bank.                                                               *)

LEMMA RespostasDiferentes ==
    /\ \A a, b : <<a, b>> # <<>>
    /\ <<BD, BD>> # <<Zero, Recusa>> /\ <<BD, Recusa>> # <<Zero, Recusa>>
    /\ <<ErroDeLote, Recusa>> # <<Zero, Recusa>> /\ <<Zero, Zero>> # <<Zero, Recusa>>
    /\ <<Branco, Branco>> # <<Zero, Recusa>>
BY PagamentoAssumption DEF OcorrenciaOk, BD, Zero, Branco

\* The bank answers payments that it has; no answer is overwritten.
Respondida(n) ==
    /\ instrucoes'[n].header = instrucoes[n].header
    /\ instrucoes'[n].valor = instrucoes[n].valor
    /\ instrucoes'[n].dia = instrucoes[n].dia
    /\ instrucoes[n].fase \in {"recebida", "incluida"}
    /\ instrucoes'[n].retorno # <<>>
    /\ FaseCerta(instrucoes'[n])
    /\ Esperando(instrucoes'[n]) <=> Esperando(instrucoes[n])

LEMMA BancoEfeito ==
    ASSUME IInv, Banco
    PROVE  /\ UNCHANGED <<favorecido, opas, geradas, headers, envios, hoje>>
           /\ DOMAIN instrucoes' = DOMAIN instrucoes
           /\ \A n \in DOMAIN instrucoes :
                 instrucoes'[n] = instrucoes[n] \/ Respondida(n)
           /\ \/ /\ creditos' = creditos
                 /\ \A n \in DOMAIN instrucoes : instrucoes'[n].fase = "creditada" =>
                                                 instrucoes[n].fase = "creditada"
              \/ \E k \in DOMAIN instrucoes :
                    /\ instrucoes[k].fase = "incluida" /\ instrucoes'[k].fase = "creditada"
                    /\ \A n \in DOMAIN instrucoes : n # k => instrucoes'[n] = instrucoes[n]
                    /\ \A o \in Ordens : creditos'[o] = creditos[o] +
                                            IF o \in instrucoes[k].valor THEN 1 ELSE 0
<1>1. ASSUME NEW k \in DOMAIN instrucoes, NEW fase \in Fases, NEW lote \in Ocorrencias,
             NEW det \in Ocorrencias, Responder(k, fase, lote, det)
      PROVE  /\ UNCHANGED <<favorecido, opas, geradas, headers, envios, hoje>>
             /\ DOMAIN instrucoes' = DOMAIN instrucoes
             /\ \A n \in DOMAIN instrucoes : n # k => instrucoes'[n] = instrucoes[n]
             /\ instrucoes'[k].header = instrucoes[k].header
             /\ instrucoes'[k].valor = instrucoes[k].valor
             /\ instrucoes'[k].dia = instrucoes[k].dia
             /\ instrucoes'[k].fase = fase /\ instrucoes'[k].retorno = <<lote, det>>
  <2> DEFINE q == [instrucoes[k] EXCEPT !.fase = fase, !.retorno = <<lote, det>>]
  <2>1. /\ q \in TipoPedido /\ q.header = instrucoes[k].header /\ q.valor = instrucoes[k].valor
        /\ q.dia = instrucoes[k].dia /\ q.fase = fase /\ q.retorno = <<lote, det>>
    BY TipoDoPedido DEF TipoPedido, IInv
  <2>2. instrucoes' = [instrucoes EXCEPT ![k] = q]
    BY <1>1 DEF Responder
  <2> HIDE DEF q
  <2>3. /\ DOMAIN instrucoes' = DOMAIN instrucoes /\ instrucoes'[k] = q
        /\ \A n \in DOMAIN instrucoes : n # k => instrucoes'[n] = instrucoes[n]
    BY <2>1, <2>2, PedidoTrocado DEF IInv
  <2> QED
    BY <1>1, <2>1, <2>3 DEF Responder
<1>2. {Recusa, ErroDeLote, BD, Zero, Branco} \subseteq Ocorrencias
  BY DEF Ocorrencias
<1>3. ASSUME NEW k \in DOMAIN instrucoes, BancoInclui(k)
      PROVE  /\ UNCHANGED <<favorecido, opas, geradas, headers, envios, hoje>>
             /\ DOMAIN instrucoes' = DOMAIN instrucoes
             /\ \A n \in DOMAIN instrucoes : n # k => instrucoes'[n] = instrucoes[n]
             /\ Respondida(k) /\ creditos' = creditos /\ instrucoes'[k].fase # "creditada"
  <2>1. instrucoes[k].fase = "recebida" /\ instrucoes[k].retorno = <<>> /\ creditos' = creditos
    BY <1>3 DEF BancoInclui, IInv, Pedidos, FaseCerta
  <2>2. PICK fase \in {"incluida", "recusada"}, lote \in Ocorrencias, det \in Ocorrencias :
           /\ Responder(k, fase, lote, det)
           /\ \/ fase = "incluida" /\ <<lote, det>> = <<BD, BD>>
              \/ fase = "recusada" /\ <<lote, det>> \in {<<BD, Recusa>>, <<ErroDeLote, Recusa>>}
    BY <1>2, <1>3 DEF BancoInclui
  <2>3. /\ instrucoes'[k].fase = fase /\ instrucoes'[k].retorno = <<lote, det>>
        /\ instrucoes'[k].header = instrucoes[k].header
        /\ instrucoes'[k].valor = instrucoes[k].valor
        /\ instrucoes'[k].dia = instrucoes[k].dia
        /\ UNCHANGED <<favorecido, opas, geradas, headers, envios, hoje>>
        /\ DOMAIN instrucoes' = DOMAIN instrucoes
        /\ \A n \in DOMAIN instrucoes : n # k => instrucoes'[n] = instrucoes[n]
    BY <1>1, <2>2 DEF Fases
  <2>4. Respondida(k)
    BY <2>1, <2>2, <2>3, RespostasDiferentes DEF Respondida, FaseCerta, Esperando
  <2> QED
    BY <2>1, <2>2, <2>3, <2>4
<1>4. ASSUME NEW k \in DOMAIN instrucoes, BancoCredita(k)
      PROVE  /\ UNCHANGED <<favorecido, opas, geradas, headers, envios, hoje>>
             /\ DOMAIN instrucoes' = DOMAIN instrucoes
             /\ \A n \in DOMAIN instrucoes : n # k => instrucoes'[n] = instrucoes[n]
             /\ Respondida(k) /\ instrucoes[k].fase = "incluida"
             /\ \/ creditos' = creditos /\ instrucoes'[k].fase # "creditada"
                \/ /\ instrucoes'[k].fase = "creditada"
                   /\ \A o \in Ordens : creditos'[o] = creditos[o] +
                                            IF o \in instrucoes[k].valor THEN 1 ELSE 0
  <2>1. instrucoes[k].fase = "incluida" /\ instrucoes[k].retorno = <<>>
    BY <1>4 DEF BancoCredita
  <2>2. PICK fase \in {"creditada", "recusada"}, lote \in Ocorrencias, det \in Ocorrencias :
           /\ Responder(k, fase, lote, det)
           /\ \/ /\ fase = "creditada" /\ <<lote, det>> = <<Zero, Zero>>
                 /\ creditos' = [o \in Ordens |-> creditos[o] +
                                    IF o \in instrucoes[k].valor THEN 1 ELSE 0]
              \/ fase = "recusada" /\ <<lote, det>> = <<Zero, Recusa>> /\ creditos' = creditos
    BY <1>2, <1>4 DEF BancoCredita
  <2>3. /\ instrucoes'[k].fase = fase /\ instrucoes'[k].retorno = <<lote, det>>
        /\ instrucoes'[k].header = instrucoes[k].header
        /\ instrucoes'[k].valor = instrucoes[k].valor
        /\ instrucoes'[k].dia = instrucoes[k].dia
        /\ UNCHANGED <<favorecido, opas, geradas, headers, envios, hoje>>
        /\ DOMAIN instrucoes' = DOMAIN instrucoes
        /\ \A n \in DOMAIN instrucoes : n # k => instrucoes'[n] = instrucoes[n]
    BY <1>1, <2>2 DEF Fases
  <2>4. Respondida(k)
    BY <2>1, <2>2, <2>3, RespostasDiferentes DEF Respondida, FaseCerta, Esperando
  <2> QED
    BY <2>1, <2>2, <2>3, <2>4
<1>5. ASSUME BancoDevolve
      PROVE  /\ UNCHANGED <<favorecido, opas, geradas, headers, envios, creditos, hoje>>
             /\ DOMAIN instrucoes' = DOMAIN instrucoes
             /\ \A n \in DOMAIN instrucoes :
                   \/ instrucoes'[n] = instrucoes[n]
                   \/ Respondida(n) /\ instrucoes'[n].fase = "devolvida"
  <2>1. PICK hdr \in DOMAIN headers :
            LET S == {k \in DOMAIN instrucoes : /\ instrucoes[k].header = hdr
                                                /\ instrucoes[k].fase = "recebida"}
            IN  instrucoes' = [k \in DOMAIN instrucoes |->
                                 IF k \in S
                                 THEN [instrucoes[k] EXCEPT !.fase = "devolvida",
                                                            !.retorno = <<Branco, Branco>>]
                                 ELSE instrucoes[k]]
    BY <1>5 DEF BancoDevolve
  <2>2. ASSUME NEW n \in DOMAIN instrucoes, instrucoes'[n] # instrucoes[n]
        PROVE  Respondida(n) /\ instrucoes'[n].fase = "devolvida"
    <3> DEFINE p == instrucoes[n]
               q == [p EXCEPT !.fase = "devolvida", !.retorno = <<Branco, Branco>>]
    <3>1. p.fase = "recebida" /\ instrucoes'[n] = q
      BY <2>1, <2>2
    <3>2. p.retorno = <<>> /\ p \in TipoPedido
      BY <3>1, TipoDoPedido DEF IInv, Pedidos, FaseCerta
    <3> HIDE DEF p
    <3>3. /\ q.header = p.header /\ q.valor = p.valor /\ q.dia = p.dia
          /\ q.fase = "devolvida" /\ q.retorno = <<Branco, Branco>>
      BY <3>2 DEF TipoPedido
    <3> HIDE DEF q
    <3> QED
      BY <3>1, <3>2, <3>3, RespostasDiferentes DEF Respondida, FaseCerta, Esperando, p
  <2> QED
    BY <1>5, <2>1, <2>2 DEF BancoDevolve
<1> QED
  BY <1>3, <1>4, <1>5 DEF Banco

LEMMA InvBanco == ASSUME IInv, Banco PROVE IInv'
<1>1. Tipos'
  BY TiposBanco DEF IInv
<1>2. /\ opas' = opas /\ headers' = headers /\ hoje <= hoje' /\ hoje' \in Nat /\ Ids' = Ids
      /\ DOMAIN instrucoes' = DOMAIN instrucoes
  BY BancoEfeito, Limites DEF IInv, Ids
<1>3. \A n \in DOMAIN instrucoes : instrucoes'[n] = instrucoes[n] \/ Respondida(n)
  BY BancoEfeito
<1>4. \A n \in DOMAIN instrucoes :
         /\ instrucoes'[n].header = instrucoes[n].header
         /\ instrucoes'[n].valor = instrucoes[n].valor
         /\ instrucoes'[n].dia = instrucoes[n].dia
         /\ Aberto(instrucoes'[n]) <=> Aberto(instrucoes[n])
         /\ Vivo(instrucoes'[n]) <=> Vivo(instrucoes[n])
         /\ FaseCerta(instrucoes'[n])
         /\ Esperando(instrucoes'[n]) <=> Esperando(instrucoes[n])
  BY <1>3 DEF Respondida, Aberto, Vivo, IInv, Pedidos
<1>5. Grupos' /\ Filhas' /\ UmPedidoPorGrupo' /\ NuncaPedidos'
  BY <1>2, OpasIguaisInv
<1>6. Livro'
  BY <1>2, LivroIgual
<1>7. Arquivos'
  <2>1. \A h : NoBanco(h) => NoBanco(h)'
    BY <1>2, <1>3 DEF NoBanco, Respondida
  <2>2. \A i \in Ids : \A k \in DOMAIN opas[i].hist : NoArquivo(opas[i].hist[k])'
    BY <1>2, <2>1 DEF IInv, Arquivos, NoArquivo, Fresca
  <2>3. ASSUME NEW n \in DOMAIN instrucoes, headers[instrucoes[n].header] = "remessaGerado"
        PROVE  instrucoes'[n].fase = "devolvida" /\ instrucoes'[n].retorno = <<>>
    <3>1. instrucoes[n].fase = "devolvida" /\ instrucoes[n].retorno = <<>>
      BY <2>3 DEF IInv, Arquivos
    <3> QED
      BY <1>3, <3>1 DEF Respondida
  <2> QED
    BY <1>2, <1>4, <2>2, <2>3 DEF IInv, Arquivos
<1>8. Pedidos'
  <2>1. \A n \in DOMAIN instrucoes :
           instrucoes'[n].fase = "creditada" /\ instrucoes'[n].retorno = <<>> =>
              instrucoes'[n] = instrucoes[n]
    BY <1>3 DEF Respondida
  <2> QED
    BY <1>2, <1>4, <2>1 DEF IInv, Pedidos, LinhaDoPedido, LinhaDoCredito, Fresca, Pago,
                            Aberto, Vivo, FaseCerta, Esperando
<1>9. Creditados'
  <2>1. CASE /\ creditos' = creditos
             /\ \A n \in DOMAIN instrucoes : instrucoes'[n].fase = "creditada" =>
                                             instrucoes[n].fase = "creditada"
    <3>1. \A n \in DOMAIN instrucoes : instrucoes'[n].fase = "creditada" <=>
                                       instrucoes[n].fase = "creditada"
      BY <1>3, <2>1 DEF Respondida
    <3>2. \A o \in Ordens : Creditada(o)' <=> Creditada(o)
      BY <1>2, <1>4, <3>1 DEF Creditada
    <3> QED
      BY <1>2, <2>1, <3>2 DEF IInv, Creditados, Pago
  <2>2. CASE \E k \in DOMAIN instrucoes :
                    /\ instrucoes[k].fase = "incluida" /\ instrucoes'[k].fase = "creditada"
                    /\ \A n \in DOMAIN instrucoes : n # k => instrucoes'[n] = instrucoes[n]
                    /\ \A o \in Ordens : creditos'[o] = creditos[o] +
                                            IF o \in instrucoes[k].valor THEN 1 ELSE 0
    <3>1. PICK k \in DOMAIN instrucoes :
                    /\ instrucoes[k].fase = "incluida" /\ instrucoes'[k].fase = "creditada"
                    /\ \A n \in DOMAIN instrucoes : n # k => instrucoes'[n] = instrucoes[n]
                    /\ \A o \in Ordens : creditos'[o] = creditos[o] +
                                            IF o \in instrucoes[k].valor THEN 1 ELSE 0
      BY <2>2
    <3>2. \A o \in Ordens : creditos[o] = IF Creditada(o) THEN 1 ELSE 0
      BY DEF IInv, Creditados
    <3>3. ASSUME NEW o \in Ordens
          PROVE  creditos'[o] = (IF Creditada(o)' THEN 1 ELSE 0) /\ creditos'[o] >= creditos[o]
      <4>1. CASE o \in instrucoes[k].valor
        <5>1. ~Creditada(o)
          <6> SUFFICES ASSUME NEW n \in DOMAIN instrucoes, instrucoes[n].fase = "creditada",
                              o \in instrucoes[n].valor
                       PROVE  FALSE
            BY DEF Creditada
          <6>1. n # k /\ Vivo(instrucoes[n]) /\ Vivo(instrucoes[k])
            BY <3>1 DEF Vivo
          <6> QED
            BY <4>1, <6>1 DEF IInv, Pedidos
        <5>2. Creditada(o)'
          BY <1>2, <1>4, <3>1, <4>1 DEF Creditada
        <5> QED
          BY <3>1, <3>2, <4>1, <5>1, <5>2
      <4>2. CASE o \notin instrucoes[k].valor
        <5>1. Creditada(o)' <=> Creditada(o)
          BY <1>2, <1>4, <3>1, <4>2 DEF Creditada
        <5> QED
          BY <3>1, <3>2, <4>2, <5>1
      <4> QED
        BY <4>1, <4>2
    <3>4. ASSUME NEW i \in Ids, NEW k2 \in DOMAIN opas[i].hist, Pago(opas[i].hist[k2]),
                 NEW o \in opas[i].total
          PROVE  creditos'[o] > 0
      <4>1. o \in Ordens /\ creditos[o] > 0
        BY <3>4, TipoDaOpa DEF IInv, Creditados
      <4>2. creditos[o] \in {0, 1} /\ creditos'[o] \in {0, 1}
        BY <3>2, <3>3, <4>1
      <4> QED
        BY <3>3, <4>1, <4>2
    <3> QED
      BY <1>2, <3>3, <3>4 DEF Creditados, Pago
  <2> QED
    BY <2>1, <2>2, BancoEfeito
<1> QED
  BY <1>1, <1>5, <1>6, <1>7, <1>8, <1>9 DEF IInv

-----------------------------------------------------------------------------
(* Sending.                                                                *)

\* A row of an open file shares no order with a payment the bank has or made:
\* it would be in one grouping with it, which has one DetalheA.
LEMMA AbertaNaoVive ==
    ASSUME IInv, NEW n \in DOMAIN instrucoes, Vivo(instrucoes[n]),
           NEW i \in Ids, NEW k \in DOMAIN opas[i].hist, opas[i].hist[k].header # 0,
           headers[opas[i].hist[k].header] = "remessaGerado"
    PROVE  opas[i].hist[k].valor \cap instrucoes[n].valor = {}
<1> DEFINE h == opas[i].hist[k]
           p == instrucoes[n]
<1>1. NoArquivo(h) /\ Colunas(i, h)
  BY DEF IInv, Arquivos, Livro
<1>2. Fresca(h) /\ h.valor = opas[i].total
  BY <1>1 DEF NoArquivo, Colunas
<1>3. Viva(h)
  BY <1>2 DEF Viva, Casa, Fresca, SemMotivo
<1>4. PICK j \in Ids : \E m \in DOMAIN opas[j].hist :
         LET g == opas[j].hist[m]
         IN  /\ g.header # 0 /\ p.valor = opas[j].total
             /\ \/ Viva(g) /\ headers[g.header] = "remessaEnviado"
                \/ Pago(g)
  BY LinhaDoVivo
<1>5. PICK m \in DOMAIN opas[j].hist :
         LET g == opas[j].hist[m]
         IN  /\ g.header # 0 /\ p.valor = opas[j].total
             /\ \/ Viva(g) /\ headers[g.header] = "remessaEnviado"
                \/ Pago(g)
  BY <1>4
<1>6. i # j
  <2> SUFFICES ASSUME i = j PROVE FALSE
    OBVIOUS
  <2>1. k = m
    BY <1>5 DEF IInv, UmPedidoPorGrupo
  <2> QED
    BY <1>3, <1>5, <2>1, VivaNaoPaga
<1>7. opas[i].total \cap opas[j].total = {}
  BY <1>3, <1>5, <1>6, SeparadasValem DEF IInv, Separadas
<1> QED
  BY <1>2, <1>5, <1>7

LEMMA InvEnviar == ASSUME IInv, EnviarRemessa PROVE IInv'
<1> DEFINE D == DOMAIN instrucoes' \ DOMAIN instrucoes
<1>1. PICK hdr \in Gerados :
              /\ headers' = [headers EXCEPT ![hdr] = "remessaEnviado"]
              /\ DOMAIN instrucoes \subseteq DOMAIN instrucoes'
              /\ \A n \in DOMAIN instrucoes : instrucoes'[n] = instrucoes[n]
              /\ \E f \in [D -> {l \in Linhas : LinhaDe(l).header = hdr}] :
                    /\ \A n \in DOMAIN f : instrucoes'[n] = Pedido(f[n], hdr)
                    /\ \A n, m \in DOMAIN f : f[n] = f[m] => n = m
                    /\ \A l \in Linhas : LinhaDe(l).header = hdr =>
                          \E n \in DOMAIN f : f[n] = l
  BY EnviarEfeito DEF IInv
<1>2. PICK f \in [D -> {l \in Linhas : LinhaDe(l).header = hdr}] :
                    /\ \A n \in D : instrucoes'[n] = Pedido(f[n], hdr)
                    /\ \A n, m \in D : f[n] = f[m] => n = m
                    /\ \A l \in Linhas : LinhaDe(l).header = hdr => \E n \in D : f[n] = l
  BY <1>1
<1>3. Tipos'
  BY TiposEnviar DEF IInv
<1>4. /\ opas' = opas /\ creditos' = creditos
      /\ hoje <= hoje' /\ hoje' \in Nat /\ Ids' = Ids
  <2>1. opas' = opas /\ creditos' = creditos /\ hoje' = hoje /\ Ids' = Ids
    BY DEF EnviarRemessa, Ids
  <2>2. hoje \in Nat
    BY Limites DEF IInv
  <2> QED
    BY <2>1, <2>2
<1>5. /\ DOMAIN headers' = DOMAIN headers /\ headers'[hdr] = "remessaEnviado"
      /\ \A h \in DOMAIN headers : h # hdr => headers'[h] = headers[h]
      /\ hdr \in DOMAIN headers /\ headers[hdr] = "remessaGerado" /\ hdr # 0
  BY <1>1, HeaderTrocado, Limites DEF IInv, StatusDeHeader, Gerados
\* A new payment: of one row, which is in the open file.
<1>6. ASSUME NEW n \in D
      PROVE  \E i \in Ids : \E k \in DOMAIN opas[i].hist :
                /\ f[n] = <<i, k>>
                /\ opas[i].hist[k].header = hdr
                /\ opas[i].hist[k].valor = opas[i].total
                /\ Fresca(opas[i].hist[k])
                /\ instrucoes'[n].dia = opas[i].dia
                /\ instrucoes'[n].valor = opas[i].total
                /\ instrucoes'[n].valor # {}
                /\ instrucoes'[n].header = hdr
                /\ instrucoes'[n].fase = "recebida" /\ instrucoes'[n].retorno = <<>>
  <2>1. f[n] \in Linhas /\ LinhaDe(f[n]).header = hdr
    OBVIOUS
  <2>2. PICK i \in Ids : \E k \in DOMAIN opas[i].hist : f[n] = <<i, k>>
    BY <2>1 DEF Linhas
  <2>3. PICK k \in DOMAIN opas[i].hist : f[n] = <<i, k>>
    BY <2>2
  <2>4. opas[i].hist[k].header = hdr
    BY <2>1, <2>3 DEF LinhaDe
  <2>5. NoArquivo(opas[i].hist[k]) /\ Colunas(i, opas[i].hist[k])
    BY DEF IInv, Arquivos, Livro
  <2>6. Fresca(opas[i].hist[k]) /\ opas[i].hist[k].valor = opas[i].total
    BY <1>5, <2>4, <2>5 DEF NoArquivo, Colunas
  <2>7. opas[i].total # {}
    BY DEF IInv, Grupos
  <2> QED
    BY <1>2, <2>3, <2>4, <2>6, <2>7 DEF Pedido, LinhaDe
<1>7. Grupos' /\ Filhas' /\ UmPedidoPorGrupo' /\ NuncaPedidos'
  BY <1>4, OpasIguaisInv
<1>8. Livro'
  BY <1>4, <1>5, LivroIgual
<1>9. Arquivos'
  <2>1. ASSUME NEW i \in Ids, NEW k \in DOMAIN opas[i].hist PROVE NoArquivo(opas[i].hist[k])'
    <3> DEFINE h == opas[i].hist[k]
    <3>1. NoArquivo(h) /\ Colunas(i, h)
      BY DEF IInv, Arquivos, Livro
    <3>2. CASE h.header = 0
      BY <1>4, <3>2 DEF NoArquivo
    <3>3. CASE h.header # 0 /\ h.header # hdr
      <4>1. headers'[h.header] = headers[h.header]
        BY <1>5, <3>1, <3>3 DEF Colunas
      <4>2. NoBanco(h) => NoBanco(h)'
        BY <1>1, <1>4 DEF NoBanco
      <4> QED
        BY <1>4, <3>1, <3>3, <4>1, <4>2 DEF NoArquivo, Fresca
    <3>4. CASE h.header # 0 /\ h.header = hdr
      <4>1. <<i, k>> \in Linhas /\ LinhaDe(<<i, k>>) = h
        BY DEF Linhas, LinhaDe
      <4>2. PICK n \in D : f[n] = <<i, k>>
        BY <1>2, <3>4, <4>1
      <4>3. /\ instrucoes'[n].header = h.header /\ instrucoes'[n].valor = h.valor
            /\ instrucoes'[n].fase = "recebida"
        BY <1>2, <3>4, <4>1, <4>2 DEF Pedido
      <4>4. NoBanco(h)'
        BY <1>4, <4>3 DEF NoBanco
      <4> QED
        BY <1>4, <1>5, <3>4, <4>4 DEF NoArquivo
    <3> QED
      BY <3>2, <3>3, <3>4
  <2>2. ASSUME NEW n \in DOMAIN instrucoes', headers'[instrucoes'[n].header] = "remessaGerado"
        PROVE  instrucoes'[n].fase = "devolvida" /\ instrucoes'[n].retorno = <<>>
    <3>1. n \notin D
      BY <1>5, <1>6, <2>2
    <3>2. n \in DOMAIN instrucoes /\ instrucoes'[n] = instrucoes[n]
      BY <1>1, <3>1
    <3>3. instrucoes[n].header \in DOMAIN headers
      BY <3>2 DEF IInv, Pedidos
    <3>4. headers[instrucoes[n].header] = "remessaGerado"
      BY <1>5, <2>2, <3>2, <3>3
    <3> QED
      BY <3>2, <3>4 DEF IInv, Arquivos
  <2> QED
    BY <1>4, <2>1, <2>2 DEF IInv, Arquivos
<1>10. Pedidos'
  <2>1. ASSUME NEW n \in DOMAIN instrucoes'
        PROVE  /\ FaseCerta(instrucoes'[n])
               /\ instrucoes'[n].header \in DOMAIN headers'
               /\ instrucoes'[n].valor # {}
    <3>1. CASE n \in D
      BY <1>5, <1>6, <3>1 DEF FaseCerta
    <3>2. CASE n \in DOMAIN instrucoes
      BY <1>1, <1>5, <3>2 DEF IInv, Pedidos
    <3> QED
      BY <3>1, <3>2
  <2>2. ASSUME NEW n \in DOMAIN instrucoes', Aberto(instrucoes'[n])
        PROVE  /\ headers'[instrucoes'[n].header] = "remessaEnviado"
               /\ \E i \in Ids : \E k \in DOMAIN opas[i].hist :
                     LinhaDoPedido(instrucoes'[n], i, opas[i].hist[k])
    <3>1. CASE n \in D
      <4>1. PICK i \in Ids : \E k \in DOMAIN opas[i].hist :
                /\ opas[i].hist[k].header = hdr
                /\ opas[i].hist[k].valor = opas[i].total
                /\ Fresca(opas[i].hist[k])
                /\ instrucoes'[n].dia = opas[i].dia
                /\ instrucoes'[n].valor = opas[i].total
                /\ instrucoes'[n].header = hdr
                /\ instrucoes'[n].fase = "recebida" /\ instrucoes'[n].retorno = <<>>
        BY <1>6, <3>1
      <4>2. ~Esperando(instrucoes'[n])
        BY <4>1, RespostasDiferentes DEF Esperando
      <4> QED
        BY <1>5, <4>1, <4>2 DEF LinhaDoPedido
    <3>2. CASE n \in DOMAIN instrucoes
      <4>1. /\ instrucoes'[n] = instrucoes[n] /\ instrucoes[n].header \in DOMAIN headers
            /\ headers[instrucoes[n].header] = "remessaEnviado"
            /\ \E i \in Ids : \E k \in DOMAIN opas[i].hist :
                  LinhaDoPedido(instrucoes[n], i, opas[i].hist[k])
        BY <1>1, <2>2, <3>2 DEF IInv, Pedidos
      <4> QED
        BY <1>5, <4>1
    <3> QED
      BY <3>1, <3>2
  <2>3. ASSUME NEW n \in D, NEW m \in DOMAIN instrucoes, Vivo(instrucoes[m])
        PROVE  instrucoes'[n].valor \cap instrucoes'[m].valor = {}
    <3>1. PICK i \in Ids : \E k \in DOMAIN opas[i].hist :
                /\ opas[i].hist[k].header = hdr
                /\ opas[i].hist[k].valor = opas[i].total
                /\ instrucoes'[n].valor = opas[i].total
      BY <1>6
    <3> QED
      BY <1>1, <1>5, <2>3, <3>1, AbertaNaoVive
  <2>4. ASSUME NEW n \in D, NEW m \in D, n # m
        PROVE  instrucoes'[n].valor \cap instrucoes'[m].valor = {}
    <3>1. PICK i \in Ids : \E k \in DOMAIN opas[i].hist :
                /\ f[n] = <<i, k>> /\ opas[i].hist[k].header = hdr
                /\ opas[i].hist[k].valor = opas[i].total
                /\ instrucoes'[n].valor = opas[i].total
      BY <1>6
    <3>2. PICK k \in DOMAIN opas[i].hist :
                /\ f[n] = <<i, k>> /\ opas[i].hist[k].header = hdr
                /\ opas[i].hist[k].valor = opas[i].total
      BY <3>1
    <3>3. PICK j \in Ids : \E q \in DOMAIN opas[j].hist :
                /\ f[m] = <<j, q>> /\ opas[j].hist[q].header = hdr
                /\ opas[j].hist[q].valor = opas[j].total
                /\ instrucoes'[m].valor = opas[j].total
      BY <1>6
    <3>4. PICK q \in DOMAIN opas[j].hist :
                /\ f[m] = <<j, q>> /\ opas[j].hist[q].header = hdr
                /\ opas[j].hist[q].valor = opas[j].total
      BY <3>3
    <3>5. i # j
      <4> SUFFICES ASSUME i = j PROVE FALSE
        OBVIOUS
      <4>1. k = q
        BY <1>5, <3>2, <3>4 DEF IInv, UmPedidoPorGrupo
      <4> QED
        BY <1>2, <2>4, <3>2, <3>4, <4>1
    <3>6. opas[i].hist[k].valor \cap opas[j].hist[q].valor = {}
      BY <1>5, <3>2, <3>4, <3>5 DEF IInv, Arquivos
    <3> QED
      BY <3>1, <3>2, <3>3, <3>4, <3>6
  <2>5. ASSUME NEW n \in DOMAIN instrucoes', NEW m \in DOMAIN instrucoes', n # m,
               Vivo(instrucoes'[n]), Vivo(instrucoes'[m])
        PROVE  instrucoes'[n].valor \cap instrucoes'[m].valor = {}
    <3>1. CASE n \in DOMAIN instrucoes /\ m \in DOMAIN instrucoes
      BY <1>1, <2>5, <3>1 DEF IInv, Pedidos
    <3>2. CASE n \in D /\ m \in DOMAIN instrucoes
      BY <1>1, <2>3, <2>5, <3>2
    <3>3. CASE n \in DOMAIN instrucoes /\ m \in D
      <4>1. instrucoes'[m].valor \cap instrucoes'[n].valor = {}
        BY <1>1, <2>3, <2>5, <3>3
      <4> QED
        BY <4>1
    <3> QED
      BY <2>4, <2>5, <3>1, <3>2, <3>3
  <2>6. ASSUME NEW n \in DOMAIN instrucoes',
               instrucoes'[n].fase = "creditada", instrucoes'[n].retorno = <<>>
        PROVE  \E i \in Ids : \E k \in DOMAIN opas[i].hist :
                  LinhaDoCredito(instrucoes'[n], opas[i].hist[k])
    <3>1. n \notin D
      BY <1>6, <2>6
    <3>2. n \in DOMAIN instrucoes /\ instrucoes'[n] = instrucoes[n]
      BY <1>1, <3>1
    <3> QED
      BY <2>6, <3>2 DEF IInv, Pedidos
  <2> QED
    BY <1>4, <2>1, <2>2, <2>5, <2>6 DEF Pedidos, FaseCerta, Aberto, Vivo, LinhaDoPedido,
              LinhaDoCredito, Esperando, Fresca, Pago
<1>11. Creditados'
  <2>1. \A n \in DOMAIN instrucoes' : instrucoes'[n].fase = "creditada" =>
           n \in DOMAIN instrucoes /\ instrucoes'[n] = instrucoes[n]
    <3>1. \A n \in D : instrucoes'[n].fase # "creditada"
      BY <1>6
    <3> QED
      BY <1>1, <3>1
  <2>2. \A o \in Ordens : Creditada(o)' <=> Creditada(o)
    BY <1>1, <2>1 DEF Creditada
  <2> QED
    BY <1>4, <2>2 DEF IInv, Creditados, Pago
<1> QED
  BY <1>3, <1>7, <1>8, <1>9, <1>10, <1>11 DEF IInv

-----------------------------------------------------------------------------
(* Steps that change groupings and not payments.                           *)

\* Payments keep their rows when the rows of files sent are not touched.
LEMMA PedidosFicam ==
    ASSUME IInv, instrucoes' = instrucoes,
           \A h \in DOMAIN headers : h \in DOMAIN headers',
           \A h \in DOMAIN headers :
              /\ headers[h] = "remessaEnviado"
              /\ \E i \in Ids : \E k \in DOMAIN opas[i].hist :
                    Viva(opas[i].hist[k]) /\ opas[i].hist[k].header = h
              => headers'[h] = headers[h],
           \A i \in Ids : \A k \in DOMAIN opas[i].hist :
              /\ opas[i].hist[k].header # 0
              /\ \/ Pago(opas[i].hist[k])
                 \/ /\ Viva(opas[i].hist[k])
                    /\ headers[opas[i].hist[k].header] = "remessaEnviado"
              => /\ i \in Ids' /\ k \in DOMAIN opas'[i].hist
                 /\ opas'[i].hist[k] = opas[i].hist[k] /\ opas'[i].dia = opas[i].dia
    PROVE  Pedidos'
<1>1. ASSUME NEW n \in DOMAIN instrucoes, Aberto(instrucoes[n])
      PROVE  /\ headers'[instrucoes[n].header] = "remessaEnviado"
             /\ \E i \in Ids' : \E k \in DOMAIN opas'[i].hist :
                   LinhaDoPedido(instrucoes[n], i, opas[i].hist[k])'
  <2> DEFINE p == instrucoes[n]
  <2>1. Vivo(p)
    BY <1>1 DEF Vivo, Aberto
  <2>2. PICK i \in Ids : \E k \in DOMAIN opas[i].hist :
           LET h == opas[i].hist[k]
           IN  /\ h.header = p.header /\ h.header # 0 /\ h.header \in DOMAIN headers
               /\ LinhaDoPedido(p, i, h) /\ Viva(h) /\ headers[h.header] = "remessaEnviado"
    BY <1>1, <2>1, LinhaDoVivo
  <2>3. PICK k \in DOMAIN opas[i].hist :
           LET h == opas[i].hist[k]
           IN  /\ h.header = p.header /\ h.header # 0 /\ h.header \in DOMAIN headers
               /\ LinhaDoPedido(p, i, h) /\ Viva(h) /\ headers[h.header] = "remessaEnviado"
    BY <2>2
  <2>4. /\ i \in Ids' /\ k \in DOMAIN opas'[i].hist
        /\ opas'[i].hist[k] = opas[i].hist[k] /\ opas'[i].dia = opas[i].dia
    BY <2>3
  <2>5. headers'[p.header] = "remessaEnviado"
    BY <2>3
  <2>6. LinhaDoPedido(instrucoes[n], i, opas[i].hist[k])'
    BY <2>3, <2>4 DEF LinhaDoPedido, Esperando, Fresca
  <2> QED
    BY <2>4, <2>5, <2>6
<1>2. ASSUME NEW n \in DOMAIN instrucoes,
             instrucoes[n].fase = "creditada", instrucoes[n].retorno = <<>>
      PROVE  \E i \in Ids' : \E k \in DOMAIN opas'[i].hist :
                   LinhaDoCredito(instrucoes[n], opas'[i].hist[k])
  <2> DEFINE p == instrucoes[n]
  <2>1. PICK i \in Ids : \E k \in DOMAIN opas[i].hist : LinhaDoCredito(p, opas[i].hist[k])
    BY <1>2 DEF IInv, Pedidos
  <2>2. PICK k \in DOMAIN opas[i].hist : LinhaDoCredito(p, opas[i].hist[k])
    BY <2>1
  <2>3. p.header # 0
    BY Limites DEF IInv, Pedidos
  <2>4. /\ i \in Ids' /\ k \in DOMAIN opas'[i].hist
        /\ opas'[i].hist[k] = opas[i].hist[k]
    BY <2>2, <2>3 DEF LinhaDoCredito
  <2> QED
    BY <2>2, <2>4
<1>3. \A n \in DOMAIN instrucoes : instrucoes[n].header \in DOMAIN headers'
  BY DEF IInv, Pedidos
<1> QED
  BY <1>1, <1>2, <1>3 DEF IInv, Pedidos, FaseCerta, Aberto, Vivo, LinhaDoCredito, Pago,
                          Esperando

\* The files keep what the invariant says of them when their rows are rows
\* they had, of the same groupings.
LEMMA ArquivosFicam ==
    ASSUME IInv, instrucoes' = instrucoes,
           \A h \in DOMAIN headers : headers'[h] = "remessaGerado" => headers[h] = "remessaGerado",
           \A i \in Ids' : \A k \in DOMAIN opas'[i].hist : opas'[i].hist[k].header # 0 =>
              /\ i \in Ids /\ k \in DOMAIN opas[i].hist
              /\ opas'[i].hist[k] = opas[i].hist[k]
              /\ headers'[opas[i].hist[k].header] = headers[opas[i].hist[k].header]
    PROVE  Arquivos'
<1>1. ASSUME NEW i \in Ids', NEW k \in DOMAIN opas'[i].hist
      PROVE  NoArquivo(opas[i].hist[k])'
  <2>1. CASE opas'[i].hist[k].header = 0
    BY <2>1 DEF NoArquivo
  <2>2. CASE opas'[i].hist[k].header # 0
    <3>1. /\ i \in Ids /\ k \in DOMAIN opas[i].hist
          /\ opas'[i].hist[k] = opas[i].hist[k]
          /\ headers'[opas[i].hist[k].header] = headers[opas[i].hist[k].header]
      BY <2>2
    <3>2. NoArquivo(opas[i].hist[k])
      BY <3>1 DEF IInv, Arquivos
    <3> QED
      BY <3>1, <3>2 DEF NoArquivo, NoBanco, Fresca
  <2> QED
    BY <2>1, <2>2
<1>2. ASSUME NEW i \in Ids', NEW j \in Ids', NEW k \in DOMAIN opas'[i].hist,
             NEW m \in DOMAIN opas'[j].hist, i # j, opas'[i].hist[k].header # 0,
             opas'[i].hist[k].header = opas'[j].hist[m].header
      PROVE  opas'[i].hist[k].valor \cap opas'[j].hist[m].valor = {}
  BY <1>2 DEF IInv, Arquivos
<1>3. ASSUME NEW n \in DOMAIN instrucoes, headers'[instrucoes[n].header] = "remessaGerado"
      PROVE  instrucoes[n].fase = "devolvida" /\ instrucoes[n].retorno = <<>>
  BY <1>3 DEF IInv, Arquivos, Pedidos
<1> QED
  BY <1>1, <1>2, <1>3 DEF Arquivos

\* The credits keep agreeing with the rows when no row becomes paid.
LEMMA CreditadosFicam ==
    ASSUME IInv, instrucoes' = instrucoes, creditos' = creditos,
           \A i \in Ids' : \A k \in DOMAIN opas'[i].hist : Pago(opas'[i].hist[k]) =>
              /\ i \in Ids /\ k \in DOMAIN opas[i].hist
              /\ Pago(opas[i].hist[k]) /\ opas'[i].total = opas[i].total
    PROVE  Creditados'
<1>1. ASSUME NEW i \in Ids', NEW k \in DOMAIN opas'[i].hist, Pago(opas'[i].hist[k]),
             NEW o \in opas'[i].total
      PROVE  creditos[o] > 0
  BY <1>1 DEF IInv, Creditados
<1>2. \A o \in Ordens : Creditada(o)' <=> Creditada(o)
  BY DEF Creditada
<1> QED
  BY <1>1, <1>2 DEF IInv, Creditados, Pago

-----------------------------------------------------------------------------
(* Grouping.                                                               *)

\* Without risks only the grouping g changes: it is new, or all that was done
\* to it was to make it.
Agrupado(novas, g) ==
    /\ novas # {} /\ novas \subseteq Soltas /\ g # 0
    /\ \A i : i \in Ids' <=> i \in Ids \/ i = g
    /\ \A i \in Ids : i # g => opas'[i] = opas[i]
    /\ opas'[g].pai = 0 /\ opas'[g].ordens # {} /\ opas'[g].total = opas'[g].ordens
    /\ \A o \in opas'[g].ordens : o \in novas \/ (g \in Ids /\ o \in opas[g].ordens)
    /\ \E k : /\ \A m : m \in DOMAIN opas'[g].hist <=> m = k
              /\ Intocada(opas'[g].hist[k]) /\ opas'[g].hist[k].motivo = Nulo
              /\ opas'[g].hist[k].dia = opas'[g].dia
    /\ opas'[g].dia \in Nat
    /\ g \in Ids => ~Mae(g) /\ opas[g].pai = 0
    /\ g \in Ids => \A k \in DOMAIN opas[g].hist : opas[g].hist[k].header = 0

LEMMA AgruparSemRisco ==
    ASSUME IInv, Riscos = {}, AgruparOrdens PROVE \E novas, g : Agrupado(novas, g)
<1>1. PICK novas \in SUBSET Soltas :
              /\ novas # {}
              /\ \/ /\ geradas + 1 \notin Ids /\ geradas + 1 <= MaxOpas
                    /\ geradas' = geradas + 1
                    /\ \A i : i \in Ids' <=> i \in Ids \/ i = geradas + 1
                    /\ EhFuncao(opas')
                    /\ \A i \in Ids : opas'[i] = opas[i]
                    /\ opas'[geradas + 1] = Opa(novas, novas)
                 \/ \E i \in Ids :
                       /\ ~Mae(i)
                       /\ \/ "agruparDeNovo" \in Riscos
                          \/ opas[i].pai = 0 /\ \A h \in HistoricosDe(i) : Intocada(h)
                       /\ Ids' = Ids /\ geradas' = geradas
                       /\ opas' = [opas EXCEPT ![i] =
                             [opas[i] EXCEPT !.ordens = opas[i].ordens \cup novas,
                                             !.total  = opas[i].total \cup novas]]
  BY AgruparEfeito DEF IInv
<1>2. CASE /\ geradas + 1 \notin Ids
           /\ \A i : i \in Ids' <=> i \in Ids \/ i = geradas + 1
           /\ \A i \in Ids : opas'[i] = opas[i]
           /\ opas'[geradas + 1] = Opa(novas, novas)
  <2> DEFINE g == geradas + 1
  <2>1. /\ Opa(novas, novas).ordens = novas /\ Opa(novas, novas).total = novas
        /\ Opa(novas, novas).pai = 0
        /\ Opa(novas, novas).dia = hoje /\ DOMAIN Opa(novas, novas).hist = {1}
        /\ Opa(novas, novas).hist[1] = Historico
    BY OpaNova DEF Soltas, IInv
  <2>2. g # 0 /\ hoje \in Nat
    BY Limites DEF IInv
  <2>3. Intocada(Historico) /\ Historico.motivo = Nulo /\ Historico.dia = hoje
    BY DEF Historico, Intocada
  <2> HIDE DEF g
  <2>4. Agrupado(novas, g)
    BY <1>1, <1>2, <2>1, <2>2, <2>3 DEF Agrupado, g
  <2> QED
    BY <2>4
<1>3. CASE \E i \in Ids :
                       /\ ~Mae(i)
                       /\ opas[i].pai = 0 /\ \A h \in HistoricosDe(i) : Intocada(h)
                       /\ Ids' = Ids
                       /\ opas' = [opas EXCEPT ![i] =
                             [opas[i] EXCEPT !.ordens = opas[i].ordens \cup novas,
                                             !.total  = opas[i].total \cup novas]]
  <2>1. PICK g \in Ids :
                       /\ ~Mae(g)
                       /\ opas[g].pai = 0 /\ \A h \in HistoricosDe(g) : Intocada(h)
                       /\ Ids' = Ids
                       /\ opas' = [opas EXCEPT ![g] =
                             [opas[g] EXCEPT !.ordens = opas[g].ordens \cup novas,
                                             !.total  = opas[g].total \cup novas]]
    BY <1>3
  <2>2. /\ opas[g] \in TipoOpa(Ids, hoje, Len(headers)) /\ EhFuncao(opas)
        /\ opas[g].dia \in Nat
    BY TipoDaOpa DEF IInv, Tipos, EhFuncao
  <2>3. /\ opas'[g].ordens = opas[g].ordens \cup novas
        /\ opas'[g].total = opas[g].total \cup novas
        /\ opas'[g].pai = 0 /\ opas'[g].dia = opas[g].dia /\ opas'[g].hist = opas[g].hist
        /\ \A i \in Ids : i # g => opas'[i] = opas[i]
    BY <2>1, <2>2 DEF TipoOpa, Ids
  <2>4. \A k \in DOMAIN opas[g].hist : Intocada(opas[g].hist[k]) /\ opas[g].hist[k].header = 0
                                       /\ opas[g].hist[k].motivo = Nulo
    BY <2>1 DEF HistoricosDe, Intocada, IInv, Livro, Colunas
  <2>5. SemPedido(g)
    BY <2>4 DEF SemPedido
  <2>6. PICK k : /\ DOMAIN opas[g].hist = {k}
                 /\ opas[g].hist[k].dia = opas[g].dia
    BY <2>1, <2>5 DEF IInv, NuncaPedidos, UmaLinha
  <2>7. opas[g].total = opas[g].ordens
    BY <2>1 DEF IInv, Grupos
  <2>8. g # 0
    BY Limites DEF IInv
  <2>9. Intocada(opas'[g].hist[k]) /\ opas'[g].hist[k].motivo = Nulo
        /\ opas'[g].hist[k].dia = opas'[g].dia
        /\ \A m : m \in DOMAIN opas'[g].hist <=> m = k
    BY <2>3, <2>4, <2>6
  <2>10. opas'[g].ordens # {} /\ opas'[g].total = opas'[g].ordens
         /\ \A o \in opas'[g].ordens : o \in novas \/ o \in opas[g].ordens
    BY <1>1, <2>3, <2>7
  <2>11. Agrupado(novas, g)
    BY <1>1, <2>1, <2>2, <2>3, <2>4, <2>8, <2>9, <2>10 DEF Agrupado
  <2> QED
    BY <2>11
<1> QED
  BY <1>1, <1>2, <1>3

LEMMA InvAgrupar == ASSUME IInv, Riscos = {}, AgruparOrdens PROVE IInv'
<1>1. PICK novas, g : Agrupado(novas, g)
  BY AgruparSemRisco
<1>2. /\ headers' = headers /\ instrucoes' = instrucoes /\ creditos' = creditos /\ hoje' = hoje
  BY DEF AgruparOrdens, banco_vars
<1>3. Tipos'
  BY TiposAgrupar DEF IInv
\* Nobody is, or becomes, its child.
<1>4. \A i \in Ids' : opas'[i].pai # 0 =>
         /\ i \in Ids /\ i # g /\ opas'[i] = opas[i]
         /\ opas[i].pai \in Ids /\ opas[i].pai # g /\ opas'[opas[i].pai] = opas[opas[i].pai]
  <2> SUFFICES ASSUME NEW i \in Ids', opas'[i].pai # 0
               PROVE  /\ i \in Ids /\ i # g /\ opas'[i] = opas[i]
                      /\ opas[i].pai \in Ids /\ opas[i].pai # g
                      /\ opas'[opas[i].pai] = opas[opas[i].pai]
    OBVIOUS
  <2>1. i \in Ids /\ i # g /\ opas'[i] = opas[i]
    BY <1>1 DEF Agrupado
  <2>2. opas[i].pai \in Ids /\ Mae(opas[i].pai)
    BY <2>1, TipoDaOpa DEF IInv, Tipos, MaesSemOrdens
  <2>3. opas[i].pai # g
    BY <1>1, <2>2 DEF Agrupado
  <2> QED
    BY <1>1, <2>1, <2>2, <2>3 DEF Agrupado
<1>5. \A i \in Ids' : Mae(i)' => i \in Ids /\ i # g /\ opas'[i] = opas[i] /\ Mae(i)
  BY <1>1 DEF Agrupado, Mae
<1>6. \A i \in Ids' : i = g \/ (i \in Ids /\ opas'[i] = opas[i])
  BY <1>1 DEF Agrupado
<1>7. Grupos'
  <2>1. \A i \in Ids' : opas'[i].total # {}
    BY <1>1, <1>6 DEF Agrupado, IInv, Grupos
  <2>2. \A i \in Ids' : ~Mae(i)' => opas'[i].total = opas'[i].ordens
    BY <1>1, <1>6 DEF Agrupado, IInv, Grupos, Mae
  <2>3. ASSUME NEW i \in Ids, i # g PROVE opas'[i].ordens \cap opas'[g].ordens = {}
    <3>1. opas[i].ordens \cap novas = {}
      BY <1>1 DEF Agrupado, Soltas, Agrupadas
    <3>2. opas'[i].ordens = opas[i].ordens
      BY <1>1, <2>3 DEF Agrupado
    <3>3. \A o \in opas'[g].ordens : o \in novas \/ (g \in Ids /\ o \in opas[g].ordens)
      BY <1>1 DEF Agrupado
    <3>4. g \in Ids => opas[i].ordens \cap opas[g].ordens = {}
      BY <2>3 DEF IInv, Grupos
    <3> QED
      BY <3>1, <3>2, <3>3, <3>4
  <2>4. \A i, j \in Ids' : i # j => opas'[i].ordens \cap opas'[j].ordens = {}
    BY <1>6, <2>3 DEF IInv, Grupos
  <2>5. \A i \in Ids' : Mae(i)' => opas'[i].pai = 0 /\ DOMAIN opas'[i].hist = {1}
    BY <1>5 DEF IInv, Grupos
  <2> QED
    BY <2>1, <2>2, <2>4, <2>5 DEF Grupos
<1>8. Filhas'
  <2>0. \A h : Recusada(h)' = Recusada(h) /\ Viva(h)' = Viva(h) /\ Pago(h)' = Pago(h)
    BY DEF Recusada, Viva, Pago, SemMotivo, Casa
  <2>1. \A i \in Ids' : opas'[i].pai # 0 => opas'[i].ordens \subseteq opas'[opas'[i].pai].total
    BY <1>4 DEF IInv, Filhas
  <2>2. ASSUME NEW i \in Ids', Mae(i)', ~Recusada(opas'[i].hist[1]), NEW o \in opas'[i].total
        PROVE  \E f \in Ids' : opas'[f].pai = i /\ o \in opas'[f].ordens
    <3>1. i \in Ids /\ opas'[i] = opas[i] /\ Mae(i)
      BY <1>5, <2>2
    <3>2. PICK f \in Ids : opas[f].pai = i /\ o \in opas[f].ordens
      BY <2>2, <3>1 DEF IInv, Filhas
    <3>3. Mae(i) /\ i # 0
      BY <3>1, Limites DEF IInv
    <3>4. f # g
      BY <1>1, <3>2, <3>3 DEF Agrupado
    <3> QED
      BY <1>1, <3>2, <3>4 DEF Agrupado
  <2>3. \A i \in Ids' : opas'[i].pai # 0 =>
          \A k \in DOMAIN opas'[i].hist : ~Viva(opas'[i].hist[k])
    BY <1>4 DEF IInv, Filhas
  <2>4. \A i \in Ids' : opas'[i].pai # 0 /\ ~Pago(opas'[opas'[i].pai].hist[1]) =>
          \A k \in DOMAIN opas'[i].hist : ~Pago(opas'[i].hist[k])
    BY <1>4 DEF IInv, Filhas
  <2> QED
    BY <2>0, <2>1, <2>2, <2>3, <2>4 DEF Filhas
<1>9. Livro'
  <2>1. ASSUME NEW k \in DOMAIN opas'[g].hist PROVE Colunas(g, opas[g].hist[k])'
    <3>1. /\ Intocada(opas'[g].hist[k]) /\ opas'[g].hist[k].motivo = Nulo
          /\ opas'[g].hist[k].dia = opas'[g].dia /\ opas'[g].dia \in Nat
      BY <1>1 DEF Agrupado
    <3> QED
      BY <3>1 DEF Colunas, Intocada, Criado, NaoEfetivado, PreparadoParaEnvio
  <2>2. ASSUME NEW i \in Ids, i # g, NEW k \in DOMAIN opas'[i].hist
        PROVE  Colunas(i, opas[i].hist[k])'
    <3>1. opas'[i] = opas[i]
      BY <1>1, <2>2 DEF Agrupado
    <3>2. Colunas(i, opas[i].hist[k])
      BY <3>1 DEF IInv, Livro
    <3> QED
      BY <1>2, <3>1, <3>2 DEF Colunas
  <2> QED
    BY <1>6, <2>1, <2>2 DEF Livro
<1>10. UmPedidoPorGrupo'
  <2>1. \A k, m \in DOMAIN opas'[g].hist : k = m
    BY <1>1 DEF Agrupado
  <2> QED
    BY <1>6, <2>1 DEF IInv, UmPedidoPorGrupo
<1>11. NuncaPedidos'
  <2>1. \A i \in Ids : i # g => SemPedido(i)' = SemPedido(i) /\ Mae(i)' = Mae(i)
    BY <1>1 DEF Agrupado, SemPedido, Mae
  <2>2. PICK kg : /\ \A m : m \in DOMAIN opas'[g].hist <=> m = kg
                 /\ Intocada(opas'[g].hist[kg])
                 /\ opas'[g].hist[kg].dia = opas'[g].dia
    BY <1>1 DEF Agrupado
  <2>3. DOMAIN opas'[g].hist = {kg} /\ SemPedido(g)'
    BY <2>2 DEF SemPedido, Intocada
  <2>4. ASSUME NEW i \in Ids', ~Mae(i)', opas'[i].pai = 0, SemPedido(i)'
        PROVE  UmaLinha(i)'
    <3>1. CASE i = g
      BY <2>2, <2>3, <3>1 DEF UmaLinha, Intocada
    <3>2. CASE i # g
      <4>1. i \in Ids /\ opas'[i] = opas[i]
        BY <1>6, <3>2
      <4> QED
        BY <2>1, <2>4, <3>2, <4>1 DEF IInv, NuncaPedidos, UmaLinha, Intocada
    <3> QED
      BY <3>1, <3>2
  <2>5. ASSUME NEW i \in Ids', opas'[i].pai # 0, SemPedido(i)',
               opas'[opas'[i].pai].hist[1].status \in {Criado, PreparadoParaEnvio}
        PROVE  DuasLinhas(i)'
    <3>1. /\ i \in Ids /\ i # g /\ opas'[i] = opas[i]
          /\ opas'[opas[i].pai] = opas[opas[i].pai]
      BY <1>4, <2>5
    <3>2. opas[i].pai # 0 /\ SemPedido(i)
          /\ opas[opas[i].pai].hist[1].status \in {Criado, PreparadoParaEnvio}
      BY <2>1, <2>5, <3>1
    <3>3. DuasLinhas(i)
      BY <3>1, <3>2 DEF IInv, NuncaPedidos
    <3> QED
      BY <3>1, <3>3 DEF DuasLinhas, Intocada
  <2>6. ASSUME NEW i \in Ids', ~Mae(i)', opas'[i].pai = 0, ~SemPedido(i)', opas'[i].dia = hoje
        PROVE  \A k \in DOMAIN opas'[i].hist : opas'[i].hist[k].status # Criado
    <3>1. i \in Ids /\ i # g /\ opas'[i] = opas[i]
      BY <1>6, <2>3, <2>6
    <3> QED
      BY <2>1, <2>6, <3>1 DEF IInv, NuncaPedidos
  <2> QED
    BY <1>2, <2>4, <2>5, <2>6 DEF NuncaPedidos
<1>12. \A i \in Ids' : \A k \in DOMAIN opas'[i].hist :
         opas'[i].hist[k].header # 0 \/ Pago(opas'[i].hist[k]) => i \in Ids /\ opas'[i] = opas[i]
  <2>1. \A k \in DOMAIN opas'[g].hist :
           opas'[g].hist[k].header = 0 /\ ~Pago(opas'[g].hist[k])
    BY <1>1 DEF Agrupado, Intocada, Pago, Criado, Efetivado, PendenciaPaga
  <2> QED
    BY <1>6, <2>1
<1>13. \A i \in Ids : \A k \in DOMAIN opas[i].hist : opas[i].hist[k].header # 0 =>
          i \in Ids' /\ opas'[i] = opas[i]
  BY <1>1 DEF Agrupado
<1>14. Arquivos'
  BY <1>2, <1>12, ArquivosFicam
<1>15. Pedidos'
  BY <1>2, <1>13, PedidosFicam
<1>16. Creditados'
  BY <1>2, <1>12, CreditadosFicam
<1> QED
  BY <1>3, <1>7, <1>8, <1>9, <1>10, <1>11, <1>14, <1>15, <1>16 DEF IInv

-----------------------------------------------------------------------------
(* Preparing.                                                              *)

\* All that was done to the grouping was to make it, and it is not a child.
Preparavel(i) == opas[i].pai = 0 /\ \E k : /\ DOMAIN opas[i].hist = {k}
                                           /\ Intocada(opas[i].hist[k])

\* Its row in the open file.
Preparada(i) == \E k : /\ DOMAIN opas[i].hist = {k} /\ DOMAIN opas'[i].hist = {k}
                       /\ Intocada(opas[i].hist[k])
                       /\ opas'[i].hist[k].status = PreparadoParaEnvio
                       /\ opas'[i].hist[k].motivo = Nulo
                       /\ opas'[i].hist[k].dia = opas[i].hist[k].dia
                       /\ opas'[i].hist[k].header = HeaderAberto
                       /\ opas'[i].hist[k].valor = opas[i].total

LEMMA PrepararLinha ==
    ASSUME IInv, NEW S \in SUBSET Ids, PrepararRemessa(S), NEW i \in S, Preparavel(i)
    PROVE  Preparada(i)
<1>1. PICK k : DOMAIN opas[i].hist = {k} /\ Intocada(opas[i].hist[k])
  BY DEF Preparavel
<1>2. UltimoDe(opas[i].hist) = k
  BY <1>1, TipoDaOpa, UltimoExiste DEF IInv
<1>3. /\ DOMAIN opas'[i].hist = DOMAIN opas[i].hist
      /\ opas'[i].hist[k].status = PreparadoParaEnvio
      /\ opas'[i].hist[k].motivo = opas[i].hist[k].motivo
      /\ opas'[i].hist[k].dia = opas[i].hist[k].dia
      /\ opas'[i].hist[k].header = HeaderAberto
      /\ opas'[i].hist[k].valor = opas[i].total
  <2>1. k = UltimoDe(opas[i].hist) /\ k \in DOMAIN opas[i].hist
    BY <1>1, <1>2
  <2> QED
    BY <2>1, PrepararEfeito DEF IInv
<1>4. opas[i].hist[k].motivo = Nulo
  BY <1>1 DEF IInv, Livro, Colunas, Intocada
<1> QED
  BY <1>1, <1>3, <1>4 DEF Preparada

LEMMA InvPreparar ==
    ASSUME IInv, NEW S \in SUBSET Ids, PrepararRemessa(S), \A i \in S : Preparavel(i)
    PROVE  IInv'
<1>1. /\ Ids' = Ids
      /\ \A i \in Ids : i \notin S => opas'[i] = opas[i]
      /\ \A i \in S : opas'[i].ordens = opas[i].ordens /\ opas'[i].total = opas[i].total
                      /\ opas'[i].pai = opas[i].pai /\ opas'[i].dia = opas[i].dia
                      /\ DOMAIN opas'[i].hist = DOMAIN opas[i].hist
  BY PrepararEfeito DEF IInv
<1>2. /\ HeaderAberto \in DOMAIN headers' /\ headers'[HeaderAberto] = "remessaGerado"
      /\ \A h \in DOMAIN headers : h \in DOMAIN headers' /\ headers'[h] = headers[h]
      /\ HeaderAberto # 0
  BY HeaderDoPreparo DEF IInv
<1>3. instrucoes' = instrucoes /\ creditos' = creditos /\ hoje' = hoje
  BY DEF PrepararRemessa, banco_vars
<1>4. Tipos'
  BY TiposPreparar DEF IInv
<1>5. \A i \in S : Preparada(i) /\ opas[i].pai = 0
  BY PrepararLinha DEF Preparavel
<1>6. \A i \in Ids : /\ opas'[i].ordens = opas[i].ordens /\ opas'[i].total = opas[i].total
                     /\ opas'[i].pai = opas[i].pai /\ opas'[i].dia = opas[i].dia
                     /\ DOMAIN opas'[i].hist = DOMAIN opas[i].hist
                     /\ Mae(i)' = Mae(i)
  BY <1>1 DEF Mae
\* The rows that are not as they were.
<1>7. \A i \in S : \A k \in DOMAIN opas'[i].hist :
         /\ DOMAIN opas'[i].hist = {k}
         /\ opas[i].hist[k].status = Criado /\ opas[i].hist[k].header = 0
         /\ opas'[i].hist[k].status = PreparadoParaEnvio
         /\ opas'[i].hist[k].motivo = Nulo
         /\ opas'[i].hist[k].dia = opas[i].hist[k].dia
         /\ opas'[i].hist[k].header = HeaderAberto
         /\ opas'[i].hist[k].valor = opas[i].total
  BY <1>5 DEF Preparada, Intocada
<1>8. \A i \in Ids : opas[i].pai # 0 => i \notin S /\ opas'[i] = opas[i] /\ opas[i].pai \in Ids
  BY <1>1, <1>5, TipoDaOpa DEF IInv
<1>9. Grupos'
  BY <1>1, <1>6 DEF IInv, Grupos
<1>10. Filhas'
  <2>0. \A h : Recusada(h)' = Recusada(h) /\ Viva(h)' = Viva(h) /\ Pago(h)' = Pago(h)
    BY DEF Recusada, Viva, Pago, SemMotivo, Casa
  <2>1. \A i \in Ids : opas'[i].pai # 0 => opas'[i].ordens \subseteq opas'[opas'[i].pai].total
    BY <1>6, <1>8 DEF IInv, Filhas
  <2>2. ASSUME NEW i \in Ids, Mae(i), ~Recusada(opas'[i].hist[1]), NEW o \in opas[i].total
        PROVE  \E f \in Ids : opas[f].pai = i /\ o \in opas[f].ordens
    <3>1. ~Recusada(opas[i].hist[1])
      <4>1. CASE i \in S
        <5>1. DOMAIN opas'[i].hist = {1}
          BY <1>6, <2>2 DEF IInv, Grupos
        <5>2. opas[i].hist[1].status = Criado
          BY <1>7, <4>1, <5>1
        <5> QED
          BY <5>2 DEF Recusada, Criado, NaoEfetivado
      <4>2. CASE i \notin S
        BY <1>1, <2>2, <4>2
      <4> QED
        BY <4>1, <4>2
    <3> QED
      BY <2>2, <3>1 DEF IInv, Filhas
  <2>3. \A i \in Ids : opas'[i].pai # 0 =>
          \A k \in DOMAIN opas'[i].hist : ~Viva(opas'[i].hist[k])
    BY <1>6, <1>8 DEF IInv, Filhas
  <2>4. ASSUME NEW i \in Ids, opas'[i].pai # 0, ~Pago(opas'[opas'[i].pai].hist[1]),
               NEW k \in DOMAIN opas'[i].hist
        PROVE  ~Pago(opas'[i].hist[k])
    <3> DEFINE j == opas[i].pai
    <3>1. opas'[i] = opas[i] /\ j \in Ids /\ opas'[i].pai = j /\ opas[i].pai # 0
      BY <1>6, <1>8, <2>4
    <3>2. ~Pago(opas[j].hist[1])
      <4>1. CASE j \in S
        <5>1. Mae(j)
          BY <2>4, <3>1 DEF IInv, Tipos, MaesSemOrdens
        <5>2. 1 \in DOMAIN opas'[j].hist
          BY <1>6, <3>1, <5>1 DEF IInv, Grupos
        <5>3. opas[j].hist[1].status = Criado
          BY <1>7, <4>1, <5>2
        <5> QED
          BY <5>3 DEF Pago, Criado, Efetivado, PendenciaPaga
      <4>2. CASE j \notin S
        BY <1>1, <2>4, <3>1, <4>2
      <4> QED
        BY <4>1, <4>2
    <3> QED
      BY <2>4, <3>1, <3>2 DEF IInv, Filhas
  <2> QED
    BY <1>1, <1>6, <2>0, <2>1, <2>2, <2>3, <2>4 DEF Filhas
<1>11. Livro'
  <2>1. ASSUME NEW i \in Ids, NEW k \in DOMAIN opas'[i].hist PROVE Colunas(i, opas[i].hist[k])'
    <3>0. k \in DOMAIN opas[i].hist /\ Colunas(i, opas[i].hist[k])
      BY <1>6 DEF IInv, Livro
    <3>1. CASE i \in S
      BY <1>2, <1>6, <1>7, <3>0, <3>1 DEF Colunas, Criado, NaoEfetivado, PreparadoParaEnvio
    <3>2. CASE i \notin S
      <4>1. opas'[i] = opas[i]
        BY <1>1, <3>2
      <4> QED
        BY <1>2, <3>0, <4>1 DEF Colunas
    <3> QED
      BY <3>1, <3>2
  <2> QED
    BY <1>1, <2>1 DEF Livro
<1>12. UmPedidoPorGrupo'
  <2>1. \A i \in S : \A k, m \in DOMAIN opas'[i].hist : k = m
    BY <1>7
  <2> QED
    BY <1>1, <2>1 DEF IInv, UmPedidoPorGrupo
<1>13. NuncaPedidos'
  <2>1. \A i \in Ids : i \notin S => SemPedido(i)' = SemPedido(i)
    BY <1>1 DEF SemPedido
  <2>2. \A i \in S : ~SemPedido(i)'
    BY <1>2, <1>5 DEF SemPedido, Preparada
  <2>3. ASSUME NEW i \in Ids, ~Mae(i)', opas'[i].pai = 0, SemPedido(i)' PROVE UmaLinha(i)'
    <3>1. i \notin S /\ opas'[i] = opas[i] /\ SemPedido(i)
      BY <1>1, <2>1, <2>2, <2>3
    <3>2. UmaLinha(i)
      BY <1>6, <2>3, <3>1 DEF IInv, NuncaPedidos
    <3> QED
      BY <3>1, <3>2 DEF UmaLinha, Intocada
  <2>4. ASSUME NEW i \in Ids, opas'[i].pai # 0, SemPedido(i)',
               opas'[opas'[i].pai].hist[1].status \in {Criado, PreparadoParaEnvio}
        PROVE  DuasLinhas(i)'
    <3> DEFINE j == opas[i].pai
    <3>1. opas'[i] = opas[i] /\ j \in Ids /\ opas'[i].pai = j /\ opas[i].pai # 0 /\ SemPedido(i)
          /\ opas'[j].dia = opas[j].dia
      BY <1>6, <1>8, <2>1, <2>4
    <3>2. opas[j].hist[1].status \in {Criado, PreparadoParaEnvio}
      <4>1. CASE j \in S
        <5>1. Mae(j)
          BY <2>4, <3>1 DEF IInv, Tipos, MaesSemOrdens
        <5>2. 1 \in DOMAIN opas'[j].hist
          BY <1>6, <3>1, <5>1 DEF IInv, Grupos
        <5> QED
          BY <1>7, <4>1, <5>2
      <4>2. CASE j \notin S
        BY <1>1, <2>4, <3>1, <4>2
      <4> QED
        BY <4>1, <4>2
    <3>3. DuasLinhas(i)
      BY <3>1, <3>2 DEF IInv, NuncaPedidos
    <3> QED
      BY <3>1, <3>3 DEF DuasLinhas, Intocada
  <2>5. ASSUME NEW i \in Ids, ~Mae(i)', opas'[i].pai = 0, ~SemPedido(i)', opas'[i].dia = hoje,
               NEW k \in DOMAIN opas'[i].hist
        PROVE  opas'[i].hist[k].status # Criado
    <3>1. CASE i \in S
      BY <1>7, <3>1 DEF PreparadoParaEnvio, Criado
    <3>2. CASE i \notin S
      BY <1>1, <1>6, <2>1, <2>5, <3>2 DEF IInv, NuncaPedidos
    <3> QED
      BY <3>1, <3>2
  <2> QED
    BY <1>1, <1>3, <2>3, <2>4, <2>5 DEF NuncaPedidos
<1>14. Arquivos'
  <2>1. ASSUME NEW i \in Ids, NEW k \in DOMAIN opas'[i].hist PROVE NoArquivo(opas[i].hist[k])'
    <3>1. CASE i \in S
      BY <1>2, <1>7, <3>1 DEF NoArquivo, Fresca
    <3>2. CASE i \notin S
      <4>1. opas'[i] = opas[i] /\ NoArquivo(opas[i].hist[k]) /\ Colunas(i, opas[i].hist[k])
        BY <1>1, <3>2 DEF IInv, Arquivos, Livro
      <4>2. opas[i].hist[k].header # 0 =>
               headers'[opas[i].hist[k].header] = headers[opas[i].hist[k].header]
        BY <1>2, <4>1 DEF Colunas
      <4> QED
        BY <1>3, <4>1, <4>2 DEF NoArquivo, NoBanco, Fresca
    <3> QED
      BY <3>1, <3>2
  \* The rows of the open file are at the bank as soon as it is sent.
  <2>2. ASSUME NEW i \in Ids, NEW k \in DOMAIN opas'[i].hist,
               opas'[i].hist[k].header = HeaderAberto
        PROVE  Viva(opas[i].hist[k])' /\ opas'[i].hist[k].valor = opas'[i].total
    <3>1. Fresca(opas[i].hist[k])'
      BY <1>2, <2>1, <2>2 DEF NoArquivo
    <3>2. opas'[i].hist[k].valor = opas'[i].total
      BY <1>1, <1>2, <1>11, <2>2 DEF Livro, Colunas
    <3> QED
      BY <1>2, <2>2, <3>1, <3>2 DEF Viva, Casa, Fresca, SemMotivo
  <2>3. ASSUME NEW i \in Ids, NEW j \in Ids, NEW k \in DOMAIN opas'[i].hist,
               NEW m \in DOMAIN opas'[j].hist, i # j, opas'[i].hist[k].header # 0,
               opas'[i].hist[k].header = opas'[j].hist[m].header
        PROVE  opas'[i].hist[k].valor \cap opas'[j].hist[m].valor = {}
    <3>1. CASE opas'[i].hist[k].header = HeaderAberto
      <4>1. Separadas'
        BY <1>4, <1>9, <1>10, SeparadasDepois
      <4>2. /\ Viva(opas[i].hist[k])' /\ opas'[i].hist[k].valor = opas'[i].total
            /\ Viva(opas[j].hist[m])' /\ opas'[j].hist[m].valor = opas'[j].total
        BY <2>2, <2>3, <3>1
      <4> QED
        BY <1>1, <2>3, <4>1, <4>2 DEF Separadas
    <3>2. CASE opas'[i].hist[k].header # HeaderAberto
      <4>1. i \notin S /\ j \notin S
        BY <1>7, <2>3, <3>2
      <4> QED
        BY <1>1, <2>3, <4>1 DEF IInv, Arquivos
    <3> QED
      BY <3>1, <3>2
  <2>4. ASSUME NEW n \in DOMAIN instrucoes, headers'[instrucoes[n].header] = "remessaGerado"
        PROVE  instrucoes[n].fase = "devolvida" /\ instrucoes[n].retorno = <<>>
    BY <1>2, <2>4 DEF IInv, Pedidos, Arquivos
  <2> QED
    BY <1>1, <1>3, <2>1, <2>3, <2>4 DEF Arquivos
<1>15. Pedidos'
  <2>1. \A i \in Ids : \A k \in DOMAIN opas[i].hist : opas[i].hist[k].header # 0 =>
           opas'[i] = opas[i]
    BY <1>1, <1>6, <1>7
  <2> QED
    BY <1>1, <1>2, <1>3, <2>1, PedidosFicam
<1>16. Creditados'
  <2>1. \A i \in Ids : \A k \in DOMAIN opas'[i].hist : Pago(opas'[i].hist[k]) =>
           opas'[i] = opas[i]
    BY <1>1, <1>7 DEF Pago, PreparadoParaEnvio, Efetivado, PendenciaPaga
  <2> QED
    BY <1>1, <1>3, <2>1, CreditadosFicam
<1> QED
  BY <1>4, <1>9, <1>10, <1>11, <1>12, <1>13, <1>14, <1>15, <1>16 DEF IInv

\* The groupings an endpoint prepares are of that kind: of the normal one,
\* none was asked for; of the pending one, the parents of today and those of
\* today that are no child.
\* Both ways of preparing ask only for such groupings.
LEMMA PrepararNormalSemRisco ==
    ASSUME IInv, Riscos = {}, PrepararNormal
    PROVE  \E S \in SUBSET Ids : PrepararRemessa(S) /\ \A i \in S : Preparavel(i)
<1>1. PICK janela \in SUBSET Ordens :
        /\ \A i \in FindAllCustom(janela) : opas[i].pai = 0
        /\ \A i \in FindAllCustom(janela) : \A h \in HistoricosDe(i) : h.header = 0
        /\ PrepararRemessa(FindAllCustom(janela))
  BY DEF PrepararNormal
<1>2. FindAllCustom(janela) \in SUBSET Ids
  BY DEF FindAllCustom, ComCriado
<1>3. ASSUME NEW i \in FindAllCustom(janela) PROVE Preparavel(i)
  <2>1. i \in Ids /\ ~Mae(i) /\ opas[i].pai = 0
    BY <1>1 DEF FindAllCustom, ComCriado, Mae
  <2>2. SemPedido(i)
    BY <1>1 DEF SemPedido, HistoricosDe
  <2>3. UmaLinha(i)
    BY <2>1, <2>2 DEF IInv, NuncaPedidos
  <2> QED
    BY <2>1, <2>3 DEF Preparavel, UmaLinha
<1> QED
  BY <1>1, <1>2, <1>3

LEMMA PrepararPendentesSemRisco ==
    ASSUME IInv, PrepararPendentes
    PROVE  \E S \in SUBSET Ids : PrepararRemessa(S) /\ \A i \in S : Preparavel(i)
<1>1. PICK janela \in SUBSET Ordens : PrepararRemessa(FindAllPendente(janela))
  BY DEF PrepararPendentes
<1>2. FindAllPendente(janela) \in SUBSET Ids
  BY DEF FindAllPendente, ComCriado
<1>3. ASSUME NEW i \in FindAllPendente(janela) PROVE Preparavel(i)
  <2>1. PICK k \in DOMAIN opas[i].hist : opas[i].hist[k].status = Criado
    BY DEF FindAllPendente, ComCriado, StatusDe, HistoricosDe
  <2>2. i \in Ids /\ opas[i].dia = hoje
    BY DEF FindAllPendente, ComCriado
  <2>3. opas[i].hist[k].header = 0 /\ Intocada(opas[i].hist[k])
    BY <2>1, <2>2 DEF IInv, Livro, Colunas, Intocada
  <2>4. CASE Mae(i)
    BY <2>1, <2>2, <2>3, <2>4 DEF IInv, Grupos, Preparavel
  <2>5. CASE ~Mae(i)
    <3>1. opas[i].pai = 0
      <4>1. CASE FilhasDe(i) # {}
        <5>1. PICK f \in Ids : opas[f].pai = i
          BY <4>1 DEF FilhasDe
        <5> QED
          BY <2>2, <2>5, <5>1, Limites DEF IInv, Tipos, MaesSemOrdens
      <4>2. CASE FilhasDe(i) = {}
        BY <4>2 DEF FindAllPendente
      <4> QED
        BY <4>1, <4>2
    <3>2. SemPedido(i)
      BY <2>1, <2>2, <2>5, <3>1 DEF IInv, NuncaPedidos
    <3>3. UmaLinha(i)
      BY <2>2, <2>5, <3>1, <3>2 DEF IInv, NuncaPedidos
    <3> QED
      BY <3>1, <3>3 DEF Preparavel, UmaLinha
  <2> QED
    BY <2>4, <2>5
<1> QED
  BY <1>1, <1>2, <1>3

LEMMA InvPrepararNormal == ASSUME IInv, Riscos = {}, PrepararNormal PROVE IInv'
BY PrepararNormalSemRisco, InvPreparar

LEMMA InvPrepararPendentes == ASSUME IInv, PrepararPendentes PROVE IInv'
BY PrepararPendentesSemRisco, InvPreparar

-----------------------------------------------------------------------------
(* Clearing.                                                               *)

\* What is left are rows as they were; those of files sent are all left, and
\* so are their headers.
LEMMA LimparFicam ==
    ASSUME IInv, instrucoes' = instrucoes, creditos' = creditos,
           headers' = SemOrfaos(opas'),
           \A i \in Ids' : \A k \in DOMAIN opas'[i].hist :
              /\ i \in Ids /\ k \in DOMAIN opas[i].hist
              /\ opas'[i].hist[k] = opas[i].hist[k]
              /\ opas'[i].total = opas[i].total /\ opas'[i].dia = opas[i].dia,
           \A i \in Ids : \A k \in DOMAIN opas[i].hist :
              /\ opas[i].hist[k].header # 0
              /\ \/ Pago(opas[i].hist[k])
                 \/ /\ Viva(opas[i].hist[k])
                    /\ headers[opas[i].hist[k].header] = "remessaEnviado"
              => i \in Ids' /\ k \in DOMAIN opas'[i].hist
    PROVE  Livro' /\ UmPedidoPorGrupo' /\ Arquivos' /\ Pedidos' /\ Creditados'
<1>1. /\ DOMAIN headers' = DOMAIN headers
      /\ \A h \in DOMAIN headers : headers'[h] \in {headers[h], "apagado"}
      /\ \A h \in DOMAIN headers, i \in Ids' : \A k \in DOMAIN opas'[i].hist :
            opas'[i].hist[k].header = h => headers'[h] = headers[h]
  BY SemOrfaosEfeito DEF IInv
<1>2. Livro'
  <2>1. ASSUME NEW i \in Ids', NEW k \in DOMAIN opas'[i].hist
        PROVE  Colunas(i, opas[i].hist[k])'
    <3>1. /\ opas'[i].hist[k] = opas[i].hist[k] /\ Colunas(i, opas[i].hist[k])
          /\ opas'[i].total = opas[i].total /\ opas'[i].dia = opas[i].dia
      BY DEF IInv, Livro
    <3> QED
      BY <1>1, <3>1 DEF Colunas
  <2> QED
    BY <2>1 DEF Livro
<1>3. UmPedidoPorGrupo'
  BY DEF IInv, UmPedidoPorGrupo
<1>4. Arquivos'
  <2>1. ASSUME NEW i \in Ids', NEW k \in DOMAIN opas'[i].hist, opas'[i].hist[k].header # 0
        PROVE  headers'[opas[i].hist[k].header] = headers[opas[i].hist[k].header]
    <3>1. opas'[i].hist[k] = opas[i].hist[k] /\ opas[i].hist[k].header \in DOMAIN headers
      BY <2>1 DEF IInv, Livro, Colunas
    <3> QED
      BY <1>1, <3>1
  <2>2. \A h \in DOMAIN headers : headers'[h] = "remessaGerado" => headers[h] = "remessaGerado"
    BY <1>1
  <2> QED
    BY <1>1, <2>1, <2>2, ArquivosFicam
<1>5. Pedidos'
  <2>1. ASSUME NEW h \in DOMAIN headers, headers[h] = "remessaEnviado",
               NEW i \in Ids, NEW k \in DOMAIN opas[i].hist,
               Viva(opas[i].hist[k]), opas[i].hist[k].header = h
        PROVE  headers'[h] = headers[h]
    <3>1. i \in Ids' /\ k \in DOMAIN opas'[i].hist
      BY <2>1 DEF Viva
    <3> QED
      BY <1>1, <2>1, <3>1
  <2> QED
    BY <1>1, <2>1, PedidosFicam
<1>6. Creditados'
  BY CreditadosFicam
<1> QED
  BY <1>2, <1>3, <1>4, <1>5, <1>6

LEMMA InvLimpar == ASSUME IInv, Riscos = {}, LimparPreparo PROVE IInv'
<1>1. /\ Ids' = Ids \ Alvos
      /\ \A i \in Ids' : opas'[i] = opas[i]
      /\ headers' = SemOrfaos(opas')
      /\ ForaDoBanco(Alvos)
      /\ \A i \in Alvos : \A h \in HistoricosDe(i) :
            h.header # 0 => h.status = PreparadoParaEnvio
  BY LimparEfeito DEF IInv
<1>2. instrucoes' = instrucoes /\ creditos' = creditos /\ hoje' = hoje
  BY DEF LimparPreparo, banco_vars
<1>3. Tipos'
  BY TiposLimpar DEF IInv
\* What is cleared is no parent and no child: it has a row in a file.
<1>4. ASSUME NEW i \in Alvos PROVE i \in Ids /\ ~Mae(i) /\ opas[i].pai = 0
  <2>1. i \in Ids /\ ~Mae(i)
    BY DEF Alvos, Mae
  <2>2. PICK k \in DOMAIN opas[i].hist : /\ opas[i].hist[k].status = PreparadoParaEnvio
                                         /\ opas[i].hist[k].header # 0
    BY DEF Alvos, HistoricosDe
  <2>3. Viva(opas[i].hist[k])
    BY <2>2 DEF Viva, Casa
  <2> QED
    BY <2>1, <2>3 DEF IInv, Filhas
<1>5. \A i \in Ids : opas[i].pai # 0 =>
         /\ i \in Ids' /\ opas[i].pai \in Ids' /\ opas'[opas[i].pai] = opas[opas[i].pai]
         /\ opas'[i] = opas[i]
  <2> SUFFICES ASSUME NEW i \in Ids, opas[i].pai # 0
               PROVE  i \in Ids' /\ opas[i].pai \in Ids'
    BY <1>1
  <2>1. opas[i].pai \in Ids /\ Mae(opas[i].pai)
    BY TipoDaOpa DEF IInv, Tipos, MaesSemOrdens
  <2> QED
    BY <1>1, <1>4, <2>1
<1>6. \A i \in Ids' : i \in Ids /\ opas'[i] = opas[i]
  BY <1>1
<1>7. Grupos'
  BY <1>6 DEF IInv, Grupos, Mae
<1>8. Filhas'
  <2>0. \A h : Recusada(h)' = Recusada(h) /\ Viva(h)' = Viva(h) /\ Pago(h)' = Pago(h)
    BY DEF Recusada, Viva, Pago, SemMotivo, Casa
  <2>1. \A i \in Ids' : opas'[i].pai # 0 => opas'[i].ordens \subseteq opas'[opas'[i].pai].total
    BY <1>5, <1>6 DEF IInv, Filhas
  <2>2. ASSUME NEW i \in Ids', Mae(i)', ~Recusada(opas'[i].hist[1]), NEW o \in opas'[i].total
        PROVE  \E f \in Ids' : opas'[f].pai = i /\ o \in opas'[f].ordens
    <3>1. i \in Ids /\ opas'[i] = opas[i] /\ Mae(i) /\ i # 0
      BY <1>6, <2>2, Limites DEF Mae, IInv
    <3>2. PICK f \in Ids : opas[f].pai = i /\ o \in opas[f].ordens
      BY <2>2, <3>1 DEF IInv, Filhas
    <3> QED
      BY <1>5, <3>1, <3>2
  <2>3. \A i \in Ids' : opas'[i].pai # 0 =>
          \A k \in DOMAIN opas'[i].hist : ~Viva(opas'[i].hist[k])
    BY <1>6 DEF IInv, Filhas
  <2>4. \A i \in Ids' : opas'[i].pai # 0 /\ ~Pago(opas'[opas'[i].pai].hist[1]) =>
          \A k \in DOMAIN opas'[i].hist : ~Pago(opas'[i].hist[k])
    BY <1>5, <1>6 DEF IInv, Filhas
  <2> QED
    BY <2>0, <2>1, <2>2, <2>3, <2>4 DEF Filhas
<1>9. NuncaPedidos'
  <2>1. \A i \in Ids' : SemPedido(i)' = SemPedido(i) /\ Mae(i)' = Mae(i)
    BY <1>6 DEF SemPedido, Mae
  <2>2. \A i \in Ids' : UmaLinha(i)' = UmaLinha(i)
    BY <1>6 DEF UmaLinha, Intocada
  <2>3. \A i \in Ids' : opas[i].pai # 0 => DuasLinhas(i)' = DuasLinhas(i)
    BY <1>5, <1>6 DEF DuasLinhas, Intocada
  <2> QED
    BY <1>2, <1>5, <1>6, <2>1, <2>2, <2>3 DEF IInv, NuncaPedidos
\* What is cleared is not at the bank, nor paid.
<1>10. ASSUME NEW i \in Alvos, NEW k \in DOMAIN opas[i].hist, opas[i].hist[k].header # 0
       PROVE  /\ ~Pago(opas[i].hist[k])
              /\ headers[opas[i].hist[k].header] # "remessaEnviado"
  <2>1. opas[i].hist[k] \in HistoricosDe(i)
    BY DEF HistoricosDe
  <2>2. headers[opas[i].hist[k].header] = "remessaGerado"
    BY <1>1, <1>10, <2>1 DEF ForaDoBanco
  <2> QED
    BY <1>1, <1>10, <2>1, <2>2 DEF Pago, PreparadoParaEnvio, Efetivado, PendenciaPaga
<1>11. Livro' /\ UmPedidoPorGrupo' /\ Arquivos' /\ Pedidos' /\ Creditados'
  BY <1>1, <1>2, <1>6, <1>10, LimparFicam
<1> QED
  BY <1>3, <1>7, <1>8, <1>9, <1>11 DEF IInv

LEMMA InvLimparPendentes == ASSUME IInv, Riscos = {}, LimparPreparoPendentes PROVE IInv'
<1> DEFINE novas == FilhasNovas(FilhasDosPais)
<1>1. /\ Ids' = Ids \ (Pais \cup novas)
      /\ \A i \in Ids' : i \notin FilhasDosPais => opas'[i] = opas[i]
      /\ \A i \in Ids' : i \in FilhasDosPais =>
            /\ opas'[i].ordens = opas[i].ordens /\ opas'[i].total = opas[i].total
            /\ opas'[i].pai = 0 /\ opas'[i].dia = opas[i].dia
            /\ \A k : k \in DOMAIN opas'[i].hist <=>
                  k \in DOMAIN opas[i].hist /\ ~Aberta(opas[i].hist[k])
            /\ \A k \in DOMAIN opas'[i].hist : opas'[i].hist[k] = opas[i].hist[k]
            /\ \E k : k \in DOMAIN opas'[i].hist
      /\ headers' = SemOrfaos(opas')
      /\ ForaDoBanco(Pais)
  BY LimparPendentesEfeito DEF IInv
<1>2. instrucoes' = instrucoes /\ creditos' = creditos /\ hoje' = hoje
  BY DEF LimparPreparoPendentes, banco_vars
<1>3. Tipos'
  BY TiposLimparPendentes DEF IInv
<1>4. \A i \in FilhasDosPais : i \in Ids /\ opas[i].pai \in Pais /\ opas[i].pai # 0 /\ ~Mae(i)
  <2> SUFFICES ASSUME NEW i \in FilhasDosPais
               PROVE  i \in Ids /\ opas[i].pai \in Pais /\ opas[i].pai # 0 /\ ~Mae(i)
    OBVIOUS
  <2>1. PICK j \in Pais : i \in FilhasDe(j)
    BY DEF FilhasDosPais
  <2>2. i \in Ids /\ opas[i].pai = j /\ j \in Ids
    BY <2>1 DEF FilhasDe, Pais
  <2>3. j # 0
    BY <2>2, Limites DEF IInv
  <2> QED
    BY <2>2, <2>3 DEF IInv, Tipos, MaesSemOrdens
<1>5. \A i \in Pais : /\ i \in Ids /\ i # 0 /\ Mae(i) /\ opas[i].pai = 0 /\ opas[i].dia = hoje
                      /\ DOMAIN opas[i].hist = {1}
                      /\ opas[i].hist[1].status \in {Criado, PreparadoParaEnvio}
  <2> SUFFICES ASSUME NEW i \in Pais
               PROVE  /\ i \in Ids /\ i # 0 /\ Mae(i) /\ opas[i].pai = 0 /\ opas[i].dia = hoje
                      /\ DOMAIN opas[i].hist = {1}
                      /\ opas[i].hist[1].status \in {Criado, PreparadoParaEnvio}
    OBVIOUS
  <2>1. i \in Ids /\ opas[i].dia = hoje /\ i # 0
    BY Limites DEF Pais, IInv
  <2>2. PICK f \in Ids : opas[f].pai = i
    BY DEF Pais, FilhasDe
  <2>3. Mae(i)
    BY <2>1, <2>2 DEF IInv, Tipos, MaesSemOrdens
  <2>4. opas[i].pai = 0 /\ DOMAIN opas[i].hist = {1}
    BY <2>1, <2>3 DEF IInv, Grupos
  <2> QED
    BY <2>1, <2>3, <2>4 DEF Pais, StatusDe, HistoricosDe
<1>6. \A i \in novas : i \in FilhasDosPais /\ \A k \in DOMAIN opas[i].hist : Intocada(opas[i].hist[k])
  BY DEF FilhasNovas, HistoricosDe
<1>7. \A i \in Ids : opas[i].pai \in Pais => i \in FilhasDosPais
  BY DEF FilhasDosPais, FilhasDe
<1> HIDE DEF novas
\* Whoever still has a parent is as it was, and so is the parent.
<1>8. \A i \in Ids : opas[i].pai # 0 /\ opas[i].pai \notin Pais =>
         /\ i \in Ids' /\ opas'[i] = opas[i]
         /\ opas[i].pai \in Ids' /\ opas'[opas[i].pai] = opas[opas[i].pai]
  <2> SUFFICES ASSUME NEW i \in Ids, opas[i].pai # 0, opas[i].pai \notin Pais
               PROVE  /\ i \in Ids' /\ opas'[i] = opas[i]
                      /\ opas[i].pai \in Ids' /\ opas'[opas[i].pai] = opas[opas[i].pai]
    OBVIOUS
  <2>1. i \notin Pais /\ i \notin FilhasDosPais /\ i \notin novas
    BY <1>4, <1>5, <1>6
  <2>2. opas[i].pai \in Ids /\ Mae(opas[i].pai)
    BY TipoDaOpa DEF IInv, Tipos, MaesSemOrdens
  <2>3. opas[i].pai \notin FilhasDosPais /\ opas[i].pai \notin novas
    BY <1>4, <1>6, <2>2
  <2> QED
    BY <1>1, <2>1, <2>2, <2>3
<1>9. \A i \in Ids' : /\ i \in Ids /\ i \notin Pais
                      /\ opas'[i].ordens = opas[i].ordens /\ opas'[i].total = opas[i].total
                      /\ opas'[i].dia = opas[i].dia /\ Mae(i)' = Mae(i)
                      /\ opas'[i].pai # 0 => opas[i].pai # 0 /\ opas[i].pai \notin Pais
                      /\ i \notin FilhasDosPais => opas'[i] = opas[i] /\ opas[i].pai \notin Pais
                      /\ \A k \in DOMAIN opas'[i].hist :
                            k \in DOMAIN opas[i].hist /\ opas'[i].hist[k] = opas[i].hist[k]
  BY <1>1, <1>7 DEF Mae
<1>10. Grupos'
  BY <1>4, <1>9 DEF IInv, Grupos
<1>11. Filhas'
  <2>0. \A h : Recusada(h)' = Recusada(h) /\ Viva(h)' = Viva(h) /\ Pago(h)' = Pago(h)
    BY DEF Recusada, Viva, Pago, SemMotivo, Casa
  <2>1. \A i \in Ids' : opas'[i].pai # 0 => opas'[i].ordens \subseteq opas'[opas'[i].pai].total
    BY <1>8, <1>9 DEF IInv, Filhas
  <2>2. ASSUME NEW i \in Ids', Mae(i)', ~Recusada(opas'[i].hist[1]), NEW o \in opas'[i].total
        PROVE  \E f \in Ids' : opas'[f].pai = i /\ o \in opas'[f].ordens
    <3>1. i \in Ids /\ opas'[i] = opas[i] /\ Mae(i) /\ i # 0 /\ i \notin Pais
      BY <1>4, <1>9, <2>2, Limites DEF IInv
    <3>2. PICK f \in Ids : opas[f].pai = i /\ o \in opas[f].ordens
      BY <2>2, <3>1 DEF IInv, Filhas
    <3> QED
      BY <1>8, <3>1, <3>2
  <2>3. \A i \in Ids' : opas'[i].pai # 0 =>
          \A k \in DOMAIN opas'[i].hist : ~Viva(opas'[i].hist[k])
    BY <1>9 DEF IInv, Filhas
  <2>4. \A i \in Ids' : opas'[i].pai # 0 /\ ~Pago(opas'[opas'[i].pai].hist[1]) =>
          \A k \in DOMAIN opas'[i].hist : ~Pago(opas'[i].hist[k])
    BY <1>8, <1>9 DEF IInv, Filhas
  <2> QED
    BY <2>0, <2>1, <2>2, <2>3, <2>4 DEF Filhas
<1>12. \A i \in Ids' : SemPedido(i)' = SemPedido(i)
  <2> SUFFICES ASSUME NEW i \in Ids' PROVE SemPedido(i)' = SemPedido(i)
    OBVIOUS
  <2>1. CASE i \in FilhasDosPais
    <3>1. SemPedido(i) => SemPedido(i)'
      BY <1>9 DEF SemPedido
    <3>2. ASSUME SemPedido(i)', NEW k \in DOMAIN opas[i].hist PROVE opas[i].hist[k].header = 0
      BY <1>1, <2>1, <3>2 DEF SemPedido, Aberta, Intocada
    <3> QED
      BY <3>1, <3>2 DEF SemPedido
  <2>2. CASE i \notin FilhasDosPais
    BY <1>9, <2>2 DEF SemPedido
  <2> QED
    BY <2>1, <2>2
<1>13. NuncaPedidos'
  \* A child that is alone again has the row it had.
  <2>1. ASSUME NEW i \in Ids', ~Mae(i)', opas'[i].pai = 0, SemPedido(i)' PROVE UmaLinha(i)'
    <3>1. CASE i \in FilhasDosPais
      <4>1. DuasLinhas(i) /\ opas[opas[i].pai].dia = hoje
        BY <1>4, <1>5, <1>12, <2>1, <3>1 DEF IInv, NuncaPedidos
      <4>2. PICK k, m : /\ k # m /\ DOMAIN opas[i].hist = {k, m}
                        /\ Intocada(opas[i].hist[k]) /\ Intocada(opas[i].hist[m])
                        /\ opas[i].hist[k].dia = opas[i].dia
                        /\ opas[i].hist[m].dia = hoje
        BY <4>1 DEF DuasLinhas
      <4>3. Aberta(opas[i].hist[m])
        BY <4>2 DEF Aberta
      <4>4. \A q : q \in DOMAIN opas'[i].hist <=> q = k
        BY <1>1, <3>1, <4>2, <4>3
      <4>5. DOMAIN opas'[i].hist = {k}
        BY <4>4
      <4>6. opas'[i].hist[k] = opas[i].hist[k] /\ opas'[i].dia = opas[i].dia
        BY <1>9, <4>4
      <4> QED
        BY <4>2, <4>5, <4>6 DEF UmaLinha, Intocada
    <3>2. CASE i \notin FilhasDosPais
      <4>1. i \in Ids /\ opas'[i] = opas[i]
        BY <1>9, <3>2
      <4>2. UmaLinha(i)
        BY <1>9, <1>12, <2>1, <4>1 DEF IInv, NuncaPedidos
      <4> QED
        BY <4>1, <4>2 DEF UmaLinha, Intocada
    <3> QED
      BY <3>1, <3>2
  <2>2. ASSUME NEW i \in Ids', opas'[i].pai # 0, SemPedido(i)',
               opas'[opas'[i].pai].hist[1].status \in {Criado, PreparadoParaEnvio}
        PROVE  DuasLinhas(i)'
    <3>1. /\ i \in Ids /\ opas'[i] = opas[i] /\ opas[i].pai # 0
          /\ opas'[opas[i].pai] = opas[opas[i].pai]
      BY <1>8, <1>9, <2>2
    <3>2. DuasLinhas(i)
      BY <1>12, <2>2, <3>1 DEF IInv, NuncaPedidos
    <3> QED
      BY <3>1, <3>2 DEF DuasLinhas, Intocada
  <2>3. ASSUME NEW i \in Ids', ~Mae(i)', opas'[i].pai = 0, ~SemPedido(i)', opas'[i].dia = hoje,
               NEW k \in DOMAIN opas'[i].hist, opas'[i].hist[k].status = Criado
        PROVE  FALSE
    <3>1. CASE i \in FilhasDosPais
      <4>1. /\ i \in Ids /\ k \in DOMAIN opas[i].hist /\ ~Aberta(opas[i].hist[k])
            /\ opas[i].hist[k].status = Criado /\ opas[i].dia = hoje
        BY <1>1, <1>9, <2>3, <3>1
      <4>2. opas[i].hist[k].header = 0 /\ hoje <= opas[i].hist[k].dia
        BY <4>1 DEF IInv, Livro, Colunas
      <4>3. opas[i].hist[k].dia \in 1..hoje /\ hoje \in Nat
        BY <4>1, TipoDaLinha, Limites DEF IInv
      <4>4. opas[i].hist[k].dia = hoje
        BY <4>2, <4>3
      <4> QED
        BY <4>1, <4>2, <4>4 DEF Aberta, Intocada
    <3>2. CASE i \notin FilhasDosPais
      BY <1>9, <1>12, <2>3, <3>2 DEF IInv, NuncaPedidos
    <3> QED
      BY <3>1, <3>2
  <2> QED
    BY <1>2, <2>1, <2>2, <2>3 DEF NuncaPedidos
\* What is cleared is not at the bank, nor paid.
<1>14. ASSUME NEW i \in Pais, NEW k \in DOMAIN opas[i].hist, opas[i].hist[k].header # 0
       PROVE  /\ ~Pago(opas[i].hist[k])
              /\ headers[opas[i].hist[k].header] # "remessaEnviado"
  <2>1. opas[i].hist[k] \in HistoricosDe(i)
    BY DEF HistoricosDe
  <2>2. headers[opas[i].hist[k].header] = "remessaGerado"
    BY <1>1, <1>14, <2>1 DEF ForaDoBanco
  <2>3. opas[i].hist[k].status \in {Criado, PreparadoParaEnvio}
    BY <1>5
  <2> QED
    BY <2>2, <2>3 DEF Pago, Criado, PreparadoParaEnvio, Efetivado, PendenciaPaga
<1>15. ASSUME NEW i \in Ids, NEW k \in DOMAIN opas[i].hist, opas[i].hist[k].header # 0,
              i \notin Pais
       PROVE  i \in Ids' /\ k \in DOMAIN opas'[i].hist
  <2>1. i \notin novas
    BY <1>6, <1>15 DEF Intocada
  <2>2. i \in Ids'
    BY <1>1, <1>15, <2>1
  <2>3. ~Aberta(opas[i].hist[k])
    BY <1>15 DEF Aberta, Intocada
  <2> QED
    BY <1>1, <2>2, <2>3
<1>16. Livro' /\ UmPedidoPorGrupo' /\ Arquivos' /\ Pedidos' /\ Creditados'
  BY <1>1, <1>2, <1>9, <1>14, <1>15, LimparFicam
<1> QED
  BY <1>3, <1>10, <1>11, <1>13, <1>16 DEF IInv

-----------------------------------------------------------------------------
(* Grouping what is pending.                                               *)

\* C goes under the parent p: groupings refused, or never asked for, and one
\* of loose orders.  None of them is at the bank or paid, nor is the parent
\* that one of them had.
Reunidas(C, p) ==
    /\ p \notin Ids /\ p # 0 /\ p \notin C
    /\ \A i : i \in Ids' <=> i \in Ids \/ i \in C \/ i = p
    /\ \A i \in Ids : i \notin C => opas'[i] = opas[i]
    /\ opas'[p].ordens = {} /\ opas'[p].pai = 0 /\ opas'[p].dia = hoje
    /\ DOMAIN opas'[p].hist = {1} /\ opas'[p].hist[1] = Historico /\ opas'[p].total # {}
    /\ \A o : o \in opas'[p].total <=> \E c \in C : o \in opas'[c].ordens
    /\ \A c \in C : /\ opas'[c].ordens # {} /\ opas'[c].total = opas'[c].ordens
                    /\ opas'[c].pai = p
    /\ \A c \in C : c \in Ids =>
          /\ opas'[c].ordens = opas[c].ordens /\ opas'[c].total = opas[c].total
          /\ opas'[c].dia = opas[c].dia
          /\ \E u : /\ u \notin DOMAIN opas[c].hist
                    /\ \A k : k \in DOMAIN opas'[c].hist <=> k \in DOMAIN opas[c].hist \/ k = u
                    /\ opas'[c].hist[u] = Historico
          /\ \A k \in DOMAIN opas[c].hist : opas'[c].hist[k] = opas[c].hist[k]
    /\ \A c \in C : c \notin Ids =>
          /\ opas'[c].ordens \cap Agrupadas = {} /\ opas'[c].dia = hoje
          /\ \A k : k \in DOMAIN opas'[c].hist <=> k = 1 \/ k = 2
          /\ opas'[c].hist[1] = Historico /\ opas'[c].hist[2] = Historico
    /\ \A c, d \in C : c \notin Ids /\ d \notin Ids => c = d
    /\ \A c \in C : c \in Ids =>
          /\ ~Mae(c)
          /\ \A k \in DOMAIN opas[c].hist : ~Viva(opas[c].hist[k]) /\ ~Pago(opas[c].hist[k])
          /\ opas[c].pai # 0 => Recusada(opas[opas[c].pai].hist[1])
          /\ SemPedido(c) => opas[c].pai = 0

LEMMA PendentesSemRisco ==
    ASSUME IInv, Riscos = {}, AgruparPendentes PROVE \E C, p : Reunidas(C, p)
<1>1. PICK F \in SUBSET Ids, R \in SUBSET Soltas : \E fresca, pai, total :
         PendentesFeito(F, R, fresca, pai, total)
  BY PendentesEfeito DEF IInv
<1>0. Tipos /\ hoje \in Nat /\ geradas \in Nat
  BY Limites DEF IInv
<1>2. PICK fresca, p, total : PendentesFeito(F, R, fresca, p, total)
  BY <1>1
<1>3. ~HaDevolvido
  BY DEF AgruparPendentes
<1> DEFINE C == F \cup Nunca \cup fresca
<1>4. /\ p \notin Ids /\ p # 0 /\ p \notin fresca /\ Nunca \subseteq Ids
      /\ fresca \cap Ids = {} /\ (\A c, d \in fresca : c = d)
      /\ fresca # {} => R # {}
      /\ p \in Ids'
  <2>1. p \notin Ids /\ p \notin fresca /\ p > geradas /\ p \in Nat
    BY <1>2 DEF PendentesFeito
  <2>2. fresca = IF R = {} THEN {} ELSE {geradas + 1}
    BY <1>2 DEF PendentesFeito
  <2>3. geradas + 1 \notin Ids
    BY <1>2 DEF PendentesFeito
  <2>4. \A i : i \in Ids' <=> i \in Ids \/ i \in fresca \/ i = p
    BY <1>2 DEF PendentesFeito
  <2>5. p # 0
    BY <1>0, <2>1
  <2>6. Nunca \subseteq Ids
    BY DEF Nunca
  <2>7. fresca \cap Ids = {} /\ (\A c, d \in fresca : c = d) /\ (fresca # {} => R # {})
    BY <2>2, <2>3
  <2>8. p \in Ids'
    BY <2>4
  <2> QED
    BY <2>1, <2>5, <2>6, <2>7, <2>8
\* A row that was refused has its reason.
<1>5. ASSUME NEW i \in Ids, NEW k \in DOMAIN opas[i].hist, opas[i].hist[k].status = NaoEfetivado
      PROVE  Recusada(opas[i].hist[k])
  BY <1>3, <1>5 DEF HaDevolvido, HistoricosDe, IInv, Livro, Colunas, Recusada, SemMotivo
<1>6. ASSUME NEW c \in F
      PROVE  /\ c \in Ids /\ ~Mae(c) /\ ~SemPedido(c)
             /\ opas[c].hist[UltimaRejeicao(c)].valor = opas[c].ordens
             /\ \A k \in DOMAIN opas[c].hist : ~Viva(opas[c].hist[k]) /\ ~Pago(opas[c].hist[k])
             /\ opas[c].pai # 0 => Recusada(opas[opas[c].pai].hist[1])
  <2>1. Pendente(c) /\ c \in Ids
    BY <1>2 DEF PendentesFeito
  <2>2. UltimaRejeicao(c) \in DOMAIN opas[c].hist /\ Rejeicao(opas[c].hist[UltimaRejeicao(c)])
    BY <2>1, UltimaRejeicaoExiste DEF IInv, Pendente
  <2>3. ~Mae(c)
    BY <2>1 DEF Pendente, Mae
  <2>4. ~SemPedido(c) /\ opas[c].hist[UltimaRejeicao(c)].valor = opas[c].ordens
    BY <2>1, <2>2, <2>3 DEF SemPedido, Rejeicao, IInv, Livro, Colunas, Grupos
  <2>5. ASSUME NEW k \in DOMAIN opas[c].hist
        PROVE  ~Viva(opas[c].hist[k]) /\ ~Pago(opas[c].hist[k])
    <3>1. opas[c].hist[k].status \notin {PreparadoParaEnvio, AguardandoPagamento,
                                         Efetivado, PendenciaPaga}
      BY <2>1 DEF Pendente, StatusDe, HistoricosDe
    <3>2. opas[c].hist[k].status = NaoEfetivado => Recusada(opas[c].hist[k])
      BY <1>5, <2>1
    <3> QED
      BY <3>1, <3>2 DEF Viva, Casa, Pago, Recusada
  <2>6. ASSUME opas[c].pai # 0 PROVE Recusada(opas[opas[c].pai].hist[1])
    <3>1. opas[c].pai \in Ids /\ Mae(opas[c].pai)
      BY <2>1, <2>6, TipoDaOpa DEF IInv, Tipos, MaesSemOrdens
    <3>2. 1 \in DOMAIN opas[opas[c].pai].hist
      BY <3>1 DEF IInv, Grupos
    <3>3. opas[opas[c].pai].hist[1].status = NaoEfetivado
      BY <2>1, <3>1, <3>2 DEF Pendente, StatusDe, HistoricosDe
    <3> QED
      BY <1>5, <3>1, <3>2, <3>3
  <2> QED
    BY <2>1, <2>3, <2>4, <2>5, <2>6
<1>7. ASSUME NEW c \in Nunca
      PROVE  /\ c \in Ids /\ ~Mae(c) /\ opas[c].total = opas[c].ordens /\ opas[c].pai = 0
             /\ \A k \in DOMAIN opas[c].hist : ~Viva(opas[c].hist[k]) /\ ~Pago(opas[c].hist[k])
  <2>1. c \in Ids /\ ~Mae(c) /\ opas[c].pai = 0
        /\ \A h \in HistoricosDe(c) : Intocada(h)
    BY DEF Nunca, NuncaEnviado, Mae
  <2>2. opas[c].total = opas[c].ordens
    BY <2>1 DEF IInv, Grupos
  <2>3. \A k \in DOMAIN opas[c].hist : ~Viva(opas[c].hist[k]) /\ ~Pago(opas[c].hist[k])
    BY <2>1 DEF HistoricosDe, Intocada, Viva, Pago, Criado, Efetivado, PendenciaPaga
  <2> QED
    BY <2>1, <2>2, <2>3
\* Those of them that are not new.
<1>8. ASSUME NEW c \in F \cup Nunca
      PROVE  /\ c \in Ids /\ c # p /\ ~Mae(c) /\ c \notin fresca
             /\ opas'[c].ordens = opas[c].ordens /\ opas'[c].total = opas[c].total
             /\ opas'[c].pai = p /\ opas'[c].dia = opas[c].dia
             /\ \E u : /\ u \notin DOMAIN opas[c].hist
                       /\ \A k : k \in DOMAIN opas'[c].hist <=> k \in DOMAIN opas[c].hist \/ k = u
                       /\ opas'[c].hist[u] = Historico
             /\ \A k \in DOMAIN opas[c].hist : opas'[c].hist[k] = opas[c].hist[k]
             /\ opas[c].total = opas[c].ordens
  <2>1. c \in Ids /\ ~Mae(c) /\ c # p /\ c \notin fresca
    BY <1>4, <1>6, <1>7
  <2>2. opas'[c] = Filha(opas[c], p)
    BY <1>2, <2>1 DEF PendentesFeito
  <2>4. LET nova == Filha(opas[c], p)
            u == UltimoDe(opas[c].hist) + 1
        IN  /\ nova.ordens = opas[c].ordens /\ nova.total = opas[c].total
            /\ nova.pai = p /\ nova.dia = opas[c].dia
            /\ u \notin DOMAIN opas[c].hist
            /\ \A k : k \in DOMAIN nova.hist <=> k \in DOMAIN opas[c].hist \/ k = u
            /\ \A k \in DOMAIN opas[c].hist : nova.hist[k] = opas[c].hist[k]
            /\ nova.hist[u] = Historico
    BY <1>0, <1>4, <2>1, FilhaNova
  <2>5. opas[c].total = opas[c].ordens
    BY <2>1 DEF IInv, Grupos
  <2> QED
    BY <2>1, <2>2, <2>4, <2>5
<1>9. ASSUME NEW c \in fresca
      PROVE  /\ c \notin Ids /\ opas'[c].ordens = R /\ opas'[c].total = R /\ R # {}
             /\ opas'[c].pai = p /\ opas'[c].dia = hoje
             /\ \A k : k \in DOMAIN opas'[c].hist <=> k = 1 \/ k = 2
             /\ opas'[c].hist[1] = Historico /\ opas'[c].hist[2] = Historico
  <2>1. opas'[c] = Filha(Opa(R, R), p) /\ c \notin Ids /\ R # {}
    BY <1>2, <1>4 DEF PendentesFeito
  <2>2. R \in SUBSET Ordens
    BY DEF Soltas
  <2>3. /\ opas'[c].ordens = R /\ opas'[c].total = R
        /\ opas'[c].pai = p /\ opas'[c].dia = hoje
        /\ opas'[c].hist[1] = Historico /\ opas'[c].hist[2] = Historico
    BY <1>0, <1>4, <2>1, <2>2, FrescaNova
  <2>4. \A k : k \in DOMAIN opas'[c].hist <=> k = 1 \/ k = 2
    <3>1. Filha(Opa(R, R), p).total = R /\ p \in Ids'
      BY <1>0, <1>4, <2>1, <2>3
    <3>2. ASSUME NEW k PROVE k \in DOMAIN Filha(Opa(R, R), p).hist <=> k = 1 \/ k = 2
      BY <1>0, <2>2, <3>1, FrescaNova
    <3> QED
      BY <2>1, <3>2
  <2> QED
    BY <2>1, <2>3, <2>4
<1>10. /\ opas'[p].ordens = {} /\ opas'[p].pai = 0 /\ opas'[p].dia = hoje
       /\ DOMAIN opas'[p].hist = {1} /\ opas'[p].hist[1] = Historico
       /\ opas'[p].total = total
  <2>1. opas'[p] = Opa({}, total) /\ total \in SUBSET Ordens /\ {} \in SUBSET Ordens
    BY <1>2 DEF PendentesFeito
  <2> QED
    BY <1>0, <2>1, OpaNova
<1>11. \A o : o \in total <=> \E c \in C : o \in opas'[c].ordens
  <2>1. \A o : (\/ o \in R
                \/ \E i \in Nunca : o \in opas[i].total
                \/ \E i \in F : o \in opas[i].hist[UltimaRejeicao(i)].valor)
               <=> o \in total
    BY <1>2 DEF PendentesFeito
  <2>2. \A o : (\E i \in Nunca : o \in opas[i].total) <=> \E c \in Nunca : o \in opas'[c].ordens
    BY <1>7, <1>8
  <2>3. \A o : (\E i \in F : o \in opas[i].hist[UltimaRejeicao(i)].valor)
               <=> \E c \in F : o \in opas'[c].ordens
    BY <1>6, <1>8
  <2>4. R # {} => \E c \in fresca : TRUE
    BY <1>2 DEF PendentesFeito
  <2>5. \A o : o \in R <=> \E c \in fresca : o \in opas'[c].ordens
    BY <1>9, <2>4
  <2> QED
    BY <2>1, <2>2, <2>3, <2>5
<1>12. \A c \in C : opas'[c].ordens # {} /\ opas'[c].total = opas'[c].ordens /\ opas'[c].pai = p
  BY <1>8, <1>9 DEF Mae
<1>13. C # {} /\ \A i : i \in Ids' <=> i \in Ids \/ i \in C \/ i = p
  <2>1. /\ F \cup Nunca \cup fresca # {}
        /\ \A i : i \in Ids' <=> i \in Ids \/ i \in fresca \/ i = p
    BY <1>2 DEF PendentesFeito
  <2>2. \A c \in F \cup Nunca : c \in Ids
    BY <1>8
  <2> QED
    BY <2>1, <2>2
<1>14. \A i \in Ids : i \notin C => opas'[i] = opas[i]
  BY <1>2 DEF PendentesFeito
<1>15. R \cap Agrupadas = {}
  BY DEF Soltas
<1>16. \A c \in C : c \in Ids => c \in F \cup Nunca
  BY <1>4
<1>17. \A c \in C : c \notin Ids => c \in fresca
  BY <1>8
<1>18. total # {}
  BY <1>11, <1>12, <1>13
<1>19. \A c \in C : c \in Ids =>
          /\ ~Mae(c)
          /\ \A k \in DOMAIN opas[c].hist : ~Viva(opas[c].hist[k]) /\ ~Pago(opas[c].hist[k])
          /\ opas[c].pai # 0 => Recusada(opas[opas[c].pai].hist[1])
          /\ SemPedido(c) => opas[c].pai = 0
  <2> SUFFICES ASSUME NEW c \in F \cup Nunca
               PROVE  /\ ~Mae(c)
                      /\ \A k \in DOMAIN opas[c].hist :
                            ~Viva(opas[c].hist[k]) /\ ~Pago(opas[c].hist[k])
                      /\ opas[c].pai # 0 => Recusada(opas[opas[c].pai].hist[1])
                      /\ SemPedido(c) => opas[c].pai = 0
    BY <1>16
  <2>1. CASE c \in F
    BY <1>6, <2>1
  <2>2. CASE c \in Nunca
    BY <1>7, <2>2
  <2> QED
    BY <2>1, <2>2
<1>20. p \notin C
  BY <1>4, <1>8
<1>21. \A c \in C : c \in Ids =>
          /\ opas'[c].ordens = opas[c].ordens /\ opas'[c].total = opas[c].total
          /\ opas'[c].dia = opas[c].dia
          /\ \E u : /\ u \notin DOMAIN opas[c].hist
                    /\ \A k : k \in DOMAIN opas'[c].hist <=> k \in DOMAIN opas[c].hist \/ k = u
                    /\ opas'[c].hist[u] = Historico
          /\ \A k \in DOMAIN opas[c].hist : opas'[c].hist[k] = opas[c].hist[k]
  BY <1>8, <1>16
<1>22. \A c \in C : c \notin Ids =>
          /\ opas'[c].ordens \cap Agrupadas = {} /\ opas'[c].dia = hoje
          /\ \A k : k \in DOMAIN opas'[c].hist <=> k = 1 \/ k = 2
          /\ opas'[c].hist[1] = Historico /\ opas'[c].hist[2] = Historico
  BY <1>9, <1>15, <1>17
<1>23. \A c, d \in C : c \notin Ids /\ d \notin Ids => c = d
  BY <1>4, <1>17
<1> HIDE DEF C
<1>24. Reunidas(C, p)
  BY <1>4, <1>10, <1>11, <1>12, <1>13, <1>14, <1>18, <1>19, <1>20, <1>21, <1>22, <1>23
  DEF Reunidas
<1> QED
  BY <1>24

LEMMA InvPendentes == ASSUME IInv, Riscos = {}, AgruparPendentes PROVE IInv'
<1>1. PICK C, p : Reunidas(C, p)
  BY PendentesSemRisco
<1>2. headers' = headers /\ instrucoes' = instrucoes /\ creditos' = creditos /\ hoje' = hoje
  BY DEF AgruparPendentes, AgruparSobPai, banco_vars
<1>3. Tipos'
  BY TiposPendentes DEF IInv
<1>4. hoje \in Nat
  BY Limites DEF IInv
\* Groupings are as they were, or go under the parent, or are the parent.
<1>5. \A i \in Ids' : \/ i \in C
                      \/ i = p
                      \/ i \in Ids /\ i \notin C /\ i # p /\ opas'[i] = opas[i]
  BY <1>1 DEF Reunidas
<1>6. /\ p \in Ids' /\ p \notin C /\ p # 0
      /\ opas'[p].ordens = {} /\ opas'[p].pai = 0 /\ opas'[p].dia = hoje
      /\ DOMAIN opas'[p].hist = {1} /\ opas'[p].hist[1] = Historico /\ opas'[p].total # {}
      /\ \A c \in C : /\ c \in Ids'
                      /\ opas'[c].ordens # {} /\ opas'[c].total = opas'[c].ordens
                      /\ opas'[c].pai = p
  BY <1>1 DEF Reunidas
\* The row that a child gets, and the others, which it had.
<1>7. ASSUME NEW c \in C, NEW k \in DOMAIN opas'[c].hist
      PROVE  \/ opas'[c].hist[k] = Historico /\ opas'[c].dia <= hoje
             \/ /\ c \in Ids /\ k \in DOMAIN opas[c].hist
                /\ opas'[c].hist[k] = opas[c].hist[k]
                /\ ~Viva(opas[c].hist[k]) /\ ~Pago(opas[c].hist[k])
                /\ opas'[c].total = opas[c].total /\ opas'[c].dia = opas[c].dia
  <2>1. CASE c \in Ids
    <3>1. PICK u : /\ \A m : m \in DOMAIN opas'[c].hist <=> m \in DOMAIN opas[c].hist \/ m = u
                   /\ opas'[c].hist[u] = Historico
      BY <1>1, <2>1 DEF Reunidas
    <3>2. opas'[c].dia = opas[c].dia /\ opas[c].dia \in 1..hoje
      BY <1>1, <2>1, TipoDaOpa DEF Reunidas, IInv
    <3>3. opas[c].dia <= hoje
      BY <1>4, <3>2
    <3> QED
      BY <1>1, <2>1, <3>1, <3>2, <3>3 DEF Reunidas
  <2>2. CASE c \notin Ids
    <3>1. opas'[c].hist[k] = Historico /\ opas'[c].dia = hoje
      BY <1>1, <2>2 DEF Reunidas
    <3> QED
      BY <1>4, <3>1
  <2> QED
    BY <2>1, <2>2
<1>8. \A i \in Ids' : Mae(i)' => i = p \/ (i \in Ids /\ i \notin C /\ opas'[i] = opas[i] /\ Mae(i))
  BY <1>5, <1>6 DEF Mae
\* Whoever had another parent and is as it was.
<1>9. \A i \in Ids' : opas'[i].pai # 0 /\ i \notin C =>
         /\ i \in Ids /\ opas'[i] = opas[i]
         /\ opas[i].pai \in Ids' /\ opas'[opas[i].pai] = opas[opas[i].pai]
  <2> SUFFICES ASSUME NEW i \in Ids', opas'[i].pai # 0, i \notin C
               PROVE  /\ i \in Ids /\ opas'[i] = opas[i]
                      /\ opas[i].pai \in Ids' /\ opas'[opas[i].pai] = opas[opas[i].pai]
    OBVIOUS
  <2>1. i \in Ids /\ opas'[i] = opas[i] /\ opas[i].pai # 0
    BY <1>5, <1>6
  <2>2. opas[i].pai \in Ids /\ Mae(opas[i].pai)
    BY <2>1, TipoDaOpa DEF IInv, Tipos, MaesSemOrdens
  <2>3. opas[i].pai \notin C
    BY <1>1, <2>2 DEF Reunidas
  <2> QED
    BY <1>1, <2>1, <2>2, <2>3 DEF Reunidas
<1>10. /\ Historico.status = Criado /\ Historico.motivo = Nulo /\ Historico.header = 0
       /\ Historico.dia = hoje /\ Intocada(Historico)
       /\ ~Viva(Historico) /\ ~Pago(Historico) /\ ~Recusada(Historico)
  BY DEF Historico, Intocada, Viva, Pago, Recusada, Criado, Efetivado, PendenciaPaga,
         NaoEfetivado
<1>11. Grupos'
  <2>1. \A i \in Ids' : opas'[i].total # {}
    BY <1>5, <1>6 DEF IInv, Grupos
  <2>2. \A i \in Ids' : ~Mae(i)' => opas'[i].total = opas'[i].ordens
    BY <1>5, <1>6 DEF IInv, Grupos, Mae
  <2>3. ASSUME NEW i \in Ids', NEW j \in Ids', i # j, NEW o \in opas'[i].ordens,
               o \in opas'[j].ordens
        PROVE  FALSE
    <3>1. \A q \in Ids' : o \in opas'[q].ordens => q # p
      BY <1>6
    <3>2. \A q \in Ids : q \in Ids' /\ q # p => opas'[q].ordens = opas[q].ordens
      BY <1>1 DEF Reunidas
    <3>3. \A q \in Ids' : o \in opas'[q].ordens /\ q \notin Ids => o \notin Agrupadas /\ q \in C
      BY <1>1, <3>1 DEF Reunidas
    <3>4. \A q \in Ids : o \in opas[q].ordens => o \in Agrupadas
      BY DEF Agrupadas
    <3>5. CASE i \in Ids /\ j \in Ids
      BY <2>3, <3>1, <3>2, <3>5 DEF IInv, Grupos
    <3>6. CASE i \notin Ids /\ j \notin Ids
      BY <1>1, <2>3, <3>3, <3>6 DEF Reunidas
    <3> QED
      BY <2>3, <3>1, <3>2, <3>3, <3>4, <3>5, <3>6
  <2>4. \A i \in Ids' : Mae(i)' => opas'[i].pai = 0 /\ DOMAIN opas'[i].hist = {1}
    BY <1>6, <1>8 DEF IInv, Grupos
  <2> QED
    BY <2>1, <2>2, <2>3, <2>4 DEF Grupos
<1>12. Filhas'
  <2>0. \A h : Recusada(h)' = Recusada(h) /\ Viva(h)' = Viva(h) /\ Pago(h)' = Pago(h)
    BY DEF Recusada, Viva, Pago, SemMotivo, Casa
  <2>1. ASSUME NEW i \in Ids', opas'[i].pai # 0
        PROVE  opas'[i].ordens \subseteq opas'[opas'[i].pai].total
    <3>1. CASE i \in C
      BY <1>1, <3>1 DEF Reunidas
    <3>2. CASE i \notin C
      BY <1>9, <2>1, <3>2 DEF IInv, Filhas
    <3> QED
      BY <3>1, <3>2
  <2>2. ASSUME NEW i \in Ids', Mae(i)', ~Recusada(opas'[i].hist[1]), NEW o \in opas'[i].total
        PROVE  \E f \in Ids' : opas'[f].pai = i /\ o \in opas'[f].ordens
    <3>1. CASE i = p
      BY <1>1, <1>6, <2>2, <3>1 DEF Reunidas
    <3>2. CASE i # p
      <4>1. i \in Ids /\ opas'[i] = opas[i] /\ Mae(i)
        BY <1>8, <2>2, <3>2
      <4>2. PICK f \in Ids : opas[f].pai = i /\ o \in opas[f].ordens
        BY <2>2, <4>1 DEF IInv, Filhas
      <4>3. i # 0
        BY <4>1, Limites DEF IInv
      <4>4. f \notin C
        BY <1>1, <2>2, <4>1, <4>2, <4>3 DEF Reunidas
      <4> QED
        BY <1>1, <4>2, <4>4 DEF Reunidas
    <3> QED
      BY <3>1, <3>2
  <2>3. ASSUME NEW i \in Ids', opas'[i].pai # 0, NEW k \in DOMAIN opas'[i].hist
        PROVE  ~Viva(opas'[i].hist[k])
    <3>1. CASE i \in C
      BY <1>7, <1>10, <3>1
    <3>2. CASE i \notin C
      BY <1>9, <2>3, <3>2 DEF IInv, Filhas
    <3> QED
      BY <3>1, <3>2
  <2>4. ASSUME NEW i \in Ids', opas'[i].pai # 0, ~Pago(opas'[opas'[i].pai].hist[1]),
               NEW k \in DOMAIN opas'[i].hist
        PROVE  ~Pago(opas'[i].hist[k])
    <3>1. CASE i \in C
      BY <1>7, <1>10, <3>1
    <3>2. CASE i \notin C
      BY <1>9, <2>4, <3>2 DEF IInv, Filhas
    <3> QED
      BY <3>1, <3>2
  <2> QED
    BY <2>0, <2>1, <2>2, <2>3, <2>4 DEF Filhas
<1>13. Livro'
  <2>1. ASSUME NEW i \in Ids', NEW k \in DOMAIN opas'[i].hist,
               opas'[i].hist[k] = Historico, opas'[i].dia <= hoje
        PROVE  Colunas(i, opas[i].hist[k])'
    BY <1>2, <1>10, <2>1 DEF Colunas, Criado, NaoEfetivado, PreparadoParaEnvio
  <2>2. ASSUME NEW i \in Ids', NEW k \in DOMAIN opas'[i].hist, i \in Ids,
               k \in DOMAIN opas[i].hist, opas'[i].hist[k] = opas[i].hist[k],
               opas'[i].total = opas[i].total, opas'[i].dia = opas[i].dia
        PROVE  Colunas(i, opas[i].hist[k])'
    <3>1. Colunas(i, opas[i].hist[k])
      BY <2>2 DEF IInv, Livro
    <3> QED
      BY <1>2, <2>2, <3>1 DEF Colunas
  <2>3. ASSUME NEW i \in Ids', NEW k \in DOMAIN opas'[i].hist
        PROVE  Colunas(i, opas[i].hist[k])'
    <3>1. CASE i \in C
      BY <1>7, <2>1, <2>2, <3>1
    <3>2. CASE i = p
      <4>1. k = 1 /\ hoje <= hoje
        BY <1>4, <1>6, <3>2
      <4> QED
        BY <1>6, <2>1, <3>2, <4>1
    <3>3. CASE i \in Ids /\ opas'[i] = opas[i]
      BY <2>2, <3>3
    <3> QED
      BY <1>5, <3>1, <3>2, <3>3
  <2> QED
    BY <2>3 DEF Livro
\* Every row with a DetalheA is one that there was.
<1>14. ASSUME NEW i \in Ids', NEW k \in DOMAIN opas'[i].hist,
              opas'[i].hist[k].header # 0 \/ Pago(opas'[i].hist[k])
       PROVE  /\ i \in Ids /\ k \in DOMAIN opas[i].hist /\ opas'[i].hist[k] = opas[i].hist[k]
              /\ opas'[i].total = opas[i].total
  <2>1. CASE i \in C
    BY <1>7, <1>10, <1>14, <2>1
  <2>2. CASE i = p
    BY <1>6, <1>10, <1>14, <2>2
  <2> QED
    BY <1>5, <2>1, <2>2
<1>15. UmPedidoPorGrupo'
  BY <1>14 DEF IInv, UmPedidoPorGrupo
<1>16. NuncaPedidos'
  <2>1. \A i \in Ids : i \notin C => SemPedido(i)' = SemPedido(i) /\ Mae(i)' = Mae(i)
    BY <1>1 DEF SemPedido, Mae, Reunidas
  <2>2. ASSUME NEW i \in Ids', ~Mae(i)', opas'[i].pai = 0, SemPedido(i)' PROVE UmaLinha(i)'
    <3>1. i \in Ids /\ opas'[i] = opas[i] /\ i \notin C
      BY <1>5, <1>6, <2>2 DEF Mae
    <3>2. UmaLinha(i)
      BY <2>1, <2>2, <3>1 DEF IInv, NuncaPedidos
    <3> QED
      BY <3>1, <3>2 DEF UmaLinha, Intocada
  <2>3. ASSUME NEW i \in Ids', opas'[i].pai # 0, SemPedido(i)',
               opas'[opas'[i].pai].hist[1].status \in {Criado, PreparadoParaEnvio}
        PROVE  DuasLinhas(i)'
    <3>1. CASE i \in C /\ i \notin Ids
      <4>1. /\ DOMAIN opas'[i].hist = {1, 2}
            /\ opas'[i].hist[1] = Historico /\ opas'[i].hist[2] = Historico
            /\ opas'[i].dia = hoje
        BY <1>1, <3>1 DEF Reunidas
      <4>2. opas'[opas'[i].pai].dia = hoje
        BY <1>6, <3>1
      <4>3. /\ 1 # 2 /\ DOMAIN opas'[i].hist = {1, 2}
            /\ Intocada(opas[i].hist[1])' /\ Intocada(opas[i].hist[2])'
            /\ opas'[i].hist[1].dia = opas'[i].dia
            /\ opas'[i].hist[2].dia = opas'[opas'[i].pai].dia
        BY <1>10, <4>1, <4>2 DEF Intocada
      <4> QED
        BY <4>3 DEF DuasLinhas
    <3>2. CASE i \in C /\ i \in Ids
      <4>1. PICK u : /\ u \notin DOMAIN opas[i].hist
                     /\ \A m : m \in DOMAIN opas'[i].hist <=> m \in DOMAIN opas[i].hist \/ m = u
                     /\ opas'[i].hist[u] = Historico
        BY <1>1, <3>2 DEF Reunidas
      <4>2. /\ \A m \in DOMAIN opas[i].hist : opas'[i].hist[m] = opas[i].hist[m]
            /\ opas'[i].dia = opas[i].dia /\ ~Mae(i)
            /\ SemPedido(i) => opas[i].pai = 0
        BY <1>1, <3>2 DEF Reunidas
      <4>3. SemPedido(i)
        BY <2>3, <4>1, <4>2 DEF SemPedido
      <4>4. UmaLinha(i)
        BY <3>2, <4>2, <4>3 DEF IInv, NuncaPedidos
      <4>5. PICK k : /\ DOMAIN opas[i].hist = {k}
                     /\ Intocada(opas[i].hist[k])
                     /\ opas[i].hist[k].dia = opas[i].dia
        BY <4>4 DEF UmaLinha
      <4>6. DOMAIN opas'[i].hist = {k, u} /\ k # u
        BY <4>1, <4>5
      <4>7. /\ Intocada(opas[i].hist[k])' /\ Intocada(opas[i].hist[u])'
            /\ opas'[i].hist[k].dia = opas'[i].dia
            /\ opas'[i].hist[u].dia = opas'[opas'[i].pai].dia
        BY <1>6, <1>10, <3>2, <4>1, <4>2, <4>5 DEF Intocada
      <4> QED
        BY <4>6, <4>7 DEF DuasLinhas
    <3>3. CASE i \notin C
      <4>1. /\ i \in Ids /\ opas'[i] = opas[i] /\ opas[i].pai # 0
            /\ opas'[opas[i].pai] = opas[opas[i].pai]
        BY <1>9, <2>3, <3>3
      <4>2. DuasLinhas(i)
        BY <2>1, <2>3, <3>3, <4>1 DEF IInv, NuncaPedidos
      <4> QED
        BY <4>1, <4>2 DEF DuasLinhas, Intocada
    <3> QED
      BY <3>1, <3>2, <3>3
  <2>4. ASSUME NEW i \in Ids', ~Mae(i)', opas'[i].pai = 0, ~SemPedido(i)', opas'[i].dia = hoje,
               NEW k \in DOMAIN opas'[i].hist
        PROVE  opas'[i].hist[k].status # Criado
    <3>1. i \in Ids /\ opas'[i] = opas[i] /\ i \notin C
      BY <1>5, <1>6, <2>4 DEF Mae
    <3> QED
      BY <2>1, <2>4, <3>1 DEF IInv, NuncaPedidos
  <2> QED
    BY <1>2, <2>2, <2>3, <2>4 DEF NuncaPedidos
<1>17. Arquivos'
  BY <1>2, <1>14, ArquivosFicam
<1>18. Pedidos'
  <2>1. ASSUME NEW i \in Ids, NEW k \in DOMAIN opas[i].hist
        PROVE  /\ i \in Ids' /\ k \in DOMAIN opas'[i].hist
               /\ opas'[i].hist[k] = opas[i].hist[k] /\ opas'[i].dia = opas[i].dia
    BY <1>1 DEF Reunidas
  <2> QED
    BY <1>2, <2>1, PedidosFicam
<1>19. Creditados'
  BY <1>2, <1>14, CreditadosFicam
<1> QED
  BY <1>3, <1>11, <1>12, <1>13, <1>15, <1>16, <1>17, <1>18, <1>19 DEF IInv

-----------------------------------------------------------------------------
(* Reading an answer.                                                      *)

\* What an answer makes of its row.
Resultado(p, b) ==
    \/ p.fase = "incluida" /\ b.status = AguardandoPagamento /\ b.motivo = BD
    \/ p.fase = "recusada" /\ Recusada(b) /\ b.motivo \notin {BD, Zero}
    \/ /\ p.fase \in {"recusada", "devolvida"}
       /\ b.status = NaoEfetivado /\ b.motivo = Branco
    \/ p.fase = "creditada" /\ Pago(b)

LEMMA RespostasPossiveis ==
    ASSUME NEW p, NEW lote, NEW det, p.fase \in Fases, FaseCerta(p), p.retorno = <<lote, det>>
    PROVE  \/ p.fase = "incluida" /\ lote = BD /\ det = BD /\ ~Esperando(p)
           \/ p.fase = "creditada" /\ lote = Zero /\ det = Zero /\ Esperando(p)
           \/ p.fase = "recusada" /\ lote \in {BD, ErroDeLote} /\ det = Recusa /\ ~Esperando(p)
           \/ p.fase = "recusada" /\ lote = Zero /\ det = Recusa /\ Esperando(p)
           \/ p.fase = "devolvida" /\ lote = Branco /\ det = Branco /\ ~Esperando(p)
<1>1. p.retorno # <<>>
  BY RespostasDiferentes
<1>2. /\ Recusa \notin {BD, Zero, Branco} /\ ErroDeLote \notin {BD, Zero, Branco}
      /\ BD # Zero /\ BD # Branco /\ Zero # Branco
  BY PagamentoAssumption DEF OcorrenciaOk, BD, Zero, Branco
<1>3. CASE p.fase = "recebida"
  BY <1>1, <1>3 DEF FaseCerta
<1>4. CASE p.fase = "incluida"
  <2>1. lote = BD /\ det = BD
    BY <1>1, <1>4 DEF FaseCerta
  <2> QED
    BY <1>1, <1>2, <1>4, <2>1 DEF Esperando
<1>5. CASE p.fase = "creditada"
  <2>1. lote = Zero /\ det = Zero
    BY <1>1, <1>5 DEF FaseCerta
  <2> QED
    BY <1>5, <2>1 DEF Esperando
<1>6. CASE p.fase = "recusada"
  <2>1. lote \in {BD, ErroDeLote, Zero} /\ det = Recusa
    BY <1>1, <1>6 DEF FaseCerta
  <2>2. Esperando(p) <=> lote = Zero
    BY <1>2, <1>6, <2>1 DEF Esperando
  <2> QED
    BY <1>6, <2>1, <2>2
<1>7. CASE p.fase = "devolvida"
  <2>1. lote = Branco /\ det = Branco
    BY <1>1, <1>7 DEF FaseCerta
  <2> QED
    BY <1>1, <1>2, <1>7, <2>1 DEF Esperando
<1> QED
  BY <1>3, <1>4, <1>5, <1>6, <1>7 DEF Fases

LEMMA BaixaDoPedido ==
    ASSUME NEW p, NEW h, NEW lote, NEW det, NEW muitos \in BOOLEAN,
           p.fase \in Fases, FaseCerta(p), p.retorno = <<lote, det>>,
           IF Esperando(p) THEN h.status = AguardandoPagamento ELSE Fresca(h)
    PROVE  Resultado(p, Baixa(h, lote, det, muitos))
<1>1. /\ Recusa \notin {BD, Zero, Branco, Nulo} /\ ErroDeLote \notin {BD, Zero, Branco, Nulo}
      /\ BD # Zero /\ BD # Branco /\ Zero # Branco /\ BD # Nulo /\ Branco # Nulo
  BY PagamentoAssumption DEF OcorrenciaOk, BD, Zero, Branco, Nulo
<1>2. \A s, m : Linha(s, m).status = s /\ Linha(s, m).motivo = m
  BY DEF Linha
<1> USE <1>1, <1>2 DEF Resultado, Recusada, SemMotivo, Pago, Fresca, Baixa, ErroNoHeaderLote,
        PrimeiraVolta, Reabre, OcorrenciaOk, StatusDePago, PreparadoParaEnvio,
        AguardandoPagamento, Efetivado, NaoEfetivado, PendenciaPaga
<1>3. CASE p.fase = "incluida" /\ lote = BD /\ det = BD /\ ~Esperando(p)
  BY <1>3
<1>4. CASE p.fase = "creditada" /\ lote = Zero /\ det = Zero /\ Esperando(p)
  BY <1>4
<1>5. CASE p.fase = "recusada" /\ lote \in {BD, ErroDeLote} /\ det = Recusa /\ ~Esperando(p)
  BY <1>5
<1>6. CASE p.fase = "recusada" /\ lote = Zero /\ det = Recusa /\ Esperando(p)
  BY <1>6
<1>7. CASE p.fase = "devolvida" /\ lote = Branco /\ det = Branco /\ ~Esperando(p)
  BY <1>7
<1> QED
  BY <1>3, <1>4, <1>5, <1>6, <1>7, RespostasPossiveis

\* What a child's row becomes when it was waiting for its parent or refused.
FilhaDepois(d, h, b) ==
    /\ \/ d.status = h.status /\ d.motivo = h.motivo
       \/ Pago(b) /\ d.status = PendenciaPaga
       \/ /\ h.status = Criado /\ b.status = NaoEfetivado
          /\ d.status = NaoEfetivado /\ d.motivo = b.motivo
    /\ Pago(b) => d.status = PendenciaPaga

LEMMA DaFilhaDoPedido ==
    ASSUME Tipos, NEW h \in TipoHistorico(hoje, Len(headers)),
           NEW b \in TipoHistorico(hoje, Len(headers)),
           h.status \in {Criado, NaoEfetivado},
           NEW lote \in Ocorrencias, NEW det \in Ocorrencias, NEW muitos \in BOOLEAN
    PROVE  FilhaDepois(DaFilha(h, b, lote, det, muitos), h, b)
<1> DEFINE d == DaFilha(h, b, lote, det, muitos)
           a == IF EmAberto(h) THEN Aplicada(h, lote, det, muitos) ELSE h
           q == Propagado(b, a)
<1>1. d.status = q.status /\ d.motivo = q.motivo
  BY DaFilhaTipo
<1>2. a.status = h.status /\ a.motivo = h.motivo
  <2>1. CASE h.status = Criado
    <3>1. Baixa(h, lote, det, muitos) = h
      BY <2>1 DEF Baixa, ErroNoHeaderLote, PrimeiraVolta, Reabre, Criado, NaoEfetivado,
                  AguardandoPagamento, PreparadoParaEnvio
    <3>2. Aplicada(h, lote, det, muitos).status = Baixa(h, lote, det, muitos).status
          /\ Aplicada(h, lote, det, muitos).motivo = Baixa(h, lote, det, muitos).motivo
      BY AplicadaTipo
    <3> QED
      BY <3>1, <3>2
  <2>2. CASE h.status = NaoEfetivado
    BY <2>2 DEF EmAberto
  <2> QED
    BY <2>1, <2>2
<1> HIDE DEF a, d
<1>3. /\ \/ q.status = a.status /\ q.motivo = a.motivo
         \/ Pago(b) /\ q.status = PendenciaPaga
         \/ /\ b.status = NaoEfetivado /\ a.status # NaoEfetivado
            /\ q.status = NaoEfetivado /\ q.motivo = b.motivo
      /\ Pago(b) => q.status = PendenciaPaga
  BY DEF Propagado, Resolvido, Linha, Pago, NaoEfetivado, Efetivado, PendenciaPaga
<1> HIDE DEF q
<1> QED
  BY <1>1, <1>2, <1>3 DEF FilhaDepois, d

\* The answer to payment k was applied to its row, n of grouping i, and to the
\* rows of its children.
LeuLinha(k, i, n) ==
    /\ i \in Ids /\ n \in DOMAIN opas[i].hist
    /\ Viva(opas[i].hist[n]) /\ opas[i].pai = 0
    /\ opas[i].hist[n].header = instrucoes[k].header
    /\ opas[i].hist[n].valor = instrucoes[k].valor
    /\ instrucoes[k].valor = opas[i].total /\ instrucoes[k].valor # {}
    /\ headers[instrucoes[k].header] = "remessaEnviado"
    /\ opas[i].dia = instrucoes[k].dia
    /\ Ids' = Ids
    /\ \A j \in Ids :
          /\ opas'[j].ordens = opas[j].ordens /\ opas'[j].total = opas[j].total
          /\ opas'[j].pai = opas[j].pai /\ opas'[j].dia = opas[j].dia
          /\ DOMAIN opas'[j].hist = DOMAIN opas[j].hist
    /\ \A j \in Ids : \A m \in DOMAIN opas[j].hist :
          /\ opas'[j].hist[m].dia = opas[j].hist[m].dia
          /\ opas'[j].hist[m].header = opas[j].hist[m].header
          /\ opas'[j].hist[m].valor = opas[j].hist[m].valor
    /\ Resultado(instrucoes[k], opas'[i].hist[n])
    /\ ~Mae(i) => opas'[i].hist[n].status # PendenciaPaga
    /\ \A m \in DOMAIN opas[i].hist : m # n => opas'[i].hist[m] = opas[i].hist[m]
    /\ \A j \in Ids : j # i /\ opas[j].pai # i => opas'[j] = opas[j]
    /\ \A j \in Ids : j # i /\ opas[j].pai = i =>
          \A m \in DOMAIN opas[j].hist :
             /\ opas[j].hist[m].status \in {Criado, NaoEfetivado}
             /\ ~Viva(opas[j].hist[m])
             /\ FilhaDepois(opas'[j].hist[m], opas[j].hist[m], opas'[i].hist[n])

LEMMA LerCerto ==
    ASSUME IInv, NEW k \in DOMAIN instrucoes, LerRetorno(k)
    PROVE  /\ \E i, n : LeuLinha(k, i, n)
           /\ DOMAIN instrucoes' = DOMAIN instrucoes
           /\ \A m \in DOMAIN instrucoes : m # k => instrucoes'[m] = instrucoes[m]
           /\ instrucoes'[k].header = instrucoes[k].header
           /\ instrucoes'[k].valor = instrucoes[k].valor
           /\ instrucoes'[k].dia = instrucoes[k].dia
           /\ instrucoes'[k].fase = instrucoes[k].fase
           /\ instrucoes'[k].retorno = <<>>
           /\ instrucoes[k].retorno # <<>> /\ instrucoes[k].fase # "recebida"
           /\ UNCHANGED <<favorecido, geradas, headers, envios, creditos, hoje>>
<1> DEFINE p == instrucoes[k]
<1>1. /\ p.retorno # <<>>
      /\ DOMAIN instrucoes' = DOMAIN instrucoes
      /\ \A m \in DOMAIN instrucoes : m # k => instrucoes'[m] = instrucoes[m]
      /\ instrucoes'[k] = [p EXCEPT !.retorno = <<>>]
      /\ UNCHANGED <<favorecido, geradas, headers, envios, creditos, hoje>>
      /\ \/ opas' = opas /\ GetDetalheARetorno(p) = {}
         \/ \E i \in Ids : \E n \in DOMAIN opas[i].hist :
               /\ <<i, n>> \in GetDetalheARetorno(p)
               /\ Lido(i, n, p.retorno[1], p.retorno[2])
  BY LerRetornoEfeito DEF IInv
<1>2. p \in TipoPedido /\ p.fase \in Fases
      /\ p.retorno \in {<<>>} \cup (Ocorrencias \X Ocorrencias)
  BY TipoDoPedido DEF IInv
<1>3. /\ instrucoes'[k].header = p.header /\ instrucoes'[k].valor = p.valor
      /\ instrucoes'[k].dia = p.dia /\ instrucoes'[k].fase = p.fase
      /\ instrucoes'[k].retorno = <<>>
  <2> HIDE DEF p
  <2> QED
    BY <1>1, <1>2 DEF TipoPedido
<1>4. PICK lote \in Ocorrencias, det \in Ocorrencias : p.retorno = <<lote, det>>
  BY <1>1, <1>2
<1>5. FaseCerta(p) /\ p.fase # "recebida"
  BY <1>1 DEF IInv, Pedidos, FaseCerta
<1>6. Vivo(p) /\ Aberto(p)
  BY <1>1 DEF Vivo, Aberto
<1>7. PICK i \in Ids : \E n \in DOMAIN opas[i].hist :
              LET h == opas[i].hist[n]
              IN  /\ h.header = p.header /\ h.header # 0 /\ h.header \in DOMAIN headers
                  /\ h.valor = p.valor /\ p.valor = opas[i].total /\ p.valor # {}
                  /\ LinhaDoPedido(p, i, h)
                  /\ Viva(h) /\ headers[h.header] = "remessaEnviado"
  BY <1>6, LinhaDoVivo
<1>8. PICK n \in DOMAIN opas[i].hist :
              LET h == opas[i].hist[n]
              IN  /\ h.header = p.header /\ h.header # 0 /\ h.header \in DOMAIN headers
                  /\ h.valor = p.valor /\ p.valor = opas[i].total /\ p.valor # {}
                  /\ LinhaDoPedido(p, i, h)
                  /\ Viva(h) /\ headers[h.header] = "remessaEnviado"
  BY <1>7
<1>9. GetDetalheARetorno(p) = {<<i, n>>}
  BY <1>1, <1>8, UmaLinhaAchada
<1>10. Lido(i, n, lote, det)
  <2>1. PICK j \in Ids : \E m \in DOMAIN opas[j].hist :
               /\ <<j, m>> \in GetDetalheARetorno(p)
               /\ Lido(j, m, p.retorno[1], p.retorno[2])
    BY <1>1, <1>9
  <2>2. PICK m \in DOMAIN opas[j].hist :
               /\ <<j, m>> \in GetDetalheARetorno(p)
               /\ Lido(j, m, p.retorno[1], p.retorno[2])
    BY <2>1
  <2>3. <<j, m>> = <<i, n>>
    BY <1>9, <2>2
  <2>4. j = i /\ m = n
    BY <2>3
  <2>5. p.retorno[1] = lote /\ p.retorno[2] = det
    BY <1>4
  <2> QED
    BY <2>2, <2>4, <2>5
<1> DEFINE h == opas[i].hist[n]
           b == opas'[i].hist[n]
           muitos == ComFilhas(i)
<1>11. h \in TipoHistorico(hoje, Len(headers)) /\ muitos \in BOOLEAN
  BY TipoDaLinha DEF ComFilhas, IInv
<1>12. b = Aplicada(h, lote, det, muitos)
  BY <1>10 DEF Lido
<1>13. /\ b \in TipoHistorico(hoje, Len(headers))
       /\ b.status = Baixa(h, lote, det, muitos).status
       /\ b.motivo = Baixa(h, lote, det, muitos).motivo
  <2> HIDE DEF h, b, muitos
  <2> QED
    BY <1>11, <1>12, AplicadaTipo DEF IInv
<1>14. Resultado(p, b)
  <2>1. IF Esperando(p) THEN h.status = AguardandoPagamento ELSE Fresca(h)
    BY <1>8 DEF LinhaDoPedido
  <2> HIDE DEF h, b, p, muitos
  <2>2. Resultado(p, Baixa(h, lote, det, muitos))
    BY <1>2, <1>4, <1>5, <1>11, <2>1, BaixaDoPedido
  <2> QED
    BY <1>13, <2>2 DEF Resultado, Recusada, SemMotivo, Pago
<1>15. opas[i].pai = 0
  BY <1>8 DEF IInv, Filhas
<1>16. ASSUME NEW j \in Ids, j # i, opas[j].pai = i, NEW m \in DOMAIN opas[j].hist
       PROVE  /\ opas[j].hist[m].status \in {Criado, NaoEfetivado}
              /\ ~Viva(opas[j].hist[m])
              /\ FilhaDepois(opas'[j].hist[m], opas[j].hist[m], b)
  <2> DEFINE c == opas[j].hist[m]
  <2>1. opas[j].pai # 0 /\ Mae(i)
    BY <1>16, Limites DEF IInv, Tipos, MaesSemOrdens
  <2>2. n = 1
    BY <2>1 DEF IInv, Grupos
  <2>3. ~Pago(opas[i].hist[1])
    BY <1>8, <2>2, VivaNaoPaga
  <2>4. ~Viva(c) /\ ~Pago(c)
    BY <1>16, <2>1, <2>3 DEF IInv, Filhas
  <2>5. c.status \in StatusRemessaEnum /\ c \in TipoHistorico(hoje, Len(headers))
        /\ Colunas(j, c)
    BY TipoDaLinha DEF IInv, Livro
  <2> HIDE DEF c
  <2>6. c.status \in {Criado, NaoEfetivado}
    BY <2>4, <2>5 DEF Colunas, Viva, Casa, Pago, StatusRemessaEnum, Criado, PreparadoParaEnvio,
                      AguardandoPagamento, Efetivado, NaoEfetivado, PendenciaPaga
  <2>7. FilhaDepois(opas'[j].hist[m], c, b)
    <3>1. CASE ErroNoHeaderLote(h, lote)
      <4>1. opas'[j] = opas[j]
        BY <1>10, <1>16, <3>1 DEF Lido
      <4>2. ~Pago(b)
        <5> HIDE DEF h, b, muitos
        <5> QED
          BY <1>13, <3>1 DEF Baixa, ErroNoHeaderLote, PrimeiraVolta, Reabre, Linha, Pago,
                             PreparadoParaEnvio, AguardandoPagamento, NaoEfetivado, Efetivado,
                             PendenciaPaga
      <4> QED
        BY <4>1, <4>2 DEF FilhaDepois, c
    <3>2. CASE ~ErroNoHeaderLote(h, lote)
      <4>1. opas'[j].hist[m] = DaFilha(opas[j].hist[m], opas'[i].hist[n], lote, det, ComFilhas(i))
        BY <1>10, <1>16, <3>2 DEF Lido
      <4>2. opas'[j].hist[m] = DaFilha(c, b, lote, det, muitos)
        BY <4>1 DEF c
      <4> HIDE DEF b, muitos
      <4> QED
        BY <1>11, <1>13, <2>5, <2>6, <4>2, DaFilhaDoPedido DEF IInv
    <3> QED
      BY <3>1, <3>2
  <2> QED
    BY <2>4, <2>6, <2>7 DEF c
<1>17. \A j \in Ids : j # i /\ opas[j].pai # i => opas'[j] = opas[j]
  BY <1>10 DEF Lido
<1>18. opas[i].dia = p.dia
  BY <1>8 DEF LinhaDoPedido
<1>19. /\ Ids' = Ids
       /\ \A j \in Ids :
             /\ opas'[j].ordens = opas[j].ordens /\ opas'[j].total = opas[j].total
             /\ opas'[j].pai = opas[j].pai /\ opas'[j].dia = opas[j].dia
             /\ DOMAIN opas'[j].hist = DOMAIN opas[j].hist
       /\ \A j \in Ids : \A m \in DOMAIN opas[j].hist :
             /\ opas'[j].hist[m].dia = opas[j].hist[m].dia
             /\ opas'[j].hist[m].header = opas[j].hist[m].header
             /\ opas'[j].hist[m].valor = opas[j].hist[m].valor
       /\ \A m \in DOMAIN opas[i].hist : m # n => opas'[i].hist[m] = opas[i].hist[m]
  BY <1>10 DEF Lido
\* A grouping that has no children is paid as itself.
<1>20. ASSUME ~Mae(i) PROVE b.status # PendenciaPaga
  <2>1. FilhasDe(i) = {}
    BY <1>20, Limites DEF FilhasDe, IInv, Tipos, MaesSemOrdens
  <2>2. ~muitos /\ h.status # PendenciaPaga
    BY <1>8, <2>1, VivaNaoPaga DEF ComFilhas, Pago
  <2> HIDE DEF h, b, muitos
  <2> QED
    BY <1>13, <2>2 DEF Baixa, Linha, StatusDePago, AguardandoPagamento, NaoEfetivado,
                       Efetivado, PendenciaPaga
<1>21. LeuLinha(k, i, n)
  BY <1>8, <1>14, <1>15, <1>16, <1>17, <1>18, <1>19, <1>20 DEF LeuLinha
<1> QED
  BY <1>1, <1>3, <1>5, <1>21

LEMMA InvLerRetorno == ASSUME IInv, NEW k \in DOMAIN instrucoes, LerRetorno(k) PROVE IInv'
<1> DEFINE p == instrucoes[k]
<1>1. /\ DOMAIN instrucoes' = DOMAIN instrucoes
      /\ \A m \in DOMAIN instrucoes : m # k => instrucoes'[m] = instrucoes[m]
      /\ instrucoes'[k].header = instrucoes[k].header
      /\ instrucoes'[k].valor = instrucoes[k].valor
      /\ instrucoes'[k].dia = instrucoes[k].dia
      /\ instrucoes'[k].fase = instrucoes[k].fase
      /\ instrucoes'[k].retorno = <<>>
      /\ instrucoes[k].retorno # <<>> /\ instrucoes[k].fase # "recebida"
      /\ headers' = headers /\ creditos' = creditos /\ hoje' = hoje
  BY LerCerto
<1>2. PICK i, n : LeuLinha(k, i, n)
  BY LerCerto
<1>3. Tipos'
  BY TiposLerRetorno DEF IInv
<1> DEFINE h == opas[i].hist[n]
           b == opas'[i].hist[n]
<1>4. /\ i \in Ids /\ n \in DOMAIN opas[i].hist /\ Viva(h) /\ ~Pago(h) /\ ~Recusada(h)
      /\ h.header = instrucoes[k].header /\ h.header # 0
      /\ h.valor = instrucoes[k].valor /\ instrucoes[k].valor = opas[i].total
      /\ instrucoes[k].valor # {}
      /\ headers[instrucoes[k].header] = "remessaEnviado"
      /\ opas[i].dia = instrucoes[k].dia /\ opas[i].pai = 0
      /\ b.header = h.header /\ b.valor = h.valor /\ b.dia = h.dia
      /\ Resultado(instrucoes[k], b)
  BY <1>2, VivaNaoPaga DEF LeuLinha, Viva
<1>5. /\ Ids' = Ids
      /\ \A j \in Ids :
            /\ opas'[j].ordens = opas[j].ordens /\ opas'[j].total = opas[j].total
            /\ opas'[j].pai = opas[j].pai /\ opas'[j].dia = opas[j].dia
            /\ DOMAIN opas'[j].hist = DOMAIN opas[j].hist
            /\ Mae(j)' = Mae(j)
      /\ \A j \in Ids : \A m \in DOMAIN opas[j].hist :
            /\ opas'[j].hist[m].dia = opas[j].hist[m].dia
            /\ opas'[j].hist[m].header = opas[j].hist[m].header
            /\ opas'[j].hist[m].valor = opas[j].hist[m].valor
  BY <1>2 DEF LeuLinha, Mae
\* The rows: the one of the payment, those of the children, and the others.
<1>6. \A j \in Ids : \A m \in DOMAIN opas[j].hist :
         \/ j = i /\ m = n
         \/ j # i /\ opas[j].pai = i
         \/ opas'[j].hist[m] = opas[j].hist[m] /\ (j = i \/ opas[j].pai # i)
  BY <1>2 DEF LeuLinha
<1>7. \A j \in Ids : j # i /\ opas[j].pai # i => opas'[j] = opas[j]
  BY <1>2 DEF LeuLinha
<1>8. \A j \in Ids : j # i /\ opas[j].pai = i =>
         /\ Mae(i) /\ n = 1
         /\ \A m \in DOMAIN opas[j].hist :
               /\ opas[j].hist[m].status \in {Criado, NaoEfetivado}
               /\ ~Viva(opas[j].hist[m])
               /\ FilhaDepois(opas'[j].hist[m], opas[j].hist[m], b)
  <2> SUFFICES ASSUME NEW j \in Ids, j # i, opas[j].pai = i
               PROVE  /\ Mae(i) /\ n = 1
                      /\ \A m \in DOMAIN opas[j].hist :
                            /\ opas[j].hist[m].status \in {Criado, NaoEfetivado}
                            /\ ~Viva(opas[j].hist[m])
                            /\ FilhaDepois(opas'[j].hist[m], opas[j].hist[m], b)
    OBVIOUS
  <2>1. Mae(i)
    BY <1>4, Limites DEF IInv, Tipos, MaesSemOrdens
  <2>2. n = 1
    BY <1>4, <2>1 DEF IInv, Grupos
  <2> QED
    BY <1>2, <2>1, <2>2 DEF LeuLinha
\* The row of the payment afterwards.
<1>9. /\ b.status \in {AguardandoPagamento, NaoEfetivado, Efetivado, PendenciaPaga}
      /\ b.status = NaoEfetivado => b.motivo # Nulo
      /\ Pago(b) => instrucoes[k].fase = "creditada"
  <2> DEFINE f == instrucoes[k].fase
  <2>1. Resultado(instrucoes[k], b) /\ Branco # Nulo
    BY <1>4 DEF Branco, Nulo
  <2>2. \/ f = "incluida" /\ b.status = AguardandoPagamento
        \/ f \in {"recusada", "devolvida"} /\ b.status = NaoEfetivado /\ b.motivo # Nulo
        \/ f = "creditada" /\ Pago(b)
    <3> HIDE DEF b
    <3> QED
      BY <2>1 DEF Resultado, Recusada, SemMotivo
  <2> HIDE DEF b, f
  <2>3. /\ b.status \in {AguardandoPagamento, NaoEfetivado, Efetivado, PendenciaPaga}
        /\ b.status = NaoEfetivado => b.motivo # Nulo
        /\ Pago(b) => f = "creditada"
    BY <2>2 DEF Pago, AguardandoPagamento, NaoEfetivado, Efetivado, PendenciaPaga
  <2> QED
    BY <2>3 DEF f
\* A parent is in no other grouping's hands.
<1>10. \A j \in Ids : opas[j].pai # 0 =>
          /\ j # i /\ opas[j].pai \in Ids /\ Mae(opas[j].pai) /\ opas[opas[j].pai].pai = 0
          /\ 1 \in DOMAIN opas[opas[j].pai].hist
          /\ opas[j].pai # i => /\ opas'[j] = opas[j]
                                /\ opas'[opas[j].pai] = opas[opas[j].pai]
  <2> SUFFICES ASSUME NEW j \in Ids, opas[j].pai # 0
               PROVE  /\ j # i /\ opas[j].pai \in Ids /\ Mae(opas[j].pai)
                      /\ opas[opas[j].pai].pai = 0
                      /\ 1 \in DOMAIN opas[opas[j].pai].hist
                      /\ opas[j].pai # i => /\ opas'[j] = opas[j]
                                            /\ opas'[opas[j].pai] = opas[opas[j].pai]
    OBVIOUS
  <2>1. opas[j].pai \in Ids /\ Mae(opas[j].pai)
    BY TipoDaOpa DEF IInv, Tipos, MaesSemOrdens
  <2>2. opas[opas[j].pai].pai = 0 /\ 1 \in DOMAIN opas[opas[j].pai].hist
    BY <2>1 DEF IInv, Grupos
  <2>3. i # 0
    BY <1>4, Limites DEF IInv
  <2> QED
    BY <1>4, <1>7, <2>1, <2>2, <2>3
<1>11. Grupos'
  BY <1>5 DEF IInv, Grupos
<1>12. Filhas'
  <2>0. \A q : Recusada(q)' = Recusada(q) /\ Viva(q)' = Viva(q) /\ Pago(q)' = Pago(q)
    BY DEF Recusada, Viva, Pago, SemMotivo, Casa
  <2>1. \A j \in Ids : opas'[j].pai # 0 => opas'[j].ordens \subseteq opas'[opas'[j].pai].total
    BY <1>5, <1>10 DEF IInv, Filhas
  <2>2. ASSUME NEW j \in Ids, Mae(j), ~Recusada(opas'[j].hist[1]), NEW o \in opas[j].total
        PROVE  \E f \in Ids : opas[f].pai = j /\ o \in opas[f].ordens
    <3>1. ~Recusada(opas[j].hist[1])
      <4>1. CASE j = i
        <5>1. n = 1
          BY <1>4, <2>2, <4>1 DEF IInv, Grupos
        <5> QED
          BY <1>4, <4>1, <5>1
      <4>2. CASE j # i
        <5>1. opas[j].pai # i
          BY <1>4, <2>2, Limites DEF IInv, Grupos
        <5> QED
          BY <1>7, <2>2, <4>2, <5>1
      <4> QED
        BY <4>1, <4>2
    <3> QED
      BY <2>2, <3>1 DEF IInv, Filhas
  <2>3. ASSUME NEW j \in Ids, opas[j].pai # 0, NEW m \in DOMAIN opas[j].hist
        PROVE  ~Viva(opas'[j].hist[m])
    <3>1. ~Viva(opas[j].hist[m])
      BY <2>3 DEF IInv, Filhas
    <3>2. CASE opas[j].pai = i
      <4> DEFINE c == opas[j].hist[m]
                 d == opas'[j].hist[m]
      <4>1. FilhaDepois(d, c, b) /\ d.header = c.header /\ ~Viva(c) /\ Colunas(j, c)
        BY <1>5, <1>8, <1>10, <2>3, <3>1, <3>2 DEF IInv, Livro
      <4> HIDE DEF c, d, b
      <4>2. ~Viva(d)
        BY <4>1 DEF FilhaDepois, Viva, Casa, SemMotivo, Colunas, Criado, PreparadoParaEnvio,
                    AguardandoPagamento, NaoEfetivado, PendenciaPaga
      <4> QED
        BY <4>2 DEF d
    <3>3. CASE opas[j].pai # i
      BY <1>10, <2>3, <3>1, <3>3
    <3> QED
      BY <3>2, <3>3
  <2>4. ASSUME NEW j \in Ids, opas[j].pai # 0, ~Pago(opas'[opas[j].pai].hist[1]),
               NEW m \in DOMAIN opas[j].hist
        PROVE  ~Pago(opas'[j].hist[m])
    <3>1. CASE opas[j].pai = i
      <4> DEFINE c == opas[j].hist[m]
                 d == opas'[j].hist[m]
      <4>1. FilhaDepois(d, c, b) /\ c.status \in {Criado, NaoEfetivado} /\ ~Pago(b)
        BY <1>8, <1>10, <2>4, <3>1
      <4> HIDE DEF c, d, b
      <4>2. ~Pago(d)
        BY <4>1 DEF FilhaDepois, Pago, Criado, NaoEfetivado, Efetivado, PendenciaPaga
      <4> QED
        BY <4>2 DEF d
    <3>2. CASE opas[j].pai # i
      BY <1>10, <2>4, <3>2 DEF IInv, Filhas
    <3> QED
      BY <3>1, <3>2
  <2> QED
    BY <1>5, <2>0, <2>1, <2>2, <2>3, <2>4 DEF Filhas
<1>13. Livro'
  <2>1. ASSUME NEW j \in Ids, NEW m \in DOMAIN opas[j].hist PROVE Colunas(j, opas[j].hist[m])'
    <3> DEFINE c == opas[j].hist[m]
               d == opas'[j].hist[m]
    <3>1. /\ Colunas(j, c) /\ d.header = c.header /\ d.valor = c.valor /\ d.dia = c.dia
          /\ opas'[j].total = opas[j].total /\ opas'[j].dia = opas[j].dia
      BY <1>5 DEF IInv, Livro
    <3>2. /\ d.status = Criado => d.header = 0 /\ d.motivo = Nulo
          /\ d.header = 0 => d.status \in {Criado, NaoEfetivado, PendenciaPaga}
          /\ d.status = NaoEfetivado => d.motivo # Nulo
          /\ d.status = PreparadoParaEnvio => d.motivo = Nulo
      <4>1. CASE j = i /\ m = n
        BY <1>4, <1>9, <4>1 DEF Criado, PreparadoParaEnvio,
                    AguardandoPagamento, NaoEfetivado, Efetivado, PendenciaPaga
      <4>2. CASE j # i /\ opas[j].pai = i
        <5>1. FilhaDepois(d, c, b)
          BY <1>8, <4>2
        <5> HIDE DEF c, d, b
        <5> QED
          BY <1>9, <3>1, <5>1 DEF FilhaDepois, Colunas, Criado, PreparadoParaEnvio,
                    NaoEfetivado, PendenciaPaga
      <4>3. CASE d = c
        <5> HIDE DEF c, d
        <5> QED
          BY <3>1, <4>3 DEF Colunas
      <4> QED
        BY <1>6, <4>1, <4>2, <4>3
    <3> HIDE DEF c
    <3> QED
      BY <1>1, <3>1, <3>2 DEF Colunas
  <2> QED
    BY <1>5, <2>1 DEF Livro
<1>14. UmPedidoPorGrupo'
  BY <1>5 DEF IInv, UmPedidoPorGrupo
<1>15. NuncaPedidos'
  <2>1. \A j \in Ids : SemPedido(j)' = SemPedido(j)
    BY <1>5 DEF SemPedido
  <2>2. ~SemPedido(i)
    BY <1>4 DEF SemPedido
  <2>3. ASSUME NEW j \in Ids, ~Mae(j)', opas'[j].pai = 0, SemPedido(j)' PROVE UmaLinha(j)'
    <3>1. j # i /\ opas[j].pai # i
      BY <1>4, <1>5, <2>1, <2>2, <2>3, Limites DEF IInv
    <3>2. opas'[j] = opas[j]
      BY <1>7, <3>1
    <3>3. UmaLinha(j)
      BY <1>5, <2>1, <2>3 DEF IInv, NuncaPedidos
    <3> QED
      BY <3>2, <3>3 DEF UmaLinha, Intocada
  <2>4. ASSUME NEW j \in Ids, opas'[j].pai # 0, SemPedido(j)',
               opas'[opas'[j].pai].hist[1].status \in {Criado, PreparadoParaEnvio}
        PROVE  DuasLinhas(j)'
    <3>1. opas[j].pai # 0 /\ opas'[j].pai = opas[j].pai
      BY <1>5, <2>4
    <3>2. opas[j].pai # i
      <4> SUFFICES ASSUME opas[j].pai = i PROVE FALSE
        OBVIOUS
      <4>1. b.status \in {Criado, PreparadoParaEnvio}
        BY <1>8, <1>10, <2>4, <3>1
      <4> HIDE DEF b
      <4> QED
        BY <1>9, <4>1 DEF Criado, PreparadoParaEnvio, AguardandoPagamento, NaoEfetivado,
                          Efetivado, PendenciaPaga
    <3>3. opas'[j] = opas[j] /\ opas'[opas[j].pai] = opas[opas[j].pai]
      BY <1>10, <3>1, <3>2
    <3>4. DuasLinhas(j)
      BY <2>1, <2>4, <3>1, <3>3 DEF IInv, NuncaPedidos
    <3> QED
      BY <3>3, <3>4 DEF DuasLinhas, Intocada
  <2>5. ASSUME NEW j \in Ids, ~Mae(j)', opas'[j].pai = 0, ~SemPedido(j)', opas'[j].dia = hoje,
               NEW m \in DOMAIN opas[j].hist
        PROVE  opas'[j].hist[m].status # Criado
    <3>1. opas[j].hist[m].status # Criado
      BY <1>5, <2>1, <2>5 DEF IInv, NuncaPedidos
    <3>2. CASE j = i /\ m = n
      <4> HIDE DEF b
      <4>1. b.status # Criado
        BY <1>9 DEF Criado, AguardandoPagamento, NaoEfetivado, Efetivado, PendenciaPaga
      <4> QED
        BY <3>2, <4>1 DEF b
    <3>3. CASE opas'[j].hist[m] = opas[j].hist[m]
      BY <3>1, <3>3
    <3>4. opas[j].pai # i
      BY <1>4, <1>5, <2>5, Limites DEF IInv
    <3> QED
      BY <1>6, <3>2, <3>3, <3>4
  <2> QED
    BY <1>1, <1>5, <2>3, <2>4, <2>5 DEF NuncaPedidos
<1>16. Arquivos'
  <2>1. ASSUME NEW m \in DOMAIN instrucoes, headers[instrucoes'[m].header] = "remessaGerado"
        PROVE  instrucoes'[m].fase = "devolvida" /\ instrucoes'[m].retorno = <<>>
    <3>1. m # k
      BY <1>1, <1>4, <2>1
    <3> QED
      BY <1>1, <2>1, <3>1 DEF IInv, Arquivos
  <2>2. ASSUME NEW j \in Ids, NEW m \in DOMAIN opas[j].hist PROVE NoArquivo(opas[j].hist[m])'
    <3> DEFINE c == opas[j].hist[m]
               d == opas'[j].hist[m]
    <3>1. d.header = c.header /\ d.valor = c.valor /\ NoArquivo(c)
      BY <1>5 DEF IInv, Arquivos
    <3>2. CASE j = i /\ m = n
      <4>1. headers[d.header] = "remessaEnviado"
        BY <1>4, <3>1, <3>2
      <4>2. \/ d.status = NaoEfetivado /\ d.motivo = Branco
            \/ instrucoes'[k].fase # "devolvida"
        <5>1. \/ b.status = NaoEfetivado /\ b.motivo = Branco
              \/ instrucoes[k].fase # "devolvida"
          BY <1>4 DEF Resultado
        <5> QED
          BY <1>1, <3>2, <5>1
      <4>3. k \in DOMAIN instrucoes' /\ instrucoes'[k].header = d.header
            /\ instrucoes'[k].valor = d.valor
        BY <1>1, <1>4, <3>1, <3>2
      <4> QED
        BY <1>1, <4>1, <4>2, <4>3 DEF NoArquivo, NoBanco
    <3>3. CASE ~(j = i /\ m = n)
      <4> SUFFICES ASSUME c.header # 0 PROVE NoArquivo(opas[j].hist[m])'
        BY <1>1, <3>1 DEF NoArquivo
      <4>1. j # i
        BY <1>4, <3>3 DEF IInv, UmPedidoPorGrupo
      <4>2. d = c \/ ~Viva(c)
        BY <1>6, <1>8, <4>1
      <4>3. Fresca(c) => Viva(c)
        BY DEF Fresca, Viva, Casa, SemMotivo
      <4>4. c.status = NaoEfetivado /\ c.motivo = Branco => Viva(c)
        BY DEF Viva, Casa, SemMotivo
      <4>5. ASSUME NoBanco(c) PROVE NoBanco(opas[j].hist[m])'
        <5>1. PICK w \in DOMAIN instrucoes :
                 /\ instrucoes[w].header = c.header /\ instrucoes[w].valor = c.valor
                 /\ ~(instrucoes[w].fase = "devolvida" /\ instrucoes[w].retorno = <<>>)
          BY <4>5 DEF NoBanco
        <5>2. w # k
          <6> SUFFICES ASSUME w = k PROVE FALSE
            OBVIOUS
          <6>1. c.header = h.header /\ c.valor = h.valor
            BY <1>4, <5>1
          <6>2. c.valor \cap h.valor = {}
            BY <1>4, <4>1, <6>1 DEF IInv, Arquivos
          <6> QED
            BY <1>4, <6>1, <6>2
        <5>3. /\ w \in DOMAIN instrucoes' /\ instrucoes'[w] = instrucoes[w]
              /\ instrucoes'[w].header = d.header /\ instrucoes'[w].valor = d.valor
          BY <1>1, <3>1, <5>1, <5>2
        <5> QED
          BY <5>1, <5>3 DEF NoBanco
      <4>6. headers'[d.header] = "remessaGerado" => Fresca(d)
        BY <1>1, <3>1, <4>2, <4>3 DEF NoArquivo
      <4>7. headers'[d.header] = "remessaEnviado" =>
               \/ d.status = NaoEfetivado /\ d.motivo = Branco
               \/ NoBanco(opas[j].hist[m])'
        BY <1>1, <3>1, <4>2, <4>4, <4>5 DEF NoArquivo
      <4> QED
        BY <4>6, <4>7 DEF NoArquivo, Fresca
    <3> QED
      BY <3>2, <3>3
  <2>3. \A j, g \in Ids : \A m \in DOMAIN opas[j].hist : \A w \in DOMAIN opas[g].hist :
           /\ j # g
           /\ opas'[j].hist[m].header # 0
           /\ opas'[j].hist[m].header = opas'[g].hist[w].header
           => opas'[j].hist[m].valor \cap opas'[g].hist[w].valor = {}
    BY <1>5 DEF IInv, Arquivos
  <2> QED
    BY <1>1, <1>5, <2>1, <2>2, <2>3 DEF Arquivos
\* The row of another payment is of another grouping, and not of a child.
<1>17. Vivo(instrucoes[k])
  BY <1>1 DEF Vivo
<1>18. ASSUME NEW m \in DOMAIN instrucoes, m # k, Vivo(instrucoes[m]),
              NEW j \in Ids, instrucoes[m].valor = opas[j].total,
              NEW q \in DOMAIN opas[j].hist,
              Viva(opas[j].hist[q]) \/ Pago(opas[j].hist[q])
       PROVE  opas'[j] = opas[j]
  <2>1. j # i
    <3>1. instrucoes[m].valor \cap instrucoes[k].valor = {}
      BY <1>17, <1>18 DEF IInv, Pedidos
    <3> QED
      BY <1>4, <1>18, <3>1
  <2>2. opas[j].pai # i
    <3> SUFFICES ASSUME opas[j].pai = i PROVE FALSE
      OBVIOUS
    <3>1. ~Viva(opas[j].hist[q]) /\ opas[j].hist[q].status \in {Criado, NaoEfetivado}
      BY <1>8, <2>1
    <3> QED
      BY <1>18, <3>1 DEF Pago, Criado, NaoEfetivado, Efetivado, PendenciaPaga
  <2> QED
    BY <1>7, <2>1, <2>2
<1>19. Pedidos'
  <2>1. ASSUME NEW m \in DOMAIN instrucoes
        PROVE  /\ FaseCerta(instrucoes'[m])
               /\ instrucoes'[m].header \in DOMAIN headers
               /\ instrucoes'[m].valor # {}
    <3>1. CASE m = k
      BY <1>1, <1>4, <3>1 DEF IInv, Pedidos, FaseCerta
    <3>2. CASE m # k
      BY <1>1, <3>2 DEF IInv, Pedidos
    <3> QED
      BY <3>1, <3>2
  <2>2. ASSUME NEW m \in DOMAIN instrucoes, Aberto(instrucoes'[m])
        PROVE  /\ headers[instrucoes'[m].header] = "remessaEnviado"
               /\ \E j \in Ids : \E q \in DOMAIN opas[j].hist :
                     LinhaDoPedido(instrucoes[m], j, opas[j].hist[q])'
    <3>1. CASE m = k
      <4>1. instrucoes[k].fase = "incluida"
        BY <1>1, <2>2, <3>1 DEF Aberto
      <4>2. b.status = AguardandoPagamento
        BY <1>4, <4>1 DEF Resultado
      <4>3. LinhaDoPedido(instrucoes[k], i, opas[i].hist[n])'
        BY <1>1, <1>4, <1>5, <4>1, <4>2 DEF LinhaDoPedido, Esperando
      <4> QED
        BY <1>1, <1>4, <3>1, <4>3
    <3>2. CASE m # k
      <4>1. instrucoes'[m] = instrucoes[m] /\ Aberto(instrucoes[m]) /\ Vivo(instrucoes[m])
        BY <1>1, <2>2, <3>2 DEF Aberto, Vivo
      <4>2. PICK j \in Ids : \E q \in DOMAIN opas[j].hist :
                /\ instrucoes[m].valor = opas[j].total /\ Viva(opas[j].hist[q])
                /\ LinhaDoPedido(instrucoes[m], j, opas[j].hist[q])
                /\ headers[opas[j].hist[q].header] = "remessaEnviado"
                /\ opas[j].hist[q].header = instrucoes[m].header
        BY <4>1, LinhaDoVivo
      <4>3. PICK q \in DOMAIN opas[j].hist :
                /\ instrucoes[m].valor = opas[j].total /\ Viva(opas[j].hist[q])
                /\ LinhaDoPedido(instrucoes[m], j, opas[j].hist[q])
                /\ headers[opas[j].hist[q].header] = "remessaEnviado"
                /\ opas[j].hist[q].header = instrucoes[m].header
        BY <4>2
      <4>4. opas'[j] = opas[j]
        BY <1>18, <3>2, <4>1, <4>3
      <4>5. LinhaDoPedido(instrucoes[m], j, opas[j].hist[q])'
        BY <4>1, <4>3, <4>4 DEF LinhaDoPedido, Fresca
      <4> QED
        BY <4>1, <4>3, <4>5
    <3> QED
      BY <3>1, <3>2
  <2>3. \A m \in DOMAIN instrucoes : /\ Vivo(instrucoes'[m]) => Vivo(instrucoes[m])
                                     /\ instrucoes'[m].valor = instrucoes[m].valor
    BY <1>1, <1>17
  <2>4. \A m, w \in DOMAIN instrucoes :
           m # w /\ Vivo(instrucoes'[m]) /\ Vivo(instrucoes'[w]) =>
              instrucoes'[m].valor \cap instrucoes'[w].valor = {}
    BY <2>3 DEF IInv, Pedidos
  <2>5. ASSUME NEW m \in DOMAIN instrucoes,
               instrucoes'[m].fase = "creditada", instrucoes'[m].retorno = <<>>
        PROVE  \E j \in Ids : \E q \in DOMAIN opas[j].hist :
                  LinhaDoCredito(instrucoes[m], opas[j].hist[q])'
    <3>1. CASE m = k
      <4>1. Pago(b)
        BY <1>1, <1>4, <2>5, <3>1 DEF Resultado
      <4>2. LinhaDoCredito(instrucoes[k], opas[i].hist[n])'
        BY <1>1, <1>4, <4>1 DEF LinhaDoCredito, Pago
      <4> QED
        BY <1>4, <3>1, <4>2
    <3>2. CASE m # k
      <4>1. instrucoes'[m] = instrucoes[m] /\ Vivo(instrucoes[m]) /\ ~Aberto(instrucoes[m])
        BY <1>1, <2>5, <3>2 DEF Aberto, Vivo
      <4>2. PICK j \in Ids : \E q \in DOMAIN opas[j].hist :
                /\ instrucoes[m].valor = opas[j].total /\ Pago(opas[j].hist[q])
                /\ opas[j].hist[q].valor = instrucoes[m].valor
                /\ opas[j].hist[q].header = instrucoes[m].header
        BY <4>1, LinhaDoVivo
      <4>3. PICK q \in DOMAIN opas[j].hist :
                /\ instrucoes[m].valor = opas[j].total /\ Pago(opas[j].hist[q])
                /\ opas[j].hist[q].valor = instrucoes[m].valor
                /\ opas[j].hist[q].header = instrucoes[m].header
        BY <4>2
      <4>4. opas'[j] = opas[j]
        BY <1>18, <3>2, <4>1, <4>3
      <4>5. LinhaDoCredito(instrucoes[m], opas[j].hist[q])'
        BY <4>1, <4>3, <4>4 DEF LinhaDoCredito, Pago
      <4> QED
        BY <4>5
    <3> QED
      BY <3>1, <3>2
  <2>6. \A m : /\ Aberto(instrucoes[m])' = Aberto(instrucoes'[m])
               /\ Vivo(instrucoes[m])' = Vivo(instrucoes'[m])
               /\ FaseCerta(instrucoes[m])' = FaseCerta(instrucoes'[m])
    BY DEF Aberto, Vivo, FaseCerta
  <2> QED
    BY <1>1, <1>5, <2>1, <2>2, <2>4, <2>5, <2>6 DEF Pedidos
<1>20. Creditados'
  <2>1. \A o : Creditada(o)' <=> Creditada(o)
    BY <1>1 DEF Creditada
  <2>2. ASSUME Pago(b), NEW o \in opas[i].total PROVE creditos[o] > 0
    <3>1. Creditada(o)
      BY <1>4, <1>9, <2>2 DEF Creditada
    <3>2. o \in Ordens
      BY <1>4, <2>2, TipoDaOpa DEF IInv
    <3> QED
      BY <3>1, <3>2 DEF IInv, Creditados
  <2>3. ASSUME NEW j \in Ids, NEW m \in DOMAIN opas[j].hist, Pago(opas'[j].hist[m]),
               NEW o \in opas[j].total
        PROVE  creditos[o] > 0
    <3>1. CASE j = i /\ m = n
      BY <2>2, <2>3, <3>1
    <3>2. CASE j # i /\ opas[j].pai = i
      <4>1. Pago(b)
        <5> DEFINE d == opas'[j].hist[m]
                   c == opas[j].hist[m]
        <5>1. FilhaDepois(d, c, b) /\ c.status \in {Criado, NaoEfetivado} /\ Pago(d)
          BY <1>8, <2>3, <3>2
        <5> HIDE DEF b, c, d
        <5> QED
          BY <5>1 DEF FilhaDepois, Pago, Criado, NaoEfetivado, Efetivado, PendenciaPaga
      <4>2. opas[j].pai # 0 /\ ~Mae(j)
        BY <1>4, <3>2, Limites DEF IInv, Tipos, MaesSemOrdens
      <4>3. o \in opas[i].total
        BY <2>3, <3>2, <4>2 DEF IInv, Grupos, Filhas
      <4> QED
        BY <2>2, <4>1, <4>3
    <3>3. CASE opas'[j].hist[m] = opas[j].hist[m]
      BY <2>3, <3>3 DEF IInv, Creditados
    <3> QED
      BY <1>6, <3>1, <3>2, <3>3
  <2>4. \A q : Pago(q)' = Pago(q)
    BY DEF Pago
  <2>5. \A o \in Ordens : creditos'[o] = IF Creditada(o)' THEN 1 ELSE 0
    BY <1>1, <2>1 DEF IInv, Creditados
  <2> QED
    BY <1>1, <1>5, <2>3, <2>4, <2>5 DEF Creditados
<1> QED
  BY <1>3, <1>11, <1>12, <1>13, <1>14, <1>15, <1>16, <1>19, <1>20 DEF IInv

-----------------------------------------------------------------------------
(* The theorems.                                                           *)

LEMMA InvInit == Init => IInv
<1> SUFFICES ASSUME Init PROVE IInv
  OBVIOUS
<1>1. Tipos
  BY TiposInit
<1>2. Ids = {} /\ DOMAIN headers = {} /\ DOMAIN instrucoes = {}
  BY DEF Init, Ids
<1>3. Grupos /\ Filhas /\ Livro /\ UmPedidoPorGrupo /\ NuncaPedidos
  BY <1>2 DEF Grupos, Filhas, Livro, UmPedidoPorGrupo, NuncaPedidos
<1>4. Arquivos /\ Pedidos
  BY <1>2 DEF Arquivos, Pedidos
<1>5. Creditados
  <2>1. \A o \in Ordens : creditos[o] = 0 /\ ~Creditada(o)
    BY <1>2 DEF Init, Creditada
  <2> QED
    BY <1>2, <2>1 DEF Creditados
<1> QED
  BY <1>1, <1>3, <1>4, <1>5 DEF IInv

LEMMA InvPasso == Riscos = {} /\ IInv /\ [Next]_vars => IInv'
<1> SUFFICES ASSUME Riscos = {}, IInv, [Next]_vars PROVE IInv'
  OBVIOUS
<1>1. CASE AgruparOrdens
  BY <1>1, InvAgrupar
<1>2. CASE PrepararNormal
  BY <1>2, InvPrepararNormal
<1>3. CASE AgruparPendentes
  BY <1>3, InvPendentes
<1>4. CASE PrepararPendentes
  BY <1>4, InvPrepararPendentes
<1>5. CASE LimparPreparo
  BY <1>5, InvLimpar
<1>6. CASE LimparPreparoPendentes
  BY <1>6, InvLimparPendentes
<1>7. CASE EnviarRemessa
  BY <1>7, InvEnviar
<1>8. CASE RenovarNsaRemessa
  BY <1>8, InvRenovar
<1>9. CASE VirarDia
  BY <1>9, InvVirarDia
<1>10. CASE Banco
  BY <1>10, InvBanco
<1>11. CASE \E k \in DOMAIN instrucoes : LerRetorno(k)
  BY <1>11, InvLerRetorno
<1>12. CASE UNCHANGED vars
  BY <1>12, InvIgual
<1> QED
  BY <1>1, <1>2, <1>3, <1>4, <1>5, <1>6, <1>7, <1>8, <1>9, <1>10, <1>11, <1>12 DEF Next

\* What the tables, the files and the bank have in common after any sequence of
\* the endpoints, the days and the bank's answers.
THEOREM InvSempre == ASSUME Riscos = {} PROVE Spec => []IInv
<1>1. Init => IInv
  BY InvInit
<1>2. IInv /\ [Next]_vars => IInv'
  BY InvPasso
<1> QED
  BY <1>1, <1>2, PTL DEF Spec

\* The bank never holds two requests for one order, by itself and inside a
\* pending parent, as long as the operator asks for none of the Riscos.
THEOREM UmPedidoVivoSempre == ASSUME Riscos = {} PROVE Spec => []UmPedidoVivo
<1> QED
  BY InvSempre, UmPedidoVivoVale, PTL

\* No order is credited twice: what migration 1791500000000 promises.
THEOREM PagoNoMaximoUmaVezSempre == ASSUME Riscos = {} PROVE Spec => []PagoNoMaximoUmaVez
<1> QED
  BY InvSempre, PagoNoMaximoUmaVezVale, PTL

\* An order that a clearing let loose is not asked of the bank, so that it may
\* be grouped again.
THEOREM SoltaNaoPagaSempre == ASSUME Riscos = {} PROVE Spec => []SoltaNaoPaga
<1> QED
  BY InvSempre, SoltaNaoPagaVale, PTL

\* A grouping shown as paid, by itself or through its parent, had every order
\* of it credited.
THEOREM LivroNaoMenteSempre == ASSUME Riscos = {} PROVE Spec => []LivroNaoMente
<1> QED
  BY InvSempre, LivroNaoMenteVale, PTL

\* The columns by which getDetalheARetorno looks for the row of an answer find
\* that row and no other.
THEOREM RespostaAchaSuaLinhaSempre == ASSUME Riscos = {} PROVE Spec => []RespostaAchaSuaLinha
<1> QED
  BY InvSempre, RespostaAchaSuaLinhaVale, PTL

\* While no file is returned whole, the procedure of pending payments takes
\* nothing the bank still has or has paid, nor a copy of it.
THEOREM PendenteNaoPagoSempre == ASSUME Riscos = {} PROVE Spec => []PendenteNaoPago
<1> QED
  BY InvSempre, PendenteNaoPagoVale, PTL

-----------------------------------------------------------------------------
(* What the reports count on besides: a row has a reason that goes with    *)
(* its status, a grouping that is no child is paid as itself, and a child  *)
(* whose parent was paid has no row left that is not.                      *)

ComMotivo(h) == /\ h.status = NaoEfetivado => h.motivo \notin {BD, Zero}
                /\ h.status = AguardandoPagamento => h.motivo = BD

Motivadas == \A i \in Ids : \A k \in DOMAIN opas[i].hist : ComMotivo(opas[i].hist[k])
PagasPorSi == \A i \in Ids : ~Mae(i) /\ opas[i].pai = 0 =>
                 \A k \in DOMAIN opas[i].hist : opas[i].hist[k].status # PendenciaPaga
PagasComOPai == \A i \in Ids : opas[i].pai # 0 /\ Pago(opas[opas[i].pai].hist[1]) =>
                   \A k \in DOMAIN opas[i].hist : opas[i].hist[k].status = PendenciaPaga

Baixadas == Motivadas /\ PagasPorSi /\ PagasComOPai

\* A child's parent is a parent, and its only row is the first.
LEMMA PaiDaFilha ==
    ASSUME IInv, NEW i \in Ids, opas[i].pai # 0
    PROVE  /\ ~Mae(i) /\ opas[i].pai \in Ids /\ Mae(opas[i].pai) /\ opas[opas[i].pai].pai = 0
           /\ DOMAIN opas[opas[i].pai].hist = {1}
BY TipoDaOpa DEF IInv, Tipos, MaesSemOrdens, Grupos

PaisExistem == \A i \in Ids : opas[i].pai # 0 =>
                  opas[i].pai \in Ids /\ opas[opas[i].pai].ordens = {}
LEMMA PaisExistemSempre == IInv => PaisExistem
BY PaiDaFilha DEF PaisExistem, Mae

LEMMA BaixadasInit == Init => Baixadas
BY DEF Init, Ids, Baixadas, Motivadas, PagasPorSi, PagasComOPai

LEMMA SemMotivoAinda ==
    ASSUME NEW h, h.status \in {Criado, PreparadoParaEnvio}
    PROVE  ComMotivo(h) /\ ~Pago(h) /\ h.status # PendenciaPaga
BY DEF ComMotivo, Pago, Criado, PreparadoParaEnvio, AguardandoPagamento, NaoEfetivado, Efetivado,
       PendenciaPaga

LEMMA BaixadasIguais == ASSUME Baixadas, opas' = opas PROVE Baixadas'
<1>1. Ids' = Ids
  BY DEF Ids
<1> QED
  BY <1>1 DEF Baixadas, Motivadas, PagasPorSi, PagasComOPai, Mae, Pago, ComMotivo

LEMMA BaixadasAgrupar ==
    ASSUME IInv, IInv', Baixadas, Riscos = {}, AgruparOrdens PROVE Baixadas'
<1>1. PICK novas, g : Agrupado(novas, g)
  BY AgruparSemRisco
<1>2. /\ g \in Ids' /\ opas'[g].pai = 0
      /\ \A i \in Ids' : i # g => i \in Ids /\ opas'[i] = opas[i]
      /\ \A k \in DOMAIN opas'[g].hist : opas'[g].hist[k].status = Criado
  BY <1>1 DEF Agrupado, Intocada
<1>3. /\ \A k \in DOMAIN opas'[g].hist : /\ ComMotivo(opas'[g].hist[k])
                                         /\ opas'[g].hist[k].status # PendenciaPaga
  BY <1>2, SemMotivoAinda
<1>4. Motivadas'
  BY <1>2, <1>3 DEF Baixadas, Motivadas, ComMotivo
<1>5. PagasPorSi'
  BY <1>2, <1>3 DEF Baixadas, PagasPorSi, Mae
<1>6. PagasComOPai'
  <2> SUFFICES ASSUME NEW i \in Ids', opas'[i].pai # 0, Pago(opas'[opas'[i].pai].hist[1]),
                      NEW k \in DOMAIN opas'[i].hist
               PROVE  opas'[i].hist[k].status = PendenciaPaga
    BY DEF PagasComOPai, Pago
  <2>1. i # g /\ i \in Ids /\ opas'[i] = opas[i] /\ opas[i].pai # 0
    BY <1>2
  <2>2. opas[i].pai \in Ids /\ Mae(opas[i].pai)
    BY <2>1, PaiDaFilha
  <2>3. opas[i].pai # g /\ opas'[opas[i].pai] = opas[opas[i].pai]
    BY <1>1, <2>2 DEF Agrupado
  <2> QED
    BY <2>1, <2>3 DEF Baixadas, PagasComOPai
<1> QED
  BY <1>4, <1>5, <1>6 DEF Baixadas

\* What is prepared is no child, whether by the window or of today's pending.
LEMMA BaixadasPreparar ==
    ASSUME IInv, Baixadas, NEW S \in SUBSET Ids, PrepararRemessa(S),
           \A i \in S : Preparavel(i)
    PROVE  Baixadas'
<1>1. /\ Ids' = Ids
      /\ \A i \in Ids : i \notin S => opas'[i] = opas[i]
      /\ \A i \in S : opas'[i].ordens = opas[i].ordens /\ opas'[i].pai = opas[i].pai
  BY PrepararEfeito DEF IInv
<1>2. \A i \in S : opas[i].pai = 0 /\ \A k \in DOMAIN opas'[i].hist :
                                         opas'[i].hist[k].status = PreparadoParaEnvio
  BY PrepararLinha DEF Preparavel, Preparada
<1>3. \A h : h.status = PreparadoParaEnvio =>
                 ComMotivo(h) /\ ~Pago(h) /\ h.status # PendenciaPaga
  BY SemMotivoAinda
<1>4. Motivadas'
  BY <1>1, <1>2, <1>3 DEF Baixadas, Motivadas, ComMotivo
<1>5. PagasPorSi'
  BY <1>1, <1>2, <1>3 DEF Baixadas, PagasPorSi, Mae
<1>6. PagasComOPai'
  <2> SUFFICES ASSUME NEW i \in Ids, opas'[i].pai # 0, Pago(opas'[opas'[i].pai].hist[1]),
                      NEW k \in DOMAIN opas'[i].hist
               PROVE  opas'[i].hist[k].status = PendenciaPaga
    BY <1>1 DEF PagasComOPai, Pago
  <2>1. i \notin S /\ opas'[i] = opas[i] /\ opas[i].pai # 0
    BY <1>1, <1>2
  <2>2. opas[i].pai \in Ids /\ DOMAIN opas[opas[i].pai].hist = {1}
    BY <2>1, PaiDaFilha
  <2>3. opas[i].pai \notin S
    <3> SUFFICES ASSUME opas[i].pai \in S PROVE FALSE
      OBVIOUS
    <3>1. DOMAIN opas'[opas[i].pai].hist = {1}
      BY <2>2, PrepararEfeito DEF IInv
    <3>2. opas'[opas[i].pai].hist[1].status = PreparadoParaEnvio
      BY <1>2, <3>1
    <3> QED
      BY <1>3, <2>1, <3>2
  <2> QED
    BY <1>1, <2>1, <2>2, <2>3 DEF Baixadas, PagasComOPai
<1> QED
  BY <1>4, <1>5, <1>6 DEF Baixadas

LEMMA BaixadasPendentes ==
    ASSUME IInv, Baixadas, Riscos = {}, AgruparPendentes PROVE Baixadas'
<1>1. PICK C, p : Reunidas(C, p)
  BY PendentesSemRisco
<1>2. /\ p \in Ids' /\ p \notin C /\ p # 0 /\ opas'[p].ordens = {} /\ opas'[p].pai = 0
      /\ DOMAIN opas'[p].hist = {1} /\ opas'[p].hist[1] = Historico
      /\ \A c \in C : opas'[c].ordens # {} /\ opas'[c].pai = p
      /\ \A i \in Ids' : i \in C \/ i = p \/ (i \in Ids /\ opas'[i] = opas[i])
  BY <1>1 DEF Reunidas
<1>3. \A c \in C : \A k \in DOMAIN opas'[c].hist :
         \/ opas'[c].hist[k] = Historico
         \/ c \in Ids /\ k \in DOMAIN opas[c].hist /\ opas'[c].hist[k] = opas[c].hist[k]
  <2> SUFFICES ASSUME NEW c \in C, NEW k \in DOMAIN opas'[c].hist
               PROVE  \/ opas'[c].hist[k] = Historico
                      \/ /\ c \in Ids /\ k \in DOMAIN opas[c].hist
                         /\ opas'[c].hist[k] = opas[c].hist[k]
    OBVIOUS
  <2>1. CASE c \in Ids
    <3>1. PICK u : /\ \A m : m \in DOMAIN opas'[c].hist <=> m \in DOMAIN opas[c].hist \/ m = u
                   /\ opas'[c].hist[u] = Historico
      BY <1>1, <2>1 DEF Reunidas
    <3> QED
      BY <1>1, <2>1, <3>1 DEF Reunidas
  <2>2. CASE c \notin Ids
    BY <1>1, <2>2 DEF Reunidas
  <2> QED
    BY <2>1, <2>2
<1>4. ComMotivo(Historico) /\ ~Pago(Historico)
  <2>1. Historico.status = Criado
    BY DEF Historico
  <2> QED
    BY <2>1, SemMotivoAinda
<1>5. Motivadas'
  <2> SUFFICES ASSUME NEW i \in Ids', NEW k \in DOMAIN opas'[i].hist
               PROVE  ComMotivo(opas'[i].hist[k])
    BY DEF Motivadas, ComMotivo
  <2>1. \/ opas'[i].hist[k] = Historico
        \/ i \in Ids /\ k \in DOMAIN opas[i].hist /\ opas'[i].hist[k] = opas[i].hist[k]
    BY <1>2, <1>3
  <2> QED
    BY <1>4, <2>1 DEF Baixadas, Motivadas
<1>6. PagasPorSi'
  BY <1>2 DEF Baixadas, PagasPorSi, Mae
<1>7. PagasComOPai'
  <2> SUFFICES ASSUME NEW i \in Ids', opas'[i].pai # 0, Pago(opas'[opas'[i].pai].hist[1]),
                      NEW k \in DOMAIN opas'[i].hist
               PROVE  opas'[i].hist[k].status = PendenciaPaga
    BY DEF PagasComOPai, Pago
  <2>1. i \notin C /\ i # p /\ i \in Ids /\ opas'[i] = opas[i] /\ opas[i].pai # 0
    BY <1>2, <1>4
  <2>2. opas[i].pai \in Ids /\ Mae(opas[i].pai)
    BY <2>1, PaiDaFilha
  <2>3. opas[i].pai \notin C /\ opas'[opas[i].pai] = opas[opas[i].pai]
    BY <1>1, <2>2 DEF Reunidas
  <2> QED
    BY <2>1, <2>3 DEF Baixadas, PagasComOPai
<1> QED
  BY <1>5, <1>6, <1>7 DEF Baixadas

LEMMA BaixadasLimpar ==
    ASSUME IInv, IInv', Baixadas, LimparPreparo PROVE Baixadas'
<1>1. Ids' = Ids \ Alvos /\ \A i \in Ids' : opas'[i] = opas[i]
  BY LimparEfeito DEF IInv
<1>2. Motivadas'
  BY <1>1 DEF Baixadas, Motivadas, ComMotivo
<1>3. PagasPorSi'
  BY <1>1 DEF Baixadas, PagasPorSi, Mae
<1>4. PaisExistem'
  BY PaisExistemSempre, PTL
<1>5. PagasComOPai'
  BY <1>1, <1>4 DEF Baixadas, PagasComOPai, Pago, PaisExistem
<1> QED
  BY <1>2, <1>3, <1>5 DEF Baixadas

\* A child let loose was not paid: its parent was not yet answered.
LEMMA BaixadasLimparPendentes ==
    ASSUME IInv, IInv', Baixadas, LimparPreparoPendentes PROVE Baixadas'
<1>1. /\ \A i \in Ids' : i \in Ids /\ (i \notin FilhasDosPais => opas'[i] = opas[i])
      /\ \A i \in Ids' : i \in FilhasDosPais =>
            /\ opas'[i].ordens = opas[i].ordens /\ opas'[i].pai = 0
            /\ \A k \in DOMAIN opas'[i].hist :
                  k \in DOMAIN opas[i].hist /\ opas'[i].hist[k] = opas[i].hist[k]
  BY LimparPendentesEfeito DEF IInv
<1>2. \A i \in FilhasDosPais : \A k \in DOMAIN opas[i].hist : ~Pago(opas[i].hist[k])
  <2> SUFFICES ASSUME NEW i \in FilhasDosPais, NEW k \in DOMAIN opas[i].hist
               PROVE  ~Pago(opas[i].hist[k])
    OBVIOUS
  <2>1. PICK j \in Pais : i \in FilhasDe(j)
    BY DEF FilhasDosPais
  <2>2. i \in Ids /\ opas[i].pai = j /\ j # 0
    BY <2>1, Limites DEF FilhasDe, Pais, IInv
  <2>3. 1 \in DOMAIN opas[j].hist
    BY <2>2, PaiDaFilha
  <2>4. opas[j].hist[1].status \in {Criado, PreparadoParaEnvio}
    BY <2>3 DEF Pais, StatusDe, HistoricosDe
  <2>5. ~Pago(opas[j].hist[1])
    BY <2>4 DEF Pago, Criado, PreparadoParaEnvio, Efetivado, PendenciaPaga
  <2> QED
    BY <2>2, <2>5 DEF IInv, Filhas
<1>3. Motivadas'
  BY <1>1 DEF Baixadas, Motivadas, ComMotivo
<1>4. PagasPorSi'
  BY <1>1, <1>2 DEF Baixadas, PagasPorSi, Mae, Pago
<1>5. PaisExistem'
  BY PaisExistemSempre, PTL
<1>6. \A i \in FilhasDosPais : ~Mae(i)
  BY Limites DEF FilhasDosPais, FilhasDe, Pais, IInv, Tipos, MaesSemOrdens
<1>7. PagasComOPai'
  <2> SUFFICES ASSUME NEW i \in Ids', opas'[i].pai # 0, Pago(opas'[opas'[i].pai].hist[1]),
                      NEW k \in DOMAIN opas'[i].hist
               PROVE  opas'[i].hist[k].status = PendenciaPaga
    BY DEF PagasComOPai, Pago
  <2>1. i \in Ids /\ opas'[i] = opas[i]
    BY <1>1
  <2>2. opas[i].pai \in Ids' /\ opas'[opas[i].pai].ordens = {}
    BY <1>5, <2>1 DEF PaisExistem
  <2>3. opas'[opas[i].pai] = opas[opas[i].pai]
    BY <1>1, <1>6, <2>2 DEF Mae
  <2> QED
    BY <2>1, <2>3 DEF Baixadas, PagasComOPai
<1> QED
  BY <1>3, <1>4, <1>7 DEF Baixadas

LEMMA BaixadasLerRetorno ==
    ASSUME IInv, Baixadas, NEW r \in DOMAIN instrucoes, LerRetorno(r) PROVE Baixadas'
<1>1. PICK i, n : LeuLinha(r, i, n)
  BY LerCerto
<1> DEFINE b == opas'[i].hist[n]
<1>2. /\ i \in Ids /\ n \in DOMAIN opas[i].hist /\ Viva(opas[i].hist[n]) /\ opas[i].pai = 0
      /\ Resultado(instrucoes[r], b) /\ (~Mae(i) => b.status # PendenciaPaga)
      /\ Ids' = Ids
      /\ \A j \in Ids : /\ opas'[j].ordens = opas[j].ordens /\ opas'[j].pai = opas[j].pai
                        /\ DOMAIN opas'[j].hist = DOMAIN opas[j].hist
      /\ \A m \in DOMAIN opas[i].hist : m # n => opas'[i].hist[m] = opas[i].hist[m]
      /\ \A j \in Ids : j # i /\ opas[j].pai # i => opas'[j] = opas[j]
      /\ \A j \in Ids : opas[j].pai = i => \A m \in DOMAIN opas[j].hist :
            FilhaDepois(opas'[j].hist[m], opas[j].hist[m], b)
  <2>1. i # 0
    BY <1>1, Limites DEF LeuLinha, IInv
  <2> QED
    BY <1>1, <2>1 DEF LeuLinha
<1>3. ComMotivo(b)
  <2>1. Resultado(instrucoes[r], b) /\ Branco # BD /\ Branco # Zero
    BY <1>2 DEF Branco, BD, Zero
  <2> HIDE DEF b
  <2> QED
    BY <2>1 DEF Resultado, ComMotivo, Recusada, Pago, NaoEfetivado, AguardandoPagamento,
                Efetivado, PendenciaPaga
<1>4. Motivadas'
  <2> SUFFICES ASSUME NEW j \in Ids, NEW m \in DOMAIN opas[j].hist
               PROVE  ComMotivo(opas'[j].hist[m])
    BY <1>2 DEF Motivadas, ComMotivo
  <2>1. ComMotivo(opas[j].hist[m])
    BY DEF Baixadas, Motivadas
  <2>2. CASE j = i /\ m = n
    BY <1>3, <2>2
  <2>3. CASE opas[j].pai = i
    <3> DEFINE c == opas[j].hist[m]
               d == opas'[j].hist[m]
    <3>1. FilhaDepois(d, c, b) /\ ComMotivo(c)
      BY <1>2, <2>1, <2>3
    <3> HIDE DEF b, c, d
    <3>2. ComMotivo(d)
      BY <1>3, <3>1 DEF FilhaDepois, ComMotivo, AguardandoPagamento, NaoEfetivado, PendenciaPaga
    <3> QED
      BY <3>2 DEF d
  <2>4. CASE ~(j = i /\ m = n) /\ opas[j].pai # i
    BY <1>2, <2>1, <2>4
  <2> QED
    BY <2>2, <2>3, <2>4
<1>5. PagasPorSi'
  <2> SUFFICES ASSUME NEW j \in Ids, ~Mae(j), opas[j].pai = 0, NEW m \in DOMAIN opas[j].hist
               PROVE  opas'[j].hist[m].status # PendenciaPaga
    BY <1>2 DEF PagasPorSi, Mae
  <2>1. opas[j].hist[m].status # PendenciaPaga /\ opas[j].pai # i
    BY <1>2, Limites DEF Baixadas, PagasPorSi, IInv
  <2> QED
    BY <1>2, <2>1
<1>6. PagasComOPai'
  <2> SUFFICES ASSUME NEW j \in Ids, opas[j].pai # 0, Pago(opas'[opas[j].pai].hist[1]),
                      NEW m \in DOMAIN opas[j].hist
               PROVE  opas'[j].hist[m].status = PendenciaPaga
    BY <1>2 DEF PagasComOPai, Pago
  <2>1. /\ opas[j].pai \in Ids /\ opas[opas[j].pai].pai = 0
        /\ DOMAIN opas[opas[j].pai].hist = {1} /\ i # 0
    BY <1>2, PaiDaFilha, Limites DEF IInv
  <2>2. CASE opas[j].pai = i
    <3> DEFINE d == opas'[j].hist[m]
               c == opas[j].hist[m]
    <3>1. n = 1 /\ Pago(b) /\ FilhaDepois(d, c, b)
      BY <1>2, <2>1, <2>2
    <3> HIDE DEF b, c, d
    <3>2. d.status = PendenciaPaga
      BY <3>1 DEF FilhaDepois
    <3> QED
      BY <3>2 DEF d
  <2>3. CASE opas[j].pai # i
    <3>1. j # i /\ opas[opas[j].pai].pai # i
      BY <1>2, <2>1
    <3>2. opas'[j] = opas[j] /\ opas'[opas[j].pai] = opas[opas[j].pai]
      BY <1>2, <2>1, <2>3, <3>1
    <3> QED
      BY <3>2 DEF Baixadas, PagasComOPai
  <2> QED
    BY <2>2, <2>3
<1> QED
  BY <1>4, <1>5, <1>6 DEF Baixadas

LEMMA BaixadasPasso == Riscos = {} /\ IInv /\ IInv' /\ Baixadas /\ [Next]_vars => Baixadas'
<1> SUFFICES ASSUME Riscos = {}, IInv, IInv', Baixadas, [Next]_vars PROVE Baixadas'
  OBVIOUS
<1>1. CASE AgruparOrdens
  BY <1>1, BaixadasAgrupar
<1>2. CASE PrepararNormal
  BY <1>2, PrepararNormalSemRisco, BaixadasPreparar
<1>3. CASE AgruparPendentes
  BY <1>3, BaixadasPendentes
<1>4. CASE PrepararPendentes
  BY <1>4, PrepararPendentesSemRisco, BaixadasPreparar
<1>5. CASE LimparPreparo
  BY <1>5, BaixadasLimpar
<1>6. CASE LimparPreparoPendentes
  BY <1>6, BaixadasLimparPendentes
<1>7. CASE EnviarRemessa \/ RenovarNsaRemessa \/ VirarDia
  BY <1>7, BaixadasIguais DEF EnviarRemessa, RenovarNsaRemessa, VirarDia
<1>8. CASE Banco
  BY <1>8, BaixadasIguais DEF Banco, BancoInclui, BancoCredita, BancoDevolve, Responder
<1>9. CASE \E k \in DOMAIN instrucoes : LerRetorno(k)
  BY <1>9, BaixadasLerRetorno
<1>10. CASE UNCHANGED vars
  BY <1>10, BaixadasIguais DEF vars
<1> QED
  BY <1>1, <1>2, <1>3, <1>4, <1>5, <1>6, <1>7, <1>8, <1>9, <1>10 DEF Next

-----------------------------------------------------------------------------
(* The rows of the reports.                                                *)

\* The reasons of the bank that every report shows.  Only the reports know
\* "AE", and only the Movimentacao looks at "AM" in the row of a parent.
MotivosMostrados == {Recusa, ErroDeLote} \cap {"AM", "AE"} = {}

LEMMA TodosMostrados ==
    ASSUME Tipos, MotivosMostrados, NEW i \in Ids, NEW k \in DOMAIN opas[i].hist
    PROVE  MotivoMostrado(opas[i].hist[k])
<1>1. opas[i].hist[k].motivo \in {Branco, BD, Zero, Recusa, ErroDeLote, Nulo, Espacos}
  BY TipoDaLinha DEF Ocorrencias
<1>2. {Branco, BD, Zero, Recusa, ErroDeLote, Nulo, Espacos} \cap {"AM", "AE"} = {}
  BY DEF MotivosMostrados, Branco, BD, Zero, Nulo, Espacos
<1> QED
  BY <1>1, <1>2 DEF MotivoMostrado

\* Only parents have children, and the children have orders.
LEMMA SoMaeTemFilhas ==
    ASSUME IInv, NEW i \in Ids
    PROVE  /\ ~Mae(i) => AgrupamentoSemFilhas(i)
           /\ AgrupamentoSemFilhas(i) /\ Cobertas(i) # {} => ~Mae(i)
           /\ ~Mae(i) => opas[i].ordens # {} /\ Cobertas(i) # {} /\ opas[i].total = opas[i].ordens
<1>1. ASSUME ~Mae(i), NEW f \in FilhasDe(i) PROVE FALSE
  <2>1. f \in Ids /\ opas[f].pai = i /\ i # 0
    BY Limites DEF FilhasDe, IInv
  <2> QED
    BY <1>1, <2>1, PaiDaFilha
<1>2. Cobertas(i) # {} /\ Mae(i) => FilhasDe(i) # {}
  BY DEF Cobertas, Mae
<1>3. ~Mae(i) => opas[i].ordens # {} /\ Cobertas(i) # {}
  BY DEF Cobertas, Mae
<1> QED
  BY <1>1, <1>2, <1>3 DEF AgrupamentoSemFilhas, IInv, Grupos

\* A row of a report for one of a grouping, and for a grouping without one.
RegistroDe(i, k) == [opa |-> i, lugar |-> k, valor |-> opas[i].total]

LEMMA LinhaComDetalhe ==
    ASSUME IInv, NEW l \in ComDetalhe
    PROVE  \E i \in Ids : \E k \in DOMAIN opas[i].hist :
              /\ l = <<i, k>> /\ l[1] = i /\ l[2] = k /\ LinhaDe(l) = opas[i].hist[k]
              /\ opas[i].hist[k].header # 0 /\ opas[i].hist[k].status # Criado
              /\ Registro(l) = RegistroDe(i, k)
              /\ AgrupamentoSemFilhas(i) <=> ~Mae(i)
<1>1. PICK i \in Ids : \E k \in DOMAIN opas[i].hist : l = <<i, k>>
  BY DEF ComDetalhe, Linhas
<1>2. PICK k \in DOMAIN opas[i].hist : l = <<i, k>>
  BY <1>1
<1>3. l[1] = i /\ l[2] = k /\ LinhaDe(l) = opas[i].hist[k]
  BY <1>2 DEF LinhaDe
<1>4. opas[i].hist[k].header # 0 /\ Cobertas(i) # {}
  BY <1>3 DEF ComDetalhe
<1>5. Colunas(i, opas[i].hist[k])
  BY DEF IInv, Livro
<1>6. opas[i].hist[k].valor = opas[i].total /\ opas[i].hist[k].status # Criado
  BY <1>4, <1>5 DEF Colunas
<1>7. Registro(l) = RegistroDe(i, k)
  BY <1>3, <1>6 DEF Registro, RegistroDe
<1>8. AgrupamentoSemFilhas(i) <=> ~Mae(i)
  BY <1>4, SoMaeTemFilhas
<1> QED
  BY <1>2, <1>3, <1>4, <1>6, <1>7, <1>8

LEMMA TemDetalhe ==
    ASSUME IInv, NEW i \in Ids, NEW k \in DOMAIN opas[i].hist,
           opas[i].hist[k].header # 0, Cobertas(i) # {}
    PROVE  /\ <<i, k>> \in ComDetalhe /\ LinhaDe(<<i, k>>) = opas[i].hist[k]
           /\ Registro(<<i, k>>) = RegistroDe(i, k)
<1>1. <<i, k>> \in ComDetalhe /\ LinhaDe(<<i, k>>) = opas[i].hist[k]
  BY DEF ComDetalhe, Linhas, LinhaDe
<1>2. Colunas(i, opas[i].hist[k])
  BY DEF IInv, Livro
<1>3. opas[i].hist[k].valor = opas[i].total
  BY <1>2 DEF Colunas
<1> QED
  BY <1>1, <1>3 DEF Registro, RegistroDe

LEMMA StatusMostrado ==
    ASSUME NEW h, ComMotivo(h), h.status \in StatusRemessaEnum
    PROVE  /\ StatusCase(h) = "Pago" <=> h.status = Efetivado
           /\ StatusCase(h) = "Rejeitado" <=> h.status = NaoEfetivado
BY DEF StatusCase, ComMotivo, StatusRemessaEnum, Criado, PreparadoParaEnvio,
       AguardandoPagamento, Efetivado, NaoEfetivado, PendenciaPaga

\* An order is counted once if one row holds it, and not at all if none does.
LEMMA VezesUma ==
    ASSUME NEW S, NEW o, NEW r \in S, o \in r.valor, \A q \in S : o \in q.valor => q = r
    PROVE  Vezes(o, S) = 1
<1>1. {q \in S : o \in q.valor} = {r}
  OBVIOUS
<1>2. Cardinality({r}) = 1
  BY FS_Singleton
<1> QED
  BY <1>1, <1>2, Zenon DEF Vezes

LEMMA VezesNenhuma ==
    ASSUME NEW S, NEW o, \A q \in S : o \notin q.valor
    PROVE  Vezes(o, S) = 0
<1>1. {q \in S : o \in q.valor} = {}
  OBVIOUS
<1> QED
  BY <1>1, FS_EmptySet, Zenon DEF Vezes

-----------------------------------------------------------------------------
(* What is shown as paid.                                                  *)

\* A grouping that is no parent was paid, by itself or with its parent.
FoiPaga(i) == i \in Ids /\ ~Mae(i) /\ \E k \in DOMAIN opas[i].hist : Pago(opas[i].hist[k])

\* The row of a report that says so.
DizPaga(r, i) ==
    \/ \E k \in DOMAIN opas[i].hist : opas[i].hist[k].header # 0 /\ r = RegistroDe(i, k)
    \/ SemPedido(i) /\ r = RegistroDe(i, 0)

\* A report that says of every grouping that was paid, and of no other, that
\* it was.
DizTudo(S) == /\ \A r \in S : \E i : FoiPaga(i) /\ DizPaga(r, i)
              /\ \A i : FoiPaga(i) => \E r \in S : DizPaga(r, i)

LEMMA DizUmaVez ==
    ASSUME IInv, NEW i \in Ids, NEW r, NEW q, DizPaga(r, i), DizPaga(q, i)
    PROVE  r = q
BY DEF DizPaga, SemPedido, IInv, UmPedidoPorGrupo

LEMMA ValorDaPaga ==
    ASSUME IInv, NEW i, FoiPaga(i), NEW r, DizPaga(r, i)
    PROVE  r.valor = opas[i].ordens /\ \A o \in opas[i].ordens : creditos[o] > 0
<1>1. opas[i].total = opas[i].ordens
  BY DEF FoiPaga, IInv, Grupos
<1>2. r.valor = opas[i].total
  BY DEF DizPaga, RegistroDe
<1>3. \A o \in opas[i].total : creditos[o] > 0
  BY DEF FoiPaga, IInv, Creditados
<1> QED
  BY <1>1, <1>2, <1>3

\* The order of a payment that was made, and read, is of a grouping paid.
LEMMA CreditadaFoiPaga ==
    ASSUME IInv, Baixadas, \A n \in DOMAIN instrucoes : instrucoes[n].retorno = <<>>,
           NEW o \in Ordens, creditos[o] > 0
    PROVE  \E f : FoiPaga(f) /\ o \in opas[f].ordens
<1>1. PICK n \in DOMAIN instrucoes : instrucoes[n].fase = "creditada" /\ o \in instrucoes[n].valor
  BY DEF IInv, Creditados, Creditada
<1>2. Vivo(instrucoes[n]) /\ ~Aberto(instrucoes[n])
  BY <1>1 DEF Vivo, Aberto
<1>3. PICK i \in Ids : \E k \in DOMAIN opas[i].hist :
         instrucoes[n].valor = opas[i].total /\ Pago(opas[i].hist[k])
  BY <1>2, LinhaDoVivo
<1>4. PICK k \in DOMAIN opas[i].hist :
         instrucoes[n].valor = opas[i].total /\ Pago(opas[i].hist[k])
  BY <1>3
<1>5. PICK f \in Ids : /\ o \in opas[f].ordens
                       /\ IF Mae(i) THEN opas[f].pai = i /\ k = 1 ELSE f = i
  BY <1>1, <1>4, PagaNaoRecusada, DeQuemE DEF IInv
<1>6. ~Mae(f)
  BY <1>5 DEF Mae
<1>7. \E m \in DOMAIN opas[f].hist : Pago(opas[f].hist[m])
  <2>1. CASE Mae(i)
    <3>1. opas[f].pai = i /\ Pago(opas[i].hist[1]) /\ i # 0
      BY <1>4, <1>5, <2>1, Limites DEF IInv
    <3>2. \A m \in DOMAIN opas[f].hist : opas[f].hist[m].status = PendenciaPaga
      BY <3>1 DEF Baixadas, PagasComOPai
    <3>3. DOMAIN opas[f].hist # {}
      BY TipoDaOpa DEF IInv
    <3> QED
      BY <3>2, <3>3 DEF Pago
  <2>2. CASE ~Mae(i)
    BY <1>4, <1>5, <2>2
  <2> QED
    BY <2>1, <2>2
<1> QED
  BY <1>5, <1>6, <1>7 DEF FoiPaga

LEMMA DizTudoConfere ==
    ASSUME IInv, Baixadas, \A n \in DOMAIN instrucoes : instrucoes[n].retorno = <<>>,
           NEW S, DizTudo(S)
    PROVE  Confere(S, {o \in Ordens : creditos[o] > 0})
<1> SUFFICES ASSUME NEW o \in Ordens
             PROVE  Vezes(o, S) = IF creditos[o] > 0 THEN 1 ELSE 0
  BY DEF Confere
<1>1. CASE creditos[o] > 0
  <2>1. PICK f : FoiPaga(f) /\ o \in opas[f].ordens
    BY <1>1, CreditadaFoiPaga
  <2>2. PICK r \in S : DizPaga(r, f)
    BY <2>1 DEF DizTudo
  <2>3. o \in r.valor
    BY <2>1, <2>2, ValorDaPaga
  <2>4. ASSUME NEW q \in S, o \in q.valor PROVE q = r
    <3>1. PICK j : FoiPaga(j) /\ DizPaga(q, j)
      BY DEF DizTudo
    <3>2. o \in opas[j].ordens
      BY <2>4, <3>1, ValorDaPaga
    <3>3. j = f /\ f \in Ids
      BY <2>1, <3>1, <3>2 DEF IInv, Grupos, FoiPaga
    <3> QED
      BY <2>2, <3>1, <3>3, DizUmaVez
  <2> QED
    BY <1>1, <2>3, <2>4, VezesUma
<1>2. CASE ~(creditos[o] > 0)
  <2>1. ASSUME NEW q \in S, o \in q.valor PROVE FALSE
    <3>1. PICK j : FoiPaga(j) /\ DizPaga(q, j)
      BY DEF DizTudo
    <3> QED
      BY <1>2, <2>1, <3>1, ValorDaPaga
  <2> QED
    BY <1>2, <2>1, VezesNenhuma
<1> QED
  BY <1>1, <1>2

\* A grouping that was paid has one row with a DetalheA, of its own payment or
\* of the one its parent made up for, or it has none.
LEMMA ComoFoiPaga ==
    ASSUME IInv, Baixadas, NEW i, FoiPaga(i)
    PROVE  \/ \E k \in DOMAIN opas[i].hist :
                 opas[i].hist[k].header # 0 /\ opas[i].hist[k].status = Efetivado
           \/ \E k \in DOMAIN opas[i].hist :
                 opas[i].hist[k].header # 0 /\ opas[i].hist[k].status = PendenciaPaga
           \/ /\ SemPedido(i) /\ opas[i].pai \in Ids
              /\ \A k \in DOMAIN opas[i].hist : opas[i].hist[k].status = PendenciaPaga
<1>1. PICK k \in DOMAIN opas[i].hist : Pago(opas[i].hist[k])
  BY DEF FoiPaga
<1>2. i \in Ids /\ ~Mae(i)
  BY DEF FoiPaga
<1>3. CASE opas[i].pai = 0
  <2>1. opas[i].hist[k].status = Efetivado
    BY <1>1, <1>2, <1>3 DEF Baixadas, PagasPorSi, Pago
  <2>2. Colunas(i, opas[i].hist[k])
    BY <1>2 DEF IInv, Livro
  <2>3. opas[i].hist[k].header # 0
    BY <2>1, <2>2 DEF Colunas, Efetivado, Criado, NaoEfetivado, PendenciaPaga
  <2> QED
    BY <2>1, <2>3
<1>4. CASE opas[i].pai # 0
  <2>1. opas[i].pai \in Ids /\ Pago(opas[opas[i].pai].hist[1])
    BY <1>1, <1>2, <1>4, PaiDaFilha DEF IInv, Filhas
  <2>2. \A m \in DOMAIN opas[i].hist : opas[i].hist[m].status = PendenciaPaga
    BY <1>2, <1>4, <2>1 DEF Baixadas, PagasComOPai
  <2> QED
    BY <2>1, <2>2 DEF SemPedido
<1> QED
  BY <1>3, <1>4

\* Rows of a payment made by itself.
LEMMA EfetivadaDiz ==
    ASSUME IInv, NEW l \in ComDetalhe, LinhaDe(l).status = Efetivado,
           AgrupamentoSemFilhas(l[1])
    PROVE  FoiPaga(l[1]) /\ DizPaga(Registro(l), l[1])
<1>1. PICK i \in Ids : \E k \in DOMAIN opas[i].hist :
         /\ l[1] = i /\ LinhaDe(l) = opas[i].hist[k] /\ opas[i].hist[k].header # 0
         /\ Registro(l) = RegistroDe(i, k)
         /\ AgrupamentoSemFilhas(i) <=> ~Mae(i)
  BY LinhaComDetalhe
<1> QED
  BY <1>1 DEF FoiPaga, DizPaga, Pago

LEMMA EfetivadaMostrada ==
    ASSUME IInv, Baixadas, MotivosMostrados, NEW i, FoiPaga(i),
           NEW k \in DOMAIN opas[i].hist,
           opas[i].hist[k].header # 0, opas[i].hist[k].status = Efetivado
    PROVE  /\ <<i, k>> \in Historicos /\ <<i, k>> \in Base /\ <<i, k>> \in BaseGuardador
           /\ LinhaDe(<<i, k>>).status = Efetivado
           /\ StatusCase(LinhaDe(<<i, k>>)) = "Pago"
           /\ DizPaga(Registro(<<i, k>>), i)
<1>1. i \in Ids /\ ~Mae(i)
  BY DEF FoiPaga
<1>2. AgrupamentoSemFilhas(i) /\ opas[i].ordens # {} /\ Cobertas(i) # {}
  BY <1>1, SoMaeTemFilhas
<1>3. /\ <<i, k>> \in ComDetalhe /\ LinhaDe(<<i, k>>) = opas[i].hist[k]
      /\ Registro(<<i, k>>) = RegistroDe(i, k)
  BY <1>1, <1>2, TemDetalhe
<1>4. MotivoMostrado(opas[i].hist[k]) /\ opas[i].hist[k].status \in StatusRemessaEnum
      /\ ComMotivo(opas[i].hist[k])
  BY <1>1, TodosMostrados, TipoDaLinha DEF IInv, Baixadas, Motivadas
<1>5. StatusCase(opas[i].hist[k]) = "Pago"
  BY <1>4, StatusMostrado
<1>6. Efetivado # NaoEfetivado
  BY DEF Efetivado, NaoEfetivado
<1>7. <<i, k>>[1] = i
  OBVIOUS
<1>8. <<i, k>> \in Historicos
  BY <1>2, <1>3, <1>4, <1>6, <1>7 DEF Historicos, NaoSubstituido
<1>9. <<i, k>> \in Base
  BY <1>2, <1>3, <1>4, <1>7 DEF Base
<1>10. <<i, k>> \in BaseGuardador
  BY <1>3, <1>5, <1>9 DEF BaseGuardador
<1> QED
  BY <1>3, <1>5, <1>8, <1>9, <1>10 DEF DizPaga

\* Rows of children paid through their parent.
LEMMA QuitadaDiz ==
    ASSUME IInv, NEW i \in Ids, NEW l \in Quitadas(i), AgrupamentoSemFilhas(l[1])
    PROVE  FoiPaga(i) /\ DizPaga(Registro(l), i)
<1>1. l \in ComDetalhe /\ l[1] = i /\ LinhaDe(l).status = PendenciaPaga
  BY DEF Quitadas
<1>2. PICK k \in DOMAIN opas[i].hist :
         /\ LinhaDe(l) = opas[i].hist[k] /\ opas[i].hist[k].header # 0
         /\ Registro(l) = RegistroDe(i, k)
         /\ AgrupamentoSemFilhas(i) <=> ~Mae(i)
  BY <1>1, LinhaComDetalhe
<1> QED
  BY <1>1, <1>2 DEF FoiPaga, DizPaga, Pago

LEMMA QuitadaMostrada ==
    ASSUME IInv, MotivosMostrados, NEW i, FoiPaga(i), NEW k \in DOMAIN opas[i].hist,
           opas[i].hist[k].header # 0, opas[i].hist[k].status = PendenciaPaga
    PROVE  /\ <<i, k>> \in PagasPeloPai /\ <<i, k>> \in QuitadasGuardador
           /\ DizPaga(Registro(<<i, k>>), i)
<1>1. i \in Ids /\ ~Mae(i)
  BY DEF FoiPaga
<1>2. AgrupamentoSemFilhas(i) /\ Cobertas(i) # {}
  BY <1>1, SoMaeTemFilhas
<1>3. /\ <<i, k>> \in ComDetalhe /\ LinhaDe(<<i, k>>) = opas[i].hist[k]
      /\ Registro(<<i, k>>) = RegistroDe(i, k)
  BY <1>1, <1>2, TemDetalhe
<1>4. MotivoMostrado(opas[i].hist[k])
  BY <1>1, TodosMostrados DEF IInv
<1>5. <<i, k>>[1] = i
  OBVIOUS
<1>6. <<i, k>> \in Quitadas(i)
  BY <1>3, <1>5 DEF Quitadas
<1>7. ASSUME NEW m \in Quitadas(i) PROVE m = <<i, k>>
  <2>1. m \in ComDetalhe /\ m[1] = i
    BY DEF Quitadas
  <2>2. PICK n \in DOMAIN opas[i].hist : m = <<i, n>> /\ opas[i].hist[n].header # 0
    BY <2>1, LinhaComDetalhe
  <2>3. n = k
    BY <1>1, <2>2 DEF IInv, UmPedidoPorGrupo
  <2> QED
    BY <2>2, <2>3
<1>8. UmaLinhaPorFilhaPaga(<<i, k>>)
  BY <1>5, <1>7 DEF UmaLinhaPorFilhaPaga
<1>9. <<i, k>> \in UNION {Quitadas(j) : j \in Ids}
  BY <1>1, <1>6
<1> QED
  BY <1>2, <1>3, <1>4, <1>5, <1>8, <1>9 DEF PagasPeloPai, QuitadasGuardador, DizPaga

\* And children paid that no file of their own asked for.
LEMMA NuncaEnviadaDiz ==
    ASSUME IInv, NEW i \in NuncaEnviadas
    PROVE  FoiPaga(i) /\ DizPaga([opa |-> i, lugar |-> 0, valor |-> opas[i].total], i)
<1>1. /\ i \in Ids /\ opas[i].ordens # {}
      /\ opas[i].hist[UltimoDe(opas[i].hist)].status = PendenciaPaga
      /\ \A g \in HistoricosDe(i) : g.header = 0
  BY DEF NuncaEnviadas
<1>2. UltimoDe(opas[i].hist) \in DOMAIN opas[i].hist
  BY <1>1, TipoDaOpa, UltimoExiste DEF IInv
<1>3. SemPedido(i)
  BY <1>1 DEF SemPedido, HistoricosDe
<1> QED
  BY <1>1, <1>2, <1>3 DEF FoiPaga, DizPaga, RegistroDe, Pago, Mae

LEMMA NuncaEnviadaMostrada ==
    ASSUME IInv, MotivosMostrados, NEW i, FoiPaga(i), SemPedido(i), opas[i].pai \in Ids,
           \A k \in DOMAIN opas[i].hist : opas[i].hist[k].status = PendenciaPaga
    PROVE  i \in NuncaEnviadas
<1>1. i \in Ids /\ ~Mae(i)
  BY DEF FoiPaga
<1>2. AgrupamentoSemFilhas(i) /\ opas[i].ordens # {}
  BY <1>1, SoMaeTemFilhas
<1>3. UltimoDe(opas[i].hist) \in DOMAIN opas[i].hist
  BY <1>1, TipoDaOpa, UltimoExiste DEF IInv
<1>4. MotivoMostrado(opas[i].hist[UltimoDe(opas[i].hist)])
  BY <1>1, <1>3, TodosMostrados DEF IInv
<1>5. \A g \in HistoricosDe(i) : g.header = 0
  BY DEF SemPedido, HistoricosDe
<1> QED
  BY <1>1, <1>2, <1>3, <1>4, <1>5 DEF NuncaEnviadas

LEMMA PendenciasPagasDizem ==
    ASSUME IInv, NEW r \in PendenciasPagas
    PROVE  \E i : FoiPaga(i) /\ DizPaga(r, i)
<1>1. CASE \E l \in PagasPeloPai : r = Registro(l)
  <2>1. PICK l \in PagasPeloPai : r = Registro(l)
    BY <1>1
  <2>2. PICK i \in Ids : l \in Quitadas(i)
    BY DEF PagasPeloPai
  <2>3. AgrupamentoSemFilhas(l[1])
    BY DEF PagasPeloPai
  <2> QED
    BY <2>1, <2>2, <2>3, QuitadaDiz
<1>2. CASE \E i \in NuncaEnviadas : r = [opa |-> i, lugar |-> 0, valor |-> opas[i].total]
  BY <1>2, NuncaEnviadaDiz
<1> QED
  BY <1>1, <1>2 DEF PendenciasPagas

\* In the Movimentacao "Pago" is only what was paid by itself.
LEMMA BaseEfetivada ==
    ASSUME IInv, Baixadas, NEW l \in Base, StatusCase(LinhaDe(l)) = "Pago"
    PROVE  LinhaDe(l).status = Efetivado
<1>1. PICK i \in Ids : \E k \in DOMAIN opas[i].hist : LinhaDe(l) = opas[i].hist[k]
  BY LinhaComDetalhe DEF Base
<1>2. LinhaDe(l).status \in StatusRemessaEnum /\ ComMotivo(LinhaDe(l))
  BY <1>1, TipoDaLinha DEF IInv, Baixadas, Motivadas
<1> QED
  BY <1>2, StatusMostrado

\* The three lists of what was paid say it of everything, and of nothing else.
LEMMA ConsolidadoDiz ==
    ASSUME IInv, Baixadas, MotivosMostrados PROVE DizTudo(PagoConsolidado)
<1>1. ASSUME NEW r \in PagoConsolidado PROVE \E i : FoiPaga(i) /\ DizPaga(r, i)
  <2>1. CASE r \in PendenciasPagas
    BY <2>1, PendenciasPagasDizem
  <2>2. CASE \E l \in Historicos : r = Registro(l) /\ LinhaDe(l).status = Efetivado
    <3>1. PICK l \in Historicos : r = Registro(l) /\ LinhaDe(l).status = Efetivado
      BY <2>2
    <3>2. l \in ComDetalhe /\ AgrupamentoSemFilhas(l[1])
      BY <3>1 DEF Historicos, NaoSubstituido, Criado, PreparadoParaEnvio, AguardandoPagamento,
                  Efetivado
    <3> QED
      BY <3>1, <3>2, EfetivadaDiz
  <2> QED
    BY <2>1, <2>2 DEF PagoConsolidado
<1>2. ASSUME NEW i, FoiPaga(i) PROVE \E r \in PagoConsolidado : DizPaga(r, i)
  <2>1. ASSUME NEW k \in DOMAIN opas[i].hist,
               opas[i].hist[k].header # 0, opas[i].hist[k].status = Efetivado
        PROVE  Registro(<<i, k>>) \in PagoConsolidado /\ DizPaga(Registro(<<i, k>>), i)
    BY <1>2, <2>1, EfetivadaMostrada DEF PagoConsolidado
  <2>2. ASSUME NEW k \in DOMAIN opas[i].hist,
               opas[i].hist[k].header # 0, opas[i].hist[k].status = PendenciaPaga
        PROVE  Registro(<<i, k>>) \in PagoConsolidado /\ DizPaga(Registro(<<i, k>>), i)
    BY <1>2, <2>2, QuitadaMostrada DEF PagoConsolidado, PendenciasPagas
  <2>3. ASSUME i \in NuncaEnviadas PROVE \E r \in PagoConsolidado : DizPaga(r, i)
    BY <2>3, NuncaEnviadaDiz DEF PagoConsolidado, PendenciasPagas
  <2> QED
    BY <1>2, <2>1, <2>2, <2>3, ComoFoiPaga, NuncaEnviadaMostrada
<1> QED
  BY <1>1, <1>2 DEF DizTudo

LEMMA MovimentacaoDiz ==
    ASSUME IInv, Baixadas, MotivosMostrados PROVE DizTudo(PagoMovimentacao)
<1>1. ASSUME NEW r \in PagoMovimentacao PROVE \E i : FoiPaga(i) /\ DizPaga(r, i)
  <2>1. CASE r \in PendenciasPagas
    BY <2>1, PendenciasPagasDizem
  <2>2. CASE \E l \in Base : r = Registro(l) /\ StatusCase(LinhaDe(l)) = "Pago"
    <3>1. PICK l \in Base : r = Registro(l) /\ StatusCase(LinhaDe(l)) = "Pago"
      BY <2>2
    <3>2. LinhaDe(l).status = Efetivado
      BY <3>1, BaseEfetivada
    <3> QED
      BY <3>1, <3>2, EfetivadaDiz DEF Base
  <2> QED
    BY <2>1, <2>2 DEF PagoMovimentacao
<1>2. ASSUME NEW i, FoiPaga(i) PROVE \E r \in PagoMovimentacao : DizPaga(r, i)
  <2>1. ASSUME NEW k \in DOMAIN opas[i].hist,
               opas[i].hist[k].header # 0, opas[i].hist[k].status = Efetivado
        PROVE  Registro(<<i, k>>) \in PagoMovimentacao /\ DizPaga(Registro(<<i, k>>), i)
    BY <1>2, <2>1, EfetivadaMostrada DEF PagoMovimentacao
  <2>2. ASSUME NEW k \in DOMAIN opas[i].hist,
               opas[i].hist[k].header # 0, opas[i].hist[k].status = PendenciaPaga
        PROVE  Registro(<<i, k>>) \in PagoMovimentacao /\ DizPaga(Registro(<<i, k>>), i)
    BY <1>2, <2>2, QuitadaMostrada DEF PagoMovimentacao, PendenciasPagas
  <2>3. ASSUME i \in NuncaEnviadas PROVE \E r \in PagoMovimentacao : DizPaga(r, i)
    BY <2>3, NuncaEnviadaDiz DEF PagoMovimentacao, PendenciasPagas
  <2> QED
    BY <1>2, <2>1, <2>2, <2>3, ComoFoiPaga, NuncaEnviadaMostrada
<1> QED
  BY <1>1, <1>2 DEF DizTudo

LEMMA GuardadorDiz ==
    ASSUME IInv, Baixadas, MotivosMostrados PROVE DizTudo(PagoGuardador)
<1>1. ASSUME NEW r \in PagoGuardador PROVE \E i : FoiPaga(i) /\ DizPaga(r, i)
  <2>1. CASE \E l \in BaseGuardador : r = Registro(l) /\ StatusCase(LinhaDe(l)) = "Pago"
    <3>1. PICK l \in BaseGuardador : r = Registro(l) /\ StatusCase(LinhaDe(l)) = "Pago"
      BY <2>1
    <3>2. l \in Base
      BY DEF BaseGuardador
    <3>3. LinhaDe(l).status = Efetivado
      BY <3>1, <3>2, BaseEfetivada
    <3> QED
      BY <3>1, <3>2, <3>3, EfetivadaDiz DEF Base
  <2>2. CASE \E l \in QuitadasGuardador : r = Registro(l)
    <3>1. PICK l \in QuitadasGuardador : r = Registro(l)
      BY <2>2
    <3>2. PICK i \in Ids : l \in Quitadas(i)
      BY DEF QuitadasGuardador
    <3>3. AgrupamentoSemFilhas(l[1])
      BY DEF QuitadasGuardador
    <3> QED
      BY <3>1, <3>2, <3>3, QuitadaDiz
  <2>3. CASE \E i \in NuncaEnviadas : r = [opa |-> i, lugar |-> 0, valor |-> opas[i].total]
    BY <2>3, NuncaEnviadaDiz
  <2> QED
    BY <2>1, <2>2, <2>3 DEF PagoGuardador
<1>2. ASSUME NEW i, FoiPaga(i) PROVE \E r \in PagoGuardador : DizPaga(r, i)
  <2>1. ASSUME NEW k \in DOMAIN opas[i].hist,
               opas[i].hist[k].header # 0, opas[i].hist[k].status = Efetivado
        PROVE  Registro(<<i, k>>) \in PagoGuardador /\ DizPaga(Registro(<<i, k>>), i)
    BY <1>2, <2>1, EfetivadaMostrada DEF PagoGuardador
  <2>2. ASSUME NEW k \in DOMAIN opas[i].hist,
               opas[i].hist[k].header # 0, opas[i].hist[k].status = PendenciaPaga
        PROVE  Registro(<<i, k>>) \in PagoGuardador /\ DizPaga(Registro(<<i, k>>), i)
    BY <1>2, <2>2, QuitadaMostrada DEF PagoGuardador
  <2>3. ASSUME i \in NuncaEnviadas PROVE \E r \in PagoGuardador : DizPaga(r, i)
    BY <2>3, NuncaEnviadaDiz DEF PagoGuardador
  <2> QED
    BY <1>2, <2>1, <2>2, <2>3, ComoFoiPaga, NuncaEnviadaMostrada
<1> QED
  BY <1>1, <1>2 DEF DizTudo

LEMMA PagoConfereVale == IInv /\ Baixadas /\ MotivosMostrados => PagoConfere
BY ConsolidadoDiz, MovimentacaoDiz, GuardadorDiz, DizTudoConfere DEF PagoConfere

-----------------------------------------------------------------------------
(* What is shown as pending.                                               *)

\* What the procedure would take again, and the row of a report that says so.
Falhou(i) == i \in Ids /\ (Pendente(i) \/ NuncaEnviado(i))
DizFalha(r, i) ==
    \/ /\ Pendente(i)
       /\ \E k \in DOMAIN opas[i].hist : Rejeicao(opas[i].hist[k]) /\ r = RegistroDe(i, k)
    \/ NuncaEnviado(i) /\ r = RegistroDe(i, 0)

\* A report that says it of all of them, and of the loose orders, and of
\* nothing else.
DizFalhas(S) == /\ \A r \in S : r \in Atrasadas \/ \E i : Falhou(i) /\ DizFalha(r, i)
                /\ \A i : Falhou(i) => \E r \in S : DizFalha(r, i)
                /\ Atrasadas \subseteq S

\* The attempt that was refused is the only one.
LEMMA UmaRejeicao ==
    ASSUME IInv, NEW i \in Ids, NEW k \in DOMAIN opas[i].hist, Rejeicao(opas[i].hist[k])
    PROVE  UltimaRejeicao(i) = k
<1>1. {m \in DOMAIN opas[i].hist : Rejeicao(opas[i].hist[m])} = {k}
  BY DEF Rejeicao, IInv, UmPedidoPorGrupo
<1>2. k \in Int
  BY TipoDaOpa DEF IInv
<1> QED
  BY <1>1, <1>2, MaiorDeUm DEF UltimaRejeicao

LEMMA FalhouEDona ==
    ASSUME IInv, NEW i, Falhou(i), NEW r, DizFalha(r, i)
    PROVE  i \in Ids /\ ~Mae(i) /\ r.valor = opas[i].ordens
<1>1. i \in Ids /\ ~Mae(i)
  BY DEF Falhou, Pendente, NuncaEnviado, Mae
<1>2. opas[i].total = opas[i].ordens
  BY <1>1 DEF IInv, Grupos
<1>3. r.valor = opas[i].total
  BY DEF DizFalha, RegistroDe
<1> QED
  BY <1>1, <1>2, <1>3

LEMMA DizFalhaUmaVez ==
    ASSUME IInv, NEW i \in Ids, NEW r, NEW q, DizFalha(r, i), DizFalha(q, i)
    PROVE  r = q
<1>1. NuncaEnviado(i) => ~Pendente(i)
  BY DEF NuncaEnviado, Pendente, Intocada, Rejeicao
<1>2. CASE NuncaEnviado(i)
  BY <1>1, <1>2 DEF DizFalha
<1>3. CASE ~NuncaEnviado(i)
  <2>1. PICK k \in DOMAIN opas[i].hist : Rejeicao(opas[i].hist[k]) /\ r = RegistroDe(i, k)
    BY <1>3 DEF DizFalha
  <2>2. PICK m \in DOMAIN opas[i].hist : Rejeicao(opas[i].hist[m]) /\ q = RegistroDe(i, m)
    BY <1>3 DEF DizFalha
  <2>3. UltimaRejeicao(i) = k /\ UltimaRejeicao(i) = m
    BY <2>1, <2>2, UmaRejeicao
  <2> QED
    BY <2>1, <2>2, <2>3
<1> QED
  BY <1>2, <1>3

\* The orders of what the procedure would take again.
OrdensDasFalhas == UNION {opas[i].ordens : i \in {j \in Ids : Pendente(j) \/ NuncaEnviado(j)}}
Solta(o) == [opa |-> 0, lugar |-> 0, valor |-> {o}]

LEMMA AtrasadasSaoAsSoltas ==
    ASSUME NEW o \in Ordens
    PROVE  /\ o \in OrdensNuncaAgrupadas(Ordens) => Solta(o) \in Atrasadas /\ o \in Soltas
           /\ \A q \in Atrasadas : o \in q.valor =>
                 q = Solta(o) /\ o \in OrdensNuncaAgrupadas(Ordens)
<1> DEFINE P(q) == (Guardador \/ q \in Antigas) /\ ~JaPagaOuEmAndamento(q)
<1>1. Atrasadas = {Solta(q) : q \in {n \in Soltas : P(n)}}
  BY DEF Atrasadas, Solta
<1>2. OrdensNuncaAgrupadas(Ordens) = {q \in Ordens : q \in Soltas /\ P(q)}
  BY DEF OrdensNuncaAgrupadas, Soltas
<1>3. \A q : o \in Solta(q).valor => q = o
  BY DEF Solta
<1> HIDE DEF P
<1> QED
  BY <1>1, <1>2, <1>3

LEMMA DizFalhasConfere ==
    ASSUME IInv, NEW S, DizFalhas(S)
    PROVE  Confere(S, OrdensDasFalhas \cup OrdensNuncaAgrupadas(Ordens))
<1> DEFINE falhas == OrdensDasFalhas
           soltas == OrdensNuncaAgrupadas(Ordens)
<1> SUFFICES ASSUME NEW o \in Ordens
             PROVE  Vezes(o, S) = IF o \in falhas \cup soltas THEN 1 ELSE 0
  BY DEF Confere
<1>1. o \in falhas <=> \E i : Falhou(i) /\ o \in opas[i].ordens
  BY DEF Falhou, OrdensDasFalhas
<1>2. /\ o \in soltas => Solta(o) \in Atrasadas /\ o \in Soltas
      /\ \A q \in Atrasadas : o \in q.valor => q = Solta(o) /\ o \in soltas
  BY AtrasadasSaoAsSoltas
<1>3. o \in falhas => o \notin Soltas
  BY <1>1 DEF Soltas, Agrupadas, Falhou
<1> HIDE DEF falhas, soltas
<1>4. ASSUME NEW q \in S, o \in q.valor
      PROVE  \/ q = Solta(o) /\ o \in soltas
             \/ \E j : Falhou(j) /\ DizFalha(q, j) /\ o \in opas[j].ordens
  BY <1>2, <1>4, FalhouEDona DEF DizFalhas
<1>5. CASE o \in falhas
  <2>1. PICK i : Falhou(i) /\ o \in opas[i].ordens
    BY <1>1, <1>5
  <2>2. PICK r \in S : DizFalha(r, i)
    BY <2>1 DEF DizFalhas
  <2>3. i \in Ids /\ o \in r.valor
    BY <2>1, <2>2, FalhouEDona
  <2>4. ASSUME NEW q \in S, o \in q.valor PROVE q = r
    <3>1. PICK j : Falhou(j) /\ DizFalha(q, j) /\ o \in opas[j].ordens
      BY <1>2, <1>3, <1>4, <1>5, <2>4
    <3>2. j = i
      BY <2>1, <2>3, <3>1 DEF IInv, Grupos, Falhou
    <3> QED
      BY <2>2, <2>3, <3>1, <3>2, DizFalhaUmaVez
  <2> QED
    BY <1>5, <2>3, <2>4, VezesUma
<1>6. CASE o \notin falhas /\ o \in soltas
  <2> DEFINE r == Solta(o)
  <2>1. r \in S /\ o \in r.valor
    BY <1>2, <1>6 DEF DizFalhas, Solta
  <2>2. \A q \in S : o \in q.valor => q = r
    BY <1>1, <1>4, <1>6
  <2> HIDE DEF r
  <2> QED
    BY <1>6, <2>1, <2>2, VezesUma
<1>7. CASE o \notin falhas /\ o \notin soltas
  <2>1. \A q \in S : o \notin q.valor
    BY <1>1, <1>4, <1>7
  <2> QED
    BY <1>7, <2>1, VezesNenhuma
<1> QED
  BY <1>5, <1>6, <1>7

\* The rule of the reports is the procedure's.
LEMMA RejeitadaEPendente ==
    ASSUME IInv, NEW l \in ComDetalhe, AgrupamentoSemFilhas(l[1]), PendenciaRejeitada(l)
    PROVE  Falhou(l[1]) /\ DizFalha(Registro(l), l[1])
<1>1. PICK i \in Ids : \E k \in DOMAIN opas[i].hist :
         /\ l[1] = i /\ LinhaDe(l) = opas[i].hist[k]
         /\ Registro(l) = RegistroDe(i, k)
         /\ AgrupamentoSemFilhas(i) <=> ~Mae(i)
  BY LinhaComDetalhe
<1>2. PICK k \in DOMAIN opas[i].hist :
         /\ l[1] = i /\ LinhaDe(l) = opas[i].hist[k]
         /\ Registro(l) = RegistroDe(i, k)
         /\ AgrupamentoSemFilhas(i) <=> ~Mae(i)
  BY <1>1
<1>3. /\ Rejeicao(opas[i].hist[k]) /\ SemCopiaPaga(i)
      /\ ~Tem(i, {PreparadoParaEnvio, AguardandoPagamento, Efetivado, PendenciaPaga})
      /\ opas[i].pai \in Ids => ~Tem(opas[i].pai, StatusRemessaEnum \ {NaoEfetivado})
  BY <1>2 DEF PendenciaRejeitada
<1>4. opas[i].pai \in Ids => StatusDe(opas[i].pai) \subseteq {NaoEfetivado}
  <2>1. ASSUME NEW j \in Ids, ~Tem(j, StatusRemessaEnum \ {NaoEfetivado})
        PROVE  StatusDe(j) \subseteq {NaoEfetivado}
    BY <2>1, TipoDaLinha DEF Tem, StatusDe, HistoricosDe, IInv
  <2> QED
    BY <1>3, <2>1
<1>5. opas[i].ordens # {}
  BY <1>2 DEF Mae
<1>6. opas[i].hist[k] \in HistoricosDe(i)
  BY DEF HistoricosDe
<1>7. Pendente(i)
  BY <1>3, <1>4, <1>5, <1>6 DEF Pendente, Tem
<1> QED
  BY <1>2, <1>3, <1>7 DEF Falhou, DizFalha

LEMMA PendenteRejeitada ==
    ASSUME IInv, MotivosMostrados, NEW i \in Ids, Pendente(i)
    PROVE  \E k \in DOMAIN opas[i].hist :
              /\ <<i, k>> \in Historicos /\ <<i, k>> \in Base /\ PendenciaRejeitada(<<i, k>>)
              /\ LinhaDe(<<i, k>>) = opas[i].hist[k] /\ Rejeicao(opas[i].hist[k])
              /\ Registro(<<i, k>>) = RegistroDe(i, k)
              /\ DizFalha(Registro(<<i, k>>), i)
<1>1. /\ opas[i].ordens # {} /\ ~Mae(i) /\ SemCopiaPaga(i)
      /\ StatusDe(i) \cap {PreparadoParaEnvio, AguardandoPagamento,
                           Efetivado, PendenciaPaga} = {}
      /\ opas[i].pai \in Ids => StatusDe(opas[i].pai) \subseteq {NaoEfetivado}
  BY DEF Pendente, Mae
<1>2. PICK k \in DOMAIN opas[i].hist : Rejeicao(opas[i].hist[k])
  BY DEF Pendente, HistoricosDe
<1>3. AgrupamentoSemFilhas(i) /\ Cobertas(i) # {}
  BY <1>1, SoMaeTemFilhas
<1>4. /\ <<i, k>> \in ComDetalhe /\ LinhaDe(<<i, k>>) = opas[i].hist[k]
      /\ Registro(<<i, k>>) = RegistroDe(i, k)
  BY <1>2, <1>3, TemDetalhe DEF Rejeicao
<1>5. MotivoMostrado(opas[i].hist[k])
  BY TodosMostrados DEF IInv
<1>6. <<i, k>>[1] = i /\ <<i, k>>[2] = k
  OBVIOUS
<1>7. NaoEfetivado \notin {Criado, PreparadoParaEnvio, AguardandoPagamento}
  BY DEF NaoEfetivado, Criado, PreparadoParaEnvio, AguardandoPagamento
<1>8. opas[i].pai \in Ids =>
         /\ ~Tem(opas[i].pai, {Criado, PreparadoParaEnvio, AguardandoPagamento})
         /\ ~Tem(opas[i].pai, StatusRemessaEnum \ {NaoEfetivado})
  BY <1>1, <1>7 DEF Tem
<1>9. <<i, k>> \in Historicos
  BY <1>3, <1>4, <1>5, <1>6, <1>8 DEF Historicos, NaoSubstituido
<1>10. <<i, k>> \in Base
  BY <1>1, <1>3, <1>4, <1>5, <1>6 DEF Base
<1>11. PendenciaRejeitada(<<i, k>>)
  BY <1>1, <1>2, <1>4, <1>6, <1>8, UmaRejeicao DEF PendenciaRejeitada, Tem
<1> QED
  BY <1>2, <1>4, <1>9, <1>10, <1>11 DEF DizFalha

LEMMA ErroDizFalhas ==
    ASSUME IInv, MotivosMostrados, ~Guardador PROVE DizFalhas(Erro)
<1>1. ASSUME NEW r \in Pendencias PROVE \E i : Falhou(i) /\ DizFalha(r, i)
  <2>1. PICK l \in Historicos : r = Registro(l) /\ PendenciaRejeitada(l)
    BY DEF Pendencias
  <2>2. l \in ComDetalhe /\ AgrupamentoSemFilhas(l[1])
    BY <2>1 DEF Historicos, NaoSubstituido, PendenciaRejeitada, Rejeicao, Criado,
                PreparadoParaEnvio, AguardandoPagamento, NaoEfetivado
  <2> QED
    BY <2>1, <2>2, RejeitadaEPendente
<1>2. ASSUME NEW i, Falhou(i) PROVE \E r \in Erro : DizFalha(r, i)
  <2>1. i \in Ids /\ Pendente(i)
    BY <1>2 DEF Falhou, NuncaEnviado
  <2> QED
    BY <2>1, PendenteRejeitada DEF Erro, Pendencias
<1> QED
  BY <1>1, <1>2 DEF DizFalhas, Erro

LEMMA ErroGuardadorDizFalhas ==
    ASSUME IInv, Baixadas, MotivosMostrados PROVE DizFalhas(ErroGuardador)
<1>1. ASSUME NEW l \in BaseGuardador, StatusCase(LinhaDe(l)) = "Rejeitado"
      PROVE  \E i : Falhou(i) /\ DizFalha(Registro(l), i)
  <2>1. l \in Base /\ PendenciaRejeitada(l)
    BY <1>1 DEF BaseGuardador
  <2> QED
    BY <2>1, RejeitadaEPendente DEF Base
<1>2. ASSUME NEW i \in Ids, NuncaEnviado(i)
      PROVE  Falhou(i) /\ DizFalha([opa |-> i, lugar |-> 0, valor |-> opas[i].total], i)
  BY <1>2 DEF Falhou, DizFalha, RegistroDe
<1>3. ASSUME NEW i \in Ids, Pendente(i) PROVE \E r \in ErroGuardador : DizFalha(r, i)
  <2>1. PICK k \in DOMAIN opas[i].hist :
           /\ <<i, k>> \in Base /\ PendenciaRejeitada(<<i, k>>)
           /\ LinhaDe(<<i, k>>) = opas[i].hist[k] /\ Rejeicao(opas[i].hist[k])
           /\ DizFalha(Registro(<<i, k>>), i)
    BY <1>3, PendenteRejeitada
  <2>2. opas[i].hist[k].status \in StatusRemessaEnum /\ ComMotivo(opas[i].hist[k])
    BY TipoDaLinha DEF IInv, Baixadas, Motivadas
  <2>3. StatusCase(LinhaDe(<<i, k>>)) = "Rejeitado"
    BY <2>1, <2>2, StatusMostrado DEF Rejeicao
  <2> QED
    BY <2>1, <2>3 DEF ErroGuardador, BaseGuardador
<1>4. \A i : Falhou(i) => \E r \in ErroGuardador : DizFalha(r, i)
  BY <1>2, <1>3 DEF Falhou, ErroGuardador
<1> QED
  BY <1>1, <1>2, <1>4 DEF DizFalhas, ErroGuardador

\* In the Movimentacao an order is in rows of its own grouping, which has one.
LEMMA NaMovimentacaoUmaVez ==
    ASSUME IInv, NEW i \in Ids, NEW k \in DOMAIN opas[i].hist, ~Mae(i),
           opas[i].hist[k].header # 0, NEW o \in opas[i].ordens,
           RegistroDe(i, k) \in PendenciasMovimentacao
    PROVE  Vezes(o, PendenciasMovimentacao) = 1
<1>1. o \in RegistroDe(i, k).valor
  BY DEF RegistroDe, IInv, Grupos
<1>2. ASSUME NEW r \in PendenciasMovimentacao, o \in r.valor PROVE r = RegistroDe(i, k)
  <2>1. PICK l \in ComDetalhe : r = Registro(l) /\ opas[l[1]].ordens # {}
    BY DEF PendenciasMovimentacao
  <2>2. PICK j \in Ids : \E m \in DOMAIN opas[j].hist :
           /\ l[1] = j /\ opas[j].hist[m].header # 0 /\ r = RegistroDe(j, m)
    BY <2>1, LinhaComDetalhe
  <2>3. PICK m \in DOMAIN opas[j].hist :
           /\ l[1] = j /\ opas[j].hist[m].header # 0 /\ r = RegistroDe(j, m)
    BY <2>2
  <2>4. o \in opas[j].total /\ opas[j].total = opas[j].ordens
    BY <1>2, <2>1, <2>3 DEF RegistroDe, IInv, Grupos, Mae
  <2>5. j = i
    BY <2>4 DEF IInv, Grupos
  <2>6. m = k
    BY <2>3, <2>5 DEF IInv, UmPedidoPorGrupo
  <2> QED
    BY <2>3, <2>5, <2>6
<1> QED
  BY <1>1, <1>2, VezesUma

\* The Movimentacao shows each of them by its parent's refusal, or its own.
LEMMA MovimentacaoMostra ==
    ASSUME IInv, Baixadas, MotivosMostrados, NEW i \in Ids, Pendente(i), NEW o \in opas[i].ordens
    PROVE  Vezes(o, PendenciasMovimentacao) = 1
<1>1. PICK k \in DOMAIN opas[i].hist :
         /\ <<i, k>> \in Base /\ LinhaDe(<<i, k>>) = opas[i].hist[k]
         /\ Rejeicao(opas[i].hist[k]) /\ Registro(<<i, k>>) = RegistroDe(i, k)
  BY PendenteRejeitada
<1>2. ASSUME NEW j \in Ids, NEW m \in DOMAIN opas[j].hist, opas[j].hist[m].status = NaoEfetivado
      PROVE  StatusCase(opas[j].hist[m]) = "Rejeitado" /\ MotivoMostrado(opas[j].hist[m])
  <2>1. opas[j].hist[m].status \in StatusRemessaEnum /\ ComMotivo(opas[j].hist[m])
    BY TipoDaLinha DEF IInv, Baixadas, Motivadas
  <2> QED
    BY <1>2, <2>1, StatusMostrado, TodosMostrados DEF IInv
<1>3. /\ <<i, k>> \in ComDetalhe /\ <<i, k>>[1] = i /\ opas[i].ordens # {} /\ ~Mae(i)
      /\ AgrupamentoSemFilhas(i) /\ opas[i].hist[k].header # 0
  BY <1>1, SoMaeTemFilhas DEF Base, Pendente, Mae, Rejeicao
<1>4. CASE opas[i].pai \in Ids
  <2> DEFINE p == opas[i].pai
             u == UltimoDe(opas[p].hist)
  <2>1. u \in DOMAIN opas[p].hist
    BY <1>4, TipoDaOpa, UltimoExiste DEF IInv
  <2>2. opas[p].hist[u].status = NaoEfetivado
    BY <1>4, <2>1 DEF Pendente, StatusDe, HistoricosDe
  <2>3. StatusCase(opas[p].hist[u]) = "Rejeitado" /\ MotivoMostrado(opas[p].hist[u])
    BY <1>2, <1>4, <2>1, <2>2
  <2>4. Registro(<<i, k>>) \in PendenciasMovimentacao
    BY <1>3, <1>4, <2>3 DEF PendenciasMovimentacao
  <2> QED
    BY <1>1, <1>3, <2>4, NaMovimentacaoUmaVez
<1>5. CASE opas[i].pai \notin Ids
  <2>1. opas[i].hist[k].status = NaoEfetivado
    BY <1>1 DEF Rejeicao
  <2>2. StatusCase(LinhaDe(<<i, k>>)) = "Rejeitado" /\ MotivoMostrado(LinhaDe(<<i, k>>))
    BY <1>1, <1>2, <2>1
  <2>3. Registro(<<i, k>>) \in PendenciasMovimentacao
    BY <1>3, <1>5, <2>2 DEF PendenciasMovimentacao
  <2> QED
    BY <1>1, <1>3, <2>3, NaMovimentacaoUmaVez
<1> QED
  BY <1>4, <1>5

LEMMA PendenciaEhOQueSePagaVale ==
    IInv /\ Baixadas /\ MotivosMostrados => PendenciaEhOQueSePaga
<1> SUFFICES ASSUME IInv, Baixadas, MotivosMostrados PROVE PendenciaEhOQueSePaga
  OBVIOUS
<1>1. Confere(IF Guardador THEN ErroGuardador ELSE Erro,
              OrdensDasFalhas \cup OrdensNuncaAgrupadas(Ordens))
  <2>1. CASE Guardador
    BY <2>1, ErroGuardadorDizFalhas, DizFalhasConfere
  <2>2. CASE ~Guardador
    BY <2>2, ErroDizFalhas, DizFalhasConfere
  <2> QED
    BY <2>1, <2>2
<1>2. ASSUME ~Guardador, NEW o \in OrdensDasFalhas PROVE Vezes(o, PendenciasMovimentacao) > 0
  <2>1. PICK i \in Ids : Pendente(i) /\ o \in opas[i].ordens
    BY <1>2 DEF OrdensDasFalhas, NuncaEnviado
  <2>2. Vezes(o, PendenciasMovimentacao) = 1
    BY <2>1, MovimentacaoMostra
  <2> QED
    BY <2>2
<1> QED
  BY <1>1, <1>2 DEF PendenciaEhOQueSePaga, OrdensDasFalhas

-----------------------------------------------------------------------------
(* What is counted once.                                                   *)

EmCurso == {Criado, PreparadoParaEnvio, AguardandoPagamento}

\* The row of the Consolidado for a row of a grouping: a parent shows while it
\* is on its way, and no refused child of it does.
Mostrada(i, k) ==
    /\ i \in Ids /\ k \in DOMAIN opas[i].hist /\ opas[i].hist[k].header # 0
    /\ Mae(i) => k = 1 /\ opas[i].hist[k].status \in EmCurso \ {Criado}
    /\ opas[i].hist[k].status = NaoEfetivado => ~(opas[i].pai \in Ids /\ Tem(opas[i].pai, EmCurso))

LEMMA LinhaMostrada ==
    ASSUME IInv, NEW l \in Historicos
    PROVE  \E i, k : Mostrada(i, k) /\ Registro(l) = RegistroDe(i, k)
<1>1. l \in ComDetalhe /\ NaoSubstituido(l)
  BY DEF Historicos
<1>2. PICK i \in Ids : \E k \in DOMAIN opas[i].hist :
         /\ l[1] = i /\ LinhaDe(l) = opas[i].hist[k]
         /\ opas[i].hist[k].header # 0 /\ opas[i].hist[k].status # Criado
         /\ Registro(l) = RegistroDe(i, k)
         /\ AgrupamentoSemFilhas(i) <=> ~Mae(i)
  BY <1>1, LinhaComDetalhe
<1>3. PICK k \in DOMAIN opas[i].hist :
         /\ l[1] = i /\ LinhaDe(l) = opas[i].hist[k]
         /\ opas[i].hist[k].header # 0 /\ opas[i].hist[k].status # Criado
         /\ Registro(l) = RegistroDe(i, k)
         /\ AgrupamentoSemFilhas(i) <=> ~Mae(i)
  BY <1>2
<1>4. Mae(i) => k = 1
  BY DEF IInv, Grupos
<1>5. /\ AgrupamentoSemFilhas(i) \/ opas[i].hist[k].status \in EmCurso
      /\ opas[i].hist[k].status = NaoEfetivado =>
            ~(opas[i].pai \in Ids /\ Tem(opas[i].pai, EmCurso))
  BY <1>1, <1>3 DEF NaoSubstituido, EmCurso
<1> QED
  BY <1>3, <1>4, <1>5 DEF Mostrada

\* A parent that shows and a child that shows share no order.
LEMMA MaeNaoContaFilha ==
    ASSUME IInv, NEW i, NEW k, Mostrada(i, k), Mae(i),
           NEW j, NEW m, Mostrada(j, m), ~Mae(j), NEW o \in opas[i].total, o \in opas[j].total
    PROVE  FALSE
<1>1. /\ i \in Ids /\ k \in DOMAIN opas[i].hist /\ k = 1
      /\ opas[i].hist[1].status \in {PreparadoParaEnvio, AguardandoPagamento}
      /\ j \in Ids /\ m \in DOMAIN opas[j].hist /\ opas[j].hist[m].header # 0
  BY DEF Mostrada, EmCurso
<1>2. ~Recusada(opas[i].hist[1]) /\ ~Pago(opas[i].hist[1])
  BY <1>1 DEF Recusada, Pago, PreparadoParaEnvio, AguardandoPagamento, NaoEfetivado, Efetivado,
              PendenciaPaga
<1>3. PICK f \in Ids : o \in opas[f].ordens /\ opas[f].pai = i
  BY <1>1, <1>2, DeQuemE DEF IInv
<1>4. f = j
  BY <1>1, <1>3 DEF IInv, Grupos
<1>5. i # 0 /\ opas[j].pai = i
  BY <1>1, <1>3, <1>4, Limites DEF IInv
<1>6. ~Viva(opas[j].hist[m]) /\ ~Pago(opas[j].hist[m])
  BY <1>1, <1>2, <1>5 DEF IInv, Filhas
<1>7. opas[j].hist[m].status \in StatusRemessaEnum /\ Colunas(j, opas[j].hist[m])
  BY <1>1, TipoDaLinha DEF IInv, Livro
<1>8. opas[j].hist[m].status = NaoEfetivado
  BY <1>1, <1>6, <1>7 DEF Viva, Casa, Pago, Colunas, StatusRemessaEnum, Criado, PreparadoParaEnvio,
                          AguardandoPagamento, Efetivado, NaoEfetivado, PendenciaPaga
<1>9. Tem(i, EmCurso)
  BY <1>1 DEF Tem, StatusDe, HistoricosDe, EmCurso
<1> QED
  BY <1>1, <1>5, <1>8, <1>9 DEF Mostrada

LEMMA MostradasSeparadas ==
    ASSUME IInv, NEW i, NEW k, Mostrada(i, k), NEW j, NEW m, Mostrada(j, m), i # j
    PROVE  opas[i].total \cap opas[j].total = {}
<1> SUFFICES ASSUME NEW o \in opas[i].total, o \in opas[j].total PROVE FALSE
  OBVIOUS
<1>1. i \in Ids /\ j \in Ids
  BY DEF Mostrada
<1>2. CASE ~Mae(i) /\ ~Mae(j)
  BY <1>1, <1>2 DEF IInv, Grupos
<1>3. CASE Mae(i) /\ ~Mae(j)
  BY <1>3, MaeNaoContaFilha
<1>4. CASE ~Mae(i) /\ Mae(j)
  BY <1>4, MaeNaoContaFilha
<1>5. CASE Mae(i) /\ Mae(j)
  <2>1. /\ 1 \in DOMAIN opas[i].hist /\ ~Recusada(opas[i].hist[1])
        /\ 1 \in DOMAIN opas[j].hist /\ ~Recusada(opas[j].hist[1])
    BY <1>5 DEF Mostrada, EmCurso, Recusada, PreparadoParaEnvio, AguardandoPagamento, NaoEfetivado
  <2>2. PICK f \in Ids : o \in opas[f].ordens /\ opas[f].pai = i
    BY <1>1, <1>5, <2>1, DeQuemE DEF IInv
  <2>3. PICK g \in Ids : o \in opas[g].ordens /\ opas[g].pai = j
    BY <1>1, <1>5, <2>1, DeQuemE DEF IInv
  <2> QED
    BY <2>2, <2>3 DEF IInv, Grupos
<1> QED
  BY <1>2, <1>3, <1>4, <1>5

\* An order that is in no grouping is in no row of one that shows.
LEMMA SoltaNaoMostrada ==
    ASSUME IInv, NEW i, NEW k, Mostrada(i, k), NEW o \in Soltas
    PROVE  o \notin opas[i].total
<1> SUFFICES ASSUME o \in opas[i].total PROVE FALSE
  OBVIOUS
<1>1. i \in Ids /\ k \in DOMAIN opas[i].hist
  BY DEF Mostrada
<1>2. Mae(i) => ~Recusada(opas[i].hist[k])
  BY DEF Mostrada, EmCurso, Recusada, PreparadoParaEnvio, AguardandoPagamento, NaoEfetivado
<1>3. \E f \in Ids : o \in opas[f].ordens
  <2>1. CASE Mae(i)
    BY <1>1, <1>2, <2>1, DeQuemE DEF IInv
  <2>2. CASE ~Mae(i)
    BY <1>1, <2>2 DEF IInv, Grupos
  <2> QED
    BY <2>1, <2>2
<1> QED
  BY <1>3 DEF Soltas, Agrupadas

\* A row of the Consolidado is of a grouping that shows, or of a loose order.
LEMMA DeQuemELinha ==
    ASSUME IInv, NEW r \in SemFiltro
    PROVE  \/ \E i, k : Mostrada(i, k) /\ r = RegistroDe(i, k)
           \/ \E o \in Soltas : r = Solta(o)
<1>1. CASE r \in {Registro(l) : l \in Historicos}
  BY <1>1, LinhaMostrada
<1>2. CASE r \in Atrasadas
  BY <1>2 DEF Atrasadas, Solta
<1> QED
  BY <1>1, <1>2 DEF SemFiltro

LEMMA LinhasSeparadas ==
    ASSUME IInv, NEW r \in SemFiltro, NEW q \in SemFiltro, r.opa # q.opa
    PROVE  r.valor \cap q.valor = {}
<1>1. \A i, k : RegistroDe(i, k).opa = i /\ RegistroDe(i, k).valor = opas[i].total
  BY DEF RegistroDe
<1>2. \A o : Solta(o).opa = 0 /\ Solta(o).valor = {o}
  BY DEF Solta
<1>3. CASE \E i, k : Mostrada(i, k) /\ r = RegistroDe(i, k)
  <2>1. PICK i, k : Mostrada(i, k) /\ r = RegistroDe(i, k)
    BY <1>3
  <2>2. CASE \E j, m : Mostrada(j, m) /\ q = RegistroDe(j, m)
    BY <1>1, <2>1, <2>2, MostradasSeparadas
  <2>3. CASE \E o \in Soltas : q = Solta(o)
    BY <1>1, <1>2, <2>1, <2>3, SoltaNaoMostrada
  <2> QED
    BY <2>2, <2>3, DeQuemELinha
<1>4. CASE \E o \in Soltas : r = Solta(o)
  <2>1. PICK o \in Soltas : r = Solta(o)
    BY <1>4
  <2>2. CASE \E j, m : Mostrada(j, m) /\ q = RegistroDe(j, m)
    BY <1>1, <1>2, <2>1, <2>2, SoltaNaoMostrada
  <2>3. ~\E u \in Soltas : q = Solta(u)
    BY <1>2, <2>1
  <2> QED
    BY <2>2, <2>3, DeQuemELinha
<1> QED
  BY <1>3, <1>4, DeQuemELinha

\* What the bank has not answered for good shows, in a row on its way.
LEMMA PedidaMostrada ==
    ASSUME IInv, Baixadas, ~HaDevolvido, NEW n \in DOMAIN instrucoes,
           instrucoes[n].fase \in {"recebida", "incluida"}
    PROVE  \E i \in Ids : \E k \in DOMAIN opas[i].hist :
              /\ opas[i].hist[k].header # 0 /\ opas[i].total = instrucoes[n].valor
              /\ RegistroDe(i, k) \in SemFiltro
<1>1. Vivo(instrucoes[n]) /\ Aberto(instrucoes[n])
  BY DEF Vivo, Aberto
<1>2. PICK i \in Ids : \E k \in DOMAIN opas[i].hist :
         /\ opas[i].hist[k].header # 0 /\ Viva(opas[i].hist[k])
         /\ opas[i].total = instrucoes[n].valor
  BY <1>1, LinhaDoVivo
<1>3. PICK k \in DOMAIN opas[i].hist :
         /\ opas[i].hist[k].header # 0 /\ Viva(opas[i].hist[k])
         /\ opas[i].total = instrucoes[n].valor
  BY <1>2
<1> DEFINE h == opas[i].hist[k]
<1>4. Cobertas(i) # {}
  <2>1. PICK o \in opas[i].total : TRUE
    BY DEF IInv, Grupos
  <2>2. PICK f \in Ids : o \in opas[f].ordens /\ (f = i \/ opas[f].pai = i)
    BY <1>3, <2>1, VivaNaoPaga, DeQuemE DEF IInv
  <2> QED
    BY <2>2 DEF Cobertas, FilhasDe
<1>5. /\ <<i, k>> \in ComDetalhe /\ LinhaDe(<<i, k>>) = h
      /\ Registro(<<i, k>>) = RegistroDe(i, k)
  BY <1>3, <1>4, TemDetalhe
<1>6. h.status \in {PreparadoParaEnvio, AguardandoPagamento, Efetivado, PendenciaPaga}
  <2>1. h \in HistoricosDe(i)
    BY DEF HistoricosDe
  <2> QED
    BY <1>3, <2>1, EmAndamento
<1>7. h.status \in {PreparadoParaEnvio, AguardandoPagamento}
  BY <1>3, <1>6, VivaNaoPaga DEF Pago
<1>8. h.motivo \in {Nulo, BD}
  <2>1. Colunas(i, h) /\ ComMotivo(h)
    BY DEF IInv, Livro, Baixadas, Motivadas
  <2> QED
    BY <1>7, <2>1 DEF Colunas, ComMotivo
<1>9. MotivoMostrado(h)
  BY <1>8 DEF MotivoMostrado, Nulo, BD
<1>10. NaoSubstituido(<<i, k>>)
  <2>1. h.status # NaoEfetivado
    BY <1>7 DEF PreparadoParaEnvio, AguardandoPagamento, NaoEfetivado
  <2> QED
    BY <1>5, <1>7, <1>9, <2>1 DEF NaoSubstituido
<1>11. RegistroDe(i, k) \in SemFiltro
  BY <1>5, <1>10 DEF SemFiltro, Historicos
<1> QED
  BY <1>3, <1>11

LEMMA ContadaUmaVezVale == IInv /\ Baixadas => ContadaUmaVez
<1> SUFFICES ASSUME IInv, Baixadas PROVE ContadaUmaVez
  OBVIOUS
<1>1. \A r, q \in SemFiltro : r.opa # q.opa => r.valor \cap q.valor = {}
  BY LinhasSeparadas
<1>2. ASSUME ~HaDevolvido, NEW n \in DOMAIN instrucoes,
             instrucoes[n].fase \in {"recebida", "incluida"}, NEW o \in instrucoes[n].valor
      PROVE  Vezes(o, SemFiltro) > 0
  <2>1. PICK i \in Ids : \E k \in DOMAIN opas[i].hist :
           /\ opas[i].hist[k].header # 0 /\ opas[i].total = instrucoes[n].valor
           /\ RegistroDe(i, k) \in SemFiltro
    BY <1>2, PedidaMostrada
  <2>2. PICK k \in DOMAIN opas[i].hist :
           /\ opas[i].hist[k].header # 0 /\ opas[i].total = instrucoes[n].valor
           /\ RegistroDe(i, k) \in SemFiltro
    BY <2>1
  <2> DEFINE r == RegistroDe(i, k)
  <2>3. r \in SemFiltro /\ r.opa = i /\ o \in r.valor /\ i # 0
    BY <1>2, <2>2, Limites DEF RegistroDe, IInv
  <2>4. ASSUME NEW q \in SemFiltro, o \in q.valor PROVE q = r
    <3>1. q.opa = i
      BY <1>1, <2>3, <2>4
    <3>2. PICK j, m : Mostrada(j, m) /\ q = RegistroDe(j, m)
      BY <2>3, <3>1, DeQuemELinha DEF Solta
    <3>3. j = i /\ m = k
      BY <2>2, <3>1, <3>2 DEF RegistroDe, Mostrada, IInv, UmPedidoPorGrupo
    <3> QED
      BY <3>2, <3>3
  <2> HIDE DEF r
  <2>5. Vezes(o, SemFiltro) = 1
    BY <2>3, <2>4, VezesUma
  <2> QED
    BY <2>5
<1> QED
  BY <1>1, <1>2 DEF ContadaUmaVez

\* What the reports count on, after any sequence of the endpoints.
THEOREM BaixadasSempre == ASSUME Riscos = {} PROVE Spec => [](IInv /\ Baixadas)
<1>1. Init => IInv /\ Baixadas
  BY InvInit, BaixadasInit
<1>2. IInv /\ Baixadas /\ [Next]_vars => IInv' /\ Baixadas'
  BY InvPasso, BaixadasPasso
<1> QED
  BY <1>1, <1>2, PTL DEF Spec

\* The Consolidado never adds an order in two groupings, a parent and the
\* children it pays among them, and leaves out nothing the bank still has.
THEOREM ContadaUmaVezSempre == ASSUME Riscos = {} PROVE Spec => []ContadaUmaVez
<1> QED
  BY BaixadasSempre, ContadaUmaVezVale, PTL

\* Once every answer was read, both reports show as paid, once each, the orders
\* the bank credited and no other.
THEOREM PagoConfereSempre ==
    ASSUME Riscos = {}, MotivosMostrados PROVE Spec => []PagoConfere
<1> QED
  BY BaixadasSempre, PagoConfereVale, PTL

\* The pending payments the reports list are those the procedures take again,
\* each order once.
THEOREM PendenciaEhOQueSePagaSempre ==
    ASSUME Riscos = {}, MotivosMostrados PROVE Spec => []PendenciaEhOQueSePaga
<1> QED
  BY BaixadasSempre, PendenciaEhOQueSePagaVale, PTL

=============================================================================
