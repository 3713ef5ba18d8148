---------------------------- MODULE Retorno_proofs ----------------------------
(***************************************************************************)
(* Proofs about the return handling for any payments, families, readers    *)
(* and bounds: types, the lock, that a payment is shown as paid only after *)
(* the bank credited it, and what the books say once every file is read.   *)
(***************************************************************************)
EXTENDS Retorno, TLAPS

USE DEF Criado, PreparadoParaEnvio, AguardandoPagamento, Efetivado,
        NaoEfetivado, PendenciaPaga, BD, Zero, Branco, Nulo, Espacos

-----------------------------------------------------------------------------
(* One row.                                                                *)

Row == [status : StatusRemessaEnum, motivo : Motivos]

\* A row that a return record changes is still a row.
LEMMA BaixaTipo ==
    ASSUME NEW h \in Row, NEW lote \in Ocorrencias, NEW det \in Ocorrencias,
           NEW temFilhas \in BOOLEAN
    PROVE  Baixa(h, lote, det, temFilhas) \in Row
  <1>1. Espacos \in Motivos /\ Ocorrencias \subseteq Motivos
    BY DEF Motivos
  <1>2. \A s \in StatusRemessaEnum, m \in Motivos : Linha(s, m) \in Row
    BY DEF Linha, Row
  <1>3. StatusDePago(temFilhas) \in StatusRemessaEnum
    BY DEF StatusDePago, StatusRemessaEnum
  <1>4. SemTrim(lote) \in Motivos
    BY <1>1 DEF SemTrim
  <1>5. 2 \in StatusRemessaEnum /\ 4 \in StatusRemessaEnum
    BY DEF StatusRemessaEnum
  <1> QED
    BY <1>1, <1>2, <1>3, <1>4, <1>5 DEF Baixa

\* What a parent does to a child's row leaves a row.
LEMMA PropagadoTipo ==
    ASSUME NEW pai \in Row, NEW filha \in Row
    PROVE  Propagado(pai, filha) \in Row
  BY DEF Propagado, Row, Linha, StatusRemessaEnum

\* Only a credit, "00", shows a row as paid that was not.
LEMMA BaixaPaga ==
    ASSUME NEW h, NEW lote, NEW det, NEW temFilhas,
           Pago(Baixa(h, lote, det, temFilhas)), ~Pago(h)
    PROVE  det = Zero
  BY DEF Baixa, Pago, Linha, Reabre, OcorrenciaOk, PrimeiraVolta,
         ErroNoHeaderLote, SemTrim

\* A row that a record may still find is not paid.
LEMMA CasaNaoPago == ASSUME NEW h, Casa(h) PROVE ~Pago(h)
  BY DEF Casa, Pago

-----------------------------------------------------------------------------
(* Types.                                                                  *)

\* The first state has its types.
LEMMA TipoInicial == Init => TypeOK
  <1> SUFFICES ASSUME Init PROVE TypeOK
    OBVIOUS
  <1>1. Recusa \in Motivos /\ Nulo \in Motivos
    BY DEF Motivos, Ocorrencias
  <1>2. TabelasOK
    BY <1>1 DEF Init, TabelasOK, NovaLinha, Linha, StatusRemessaEnum, Fases
  <1>3. ArquivosOK
    BY DEF Init, ArquivosOK, Pastas
  <1>4. LeitoresOK
    <2>1. \A l \in Leitores : pc[l] = "fora"
      BY DEF Init
    <2>2. \A l \in Leitores : pc[l] \notin Processando \cup {"salvar"}
      BY <2>1 DEF Processando
    <2>3. pc \in [Leitores -> Passos]
      BY DEF Init, Passos
    <2>4. arquivo \in [Leitores -> 0..Len(arquivos)]
      BY DEF Init
    <2> QED
      BY <2>1, <2>2, <2>3, <2>4 DEF Init, LeitoresOK
  <1>5. LimitesOK
    BY LimitesAssumption DEF Init, LimitesOK
  <1> QED
    BY <1>2, <1>3, <1>4, <1>5 DEF TypeOK

\* The files written so far stay as they are when the bank adds one.
LEMMA ArquivosCrescem ==
    ASSUME ArquivosOK, NEW f \in [lote : Ocorrencias, dets : Registros],
           arquivos' = Append(arquivos, f)
    PROVE  /\ Len(arquivos) \in Nat
           /\ Len(arquivos') = Len(arquivos) + 1
           /\ arquivos' \in Seq([lote : Ocorrencias, dets : Registros])
           /\ \A i \in 1..Len(arquivos) : arquivos'[i] = arquivos[i]
           /\ arquivos'[Len(arquivos) + 1] = f
  BY DEF ArquivosOK

\* The bank writes a file.
LEMMA TipoEscrever ==
    ASSUME TypeOK, NEW lote \in Ocorrencias, NEW dets \in Registros, NEW fases,
           \A p \in DOMAIN dets : fases[p] \in Fases,
           Escrever(lote, dets, fases)
    PROVE  TypeOK'
  <1> DEFINE f == [lote |-> lote, dets |-> dets]
  <1>1. f \in [lote : Ocorrencias, dets : Registros]
    OBVIOUS
  <1>2. /\ Len(arquivos) \in Nat
        /\ Len(arquivos') = Len(arquivos) + 1
        /\ arquivos' \in Seq([lote : Ocorrencias, dets : Registros])
        /\ \A i \in 1..Len(arquivos) : arquivos'[i] = arquivos[i]
    BY <1>1, ArquivosCrescem DEF Escrever, TypeOK
  <1>3. TabelasOK'
    BY DEF TypeOK, TabelasOK, Escrever
  <1>4. ArquivosOK'
    <2>1. retorno' = retorno \cup {Len(arquivos) + 1} /\ backup' = backup
      BY DEF Escrever
    <2>2. retorno \in SUBSET (1..Len(arquivos)) /\ backup \in [Pastas -> SUBSET (1..Len(arquivos))]
      BY DEF TypeOK, ArquivosOK
    <2>3. /\ 1..Len(arquivos) \subseteq 1..Len(arquivos')
          /\ Len(arquivos) + 1 \in 1..Len(arquivos')
      <3> DEFINE n == Len(arquivos)
      <3>1. n \in Nat /\ Len(arquivos') = n + 1
        BY <1>2
      <3> HIDE DEF n
      <3>2. 1..n \subseteq 1..(n + 1) /\ n + 1 \in 1..(n + 1)
        BY <3>1
      <3> QED
        BY <3>1, <3>2 DEF n
    <2>4. retorno' \in SUBSET (1..Len(arquivos'))
      BY <2>1, <2>2, <2>3
    <2>5. backup' \in [Pastas -> SUBSET (1..Len(arquivos'))]
      BY <2>1, <2>2, <2>3
    <2> QED
      BY <1>2, <2>4, <2>5 DEF ArquivosOK
  <1>5. LeitoresOK'
    <2>1. UNCHANGED <<emProcessamento, pc, arquivo, faltam, atual>>
      BY DEF Escrever, leitor_vars
    <2>2. arquivo' \in [Leitores -> 0..Len(arquivos')]
      BY <1>2, <2>1 DEF TypeOK, LeitoresOK
    <2>3. ASSUME NEW l \in Leitores, pc[l] \in Processando
          PROVE  faltam[l] \subseteq DOMAIN arquivos'[arquivo[l]].dets
      <3>1. arquivo[l] \in 1..Len(arquivos)
        BY <1>2, <2>3 DEF TypeOK, LeitoresOK
      <3> QED
        BY <3>1, <1>2, <2>3 DEF TypeOK, LeitoresOK
    <2> QED
      BY <2>1, <2>2, <2>3 DEF TypeOK, LeitoresOK
  <1>6. LimitesOK'
    BY DEF TypeOK, LimitesOK, Escrever, limite_vars
  <1> QED
    BY <1>3, <1>4, <1>5, <1>6 DEF TypeOK

\* What a file says of the payments in S.
LEMMA RegistroTipo ==
    ASSUME NEW S \in SUBSET Pagamentos, NEW dets \in [S -> Ocorrencias]
    PROVE  dets \in Registros
  BY DEF Registros

\* What a file may say of a payment, and what the bank did with it.
Diz(lote, det, antes, fase) ==
    \/ lote = BD   /\ antes = "enviado"  /\ det \in CodigosInclusao /\ fase = "incluido"
    \/ lote = BD   /\ antes = "enviado"  /\ det = Recusa /\ fase = "recusado"
    \/ lote = Zero /\ antes = "incluido" /\ det = Zero   /\ fase = "creditado"
    \/ lote = Zero /\ antes = "incluido" /\ det = Recusa /\ fase = "recusado"
    \/ lote \in ErrosDeLote /\ antes \in {"enviado", "incluido"} /\ fase = "recusado"
    \/ lote = Branco /\ antes = "enviado" /\ det = Branco /\ fase = "devolvido"

\* A file of the bank: whom it names, and what it says of them.
Escrito(lote, dets, fases) ==
    /\ Escrever(lote, dets, fases)
    /\ lote \in {BD, Zero, Branco} \cup ErrosDeLote
    /\ DOMAIN dets \subseteq Pagamentos
    /\ \A p \in DOMAIN dets : Diz(lote, dets[p], banco[p], fases[p])
    /\ \A p \in DOMAIN dets :
          /\ banco[p] \in {"enviado", "incluido"}
          /\ fases[p] \in Fases
          /\ (SoPorBD /\ dets[p] = Zero) => fases[p] = "creditado"

\* Every action of the environment but Reenviar writes one.
LEMMA AmbienteEscreve ==
    ASSUME Ambiente, ~Reenviar
    PROVE  \E lote \in Ocorrencias, dets \in Registros : \E fases : Escrito(lote, dets, fases)
  <1>0. /\ {BD, Zero, Branco, Recusa} \subseteq Ocorrencias
        /\ CodigosInclusao \subseteq Ocorrencias /\ ErrosDeLote \subseteq Ocorrencias
        /\ \A fase : NaFase(fase) \in SUBSET Pagamentos
    BY DEF Ocorrencias, NaFase
  <1>1. CASE PrimeiroRetorno
    <2> DEFINE S == NaFase("enviado")
               fases(dets) == [p \in S |-> IF dets[p] = Recusa THEN "recusado" ELSE "incluido"]
    <2>1. PICK dets \in [S -> CodigosInclusao \cup {Recusa}] : Escrever(BD, dets, fases(dets))
      BY <1>1 DEF PrimeiroRetorno
    <2>2. dets \in [S -> Ocorrencias]
      BY <1>0
    <2>3. \A p \in S : SoPorBD => dets[p] # Zero
      BY OcorrenciasAssumption DEF SoPorBD, OcorrenciaOk
    <2>4. \A p \in S : banco[p] \in {"enviado", "incluido"} /\ fases(dets)[p] \in Fases
      BY DEF NaFase, Fases
    <2>5. \A p \in S : Diz(BD, dets[p], banco[p], fases(dets)[p])
      BY DEF NaFase, Diz
    <2>6. Escrito(BD, dets, fases(dets))
      BY <1>0, <2>1, <2>3, <2>4, <2>5 DEF Escrito
    <2> QED
      BY <1>0, <2>2, <2>6, RegistroTipo
  <1>2. CASE SegundoRetorno
    <2> DEFINE fases(S, dets) == [p \in S |-> IF dets[p] = Zero THEN "creditado" ELSE "recusado"]
    <2>0. PICK S \in SUBSET NaFase("incluido") :
             \E dets \in [S -> {Zero, Recusa}] : Escrever(Zero, dets, fases(S, dets))
      BY <1>2 DEF SegundoRetorno
    <2>1. PICK dets \in [S -> {Zero, Recusa}] : Escrever(Zero, dets, fases(S, dets))
      BY <2>0
    <2>2. dets \in [S -> Ocorrencias] /\ S \in SUBSET Pagamentos
      BY <1>0
    <2>3. \A p \in S : dets[p] = Zero => fases(S, dets)[p] = "creditado"
      OBVIOUS
    <2>4. \A p \in S : banco[p] \in {"enviado", "incluido"} /\ fases(S, dets)[p] \in Fases
      BY DEF NaFase, Fases
    <2>5. \A p \in S : Diz(Zero, dets[p], banco[p], fases(S, dets)[p])
      BY DEF NaFase, Diz
    <2>6. Escrito(Zero, dets, fases(S, dets))
      BY <2>1, <2>2, <2>3, <2>4, <2>5 DEF Escrito
    <2> QED
      BY <1>0, <2>2, <2>6, RegistroTipo
  <1>3. CASE LoteRecusado
    <2> DEFINE dets(S) == [p \in S |-> Recusa]
               fases(S) == [p \in S |-> "recusado"]
    <2>1. PICK S \in {NaFase("enviado"), NaFase("incluido")}, erro \in ErrosDeLote :
             Escrever(erro, dets(S), fases(S))
      BY <1>3 DEF LoteRecusado
    <2>2. S \in SUBSET Pagamentos /\ erro \in Ocorrencias /\ dets(S) \in [S -> Ocorrencias]
      BY <1>0
    <2>3. \A p \in S : dets(S)[p] # Zero
      BY OcorrenciasAssumption DEF OcorrenciaOk
    <2>4. \A p \in S : banco[p] \in {"enviado", "incluido"} /\ fases(S)[p] \in Fases
      BY DEF NaFase, Fases
    <2>5. \A p \in S : Diz(erro, dets(S)[p], banco[p], fases(S)[p])
      BY DEF NaFase, Diz
    <2>6. Escrito(erro, dets(S), fases(S))
      BY <2>1, <2>2, <2>3, <2>4, <2>5 DEF Escrito
    <2> QED
      BY <2>2, <2>6, RegistroTipo
  <1>4. CASE ArquivoDevolvido
    <2> DEFINE S == NaFase("enviado")
               dets == [p \in S |-> Branco]
               fases == [p \in S |-> "devolvido"]
    <2>1. Escrever(Branco, dets, fases)
      BY <1>4 DEF ArquivoDevolvido
    <2>2. dets \in [S -> Ocorrencias] /\ \A p \in S : dets[p] # Zero
      BY <1>0
    <2>3. \A p \in S : banco[p] \in {"enviado", "incluido"} /\ fases[p] \in Fases
      BY DEF NaFase, Fases
    <2>4. \A p \in S : Diz(Branco, dets[p], banco[p], fases[p])
      BY DEF NaFase, Diz
    <2>5. Escrito(Branco, dets, fases)
      BY <1>0, <2>1, <2>2, <2>3, <2>4 DEF Escrito
    <2> QED
      BY <1>0, <2>2, <2>5, RegistroTipo
  <1> QED
    BY <1>1, <1>2, <1>3, <1>4 DEF Ambiente

\* The environment keeps the types.
LEMMA TipoAmbiente == ASSUME TypeOK, Ambiente PROVE TypeOK'
  <1>1. CASE Reenviar
    <2>1. TabelasOK'
      BY <1>1 DEF Reenviar, TypeOK, TabelasOK, db_vars, Fases
    <2> QED
      BY <1>1, <2>1 DEF Reenviar, TypeOK, ArquivosOK, LeitoresOK, LimitesOK,
                        db_vars, leitor_vars, limite_vars
  <1>2. CASE ~Reenviar
    BY <1>2, AmbienteEscreve, TipoEscrever DEF Escrito
  <1> QED
    BY <1>1, <1>2

\* A step of one reader, seen by what it leaves in that reader's variables.
LEMMA LeitorTipo ==
    ASSUME LeitoresOK, NEW l \in Leitores,
           NEW passo \in Passos, NEW a \in 0..Len(arquivos),
           NEW f \in SUBSET Pagamentos, NEW q \in Pagamentos \cup {Ninguem},
           passo \in Processando \cup {"salvar"} => a # 0,
           passo \in Processando => f \subseteq DOMAIN arquivos[a].dets,
           passo \in {"acrescimo", "propagar"} => q \in Pagamentos,
           emProcessamento' \in BOOLEAN, arquivos' = arquivos,
           pc' = [pc EXCEPT ![l] = passo], arquivo' = [arquivo EXCEPT ![l] = a],
           faltam' = [faltam EXCEPT ![l] = f], atual' = [atual EXCEPT ![l] = q]
    PROVE  LeitoresOK'
  <1>1. /\ pc' \in [Leitores -> Passos]
        /\ arquivo' \in [Leitores -> 0..Len(arquivos')]
        /\ faltam' \in [Leitores -> SUBSET Pagamentos]
        /\ atual' \in [Leitores -> Pagamentos \cup {Ninguem}]
    BY DEF LeitoresOK
  <1>2. /\ pc'[l] = passo /\ arquivo'[l] = a /\ faltam'[l] = f /\ atual'[l] = q
        /\ \A m \in Leitores \ {l} :
              /\ pc'[m] = pc[m] /\ arquivo'[m] = arquivo[m]
              /\ faltam'[m] = faltam[m] /\ atual'[m] = atual[m]
    BY DEF LeitoresOK
  <1>3. \A m \in Leitores : pc'[m] \in Processando \cup {"salvar"} => arquivo'[m] # 0
    BY <1>2 DEF LeitoresOK
  <1>4. \A m \in Leitores :
           pc'[m] \in Processando => faltam'[m] \subseteq DOMAIN arquivos'[arquivo'[m]].dets
    BY <1>2 DEF LeitoresOK
  <1>5. \A m \in Leitores : pc'[m] \in {"acrescimo", "propagar"} => atual'[m] \in Pagamentos
    BY <1>2 DEF LeitoresOK
  <1> QED
    BY <1>1, <1>3, <1>4, <1>5 DEF LeitoresOK

\* A reader that holds no record in hand meets its part of the type for free.
LEMMA SemMudanca ==
    ASSUME LeitoresOK, NEW l \in Leitores
    PROVE  /\ arquivo = [arquivo EXCEPT ![l] = arquivo[l]]
           /\ faltam = [faltam EXCEPT ![l] = faltam[l]]
           /\ atual = [atual EXCEPT ![l] = atual[l]]
           /\ arquivo[l] \in 0..Len(arquivos)
           /\ faltam[l] \in SUBSET Pagamentos
           /\ atual[l] \in Pagamentos \cup {Ninguem}
           /\ pc[l] \in Processando \cup {"salvar"} => arquivo[l] # 0
           /\ pc[l] \in Processando => faltam[l] \subseteq DOMAIN arquivos[arquivo[l]].dets
           /\ pc[l] \in {"acrescimo", "propagar"} => atual[l] \in Pagamentos
  BY DEF LeitoresOK

\* The places of a reader that the actions name are places of Passos.
LEMMA PassosSao ==
    /\ Processando \subseteq Passos
    /\ {"fora", "ler", "listar", "salvar"} \subseteq Passos
    /\ {"registro", "acrescimo", "propagar", "moverFalha"} \subseteq Processando
    /\ Processando \cap {"fora", "ler", "listar", "salvar"} = {}
  BY DEF Passos, Processando

\* A step of one reader that moves its program counter only.
LEMMA SoPasso ==
    ASSUME LeitoresOK, NEW l \in Leitores, NEW passo \in Passos,
           passo \in Processando \cup {"salvar"} => arquivo[l] # 0,
           passo \in Processando => faltam[l] \subseteq DOMAIN arquivos[arquivo[l]].dets,
           passo \in {"acrescimo", "propagar"} => atual[l] \in Pagamentos,
           emProcessamento' \in BOOLEAN, arquivos' = arquivos,
           pc' = [pc EXCEPT ![l] = passo], UNCHANGED <<arquivo, faltam, atual>>
    PROVE  LeitoresOK'
  <1> DEFINE a == arquivo[l]
             f == faltam[l]
             q == atual[l]
  <1>1. /\ a \in 0..Len(arquivos) /\ f \in SUBSET Pagamentos
        /\ q \in Pagamentos \cup {Ninguem}
    BY SemMudanca
  <1>2. /\ arquivo' = [arquivo EXCEPT ![l] = a] /\ faltam' = [faltam EXCEPT ![l] = f]
        /\ atual' = [atual EXCEPT ![l] = q]
    BY SemMudanca
  <1>3. /\ passo \in Processando \cup {"salvar"} => a # 0
        /\ passo \in Processando => f \subseteq DOMAIN arquivos[a].dets
        /\ passo \in {"acrescimo", "propagar"} => q \in Pagamentos
    OBVIOUS
  <1> HIDE DEF a, f, q
  <1> QED
    BY <1>1, <1>2, <1>3, LeitorTipo

\* A reader lets its file go.
LEMMA SoltarTipo ==
    ASSUME LeitoresOK, ArquivosOK, NEW l \in Leitores, NEW passo \in {"fora", "ler"},
           Soltar(l, passo), emProcessamento' \in BOOLEAN, arquivos' = arquivos
    PROVE  LeitoresOK'
  <1>1. passo \in Passos /\ passo \notin Processando \cup {"salvar"}
    BY PassosSao
  <1>2. 0 \in 0..Len(arquivos)
    BY DEF ArquivosOK
  <1>3. passo \notin {"acrescimo", "propagar"}
    OBVIOUS
  <1> QED
    BY <1>1, <1>2, <1>3, LeitorTipo DEF Soltar, Ir

\* The steps that only read: the tick, the lock, the listing.
LEMMA TipoLer ==
    ASSUME TypeOK, NEW l \in Leitores,
           Tick(l) \/ LerRetornoSftp(l) \/ GetFirstRetornoPagamento(l)
    PROVE  TypeOK'
  <1> USE DEF Ir
  <1>1. UNCHANGED <<db_vars, banco_vars, retorno, backup, emProcessamento, limite_vars>>
    BY DEF Tick, LerRetornoSftp, GetFirstRetornoPagamento
  <1>2. TabelasOK' /\ ArquivosOK' /\ LimitesOK'
    BY <1>1 DEF TypeOK, TabelasOK, ArquivosOK, LimitesOK, db_vars, banco_vars, limite_vars
  <1>3. emProcessamento' \in BOOLEAN /\ arquivos' = arquivos
    BY <1>1 DEF TypeOK, LeitoresOK, banco_vars
  <1>4. LeitoresOK /\ ArquivosOK
    BY DEF TypeOK
  <1>5. CASE Tick(l) \/ LerRetornoSftp(l)
    <2>1. PICK passo \in {"fora", "ler", "listar"} : pc' = [pc EXCEPT ![l] = passo]
      BY <1>5 DEF Tick, LerRetornoSftp
    <2>2. UNCHANGED <<arquivo, faltam, atual>>
      BY <1>5 DEF Tick, LerRetornoSftp
    <2>3. /\ passo \in Passos /\ passo \notin Processando \cup {"salvar"}
          /\ passo \notin {"acrescimo", "propagar"}
      BY PassosSao
    <2>4. LeitoresOK'
      BY <1>3, <1>4, <2>1, <2>2, <2>3, SoPasso
    <2> QED
      BY <1>2, <2>4 DEF TypeOK
  <1>6. CASE GetFirstRetornoPagamento(l)
    <2>1. UNCHANGED <<faltam, atual>>
      BY <1>6 DEF GetFirstRetornoPagamento
    <2>2. ASSUME Ir(l, "fora"), UNCHANGED arquivo
          PROVE  LeitoresOK'
      <3>1. /\ "fora" \in Passos /\ "fora" \notin Processando \cup {"salvar"}
            /\ "fora" \notin {"acrescimo", "propagar"}
        BY PassosSao
      <3>2. UNCHANGED <<arquivo, faltam, atual>> /\ pc' = [pc EXCEPT ![l] = "fora"]
        BY <2>1, <2>2
      <3> QED
        BY <1>3, <1>4, <3>1, <3>2, SoPasso
    <2>3. ASSUME NEW f \in retorno, arquivo' = [arquivo EXCEPT ![l] = f], Ir(l, "salvar")
          PROVE  LeitoresOK'
      <3>2. f \in 0..Len(arquivos) /\ f # 0
        BY <1>4 DEF ArquivosOK
      <3>3. /\ "salvar" \in Passos /\ "salvar" \notin Processando
            /\ "salvar" \notin {"acrescimo", "propagar"}
        BY PassosSao
      <3>4. /\ faltam' = [faltam EXCEPT ![l] = faltam[l]] /\ faltam[l] \in SUBSET Pagamentos
            /\ atual' = [atual EXCEPT ![l] = atual[l]]
            /\ atual[l] \in Pagamentos \cup {Ninguem}
        BY <1>4, <2>1, SemMudanca
      <3> QED
        BY <1>3, <1>4, <2>3, <3>2, <3>3, <3>4, LeitorTipo
    <2>4. LeitoresOK'
      BY <1>6, <2>2, <2>3 DEF GetFirstRetornoPagamento
    <2> QED
      BY <1>2, <2>4 DEF TypeOK
  <1> QED
    BY <1>5, <1>6

\* A file names payments of the remessa, each with an occurrence.
LEMMA ArquivoTipo ==
    ASSUME ArquivosOK, NEW i \in 1..Len(arquivos)
    PROVE  /\ arquivos[i].lote \in Ocorrencias
           /\ DOMAIN arquivos[i].dets \in SUBSET Pagamentos
           /\ \A p \in DOMAIN arquivos[i].dets : arquivos[i].dets[p] \in Ocorrencias
  <1> DEFINE Arq == [lote : Ocorrencias, dets : Registros]
  <1>1. arquivos \in Seq(Arq) /\ i \in 1..Len(arquivos)
    BY DEF ArquivosOK
  <1> HIDE DEF Arq
  <1>2. arquivos[i] \in Arq
    BY <1>1
  <1>3. arquivos[i].lote \in Ocorrencias /\ arquivos[i].dets \in Registros
    BY <1>2 DEF Arq
  <1>4. PICK S \in SUBSET Pagamentos : arquivos[i].dets \in [S -> Ocorrencias]
    BY <1>3 DEF Registros
  <1> QED
    BY <1>3, <1>4

\* Taking the lock and the records of the file.
LEMMA TipoSalvar == ASSUME TypeOK, NEW l \in Leitores, SalvarRetorno(l) PROVE TypeOK'
  <1>1. UNCHANGED <<db_vars, banco_vars, retorno, backup, limite_vars>>
    BY DEF SalvarRetorno
  <1>2. TabelasOK' /\ ArquivosOK' /\ LimitesOK'
    BY <1>1 DEF TypeOK, TabelasOK, ArquivosOK, LimitesOK, db_vars, banco_vars, limite_vars
  <1>3. arquivos' = arquivos
    BY <1>1 DEF banco_vars
  <1>4. LeitoresOK /\ ArquivosOK
    BY DEF TypeOK
  <1>5. ASSUME Soltar(l, "ler"), UNCHANGED emProcessamento
        PROVE  LeitoresOK'
    <2>1. emProcessamento' \in BOOLEAN
      BY <1>4, <1>5 DEF LeitoresOK
    <2> QED
      BY <1>3, <1>4, <1>5, <2>1, SoltarTipo
  <1>6. ASSUME emProcessamento' = TRUE, UNCHANGED <<arquivo, atual>>,
               faltam' = [faltam EXCEPT ![l] = DOMAIN arquivos[arquivo[l]].dets],
               Ir(l, "registro")
        PROVE  LeitoresOK'
    <2>1. pc[l] = "salvar"
      BY DEF SalvarRetorno
    <2>2. arquivo[l] \in 1..Len(arquivos)
      BY <1>4, <2>1 DEF LeitoresOK, ArquivosOK
    <2>3. DOMAIN arquivos[arquivo[l]].dets \in SUBSET Pagamentos
      BY <1>4, <2>2, ArquivoTipo
    <2>4. /\ arquivo' = [arquivo EXCEPT ![l] = arquivo[l]] /\ arquivo[l] \in 0..Len(arquivos)
          /\ atual' = [atual EXCEPT ![l] = atual[l]]
          /\ atual[l] \in Pagamentos \cup {Ninguem}
      BY <1>4, <1>6, SemMudanca
    <2>5. /\ "registro" \in Passos /\ "registro" \notin {"acrescimo", "propagar"}
          /\ arquivo[l] # 0
      BY PassosSao, <2>2
    <2> DEFINE f == DOMAIN arquivos[arquivo[l]].dets
               a == arquivo[l]
               q == atual[l]
    <2>6. /\ a \in 0..Len(arquivos) /\ a # 0 /\ f \in SUBSET Pagamentos
          /\ f \subseteq DOMAIN arquivos[a].dets /\ q \in Pagamentos \cup {Ninguem}
      BY <2>3, <2>4, <2>5
    <2>7. /\ pc' = [pc EXCEPT ![l] = "registro"] /\ arquivo' = [arquivo EXCEPT ![l] = a]
          /\ faltam' = [faltam EXCEPT ![l] = f] /\ atual' = [atual EXCEPT ![l] = q]
          /\ emProcessamento' \in BOOLEAN
      BY <1>6, <2>4 DEF Ir
    <2> HIDE DEF f, a, q
    <2> QED
      BY <1>3, <1>4, <2>5, <2>6, <2>7, LeitorTipo
  <1>7. LeitoresOK'
    BY <1>5, <1>6 DEF SalvarRetorno
  <1> QED
    BY <1>2, <1>7 DEF TypeOK

\* The file is moved and the lock given back.
LEMMA TipoMover ==
    ASSUME TypeOK, NEW l \in Leitores, MoverSucesso(l) \/ MoverFalha(l)
    PROVE  TypeOK'
  <1>1. PICK pasta \in Pastas : MoverPara(l, pasta)
    BY DEF MoverSucesso, MoverFalha, Pastas
  <1>2. pc[l] \in Processando
    BY PassosSao DEF MoverSucesso, MoverFalha
  <1>3. LeitoresOK /\ ArquivosOK
    BY DEF TypeOK
  <1>4. arquivo[l] \in 1..Len(arquivos)
    BY <1>2, <1>3 DEF LeitoresOK, ArquivosOK
  <1>5. ArquivosOK'
    BY <1>1, <1>3, <1>4 DEF ArquivosOK, MoverPara, banco_vars
  <1>6. TabelasOK' /\ LimitesOK'
    BY <1>1 DEF MoverPara, TypeOK, TabelasOK, LimitesOK, db_vars, banco_vars, limite_vars
  <1>7. LeitoresOK'
    BY <1>1, <1>3, SoltarTipo DEF MoverPara, banco_vars
  <1> QED
    BY <1>5, <1>6, <1>7 DEF TypeOK

\* An exception keeps the types.
LEMMA TipoFalhar == ASSUME TypeOK, NEW l \in Leitores, Falhar(l) PROVE TypeOK'
  <1>1. /\ UNCHANGED <<db_vars, banco_vars, retorno, backup, quedas>>
        /\ \/ falhas < MaxFalhas /\ falhas' = falhas + 1
           \/ falhas' = falhas
    BY DEF Falhar, Excecao, ExcecaoAoMover, ExcecaoAoLer, ExcecaoSftp, limite_vars
  <1>2. TabelasOK' /\ ArquivosOK' /\ LimitesOK'
    BY <1>1, LimitesAssumption DEF TypeOK, TabelasOK, ArquivosOK, LimitesOK, db_vars,
       banco_vars
  <1>3. LeitoresOK /\ ArquivosOK /\ arquivos' = arquivos
    BY <1>1 DEF TypeOK, banco_vars
  <1>4. ASSUME Excecao(l) PROVE LeitoresOK'
    <2>1. /\ UNCHANGED <<emProcessamento, arquivo, faltam, atual>>
          /\ pc[l] \in Processando /\ pc' = [pc EXCEPT ![l] = "moverFalha"]
      BY <1>4 DEF Excecao, Ir
    <2>2. /\ arquivo[l] # 0 /\ faltam[l] \subseteq DOMAIN arquivos[arquivo[l]].dets
          /\ emProcessamento' \in BOOLEAN
      BY <1>3, <2>1 DEF LeitoresOK
    <2>3. "moverFalha" \in Passos /\ "moverFalha" \notin {"acrescimo", "propagar"}
      BY PassosSao
    <2> QED
      BY <1>3, <2>1, <2>2, <2>3, SoPasso
  <1>5. ASSUME ExcecaoAoMover(l) PROVE LeitoresOK'
    BY <1>3, <1>5, SoltarTipo DEF ExcecaoAoMover
  <1>6. ASSUME ExcecaoSftp(l) PROVE LeitoresOK'
    <2>1. /\ UNCHANGED <<emProcessamento, arquivo, faltam, atual>>
          /\ pc' = [pc EXCEPT ![l] = "fora"]
      BY <1>6 DEF ExcecaoSftp, Ir
    <2>2. /\ "fora" \in Passos /\ "fora" \notin {"acrescimo", "propagar"}
          /\ "fora" \notin Processando \cup {"salvar"}
      BY PassosSao
    <2>3. emProcessamento' \in BOOLEAN
      BY <1>3, <2>1 DEF LeitoresOK
    <2> QED
      BY <1>3, <2>1, <2>2, <2>3, SoPasso
  <1>7. ASSUME ExcecaoAoLer(l) PROVE LeitoresOK'
    BY <1>3, <1>7, SoltarTipo DEF ExcecaoAoLer, LeitoresOK
  <1> QED
    BY <1>2, <1>4, <1>5, <1>6, <1>7 DEF Falhar, TypeOK

\* A restart keeps the types.
LEMMA TipoReiniciar == ASSUME TypeOK, Reiniciar PROVE TypeOK'
  <1>1. TabelasOK' /\ ArquivosOK' /\ LimitesOK'
    BY LimitesAssumption DEF Reiniciar, TypeOK, TabelasOK, ArquivosOK, LimitesOK,
       db_vars, banco_vars
  <1>2. "fora" \in Passos /\ "fora" \notin Processando \cup {"salvar", "acrescimo", "propagar"}
    BY PassosSao
  <1>3. 0 \in 0..Len(arquivos')
    BY <1>1 DEF ArquivosOK
  <1>4. LeitoresOK'
    BY <1>2, <1>3 DEF Reiniciar, LeitoresOK
  <1> QED
    BY <1>1, <1>4 DEF TypeOK

\* One record: the rows keep their types, and the next step is about a payment.
LEMMA TipoRegistro ==
    ASSUME TypeOK, NEW l \in Leitores, ProcessarRegistro(l) PROVE TypeOK'
  <1>1. UNCHANGED <<acrescimos, banco, arquivos, retorno, backup, emProcessamento,
                    arquivo, quedas, falhas>>
    BY DEF ProcessarRegistro, banco_vars, limite_vars
  <1>2. LeitoresOK /\ ArquivosOK /\ TabelasOK
    BY DEF TypeOK
  <1>3. pc[l] \in Processando /\ arquivo[l] \in 1..Len(arquivos)
    BY <1>2, PassosSao DEF ProcessarRegistro, LeitoresOK, ArquivosOK
  <1> DEFINE r == arquivos[arquivo[l]]
  <1>4. PICK p \in faltam[l] :
           /\ faltam' = [faltam EXCEPT ![l] = @ \ {p}]
           /\ \/ UNCHANGED <<historico, atual, pc>>
              \/ \E q \in GetDetalheARetorno(p) : AtualizarStatus(l, q, r.lote, r.dets[p])
    BY DEF ProcessarRegistro
  <1>5. r.lote \in Ocorrencias /\ r.dets[p] \in Ocorrencias
    BY <1>2, <1>3, <1>4, ArquivoTipo DEF LeitoresOK
  <1> DEFINE f == faltam[l] \ {p}
             a == arquivo[l]
  <1>6. /\ faltam' = [faltam EXCEPT ![l] = f] /\ f \in SUBSET Pagamentos
        /\ f \subseteq DOMAIN arquivos[a].dets /\ a \in 0..Len(arquivos) /\ a # 0
        /\ arquivo' = [arquivo EXCEPT ![l] = a] /\ emProcessamento' \in BOOLEAN
    BY <1>1, <1>2, <1>3, <1>4, SemMudanca DEF LeitoresOK
  <1> HIDE DEF f, a
  <1>7. ASSUME UNCHANGED <<historico, atual, pc>> PROVE TabelasOK' /\ LeitoresOK'
    <2> DEFINE passo == pc[l]
               q == atual[l]
    <2>1. /\ passo \in Passos /\ pc' = [pc EXCEPT ![l] = passo]
          /\ atual' = [atual EXCEPT ![l] = q] /\ q \in Pagamentos \cup {Ninguem}
          /\ passo \in {"acrescimo", "propagar"} => q \in Pagamentos
      BY <1>2, <1>7, SemMudanca DEF LeitoresOK
    <2>2. TabelasOK'
      BY <1>1, <1>2, <1>7 DEF TabelasOK
    <2> HIDE DEF passo, q
    <2> QED
      BY <1>1, <1>2, <1>6, <2>1, <2>2, LeitorTipo
  <1>8. ASSUME NEW q \in GetDetalheARetorno(p), AtualizarStatus(l, q, r.lote, r.dets[p])
        PROVE  TabelasOK' /\ LeitoresOK'
    <2> DEFINE muitos == GetHistorico(q) # {q}
               B(h) == Baixa(historico[h], r.lote, r.dets[p], muitos)
    <2>0. q \in Pagamentos
      BY DEF GetDetalheARetorno
    <2>1. \A h \in Linhas : B(h) \in [status : StatusRemessaEnum, motivo : Motivos]
      BY <1>2, <1>5, BaixaTipo DEF TabelasOK, Row
    <2>2. historico' = [h \in Linhas |-> IF h \in GetHistorico(q) THEN B(h) ELSE historico[h]]
      BY <1>8 DEF AtualizarStatus
    <2> HIDE DEF B, muitos
    <2>3. historico' \in [Linhas -> [status : StatusRemessaEnum, motivo : Motivos]]
      BY <1>2, <2>1, <2>2 DEF TabelasOK
    <2>4. TabelasOK'
      BY <1>1, <1>2, <2>3 DEF TabelasOK
    <2>5. CASE UNCHANGED <<pc, atual>>
      <3> DEFINE passo == pc[l]
                 t == atual[l]
      <3>1. /\ passo \in Passos /\ pc' = [pc EXCEPT ![l] = passo]
            /\ atual' = [atual EXCEPT ![l] = t] /\ t \in Pagamentos \cup {Ninguem}
            /\ passo \in {"acrescimo", "propagar"} => t \in Pagamentos
        BY <1>2, <2>5, SemMudanca DEF LeitoresOK
      <3> HIDE DEF passo, t
      <3> QED
        BY <1>1, <1>2, <1>6, <2>4, <3>1, LeitorTipo
    <2>6. CASE ~UNCHANGED <<pc, atual>>
      <3>1. PICK passo \in {"acrescimo", "propagar"} : pc' = [pc EXCEPT ![l] = passo]
        BY <1>8, <2>6 DEF AtualizarStatus, Ir
      <3>2. atual' = [atual EXCEPT ![l] = q] /\ q \in Pagamentos \cup {Ninguem}
        BY <1>8, <2>0, <2>6 DEF AtualizarStatus
      <3>3. passo \in Passos
        BY PassosSao
      <3> QED
        BY <1>1, <1>2, <1>6, <2>0, <2>4, <3>1, <3>2, <3>3, LeitorTipo
    <2> QED
      BY <2>5, <2>6
  <1>9. TabelasOK' /\ LeitoresOK'
    BY <1>4, <1>7, <1>8
  <1> QED
    BY <1>1, <1>9 DEF TypeOK, ArquivosOK, LimitesOK

\* The 5% and the children.
LEMMA TipoDepois ==
    ASSUME TypeOK, NEW l \in Leitores,
           AplicarAcrescimoIntersul(l) \/ PropagarPagamentoPaiParaFilhas(l)
    PROVE  TypeOK'
  <1>1. UNCHANGED <<banco, arquivos, retorno, backup, emProcessamento, arquivo, faltam,
                    quedas, falhas>>
    BY DEF AplicarAcrescimoIntersul, PropagarPagamentoPaiParaFilhas, banco_vars, limite_vars
  <1>2. LeitoresOK /\ ArquivosOK /\ TabelasOK /\ emProcessamento' \in BOOLEAN
    BY <1>1 DEF TypeOK, LeitoresOK
  <1>3. pc[l] \in Processando /\ pc[l] \in {"acrescimo", "propagar"}
    BY PassosSao DEF AplicarAcrescimoIntersul, PropagarPagamentoPaiParaFilhas
  <1>4. /\ arquivo[l] # 0 /\ faltam[l] \subseteq DOMAIN arquivos[arquivo[l]].dets
        /\ atual[l] \in Pagamentos
    BY <1>2, <1>3 DEF LeitoresOK
  <1>5. ASSUME AplicarAcrescimoIntersul(l) PROVE TabelasOK' /\ LeitoresOK'
    <2>1. TabelasOK'
      BY <1>1, <1>2, <1>4, <1>5 DEF TabelasOK, AplicarAcrescimoIntersul
    <2>2. pc' = [pc EXCEPT ![l] = "propagar"] /\ atual' = atual /\ "propagar" \in Passos
      BY <1>5, PassosSao DEF AplicarAcrescimoIntersul, Ir
    <2> QED
      BY <1>1, <1>2, <1>4, <2>1, <2>2, SoPasso
  <1>6. ASSUME PropagarPagamentoPaiParaFilhas(l) PROVE TabelasOK' /\ LeitoresOK'
    <2> DEFINE N(h) == Propagado(historico[atual[l]], historico[h])
    <2>0. FilhasDe[atual[l]] \subseteq Linhas /\ atual[l] \in Linhas
      BY <1>4, FamiliasAssumption DEF Linhas
    <2>1. \A h \in Linhas : N(h) \in [status : StatusRemessaEnum, motivo : Motivos]
      BY <1>2, <2>0, PropagadoTipo DEF TabelasOK, Row
    <2>2. historico' = [h \in Linhas |-> IF h \in FilhasDe[atual[l]] THEN N(h)
                                         ELSE historico[h]]
      BY <1>6 DEF PropagarPagamentoPaiParaFilhas
    <2> HIDE DEF N
    <2>3. historico' \in [Linhas -> [status : StatusRemessaEnum, motivo : Motivos]]
      BY <1>2, <2>1, <2>2 DEF TabelasOK
    <2>4. TabelasOK'
      BY <1>1, <1>2, <1>6, <2>3 DEF TabelasOK, PropagarPagamentoPaiParaFilhas
    <2> DEFINE a == arquivo[l]
               f == faltam[l]
    <2>5. /\ arquivo' = [arquivo EXCEPT ![l] = a] /\ a \in 0..Len(arquivos)
          /\ faltam' = [faltam EXCEPT ![l] = f] /\ f \in SUBSET Pagamentos
          /\ a # 0 /\ f \subseteq DOMAIN arquivos[a].dets
      BY <1>1, <1>2, <1>4, SemMudanca
    <2>6. /\ pc' = [pc EXCEPT ![l] = "registro"] /\ atual' = [atual EXCEPT ![l] = Ninguem]
          /\ "registro" \in Passos /\ "registro" \notin {"acrescimo", "propagar"}
      BY <1>6, PassosSao DEF PropagarPagamentoPaiParaFilhas, Ir
    <2> HIDE DEF a, f
    <2> QED
      BY <1>1, <1>2, <2>4, <2>5, <2>6, LeitorTipo
  <1> QED
    BY <1>1, <1>5, <1>6 DEF TypeOK, ArquivosOK, LimitesOK

\* Every variable keeps its type (TypeOK), whatever the payments, the readers
\* and the bounds.
THEOREM Tipos == Spec => []TypeOK
  <1>1. TypeOK /\ [Next]_vars => TypeOK'
    <2> SUFFICES ASSUME TypeOK, [Next]_vars PROVE TypeOK'
      OBVIOUS
    <2>1. CASE Ambiente
      BY <2>1, TipoAmbiente
    <2>2. ASSUME NEW l \in Leitores, Avancar(l) PROVE TypeOK'
      BY <2>2, TipoLer, TipoSalvar, TipoRegistro, TipoDepois, TipoMover DEF Avancar
    <2>3. ASSUME NEW l \in Leitores, Falhar(l) PROVE TypeOK'
      BY <2>3, TipoFalhar
    <2>4. CASE Reiniciar
      BY <2>4, TipoReiniciar
    <2>5. CASE UNCHANGED vars
      BY <2>5 DEF vars, TypeOK, TabelasOK, ArquivosOK, LeitoresOK, LimitesOK
    <2> QED
      BY <2>1, <2>2, <2>3, <2>4, <2>5 DEF Next
  <1> QED
    BY <1>1, TipoInicial, PTL DEF Spec

-----------------------------------------------------------------------------
(* The lock.                                                               *)

\* Only one reader's place changes, except at a restart.
LEMMA OutrosParados ==
    ASSUME TypeOK, NEW l \in Leitores, Avancar(l) \/ Falhar(l)
    PROVE  \A m \in Leitores \ {l} : pc'[m] = pc[m]
  <1>1. pc' = pc \/ \E passo : pc' = [pc EXCEPT ![l] = passo]
    BY DEF Avancar, Falhar, Tick, LerRetornoSftp, GetFirstRetornoPagamento, SalvarRetorno,
       ProcessarRegistro, AtualizarStatus, AplicarAcrescimoIntersul,
       PropagarPagamentoPaiParaFilhas, MoverSucesso, MoverFalha, MoverPara, Excecao,
       ExcecaoAoMover, ExcecaoAoLer, ExcecaoSftp, Soltar, Ir
  <1> QED
    BY <1>1 DEF TypeOK, LeitoresOK

\* Where the reader that moves ends up, and what becomes of the lock: it is
\* kept by a step inside the file, taken by salvarRetorno from nobody and given
\* back with the file.
LEMMA TravaPasso ==
    ASSUME TypeOK, NEW l \in Leitores, Avancar(l) \/ Falhar(l)
    PROVE  \/ UNCHANGED emProcessamento /\ (Processa(l)' <=> Processa(l))
           \/ ~emProcessamento /\ emProcessamento' /\ ~Processa(l) /\ Processa(l)'
           \/ Processa(l) /\ ~emProcessamento' /\ ~Processa(l)'
  <1> USE PassosSao DEF Processa, Ir, Soltar, TypeOK, LeitoresOK
  <1>1. CASE Tick(l) \/ LerRetornoSftp(l) \/ GetFirstRetornoPagamento(l)
    BY <1>1 DEF Tick, LerRetornoSftp, GetFirstRetornoPagamento
  <1>2. CASE SalvarRetorno(l)
    BY <1>2 DEF SalvarRetorno
  <1>3. CASE ProcessarRegistro(l)
    BY <1>3 DEF ProcessarRegistro, AtualizarStatus
  <1>4. CASE AplicarAcrescimoIntersul(l) \/ PropagarPagamentoPaiParaFilhas(l)
    BY <1>4 DEF AplicarAcrescimoIntersul, PropagarPagamentoPaiParaFilhas
  <1>5. CASE MoverSucesso(l) \/ MoverFalha(l)
    BY <1>5 DEF MoverSucesso, MoverFalha, MoverPara
  <1>6. CASE Falhar(l)
    BY <1>6 DEF Falhar, Excecao, ExcecaoAoMover, ExcecaoAoLer, ExcecaoSftp
  <1> QED
    BY <1>1, <1>2, <1>3, <1>4, <1>5, <1>6 DEF Avancar

\* emProcessamento is taken exactly while one reader applies a file: two
\* overlapping runs of the cron never apply files at the same time, and no
\* exception or restart leaves the lock taken (TravaCorreta).
THEOREM Trava == Spec => []TravaCorreta
  <1>1. Init => TravaCorreta
    BY PassosSao DEF Init, TravaCorreta, Processa
  <1>2. TypeOK /\ TravaCorreta /\ [Next]_vars => TravaCorreta'
    <2> SUFFICES ASSUME TypeOK, TravaCorreta, [Next]_vars PROVE TravaCorreta'
      OBVIOUS
    <2>1. ASSUME UNCHANGED <<emProcessamento, pc>> PROVE TravaCorreta'
      BY <2>1 DEF TravaCorreta, Processa
    <2>2. CASE Ambiente
      BY <2>1, <2>2 DEF Ambiente, PrimeiroRetorno, SegundoRetorno, LoteRecusado,
         ArquivoDevolvido, Reenviar, Escrever, leitor_vars
    <2>3. ASSUME NEW l \in Leitores, Avancar(l) \/ Falhar(l) PROVE TravaCorreta'
      <3>1. \A m \in Leitores \ {l} : Processa(m)' <=> Processa(m)
        BY <2>3, OutrosParados DEF Processa
      <3> QED
        BY <2>3, <3>1, TravaPasso DEF TravaCorreta
    <2>4. CASE Reiniciar
      BY <2>4, PassosSao DEF Reiniciar, TravaCorreta, Processa
    <2>5. CASE UNCHANGED vars
      BY <2>1, <2>5 DEF vars
    <2> QED
      BY <2>2, <2>3, <2>4, <2>5 DEF Next
  <1> QED
    BY <1>1, <1>2, Tipos, PTL DEF Spec

-----------------------------------------------------------------------------
(* The rows of the payments.                                               *)

\* The row of a payment changes only when a record of a file that names it,
\* or another of the same key, finds it: no other row of a payment does.
LEMMA RegistroMudaUm ==
    ASSUME TypeOK, NEW l \in Leitores, ProcessarRegistro(l)
    PROVE  \/ /\ \A o \in Pagamentos : historico'[o] = historico[o]
              /\ UNCHANGED <<pc, atual>>
           \/ \E p \in faltam[l] : \E q \in GetDetalheARetorno(p) :
                 /\ \A o \in Pagamentos \ {q} : historico'[o] = historico[o]
                 /\ historico'[q] = Baixa(historico[q], arquivos[arquivo[l]].lote,
                                          arquivos[arquivo[l]].dets[p],
                                          GetHistorico(q) # {q})
                 /\ pc'[l] = "acrescimo" =>
                       atual'[l] \in Intersul /\ atual'[l] = q
                          /\ historico'[q].status = Efetivado
  <1> DEFINE r == arquivos[arquivo[l]]
  <1>1. pc[l] = "registro" /\ LeitoresOK /\ TabelasOK
    BY DEF ProcessarRegistro, TypeOK
  <1>2. PICK p \in faltam[l] :
           \/ UNCHANGED <<historico, atual, pc>>
           \/ \E q \in GetDetalheARetorno(p) : AtualizarStatus(l, q, r.lote, r.dets[p])
    BY DEF ProcessarRegistro
  <1>3. ASSUME NEW q \in GetDetalheARetorno(p), AtualizarStatus(l, q, r.lote, r.dets[p])
        PROVE  /\ \A o \in Pagamentos \ {q} : historico'[o] = historico[o]
               /\ historico'[q] = Baixa(historico[q], r.lote, r.dets[p],
                                        GetHistorico(q) # {q})
               /\ pc'[l] = "acrescimo" =>
                     atual'[l] \in Intersul /\ atual'[l] = q
                        /\ historico'[q].status = Efetivado
    <2> DEFINE nova(h) == Baixa(historico[h], r.lote, r.dets[p], GetHistorico(q) # {q})
    <2>1. q \in Pagamentos /\ Pagamentos \subseteq Linhas
      BY DEF GetDetalheARetorno, Linhas
    <2>2. GetHistorico(q) \cap Pagamentos = {q}
      BY <2>1, FamiliasAssumption DEF GetHistorico
    <2>3. historico' = [h \in Linhas |-> IF h \in GetHistorico(q) THEN nova(h)
                                         ELSE historico[h]]
      BY <1>3 DEF AtualizarStatus
    <2>4. \/ UNCHANGED pc
          \/ /\ atual' = [atual EXCEPT ![l] = q]
             /\ pc' = [pc EXCEPT ![l] = IF /\ q \in Intersul
                                           /\ historico[q].status # Efetivado
                                           /\ nova(q).status = Efetivado
                                        THEN "acrescimo" ELSE "propagar"]
      BY <1>3 DEF AtualizarStatus, Ir
    <2> HIDE DEF nova
    <2>5. /\ \A o \in Pagamentos \ {q} : historico'[o] = historico[o]
          /\ historico'[q] = nova(q)
      BY <2>1, <2>2, <2>3
    <2>6. pc'[l] = "acrescimo" =>
             atual'[l] \in Intersul /\ atual'[l] = q /\ nova(q).status = Efetivado
      BY <1>1, <2>4 DEF LeitoresOK
    <2> QED
      BY <2>5, <2>6 DEF nova
  <1> QED
    BY <1>2, <1>3

\* The children are not payments.
LEMMA PropagarNaoMuda ==
    ASSUME TypeOK, NEW l \in Leitores, PropagarPagamentoPaiParaFilhas(l)
    PROVE  \A o \in Pagamentos : historico'[o] = historico[o]
  <1>1. atual[l] \in Pagamentos
    BY DEF TypeOK, LeitoresOK, PropagarPagamentoPaiParaFilhas
  <1>2. FilhasDe[atual[l]] \cap Pagamentos = {} /\ Pagamentos \subseteq Linhas
    BY <1>1, FamiliasAssumption DEF Linhas
  <1> QED
    BY <1>2 DEF PropagarPagamentoPaiParaFilhas

\* The steps that leave the rows, the bank and the 5% alone.
LEMMA SemTabelas ==
    ASSUME NEW l \in Leitores,
           \/ Tick(l) \/ LerRetornoSftp(l) \/ GetFirstRetornoPagamento(l)
           \/ SalvarRetorno(l) \/ MoverSucesso(l) \/ MoverFalha(l) \/ Falhar(l)
    PROVE  UNCHANGED <<historico, acrescimos, banco, arquivos>>
  BY DEF Tick, LerRetornoSftp, GetFirstRetornoPagamento, SalvarRetorno, MoverSucesso,
     MoverFalha, MoverPara, Falhar, Excecao, ExcecaoAoMover, ExcecaoAoLer, ExcecaoSftp,
     db_vars, banco_vars

-----------------------------------------------------------------------------
(* The bank.                                                               *)

\* What the bank credited stays credited, a file it writes says "00" of what
\* it credits in it, and the rows do not move.
LEMMA AmbienteCredita ==
    ASSUME SoPorBD, TypeOK, Ambiente
    PROVE  /\ UNCHANGED <<historico, acrescimos, pc, atual>>
           /\ \A p \in Pagamentos : banco[p] = "creditado" => banco'[p] = "creditado"
           /\ \/ UNCHANGED arquivos
              \/ \E f \in [lote : Ocorrencias, dets : Registros] :
                    /\ arquivos' = Append(arquivos, f)
                    /\ \A p \in DOMAIN f.dets :
                          f.dets[p] = Zero => banco'[p] = "creditado"
  <1>1. CASE Reenviar
    BY <1>1 DEF Reenviar, TypeOK, TabelasOK, db_vars, leitor_vars
  <1>2. CASE ~Reenviar
    <2>1. PICK lote \in Ocorrencias, dets \in Registros : \E fases : Escrito(lote, dets, fases)
      BY <1>2, AmbienteEscreve
    <2>2. PICK fases : Escrito(lote, dets, fases)
      BY <2>1
    <2>3. UNCHANGED <<historico, acrescimos, pc, atual>>
      BY <2>2 DEF Escrito, Escrever, leitor_vars
    <2>4. \A p \in Pagamentos : banco'[p] = IF p \in DOMAIN dets THEN fases[p] ELSE banco[p]
      BY <2>2 DEF Escrito, Escrever
    <2>5. \A p \in Pagamentos : banco[p] = "creditado" => banco'[p] = "creditado"
      BY <2>2, <2>4 DEF Escrito
    <2> DEFINE f == [lote |-> lote, dets |-> dets]
    <2>6. /\ f \in [lote : Ocorrencias, dets : Registros]
          /\ arquivos' = Append(arquivos, f) /\ f.dets = dets
      BY <2>2 DEF Escrito, Escrever
    <2>7. \A p \in DOMAIN dets : dets[p] = Zero => banco'[p] = "creditado"
      BY <2>2, <2>4 DEF Escrito
    <2> QED
      BY <2>3, <2>5, <2>6, <2>7
  <1> QED
    BY <1>1, <1>2

-----------------------------------------------------------------------------
(* Paid only after credited.                                               *)

\* What is kept: a file read late, twice or again after a restart still tells
\* the truth, so that BaixaSoComCredito is preserved by each record.
IInv == TypeOK /\ ArquivoDizCredito /\ BaixaSoComCredito

\* A file that is written does not make the older ones lie.
LEMMA ArquivoDizCreditoAmbiente ==
    ASSUME SoPorBD, TypeOK, ArquivoDizCredito, Ambiente
    PROVE  ArquivoDizCredito'
  <1>1. \A p \in Pagamentos : banco[p] = "creditado" => banco'[p] = "creditado"
    BY AmbienteCredita
  <1>2. \A i \in 1..Len(arquivos) : DOMAIN arquivos[i].dets \subseteq Pagamentos
    BY ArquivoTipo DEF TypeOK
  <1>3. CASE UNCHANGED arquivos
    BY <1>1, <1>2, <1>3 DEF ArquivoDizCredito
  <1>4. ASSUME NEW f \in [lote : Ocorrencias, dets : Registros],
               arquivos' = Append(arquivos, f),
               \A p \in DOMAIN f.dets : f.dets[p] = Zero => banco'[p] = "creditado"
        PROVE  ArquivoDizCredito'
    <2>1. /\ Len(arquivos) \in Nat /\ Len(arquivos') = Len(arquivos) + 1
          /\ \A i \in 1..Len(arquivos) : arquivos'[i] = arquivos[i]
          /\ arquivos'[Len(arquivos) + 1] = f
      BY <1>4, ArquivosCrescem DEF TypeOK
    <2>2. \A i \in 1..Len(arquivos') : i \in 1..Len(arquivos) \/ i = Len(arquivos) + 1
      BY <2>1
    <2> QED
      BY <1>1, <1>2, <1>4, <2>1, <2>2 DEF ArquivoDizCredito
  <1> QED
    BY <1>3, <1>4, AmbienteCredita

\* A record closes only a payment that its file says was credited.
LEMMA RegistroSoComCredito ==
    ASSUME ChavesDistintas, IInv, NEW l \in Leitores, ProcessarRegistro(l)
    PROVE  BaixaSoComCredito'
  <1>1. banco' = banco
    BY DEF ProcessarRegistro, banco_vars
  <1>2. CASE \A o \in Pagamentos : historico'[o] = historico[o]
    BY <1>1, <1>2 DEF IInv, BaixaSoComCredito
  <1>3. ASSUME NEW p \in faltam[l], NEW q \in GetDetalheARetorno(p),
               \A o \in Pagamentos \ {q} : historico'[o] = historico[o],
               historico'[q] = Baixa(historico[q], arquivos[arquivo[l]].lote,
                                     arquivos[arquivo[l]].dets[p],
                                     GetHistorico(q) # {q})
        PROVE  BaixaSoComCredito'
    <2>1. /\ arquivo[l] \in 1..Len(arquivos)
          /\ p \in DOMAIN arquivos[arquivo[l]].dets /\ p \in Pagamentos
      BY PassosSao DEF IInv, TypeOK, LeitoresOK, ArquivosOK, ProcessarRegistro
    <2>2. q = p
      BY <2>1 DEF GetDetalheARetorno, ChavesDistintas
    <2>3. ASSUME Pago(historico'[q]) PROVE banco[q] = "creditado"
      <3>1. ~Pago(historico[q])
        BY CasaNaoPago DEF GetDetalheARetorno
      <3>2. arquivos[arquivo[l]].dets[p] = Zero
        BY <1>3, <2>3, <3>1, BaixaPaga
      <3> QED
        BY <2>1, <2>2, <3>2 DEF IInv, ArquivoDizCredito
    <2> QED
      BY <1>1, <1>3, <2>3 DEF IInv, BaixaSoComCredito
  <1> QED
    BY <1>2, <1>3, RegistroMudaUm DEF IInv

\* The inductive invariant holds before the first return file.
LEMMA IInvInicial == Init => IInv
  <1> SUFFICES ASSUME Init PROVE IInv
    OBVIOUS
  <1>1. ArquivoDizCredito
    BY DEF Init, ArquivoDizCredito
  <1>2. BaixaSoComCredito
    BY DEF Init, BaixaSoComCredito, Pago, NovaLinha, Linha, Linhas
  <1> QED
    BY <1>1, <1>2, TipoInicial DEF IInv

\* Every step, of the bank, of a reader or a restart, keeps it.
LEMMA IInvPasso ==
    ASSUME SoPorBD, ChavesDistintas, IInv, TypeOK', [Next]_vars
    PROVE  IInv'
  <1>1. ASSUME UNCHANGED <<banco, arquivos>>,
               \A o \in Pagamentos : historico'[o] = historico[o]
        PROVE  IInv'
    BY <1>1 DEF IInv, ArquivoDizCredito, BaixaSoComCredito
  <1>2. CASE Ambiente
    BY <1>2, AmbienteCredita, ArquivoDizCreditoAmbiente DEF IInv, BaixaSoComCredito
  <1>3. ASSUME NEW l \in Leitores, Avancar(l) \/ Falhar(l) PROVE IInv'
    <2>1. CASE ProcessarRegistro(l)
      <3>1. UNCHANGED <<banco, arquivos>>
        BY <2>1 DEF ProcessarRegistro, banco_vars
      <3> QED
        BY <2>1, <3>1, RegistroSoComCredito DEF IInv, ArquivoDizCredito
    <2>2. CASE AplicarAcrescimoIntersul(l)
      BY <1>1, <2>2 DEF AplicarAcrescimoIntersul, banco_vars
    <2>3. CASE PropagarPagamentoPaiParaFilhas(l)
      BY <1>1, <2>3, PropagarNaoMuda DEF PropagarPagamentoPaiParaFilhas, banco_vars, IInv
    <2> QED
      BY <1>1, <1>3, <2>1, <2>2, <2>3, SemTabelas DEF Avancar
  <1>4. CASE Reiniciar
    BY <1>1, <1>4 DEF Reiniciar, db_vars, banco_vars
  <1>5. CASE UNCHANGED vars
    BY <1>1, <1>5 DEF vars
  <1> QED
    BY <1>2, <1>3, <1>4, <1>5 DEF Next

\* A payment is shown as paid only if the bank has credited it
\* (BaixaSoComCredito), when the first return never says "00" and no two
\* payments share a key: however the files are ordered, read again after a
\* restart, or read by two overlapping runs.
THEOREM BaixaCorreta ==
    ASSUME SoPorBD, ChavesDistintas
    PROVE  Spec => []BaixaSoComCredito
  <1>1. IInv /\ TypeOK' /\ [Next]_vars => IInv'
    BY IInvPasso
  <1>2. IInv => BaixaSoComCredito
    BY DEF IInv
  <1> QED
    BY <1>1, <1>2, IInvInicial, Tipos, PTL DEF Spec

-----------------------------------------------------------------------------
(* The ledger.                                                             *)

Creditados == {p \in Pagamentos : banco[p] = "creditado"}
Baixados   == {p \in Pagamentos : Pago(historico[p])}

\* A record closes one payment at most, a credited one, and reopens none.
LEMMA RegistroBaixa ==
    ASSUME TypeOK, BaixaSoComCredito', NEW l \in Leitores, ProcessarRegistro(l)
    PROVE  \/ Baixados' = Baixados
           \/ \E q \in Creditados \ Baixados : Baixados' = Baixados \cup {q}
  <1>1. banco' = banco
    BY DEF ProcessarRegistro, banco_vars
  <1>2. CASE \A o \in Pagamentos : historico'[o] = historico[o]
    BY <1>2 DEF Baixados
  <1>3. ASSUME NEW q \in Pagamentos, ~Pago(historico[q]),
               \A o \in Pagamentos \ {q} : historico'[o] = historico[o]
        PROVE  \/ Baixados' = Baixados
               \/ \E r \in Creditados \ Baixados : Baixados' = Baixados \cup {r}
    <2>1. CASE Pago(historico'[q])
      <3>1. banco[q] = "creditado"
        BY <1>1, <2>1 DEF BaixaSoComCredito
      <3> QED
        BY <1>3, <2>1, <3>1 DEF Baixados, Creditados
    <2>2. CASE ~Pago(historico'[q])
      BY <1>3, <2>2 DEF Baixados
    <2> QED
      BY <2>1, <2>2
  <1> QED
    BY <1>2, <1>3, RegistroMudaUm, CasaNaoPago DEF GetDetalheARetorno

\* The return handling implements the ledger of Conciliacao
\* (ImplementaConciliacao): it pays after the bank, once, and for good.
THEOREM ImplementaLivro ==
    ASSUME SoPorBD, ChavesDistintas
    PROVE  Spec => ImplementaConciliacao
  <1>1. Init => Livro!Init
    <2> SUFFICES ASSUME Init PROVE Livro!Init
      OBVIOUS
    <2>1. \A p \in Pagamentos : banco[p] # "creditado" /\ ~Pago(historico[p])
      BY DEF Init, Pago, NovaLinha, Linha, Linhas
    <2> QED
      BY <2>1 DEF Livro!Init
  <1>2. TypeOK /\ BaixaSoComCredito' /\ [Next]_vars => [Livro!Next]_Livro!vars
    <2> SUFFICES ASSUME TypeOK, BaixaSoComCredito', [Next]_vars
                 PROVE  [Livro!Next]_Livro!vars
      OBVIOUS
    <2>1. ASSUME Creditados' = Creditados, Baixados' = Baixados
          PROVE  [Livro!Next]_Livro!vars
      BY <2>1 DEF Creditados, Baixados, Livro!vars
    <2>2. ASSUME UNCHANGED banco, \A o \in Pagamentos : historico'[o] = historico[o]
          PROVE  [Livro!Next]_Livro!vars
      BY <2>1, <2>2 DEF Creditados, Baixados
    <2>3. CASE Ambiente
      <3>1. Creditados \subseteq Creditados' /\ Baixados' = Baixados
        BY <2>3, AmbienteCredita DEF Creditados, Baixados
      <3>2. CASE Creditados' = Creditados
        BY <2>1, <3>1, <3>2
      <3>3. CASE Creditados' # Creditados
        <4>1. /\ Creditados' \ Creditados \in SUBSET (Pagamentos \ Creditados)
              /\ Creditados' \ Creditados # {}
              /\ Creditados' = Creditados \cup (Creditados' \ Creditados)
          BY <3>1, <3>3 DEF Creditados
        <4>2. Livro!Creditar
          BY <3>1, <4>1 DEF Livro!Creditar, Creditados, Baixados
        <4> QED
          BY <4>2 DEF Livro!Next
      <3> QED
        BY <3>2, <3>3
    <2>4. ASSUME NEW l \in Leitores, Avancar(l) \/ Falhar(l)
          PROVE  [Livro!Next]_Livro!vars
      <3>1. CASE ProcessarRegistro(l)
        <4>1. Creditados' = Creditados
          BY <3>1 DEF Creditados, ProcessarRegistro, banco_vars
        <4>2. ASSUME NEW q \in Creditados \ Baixados, Baixados' = Baixados \cup {q}
              PROVE  Livro!Baixar
          BY <4>1, <4>2 DEF Livro!Baixar, Creditados, Baixados
        <4> QED
          BY <2>1, <3>1, <4>1, <4>2, RegistroBaixa DEF Livro!Next
      <3>2. CASE AplicarAcrescimoIntersul(l)
        BY <2>2, <3>2 DEF AplicarAcrescimoIntersul, banco_vars
      <3>3. CASE PropagarPagamentoPaiParaFilhas(l)
        BY <2>2, <3>3, PropagarNaoMuda DEF PropagarPagamentoPaiParaFilhas, banco_vars
      <3> QED
        BY <2>2, <2>4, <3>1, <3>2, <3>3, SemTabelas DEF Avancar
    <2>5. CASE Reiniciar
      BY <2>2, <2>5 DEF Reiniciar, db_vars, banco_vars
    <2>6. CASE UNCHANGED vars
      BY <2>2, <2>6 DEF vars
    <2> QED
      BY <2>3, <2>4, <2>5, <2>6 DEF Next
  <1>3. Spec => []BaixaSoComCredito
    BY BaixaCorreta
  <1> QED
    BY <1>1, <1>2, <1>3, Tipos, PTL DEF Spec, ImplementaConciliacao, Livro!Spec

-----------------------------------------------------------------------------
(* The 5% of Intersul.                                                     *)

AcrescimoInv == TypeOK /\ TravaCorreta /\ AcrescimoDevido /\ AcrescimoNoMaximoUmaVez

\* A record may find only a payment without the 5%, not paid yet.
LEMMA AcrescimoRegistro ==
    ASSUME AcrescimoInv, TypeOK', TravaCorreta', NEW l \in Leitores, ProcessarRegistro(l)
    PROVE  AcrescimoInv'
  <1> USE DEF AcrescimoInv
  <1>1. UNCHANGED acrescimos /\ Intersul \subseteq Pagamentos
    BY FamiliasAssumption DEF ProcessarRegistro
  <1>2. \A m \in Leitores \ {l} : pc[m] # "acrescimo" /\ pc'[m] = pc[m]
    BY PassosSao, OutrosParados DEF TravaCorreta, Processa, Avancar, ProcessarRegistro
  <1>3. CASE (\A o \in Pagamentos : historico'[o] = historico[o]) /\ UNCHANGED <<pc, atual>>
    <2>1. pc[l] # "acrescimo"
      BY DEF ProcessarRegistro
    <2> QED
      BY <1>1, <1>2, <1>3, <2>1 DEF AcrescimoNoMaximoUmaVez, AcrescimoDevido
  <1>4. ASSUME NEW q \in Pagamentos, acrescimos[q] = 0,
               \A o \in Pagamentos \ {q} : historico'[o] = historico[o],
               pc'[l] = "acrescimo" => /\ atual'[l] \in Intersul /\ atual'[l] = q
                                       /\ historico'[q].status = Efetivado
        PROVE  AcrescimoInv'
    <2>1. AcrescimoNoMaximoUmaVez'
      BY <1>1, <1>4 DEF AcrescimoNoMaximoUmaVez
    <2>2. AcrescimoDevido'
      BY <1>1, <1>2, <1>4 DEF AcrescimoDevido
    <2> QED
      BY <2>1, <2>2
  <1> QED
    BY <1>3, <1>4, RegistroMudaUm DEF GetDetalheARetorno

\* The 5% goes to the payment of the reader, the only one applying a file.
LEMMA AcrescimoAplica ==
    ASSUME AcrescimoInv, TypeOK', TravaCorreta', NEW l \in Leitores,
           AplicarAcrescimoIntersul(l)
    PROVE  AcrescimoInv'
  <1> USE DEF AcrescimoInv
  <1> DEFINE q == atual[l]
  <1>1. /\ pc[l] = "acrescimo" /\ historico' = historico
        /\ acrescimos' = [acrescimos EXCEPT ![q] = @ + 1]
        /\ pc' = [pc EXCEPT ![l] = "propagar"]
    BY DEF AplicarAcrescimoIntersul, Ir
  <1>2. q \in Intersul /\ historico[q].status = Efetivado /\ acrescimos[q] = 0
    BY <1>1 DEF AcrescimoDevido
  <1>3. q \in Pagamentos /\ acrescimos \in [Pagamentos -> Nat]
    BY <1>2, FamiliasAssumption DEF TypeOK, TabelasOK
  <1>4. acrescimos'[q] = 1 /\ \A p \in Pagamentos \ {q} : acrescimos'[p] = acrescimos[p]
    BY <1>1, <1>2, <1>3
  <1>5. AcrescimoNoMaximoUmaVez'
    BY <1>1, <1>2, <1>4 DEF AcrescimoNoMaximoUmaVez
  <1>6. \A m \in Leitores : pc'[m] # "acrescimo"
    BY <1>1, PassosSao DEF TravaCorreta, Processa, TypeOK, LeitoresOK
  <1> QED
    BY <1>5, <1>6 DEF AcrescimoDevido

\* Every step keeps the invariant on the 5% of Intersul.
LEMMA AcrescimoPasso ==
    ASSUME AcrescimoInv, TypeOK', TravaCorreta', [Next]_vars
    PROVE  AcrescimoInv'
  <1> USE DEF AcrescimoInv
  <1>1. ASSUME UNCHANGED acrescimos, \A o \in Pagamentos : historico'[o] = historico[o],
               \A l \in Leitores : pc'[l] = "acrescimo" =>
                                      pc[l] = "acrescimo" /\ atual'[l] = atual[l]
        PROVE  AcrescimoInv'
    <2>1. AcrescimoNoMaximoUmaVez'
      BY <1>1 DEF AcrescimoNoMaximoUmaVez
    <2>2. Intersul \subseteq Pagamentos
      BY FamiliasAssumption
    <2>3. ASSUME NEW l \in Leitores, pc'[l] = "acrescimo"
          PROVE  /\ atual'[l] \in Intersul
                 /\ historico'[atual'[l]].status = Efetivado
                 /\ acrescimos'[atual'[l]] = 0
      <3>1. pc[l] = "acrescimo" /\ atual'[l] = atual[l]
        BY <1>1, <2>3
      <3>2. atual[l] \in Intersul /\ historico[atual[l]].status = Efetivado
            /\ acrescimos[atual[l]] = 0
        BY <3>1 DEF AcrescimoDevido
      <3> QED
        BY <1>1, <2>2, <3>1, <3>2
    <2>4. AcrescimoDevido'
      BY <2>3 DEF AcrescimoDevido
    <2> QED
      BY <2>1, <2>4
  <1>2. CASE Ambiente
    BY <1>1, <1>2 DEF Ambiente, PrimeiroRetorno, SegundoRetorno,
       LoteRecusado, ArquivoDevolvido, Reenviar, Escrever, db_vars, leitor_vars
  <1>3. ASSUME NEW l \in Leitores, Avancar(l) \/ Falhar(l) PROVE AcrescimoInv'
    <2>1. \A m \in Leitores \ {l} : pc'[m] = pc[m]
      BY <1>3, OutrosParados
    <2>2. CASE ProcessarRegistro(l)
      BY <2>2, AcrescimoRegistro
    <2>3. CASE AplicarAcrescimoIntersul(l)
      BY <2>3, AcrescimoAplica
    <2>4. ASSUME Avancar(l) \/ Falhar(l), ~ProcessarRegistro(l), ~AplicarAcrescimoIntersul(l)
          PROVE  AcrescimoInv'
      <3>1. pc'[l] # "acrescimo"
        BY <2>4 DEF Avancar, Falhar, Tick, LerRetornoSftp, GetFirstRetornoPagamento,
           SalvarRetorno, PropagarPagamentoPaiParaFilhas, MoverSucesso, MoverFalha, MoverPara,
           Excecao, ExcecaoAoMover, ExcecaoAoLer, ExcecaoSftp, Soltar, Ir, TypeOK, LeitoresOK
      <3>2. \A m \in Leitores \ {l} : atual'[m] = atual[m]
        BY <2>4 DEF Avancar, Falhar, Tick, LerRetornoSftp, GetFirstRetornoPagamento,
           SalvarRetorno, PropagarPagamentoPaiParaFilhas, MoverSucesso, MoverFalha, MoverPara,
           Excecao, ExcecaoAoMover, ExcecaoAoLer, ExcecaoSftp, Soltar, TypeOK, LeitoresOK
      <3>3. UNCHANGED acrescimos /\ \A o \in Pagamentos : historico'[o] = historico[o]
        BY <2>4, SemTabelas, PropagarNaoMuda DEF Avancar, PropagarPagamentoPaiParaFilhas
      <3> QED
        BY <1>1, <2>1, <3>1, <3>2, <3>3
    <2> QED
      BY <1>3, <2>2, <2>3, <2>4
  <1>4. CASE Reiniciar
    BY <1>1, <1>4 DEF Reiniciar, db_vars
  <1>5. CASE UNCHANGED vars
    BY <1>1, <1>5 DEF vars
  <1> QED
    BY <1>2, <1>3, <1>4, <1>5 DEF Next

\* The 5% is added at most once, and only to a payment of Intersul that was
\* paid (AcrescimoNoMaximoUmaVez), whatever is read again.
THEOREM AcrescimoCorreto == Spec => []AcrescimoNoMaximoUmaVez
  <1>1. Init => AcrescimoDevido /\ AcrescimoNoMaximoUmaVez
    BY DEF Init, AcrescimoDevido, AcrescimoNoMaximoUmaVez
  <1>2. AcrescimoInv /\ TypeOK' /\ TravaCorreta' /\ [Next]_vars => AcrescimoInv'
    BY AcrescimoPasso
  <1>3. TypeOK /\ TravaCorreta /\ AcrescimoDevido /\ AcrescimoNoMaximoUmaVez <=> AcrescimoInv
    BY DEF AcrescimoInv
  <1> QED
    BY <1>1, <1>2, <1>3, Tipos, Trava, PTL DEF Spec

-----------------------------------------------------------------------------
(* At rest: the 5%.                                                        *)

\* A payment of Intersul that was paid has its 5%, or a reader is about to
\* save it.
AcrescimoVem ==
    \A p \in Intersul : historico[p].status = Efetivado =>
        \/ acrescimos[p] = 1
        \/ \E l \in Leitores : pc[l] = "acrescimo" /\ atual[l] = p

\* A record of p, applied by l to the payment q it is matched to.
Casado(l, p, q) ==
    LET r == arquivos[arquivo[l]]
    IN  /\ \A h \in Linhas \ GetHistorico(q) : historico'[h] = historico[h]
        /\ \A o \in Pagamentos \ {q} : historico'[o] = historico[o]
        /\ historico'[q] = Baixa(historico[q], r.lote, r.dets[p], GetHistorico(q) # {q})
        /\ \/ /\ ErroNoHeaderLote(historico[q], r.lote)
              /\ UNCHANGED <<pc, atual>>
           \/ /\ ~ErroNoHeaderLote(historico[q], r.lote)
              /\ atual'[l] = q
              /\ pc'[l] = IF /\ q \in Intersul
                             /\ historico[q].status # Efetivado
                             /\ historico'[q].status = Efetivado
                          THEN "acrescimo" ELSE "propagar"

\* A record of p, matched or not.
Aplicado(l, p) ==
    /\ p \in DOMAIN arquivos[arquivo[l]].dets
    /\ faltam'[l] = faltam[l] \ {p}
    /\ \/ UNCHANGED <<historico, pc, atual>> /\ GetDetalheARetorno(p) = {}
       \/ \E q \in GetDetalheARetorno(p) : Casado(l, p, q)

\* What one record does, with where the reader goes next.
LEMMA RegistroEfeito ==
    ASSUME TypeOK, NEW l \in Leitores, ProcessarRegistro(l)
    PROVE  /\ pc[l] = "registro" /\ UNCHANGED <<acrescimos, banco, arquivos, retorno>>
           /\ arquivo[l] \in 1..Len(arquivos) /\ arquivo' = arquivo
           /\ \A m \in Leitores \ {l} : faltam'[m] = faltam[m] /\ atual'[m] = atual[m]
           /\ \E p \in faltam[l] : Aplicado(l, p)
  <1> DEFINE r == arquivos[arquivo[l]]
  <1>1. /\ pc[l] = "registro" /\ UNCHANGED <<acrescimos, banco, arquivos, retorno, arquivo>>
        /\ LeitoresOK /\ ArquivosOK /\ TabelasOK
    BY DEF ProcessarRegistro, banco_vars, TypeOK
  <1>2. /\ arquivo[l] \in 1..Len(arquivos) /\ faltam[l] \subseteq DOMAIN r.dets
    BY <1>1, PassosSao DEF LeitoresOK, ArquivosOK
  <1>3. PICK p \in faltam[l] :
           /\ faltam' = [faltam EXCEPT ![l] = @ \ {p}]
           /\ \/ GetDetalheARetorno(p) = {} /\ UNCHANGED <<historico, atual, pc>>
              \/ \E q \in GetDetalheARetorno(p) : AtualizarStatus(l, q, r.lote, r.dets[p])
    BY DEF ProcessarRegistro
  <1>4. /\ p \in DOMAIN r.dets
        /\ faltam'[l] = faltam[l] \ {p}
        /\ \A m \in Leitores \ {l} : faltam'[m] = faltam[m]
    BY <1>1, <1>2, <1>3 DEF LeitoresOK
  <1>5. CASE GetDetalheARetorno(p) = {} /\ UNCHANGED <<historico, atual, pc>>
    BY <1>1, <1>2, <1>3, <1>4, <1>5 DEF Aplicado
  <1>6. ASSUME NEW q \in GetDetalheARetorno(p), AtualizarStatus(l, q, r.lote, r.dets[p])
        PROVE  Casado(l, p, q) /\ \A m \in Leitores \ {l} : atual'[m] = atual[m]
    <2> DEFINE muitos == GetHistorico(q) # {q}
               nova(h) == Baixa(historico[h], r.lote, r.dets[p], muitos)
    <2>1. q \in Pagamentos /\ Pagamentos \subseteq Linhas
      BY DEF GetDetalheARetorno, Linhas
    <2>2. GetHistorico(q) \cap Pagamentos = {q}
      BY <2>1, FamiliasAssumption DEF GetHistorico
    <2>3. historico' = [h \in Linhas |-> IF h \in GetHistorico(q) THEN nova(h)
                                         ELSE historico[h]]
      BY <1>6 DEF AtualizarStatus
    <2>4. \/ /\ ErroNoHeaderLote(historico[q], r.lote)
             /\ UNCHANGED <<pc, atual>>
          \/ /\ ~ErroNoHeaderLote(historico[q], r.lote)
             /\ atual' = [atual EXCEPT ![l] = q]
             /\ pc' = [pc EXCEPT ![l] = IF /\ q \in Intersul
                                           /\ historico[q].status # Efetivado
                                           /\ nova(q).status = Efetivado
                                        THEN "acrescimo" ELSE "propagar"]
      BY <1>6 DEF AtualizarStatus, Ir
    <2> HIDE DEF nova
    <2>5. historico'[q] = nova(q)
      BY <2>1, <2>2, <2>3
    <2>6. \A h \in Linhas \ GetHistorico(q) : historico'[h] = historico[h]
      BY <2>3
    <2>7. \A o \in Pagamentos \ {q} : historico'[o] = historico[o]
      BY <2>1, <2>2, <2>6
    <2>8. \A m \in Leitores \ {l} : atual'[m] = atual[m]
      BY <1>1, <2>4 DEF LeitoresOK
    <2>9. \/ /\ ErroNoHeaderLote(historico[q], r.lote)
             /\ UNCHANGED <<pc, atual>>
          \/ /\ ~ErroNoHeaderLote(historico[q], r.lote)
             /\ atual'[l] = q
             /\ pc'[l] = IF /\ q \in Intersul
                            /\ historico[q].status # Efetivado
                            /\ historico'[q].status = Efetivado
                         THEN "acrescimo" ELSE "propagar"
      BY <1>1, <2>4, <2>5 DEF LeitoresOK
    <2> QED
      BY <2>5, <2>6, <2>7, <2>8, <2>9 DEF nova, Casado
  <1>7. CASE \E q \in GetDetalheARetorno(p) : AtualizarStatus(l, q, r.lote, r.dets[p])
    <2>1. PICK q \in GetDetalheARetorno(p) : AtualizarStatus(l, q, r.lote, r.dets[p])
      BY <1>7
    <2> HIDE DEF r
    <2> QED
      BY <1>1, <1>2, <1>3, <1>4, <1>6, <2>1 DEF r, Aplicado
  <1> QED
    BY <1>3, <1>5, <1>7

\* A refused batch leaves no payment paid.
LEMMA ErroNaoPaga ==
    ASSUME NEW h, NEW lote, NEW det, NEW temFilhas, ErroNoHeaderLote(h, lote)
    PROVE  Baixa(h, lote, det, temFilhas) = Linha(NaoEfetivado, lote)
  BY DEF Baixa, ErroNoHeaderLote, PrimeiraVolta, Reabre

LEMMA AcrescimoVemRegistro ==
    ASSUME TypeOK, AcrescimoVem, NEW l \in Leitores, ProcessarRegistro(l)
    PROVE  AcrescimoVem'
  <1> SUFFICES ASSUME NEW p \in Intersul, historico'[p].status = Efetivado
               PROVE  \/ acrescimos'[p] = 1
                      \/ \E m \in Leitores : pc'[m] = "acrescimo" /\ atual'[m] = p
    BY DEF AcrescimoVem
  <1>1. p \in Pagamentos
    BY FamiliasAssumption
  <1>2. \A m \in Leitores \ {l} : pc'[m] = pc[m]
    BY OutrosParados DEF Avancar
  <1>3. pc[l] # "acrescimo" /\ acrescimos' = acrescimos
    BY RegistroEfeito
  <1>4. \A m \in Leitores \ {l} : atual'[m] = atual[m]
    BY RegistroEfeito
  <1>5. CASE historico'[p] = historico[p]
    BY <1>2, <1>3, <1>4, <1>5 DEF AcrescimoVem
  <1>6. CASE historico'[p] # historico[p]
    <2>1. PICK x \in faltam[l] : Aplicado(l, x)
      BY RegistroEfeito
    <2>2. PICK q \in GetDetalheARetorno(x) : Casado(l, x, q)
      BY <1>6, <2>1 DEF Aplicado
    <2>3. q = p
      BY <1>1, <1>6, <2>2 DEF Casado
    <2>4. historico[p].status # Efetivado
      BY <2>2, <2>3 DEF GetDetalheARetorno, Casa
    <2>5. ~ErroNoHeaderLote(historico[p], arquivos[arquivo[l]].lote)
      BY <2>2, <2>3, ErroNaoPaga DEF Casado, Linha
    <2> QED
      BY <2>2, <2>3, <2>4, <2>5 DEF Casado
  <1> QED
    BY <1>5, <1>6

LEMMA AcrescimoVemAplica ==
    ASSUME TypeOK, AcrescimoVem, AcrescimoNoMaximoUmaVez', NEW l \in Leitores,
           AplicarAcrescimoIntersul(l)
    PROVE  AcrescimoVem'
  <1>1. /\ pc[l] = "acrescimo" /\ historico' = historico /\ atual' = atual
        /\ acrescimos' = [acrescimos EXCEPT ![atual[l]] = @ + 1]
    BY DEF AplicarAcrescimoIntersul
  <1>2. \A m \in Leitores \ {l} : pc'[m] = pc[m]
    BY OutrosParados DEF Avancar
  <1>3. atual[l] \in Pagamentos /\ acrescimos \in [Pagamentos -> Nat]
    BY <1>1 DEF TypeOK, LeitoresOK, TabelasOK
  <1>4. acrescimos'[atual[l]] = 1
    <2>1. acrescimos'[atual[l]] = acrescimos[atual[l]] + 1 /\ acrescimos[atual[l]] \in Nat
      BY <1>1, <1>3
    <2>2. acrescimos'[atual[l]] <= 1
      BY <1>3 DEF AcrescimoNoMaximoUmaVez
    <2> QED
      BY <2>1, <2>2
  <1>5. \A p \in Pagamentos \ {atual[l]} : acrescimos'[p] = acrescimos[p]
    BY <1>1, <1>3
  <1> QED
    BY <1>1, <1>2, <1>4, <1>5, FamiliasAssumption DEF AcrescimoVem

LEMMA AcrescimoVemPasso ==
    ASSUME MaxFalhas = 0, MaxQuedas = 0, TypeOK, AcrescimoVem, AcrescimoNoMaximoUmaVez',
           [Next]_vars
    PROVE  AcrescimoVem'
  <1>1. ASSUME UNCHANGED acrescimos, \A o \in Pagamentos : historico'[o] = historico[o],
               \A l \in Leitores : pc[l] = "acrescimo" =>
                                      pc'[l] = "acrescimo" /\ atual'[l] = atual[l]
        PROVE  AcrescimoVem'
    BY <1>1, FamiliasAssumption DEF AcrescimoVem
  <1>2. CASE Ambiente
    BY <1>1, <1>2 DEF Ambiente, PrimeiroRetorno, SegundoRetorno, LoteRecusado, ArquivoDevolvido,
                      Reenviar, Escrever, db_vars, leitor_vars
  <1>3. falhas = 0 /\ quedas = 0
    BY DEF TypeOK, LimitesOK
  <1>4. ~Reiniciar
    BY <1>3 DEF Reiniciar
  <1>5. ASSUME NEW l \in Leitores, Avancar(l) \/ Falhar(l),
               ~ProcessarRegistro(l), ~AplicarAcrescimoIntersul(l)
        PROVE  AcrescimoVem'
    <2>1. \A m \in Leitores \ {l} : pc'[m] = pc[m]
      BY <1>5, OutrosParados
    <2>2. pc[l] # "acrescimo"
      BY <1>3, <1>5 DEF Avancar, Falhar, Tick, LerRetornoSftp, GetFirstRetornoPagamento,
         SalvarRetorno, PropagarPagamentoPaiParaFilhas, MoverSucesso, MoverFalha, Excecao,
         ExcecaoAoMover, ExcecaoAoLer, ExcecaoSftp
    <2>3. \A m \in Leitores \ {l} : atual'[m] = atual[m]
      BY <1>5 DEF Avancar, Falhar, Tick, LerRetornoSftp, GetFirstRetornoPagamento,
         SalvarRetorno, PropagarPagamentoPaiParaFilhas, MoverSucesso, MoverFalha, MoverPara,
         Excecao, ExcecaoAoMover, ExcecaoAoLer, ExcecaoSftp, Soltar, TypeOK, LeitoresOK
    <2>4. UNCHANGED acrescimos /\ \A o \in Pagamentos : historico'[o] = historico[o]
      BY <1>5, SemTabelas, PropagarNaoMuda DEF Avancar, PropagarPagamentoPaiParaFilhas
    <2> QED
      BY <1>1, <2>1, <2>2, <2>3, <2>4
  <1>6. CASE UNCHANGED vars
    BY <1>1, <1>6 DEF vars
  <1> QED
    BY <1>2, <1>4, <1>5, <1>6, AcrescimoVemRegistro, AcrescimoVemAplica DEF Next

\* Once every file is read, a payment of Intersul without children that was
\* paid has its 5% (AcrescimoAplicado), if no exception and no restart comes
\* between the status and the 5%, which are saved apart.
THEOREM AcrescimoAplicadoSempre ==
    ASSUME MaxFalhas = 0, MaxQuedas = 0 PROVE Spec => []AcrescimoAplicado
  <1>1. Init => AcrescimoVem
    BY FamiliasAssumption DEF Init, AcrescimoVem, NovaLinha, Linha, Linhas
  <1>2. TypeOK /\ AcrescimoVem /\ AcrescimoNoMaximoUmaVez' /\ [Next]_vars => AcrescimoVem'
    BY AcrescimoVemPasso
  <1>3. AcrescimoVem => AcrescimoAplicado
    BY DEF AcrescimoVem, AcrescimoAplicado, Ociosa
  <1> QED
    BY <1>1, <1>2, <1>3, Tipos, AcrescimoCorreto, PTL DEF Spec

-----------------------------------------------------------------------------
(* Branco as a word of its own: Z3 is not given the empty text.              *)

HIDE DEF Branco

\* The blank occurrence is none of the others.
LEMMA TextosDistintos == Branco \notin {BD, Zero, Nulo, Espacos}
  BY Zenon DEF Branco

-----------------------------------------------------------------------------
(* At rest: the children.                                                  *)

\* A child has one parent, the column pai.
UmPaiPorFilha == \A p, q \in Pagamentos : p # q => FilhasDe[p] \cap FilhasDe[q] = {}

FilhasEmDia(p) ==
    \A h \in FilhasDe[p] :
        /\ Pago(historico[p]) => historico[h].status = PendenciaPaga
        /\ historico[p].status = NaoEfetivado /\ ~SemMotivo(historico[p])
              => historico[h].status = NaoEfetivado

\* A parent told its children what became of it, or a reader is about to.
FilhasSeguem ==
    \A p \in Pagamentos :
        \/ FilhasEmDia(p)
        \/ \E l \in Leitores : pc[l] \in {"acrescimo", "propagar"} /\ atual[l] = p

\* A row whose family does not change, and readers that go on with theirs.
LEMMA FilhasSeguemIgual ==
    ASSUME NEW p \in Pagamentos, FilhasSeguem, historico'[p] = historico[p],
           \A h \in FilhasDe[p] : historico'[h] = historico[h],
           \A l \in Leitores : pc[l] \in {"acrescimo", "propagar"} /\ atual[l] = p =>
              pc'[l] \in {"acrescimo", "propagar"} /\ atual'[l] = p
    PROVE  \/ FilhasEmDia(p)'
           \/ \E l \in Leitores : pc'[l] \in {"acrescimo", "propagar"} /\ atual'[l] = p
  <1>1. CASE FilhasEmDia(p)
    BY <1>1 DEF FilhasEmDia, Pago, SemMotivo
  <1>2. CASE ~FilhasEmDia(p)
    BY <1>2 DEF FilhasSeguem
  <1> QED
    BY <1>1, <1>2

\* What a file says of the batch.
LotesEscritos ==
    \A i \in 1..Len(arquivos) : arquivos[i].lote \in {BD, Zero, Branco} \cup ErrosDeLote

LEMMA LotesEscritosAmbiente == ASSUME TypeOK, LotesEscritos, Ambiente PROVE LotesEscritos'
  <1>1. CASE Reenviar
    BY <1>1 DEF Reenviar, LotesEscritos
  <1>2. CASE ~Reenviar
    <2>1. PICK lote \in Ocorrencias : \E dets \in Registros : \E fases : Escrito(lote, dets, fases)
      BY <1>2, AmbienteEscreve
    <2>2. PICK dets \in Registros : \E fases : Escrito(lote, dets, fases)
      BY <2>1
    <2> DEFINE f == [lote |-> lote, dets |-> dets]
    <2>3. f \in [lote : Ocorrencias, dets : Registros] /\ arquivos' = Append(arquivos, f)
      BY <2>2 DEF Escrito, Escrever
    <2>4. lote \in {BD, Zero, Branco} \cup ErrosDeLote
      BY <2>2 DEF Escrito
    <2>5. /\ Len(arquivos) \in Nat
          /\ Len(arquivos') = Len(arquivos) + 1
          /\ \A i \in 1..Len(arquivos) : arquivos'[i] = arquivos[i]
          /\ arquivos'[Len(arquivos) + 1].lote = lote
      BY <2>3, ArquivosCrescem DEF TypeOK
    <2> HIDE DEF f
    <2>6. \A i \in 1..Len(arquivos') : i \in 1..Len(arquivos) \/ i = Len(arquivos) + 1
      BY <2>5
    <2> QED
      BY <2>4, <2>5, <2>6 DEF LotesEscritos
  <1> QED
    BY <1>1, <1>2

LEMMA FilhasRegistro ==
    ASSUME TypeOK, UmPaiPorFilha, ErrosDeLote = {}, LotesEscritos, FilhasSeguem,
           NEW l \in Leitores, ProcessarRegistro(l)
    PROVE  FilhasSeguem'
  <1> SUFFICES ASSUME NEW p \in Pagamentos
               PROVE  \/ FilhasEmDia(p)'
                      \/ \E m \in Leitores : pc'[m] \in {"acrescimo", "propagar"} /\ atual'[m] = p
    BY DEF FilhasSeguem
  <1>1. pc[l] \notin {"acrescimo", "propagar"}
    BY RegistroEfeito
  <1>2. \A m \in Leitores \ {l} : pc'[m] = pc[m] /\ atual'[m] = atual[m]
    BY OutrosParados, RegistroEfeito DEF Avancar
  <1>3. FilhasDe[p] \subseteq Linhas
    BY FamiliasAssumption DEF Linhas
  <1>4. CASE UNCHANGED historico
    BY <1>1, <1>2, <1>4, FilhasSeguemIgual
  <1>5. ASSUME NEW q \in Pagamentos, q # p,
               \A h \in Linhas \ GetHistorico(q) : historico'[h] = historico[h]
        PROVE  \/ FilhasEmDia(p)'
               \/ \E m \in Leitores : pc'[m] \in {"acrescimo", "propagar"} /\ atual'[m] = p
    <2>1. p \notin GetHistorico(q) /\ p \in Linhas
      BY <1>5, FamiliasAssumption DEF GetHistorico, Linhas
    <2>2. \A h \in FilhasDe[p] : h \notin GetHistorico(q)
      BY <1>5, FamiliasAssumption DEF GetHistorico, UmPaiPorFilha
    <2>3. historico'[p] = historico[p] /\ \A h \in FilhasDe[p] : historico'[h] = historico[h]
      BY <1>3, <1>5, <2>1, <2>2
    <2> QED
      BY <1>1, <1>2, <2>3, FilhasSeguemIgual
  \* A batch without codes is refused with blanks, which are no reason.
  <1>6. ASSUME ErroNoHeaderLote(historico[p], arquivos[arquivo[l]].lote),
               historico'[p] = Linha(NaoEfetivado, arquivos[arquivo[l]].lote)
        PROVE  FilhasEmDia(p)'
    <2>1. arquivos[arquivo[l]].lote \in {BD, Zero, Branco}
      BY RegistroEfeito DEF LotesEscritos
    <2>2. arquivos[arquivo[l]].lote = Branco
      BY <1>6, <2>1, TextosDistintos DEF ErroNoHeaderLote, OcorrenciaOk
    <2>3. historico'[p].status = NaoEfetivado /\ historico'[p].motivo = Branco
      BY <1>6, <2>2 DEF Linha
    <2> QED
      BY <2>3 DEF FilhasEmDia, Pago, SemMotivo
  <1>7. \/ UNCHANGED historico
        \/ \E q \in Pagamentos :
              /\ \A h \in Linhas \ GetHistorico(q) : historico'[h] = historico[h]
              /\ \/ /\ ErroNoHeaderLote(historico[q], arquivos[arquivo[l]].lote)
                    /\ historico'[q] = Linha(NaoEfetivado, arquivos[arquivo[l]].lote)
                 \/ pc'[l] \in {"acrescimo", "propagar"} /\ atual'[l] = q
    <2>1. PICK x \in faltam[l] : Aplicado(l, x)
      BY RegistroEfeito
    <2>2. CASE \E q \in GetDetalheARetorno(x) : Casado(l, x, q)
      <3>1. PICK q \in GetDetalheARetorno(x) : Casado(l, x, q)
        BY <2>2
      <3>2. q \in Pagamentos
        BY DEF GetDetalheARetorno
      <3>3. ErroNoHeaderLote(historico[q], arquivos[arquivo[l]].lote) =>
               historico'[q] = Linha(NaoEfetivado, arquivos[arquivo[l]].lote)
        BY <3>1, ErroNaoPaga DEF Casado
      <3> QED
        BY <3>1, <3>2, <3>3 DEF Casado
    <2> QED
      BY <2>1, <2>2 DEF Aplicado
  <1> QED
    BY <1>4, <1>5, <1>6, <1>7

LEMMA FilhasPropagar ==
    ASSUME TypeOK, UmPaiPorFilha, FilhasSeguem, NEW l \in Leitores,
           PropagarPagamentoPaiParaFilhas(l)
    PROVE  FilhasSeguem'
  <1> SUFFICES ASSUME NEW p \in Pagamentos
               PROVE  \/ FilhasEmDia(p)'
                      \/ \E m \in Leitores : pc'[m] \in {"acrescimo", "propagar"} /\ atual'[m] = p
    BY DEF FilhasSeguem
  <1> DEFINE q == atual[l]
  <1>1. /\ pc[l] = "propagar" /\ q \in Pagamentos
        /\ historico' = [h \in Linhas |-> IF h \in FilhasDe[q]
                                          THEN Propagado(historico[q], historico[h])
                                          ELSE historico[h]]
    BY DEF PropagarPagamentoPaiParaFilhas, TypeOK, LeitoresOK
  <1>2. \A m \in Leitores \ {l} : pc'[m] = pc[m] /\ atual'[m] = atual[m]
    BY OutrosParados DEF Avancar, PropagarPagamentoPaiParaFilhas, TypeOK, LeitoresOK
  <1>3. /\ FilhasDe[p] \subseteq Linhas /\ p \in Linhas
        /\ \A u \in Pagamentos : p \notin FilhasDe[u]
    BY FamiliasAssumption DEF Linhas
  <1> HIDE DEF q
  <1>4. historico'[p] = historico[p]
    BY <1>1, <1>3
  <1>5. CASE p = q
    <2>1. \A h \in FilhasDe[p] : historico'[h] = Propagado(historico[p], historico[h])
      BY <1>1, <1>3, <1>5
    <2>2. ASSUME NEW pai, NEW filha
          PROVE  /\ Pago(pai) => Propagado(pai, filha).status = PendenciaPaga
                 /\ pai.status = NaoEfetivado => Propagado(pai, filha).status = NaoEfetivado
      BY DEF Propagado, Resolvido, Pago, Linha
    <2>3. /\ historico'[p] = historico[p]
          /\ \A h \in FilhasDe[p] :
                /\ Pago(historico[p]) => historico'[h].status = PendenciaPaga
                /\ historico[p].status = NaoEfetivado => historico'[h].status = NaoEfetivado
      BY <1>4, <2>1, <2>2
    <2>4. FilhasEmDia(p)'
      BY <2>3 DEF FilhasEmDia, Pago
    <2> QED
      BY <2>4
  <1>6. CASE p # q
    <2>1. \A h \in FilhasDe[p] : h \notin FilhasDe[q]
      BY <1>1, <1>6 DEF UmPaiPorFilha
    <2>2. \A h \in FilhasDe[p] : historico'[h] = historico[h]
      BY <1>1, <1>3, <2>1
    <2> QED
      BY <1>2, <1>4, <1>6, <2>2, FilhasSeguemIgual DEF q
  <1> QED
    BY <1>5, <1>6

LEMMA FilhasPasso ==
    ASSUME MaxFalhas = 0, MaxQuedas = 0, UmPaiPorFilha, ErrosDeLote = {},
           TypeOK, LotesEscritos, FilhasSeguem, [Next]_vars
    PROVE  LotesEscritos' /\ FilhasSeguem'
  <1>1. ASSUME UNCHANGED historico,
               \A l \in Leitores : pc[l] \in {"acrescimo", "propagar"} =>
                  pc'[l] \in {"acrescimo", "propagar"} /\ atual'[l] = atual[l]
        PROVE  FilhasSeguem'
    BY <1>1, FilhasSeguemIgual DEF FilhasSeguem
  <1>2. falhas = 0 /\ quedas = 0
    BY DEF TypeOK, LimitesOK
  <1>3. CASE Ambiente
    <2>1. UNCHANGED <<historico, pc, atual>>
      BY <1>3 DEF Ambiente, PrimeiroRetorno, SegundoRetorno, LoteRecusado, ArquivoDevolvido,
                  Reenviar, Escrever, db_vars, leitor_vars
    <2> QED
      BY <1>1, <1>3, <2>1, LotesEscritosAmbiente DEF TypeOK
  <1>4. ASSUME NEW l \in Leitores, Avancar(l) \/ Falhar(l) PROVE LotesEscritos' /\ FilhasSeguem'
    <2>1. arquivos' = arquivos
      BY <1>4 DEF Avancar, Falhar, Tick, LerRetornoSftp, GetFirstRetornoPagamento,
         SalvarRetorno, ProcessarRegistro, AplicarAcrescimoIntersul,
         PropagarPagamentoPaiParaFilhas, MoverSucesso, MoverFalha, MoverPara, Excecao,
         ExcecaoAoMover, ExcecaoAoLer, ExcecaoSftp, banco_vars
    <2>2. LotesEscritos'
      BY <2>1 DEF LotesEscritos
    <2>3. CASE AplicarAcrescimoIntersul(l)
      <3>1. UNCHANGED <<historico, atual>> /\ pc' = [pc EXCEPT ![l] = "propagar"]
        BY <2>3 DEF AplicarAcrescimoIntersul, Ir
      <3>2. \A m \in Leitores : pc[m] \in {"acrescimo", "propagar"} =>
                                   pc'[m] \in {"acrescimo", "propagar"}
        BY <3>1 DEF TypeOK, LeitoresOK
      <3> QED
        BY <1>1, <2>2, <3>1, <3>2
    <2>4. CASE ~(\/ ProcessarRegistro(l) \/ AplicarAcrescimoIntersul(l)
                 \/ PropagarPagamentoPaiParaFilhas(l))
      <3>1. \A m \in Leitores \ {l} : pc'[m] = pc[m]
        BY <1>4, OutrosParados
      <3>2. pc[l] \notin {"acrescimo", "propagar"}
        BY <1>2, <1>4, <2>4 DEF Avancar, Falhar, Tick, LerRetornoSftp, GetFirstRetornoPagamento,
           SalvarRetorno, MoverSucesso, MoverFalha, Excecao, ExcecaoAoMover, ExcecaoAoLer,
           ExcecaoSftp
      <3>3. \A m \in Leitores \ {l} : atual'[m] = atual[m]
        BY <1>4, <2>4 DEF Avancar, Falhar, Tick, LerRetornoSftp, GetFirstRetornoPagamento,
           SalvarRetorno, MoverSucesso, MoverFalha, MoverPara, Excecao, ExcecaoAoMover,
           ExcecaoAoLer, ExcecaoSftp, Soltar, TypeOK, LeitoresOK
      <3>4. UNCHANGED historico
        BY <1>4, <2>4, SemTabelas DEF Avancar
      <3> QED
        BY <1>1, <2>2, <3>1, <3>2, <3>3, <3>4
    <2> QED
      BY <2>2, <2>3, <2>4, FilhasRegistro, FilhasPropagar
  <1>5. ~Reiniciar
    BY <1>2 DEF Reiniciar
  <1>6. CASE UNCHANGED vars
    BY <1>1, <1>6 DEF vars, LotesEscritos
  <1> QED
    BY <1>3, <1>4, <1>5, <1>6 DEF Next

\* Once every file is read, a parent that was paid or failed has told its
\* children (FilhasSeguemPai), whatever the bank does meanwhile, if no batch is
\* refused with a code and no exception and no restart comes between the
\* status of the parent and that of its children.
THEOREM FilhasSeguemSempre ==
    ASSUME MaxFalhas = 0, MaxQuedas = 0, UmPaiPorFilha, ErrosDeLote = {}
    PROVE  Spec => []FilhasSeguemPai
  <1>1. Init => LotesEscritos /\ FilhasSeguem
    <2> SUFFICES ASSUME Init PROVE LotesEscritos /\ FilhasSeguem
      OBVIOUS
    <2>1. \A p \in Pagamentos : historico[p] = NovaLinha(p)
      BY DEF Init, Linhas
    <2>2. \A p \in Pagamentos : historico[p].status = PreparadoParaEnvio
      <3> TAKE p \in Pagamentos
      <3>1. NovaLinha(p) = Linha(PreparadoParaEnvio, Nulo)
        BY FamiliasAssumption DEF NovaLinha
      <3> QED
        BY <2>1, <3>1 DEF Linha
    <2>3. FilhasSeguem
      BY <2>2 DEF FilhasSeguem, FilhasEmDia, Pago
    <2>4. arquivos = <<>>
      BY DEF Init
    <2>5. LotesEscritos
      BY <2>4 DEF LotesEscritos
    <2> QED
      BY <2>3, <2>5
  <1>2. TypeOK /\ LotesEscritos /\ FilhasSeguem /\ [Next]_vars => LotesEscritos' /\ FilhasSeguem'
    BY FilhasPasso
  <1>3. FilhasSeguem => FilhasSeguemPai
    BY DEF FilhasSeguem, FilhasEmDia, FilhasSeguemPai, Ociosa
  <1> QED
    BY <1>1, <1>2, <1>3, Tipos, PTL DEF Spec

-----------------------------------------------------------------------------
(* At rest: the books and the bank.                                        *)

\* The row h of a payment that is in the bank as fase says.
Confere(h, fase) ==
    \/ fase = "enviado" /\ \/ h.status = PreparadoParaEnvio /\ h.motivo = Nulo
                           \/ h.status = NaoEfetivado /\ SemMotivo(h)
    \/ fase = "incluido" /\ h.status = AguardandoPagamento
    \/ fase = "creditado" /\ Pago(h)
    \/ fase = "recusado" /\ h.status = NaoEfetivado
    \/ fase = "devolvido" /\ h.status = NaoEfetivado /\ SemMotivo(h)

\* A paid row is closed.
LEMMA PagoFica ==
    ASSUME NEW h, NEW lote, NEW det, NEW temFilhas, Pago(h)
    PROVE  Baixa(h, lote, det, temFilhas) = h
  <1>1. h.status \in {Efetivado, PendenciaPaga}
    BY DEF Pago
  <1>2. /\ ~PrimeiraVolta(h, lote) /\ ~Reabre(h, lote, det)
        /\ h.status # AguardandoPagamento
    BY <1>1 DEF PrimeiraVolta, Reabre
  <1> QED
    BY <1>2 DEF Baixa, ErroNoHeaderLote

\* A record brings the row to the phase it tells of, read once or again.
LEMMA BaixaConfere ==
    ASSUME SoPorBD, NEW h, NEW lote, NEW det, NEW antes, NEW fase, NEW temFilhas,
           Diz(lote, det, antes, fase), Confere(h, antes) \/ Confere(h, fase)
    PROVE  Confere(Baixa(h, lote, det, temFilhas), fase)
  <1>1. /\ Branco \notin {BD, Zero, Nulo, Espacos} /\ ~OcorrenciaOk(Recusa)
        /\ \A e \in ErrosDeLote : ~OcorrenciaOk(e) /\ e # Nulo /\ e # Branco
        /\ CodigosInclusao = {BD}
    BY TextosDistintos, OcorrenciasAssumption DEF SoPorBD
  <1> USE DEF Confere, Baixa, ErroNoHeaderLote, PrimeiraVolta, Reabre, OcorrenciaOk,
              SemMotivo, Pago, StatusDePago, Linha
  <1>2. CASE lote = BD /\ antes = "enviado" /\ det \in CodigosInclusao /\ fase = "incluido"
    BY <1>1, <1>2
  <1>3. CASE lote = BD /\ antes = "enviado" /\ det = Recusa /\ fase = "recusado"
    BY <1>1, <1>3
  <1>4. CASE lote = Zero /\ antes = "incluido" /\ det = Zero /\ fase = "creditado"
    <2>1. CASE h.status = AguardandoPagamento
      <3>1. Baixa(h, lote, det, temFilhas) = Linha(StatusDePago(temFilhas), det)
        BY <1>1, <1>4, <2>1
      <3> QED
        BY <1>4, <3>1
    <2>2. CASE Pago(h)
      <3>1. Baixa(h, lote, det, temFilhas) = h
        BY <2>2, PagoFica
      <3> QED
        BY <1>4, <2>2, <3>1
    <2> QED
      BY <1>4, <2>1, <2>2
  <1>5. CASE lote = Zero /\ antes = "incluido" /\ det = Recusa /\ fase = "recusado"
    BY <1>1, <1>5
  <1>6. CASE lote \in ErrosDeLote /\ antes \in {"enviado", "incluido"} /\ fase = "recusado"
    BY <1>1, <1>6
  <1>7. CASE lote = Branco /\ antes = "enviado" /\ det = Branco /\ fase = "devolvido"
    <2>1. ~OcorrenciaOk(lote) /\ lote # Nulo
      BY <1>1, <1>7
    <2>2. CASE h.status = PreparadoParaEnvio /\ h.motivo = Nulo
      <3>1. Baixa(h, lote, det, temFilhas) = Linha(NaoEfetivado, lote)
        BY <2>1, <2>2
      <3> QED
        BY <1>7, <3>1
    <2>3. CASE h.status = NaoEfetivado /\ SemMotivo(h)
      <3>1. Baixa(h, lote, det, temFilhas) = h
        BY <2>1, <2>3
      <3> QED
        BY <1>7, <2>3, <3>1
    <2> QED
      BY <1>7, <2>2, <2>3
  <1> QED
    BY <1>2, <1>3, <1>4, <1>5, <1>6, <1>7 DEF Diz

\* A row the record is not matched to is already there.
LEMMA SemCasarConfere ==
    ASSUME NEW h, NEW lote, NEW det, NEW antes, NEW fase, ~Casa(h),
           Diz(lote, det, antes, fase), Confere(h, antes) \/ Confere(h, fase)
    PROVE  Confere(h, fase)
  BY DEF Diz, Confere, Casa

Ultimo == arquivos[Len(arquivos)]

EmCurso == retorno # {} \/ \E l \in Leitores : pc[l] \in Processando \cup {"salvar"}

\* Only the last file is at work, and nobody is moving it to the failures.
SoOUltimo ==
    /\ retorno \subseteq {Len(arquivos)}
    /\ \A l \in Leitores : pc[l] \in Processando \cup {"salvar"} =>
                              arquivo[l] = Len(arquivos) /\ pc[l] # "moverFalha"

\* The row agrees with the bank, or with what the bank knew before the file.
AindaConfere(p) ==
    \E antes \in Fases :
        /\ Diz(Ultimo.lote, Ultimo.dets[p], antes, banco[p])
        /\ Confere(historico[p], antes) \/ Confere(historico[p], banco[p])

\* Only payments of a file still in the folder may disagree with the bank, by
\* that file alone, and not where its record was applied.
LivrosAbertos ==
    /\ \A p \in Pagamentos : \/ Confere(historico[p], banco[p])
                             \/ retorno # {} /\ p \in DOMAIN Ultimo.dets
    /\ EmCurso => \A p \in DOMAIN Ultimo.dets : AindaConfere(p)
    /\ \A l \in Leitores : Processa(l) =>
          \A p \in DOMAIN Ultimo.dets \ faltam[l] : Confere(historico[p], banco[p])

\* The bank speaks when nobody works: it opens the books of one more file.
LEMMA LivrosEscrever ==
    ASSUME BancoEspera = TRUE, TypeOK, SoOUltimo, LivrosAbertos, Ambiente, ~Reenviar
    PROVE  SoOUltimo' /\ LivrosAbertos'
  <1>1. PICK lote \in Ocorrencias, dets \in Registros : \E fases : Escrito(lote, dets, fases)
    BY AmbienteEscreve
  <1>2. PICK fases : Escrito(lote, dets, fases)
    BY <1>1
  <1> DEFINE f == [lote |-> lote, dets |-> dets]
  <1>3. /\ Ociosa /\ arquivos' = Append(arquivos, f) /\ UNCHANGED <<historico, pc>>
        /\ retorno' = retorno \cup {Len(arquivos) + 1}
        /\ banco' = [p \in Pagamentos |-> IF p \in DOMAIN dets THEN fases[p] ELSE banco[p]]
        /\ DOMAIN dets \subseteq Pagamentos
        /\ \A p \in DOMAIN dets : Diz(lote, dets[p], banco[p], fases[p])
    BY <1>2 DEF Escrito, Escrever, leitor_vars
  <1>4. f \in [lote : Ocorrencias, dets : Registros]
    OBVIOUS
  <1>5. /\ Len(arquivos') = Len(arquivos) + 1
        /\ arquivos'[Len(arquivos')] = f
    BY <1>3, <1>4, ArquivosCrescem DEF TypeOK
  <1>6. Ultimo'.lote = lote /\ Ultimo'.dets = dets
    BY <1>5 DEF Ultimo
  <1> HIDE DEF f
  <1>7. \A l \in Leitores : pc'[l] \notin Processando \cup {"salvar"}
    BY <1>3 DEF Ociosa, Processando
  <1>8. SoOUltimo'
    BY <1>3, <1>5, <1>7 DEF SoOUltimo, Ociosa
  <1>9. \A p \in Pagamentos : Confere(historico[p], banco[p])
    BY <1>3 DEF LivrosAbertos, Ociosa
  <1>10. \A p \in DOMAIN dets : AindaConfere(p)'
    <2> TAKE p \in DOMAIN dets
    <2>1. p \in Pagamentos /\ banco'[p] = fases[p] /\ banco[p] \in Fases
      BY <1>3 DEF TypeOK, TabelasOK
    <2>2. Diz(Ultimo'.lote, Ultimo'.dets[p], banco[p], banco'[p])
      BY <1>3, <1>6, <2>1
    <2>3. Confere(historico'[p], banco[p])
      BY <1>3, <1>9, <2>1
    <2> QED
      BY <2>1, <2>2, <2>3 DEF AindaConfere
  <1>11. \A p \in Pagamentos \ DOMAIN dets : Confere(historico'[p], banco'[p])
    BY <1>3, <1>9
  <1>12. retorno' # {}
    BY <1>3
  <1> QED
    BY <1>6, <1>7, <1>8, <1>10, <1>11, <1>12 DEF LivrosAbertos, Processa

\* A returned file is sent again: its rows wait for either answer.
LEMMA LivrosReenviar ==
    ASSUME BancoEspera = TRUE, TypeOK, SoOUltimo, LivrosAbertos, Reenviar
    PROVE  SoOUltimo' /\ LivrosAbertos'
  <1>1. /\ Ociosa /\ UNCHANGED <<historico, pc, arquivos, arquivo, retorno>>
        /\ banco' = [p \in Pagamentos |-> IF banco[p] = "devolvido" THEN "enviado" ELSE banco[p]]
    BY DEF Reenviar, db_vars, leitor_vars
  <1>2. \A p \in Pagamentos : Confere(historico[p], banco[p])
    BY <1>1 DEF LivrosAbertos, Ociosa
  <1>3. \A h : Confere(h, "devolvido") => Confere(h, "enviado")
    BY DEF Confere
  <1>4. \A p \in Pagamentos : Confere(historico'[p], banco'[p])
    BY <1>1, <1>2, <1>3
  <1>5. ~EmCurso' /\ \A l \in Leitores : ~Processa(l)'
    BY <1>1 DEF EmCurso, Ociosa, Processa, Processando
  <1>6. SoOUltimo'
    BY <1>1 DEF SoOUltimo
  <1> QED
    BY <1>4, <1>5, <1>6 DEF LivrosAbertos

\* A step that moves readers and files, and no row.
LEMMA LivrosParados ==
    ASSUME LivrosAbertos, UNCHANGED <<banco, arquivos>>,
           \A p \in Pagamentos : historico'[p] = historico[p],
           DOMAIN Ultimo.dets \subseteq Pagamentos \/ ~EmCurso',
           EmCurso' => EmCurso,
           retorno' = retorno \/ \A p \in Pagamentos : Confere(historico[p], banco[p]),
           \A l \in Leitores : Processa(l)' => \/ Processa(l) /\ faltam'[l] = faltam[l]
                                               \/ DOMAIN Ultimo.dets \subseteq faltam'[l]
    PROVE  LivrosAbertos'
  <1>1. Ultimo' = Ultimo
    BY DEF Ultimo
  <1>2. \A p \in Pagamentos : Confere(historico'[p], banco'[p]) <=> Confere(historico[p], banco[p])
    OBVIOUS
  <1>3. \A p \in Pagamentos : \/ Confere(historico'[p], banco'[p])
                              \/ retorno' # {} /\ p \in DOMAIN Ultimo'.dets
    BY <1>1, <1>2 DEF LivrosAbertos
  <1>4. ASSUME EmCurso' PROVE \A p \in DOMAIN Ultimo'.dets : AindaConfere(p)'
    BY <1>1, <1>4 DEF LivrosAbertos, AindaConfere
  <1>5. ASSUME NEW l \in Leitores, Processa(l)',
               NEW p \in DOMAIN Ultimo'.dets \ faltam'[l]
        PROVE  Confere(historico'[p], banco'[p])
    <2>1. EmCurso'
      BY <1>5 DEF EmCurso, Processa
    <2> QED
      BY <1>1, <1>2, <1>5, <2>1 DEF LivrosAbertos
  <1> QED
    BY <1>3, <1>4, <1>5 DEF LivrosAbertos

\* A file at work names payments.
LEMMA UltimoTipo ==
    ASSUME TypeOK, SoOUltimo, EmCurso PROVE DOMAIN Ultimo.dets \subseteq Pagamentos
  <1>1. Len(arquivos) \in 1..Len(arquivos)
    <2>1. CASE retorno # {}
      BY <2>1 DEF SoOUltimo, TypeOK, ArquivosOK
    <2>2. CASE \E l \in Leitores : pc[l] \in Processando \cup {"salvar"}
      BY <2>2, PassosSao DEF SoOUltimo, TypeOK, ArquivosOK, LeitoresOK
    <2> QED
      BY <2>1, <2>2 DEF EmCurso
  <1> QED
    BY <1>1, ArquivoTipo DEF Ultimo, TypeOK

\* A record applied leaves its own row in agreement, and touches no other.
LEMMA RegistroConfere ==
    ASSUME SoPorBD, ChavesDistintas, TypeOK, AcrescimoNoMaximoUmaVez, SoOUltimo,
           LivrosAbertos, NEW l \in Leitores, ProcessarRegistro(l)
    PROVE  \E p \in faltam[l] :
              /\ p \in DOMAIN Ultimo.dets
              /\ faltam'[l] = faltam[l] \ {p}
              /\ Confere(historico'[p], banco[p])
              /\ \A o \in Pagamentos \ {p} : historico'[o] = historico[o]
  <1> DEFINE r == arquivos[arquivo[l]]
  <1>1. /\ pc[l] = "registro" /\ r = Ultimo
        /\ DOMAIN r.dets \subseteq Pagamentos
        /\ \A p \in DOMAIN r.dets : AindaConfere(p)
    <2>1. pc[l] = "registro"
      BY RegistroEfeito
    <2>2. EmCurso
      BY <2>1 DEF EmCurso, Processando
    <2> QED
      BY <2>1, <2>2, UltimoTipo DEF SoOUltimo, Ultimo, Processando, LivrosAbertos
  <1>2. PICK p \in faltam[l] : Aplicado(l, p)
    BY RegistroEfeito
  <1>3. p \in Pagamentos /\ p \in DOMAIN r.dets /\ faltam'[l] = faltam[l] \ {p}
    BY <1>1, <1>2 DEF Aplicado
  <1>4. PICK antes \in Fases : /\ Diz(r.lote, r.dets[p], antes, banco[p])
                               /\ Confere(historico[p], antes) \/ Confere(historico[p], banco[p])
    BY <1>1, <1>3 DEF AindaConfere
  <1>5. CASE UNCHANGED historico /\ GetDetalheARetorno(p) = {}
    <2>1. ~Casa(historico[p])
      <3>1. acrescimos[p] # 0 \/ ~Casa(historico[p])
        BY <1>3, <1>5 DEF GetDetalheARetorno
      <3>2. acrescimos[p] # 0 => historico[p].status = Efetivado
        BY <1>3 DEF AcrescimoNoMaximoUmaVez, TypeOK, TabelasOK
      <3> QED
        BY <3>1, <3>2 DEF Casa
    <2>2. Confere(historico[p], banco[p])
      BY <1>4, <2>1, SemCasarConfere
    <2> QED
      BY <1>1, <1>3, <1>5, <2>2
  <1>6. CASE \E q \in GetDetalheARetorno(p) : Casado(l, p, q)
    <2>1. GetDetalheARetorno(p) \subseteq {p}
      BY <1>3 DEF GetDetalheARetorno, ChavesDistintas
    <2>2. /\ \A o \in Pagamentos \ {p} : historico'[o] = historico[o]
          /\ historico'[p] = Baixa(historico[p], r.lote, r.dets[p], GetHistorico(p) # {p})
      BY <1>6, <2>1 DEF Casado
    <2>3. Confere(historico'[p], banco[p])
      BY <1>4, <2>2, BaixaConfere
    <2> QED
      BY <1>1, <1>3, <2>2, <2>3
  <1> QED
    BY <1>2, <1>5, <1>6 DEF Aplicado

\* Applying a record closes its row.
LEMMA LivrosRegistro ==
    ASSUME SoPorBD, ChavesDistintas, TypeOK, AcrescimoNoMaximoUmaVez, SoOUltimo,
           LivrosAbertos, NEW l \in Leitores, ProcessarRegistro(l)
    PROVE  LivrosAbertos'
  <1>1. PICK p \in faltam[l] :
           /\ p \in DOMAIN Ultimo.dets
           /\ faltam'[l] = faltam[l] \ {p}
           /\ Confere(historico'[p], banco[p])
           /\ \A o \in Pagamentos \ {p} : historico'[o] = historico[o]
    BY RegistroConfere
  <1>2. /\ pc[l] = "registro" /\ UNCHANGED <<banco, arquivos, retorno>>
        /\ \A m \in Leitores \ {l} : faltam'[m] = faltam[m]
    BY RegistroEfeito
  <1>3. \A m \in Leitores \ {l} : pc'[m] = pc[m]
    BY OutrosParados DEF Avancar
  <1>4. EmCurso /\ Processa(l)
    BY <1>2 DEF EmCurso, Processa, Processando
  <1>5. Ultimo' = Ultimo /\ DOMAIN Ultimo.dets \subseteq Pagamentos
    BY <1>2, <1>4, UltimoTipo DEF Ultimo
  <1>6. ASSUME NEW o \in Pagamentos, Confere(historico[o], banco[o])
        PROVE  Confere(historico'[o], banco'[o])
    BY <1>1, <1>2, <1>6
  <1>7. \A o \in Pagamentos : \/ Confere(historico'[o], banco'[o])
                              \/ retorno' # {} /\ o \in DOMAIN Ultimo'.dets
    BY <1>2, <1>5, <1>6 DEF LivrosAbertos
  <1>8. ASSUME NEW o \in DOMAIN Ultimo'.dets PROVE AindaConfere(o)'
    <2>1. AindaConfere(o) /\ o \in Pagamentos
      BY <1>4, <1>5 DEF LivrosAbertos
    <2>2. CASE o = p
      BY <1>1, <1>2, <1>5, <2>1, <2>2 DEF AindaConfere
    <2>3. CASE o # p
      BY <1>1, <1>2, <1>5, <2>1, <2>3 DEF AindaConfere
    <2> QED
      BY <2>2, <2>3
  <1>9. ASSUME NEW m \in Leitores, Processa(m)',
               NEW o \in DOMAIN Ultimo'.dets \ faltam'[m]
        PROVE  Confere(historico'[o], banco'[o])
    <2>1. CASE m = l /\ o = p
      BY <1>1, <1>2, <2>1
    <2>2. CASE m = l /\ o # p
      BY <1>1, <1>4, <1>5, <1>6, <1>9, <2>2 DEF LivrosAbertos
    <2>3. CASE m # l
      BY <1>2, <1>3, <1>5, <1>6, <1>9, <2>3 DEF LivrosAbertos, Processa
    <2> QED
      BY <2>1, <2>2, <2>3
  <1> QED
    BY <1>7, <1>8, <1>9 DEF LivrosAbertos

\* The reader moves the file with every record applied.
LEMMA LivrosMover ==
    ASSUME TypeOK, SoOUltimo, LivrosAbertos, NEW l \in Leitores, MoverSucesso(l)
    PROVE  LivrosAbertos'
  <1>1. /\ pc[l] = "registro" /\ faltam[l] = {} /\ retorno' = retorno \ {arquivo[l]}
        /\ UNCHANGED <<historico, banco, arquivos>>
        /\ pc' = [pc EXCEPT ![l] = "ler"] /\ faltam' = [faltam EXCEPT ![l] = {}]
    BY DEF MoverSucesso, MoverPara, Soltar, Ir, db_vars, banco_vars
  <1>2. EmCurso /\ Processa(l)
    BY <1>1 DEF EmCurso, Processa, Processando
  <1>3. DOMAIN Ultimo.dets \subseteq Pagamentos
    BY <1>2, UltimoTipo
  <1>4. \A p \in Pagamentos : Confere(historico[p], banco[p])
    BY <1>1, <1>2 DEF LivrosAbertos
  <1>5. /\ pc \in [Leitores -> Passos] /\ faltam \in [Leitores -> SUBSET Pagamentos]
    BY DEF TypeOK, LeitoresOK
  <1>6. \A m \in Leitores : Processa(m)' => Processa(m) /\ faltam'[m] = faltam[m]
    BY <1>1, <1>5 DEF Processa, Processando
  <1> QED
    BY <1>1, <1>2, <1>3, <1>4, <1>6, LivrosParados

\* The rest of a reader's steps, which change no row of a payment.
LEMMA LivrosLeitor ==
    ASSUME SoPorBD, ChavesDistintas, MaxFalhas = 0, TypeOK, AcrescimoNoMaximoUmaVez,
           SoOUltimo, LivrosAbertos, NEW l \in Leitores, Avancar(l) \/ Falhar(l)
    PROVE  SoOUltimo' /\ LivrosAbertos'
  <1>1. falhas = 0
    BY DEF TypeOK, LimitesOK
  <1>2. pc[l] # "moverFalha"
    BY DEF SoOUltimo, Processando
  <1>3. Avancar(l) /\ ~MoverFalha(l)
    BY <1>1, <1>2 DEF Falhar, Excecao, ExcecaoAoMover, ExcecaoAoLer, ExcecaoSftp, MoverFalha
  <1>4. /\ UNCHANGED <<banco, arquivos>>
        /\ \A m \in Leitores \ {l} : pc'[m] = pc[m]
    BY <1>3, OutrosParados DEF Avancar, Tick, LerRetornoSftp, GetFirstRetornoPagamento,
       SalvarRetorno, ProcessarRegistro, AplicarAcrescimoIntersul,
       PropagarPagamentoPaiParaFilhas, MoverSucesso, MoverPara, banco_vars
  <1>5. /\ pc \in [Leitores -> Passos] /\ arquivo \in [Leitores -> 0..Len(arquivos)]
        /\ faltam \in [Leitores -> SUBSET Pagamentos]
    BY DEF TypeOK, LeitoresOK
  <1>6. /\ \A m \in Leitores \ {l} : arquivo'[m] = arquivo[m] /\ faltam'[m] = faltam[m]
        /\ retorno' \subseteq retorno
    BY <1>3, <1>5 DEF Avancar, Tick, LerRetornoSftp, GetFirstRetornoPagamento,
       SalvarRetorno, ProcessarRegistro, AplicarAcrescimoIntersul,
       PropagarPagamentoPaiParaFilhas, MoverSucesso, MoverPara, Soltar
  \* A reader takes the file the folder has, and keeps it.
  <1>7. pc'[l] \in Processando \cup {"salvar"} =>
           /\ arquivo'[l] = Len(arquivos) /\ pc'[l] # "moverFalha"
           /\ \/ pc[l] \in Processando \cup {"salvar"}
              \/ retorno # {}
    <2>1. CASE Tick(l) \/ LerRetornoSftp(l)
      BY <1>5, <2>1 DEF Tick, LerRetornoSftp, Ir, Processando
    <2>2. CASE GetFirstRetornoPagamento(l)
      BY <1>5, <2>2 DEF GetFirstRetornoPagamento, Ir, Processando, SoOUltimo
    <2>3. CASE SalvarRetorno(l)
      BY <1>5, <2>3 DEF SalvarRetorno, Soltar, Ir, Processando, SoOUltimo
    <2>4. CASE ProcessarRegistro(l)
      <3>1. pc[l] = "registro" /\ arquivo' = arquivo
        BY <2>4, RegistroEfeito
      <3>2. pc'[l] # "moverFalha"
        BY <1>5, <2>4, <3>1 DEF ProcessarRegistro, AtualizarStatus, Ir
      <3> QED
        BY <3>1, <3>2 DEF Processando, SoOUltimo
    <2>5. CASE AplicarAcrescimoIntersul(l) \/ PropagarPagamentoPaiParaFilhas(l)
      BY <1>5, <2>5 DEF AplicarAcrescimoIntersul, PropagarPagamentoPaiParaFilhas, Ir,
         Processando, SoOUltimo
    <2>6. CASE MoverSucesso(l)
      BY <1>5, <2>6 DEF MoverSucesso, MoverPara, Soltar, Ir, Processando
    <2> QED
      BY <1>3, <2>1, <2>2, <2>3, <2>4, <2>5, <2>6 DEF Avancar
  <1>8. SoOUltimo'
    BY <1>4, <1>6, <1>7 DEF SoOUltimo
  <1>9. EmCurso' => EmCurso
    BY <1>4, <1>6, <1>7 DEF EmCurso
  <1>10. CASE ~ProcessarRegistro(l) /\ ~MoverSucesso(l)
    <2>1. \A p \in Pagamentos : historico'[p] = historico[p]
      BY <1>3, <1>10, SemTabelas, PropagarNaoMuda DEF Avancar, PropagarPagamentoPaiParaFilhas,
         AplicarAcrescimoIntersul
    <2>2. retorno' = retorno
      BY <1>3, <1>10 DEF Avancar, Tick, LerRetornoSftp, GetFirstRetornoPagamento,
         SalvarRetorno, AplicarAcrescimoIntersul, PropagarPagamentoPaiParaFilhas
    <2>3. Processa(l)' => \/ Processa(l) /\ faltam'[l] = faltam[l]
                          \/ DOMAIN Ultimo.dets \subseteq faltam'[l]
      <3>1. CASE SalvarRetorno(l)
        BY <1>5, <3>1 DEF SalvarRetorno, Soltar, Ir, Processa, Processando, SoOUltimo, Ultimo
      <3>2. CASE Tick(l) \/ LerRetornoSftp(l) \/ GetFirstRetornoPagamento(l)
        BY <1>5, <3>2 DEF Tick, LerRetornoSftp, GetFirstRetornoPagamento, Ir, Processa,
           Processando
      <3>3. CASE AplicarAcrescimoIntersul(l) \/ PropagarPagamentoPaiParaFilhas(l)
        BY <3>3 DEF AplicarAcrescimoIntersul, PropagarPagamentoPaiParaFilhas, Processa,
           Processando
      <3> QED
        BY <1>3, <1>10, <3>1, <3>2, <3>3 DEF Avancar
    <2>4. \A m \in Leitores : Processa(m)' => \/ Processa(m) /\ faltam'[m] = faltam[m]
                                              \/ DOMAIN Ultimo.dets \subseteq faltam'[m]
      BY <1>4, <1>6, <2>3 DEF Processa
    <2> QED
      BY <1>4, <1>8, <1>9, <2>1, <2>2, <2>4, UltimoTipo, LivrosParados
  <1> QED
    BY <1>8, <1>10, LivrosRegistro, LivrosMover

\* The books stay open only for the file at work.
LEMMA LivrosPasso ==
    ASSUME BancoEspera = TRUE, SoPorBD, ChavesDistintas, MaxFalhas = 0, TypeOK,
           AcrescimoNoMaximoUmaVez, SoOUltimo, LivrosAbertos, [Next]_vars
    PROVE  SoOUltimo' /\ LivrosAbertos'
  <1>1. CASE Reiniciar
    <2>1. /\ UNCHANGED <<historico, banco, arquivos, retorno>>
          /\ \A l \in Leitores : pc'[l] = "fora"
      BY <1>1 DEF Reiniciar, db_vars, banco_vars
    <2>2. /\ \A l \in Leitores : pc'[l] \notin Processando \cup {"salvar"} /\ ~Processa(l)'
          /\ EmCurso' => EmCurso
      BY <2>1 DEF Processa, Processando, EmCurso
    <2>3. SoOUltimo'
      BY <2>1, <2>2 DEF SoOUltimo
    <2> QED
      BY <2>1, <2>2, <2>3, UltimoTipo, LivrosParados
  <1>2. CASE UNCHANGED vars
    BY <1>2 DEF vars, SoOUltimo, LivrosAbertos, EmCurso, AindaConfere, Ultimo, Processa
  <1> QED
    BY <1>1, <1>2, LivrosEscrever, LivrosReenviar, LivrosLeitor DEF Next

\* Once every file is read, the books agree with the bank (LivrosConferem),
\* whatever the readers and the restarts do between the records of a file, if
\* the bank speaks only when no file waits, accepts with "BD" alone, no two
\* payments look the same, and no exception is thrown.
THEOREM LivrosSempreConferem ==
    ASSUME BancoEspera = TRUE, SoPorBD, ChavesDistintas, MaxFalhas = 0
    PROVE  Spec => []LivrosConferem
  <1>1. Init => SoOUltimo /\ LivrosAbertos
    <2> SUFFICES ASSUME Init PROVE SoOUltimo /\ LivrosAbertos
      OBVIOUS
    <2>1. \A p \in Pagamentos : Confere(historico[p], banco[p])
      <3> TAKE p \in Pagamentos
      <3>1. historico[p] = NovaLinha(p) /\ banco[p] = "enviado"
        BY DEF Init, Linhas
      <3>2. NovaLinha(p) = Linha(PreparadoParaEnvio, Nulo)
        BY FamiliasAssumption DEF NovaLinha
      <3> QED
        BY <3>1, <3>2 DEF Confere, Linha
    <2>2. retorno = {} /\ \A l \in Leitores : pc[l] = "fora"
      BY DEF Init
    <2> QED
      BY <2>1, <2>2 DEF SoOUltimo, LivrosAbertos, EmCurso, Processa, Processando
  <1>2. TypeOK /\ AcrescimoNoMaximoUmaVez /\ SoOUltimo /\ LivrosAbertos /\ [Next]_vars
           => SoOUltimo' /\ LivrosAbertos'
    BY LivrosPasso
  <1>3. LivrosAbertos => LivrosConferem
    <2>1. ASSUME NEW h, NEW fase, Confere(h, fase)
          PROVE  /\ fase = "creditado" => Pago(h)
                 /\ fase = "recusado" => h.status = NaoEfetivado
                 /\ fase = "devolvido" => h.status = NaoEfetivado /\ SemMotivo(h)
                 /\ fase = "incluido" => h.status = AguardandoPagamento
                 /\ fase \notin {"creditado", "recusado", "devolvido", "incluido"} => Casa(h)
      BY <2>1 DEF Confere, Casa
    <2>2. LivrosAbertos /\ Ociosa => \A p \in Pagamentos : Confere(historico[p], banco[p])
      BY DEF LivrosAbertos, Ociosa
    <2> QED
      BY <2>1, <2>2 DEF LivrosConferem
  <1> QED
    BY <1>1, <1>2, <1>3, Tipos, AcrescimoCorreto, PTL DEF Spec
=============================================================================
