------------------------- MODULE Sincronizacao_proofs -------------------------
(***************************************************************************)
(* Proofs about Sincronizacao, for any orders, versions, jobs, instances   *)
(* and days.                                                               *)
(*                                                                         *)
(* First what each action does to the tables and to the memory of the      *)
(* executions (Tipos, one lemma per action), and whose step it is (Casos,  *)
(* DeQuem): every later proof splits on those.  Then one inductive         *)
(* invariant per property, each over the former:                           *)
(*                                                                         *)
(*   Linhas       what has no row is in no grouping and in no cursor;      *)
(*   Somadas      the orders of a cursor are free, because the lock lets   *)
(*                one job run (UmJob, through CumpreATrava);               *)
(*   Exclusiva    one execution runs, its copies tell the groupings and    *)
(*                its cursor the amounts;                                  *)
(*   Capturadas, NoSeuDia    nothing is grouped before it was captured;    *)
(*   Auditadas    an amount is in the audit, or who wrote it is there;     *)
(*   Vistas       answers, copies and quarantine follow BigQuery.          *)
(*                                                                         *)
(* A theorem excludes the risks (Riscos) its property does not survive,    *)
(* and no other.                                                           *)
(***************************************************************************)
EXTENDS Sincronizacao, PeriodoPagamento_proofs

-----------------------------------------------------------------------------
(* The types.                                                              *)

LinhaOrdem == [existe : BOOLEAN, dono : BOOLEAN,
               dados : [Campos -> Nat], grupo : [Campos -> Int]]
LinhaQuarentena == [ordem : Ordens, versao : Versoes, campos : SUBSET Campos,
                    status : {"pendente", "aprovada", "rejeitada"}]
NoLaco   == {"laco", "auditar", "conter"}
ComOrdem == {"auditar", "conter"}
Passos   == {"fora", "consultar", "buscar", "laco", "auditar", "conter",
             "agrupar", "gravar", "soltar"}

TabelasOK ==
    /\ hoje \in PrimeiroDia..MaxDia
    /\ bq \in [Ordens -> Versoes \cup {NULL}]
    /\ cadastro \in {"nenhum", "semConta", "comConta"}
    /\ ordem \in [Ordens -> LinhaOrdem]
    /\ parcelas \in [Ordens -> [Campos -> Seq(Nat)]]
    /\ quarentena \subseteq LinhaQuarentena
    /\ trilha \subseteq Ordens \X Campos \X Nat
    /\ vista \in [Ordens -> Versoes \cup {NULL}]
    /\ falhas \in 0..MaxFalhas

MemoriaOK ==
    /\ pc \in [Processos -> Passos]
    /\ trava \in [Jobs -> {"fora", "rodando"}]
    /\ dia \in [Processos -> PrimeiroDia..MaxDia]
    /\ resposta \in [Processos -> [Ordens -> Versoes \cup {NULL}]]
    /\ existentes \in [Processos -> [Ordens -> LinhaOrdem]]
    /\ fila \in [Processos -> SUBSET Ordens]
    /\ atual \in [Processos -> Ordens \cup {Ninguem}]
    /\ DOMAIN cursor = Processos

\* What the place of an execution says of its memory: only in its loop it
\* has orders to do, each of them one of the answer, and copies of them, and
\* only while it groups a cursor.
EmOrdem(p) ==
    /\ pc[p] \in ComOrdem <=> atual[p] \in Ordens
    /\ pc[p] \in ComOrdem => resposta[p][atual[p]] # NULL
    /\ \A o \in fila[p] : resposta[p][o] # NULL
    /\ pc[p] \notin NoLaco => fila[p] = {}
    /\ pc[p] \notin NoLaco \cup {"buscar"} => \A o \in Ordens : resposta[p][o] = NULL
    /\ pc[p] \notin NoLaco => \A o \in Ordens : ~existentes[p][o].existe
    /\ pc[p] # "gravar" => DOMAIN cursor[p] = {}
    /\ DOMAIN cursor[p] \subseteq Ordens
    /\ \A o \in DOMAIN cursor[p] : cursor[p][o] \in Nat
    /\ p \in Jobs => (pc[p] # "fora" <=> trava[p] = "rodando")
    /\ p = Manual => pc[p] \in NoLaco \cup {"fora", "buscar"}

Tipos == TabelasOK /\ MemoriaOK /\ \A p \in Processos : EmOrdem(p)

LEMMA TiposImplicam == Tipos => TypeOK
BY DEF Tipos, TypeOK, TabelasOK, MemoriaOK, EmOrdem, Passos, ComOrdem, LinhaOrdem,
       LinhaQuarentena, Processos

LEMMA DataPagamentoDepois ==
    ASSUME NEW d \in Int PROVE DataPagamento(d) \in Int /\ DataPagamento(d) > d
BY PorDiaDaSemana, DiaDaSemanaEmSete DEF DataReferencia

LEMMA TiposInit == Init => Tipos
<1> USE SincronizacaoAssumption
<1> SUFFICES ASSUME Init PROVE Tipos
  OBVIOUS
<1>1. Inexistente \in LinhaOrdem
  BY DEF Inexistente, LinhaOrdem, NULL
<1>2. TabelasOK
  <2>1. parcelas \in [Ordens -> [Campos -> Seq(Nat)]]
    BY DEF Init
  <2> QED
    BY <1>1, <2>1 DEF Init, TabelasOK, SemResposta, SemExistentes, NULL
<1>3. MemoriaOK
  BY <1>1 DEF Init, MemoriaOK, Trava!Init, SemResposta, SemExistentes, NULL, Passos
<1>4. \A p \in Processos : EmOrdem(p)
  BY DEF Init, EmOrdem, Trava!Init, SemResposta, SemCursor, SemExistentes, Inexistente, NULL,
         Processos, NoLaco, ComOrdem
<1> QED
  BY <1>2, <1>3, <1>4 DEF Tipos

\* The step is not of this execution.
Alheio(r) ==
    /\ pc'[r] = pc[r] /\ dia'[r] = dia[r] /\ resposta'[r] = resposta[r]
    /\ existentes'[r] = existentes[r] /\ fila'[r] = fila[r]
    /\ atual'[r] = atual[r] /\ cursor'[r] = cursor[r]
    /\ r \in Jobs => trava'[r] = trava[r]

LEMMA AlheioEmOrdem ==
    ASSUME NEW r \in Processos, EmOrdem(r), Alheio(r) PROVE EmOrdem(r)'
BY DEF EmOrdem, Alheio, ComOrdem, NoLaco

LEMMA TabelasIguais ==
    ASSUME TabelasOK, UNCHANGED <<fora, tabelas>>, falhas' \in 0..MaxFalhas
    PROVE  TabelasOK'
BY DEF TabelasOK, fora, tabelas

-----------------------------------------------------------------------------
(* Whose step it is: in a step of p the others keep their memory.          *)

LEMMA AlheioNoFora ==
    ASSUME MemoriaOK, UNCHANGED <<memoria, lock>>
    PROVE  /\ MemoriaOK'
           /\ \A r \in Processos : Alheio(r)
BY DEF MemoriaOK, Alheio, memoria, lock

LEMMA TravaDeUm ==
    ASSUME MemoriaOK, NEW j \in Jobs, Trava!AcquireLock(j) \/ Trava!ReleaseLock(j)
    PROVE  /\ trava' \in [Jobs -> {"fora", "rodando"}]
           /\ trava'[j] = IF trava[j] = "fora" THEN "rodando" ELSE "fora"
           /\ \A r \in Jobs \ {j} : trava'[r] = trava[r]
BY DEF MemoriaOK, Trava!AcquireLock, Trava!ReleaseLock

\* The parts of the types after a step of one execution.
LEMMA TiposDeUm ==
    ASSUME Tipos, NEW p \in Processos, TabelasOK', MemoriaOK',
           \A r \in Processos \ {p} : Alheio(r), EmOrdem(p)'
    PROVE  Tipos'
BY AlheioEmOrdem DEF Tipos

LEMMA TiposAcquireLock ==
    ASSUME Tipos, NEW j \in Jobs, AcquireLock(j)
    PROVE  /\ Tipos'
           /\ \A r \in Processos \ {j} : Alheio(r)
<1> USE SincronizacaoAssumption DEF Tipos
<1>1. j \in Processos
  BY DEF Processos
<1>2. TabelasOK'
  BY TabelasIguais DEF AcquireLock, TabelasOK
<1>3. /\ MemoriaOK'
      /\ \A r \in Processos \ {j} : Alheio(r)
      /\ EmOrdem(j)'
  <2>1. /\ pc[j] = "fora" /\ pc' = [pc EXCEPT ![j] = "consultar"]
        /\ dia' = [dia EXCEPT ![j] = hoje]
        /\ UNCHANGED <<resposta, existentes, fila, atual, cursor>>
        /\ Trava!AcquireLock(j) /\ trava[j] = "fora"
    BY DEF AcquireLock, Trava!AcquireLock
  <2>2. /\ trava' \in [Jobs -> {"fora", "rodando"}] /\ trava'[j] = "rodando"
        /\ \A r \in Jobs \ {j} : trava'[r] = trava[r]
    BY <2>1, TravaDeUm
  <2>3. MemoriaOK'
    BY <1>1, <2>1, <2>2 DEF MemoriaOK, Passos, TabelasOK
  <2>4. \A r \in Processos \ {j} : Alheio(r)
    BY <2>1, <2>2 DEF MemoriaOK, Alheio
  <2>5. EmOrdem(j)'
    BY <1>1, <2>1, <2>2 DEF EmOrdem, MemoriaOK, NoLaco, ComOrdem, Processos
  <2> QED
    BY <2>3, <2>4, <2>5
<1> QED
  BY <1>1, <1>2, <1>3, TiposDeUm

LEMMA TiposConsultar ==
    ASSUME Tipos, NEW p \in Processos, NEW periodo, Responder(p, periodo),
           pc[p] = "consultar" \/ (p = Manual /\ pc[p] = "fora"),
           UNCHANGED <<fora, tabelas, dia, existentes, fila, atual, cursor, falhas, lock>>
    PROVE  /\ Tipos'
           /\ \A r \in Processos \ {p} : Alheio(r)
           /\ pc'[p] = "buscar"
           /\ \A o \in Ordens : resposta'[p][o] = IF DiaDe[o] \in periodo THEN bq[o] ELSE NULL
<1> USE SincronizacaoAssumption DEF Tipos
<1> DEFINE nova == [o \in Ordens |-> IF DiaDe[o] \in periodo THEN bq[o] ELSE NULL]
<1>1. nova \in [Ordens -> Versoes \cup {NULL}]
  BY DEF TabelasOK
<1>2. /\ pc' = [pc EXCEPT ![p] = "buscar"] /\ resposta' = [resposta EXCEPT ![p] = nova]
      /\ UNCHANGED <<dia, existentes, fila, atual, cursor, trava>>
  BY DEF Responder, lock
<1>3. TabelasOK'
  BY TabelasIguais DEF TabelasOK
<1>4. resposta'[p] = nova
  BY <1>2 DEF MemoriaOK
<1> HIDE DEF nova
<1>5. MemoriaOK'
  BY <1>1, <1>2 DEF MemoriaOK, Passos
<1>6. \A r \in Processos \ {p} : Alheio(r)
  BY <1>2 DEF MemoriaOK, Alheio
<1>7. EmOrdem(p)'
  BY <1>2, <1>4 DEF EmOrdem, MemoriaOK, NoLaco, ComOrdem, Processos
<1> QED
  BY <1>2, <1>3, <1>4, <1>5, <1>6, <1>7, TiposDeUm DEF nova, MemoriaOK

LEMMA TiposBuscar ==
    ASSUME Tipos, NEW p \in Processos, BuscarPorBqIds(p)
    PROVE  /\ Tipos'
           /\ \A r \in Processos \ {p} : Alheio(r)
           /\ \A o \in Ordens : existentes'[p][o] =
                 IF resposta[p][o] # NULL THEN ordem[o] ELSE Inexistente
<1> USE SincronizacaoAssumption DEF Tipos
<1> DEFINE copia == [o \in Ordens |-> IF resposta[p][o] # NULL THEN ordem[o] ELSE Inexistente]
           dela  == {o \in Ordens : resposta[p][o] # NULL}
<1>1. Inexistente \in LinhaOrdem
  BY DEF Inexistente, LinhaOrdem, NULL
<1>2. copia \in [Ordens -> LinhaOrdem]
  BY <1>1 DEF TabelasOK
<1>3. /\ pc[p] = "buscar" /\ pc' = [pc EXCEPT ![p] = "laco"]
      /\ existentes' = [existentes EXCEPT ![p] = copia]
      /\ fila' = [fila EXCEPT ![p] = dela]
      /\ UNCHANGED <<dia, resposta, atual, cursor, trava>>
  BY DEF BuscarPorBqIds, lock
<1>4. TabelasOK'
  BY TabelasIguais DEF TabelasOK, BuscarPorBqIds
<1>5. existentes'[p] = copia /\ fila'[p] = dela
  BY <1>3 DEF MemoriaOK
<1>6. \A o \in dela : resposta[p][o] # NULL
  OBVIOUS
<1>7. \A o \in Ordens : copia[o] = IF resposta[p][o] # NULL THEN ordem[o] ELSE Inexistente
  OBVIOUS
<1>8. dela \subseteq Ordens
  OBVIOUS
<1> HIDE DEF copia, dela
<1>9. MemoriaOK'
  BY <1>2, <1>3, <1>8 DEF MemoriaOK, Passos
<1>10. \A r \in Processos \ {p} : Alheio(r)
  BY <1>3 DEF MemoriaOK, Alheio
<1>11. EmOrdem(p)'
  BY <1>3, <1>5, <1>6 DEF EmOrdem, MemoriaOK, NoLaco, ComOrdem
<1> QED
  BY <1>4, <1>5, <1>7, <1>9, <1>10, <1>11, TiposDeUm

LEMMA MemoriaDePassar ==
    ASSUME Tipos, NEW p \in Processos, NEW o \in Ordens, NEW passo \in ComOrdem,
           Passar(p, o, passo), pc[p] \in NoLaco, resposta[p][o] # NULL, UNCHANGED lock
    PROVE  /\ MemoriaOK' /\ EmOrdem(p)'
           /\ \A r \in Processos \ {p} : Alheio(r)
           /\ pc'[p] = passo /\ atual'[p] = o
<1> USE SincronizacaoAssumption DEF Tipos
<1>1. /\ pc' = [pc EXCEPT ![p] = passo] /\ atual' = [atual EXCEPT ![p] = o]
      /\ UNCHANGED <<dia, resposta, existentes, fila, cursor, trava>>
  BY DEF Passar, lock
<1>2. MemoriaOK'
  BY <1>1 DEF MemoriaOK, ComOrdem, Passos
<1>3. \A r \in Processos \ {p} : Alheio(r)
  BY <1>1 DEF MemoriaOK, Alheio
<1>4. EmOrdem(p)'
  BY <1>1 DEF EmOrdem, MemoriaOK, ComOrdem, NoLaco
<1> QED
  BY <1>1, <1>2, <1>3, <1>4 DEF MemoriaOK

LEMMA MemoriaDeProxima ==
    ASSUME Tipos, NEW p \in Processos, NEW o \in Ordens,
           Proxima(p, o), pc[p] \in NoLaco, UNCHANGED lock
    PROVE  /\ MemoriaOK' /\ EmOrdem(p)'
           /\ \A r \in Processos \ {p} : Alheio(r)
           /\ pc'[p] = "laco"
<1> USE SincronizacaoAssumption DEF Tipos
<1>1. /\ pc' = [pc EXCEPT ![p] = "laco"] /\ atual' = [atual EXCEPT ![p] = Ninguem]
      /\ fila' = [fila EXCEPT ![p] = fila[p] \ {o}]
      /\ UNCHANGED <<dia, resposta, existentes, cursor, trava>>
  BY DEF Proxima, lock
<1>2. MemoriaOK'
  BY <1>1 DEF MemoriaOK, ComOrdem, Passos
<1>3. \A r \in Processos \ {p} : Alheio(r)
  BY <1>1 DEF MemoriaOK, Alheio
<1>4. EmOrdem(p)'
  BY <1>1 DEF EmOrdem, MemoriaOK, ComOrdem, NoLaco
<1> QED
  BY <1>1, <1>2, <1>3, <1>4 DEF MemoriaOK

\* What the loop writes of an order.
LEMMA DadosDaVersao ==
    ASSUME NEW v \in Versoes PROVE Dados[v] \in [Campos -> Nat] /\ v \in Nat /\ v # NULL
BY SincronizacaoAssumption DEF NULL

LEMMA VincularEscreve ==
    ASSUME NEW r \in LinhaOrdem, NEW e
    PROVE  /\ Vincular(r, e) \in LinhaOrdem
           /\ Vincular(r, e).existe = r.existe
           /\ Vincular(r, e).dados = r.dados
           /\ Vincular(r, e).grupo = r.grupo
           /\ Vincular(r, e).dono => r.dono \/ cadastro # "nenhum"
BY DEF Vincular, LinhaOrdem

LEMMA InserirEscreve ==
    ASSUME TabelasOK, NEW p \in Processos, NEW o \in Ordens, Inserir(p, o),
           resposta[p][o] \in Versoes
    PROVE  /\ ordem' \in [Ordens -> LinhaOrdem]
           /\ \A x \in Ordens \ {o} : ordem'[x] = ordem[x]
           /\ ordem'[o].existe
           /\ ordem'[o].dados = Dados[resposta[p][o]]
           /\ \A c \in Campos : ordem'[o].grupo[c] = NULL
           /\ ~ordem[o].existe /\ ~existentes[p][o].existe
<1>1. Nova(cadastro # "nenhum", resposta[p][o]) \in LinhaOrdem
  BY DadosDaVersao DEF Nova, LinhaOrdem, NULL
<1>2. ordem' = [ordem EXCEPT ![o] = Nova(cadastro # "nenhum", resposta[p][o])]
  BY DEF Inserir
<1> QED
  BY <1>1, <1>2 DEF Nova, TabelasOK, Inserir, Duplicada

LEMMA AtualizarEscreve ==
    ASSUME TabelasOK, NEW p \in Processos, NEW o \in Ordens, Atualizar(p, o),
           resposta[p][o] \in Versoes
    PROVE  /\ ordem' \in [Ordens -> LinhaOrdem]
           /\ \A x \in Ordens \ {o} : ordem'[x] = ordem[x]
           /\ ordem'[o].existe = ordem[o].existe
           /\ ordem'[o].grupo = ordem[o].grupo
           /\ \A c \in Campos : ordem'[o].dados[c] =
                 IF c \in Aplicaveis(p, o) THEN Dados[resposta[p][o]][c] ELSE ordem[o].dados[c]
           /\ existentes[p][o].existe
<1> DEFINE r == Vincular(ordem[o], existentes[p][o])
           novos == [c \in Campos |-> IF c \in Aplicaveis(p, o)
                                      THEN Dados[resposta[p][o]][c] ELSE r.dados[c]]
<1>1. /\ r \in LinhaOrdem /\ r.existe = ordem[o].existe
      /\ r.dados = ordem[o].dados /\ r.grupo = ordem[o].grupo
  BY VincularEscreve DEF TabelasOK
<1>2. ordem' = [ordem EXCEPT ![o] = [r EXCEPT !.dados = novos]]
  BY DEF Atualizar
<1> HIDE DEF r
<1>3. novos \in [Campos -> Nat]
  BY <1>1, DadosDaVersao DEF LinhaOrdem
<1>4. \A c \in Campos : novos[c] =
         IF c \in Aplicaveis(p, o) THEN Dados[resposta[p][o]][c] ELSE ordem[o].dados[c]
  BY <1>1
<1> HIDE DEF novos
<1>5. [r EXCEPT !.dados = novos] \in LinhaOrdem
  BY <1>1, <1>3 DEF LinhaOrdem
<1>6. ordem'[o] = [r EXCEPT !.dados = novos]
  BY <1>2 DEF TabelasOK
<1>7. ordem'[o].existe = ordem[o].existe /\ ordem'[o].grupo = ordem[o].grupo /\ ordem'[o].dados = novos
  BY <1>1, <1>6 DEF LinhaOrdem
<1>8. existentes[p][o].existe
  BY DEF Atualizar
<1>9. ordem' \in [Ordens -> LinhaOrdem]
  BY <1>2, <1>5 DEF TabelasOK
<1>10. \A x \in Ordens \ {o} : ordem'[x] = ordem[x]
  BY <1>2 DEF TabelasOK
<1> QED
  BY <1>4, <1>7, <1>8, <1>9, <1>10

LEMMA ManterEscreve ==
    ASSUME TabelasOK, NEW p \in Processos, NEW o \in Ordens, Manter(p, o)
    PROVE  /\ ordem' \in [Ordens -> LinhaOrdem]
           /\ \A x \in Ordens \ {o} : ordem'[x] = ordem[x]
           /\ ordem'[o].existe = ordem[o].existe
           /\ ordem'[o].grupo = ordem[o].grupo
           /\ ordem'[o].dados = ordem[o].dados
<1>1. ordem' = [ordem EXCEPT ![o] = Vincular(ordem[o], existentes[p][o])]
  BY DEF Manter
<1> QED
  BY <1>1, VincularEscreve DEF TabelasOK

LEMMA RespostaNaFila ==
    ASSUME Tipos, NEW p \in Processos, NEW o \in fila[p]
    PROVE  o \in Ordens /\ resposta[p][o] \in Versoes
BY DEF Tipos, MemoriaOK, EmOrdem

LEMMA RespostaEmMaos ==
    ASSUME Tipos, NEW p \in Processos, pc[p] \in ComOrdem
    PROVE  atual[p] \in Ordens /\ resposta[p][atual[p]] \in Versoes
BY DEF Tipos, MemoriaOK, EmOrdem

LEMMA TiposInserir ==
    ASSUME Tipos, NEW p \in Processos, NEW o \in Ordens, Inserir(p, o)
    PROVE  /\ Tipos'
           /\ \A r \in Processos \ {p} : Alheio(r)
           /\ pc'[p] = "auditar" /\ atual'[p] = o
<1> USE DEF Tipos
<1>1. pc[p] \in NoLaco /\ resposta[p][o] \in Versoes /\ resposta[p][o] # NULL
  BY RespostaNaFila, DadosDaVersao DEF Inserir, NoLaco
<1>2. TabelasOK'
  BY <1>1, InserirEscreve DEF TabelasOK, Inserir, fora
<1>3. UNCHANGED lock /\ Passar(p, o, "auditar") /\ "auditar" \in ComOrdem
  BY DEF Inserir, ComOrdem
<1> QED
  BY <1>1, <1>2, <1>3, MemoriaDePassar, TiposDeUm

LEMMA TiposAtualizar ==
    ASSUME Tipos, NEW p \in Processos, NEW o \in Ordens, Atualizar(p, o)
    PROVE  /\ Tipos'
           /\ \A r \in Processos \ {p} : Alheio(r)
           /\ pc'[p] = "auditar" /\ atual'[p] = o
<1> USE DEF Tipos
<1>1. pc[p] \in NoLaco /\ resposta[p][o] \in Versoes /\ resposta[p][o] # NULL
  BY RespostaNaFila, DadosDaVersao DEF Atualizar, NoLaco
<1>2. TabelasOK'
  BY <1>1, AtualizarEscreve DEF TabelasOK, Atualizar, fora
<1>3. UNCHANGED lock /\ Passar(p, o, "auditar") /\ "auditar" \in ComOrdem
  BY DEF Atualizar, ComOrdem
<1> QED
  BY <1>1, <1>2, <1>3, MemoriaDePassar, TiposDeUm

LEMMA TiposManter ==
    ASSUME Tipos, NEW p \in Processos, NEW o \in Ordens, Manter(p, o)
    PROVE  /\ Tipos'
           /\ \A r \in Processos \ {p} : Alheio(r)
           /\ \/ Contidos(p, o) = {} /\ pc'[p] = "laco" /\ vista' = [vista EXCEPT ![o] = resposta[p][o]]
              \/ Contidos(p, o) # {} /\ pc'[p] = "conter" /\ atual'[p] = o /\ vista' = vista
<1> USE DEF Tipos
<1>1. /\ pc[p] \in NoLaco /\ resposta[p][o] \in Versoes /\ resposta[p][o] # NULL
      /\ UNCHANGED lock
  BY RespostaNaFila, DadosDaVersao DEF Manter, NoLaco
<1>2. CASE Contidos(p, o) = {} /\ Proxima(p, o) /\ vista' = [vista EXCEPT ![o] = resposta[p][o]]
  <2>1. TabelasOK'
    BY <1>1, <1>2, ManterEscreve DEF TabelasOK, Manter, fora
  <2> QED
    BY <1>1, <1>2, <2>1, MemoriaDeProxima, TiposDeUm
<1>3. CASE Contidos(p, o) # {} /\ Passar(p, o, "conter") /\ UNCHANGED vista
  <2>1. TabelasOK'
    BY <1>1, <1>3, ManterEscreve DEF TabelasOK, Manter, fora
  <2>2. "conter" \in ComOrdem
    BY DEF ComOrdem
  <2> QED
    BY <1>1, <1>3, <2>1, <2>2, MemoriaDePassar, TiposDeUm
<1> QED
  BY <1>2, <1>3 DEF Manter

LEMMA TiposAuditar ==
    ASSUME Tipos, NEW p \in Processos, Auditar(p)
    PROVE  /\ Tipos'
           /\ \A r \in Processos \ {p} : Alheio(r)
           /\ \/ /\ existentes[p][atual[p]].existe /\ Contidos(p, atual[p]) # {}
                 /\ pc'[p] = "conter" /\ atual'[p] = atual[p] /\ vista' = vista
              \/ /\ ~(existentes[p][atual[p]].existe /\ Contidos(p, atual[p]) # {})
                 /\ pc'[p] = "laco"
                 /\ vista' = [vista EXCEPT ![atual[p]] = resposta[p][atual[p]]]
<1> USE DEF Tipos
<1> DEFINE o == atual[p]
<1>1. /\ pc[p] \in ComOrdem /\ pc[p] \in NoLaco /\ UNCHANGED lock
  BY DEF Auditar, NoLaco, ComOrdem
<1>2. /\ o \in Ordens /\ resposta[p][o] \in Versoes /\ resposta[p][o] # NULL
  BY <1>1, RespostaEmMaos, DadosDaVersao
<1>3. trilha' \subseteq Ordens \X Campos \X Nat
  <2>1. Escritos(p, o) \subseteq Campos
    BY DEF Escritos, Aplicaveis, Divergentes
  <2>2. \A c \in Escritos(p, o) : <<o, c, Dados[resposta[p][o]][c]>> \in Ordens \X Campos \X Nat
    BY <1>2, <2>1, DadosDaVersao
  <2> QED
    BY <2>2 DEF Auditar, TabelasOK
<1>4. CASE /\ existentes[p][o].existe /\ Contidos(p, o) # {}
           /\ Passar(p, o, "conter") /\ UNCHANGED vista
  <2>1. TabelasOK'
    BY <1>1, <1>3, <1>4 DEF TabelasOK, Auditar, fora
  <2>2. "conter" \in ComOrdem
    BY DEF ComOrdem
  <2> QED
    BY <1>1, <1>2, <1>4, <2>1, <2>2, MemoriaDePassar, TiposDeUm
<1>5. CASE /\ ~(existentes[p][o].existe /\ Contidos(p, o) # {})
           /\ Proxima(p, o)
           /\ vista' = [vista EXCEPT ![o] = resposta[p][o]]
  <2>1. TabelasOK'
    BY <1>1, <1>2, <1>3, <1>5 DEF TabelasOK, Auditar, fora
  <2> QED
    BY <1>1, <1>2, <1>5, <2>1, MemoriaDeProxima, TiposDeUm
<1> QED
  BY <1>4, <1>5 DEF Auditar

LEMMA TiposConter ==
    ASSUME Tipos, NEW p \in Processos, Conter(p)
    PROVE  /\ Tipos'
           /\ \A r \in Processos \ {p} : Alheio(r)
           /\ pc'[p] = "laco"
<1> USE DEF Tipos
<1> DEFINE o == atual[p]
           v == resposta[p][o]
<1>1. /\ pc[p] \in ComOrdem /\ pc[p] \in NoLaco /\ UNCHANGED lock /\ Proxima(p, o)
  BY DEF Conter, NoLaco, ComOrdem
<1>2. /\ o \in Ordens /\ v \in Versoes
  BY <1>1, RespostaEmMaos
<1>3. quarentena' \subseteq LinhaQuarentena
  <2>1. Contidos(p, o) \subseteq Campos
    BY DEF Contidos, Divergentes
  <2>2. [ordem |-> o, versao |-> v, campos |-> Contidos(p, o), status |-> "pendente"]
           \in LinhaQuarentena
    BY <1>2, <2>1 DEF LinhaQuarentena
  <2> QED
    BY <2>2 DEF Conter, TabelasOK
<1>4. TabelasOK'
  BY <1>2, <1>3 DEF TabelasOK, Conter, fora
<1> QED
  BY <1>1, <1>2, <1>4, MemoriaDeProxima, TiposDeUm

LEMMA TiposConcluir ==
    ASSUME Tipos, NEW p \in Processos, Concluir(p)
    PROVE  /\ Tipos'
           /\ \A r \in Processos \ {p} : Alheio(r)
           /\ existentes'[p] = SemExistentes /\ resposta'[p] = SemResposta
<1> USE SincronizacaoAssumption DEF Tipos
<1> DEFINE passo == IF p = Manual THEN "fora" ELSE "agrupar"
<1>1. /\ pc[p] = "laco" /\ fila[p] = {} /\ pc' = [pc EXCEPT ![p] = passo]
      /\ resposta' = [resposta EXCEPT ![p] = SemResposta]
      /\ existentes' = [existentes EXCEPT ![p] = SemExistentes]
      /\ UNCHANGED <<dia, fila, atual, cursor, trava>>
  BY DEF Concluir, lock
<1>2. SemResposta \in [Ordens -> Versoes \cup {NULL}] /\ SemExistentes \in [Ordens -> LinhaOrdem]
  BY DEF SemResposta, SemExistentes, Inexistente, LinhaOrdem, NULL
<1>3. MemoriaOK'
  BY <1>1, <1>2 DEF MemoriaOK, Passos
<1>4. \A r \in Processos \ {p} : Alheio(r)
  BY <1>1 DEF MemoriaOK, Alheio
<1>5. EmOrdem(p)'
  BY <1>1 DEF EmOrdem, MemoriaOK, ComOrdem, NoLaco, SemResposta, SemExistentes, Inexistente,
              Processos
<1>6. TabelasOK'
  BY TabelasIguais DEF Concluir, TabelasOK
<1> QED
  BY <1>1, <1>3, <1>4, <1>5, <1>6, TiposDeUm DEF MemoriaOK

LEMMA TiposAbrirCursor ==
    ASSUME Tipos, NEW j \in Jobs, AbrirCursor(j)
    PROVE  /\ Tipos'
           /\ \A r \in Processos \ {j} : Alheio(r)
           /\ \A o \in DOMAIN cursor'[j] :
                 o \in Agrupaveis(j) /\ cursor'[j][o] = ordem[o].dados["valor"]
           /\ ordem' = ordem /\ hoje' = hoje /\ dia' = dia /\ quarentena' = quarentena
<1> USE SincronizacaoAssumption DEF Tipos
<1> DEFINE c == [o \in Agrupaveis(j) |-> ordem[o].dados["valor"]]
<1>1. /\ j \in Processos
      /\ pc[j] = "agrupar" /\ pc' = [pc EXCEPT ![j] = "gravar"]
      /\ cursor' = [cursor EXCEPT ![j] = c]
      /\ UNCHANGED <<dia, resposta, existentes, fila, atual, trava>>
  BY DEF AbrirCursor, lock, Processos
<1>2. DOMAIN c \subseteq Ordens /\ \A o \in DOMAIN c : c[o] \in Nat
  BY DEF Agrupaveis, TabelasOK, LinhaOrdem, Campos
<1>3. \A o \in DOMAIN c : o \in Agrupaveis(j) /\ c[o] = ordem[o].dados["valor"]
  OBVIOUS
<1> HIDE DEF c
<1>4. cursor'[j] = c
  BY <1>1 DEF MemoriaOK
<1>5. MemoriaOK'
  BY <1>1 DEF MemoriaOK, Passos
<1>6. \A r \in Processos \ {j} : Alheio(r)
  BY <1>1 DEF MemoriaOK, Alheio
<1>7. EmOrdem(j)'
  BY <1>1, <1>2, <1>4 DEF EmOrdem, MemoriaOK, ComOrdem, NoLaco, Processos
<1>8. TabelasOK'
  BY TabelasIguais DEF AbrirCursor, TabelasOK
<1> QED
  BY <1>1, <1>3, <1>4, <1>5, <1>6, <1>7, <1>8, TiposDeUm
     DEF AbrirCursor, tabelas, fora

\* What a grouping writes.
Agrupou(os, c, pagamento, ns) ==
    /\ \A o \in Ordens \ os : ordem'[o] = ordem[o] /\ parcelas'[o] = parcelas[o]
    /\ \A o \in os :
          /\ ordem'[o].existe = ordem[o].existe /\ ordem'[o].dono = ordem[o].dono
          /\ ordem'[o].dados = ordem[o].dados
          /\ ordem'[o].grupo[c] = pagamento
          /\ parcelas'[o][c] = Append(parcelas[o][c], ns[o])
          /\ \A k \in Campos \ {c} : /\ ordem'[o].grupo[k] = ordem[o].grupo[k]
                                    /\ parcelas'[o][k] = parcelas[o][k]

LEMMA AgruparEscreve ==
    ASSUME TabelasOK, NEW os \in SUBSET Ordens, NEW c \in Campos, NEW pagamento \in Int,
           NEW ns, \A o \in os : ns[o] \in Nat, Agrupar(os, c, pagamento, ns)
    PROVE  /\ ordem' \in [Ordens -> LinhaOrdem]
           /\ parcelas' \in [Ordens -> [Campos -> Seq(Nat)]]
           /\ Agrupou(os, c, pagamento, ns)
<1>1. \A o \in Ordens : ordem[o] \in LinhaOrdem /\ parcelas[o] \in [Campos -> Seq(Nat)]
  BY DEF TabelasOK
<1>2. \A o \in Ordens : ordem'[o] = IF o \in os
                    THEN [ordem[o] EXCEPT !.grupo[c] = pagamento] ELSE ordem[o]
  BY DEF Agrupar
<1>3. \A o \in Ordens : parcelas'[o] = IF o \in os
                    THEN [parcelas[o] EXCEPT ![c] = Append(parcelas[o][c], ns[o])] ELSE parcelas[o]
  BY DEF Agrupar
<1>4. ASSUME NEW o \in os
      PROVE  /\ ordem'[o] \in LinhaOrdem
             /\ ordem'[o].existe = ordem[o].existe /\ ordem'[o].dono = ordem[o].dono
             /\ ordem'[o].dados = ordem[o].dados
             /\ ordem'[o].grupo[c] = pagamento
             /\ \A k \in Campos \ {c} : ordem'[o].grupo[k] = ordem[o].grupo[k]
  <2>1. ordem'[o] = [ordem[o] EXCEPT !.grupo = [ordem[o].grupo EXCEPT ![c] = pagamento]]
    BY <1>2
  <2>2. ordem[o] \in LinhaOrdem /\ ordem[o].grupo \in [Campos -> Int]
    BY <1>1 DEF LinhaOrdem
  <2> DEFINE g == [ordem[o].grupo EXCEPT ![c] = pagamento]
  <2>3. /\ g \in [Campos -> Int] /\ g[c] = pagamento
        /\ \A k \in Campos \ {c} : g[k] = ordem[o].grupo[k]
    BY <2>2
  <2> HIDE DEF g
  <2> QED
    BY <2>1, <2>2, <2>3 DEF LinhaOrdem, g
<1>5. ASSUME NEW o \in os
      PROVE  /\ parcelas'[o] \in [Campos -> Seq(Nat)]
             /\ parcelas'[o][c] = Append(parcelas[o][c], ns[o])
             /\ \A k \in Campos \ {c} : parcelas'[o][k] = parcelas[o][k]
  <2>1. ns[o] \in Nat /\ parcelas[o][c] \in Seq(Nat)
    BY <1>1
  <2>2. Append(parcelas[o][c], ns[o]) \in Seq(Nat)
    BY <2>1
  <2> QED
    BY <1>1, <1>3, <2>2
<1>6. ordem' \in [Ordens -> LinhaOrdem]
  <2>1. \A o \in Ordens : ordem'[o] \in LinhaOrdem
    BY <1>1, <1>2, <1>4
  <2> QED
    BY <2>1 DEF Agrupar
<1>7. parcelas' \in [Ordens -> [Campos -> Seq(Nat)]]
  <2>1. \A o \in Ordens : parcelas'[o] \in [Campos -> Seq(Nat)]
    BY <1>1, <1>3, <1>5
  <2> QED
    BY <2>1 DEF Agrupar
<1> QED
  BY <1>2, <1>3, <1>4, <1>5, <1>6, <1>7 DEF Agrupou

Contadas(j) == {o \in DOMAIN cursor[j] : cadastro = "comConta"}

LEMMA TiposAgruparOrdens ==
    ASSUME Tipos, NEW j \in Jobs, AgruparOrdens(j)
    PROVE  /\ Tipos'
           /\ \A r \in Processos \ {j} : Alheio(r)
           /\ cursor'[j] = SemCursor
           /\ Contadas(j) \in SUBSET Ordens
           /\ \A o \in Contadas(j) : cursor[j][o] \in Nat
           /\ DataPagamento(dia[j]) \in Int
           /\ DataPagamento(dia[j]) # NULL
           /\ Agrupar(Contadas(j), "valor", DataPagamento(dia[j]), cursor[j])
<1> USE SincronizacaoAssumption DEF Tipos
<1>1. /\ j \in Processos
      /\ pc[j] = "gravar" /\ pc' = [pc EXCEPT ![j] = "soltar"]
      /\ cursor' = [cursor EXCEPT ![j] = SemCursor]
      /\ UNCHANGED <<dia, resposta, existentes, fila, atual, trava>>
  BY DEF AgruparOrdens, lock, Processos
<1>2. MemoriaOK'
  BY <1>1 DEF MemoriaOK, Passos
<1>3. \A r \in Processos \ {j} : Alheio(r)
  BY <1>1 DEF MemoriaOK, Alheio
<1>4. cursor'[j] = SemCursor
  BY <1>1 DEF MemoriaOK
<1>5. EmOrdem(j)'
  BY <1>1, <1>4 DEF EmOrdem, MemoriaOK, ComOrdem, NoLaco, Processos, SemCursor
<1>6. DataPagamento(dia[j]) \in Int /\ DataPagamento(dia[j]) # NULL
  <2>1. dia[j] \in Int /\ dia[j] > 0
    BY <1>1 DEF MemoriaOK, NULL
  <2> QED
    BY <2>1, DataPagamentoDepois DEF NULL
<1>7. /\ Contadas(j) \in SUBSET Ordens /\ \A o \in Contadas(j) : cursor[j][o] \in Nat
  BY <1>1 DEF EmOrdem, Contadas
<1>8. Agrupar(Contadas(j), "valor", DataPagamento(dia[j]), cursor[j])
  BY DEF AgruparOrdens, Contadas
<1>9. "valor" \in Campos
  BY DEF Campos
<1>10. TabelasOK'
  <2>1. /\ ordem' \in [Ordens -> LinhaOrdem]
        /\ parcelas' \in [Ordens -> [Campos -> Seq(Nat)]]
    BY <1>6, <1>7, <1>8, <1>9, AgruparEscreve
  <2> QED
    BY <2>1 DEF AgruparOrdens, TabelasOK, fora
<1> QED
  BY <1>1, <1>2, <1>3, <1>4, <1>5, <1>6, <1>7, <1>8, <1>10, TiposDeUm

Gratuitas == {o \in Ordens : /\ ordem[o].dono
                             /\ cadastro = "comConta"
                             /\ Livre(ordem[o], "valorGratuidade")
                             /\ ordem[o].dados["valorGratuidade"] > 0
                             /\ DiaDe[o] = hoje}

LEMMA TiposAgruparGratuidade ==
    ASSUME Tipos, AgruparGratuidade
    PROVE  /\ Tipos'
           /\ \A r \in Processos : Alheio(r)
           /\ hoje \in Int /\ hoje # NULL
           /\ Agrupar(Gratuitas, "valorGratuidade", hoje,
                      [o \in Gratuitas |-> ordem[o].dados["valorGratuidade"]])
           /\ \A o \in Gratuitas : [x \in Gratuitas |-> ordem[x].dados["valorGratuidade"]][o] \in Nat
<1> USE SincronizacaoAssumption DEF Tipos
<1> DEFINE ns == [o \in Gratuitas |-> ordem[o].dados["valorGratuidade"]]
<1>1. UNCHANGED <<memoria, lock, hoje, bq, cadastro, quarentena, trilha, vista, falhas>>
  BY DEF AgruparGratuidade, fora
<1>2. Agrupar(Gratuitas, "valorGratuidade", hoje, ns)
  BY DEF AgruparGratuidade, Gratuitas
<1>3. "valorGratuidade" \in Campos /\ hoje \in Int /\ hoje # NULL /\ Gratuitas \in SUBSET Ordens
  BY DEF Campos, Gratuitas, TabelasOK, NULL
<1>4. \A o \in Gratuitas : ns[o] \in Nat
  BY <1>3 DEF TabelasOK, LinhaOrdem
<1>5. /\ ordem' \in [Ordens -> LinhaOrdem]
      /\ parcelas' \in [Ordens -> [Campos -> Seq(Nat)]]
  BY <1>2, <1>3, <1>4, AgruparEscreve
<1>6. TabelasOK'
  BY <1>1, <1>5 DEF TabelasOK
<1>7. MemoriaOK' /\ \A r \in Processos : Alheio(r)
  BY <1>1, AlheioNoFora
<1> QED
  BY <1>2, <1>3, <1>4, <1>6, <1>7, AlheioEmOrdem

\* Those that forget are as before they began.
LEMMA EsquecerMemoria ==
    ASSUME Tipos, NEW ps \in SUBSET Processos, Esquecer(ps), pc' \in [Processos -> Passos],
           trava' \in [Jobs -> {"fora", "rodando"}],
           \A r \in ps : pc'[r] \in {"fora", "soltar"},
           \A r \in ps : r \in Jobs => (pc'[r] # "fora" <=> trava'[r] = "rodando"),
           \A r \in ps : r = Manual => pc'[r] = "fora",
           \A r \in Processos \ ps : /\ pc'[r] = pc[r]
                                     /\ r \in Jobs => trava'[r] = trava[r]
    PROVE  /\ MemoriaOK'
           /\ \A r \in Processos : EmOrdem(r)'
           /\ \A r \in Processos \ ps : Alheio(r)
           /\ \A r \in ps : /\ resposta'[r] = SemResposta /\ existentes'[r] = SemExistentes
                            /\ fila'[r] = {} /\ cursor'[r] = SemCursor /\ dia'[r] = PrimeiroDia
<1> USE SincronizacaoAssumption DEF Tipos
<1>1. SemResposta \in [Ordens -> Versoes \cup {NULL}] /\ SemExistentes \in [Ordens -> LinhaOrdem]
  BY DEF SemResposta, SemExistentes, Inexistente, LinhaOrdem, NULL
<1>2. MemoriaOK'
  BY <1>1 DEF MemoriaOK, Esquecer
<1>3. \A r \in Processos \ ps : Alheio(r)
  BY DEF Alheio, Esquecer
<1>4. \A r \in ps : /\ resposta'[r] = SemResposta /\ existentes'[r] = SemExistentes
                    /\ fila'[r] = {} /\ cursor'[r] = SemCursor /\ dia'[r] = PrimeiroDia
                    /\ atual'[r] = Ninguem
  BY DEF Esquecer
<1>5. \A r \in ps : EmOrdem(r)'
  BY <1>4 DEF EmOrdem, NoLaco, ComOrdem, SemResposta, SemExistentes, Inexistente, SemCursor
<1> QED
  BY <1>2, <1>3, <1>4, <1>5, AlheioEmOrdem

LEMMA TiposReleaseLock ==
    ASSUME Tipos, NEW j \in Jobs, ReleaseLock(j)
    PROVE  /\ Tipos'
           /\ \A r \in Processos \ {j} : Alheio(r)
           /\ resposta'[j] = SemResposta /\ existentes'[j] = SemExistentes
           /\ fila'[j] = {} /\ cursor'[j] = SemCursor
           /\ pc'[j] = "fora"
<1> USE DEF Tipos
<1>1. /\ j \in Processos /\ j # Manual /\ {j} \in SUBSET Processos
      /\ pc' = [pc EXCEPT ![j] = "fora"] /\ Esquecer({j})
      /\ trava[j] = "rodando"
  BY SincronizacaoAssumption DEF ReleaseLock, Trava!ReleaseLock, Processos
<1>2. /\ trava' \in [Jobs -> {"fora", "rodando"}] /\ trava'[j] = "fora"
      /\ \A r \in Jobs \ {j} : trava'[r] = trava[r]
  BY <1>1, TravaDeUm DEF ReleaseLock
<1>3. pc' \in [Processos -> Passos] /\ pc'[j] = "fora"
  BY <1>1 DEF MemoriaOK, Passos
<1>4. \A r \in Processos \ {j} : pc'[r] = pc[r]
  BY <1>1 DEF MemoriaOK
<1>5. TabelasOK'
  BY TabelasIguais DEF ReleaseLock, TabelasOK
<1>6. /\ MemoriaOK' /\ \A r \in Processos : EmOrdem(r)'
      /\ \A r \in Processos \ {j} : Alheio(r)
      /\ \A r \in {j} : /\ resposta'[r] = SemResposta /\ existentes'[r] = SemExistentes
                        /\ fila'[r] = {} /\ cursor'[r] = SemCursor /\ dia'[r] = PrimeiroDia
  BY <1>1, <1>2, <1>3, <1>4, EsquecerMemoria
<1> QED
  BY <1>3, <1>5, <1>6

LEMMA TiposAbortar ==
    ASSUME Tipos, NEW p \in Processos, Abortar(p)
    PROVE  /\ Tipos'
           /\ \A r \in Processos \ {p} : Alheio(r)
           /\ resposta'[p] = SemResposta /\ existentes'[p] = SemExistentes
           /\ fila'[p] = {} /\ cursor'[p] = SemCursor
           /\ pc'[p] \in {"fora", "soltar"} /\ pc[p] # "fora"
<1> USE DEF Tipos
<1> DEFINE passo == IF p = Manual THEN "fora" ELSE "soltar"
<1>1. /\ {p} \in SUBSET Processos
      /\ pc' = [pc EXCEPT ![p] = passo] /\ Esquecer({p})
      /\ trava' = trava /\ pc[p] # "fora"
  BY DEF Abortar, lock
<1>2. trava' \in [Jobs -> {"fora", "rodando"}]
  BY <1>1 DEF MemoriaOK
<1>3. pc' \in [Processos -> Passos] /\ pc'[p] = passo
  BY <1>1 DEF MemoriaOK, Passos
<1>4. p \in Jobs => (p # Manual /\ (pc'[p] # "fora" <=> trava'[p] = "rodando"))
  BY <1>1, <1>3, SincronizacaoAssumption DEF EmOrdem
<1>5. \A r \in Processos \ {p} : pc'[r] = pc[r]
  BY <1>1 DEF MemoriaOK
<1>6. falhas' \in 0..MaxFalhas
  BY SincronizacaoAssumption DEF Abortar, TabelasOK
<1>7. TabelasOK'
  BY <1>6, TabelasIguais DEF Abortar
<1>8. /\ MemoriaOK' /\ \A r \in Processos : EmOrdem(r)'
      /\ \A r \in Processos \ {p} : Alheio(r)
      /\ \A r \in {p} : /\ resposta'[r] = SemResposta /\ existentes'[r] = SemExistentes
                        /\ fila'[r] = {} /\ cursor'[r] = SemCursor /\ dia'[r] = PrimeiroDia
  BY <1>1, <1>2, <1>3, <1>4, <1>5, EsquecerMemoria
<1> QED
  BY <1>1, <1>3, <1>7, <1>8

LEMMA TiposErroNaOrdem ==
    ASSUME Tipos, NEW p \in Processos, NEW o \in Ordens, ErroNaOrdem(p, o)
    PROVE  /\ Tipos'
           /\ \A r \in Processos \ {p} : Alheio(r)
           /\ pc'[p] = "laco"
<1> USE DEF Tipos
<1>1. pc[p] \in NoLaco /\ Proxima(p, o) /\ UNCHANGED lock
  BY DEF ErroNaOrdem, NoLaco
<1>2. falhas' \in 0..MaxFalhas
  BY SincronizacaoAssumption DEF ErroNaOrdem, TabelasOK
<1>3. TabelasOK'
  BY <1>2, TabelasIguais DEF ErroNaOrdem
<1> QED
  BY <1>1, <1>3, MemoriaDeProxima, TiposDeUm

Da(i) == {p \in Processos : InstanciaDe[p] = i}

LEMMA TiposReiniciar ==
    ASSUME Tipos, NEW i \in Instancias, Reiniciar(i)
    PROVE  /\ Tipos'
           /\ \A r \in Processos \ Da(i) : Alheio(r)
           /\ \A r \in Da(i) : /\ resposta'[r] = SemResposta /\ existentes'[r] = SemExistentes
                               /\ fila'[r] = {} /\ cursor'[r] = SemCursor
                               /\ pc'[r] = "fora"
<1> USE DEF Tipos
<1>1. /\ Da(i) \in SUBSET Processos /\ Esquecer(Da(i))
      /\ pc' = [p \in Processos |-> IF p \in Da(i) THEN "fora" ELSE pc[p]]
      /\ trava' = [e \in Jobs |-> IF [k \in Jobs |-> InstanciaDe[k]][e] = i THEN "fora" ELSE trava[e]]
  BY DEF Reiniciar, Trava!Reiniciar, Da
<1>2. trava' = [e \in Jobs |-> IF e \in Da(i) THEN "fora" ELSE trava[e]]
  BY <1>1 DEF Da, Processos
<1>3. /\ trava' \in [Jobs -> {"fora", "rodando"}] /\ pc' \in [Processos -> Passos]
      /\ \A r \in Da(i) : pc'[r] = "fora" /\ (r \in Jobs => trava'[r] = "fora")
      /\ \A r \in Processos \ Da(i) : pc'[r] = pc[r] /\ (r \in Jobs => trava'[r] = trava[r])
  BY <1>1, <1>2 DEF MemoriaOK, Passos
<1>4. TabelasOK'
  BY TabelasIguais DEF Reiniciar, TabelasOK
<1> HIDE DEF Da
<1>5. /\ MemoriaOK' /\ \A r \in Processos : EmOrdem(r)'
      /\ \A r \in Processos \ Da(i) : Alheio(r)
      /\ \A r \in Da(i) : /\ resposta'[r] = SemResposta /\ existentes'[r] = SemExistentes
                        /\ fila'[r] = {} /\ cursor'[r] = SemCursor /\ dia'[r] = PrimeiroDia
  BY <1>1, <1>3, EsquecerMemoria
<1> QED
  BY <1>3, <1>4, <1>5

\* The reviewer writes only the amounts held by the row.
LEMMA AprovarEscreve ==
    ASSUME TabelasOK, NEW q \in quarentena, Aprovar(q)
    PROVE  /\ q \in LinhaQuarentena /\ q.ordem \in Ordens /\ q.versao \in Versoes
           /\ [q EXCEPT !.status = "aprovada"] \in LinhaQuarentena
           /\ ordem' \in [Ordens -> LinhaOrdem]
           /\ \A x \in Ordens \ {q.ordem} : ordem'[x] = ordem[x]
           /\ ordem'[q.ordem].existe = ordem[q.ordem].existe
           /\ ordem'[q.ordem].dono = ordem[q.ordem].dono
           /\ ordem'[q.ordem].grupo = ordem[q.ordem].grupo
           /\ \A c \in Campos : ordem'[q.ordem].dados[c] =
                 IF c \in q.campos THEN Dados[q.versao][c] ELSE ordem[q.ordem].dados[c]
<1> DEFINE o == q.ordem
           novos == [c \in Campos |-> IF c \in q.campos THEN Dados[q.versao][c] ELSE ordem[o].dados[c]]
<1>1. /\ q \in LinhaQuarentena /\ o \in Ordens /\ q.versao \in Versoes
      /\ [q EXCEPT !.status = "aprovada"] \in LinhaQuarentena
  BY DEF TabelasOK, LinhaQuarentena
<1>2. ordem[o] \in LinhaOrdem /\ ordem[o].dados \in [Campos -> Nat]
  BY <1>1 DEF TabelasOK, LinhaOrdem
<1>3. novos \in [Campos -> Nat]
  BY <1>1, <1>2, DadosDaVersao
<1>4. ordem' = [ordem EXCEPT ![o] = [ordem[o] EXCEPT !.dados = novos]]
  BY DEF Aprovar
<1>5. \A c \in Campos : novos[c] = IF c \in q.campos THEN Dados[q.versao][c] ELSE ordem[o].dados[c]
  OBVIOUS
<1> HIDE DEF novos
<1>6. [ordem[o] EXCEPT !.dados = novos] \in LinhaOrdem
  BY <1>2, <1>3 DEF LinhaOrdem
<1>7. /\ ordem' \in [Ordens -> LinhaOrdem]
      /\ \A x \in Ordens \ {o} : ordem'[x] = ordem[x]
      /\ ordem'[o] = [ordem[o] EXCEPT !.dados = novos]
  BY <1>1, <1>4, <1>6 DEF TabelasOK
<1>8. /\ ordem'[o].existe = ordem[o].existe /\ ordem'[o].dono = ordem[o].dono
      /\ ordem'[o].grupo = ordem[o].grupo /\ ordem'[o].dados = novos
  BY <1>2, <1>7 DEF LinhaOrdem
<1> QED
  BY <1>1, <1>5, <1>7, <1>8

LEMMA TiposAprovar ==
    ASSUME Tipos, NEW q \in quarentena, Aprovar(q)
    PROVE  Tipos' /\ \A r \in Processos : Alheio(r)
<1> USE DEF Tipos
<1>1. MemoriaOK' /\ \A r \in Processos : Alheio(r)
  BY AlheioNoFora DEF Aprovar
<1>2. trilha' \subseteq Ordens \X Campos \X Nat
  <2>1. q.ordem \in Ordens /\ q.versao \in Versoes /\ q.campos \subseteq Campos
    BY DEF TabelasOK, LinhaQuarentena
  <2>2. \A c \in q.campos : <<q.ordem, c, Dados[q.versao][c]>> \in Ordens \X Campos \X Nat
    BY <2>1, DadosDaVersao
  <2> QED
    BY <2>2 DEF Aprovar, TabelasOK
<1>3. TabelasOK'
  <2>1. /\ ordem' \in [Ordens -> LinhaOrdem]
        /\ [q EXCEPT !.status = "aprovada"] \in LinhaQuarentena
    BY AprovarEscreve
  <2>2. quarentena' \subseteq LinhaQuarentena
    BY <2>1 DEF Aprovar, TabelasOK, Revisada
  <2>3. UNCHANGED <<fora, parcelas, vista, falhas>>
    BY DEF Aprovar
  <2> QED
    BY <1>2, <2>1, <2>2, <2>3 DEF TabelasOK, fora
<1> QED
  BY <1>1, <1>3, AlheioEmOrdem

LEMMA TiposRejeitar ==
    ASSUME Tipos, NEW q \in quarentena, Rejeitar(q)
    PROVE  /\ Tipos' /\ \A r \in Processos : Alheio(r)
           /\ [q EXCEPT !.status = "rejeitada"] \in LinhaQuarentena
<1> USE DEF Tipos
<1>1. MemoriaOK' /\ \A r \in Processos : Alheio(r)
  BY AlheioNoFora DEF Rejeitar
<1>2. [q EXCEPT !.status = "rejeitada"] \in LinhaQuarentena
  BY DEF TabelasOK, LinhaQuarentena
<1>3. TabelasOK'
  BY <1>2 DEF Rejeitar, TabelasOK, Revisada, fora
<1> QED
  BY <1>1, <1>2, <1>3, AlheioEmOrdem

LEMMA TiposFecharConexao ==
    ASSUME Tipos, FecharConexao
    PROVE  Tipos' /\ \A r \in Processos : Alheio(r)
<1> USE DEF Tipos
<1>1. trava' = trava /\ UNCHANGED memoria
  BY DEF FecharConexao, Trava!FecharConexao
<1>2. MemoriaOK' /\ \A r \in Processos : Alheio(r)
  BY <1>1 DEF MemoriaOK, Alheio, memoria
<1>3. TabelasOK'
  BY TabelasIguais DEF FecharConexao, TabelasOK
<1> QED
  BY <1>2, <1>3, AlheioEmOrdem

\* BigQuery, the registers and the day.
DoMundo == (\E o \in Ordens : Publicar(o) \/ Corrigir(o)) \/ Cadastrar \/ VirarDia

LEMMA TiposDoMundo ==
    ASSUME Tipos, DoMundo
    PROVE  /\ Tipos' /\ \A r \in Processos : Alheio(r)
           /\ UNCHANGED <<tabelas, memoria, lock>>
<1> USE DEF Tipos
<1>1. UNCHANGED <<tabelas, memoria, falhas, lock>>
  BY DEF DoMundo, Publicar, Corrigir, Cadastrar, VirarDia
<1>2. MemoriaOK' /\ \A r \in Processos : Alheio(r)
  BY <1>1, AlheioNoFora
<1>3. /\ hoje' \in PrimeiroDia..MaxDia
      /\ bq' \in [Ordens -> Versoes \cup {NULL}]
      /\ cadastro' \in {"nenhum", "semConta", "comConta"}
  <2>1. ASSUME NEW o \in Ordens, Publicar(o) \/ Corrigir(o)
        PROVE  bq' \in [Ordens -> Versoes \cup {NULL}] /\ UNCHANGED <<hoje, cadastro>>
    <3>1. PICK v \in Versoes : bq' = [bq EXCEPT ![o] = v]
      BY <2>1, SincronizacaoAssumption DEF Publicar, Corrigir
    <3> QED
      BY <2>1, <3>1 DEF TabelasOK, Publicar, Corrigir
  <2>2. ASSUME Cadastrar
        PROVE  UNCHANGED <<hoje, bq>> /\ cadastro' \in {"nenhum", "semConta", "comConta"}
    BY <2>2 DEF Cadastrar
  <2>3. ASSUME VirarDia
        PROVE  UNCHANGED <<bq, cadastro>> /\ hoje' \in PrimeiroDia..MaxDia
    BY <2>3, SincronizacaoAssumption DEF VirarDia, TabelasOK
  <2> QED
    BY <2>1, <2>2, <2>3 DEF DoMundo, TabelasOK
<1>4. TabelasOK'
  BY <1>1, <1>3 DEF TabelasOK, tabelas
<1> QED
  BY <1>1, <1>2, <1>4, AlheioEmOrdem

\* The step of a process, by its kinds.
LEMMA TiposPasso ==
    ASSUME Tipos, [Next]_vars PROVE Tipos'
<1>1. CASE DoMundo
  BY <1>1, TiposDoMundo
<1>2. ASSUME NEW p \in Processos, Passo(p) PROVE Tipos'
  BY <1>2, TiposBuscar, TiposAuditar, TiposConter, TiposConcluir, TiposInserir,
     TiposAtualizar, TiposManter DEF Passo
<1>3. ASSUME NEW j \in Jobs, Consultar(j) PROVE Tipos'
  <2>1. j \in Processos
    BY DEF Processos
  <2> QED
    BY <1>3, <2>1, TiposConsultar DEF Consultar
<1>4. CASE IniciarManual
  <2>1. Manual \in Processos
    BY DEF Processos
  <2> QED
    BY <1>4, <2>1, TiposConsultar DEF IniciarManual
<1>5. ASSUME NEW j \in Jobs, AcquireLock(j) \/ PassoDoJob(j) PROVE Tipos'
  <2>1. j \in Processos
    BY DEF Processos
  <2> QED
    BY <1>2, <1>3, <1>5, <2>1, TiposAcquireLock, TiposAbrirCursor, TiposAgruparOrdens,
       TiposReleaseLock DEF PassoDoJob
<1>6. ASSUME NEW p \in Processos, Abortar(p) \/ \E o \in Ordens : ErroNaOrdem(p, o) PROVE Tipos'
  BY <1>6, TiposAbortar, TiposErroNaOrdem
<1>7. ASSUME NEW q \in quarentena, Aprovar(q) \/ Rejeitar(q) PROVE Tipos'
  BY <1>7, TiposAprovar, TiposRejeitar
<1>8. CASE UNCHANGED vars
  BY <1>8 DEF vars, Tipos, TabelasOK, MemoriaOK, EmOrdem, fora, tabelas, memoria, lock
<1>9. Manual \in Processos
  BY DEF Processos
<1> QED
  BY <1>1, <1>2, <1>4, <1>5, <1>6, <1>7, <1>8, <1>9, TiposAgruparGratuidade,
     TiposReiniciar, TiposFecharConexao DEF Next, DoMundo

LEMMA TiposSempre == Spec => []Tipos
BY TiposInit, TiposPasso, PTL DEF Spec

\* The types, and where an execution is: every step of the synchronisation, a
\* failure of it, a restart and a review keep them, whatever the risks.
THEOREM TypeOKSempre == Spec => []TypeOK
BY TiposSempre, TiposImplicam, PTL

-----------------------------------------------------------------------------
(* What a step may do to the orders and to the memory of the executions.   *)

\* No order changes, and no execution learns anything.
Calmo ==
    /\ UNCHANGED <<ordem, parcelas>>
    /\ \A p \in Processos : /\ existentes'[p] \in {existentes[p], SemExistentes}
                            /\ cursor'[p] \in {cursor[p], SemCursor}
                            /\ resposta'[p] \in {resposta[p], SemResposta}

Pergunta(p) ==
    /\ pc[p] \in {"fora", "consultar"} /\ pc'[p] = "buscar"
    /\ \A r \in Processos \ {p} : Alheio(r)
    /\ \A o \in Ordens : resposta'[p][o] \in {bq[o], NULL}
    /\ UNCHANGED <<fora, tabelas, dia, existentes, cursor, lock>>

LEMMA AlheioECalmo ==
    ASSUME NEW r \in Processos, Alheio(r)
    PROVE  /\ existentes'[r] \in {existentes[r], SemExistentes}
           /\ cursor'[r] \in {cursor[r], SemCursor}
           /\ resposta'[r] \in {resposta[r], SemResposta}
BY DEF Alheio

LEMMA CalmoNoFora ==
    ASSUME UNCHANGED <<ordem, parcelas>>, \A r \in Processos : Alheio(r) PROVE Calmo
BY AlheioECalmo DEF Calmo

\* The steps of the loop that write no order, and those of the lock.
LEMMA CalmoDoProcesso ==
    ASSUME Tipos, NEW p \in Processos,
           \/ Auditar(p) \/ Conter(p) \/ Concluir(p) \/ Abortar(p)
           \/ \E o \in Ordens : ErroNaOrdem(p, o)
           \/ p \in Jobs /\ (AcquireLock(p) \/ ReleaseLock(p))
    PROVE  Calmo
<1>1. UNCHANGED <<ordem, parcelas>>
  BY DEF Auditar, Conter, Concluir, Abortar, ErroNaOrdem, AcquireLock, ReleaseLock, tabelas
<1>2. \A r \in Processos \ {p} : Alheio(r)
  BY TiposAuditar, TiposConter, TiposConcluir, TiposAbortar, TiposErroNaOrdem,
     TiposAcquireLock, TiposReleaseLock
<1>3. CASE Abortar(p) \/ (p \in Jobs /\ ReleaseLock(p))
  <2>1. /\ resposta'[p] = SemResposta /\ existentes'[p] = SemExistentes
        /\ cursor'[p] = SemCursor
    BY <1>3, TiposAbortar, TiposReleaseLock
  <2> QED
    BY <1>1, <1>2, <2>1, AlheioECalmo DEF Calmo
<1>4. CASE Concluir(p)
  <2>1. /\ resposta'[p] = SemResposta /\ existentes'[p] = SemExistentes
    BY <1>4, TiposConcluir
  <2>2. cursor' = cursor
    BY <1>4 DEF Concluir
  <2> QED
    BY <1>1, <1>2, <2>1, <2>2, AlheioECalmo DEF Calmo
<1>5. CASE \/ Auditar(p) \/ Conter(p)
           \/ \E o \in Ordens : ErroNaOrdem(p, o)
           \/ p \in Jobs /\ AcquireLock(p)
  <2>1. UNCHANGED <<resposta, existentes, cursor>>
    BY <1>5 DEF Auditar, Conter, ErroNaOrdem, AcquireLock, Passar, Proxima
  <2> QED
    BY <1>1, <2>1 DEF Calmo
<1> QED
  BY <1>3, <1>4, <1>5

LEMMA CalmoDaInstancia ==
    ASSUME Tipos, NEW i \in Instancias, Reiniciar(i) PROVE Calmo
<1>1. UNCHANGED <<ordem, parcelas>>
  BY DEF Reiniciar, tabelas
<1>2. \A r \in Processos \ Da(i) : Alheio(r)
  BY TiposReiniciar
<1>3. \A r \in Da(i) : /\ resposta'[r] = SemResposta /\ existentes'[r] = SemExistentes
                       /\ cursor'[r] = SemCursor
  BY TiposReiniciar
<1> QED
  BY <1>1, <1>2, <1>3, AlheioECalmo DEF Calmo

LEMMA PerguntaDeUm ==
    ASSUME Tipos, NEW p \in Processos, \/ p \in Jobs /\ Consultar(p)
                                       \/ p = Manual /\ IniciarManual
    PROVE  Pergunta(p)
<1>1. PICK periodo : /\ Responder(p, periodo)
                     /\ pc[p] = "consultar" \/ (p = Manual /\ pc[p] = "fora")
  BY DEF Consultar, IniciarManual
<1>2. UNCHANGED <<fora, tabelas, dia, existentes, fila, atual, cursor, falhas, lock>>
  BY DEF Consultar, IniciarManual
<1>3. /\ \A r \in Processos \ {p} : Alheio(r)
      /\ pc'[p] = "buscar"
      /\ \A o \in Ordens : resposta'[p][o] = IF DiaDe[o] \in periodo THEN bq[o] ELSE NULL
  BY <1>1, <1>2, TiposConsultar
<1> QED
  BY <1>1, <1>2, <1>3 DEF Pergunta

LEMMA Casos ==
    ASSUME Tipos, [Next]_vars
    PROVE  \/ Calmo
           \/ \E p \in Processos : Pergunta(p) \/ BuscarPorBqIds(p)
           \/ \E p \in Processos, o \in Ordens : Inserir(p, o) \/ Atualizar(p, o) \/ Manter(p, o)
           \/ \E j \in Jobs : AbrirCursor(j) \/ AgruparOrdens(j)
           \/ AgruparGratuidade
           \/ \E q \in quarentena : Aprovar(q)
<1>0. Manual \in Processos /\ \A j \in Jobs : j \in Processos
  BY DEF Processos
<1>1. CASE DoMundo \/ FecharConexao \/ \E q \in quarentena : Rejeitar(q)
  <2>1. UNCHANGED <<ordem, parcelas>>
    BY <1>1, TiposDoMundo DEF FecharConexao, Rejeitar, tabelas
  <2>2. \A r \in Processos : Alheio(r)
    BY <1>1, TiposDoMundo, TiposFecharConexao, TiposRejeitar
  <2> QED
    BY <2>1, <2>2, CalmoNoFora
<1>2. CASE UNCHANGED vars
  BY <1>2 DEF vars, Calmo, tabelas, memoria
<1>3. CASE \E p \in Processos : Abortar(p) \/ \E o \in Ordens : ErroNaOrdem(p, o)
  BY <1>3, CalmoDoProcesso
<1>4. CASE \E i \in Instancias : Reiniciar(i)
  BY <1>4, CalmoDaInstancia
<1>5. CASE \E p \in Processos : Passo(p)
  BY <1>5, CalmoDoProcesso DEF Passo
<1>6. CASE \E j \in Jobs : AcquireLock(j) \/ ReleaseLock(j)
  BY <1>0, <1>6, CalmoDoProcesso
<1>7. CASE IniciarManual \/ \E j \in Jobs : Consultar(j)
  BY <1>0, <1>7, PerguntaDeUm
<1>8. CASE \E j \in Jobs : AbrirCursor(j) \/ AgruparOrdens(j)
  BY <1>8
<1>9. CASE AgruparGratuidade \/ \E q \in quarentena : Aprovar(q)
  BY <1>9
<1> QED
  BY <1>0, <1>1, <1>2, <1>3, <1>4, <1>5, <1>6, <1>7, <1>8, <1>9 DEF Next, DoMundo, PassoDoJob

\* A step is of this execution, or it leaves it alone.
LEMMA DeQuem ==
    ASSUME Tipos, [Next]_vars, NEW r \in Processos
    PROVE  \/ Alheio(r)
           \/ Passo(r) \/ Abortar(r) \/ \E o \in Ordens : ErroNaOrdem(r, o)
           \/ /\ r \in Jobs
              /\ \/ AcquireLock(r) \/ Consultar(r) \/ AbrirCursor(r)
                 \/ AgruparOrdens(r) \/ ReleaseLock(r)
           \/ r = Manual /\ IniciarManual
           \/ \E i \in Instancias : Reiniciar(i) /\ r \in Da(i)
<1>0. Manual \in Processos /\ \A j \in Jobs : j \in Processos
  BY DEF Processos
<1>1. CASE DoMundo \/ FecharConexao \/ AgruparGratuidade
  BY <1>1, TiposDoMundo, TiposFecharConexao, TiposAgruparGratuidade
<1>2. CASE \E q \in quarentena : Aprovar(q) \/ Rejeitar(q)
  BY <1>2, TiposAprovar, TiposRejeitar
<1>3. CASE UNCHANGED vars
  BY <1>3 DEF vars, memoria, lock, Alheio
<1>4. ASSUME NEW p \in Processos, Abortar(p) \/ \E o \in Ordens : ErroNaOrdem(p, o), p # r
      PROVE  Alheio(r)
  BY <1>4, TiposAbortar, TiposErroNaOrdem
<1>5. ASSUME NEW i \in Instancias, Reiniciar(i), r \notin Da(i) PROVE Alheio(r)
  BY <1>5, TiposReiniciar
<1>6. ASSUME NEW p \in Processos, Passo(p), p # r PROVE Alheio(r)
  BY <1>6, TiposBuscar, TiposAuditar, TiposConter, TiposConcluir, TiposInserir,
     TiposAtualizar, TiposManter DEF Passo
<1>7. ASSUME NEW j \in Jobs, j # r, \/ AcquireLock(j) \/ Consultar(j) \/ AbrirCursor(j)
                                    \/ AgruparOrdens(j) \/ ReleaseLock(j)
      PROVE  Alheio(r)
  BY <1>0, <1>7, PerguntaDeUm, TiposAcquireLock, TiposAbrirCursor, TiposAgruparOrdens,
     TiposReleaseLock DEF Pergunta
<1>8. ASSUME IniciarManual, Manual # r PROVE Alheio(r)
  BY <1>0, <1>8, PerguntaDeUm DEF Pergunta
<1> QED
  BY <1>0, <1>1, <1>2, <1>3, <1>4, <1>5, <1>6, <1>7, <1>8 DEF Next, DoMundo, PassoDoJob

\* Outside, only the world moves.
LEMMA ForaFica == ASSUME [Next]_vars PROVE DoMundo \/ UNCHANGED fora
<1>1. ASSUME NEW p \in Processos, Passo(p) \/ Abortar(p) \/ \E o \in Ordens : ErroNaOrdem(p, o)
      PROVE  UNCHANGED fora
  BY <1>1 DEF Passo, BuscarPorBqIds, Auditar, Conter, Concluir, Inserir, Atualizar, Manter,
              Abortar, ErroNaOrdem
<1>2. ASSUME NEW j \in Jobs, \/ AcquireLock(j) \/ Consultar(j) \/ AbrirCursor(j)
                             \/ AgruparOrdens(j) \/ ReleaseLock(j)
      PROVE  UNCHANGED fora
  BY <1>2 DEF AcquireLock, Consultar, AbrirCursor, AgruparOrdens, ReleaseLock
<1>3. CASE \/ IniciarManual \/ AgruparGratuidade \/ FecharConexao \/ UNCHANGED vars
           \/ \E i \in Instancias : Reiniciar(i)
           \/ \E q \in quarentena : Aprovar(q) \/ Rejeitar(q)
  BY <1>3 DEF IniciarManual, AgruparGratuidade, FecharConexao, vars, Reiniciar, Aprovar, Rejeitar
<1>4. Manual \in Processos /\ \A j \in Jobs : j \in Processos
  BY DEF Processos
<1> QED
  BY <1>1, <1>2, <1>3, <1>4 DEF Next, DoMundo, PassoDoJob

-----------------------------------------------------------------------------
(* The rows.                                                               *)

\* An order that was not inserted has no owner and is in no grouping, and
\* nobody has a copy of it or is about to group it.
Linhas ==
    /\ \A o \in Ordens : ordem[o].dono => ordem[o].existe
    /\ \A o \in Ordens, c \in Campos : ~ordem[o].existe => Livre(ordem[o], c)
    /\ \A p \in Processos, o \in Ordens : existentes[p][o].existe => ordem[o].existe
    /\ \A p \in Processos : \A o \in DOMAIN cursor[p] : ordem[o].existe

LEMMA LinhasInit == Init => Linhas
BY DEF Init, Linhas, SemExistentes, Inexistente, Livre, SemCursor

\* The loop writes an order only after a copy or an insert of it.
LEMMA LinhasDoLaco ==
    ASSUME Tipos, Tipos', Linhas, NEW p \in Processos, NEW o \in Ordens,
           Inserir(p, o) \/ Atualizar(p, o) \/ Manter(p, o)
    PROVE  /\ UNCHANGED <<existentes, resposta, cursor, parcelas>>
           /\ \A x \in Ordens \ {o} : ordem'[x] = ordem[x]
           /\ ordem[o].existe => /\ ordem'[o].existe
                                 /\ ordem'[o].grupo = ordem[o].grupo
           /\ ~ordem[o].existe => \A c \in Campos : Livre(ordem'[o], c)
           /\ ordem'[o].existe
<1> USE DEF Tipos
<1>1. UNCHANGED <<existentes, resposta, cursor, parcelas>>
  BY DEF Inserir, Atualizar, Manter, Passar, Proxima
<1>2. CASE Inserir(p, o)
  <2>1. resposta[p][o] \in Versoes
    BY <1>2, RespostaNaFila DEF Inserir
  <2> QED
    BY <1>1, <1>2, <2>1, InserirEscreve DEF Livre
<1>3. CASE Atualizar(p, o)
  <2>1. resposta[p][o] \in Versoes
    BY <1>3, RespostaNaFila DEF Atualizar
  <2>2. ordem[o].existe
    BY <1>3 DEF Atualizar, Linhas
  <2> QED
    BY <1>1, <1>3, <2>1, <2>2, AtualizarEscreve
<1>4. CASE Manter(p, o)
  <2>1. ordem[o].existe
    BY <1>4 DEF Manter, Linhas
  <2> QED
    BY <1>1, <1>4, <2>1, ManterEscreve
<1> QED
  BY <1>2, <1>3, <1>4

LEMMA SemPrazo ==
    /\ DOMAIN SemCursor = {}
    /\ \A o \in Ordens : /\ SemResposta[o] = NULL /\ SemExistentes[o] = Inexistente
                         /\ ~SemExistentes[o].existe /\ ~SemExistentes[o].dono
BY DEF SemCursor, SemResposta, SemExistentes, Inexistente

LEMMA LinhasPasso ==
    ASSUME Tipos, Tipos', Linhas, [Next]_vars PROVE Linhas'
<1> USE DEF Tipos
<1>0. /\ \A j \in Jobs : j \in Processos
      /\ \A p \in Processos : \A o \in DOMAIN cursor[p] : o \in Ordens
  BY DEF Processos, EmOrdem
<1>1. CASE Calmo
  BY <1>1, SemPrazo DEF Calmo, Linhas, Livre
<1>2. ASSUME NEW p \in Processos, Pergunta(p) PROVE Linhas'
  BY <1>2 DEF Pergunta, Linhas, Livre, tabelas
<1>3. ASSUME NEW p \in Processos, BuscarPorBqIds(p) PROVE Linhas'
  <2>1. UNCHANGED <<ordem, cursor>>
    BY <1>3 DEF BuscarPorBqIds, tabelas
  <2>2. \A r \in Processos \ {p} : existentes'[r] = existentes[r]
    BY <1>3, TiposBuscar DEF Alheio
  <2>3. \A o \in Ordens : existentes'[p][o].existe => ordem[o].existe
    BY <1>3, TiposBuscar DEF Inexistente
  <2> QED
    BY <2>1, <2>2, <2>3 DEF Linhas, Livre
<1>4. ASSUME NEW p \in Processos, NEW o \in Ordens,
             Inserir(p, o) \/ Atualizar(p, o) \/ Manter(p, o)
      PROVE  Linhas'
  <2>1. /\ UNCHANGED <<existentes, cursor>>
        /\ \A x \in Ordens \ {o} : ordem'[x] = ordem[x]
        /\ ordem'[o].existe
    BY <1>4, LinhasDoLaco
  <2>2. \A x \in Ordens : /\ ordem'[x].dono => ordem'[x].existe
                          /\ ordem[x].existe => ordem'[x].existe
    BY <2>1 DEF Linhas
  <2>3. \A x \in Ordens, c \in Campos : ~ordem'[x].existe => Livre(ordem'[x], c)
    BY <2>1 DEF Linhas
  <2> QED
    BY <1>0, <2>1, <2>2, <2>3 DEF Linhas
<1>5. ASSUME NEW j \in Jobs, AbrirCursor(j) PROVE Linhas'
  <2>1. ordem' = ordem /\ existentes' = existentes
    BY <1>5 DEF AbrirCursor, tabelas
  <2>2. \A r \in Processos \ {j} : cursor'[r] = cursor[r]
    BY <1>5, TiposAbrirCursor DEF Alheio
  <2>3. \A o \in DOMAIN cursor'[j] : o \in Agrupaveis(j)
    BY <1>5, TiposAbrirCursor
  <2>4. \A o \in Agrupaveis(j) : ordem[o].existe
    BY DEF Agrupaveis, Linhas
  <2> QED
    BY <2>1, <2>2, <2>3, <2>4 DEF Linhas, Livre
<1>6. ASSUME NEW j \in Jobs, AgruparOrdens(j) PROVE Linhas'
  <2>1. /\ Contadas(j) \in SUBSET Ordens /\ DataPagamento(dia[j]) \in Int
        /\ \A o \in Contadas(j) : cursor[j][o] \in Nat
        /\ Agrupar(Contadas(j), "valor", DataPagamento(dia[j]), cursor[j])
        /\ cursor'[j] = SemCursor /\ \A r \in Processos \ {j} : Alheio(r)
    BY <1>6, TiposAgruparOrdens
  <2>2. "valor" \in Campos
    BY DEF Campos
  <2>3. /\ \A o \in Ordens \ Contadas(j) : ordem'[o] = ordem[o]
        /\ \A o \in Contadas(j) : ordem'[o].existe = ordem[o].existe
    BY <2>1, <2>2, AgruparEscreve DEF Agrupou
  <2>4. \A o \in Contadas(j) : ordem[o].existe
    BY <1>0 DEF Contadas, Linhas
  <2>5. existentes' = existentes
    BY <1>6 DEF AgruparOrdens
  <2>6. \A r \in Processos : cursor'[r] \in {cursor[r], SemCursor}
    BY <1>0, <2>1 DEF Alheio
  <2>7. \A o \in Ordens : /\ ordem'[o].existe = ordem[o].existe
                          /\ ordem'[o].dono => ordem[o].dono \/ ordem[o].existe
    BY <2>3, <2>4
  <2>8. \A o \in Ordens, c \in Campos : ~ordem'[o].existe => Livre(ordem'[o], c)
    BY <2>3, <2>4, <2>7 DEF Linhas
  <2> QED
    BY <1>0, <2>5, <2>6, <2>7, <2>8, SemPrazo DEF Linhas
<1>7. ASSUME AgruparGratuidade PROVE Linhas'
  <2>1. /\ Gratuitas \in SUBSET Ordens /\ hoje \in Int /\ "valorGratuidade" \in Campos
        /\ \A o \in Gratuitas : ordem[o].dono
    BY <1>7, TiposAgruparGratuidade DEF Gratuitas, Campos
  <2>2. /\ \A o \in Ordens \ Gratuitas : ordem'[o] = ordem[o]
        /\ \A o \in Gratuitas : ordem'[o].existe = ordem[o].existe
    <3> DEFINE ns == [o \in Gratuitas |-> ordem[o].dados["valorGratuidade"]]
    <3>1. /\ Agrupar(Gratuitas, "valorGratuidade", hoje, ns)
          /\ \A o \in Gratuitas : ns[o] \in Nat
      BY <1>7, TiposAgruparGratuidade
    <3> HIDE DEF ns
    <3>2. Agrupou(Gratuitas, "valorGratuidade", hoje, ns)
      BY <2>1, <3>1, AgruparEscreve
    <3> QED
      BY <3>2 DEF Agrupou
  <2>3. UNCHANGED <<existentes, cursor>>
    BY <1>7 DEF AgruparGratuidade, memoria
  <2>4. \A o \in Ordens : ordem'[o].existe = ordem[o].existe
    BY <2>2
  <2>5. \A o \in Gratuitas : ordem[o].existe
    BY <2>1 DEF Linhas
  <2>6. \A o \in Ordens : ordem'[o].dono => ordem'[o].existe
    BY <2>2, <2>4, <2>5 DEF Linhas
  <2>7. \A o \in Ordens, c \in Campos : ~ordem'[o].existe => Livre(ordem'[o], c)
    BY <2>2, <2>4, <2>5 DEF Linhas
  <2>8. \A p \in Processos : \A o \in DOMAIN cursor[p] : o \in Ordens
    BY DEF EmOrdem
  <2> QED
    BY <2>3, <2>4, <2>6, <2>7, <2>8 DEF Linhas
<1>8. ASSUME NEW q \in quarentena, Aprovar(q) PROVE Linhas'
  <2>1. UNCHANGED <<existentes, cursor>>
    BY <1>8 DEF Aprovar, memoria
  <2>2. \A x \in Ordens : /\ ordem'[x].existe = ordem[x].existe
                          /\ ordem'[x].dono = ordem[x].dono
                          /\ ordem'[x].grupo = ordem[x].grupo
    BY <1>8, AprovarEscreve
  <2>3. \A p \in Processos : \A o \in DOMAIN cursor[p] : o \in Ordens
    BY DEF EmOrdem
  <2> QED
    BY <2>1, <2>2, <2>3 DEF Linhas, Livre
<1> QED
  BY <1>1, <1>2, <1>3, <1>4, <1>5, <1>6, <1>7, <1>8, Casos

LEMMA LinhasSempre == Spec => []Linhas
BY LinhasInit, LinhasPasso, TiposSempre, PTL DEF Spec

-----------------------------------------------------------------------------
(* The lock, and the amounts of the groupings.                             *)

\* A step of the synchronisation is for the lock a step of it, or none.
LEMMA PassoDaTrava == ASSUME [Next]_vars PROVE [Trava!Next]_(Trava!vars)
<1> SUFFICES Trava!Next \/ UNCHANGED lock
  BY DEF lock, Trava!vars
<1>1. CASE DoMundo \/ IniciarManual \/ AgruparGratuidade \/ UNCHANGED vars
  BY <1>1 DEF DoMundo, Publicar, Corrigir, Cadastrar, VirarDia, IniciarManual,
              AgruparGratuidade, vars
<1>2. ASSUME NEW p \in Processos,
             Passo(p) \/ Abortar(p) \/ \E o \in Ordens : ErroNaOrdem(p, o)
      PROVE  UNCHANGED lock
  BY <1>2 DEF Passo, BuscarPorBqIds, Auditar, Conter, Concluir, Inserir, Atualizar, Manter,
              Abortar, ErroNaOrdem
<1>3. ASSUME NEW j \in Jobs, Consultar(j) \/ AbrirCursor(j) \/ AgruparOrdens(j)
      PROVE  UNCHANGED lock
  BY <1>3 DEF Consultar, AbrirCursor, AgruparOrdens
<1>4. ASSUME NEW j \in Jobs, AcquireLock(j) \/ ReleaseLock(j) PROVE Trava!Next
  BY <1>4 DEF AcquireLock, ReleaseLock, Trava!Next
<1>5. ASSUME NEW i \in Instancias, Reiniciar(i) PROVE Trava!Next
  BY <1>5 DEF Reiniciar, Trava!Next
<1>6. CASE FecharConexao
  BY <1>6 DEF FecharConexao, Trava!Next
<1>7. ASSUME NEW q \in quarentena, Aprovar(q) \/ Rejeitar(q) PROVE UNCHANGED lock
  BY <1>7 DEF Aprovar, Rejeitar
<1>8. Manual \in Processos /\ \A j \in Jobs : j \in Processos
  BY DEF Processos
<1> QED
  BY <1>1, <1>2, <1>3, <1>4, <1>5, <1>6, <1>7, <1>8 DEF Next, DoMundo, PassoDoJob

\* The synchronisation takes, keeps and leaves the lock as TravaDistribuida
\* says: what is true of the lock there is true of it here.
THEOREM CumpreATrava == Spec => Trava!Spec
<1>1. Init => Trava!Init
  BY DEF Init
<1> QED
  BY <1>1, PassoDaTrava, PTL DEF Spec, Trava!Spec

\* Where the lock is held on the session of whoever runs, one job runs.
UmJob ==
    /\ \A j \in Jobs : trava[j] = "rodando" =>
          dona \in Conexoes /\ PoolDe[dona] = InstanciaDe[j]
    /\ \A j, k \in Jobs : trava[j] = "rodando" /\ trava[k] = "rodando" => j = k

LEMMA UmJobInit == Init => UmJob
BY DEF Init, UmJob, Trava!Init

LEMMA UmJobPasso ==
    ASSUME Riscos \cap {"mesmaConexao", "conexaoFecha"} = {},
           Tipos, UmJob, [Next]_vars
    PROVE  UmJob'
<1> USE DEF UmJob
<1>1. trava \in [Jobs -> {"fora", "rodando"}]
  BY DEF Tipos, MemoriaOK
<1>2. ASSUME NEW j \in Jobs, Trava!AcquireLock(j) PROVE UmJob'
  <2>1. PICK c \in Conexoes : /\ PoolDe[c] = InstanciaDe[j] /\ dona' = c
                              /\ dona \in {Ninguem, c}
                              /\ c # dona \/ Trava!Rodando = {}
    BY <1>2 DEF Trava!AcquireLock, Trava!Pool, Trava!PgTryAdvisoryLock
  <2>2. \A k \in Jobs : trava[k] # "rodando"
    <3> SUFFICES ASSUME NEW k \in Jobs, trava[k] = "rodando" PROVE FALSE
      OBVIOUS
    <3>1. k \in Trava!Rodando /\ dona \in Conexoes
      BY DEF Trava!Rodando
    <3> QED
      BY <2>1, <3>1, SincronizacaoAssumption
  <2>3. trava' = [trava EXCEPT ![j] = "rodando"]
    BY <1>2 DEF Trava!AcquireLock
  <2> QED
    BY <1>1, <2>1, <2>2, <2>3
<1>3. ASSUME NEW j \in Jobs, Trava!ReleaseLock(j) PROVE UmJob'
  <2>1. trava[j] = "rodando" /\ trava' = [trava EXCEPT ![j] = "fora"]
    BY <1>3 DEF Trava!ReleaseLock
  <2> QED
    BY <1>1, <2>1
<1>4. CASE Trava!FecharConexao
  <2>1. \A k \in Jobs : trava[k] # "rodando"
    BY <1>4 DEF Trava!FecharConexao, Trava!Rodando
  <2> QED
    BY <1>4, <2>1 DEF Trava!FecharConexao
<1>5. ASSUME NEW i \in Instancias, Trava!Reiniciar(i) PROVE UmJob'
  <2>1. \A k \in Jobs : trava'[k] = IF InstanciaDe[k] = i THEN "fora" ELSE trava[k]
    BY <1>5 DEF Trava!Reiniciar
  <2>2. dona \in Conexoes /\ PoolDe[dona] # i => dona' = dona
    BY <1>5 DEF Trava!Reiniciar
  <2> QED
    BY <2>1, <2>2
<1>6. CASE UNCHANGED lock
  BY <1>6 DEF lock
<1> QED
  BY <1>2, <1>3, <1>4, <1>5, <1>6, PassoDaTrava DEF Trava!Next, Trava!vars, lock

LEMMA UmJobSempre ==
    ASSUME Riscos \cap {"mesmaConexao", "conexaoFecha"} = {} PROVE Spec => []UmJob
BY UmJobInit, UmJobPasso, TiposSempre, PTL DEF Spec

\* The inductive part of SomadaUmaVez: what is about to be grouped is free.
CursorLivre == \A j \in Jobs : \A o \in DOMAIN cursor[j] : Livre(ordem[o], "valor")
Somadas == SomadaUmaVez /\ CursorLivre

LEMMA SomadasInit == Init => Somadas
<1> SUFFICES ASSUME Init PROVE Somadas
  OBVIOUS
<1>1. \A o \in Ordens, c \in Campos : parcelas[o][c] = <<>> /\ Livre(ordem[o], c)
  BY DEF Init, SemExistentes, Inexistente, Livre
<1>2. \A j \in Jobs : DOMAIN cursor[j] = {}
  BY SemPrazo DEF Init, Processos
<1>3. Len(<<>>) = 0
  OBVIOUS
<1> QED
  BY <1>1, <1>2, <1>3 DEF Somadas, SomadaUmaVez, CursorLivre

UmaParcela(os, c, ns) == \A o \in os : parcelas'[o][c] = <<ns[o]>>

\* A grouping of free orders adds their amount to a total that had none.
LEMMA AgruparSoma ==
    ASSUME TabelasOK, SomadaUmaVez, NEW os \in SUBSET Ordens, NEW c \in Campos,
           NEW pagamento \in Int, pagamento # NULL, NEW ns, \A o \in os : ns[o] \in Nat,
           Agrupar(os, c, pagamento, ns), \A o \in os : Livre(ordem[o], c)
    PROVE  /\ SomadaUmaVez'
           /\ UmaParcela(os, c, ns)
<1>1. Agrupou(os, c, pagamento, ns)
  BY AgruparEscreve
<1>2. ASSUME NEW o \in os PROVE parcelas'[o][c] = <<ns[o]>> /\ Len(parcelas'[o][c]) = 1
  <2>1. parcelas[o][c] \in Seq(Nat) /\ Len(parcelas[o][c]) = 0
    BY DEF SomadaUmaVez, TabelasOK
  <2>2. parcelas[o][c] = <<>>
    BY <2>1
  <2>3. parcelas'[o][c] = <<ns[o]>>
    BY <1>1, <2>2 DEF Agrupou
  <2> QED
    BY <2>3
<1>3. ASSUME NEW o \in os PROVE ~Livre(ordem'[o], c)
  BY <1>1 DEF Livre, Agrupou
<1>4. ASSUME NEW o \in Ordens, NEW k \in Campos, o \notin os \/ k # c
      PROVE  parcelas'[o][k] = parcelas[o][k] /\ (Livre(ordem'[o], k) <=> Livre(ordem[o], k))
  BY <1>1, <1>4 DEF Livre, Agrupou
<1>5. ASSUME NEW o \in Ordens, NEW k \in Campos
      PROVE  Len(parcelas'[o][k]) = IF Livre(ordem'[o], k) THEN 0 ELSE 1
  <2>1. CASE o \in os /\ k = c
    BY <1>2, <1>3, <2>1
  <2>2. CASE o \notin os \/ k # c
    BY <1>4, <2>2 DEF SomadaUmaVez
  <2> QED
    BY <2>1, <2>2
<1> QED
  BY <1>2, <1>5 DEF SomadaUmaVez, UmaParcela

LEMMA SomadasPasso ==
    ASSUME Tipos, Tipos', Linhas, UmJob, Somadas, [Next]_vars PROVE Somadas'
<1> USE DEF Tipos, Somadas
<1>0. /\ \A j \in Jobs : j \in Processos
      /\ \A p \in Processos : \A o \in DOMAIN cursor[p] : o \in Ordens
      /\ "valor" \in Campos /\ "valorGratuidade" \in Campos /\ "valor" # "valorGratuidade"
  BY DEF Processos, EmOrdem, Campos
<1>1. CASE Calmo
  <2>1. \A j \in Jobs : cursor'[j] \in {cursor[j], SemCursor}
    BY <1>0, <1>1 DEF Calmo
  <2> QED
    BY <1>1, <2>1, SemPrazo DEF Calmo, SomadaUmaVez, CursorLivre
<1>2. ASSUME NEW p \in Processos, Pergunta(p) \/ BuscarPorBqIds(p) PROVE Somadas'
  <2>1. UNCHANGED <<ordem, parcelas, cursor>>
    BY <1>2 DEF Pergunta, BuscarPorBqIds, tabelas
  <2> QED
    BY <2>1 DEF SomadaUmaVez, CursorLivre
<1>3. ASSUME NEW p \in Processos, NEW o \in Ordens,
             Inserir(p, o) \/ Atualizar(p, o) \/ Manter(p, o)
      PROVE  Somadas'
  <2>1. UNCHANGED <<parcelas, cursor>>
    BY <1>3, LinhasDoLaco
  <2>2. \A x \in Ordens, c \in Campos : Livre(ordem'[x], c) <=> Livre(ordem[x], c)
    BY <1>3, LinhasDoLaco DEF Linhas, Livre
  <2> QED
    BY <1>0, <2>1, <2>2 DEF SomadaUmaVez, CursorLivre
<1>4. ASSUME NEW j \in Jobs, AbrirCursor(j) PROVE Somadas'
  <2>1. UNCHANGED <<ordem, parcelas>>
    BY <1>4 DEF AbrirCursor, tabelas
  <2>2. \A k \in Jobs \ {j} : cursor'[k] = cursor[k]
    BY <1>0, <1>4, TiposAbrirCursor DEF Alheio
  <2>3. \A o \in DOMAIN cursor'[j] : Livre(ordem[o], "valor")
    BY <1>4, TiposAbrirCursor DEF Agrupaveis
  <2> QED
    BY <2>1, <2>2, <2>3 DEF SomadaUmaVez, CursorLivre
<1>5. ASSUME NEW j \in Jobs, AgruparOrdens(j) PROVE Somadas'
  <2>1. /\ Contadas(j) \in SUBSET Ordens /\ DataPagamento(dia[j]) \in Int
        /\ DataPagamento(dia[j]) # NULL
        /\ \A o \in Contadas(j) : cursor[j][o] \in Nat
        /\ Agrupar(Contadas(j), "valor", DataPagamento(dia[j]), cursor[j])
        /\ cursor'[j] = SemCursor
    BY <1>5, TiposAgruparOrdens
  <2>2. \A o \in Contadas(j) : Livre(ordem[o], "valor")
    BY DEF Contadas, CursorLivre
  <2>3. SomadaUmaVez'
    BY <1>0, <2>1, <2>2, AgruparSoma
  <2>4. \A k \in Jobs \ {j} : DOMAIN cursor'[k] = {}
    <3>1. pc[j] = "gravar" /\ "gravar" # "fora"
      BY <1>5 DEF AgruparOrdens
    <3>2. ASSUME NEW k \in Jobs \ {j} PROVE pc[k] = "fora"
      BY <1>0, <3>1 DEF EmOrdem, UmJob
    <3>3. \A k \in Jobs \ {j} : cursor'[k] = cursor[k]
      BY <1>0, <1>5, TiposAgruparOrdens DEF Alheio
    <3>4. \A k \in Jobs \ {j} : DOMAIN cursor[k] = {}
      BY <1>0, <3>2 DEF EmOrdem
    <3> QED
      BY <3>3, <3>4
  <2> QED
    BY <2>1, <2>3, <2>4, SemPrazo DEF CursorLivre
<1>6. ASSUME AgruparGratuidade PROVE Somadas'
  <2>1. /\ Gratuitas \in SUBSET Ordens
        /\ \A o \in Gratuitas : Livre(ordem[o], "valorGratuidade")
    BY DEF Gratuitas
  <2> DEFINE ns == [o \in Gratuitas |-> ordem[o].dados["valorGratuidade"]]
  <2>2. /\ hoje \in Int /\ hoje # NULL
        /\ Agrupar(Gratuitas, "valorGratuidade", hoje, ns)
        /\ \A o \in Gratuitas : ns[o] \in Nat
    BY <1>6, TiposAgruparGratuidade
  <2> HIDE DEF ns
  <2>3. SomadaUmaVez'
    BY <1>0, <2>1, <2>2, AgruparSoma
  <2>4. \A o \in Ordens : Livre(ordem'[o], "valor") <=> Livre(ordem[o], "valor")
    <3>1. Agrupou(Gratuitas, "valorGratuidade", hoje, ns)
      BY <1>0, <2>1, <2>2, AgruparEscreve
    <3> QED
      BY <1>0, <3>1 DEF Livre, Agrupou
  <2>5. cursor' = cursor
    BY <1>6 DEF AgruparGratuidade, memoria
  <2> QED
    BY <1>0, <2>3, <2>4, <2>5 DEF CursorLivre
<1>7. ASSUME NEW q \in quarentena, Aprovar(q) PROVE Somadas'
  <2>1. UNCHANGED <<parcelas, cursor>>
    BY <1>7 DEF Aprovar, memoria
  <2>2. \A x \in Ordens : ordem'[x].grupo = ordem[x].grupo
    BY <1>7, AprovarEscreve
  <2> QED
    BY <1>0, <2>1, <2>2 DEF SomadaUmaVez, CursorLivre, Livre
<1> QED
  BY <1>1, <1>2, <1>3, <1>4, <1>5, <1>6, <1>7, Casos

LEMMA SomadasSempre ==
    ASSUME Riscos \cap {"mesmaConexao", "conexaoFecha"} = {} PROVE Spec => []Somadas
BY SomadasInit, SomadasPasso, UmJobSempre, LinhasSempre, TiposSempre, PTL DEF Spec

\* An amount enters one total, once: whatever a manual synchronisation, a
\* reviewer, BigQuery, failures and restarts do, as long as one job runs.
THEOREM SomadaUmaVezSempre ==
    ASSUME Riscos \cap {"mesmaConexao", "conexaoFecha"} = {} PROVE Spec => []SomadaUmaVez
<1>1. Somadas => SomadaUmaVez
  BY DEF Somadas
<1> QED
  BY <1>1, SomadasSempre, PTL

-----------------------------------------------------------------------------
(* One execution at a time: what is in a grouping stays as it was summed.  *)

\* Who was not running runs by taking the lock, or is the manual one.
LEMMA QuemComeca ==
    ASSUME Tipos, [Next]_vars, NEW r \in Processos, pc[r] = "fora", pc'[r] # "fora"
    PROVE  \/ r \in Jobs /\ AcquireLock(r)
           \/ r = Manual /\ IniciarManual
<1>1. ~Alheio(r)
  BY DEF Alheio
<1>2. ~Passo(r) /\ ~Abortar(r) /\ ~\E o \in Ordens : ErroNaOrdem(r, o)
  BY DEF Passo, BuscarPorBqIds, Auditar, Conter, Concluir, Inserir, Atualizar, Manter,
         Abortar, ErroNaOrdem
<1>3. ~Consultar(r) /\ ~AbrirCursor(r) /\ ~AgruparOrdens(r) /\ ~ReleaseLock(r)
  BY DEF Consultar, AbrirCursor, AgruparOrdens, ReleaseLock
<1>4. ~\E i \in Instancias : Reiniciar(i) /\ r \in Da(i)
  BY TiposReiniciar
<1> QED
  BY <1>1, <1>2, <1>3, <1>4, DeQuem

SoUm == \A p, r \in Processos : pc[p] # "fora" /\ pc[r] # "fora" => p = r

LEMMA SoUmPasso ==
    ASSUME "sobrepor" \notin Riscos, Tipos, Tipos', UmJob', SoUm, [Next]_vars
    PROVE  SoUm'
<1>0. Manual \in Processos /\ \A j \in Jobs : j \in Processos
  BY DEF Processos
<1>1. ASSUME NEW j \in Jobs, pc'[j] # "fora", pc'[Manual] # "fora" PROVE FALSE
  <2>1. Manual # j
    BY SincronizacaoAssumption
  <2>2. CASE pc[j] = "fora"
    <3>1. AcquireLock(j)
      BY <1>0, <1>1, <2>1, <2>2, QuemComeca
    <3>2. pc[Manual] = "fora" /\ pc'[Manual] = pc[Manual]
      BY <1>0, <2>1, <3>1, TiposAcquireLock DEF AcquireLock, Alheio
    <3> QED
      BY <1>1, <3>2
  <2>3. CASE pc[Manual] = "fora"
    <3>1. IniciarManual
      BY <1>0, <1>1, <2>3, QuemComeca, SincronizacaoAssumption
    <3>2. pc[j] = "fora" /\ pc'[j] = pc[j]
      BY <1>0, <2>1, <3>1, PerguntaDeUm DEF IniciarManual, Parados, Pergunta, Alheio
    <3> QED
      BY <1>1, <3>2
  <2>4. CASE pc[j] # "fora" /\ pc[Manual] # "fora"
    BY <1>0, <2>1, <2>4 DEF SoUm
  <2> QED
    BY <2>2, <2>3, <2>4
<1>2. ASSUME NEW j \in Jobs, NEW k \in Jobs, pc'[j] # "fora", pc'[k] # "fora" PROVE j = k
  <2>1. trava'[j] = "rodando" /\ trava'[k] = "rodando"
    BY <1>0, <1>2 DEF Tipos, EmOrdem
  <2> QED
    BY <2>1 DEF UmJob
<1> QED
  BY <1>1, <1>2 DEF SoUm, Processos

LEMMA SoUmSempre ==
    ASSUME Riscos \cap {"mesmaConexao", "conexaoFecha", "sobrepor"} = {}
    PROVE  Spec => []SoUm
<1>1. Init => SoUm
  BY DEF Init, SoUm
<1>2. "sobrepor" \notin Riscos /\ Riscos \cap {"mesmaConexao", "conexaoFecha"} = {}
  OBVIOUS
<1>3. Spec => []UmJob
  BY <1>2, UmJobSempre
<1>4. SoUm /\ Tipos /\ Tipos' /\ UmJob' /\ [Next]_vars => SoUm'
  BY <1>2, SoUmPasso
<1> QED
  BY <1>1, <1>3, <1>4, TiposSempre, PTL DEF Spec

\* A copy tells what its order is in, while the execution that has it runs.
CopiaFiel == \A p \in Processos, o \in Ordens :
    existentes[p][o].existe => \A c \in Campos : existentes[p][o].grupo[c] = ordem[o].grupo[c]

LEMMA CopiaFielPasso ==
    ASSUME "sobrepor" \notin Riscos, Tipos, Tipos', Linhas, SoUm, CopiaFiel, [Next]_vars
    PROVE  CopiaFiel'
<1> USE DEF Tipos
<1>0. /\ \A j \in Jobs : j \in Processos
      /\ "valor" \in Campos /\ "valorGratuidade" \in Campos /\ "valor" # "valorGratuidade"
  BY DEF Processos, Campos
<1>1. CASE Calmo
  BY <1>1, SemPrazo DEF Calmo, CopiaFiel
<1>2. ASSUME NEW p \in Processos, Pergunta(p) PROVE CopiaFiel'
  BY <1>2 DEF Pergunta, CopiaFiel, tabelas
<1>3. ASSUME NEW p \in Processos, BuscarPorBqIds(p) PROVE CopiaFiel'
  <2>1. ordem' = ordem
    BY <1>3 DEF BuscarPorBqIds, tabelas
  <2>2. \A r \in Processos \ {p} : existentes'[r] = existentes[r]
    BY <1>3, TiposBuscar DEF Alheio
  <2>3. \A o \in Ordens : existentes'[p][o].existe => existentes'[p][o] = ordem[o]
    BY <1>3, TiposBuscar DEF Inexistente
  <2> QED
    BY <2>1, <2>2, <2>3 DEF CopiaFiel
<1>4. ASSUME NEW p \in Processos, NEW o \in Ordens,
             Inserir(p, o) \/ Atualizar(p, o) \/ Manter(p, o)
      PROVE  CopiaFiel'
  <2>1. /\ existentes' = existentes
        /\ \A x \in Ordens \ {o} : ordem'[x] = ordem[x]
        /\ ordem[o].existe => ordem'[o].grupo = ordem[o].grupo
    BY <1>4, LinhasDoLaco
  <2> QED
    BY <2>1 DEF CopiaFiel, Linhas
<1>5. ASSUME NEW j \in Jobs, AbrirCursor(j) PROVE CopiaFiel'
  BY <1>5 DEF AbrirCursor, tabelas, CopiaFiel
<1>6. ASSUME \A p \in Processos : pc[p] \notin NoLaco, existentes' = existentes
      PROVE  CopiaFiel'
  BY <1>6 DEF EmOrdem, CopiaFiel
<1>7. ASSUME NEW j \in Jobs, AgruparOrdens(j) PROVE CopiaFiel'
  <2>1. pc[j] = "gravar" /\ existentes' = existentes
    BY <1>7 DEF AgruparOrdens
  <2>2. \A p \in Processos : pc[p] \notin NoLaco
    BY <1>0, <2>1 DEF SoUm, NoLaco
  <2> QED
    BY <1>6, <2>1, <2>2
<1>8. ASSUME AgruparGratuidade PROVE CopiaFiel'
  BY <1>6, <1>8 DEF AgruparGratuidade, Parados, NoLaco, memoria
<1>9. ASSUME NEW q \in quarentena, Aprovar(q) PROVE CopiaFiel'
  <2>1. existentes' = existentes
    BY <1>9 DEF Aprovar, memoria
  <2>2. \A x \in Ordens : ordem'[x].grupo = ordem[x].grupo
    BY <1>9, AprovarEscreve
  <2> QED
    BY <2>1, <2>2 DEF CopiaFiel
<1> QED
  BY <1>1, <1>2, <1>3, <1>4, <1>5, <1>7, <1>8, <1>9, Casos

\* An approval is not undone.
Aprovada(o, c) == \E q \in quarentena : q.ordem = o /\ c \in q.campos /\ q.status = "aprovada"

LEMMA AprovadaFica ==
    ASSUME Tipos, [Next]_vars, NEW q \in quarentena, q.status # "pendente"
    PROVE  q \in quarentena'
<1>1. CASE \E p \in Processos : Conter(p)
  BY <1>1 DEF Conter
<1>2. ASSUME NEW w \in quarentena, Aprovar(w) \/ Rejeitar(w) PROVE q \in quarentena'
  BY <1>2 DEF Aprovar, Rejeitar, Revisada
<1>3. CASE DoMundo \/ FecharConexao \/ AgruparGratuidade \/ IniciarManual
  BY <1>3, TiposDoMundo DEF FecharConexao, AgruparGratuidade, IniciarManual, tabelas
<1>4. CASE UNCHANGED vars
  BY <1>4 DEF vars, tabelas
<1>5. CASE \E p \in Processos : Abortar(p) \/ \E o \in Ordens : ErroNaOrdem(p, o)
  BY <1>5 DEF Abortar, ErroNaOrdem, tabelas
<1>6. CASE \E i \in Instancias : Reiniciar(i)
  BY <1>6 DEF Reiniciar, tabelas
<1>7. ASSUME NEW p \in Processos, Passo(p) PROVE q \in quarentena'
  BY <1>1, <1>7 DEF Passo, BuscarPorBqIds, Auditar, Concluir, Inserir, Atualizar, Manter, tabelas
<1>8. ASSUME NEW j \in Jobs, \/ AcquireLock(j) \/ Consultar(j) \/ AbrirCursor(j)
                             \/ AgruparOrdens(j) \/ ReleaseLock(j)
      PROVE  q \in quarentena'
  BY <1>8 DEF AcquireLock, Consultar, AbrirCursor, AgruparOrdens, ReleaseLock, tabelas
<1>9. Manual \in Processos /\ \A j \in Jobs : j \in Processos
  BY DEF Processos
<1> QED
  BY <1>2, <1>3, <1>4, <1>5, <1>6, <1>7, <1>8, <1>9 DEF Next, DoMundo, PassoDoJob

LEMMA AprovadaSempreFica ==
    ASSUME Tipos, [Next]_vars, NEW o, NEW c, Aprovada(o, c) PROVE Aprovada(o, c)'
<1>1. PICK q \in quarentena : q.ordem = o /\ c \in q.campos /\ q.status = "aprovada"
  BY DEF Aprovada
<1>2. q \in quarentena'
  BY <1>1, AprovadaFica
<1> QED
  BY <1>1, <1>2 DEF Aprovada

\* The approval of an amount is in the quarantine.
LEMMA AprovarAprova ==
    ASSUME Tipos, NEW q \in quarentena, Aprovar(q), NEW c \in q.campos
    PROVE  /\ [q EXCEPT !.status = "aprovada"] \in quarentena'
           /\ Aprovada(q.ordem, c)'
<1> DEFINE w == [q EXCEPT !.status = "aprovada"]
<1>1. w \in quarentena'
  BY DEF Aprovar, Revisada
<1>2. q \in LinhaQuarentena
  BY DEF Tipos, TabelasOK
<1>3. w.ordem = q.ordem /\ w.campos = q.campos /\ w.status = "aprovada"
  BY <1>2 DEF LinhaQuarentena
<1> QED
  BY <1>1, <1>3 DEF Aprovada

\* An amount in a grouping stays there, and only an approval changes it.
LEMMA ContidaFica ==
    ASSUME "sobrepor" \notin Riscos, Tipos, Tipos', Linhas, SoUm, CopiaFiel, CursorLivre,
           [Next]_vars, NEW o \in Ordens, NEW c \in Campos, ~Livre(ordem[o], c)
    PROVE  /\ ~Livre(ordem'[o], c)
           /\ \/ ordem'[o].dados[c] = ordem[o].dados[c]
              \/ \E q \in quarentena : Aprovar(q) /\ q.ordem = o /\ c \in q.campos
<1> USE DEF Tipos
<1>0. /\ \A j \in Jobs : j \in Processos
      /\ "valor" \in Campos /\ "valorGratuidade" \in Campos /\ "valor" # "valorGratuidade"
      /\ ordem[o].existe
  BY DEF Processos, Campos, Linhas
<1>1. CASE ordem' = ordem
  BY <1>1
<1>2. ASSUME NEW p \in Processos, NEW x \in Ordens, Inserir(p, x) \/ Manter(p, x)
      PROVE  /\ ~Livre(ordem'[o], c)
             /\ ordem'[o].dados[c] = ordem[o].dados[c]
  <2>1. CASE x # o
    BY <1>2, <2>1, LinhasDoLaco
  <2>2. CASE x = o
    <3>1. ~Inserir(p, o)
      BY <1>0 DEF Inserir, Duplicada
    <3> QED
      BY <1>2, <2>2, <3>1, ManterEscreve DEF Livre
  <2> QED
    BY <2>1, <2>2
<1>3. ASSUME NEW p \in Processos, NEW x \in Ordens, Atualizar(p, x)
      PROVE  /\ ~Livre(ordem'[o], c)
             /\ ordem'[o].dados[c] = ordem[o].dados[c]
  <2>1. CASE x # o
    BY <1>3, <2>1, LinhasDoLaco
  <2>2. CASE x = o
    <3>1. resposta[p][o] \in Versoes
      BY <1>3, <2>2, RespostaNaFila DEF Atualizar
    <3>2. c \notin Aplicaveis(p, o)
      BY <1>3, <2>2 DEF Aplicaveis, CopiaFiel, Livre, Atualizar
    <3> QED
      BY <1>3, <2>2, <3>1, <3>2, AtualizarEscreve DEF Livre
  <2> QED
    BY <2>1, <2>2
<1>4. ASSUME NEW j \in Jobs, AgruparOrdens(j)
      PROVE  /\ ~Livre(ordem'[o], c)
             /\ ordem'[o].dados[c] = ordem[o].dados[c]
  <2>1. /\ Contadas(j) \in SUBSET Ordens /\ DataPagamento(dia[j]) \in Int
        /\ \A x \in Contadas(j) : cursor[j][x] \in Nat
        /\ Agrupar(Contadas(j), "valor", DataPagamento(dia[j]), cursor[j])
    BY <1>4, TiposAgruparOrdens
  <2>2. Agrupou(Contadas(j), "valor", DataPagamento(dia[j]), cursor[j])
    BY <1>0, <2>1, AgruparEscreve
  <2>3. o \in Contadas(j) => c # "valor"
    BY DEF Contadas, CursorLivre
  <2> QED
    BY <2>2, <2>3 DEF Agrupou, Livre
<1>5. ASSUME AgruparGratuidade
      PROVE  /\ ~Livre(ordem'[o], c)
             /\ ordem'[o].dados[c] = ordem[o].dados[c]
  <2> DEFINE ns == [x \in Gratuitas |-> ordem[x].dados["valorGratuidade"]]
  <2>1. /\ hoje \in Int /\ hoje # NULL /\ Gratuitas \in SUBSET Ordens
        /\ Agrupar(Gratuitas, "valorGratuidade", hoje, ns)
        /\ \A x \in Gratuitas : ns[x] \in Nat
    BY <1>5, TiposAgruparGratuidade DEF Gratuitas
  <2> HIDE DEF ns
  <2>2. Agrupou(Gratuitas, "valorGratuidade", hoje, ns)
    BY <1>0, <2>1, AgruparEscreve
  <2>3. o \in Gratuitas => c # "valorGratuidade"
    BY DEF Gratuitas
  <2> QED
    BY <2>2, <2>3 DEF Agrupou, Livre
<1>6. ASSUME NEW q \in quarentena, Aprovar(q)
      PROVE  /\ ~Livre(ordem'[o], c)
             /\ \/ ordem'[o].dados[c] = ordem[o].dados[c]
                \/ Aprovar(q) /\ q.ordem = o /\ c \in q.campos
  BY <1>6, AprovarEscreve DEF Livre
<1>7. ASSUME \E p \in Processos : Pergunta(p) \/ BuscarPorBqIds(p) PROVE ordem' = ordem
  BY <1>7 DEF Pergunta, BuscarPorBqIds, tabelas
<1>8. ASSUME Calmo \/ \E j \in Jobs : AbrirCursor(j) PROVE ordem' = ordem
  BY <1>8 DEF Calmo, AbrirCursor, tabelas
<1> QED
  BY <1>1, <1>2, <1>3, <1>4, <1>5, <1>6, <1>7, <1>8, Casos

\* What is about to be summed is what the order has, or a reviewer approved
\* another amount since.
CursorConfere ==
    \A j \in Jobs : \A o \in DOMAIN cursor[j] :
        cursor[j][o] = ordem[o].dados["valor"] \/ Aprovada(o, "valor")

Exclusiva == SoUm /\ CopiaFiel /\ CursorConfere /\ SomaConfere

LEMMA ExclusivaInit == Init => Exclusiva
<1> SUFFICES ASSUME Init PROVE Exclusiva
  OBVIOUS
<1>1. SoUm
  BY DEF Init, SoUm
<1>2. CopiaFiel
  BY SemPrazo DEF Init, CopiaFiel
<1>3. CursorConfere
  BY SemPrazo DEF Init, CursorConfere, Processos
<1>4. SomaConfere
  BY SemPrazo DEF Init, SomaConfere, Livre, Inexistente
<1> QED
  BY <1>1, <1>2, <1>3, <1>4 DEF Exclusiva

LEMMA CursorConferePasso ==
    ASSUME Tipos, Tipos', SoUm, CursorConfere, [Next]_vars PROVE CursorConfere'
<1> USE DEF Tipos
<1>0. /\ \A j \in Jobs : j \in Processos
      /\ \A j \in Jobs : \A o \in DOMAIN cursor[j] : o \in Ordens
      /\ "valor" \in Campos /\ "valorGratuidade" \in Campos /\ "valor" # "valorGratuidade"
  BY DEF Processos, EmOrdem, Campos
<1>1. \A o \in Ordens : Aprovada(o, "valor") => Aprovada(o, "valor")'
  BY AprovadaSempreFica
<1>2. ASSUME \A j \in Jobs : cursor'[j] \in {cursor[j], SemCursor},
             \A j \in Jobs : \A o \in DOMAIN cursor[j] :
                \/ ordem'[o].dados["valor"] = ordem[o].dados["valor"]
                \/ Aprovada(o, "valor")'
      PROVE  CursorConfere'
  <2> SUFFICES ASSUME NEW j \in Jobs, NEW o \in DOMAIN cursor'[j]
               PROVE  cursor'[j][o] = ordem'[o].dados["valor"] \/ Aprovada(o, "valor")'
    BY DEF CursorConfere
  <2>1. cursor'[j] = cursor[j] /\ o \in DOMAIN cursor[j] /\ o \in Ordens
    BY <1>0, <1>2, SemPrazo
  <2> QED
    BY <1>1, <1>2, <2>1 DEF CursorConfere
<1>3. CASE Calmo
  BY <1>0, <1>2, <1>3 DEF Calmo
<1>4. ASSUME NEW p \in Processos, Pergunta(p) \/ BuscarPorBqIds(p) PROVE CursorConfere'
  <2>1. UNCHANGED <<ordem, cursor>>
    BY <1>4 DEF Pergunta, BuscarPorBqIds, tabelas
  <2> QED
    BY <1>2, <2>1
<1>5. ASSUME NEW p \in Processos, NEW o \in Ordens,
             Inserir(p, o) \/ Atualizar(p, o) \/ Manter(p, o)
      PROVE  CursorConfere'
  <2>1. pc[p] = "laco" /\ cursor' = cursor
    BY <1>5 DEF Inserir, Atualizar, Manter, Passar, Proxima
  <2>2. \A j \in Jobs : DOMAIN cursor[j] = {}
    BY <1>0, <2>1 DEF EmOrdem, SoUm
  <2> QED
    BY <1>2, <2>1, <2>2
<1>6. ASSUME NEW j \in Jobs, AbrirCursor(j) PROVE CursorConfere'
  <2>1. ordem' = ordem
    BY <1>6 DEF AbrirCursor, tabelas
  <2>2. \A k \in Jobs \ {j} : cursor'[k] = cursor[k]
    BY <1>0, <1>6, TiposAbrirCursor DEF Alheio
  <2>3. \A o \in DOMAIN cursor'[j] : cursor'[j][o] = ordem[o].dados["valor"]
    BY <1>6, TiposAbrirCursor
  <2> QED
    BY <1>0, <1>1, <2>1, <2>2, <2>3 DEF CursorConfere
<1>7. ASSUME NEW j \in Jobs, AgruparOrdens(j) PROVE CursorConfere'
  <2>1. /\ Contadas(j) \in SUBSET Ordens /\ DataPagamento(dia[j]) \in Int
        /\ \A o \in Contadas(j) : cursor[j][o] \in Nat
        /\ Agrupar(Contadas(j), "valor", DataPagamento(dia[j]), cursor[j])
        /\ cursor'[j] = SemCursor /\ \A r \in Processos \ {j} : Alheio(r)
    BY <1>7, TiposAgruparOrdens
  <2>2. Agrupou(Contadas(j), "valor", DataPagamento(dia[j]), cursor[j])
    BY <1>0, <2>1, AgruparEscreve
  <2>3. \A o \in Ordens : ordem'[o].dados = ordem[o].dados
    BY <2>2 DEF Agrupou
  <2>4. \A k \in Jobs : cursor'[k] \in {cursor[k], SemCursor}
    BY <1>0, <2>1 DEF Alheio
  <2> QED
    BY <1>0, <1>2, <2>3, <2>4
<1>8. ASSUME AgruparGratuidade PROVE CursorConfere'
  <2> DEFINE ns == [x \in Gratuitas |-> ordem[x].dados["valorGratuidade"]]
  <2>1. /\ hoje \in Int /\ Gratuitas \in SUBSET Ordens
        /\ Agrupar(Gratuitas, "valorGratuidade", hoje, ns)
        /\ \A x \in Gratuitas : ns[x] \in Nat
    BY <1>8, TiposAgruparGratuidade DEF Gratuitas
  <2> HIDE DEF ns
  <2>2. Agrupou(Gratuitas, "valorGratuidade", hoje, ns)
    BY <1>0, <2>1, AgruparEscreve
  <2>3. \A o \in Ordens : ordem'[o].dados = ordem[o].dados
    BY <2>2 DEF Agrupou
  <2>4. cursor' = cursor
    BY <1>8 DEF AgruparGratuidade, memoria
  <2> QED
    BY <1>0, <1>2, <2>3, <2>4
<1>9. ASSUME NEW q \in quarentena, Aprovar(q) PROVE CursorConfere'
  <2>1. cursor' = cursor
    BY <1>9 DEF Aprovar, memoria
  <2>2. \A o \in Ordens : \/ ordem'[o].dados["valor"] = ordem[o].dados["valor"]
                          \/ Aprovada(o, "valor")'
    BY <1>0, <1>9, AprovarEscreve, AprovarAprova
  <2> QED
    BY <1>0, <1>2, <2>1, <2>2
<1> QED
  BY <1>3, <1>4, <1>5, <1>6, <1>7, <1>8, <1>9, Casos

\* What an order has, or had when it was summed, is in the total.
Conferida(o, c) == parcelas[o][c][1] = ordem[o].dados[c] \/ Aprovada(o, c)

LEMMA SomaConfereExpande ==
    SomaConfere <=> \A o \in Ordens, c \in Campos : Livre(ordem[o], c) \/ Conferida(o, c)
BY DEF SomaConfere, Conferida, Aprovada

LEMMA SomaConfereEm ==
    ASSUME "sobrepor" \notin Riscos, Tipos, Tipos', Linhas, Exclusiva, Somadas, Somadas', [Next]_vars,
           NEW o \in Ordens, NEW c \in Campos, ~Livre(ordem'[o], c)
    PROVE  Conferida(o, c)'
<1> USE DEF Tipos, Exclusiva, Somadas
<1>0. /\ \A j \in Jobs : j \in Processos
      /\ "valor" \in Campos /\ "valorGratuidade" \in Campos /\ "valor" # "valorGratuidade"
  BY DEF Processos, Campos
\* It was in the grouping before: neither part moves, but by an approval.
<1>1. ASSUME ~Livre(ordem[o], c), parcelas'[o][c] = parcelas[o][c]
      PROVE  Conferida(o, c)'
  <2>1. Conferida(o, c)
    BY <1>1, SomaConfereExpande
  <2>2. CASE ordem'[o].dados[c] = ordem[o].dados[c]
    BY <1>1, <2>1, <2>2, AprovadaSempreFica DEF Conferida
  <2>3. ASSUME NEW q \in quarentena, Aprovar(q), q.ordem = o, c \in q.campos
        PROVE  Conferida(o, c)'
    BY <2>3, AprovarAprova DEF Conferida
  <2> QED
    BY <1>1, <2>2, <2>3, ContidaFica
\* A grouping adds the amount it read.
<1>2. ASSUME NEW os \in SUBSET Ordens, NEW k \in Campos, NEW pagamento \in Int,
             pagamento # NULL, NEW ns, \A x \in os : ns[x] \in Nat,
             Agrupar(os, k, pagamento, ns), \A x \in os : Livre(ordem[x], k),
             \A x \in os : ns[x] = ordem[x].dados[k] \/ Aprovada(x, k)
      PROVE  Conferida(o, c)'
  <2>1. Agrupou(os, k, pagamento, ns) /\ UmaParcela(os, k, ns)
    BY <1>2, AgruparEscreve, AgruparSoma
  <2>2. CASE o \in os /\ c = k
    <3>1. parcelas'[o][c][1] = ns[o]
      BY <2>1, <2>2 DEF UmaParcela
    <3>2. ordem'[o].dados[c] = ordem[o].dados[c]
      BY <2>1, <2>2 DEF Agrupou
    <3> QED
      BY <1>2, <2>2, <3>1, <3>2, AprovadaSempreFica DEF Conferida
  <2>3. CASE o \notin os \/ c # k
    <3>1. parcelas'[o][c] = parcelas[o][c] /\ ~Livre(ordem[o], c)
      BY <2>1, <2>3 DEF Agrupou, Livre
    <3> QED
      BY <1>1, <3>1
  <2> QED
    BY <2>2, <2>3
<1>3. ASSUME NEW j \in Jobs, AgruparOrdens(j) PROVE Conferida(o, c)'
  <2>1. /\ Contadas(j) \in SUBSET Ordens /\ DataPagamento(dia[j]) \in Int
        /\ DataPagamento(dia[j]) # NULL
        /\ \A x \in Contadas(j) : cursor[j][x] \in Nat
        /\ Agrupar(Contadas(j), "valor", DataPagamento(dia[j]), cursor[j])
    BY <1>3, TiposAgruparOrdens
  <2>2. \A x \in Contadas(j) : /\ Livre(ordem[x], "valor")
                               /\ cursor[j][x] = ordem[x].dados["valor"] \/ Aprovada(x, "valor")
    BY DEF Contadas, CursorLivre, CursorConfere
  <2> QED
    BY <1>0, <1>2, <2>1, <2>2
<1>4. ASSUME AgruparGratuidade PROVE Conferida(o, c)'
  <2> DEFINE ns == [x \in Gratuitas |-> ordem[x].dados["valorGratuidade"]]
  <2>1. /\ hoje \in Int /\ hoje # NULL /\ Gratuitas \in SUBSET Ordens
        /\ Agrupar(Gratuitas, "valorGratuidade", hoje, ns)
        /\ \A x \in Gratuitas : ns[x] \in Nat
    BY <1>4, TiposAgruparGratuidade DEF Gratuitas
  <2>2. \A x \in Gratuitas : /\ Livre(ordem[x], "valorGratuidade")
                             /\ ns[x] = ordem[x].dados["valorGratuidade"]
    BY DEF Gratuitas
  <2> HIDE DEF ns
  <2> QED
    BY <1>0, <1>2, <2>1, <2>2
\* No other step links or sums.
<1>5. ASSUME parcelas' = parcelas, Livre(ordem'[o], c) <=> Livre(ordem[o], c)
      PROVE  Conferida(o, c)'
  BY <1>1, <1>5
<1>6. ASSUME NEW p \in Processos, NEW x \in Ordens,
             Inserir(p, x) \/ Atualizar(p, x) \/ Manter(p, x)
      PROVE  Conferida(o, c)'
  <2>1. parcelas' = parcelas /\ (Livre(ordem'[o], c) <=> Livre(ordem[o], c))
    BY <1>6, LinhasDoLaco DEF Linhas, Livre
  <2> QED
    BY <1>5, <2>1
<1>7. ASSUME NEW q \in quarentena, Aprovar(q) PROVE Conferida(o, c)'
  BY <1>5, <1>7, AprovarEscreve DEF Aprovar, Livre
<1>8. ASSUME \/ Calmo \/ \E j \in Jobs : AbrirCursor(j)
             \/ \E p \in Processos : Pergunta(p) \/ BuscarPorBqIds(p)
      PROVE  Conferida(o, c)'
  BY <1>5, <1>8 DEF Calmo, AbrirCursor, Pergunta, BuscarPorBqIds, tabelas
<1> QED
  BY <1>3, <1>4, <1>6, <1>7, <1>8, Casos

LEMMA ExclusivaPasso ==
    ASSUME "sobrepor" \notin Riscos, Tipos, Tipos', Linhas, UmJob', Somadas, Somadas',
           Exclusiva, [Next]_vars
    PROVE  Exclusiva'
<1>1. SoUm /\ CopiaFiel /\ CursorConfere
  BY DEF Exclusiva
<1>2. SoUm' /\ CopiaFiel' /\ CursorConfere'
  BY <1>1, SoUmPasso, CopiaFielPasso, CursorConferePasso
<1>3. \A o \in Ordens, c \in Campos : Livre(ordem'[o], c) \/ Conferida(o, c)'
  BY SomaConfereEm
<1>4. SomaConfere'
  BY <1>3 DEF SomaConfere, Conferida, Aprovada
<1> QED
  BY <1>2, <1>4 DEF Exclusiva

LEMMA ExclusivaSempre ==
    ASSUME Riscos \cap {"mesmaConexao", "conexaoFecha", "sobrepor"} = {}
    PROVE  Spec => []Exclusiva
<1>1. "sobrepor" \notin Riscos /\ Riscos \cap {"mesmaConexao", "conexaoFecha"} = {}
  OBVIOUS
<1>2. Spec => []UmJob
  BY <1>1, UmJobSempre
<1>3. Spec => []Somadas
  BY <1>1, SomadasSempre
<1>4. Tipos /\ Tipos' /\ Linhas /\ UmJob' /\ Somadas /\ Somadas' /\ Exclusiva /\ [Next]_vars
         => Exclusiva'
  BY <1>1, ExclusivaPasso
<1> QED
  BY <1>2, <1>3, <1>4, ExclusivaInit, LinhasSempre, TiposSempre, PTL DEF Spec

\* The total of a grouping is made of the amounts its orders have, but for
\* those a reviewer approved, when executions do not overlap.
THEOREM SomaConfereSempre ==
    ASSUME Riscos \cap {"mesmaConexao", "conexaoFecha", "sobrepor"} = {}
    PROVE  Spec => []SomaConfere
<1>1. Exclusiva => SomaConfere
  BY DEF Exclusiva
<1> QED
  BY <1>1, ExclusivaSempre, PTL

\* A synchronisation changes no amount that is in a grouping: only an
\* approval does, when executions do not overlap.
THEOREM NaoAlteraContidaSempre ==
    ASSUME Riscos \cap {"mesmaConexao", "conexaoFecha", "sobrepor"} = {}
    PROVE  Spec => NaoAlteraContida
<1> DEFINE Altera(o, c) == ~Livre(ordem[o], c) /\ ordem'[o].dados[c] # ordem[o].dados[c]
           Aprovou(o, c) == \E q \in quarentena : /\ q.ordem = o /\ c \in q.campos
                               /\ [q EXCEPT !.status = "aprovada"] \in quarentena'
<1>1. "sobrepor" \notin Riscos /\ Riscos \cap {"mesmaConexao", "conexaoFecha"} = {}
  OBVIOUS
<1>2. ASSUME Tipos, Tipos', Linhas, Somadas, Exclusiva, [Next]_vars
      PROVE  \A o \in Ordens, c \in Campos : Altera(o, c) => Aprovou(o, c)
  <2> SUFFICES ASSUME NEW o \in Ordens, NEW c \in Campos, Altera(o, c) PROVE Aprovou(o, c)
    OBVIOUS
  <2>1. PICK q \in quarentena : Aprovar(q) /\ q.ordem = o /\ c \in q.campos
    BY <1>1, <1>2, ContidaFica DEF Exclusiva, Somadas
  <2>2. [q EXCEPT !.status = "aprovada"] \in quarentena'
    BY <1>2, <2>1, AprovarAprova
  <2> QED
    BY <2>1, <2>2
<1>3. Spec => []Somadas
  BY <1>1, SomadasSempre
<1>4. Tipos /\ Tipos' /\ Linhas /\ Somadas /\ Exclusiva /\ [Next]_vars =>
         [\A o \in Ordens, c \in Campos : Altera(o, c) => Aprovou(o, c)]_vars
  BY <1>2
<1> QED
  BY <1>3, <1>4, ExclusivaSempre, LinhasSempre, TiposSempre, PTL DEF Spec, NaoAlteraContida

-----------------------------------------------------------------------------
(* The day of a payment.                                                   *)

\* Nothing is brought before the day it was captured.
Capturadas ==
    \A o \in Ordens :
        \/ DiaDe[o] <= hoje
        \/ /\ bq[o] = NULL /\ ~ordem[o].existe
           /\ \A p \in Processos : resposta[p][o] = NULL

LEMMA CapturadasPasso ==
    ASSUME Tipos, Tipos', Linhas, Linhas', Capturadas, [Next]_vars PROVE Capturadas'
<1> USE DEF Tipos
<1>0. /\ \A j \in Jobs : j \in Processos
      /\ hoje \in Int /\ \A o \in Ordens : DiaDe[o] \in Int
      /\ "valor" \in Campos /\ "valorGratuidade" \in Campos
  BY SincronizacaoAssumption DEF Processos, TabelasOK, Campos
<1>1. CASE DoMundo
  <2>1. UNCHANGED <<ordem, resposta>>
    BY <1>1, TiposDoMundo DEF tabelas, memoria
  <2>2. ASSUME NEW o \in Ordens, Publicar(o) \/ Corrigir(o)
        PROVE  DiaDe[o] <= hoje /\ hoje' = hoje /\ \A x \in Ordens \ {o} : bq'[x] = bq[x]
    BY <2>2 DEF Publicar, Corrigir, Capturadas, TabelasOK
  <2>3. CASE Cadastrar \/ VirarDia
    <3>1. bq' = bq /\ hoje' \in {hoje, hoje + 1}
      BY <2>3 DEF Cadastrar, VirarDia
    <3> QED
      BY <1>0, <2>1, <3>1 DEF Capturadas
  <2> QED
    BY <1>1, <2>1, <2>2, <2>3 DEF DoMundo, Capturadas
<1>2. ASSUME UNCHANGED fora,
             \A o \in Ordens : ordem'[o].existe => ordem[o].existe \/ \E p \in Processos : resposta[p][o] # NULL,
             \A p \in Processos, o \in Ordens : resposta'[p][o] \in {resposta[p][o], bq[o], NULL}
      PROVE  Capturadas'
  BY <1>2 DEF fora, Capturadas
<1>3. CASE Calmo /\ ~DoMundo
  <2>1. UNCHANGED fora /\ ordem' = ordem
    BY <1>3, ForaFica DEF Calmo
  <2>2. \A p \in Processos, o \in Ordens : resposta'[p][o] \in {resposta[p][o], bq[o], NULL}
    BY <1>3, SemPrazo DEF Calmo
  <2> QED
    BY <1>2, <2>1, <2>2
<1>4. ASSUME NEW p \in Processos, Pergunta(p) PROVE Capturadas'
  <2>1. UNCHANGED fora /\ ordem' = ordem
    BY <1>4 DEF Pergunta, tabelas
  <2>2. \A r \in Processos, o \in Ordens : resposta'[r][o] \in {resposta[r][o], bq[o], NULL}
    BY <1>4 DEF Pergunta, Alheio
  <2> QED
    BY <1>2, <2>1, <2>2
<1>5. ASSUME NEW p \in Processos, NEW o \in Ordens,
             Inserir(p, o) \/ Atualizar(p, o) \/ Manter(p, o)
      PROVE  Capturadas'
  <2>1. resposta' = resposta /\ UNCHANGED fora /\ \A x \in Ordens \ {o} : ordem'[x] = ordem[x]
    BY <1>5, LinhasDoLaco DEF Inserir, Atualizar, Manter
  <2>2. resposta[p][o] # NULL
    BY <1>5 DEF Inserir, Atualizar, Manter, EmOrdem
  <2> QED
    BY <1>2, <2>1, <2>2
<1>6. ASSUME UNCHANGED <<fora, resposta>>, \A o \in Ordens : ordem'[o].existe = ordem[o].existe
      PROVE  Capturadas'
  BY <1>2, <1>6
<1>7. ASSUME NEW p \in Processos, BuscarPorBqIds(p) PROVE Capturadas'
  BY <1>6, <1>7 DEF BuscarPorBqIds, tabelas
<1>8. ASSUME NEW j \in Jobs, AbrirCursor(j) PROVE Capturadas'
  BY <1>6, <1>8 DEF AbrirCursor, tabelas
<1>9. ASSUME NEW j \in Jobs, AgruparOrdens(j) PROVE Capturadas'
  <2>1. /\ Contadas(j) \in SUBSET Ordens /\ DataPagamento(dia[j]) \in Int
        /\ \A x \in Contadas(j) : cursor[j][x] \in Nat
        /\ Agrupar(Contadas(j), "valor", DataPagamento(dia[j]), cursor[j])
    BY <1>9, TiposAgruparOrdens
  <2>2. Agrupou(Contadas(j), "valor", DataPagamento(dia[j]), cursor[j])
    BY <1>0, <2>1, AgruparEscreve
  <2> QED
    BY <1>6, <1>9, <2>2 DEF Agrupou, AgruparOrdens
<1>10. ASSUME AgruparGratuidade PROVE Capturadas'
  <2> DEFINE ns == [x \in Gratuitas |-> ordem[x].dados["valorGratuidade"]]
  <2>1. /\ hoje \in Int /\ Gratuitas \in SUBSET Ordens
        /\ Agrupar(Gratuitas, "valorGratuidade", hoje, ns)
        /\ \A x \in Gratuitas : ns[x] \in Nat
    BY <1>10, TiposAgruparGratuidade DEF Gratuitas
  <2> HIDE DEF ns
  <2>2. Agrupou(Gratuitas, "valorGratuidade", hoje, ns)
    BY <1>0, <2>1, AgruparEscreve
  <2> QED
    BY <1>6, <1>10, <2>2 DEF Agrupou, AgruparGratuidade, memoria
<1>11. ASSUME NEW q \in quarentena, Aprovar(q) PROVE Capturadas'
  <2>1. \A x \in Ordens : ordem'[x].existe = ordem[x].existe
    BY <1>11, AprovarEscreve
  <2> QED
    BY <1>6, <1>11, <2>1 DEF Aprovar, memoria
<1> QED
  BY <1>1, <1>3, <1>4, <1>5, <1>7, <1>8, <1>9, <1>10, <1>11, Casos

LEMMA CapturadasSempre == Spec => []Capturadas
<1>1. Init => Capturadas
  BY SemPrazo DEF Init, Capturadas
<1> QED
  BY <1>1, CapturadasPasso, LinhasSempre, TiposSempre, PTL DEF Spec

Trabalha(j) == pc[j] \notin {"fora", "soltar"}

\* A job that works works on its own day, and groups what was captured in
\* the cycle of today.
NoSeuDia ==
    /\ \A j \in Jobs : Trabalha(j) => dia[j] = hoje
    /\ \A j \in Jobs : \A o \in DOMAIN cursor[j] : DataInicio(hoje) <= DiaDe[o] /\ DiaDe[o] <= hoje

LEMMA DataInicioInteira == ASSUME NEW d \in Int PROVE DataInicio(d) \in Int
BY PorDiaDaSemana, DiaDaSemanaEmSete

LEMMA NoSeuDiaPasso ==
    ASSUME "atravessaDia" \notin Riscos, Tipos, Tipos', Linhas, Capturadas, NoSeuDia, [Next]_vars
    PROVE  NoSeuDia'
<1> USE DEF Tipos
<1>0. \A j \in Jobs : j \in Processos
  BY DEF Processos
<1>1. CASE VirarDia
  <2>1. UNCHANGED <<pc, dia, cursor>> /\ \A p \in Processos : pc[p] = "fora"
    BY <1>1 DEF VirarDia, memoria, Parados
  <2>2. \A j \in Jobs : DOMAIN cursor[j] = {}
    BY <1>0, <2>1 DEF EmOrdem
  <2> QED
    BY <1>0, <2>1, <2>2 DEF NoSeuDia, Trabalha
<1>2. CASE ~VirarDia
  <2>1. hoje' = hoje
    BY <1>2, ForaFica DEF DoMundo, Publicar, Corrigir, Cadastrar, fora
  <2>2. ASSUME NEW j \in Jobs
        PROVE  /\ Trabalha(j)' => dia'[j] = hoje
               /\ \A o \in DOMAIN cursor'[j] : DataInicio(hoje) <= DiaDe[o] /\ DiaDe[o] <= hoje
    <3>1. CASE Alheio(j)
      BY <3>1 DEF Alheio, NoSeuDia, Trabalha
    <3>2. CASE Abortar(j) \/ ReleaseLock(j)
      BY <1>0, <3>2, TiposAbortar, TiposReleaseLock, SemPrazo DEF Trabalha
    <3>3. CASE \E i \in Instancias : Reiniciar(i) /\ j \in Da(i)
      BY <3>3, TiposReiniciar, SemPrazo DEF Trabalha
    <3>4. CASE AcquireLock(j)
      <4>1. pc[j] = "fora" /\ dia'[j] = hoje /\ cursor' = cursor
        BY <1>0, <3>4 DEF AcquireLock, MemoriaOK
      <4>2. DOMAIN cursor[j] = {}
        BY <1>0, <4>1 DEF EmOrdem
      <4> QED
        BY <4>1, <4>2
    <3>5. CASE AbrirCursor(j)
      <4>1. pc[j] = "agrupar" /\ dia[j] = hoje /\ dia' = dia
        BY <3>5 DEF AbrirCursor, NoSeuDia, Trabalha
      <4>2. ASSUME NEW o \in DOMAIN cursor'[j]
            PROVE  DataInicio(hoje) <= DiaDe[o] /\ DiaDe[o] <= hoje
        <5>1. o \in Agrupaveis(j)
          BY <3>5, <4>2, TiposAbrirCursor
        <5>2. o \in Ordens /\ ordem[o].existe /\ DiaDe[o] \in DataInicio(hoje)..DataFim(hoje)
          BY <4>1, <5>1 DEF Agrupaveis, Linhas
        <5>3. DiaDe[o] <= hoje
          BY <5>2 DEF Capturadas
        <5> QED
          BY <5>2, <5>3
      <4> QED
        BY <4>1, <4>2
    <3>6. CASE AgruparOrdens(j)
      BY <1>0, <3>6, TiposAgruparOrdens, SemPrazo DEF AgruparOrdens, MemoriaOK, Trabalha
    <3>7. CASE Passo(j) \/ Consultar(j) \/ \E o \in Ordens : ErroNaOrdem(j, o)
      <4>1. UNCHANGED <<dia, cursor>> /\ Trabalha(j)
        BY <3>7 DEF Passo, BuscarPorBqIds, Auditar, Conter, Concluir, Inserir, Atualizar,
           Manter, Consultar, ErroNaOrdem, Passar, Proxima, Trabalha
      <4> QED
        BY <4>1 DEF NoSeuDia
    <3> QED
      BY <1>0, <3>1, <3>2, <3>3, <3>4, <3>5, <3>6, <3>7, DeQuem, SincronizacaoAssumption
  <2> QED
    BY <2>1, <2>2 DEF NoSeuDia
<1> QED
  BY <1>1, <1>2

LEMMA PagamentoDoCiclo ==
    ASSUME NEW h \in Int, NEW d \in Int, DataInicio(h) <= d, d <= h
    PROVE  DataPagamento(h) = DataReferencia(d)
<1>1. DataPagamento(h) > h /\ DataPagamento(h) \in Int /\ DataInicio(h) \in Int
  BY DataPagamentoDepois, DataInicioInteira
<1>2. d \in Ciclo(h)
  BY <1>1 DEF Ciclo
<1>3. DataPagamento(d) = DataPagamento(h)
  BY <1>2, JanelasLadrilhamSempre DEF CicloLadrilha
<1> QED
  BY <1>3, PorDiaDaSemana

LEMMA PagaNoDiaPasso ==
    ASSUME Tipos, Tipos', Linhas, NoSeuDia, PagaNoDiaDaJanela, [Next]_vars
    PROVE  PagaNoDiaDaJanela'
<1> USE DEF Tipos
<1>0. /\ \A j \in Jobs : j \in Processos
      /\ "valor" \in Campos /\ "valorGratuidade" \in Campos /\ "valor" # "valorGratuidade"
  BY DEF Processos, Campos
<1>1. ASSUME \A o \in Ordens : \/ ordem'[o].grupo["valor"] = ordem[o].grupo["valor"]
                               \/ Livre(ordem'[o], "valor")
                               \/ ordem'[o].grupo["valor"] = DataReferencia(DiaDe[o])
      PROVE  PagaNoDiaDaJanela'
  BY <1>1 DEF PagaNoDiaDaJanela, Livre
<1>2. ASSUME \/ Calmo \/ \E j \in Jobs : AbrirCursor(j)
             \/ \E p \in Processos : Pergunta(p) \/ BuscarPorBqIds(p)
      PROVE  PagaNoDiaDaJanela'
  BY <1>1, <1>2 DEF Calmo, AbrirCursor, Pergunta, BuscarPorBqIds, tabelas
<1>3. ASSUME NEW p \in Processos, NEW o \in Ordens,
             Inserir(p, o) \/ Atualizar(p, o) \/ Manter(p, o)
      PROVE  PagaNoDiaDaJanela'
  BY <1>0, <1>1, <1>3, LinhasDoLaco
<1>4. ASSUME NEW q \in quarentena, Aprovar(q) PROVE PagaNoDiaDaJanela'
  BY <1>1, <1>4, AprovarEscreve
<1>5. ASSUME AgruparGratuidade PROVE PagaNoDiaDaJanela'
  <2> DEFINE ns == [x \in Gratuitas |-> ordem[x].dados["valorGratuidade"]]
  <2>1. /\ hoje \in Int /\ Gratuitas \in SUBSET Ordens
        /\ Agrupar(Gratuitas, "valorGratuidade", hoje, ns)
        /\ \A x \in Gratuitas : ns[x] \in Nat
    BY <1>5, TiposAgruparGratuidade DEF Gratuitas
  <2> HIDE DEF ns
  <2>2. Agrupou(Gratuitas, "valorGratuidade", hoje, ns)
    BY <1>0, <2>1, AgruparEscreve
  <2> QED
    BY <1>0, <1>1, <2>2 DEF Agrupou
<1>6. ASSUME NEW j \in Jobs, AgruparOrdens(j) PROVE PagaNoDiaDaJanela'
  <2>1. /\ Contadas(j) \in SUBSET Ordens /\ DataPagamento(dia[j]) \in Int
        /\ \A x \in Contadas(j) : cursor[j][x] \in Nat
        /\ Agrupar(Contadas(j), "valor", DataPagamento(dia[j]), cursor[j])
    BY <1>6, TiposAgruparOrdens
  <2>2. Agrupou(Contadas(j), "valor", DataPagamento(dia[j]), cursor[j])
    BY <1>0, <2>1, AgruparEscreve
  <2>3. dia[j] = hoje /\ hoje \in Int
    <3>1. Trabalha(j)
      BY <1>6 DEF AgruparOrdens, Trabalha
    <3>2. PrimeiroDia \in Int /\ MaxDia \in Int /\ hoje \in PrimeiroDia..MaxDia
      BY SincronizacaoAssumption DEF TabelasOK
    <3> QED
      BY <3>1, <3>2 DEF NoSeuDia
  <2>4. \A o \in Contadas(j) : DataPagamento(dia[j]) = DataReferencia(DiaDe[o])
    <3> SUFFICES ASSUME NEW o \in Contadas(j) PROVE DataPagamento(hoje) = DataReferencia(DiaDe[o])
      BY <2>3
    <3>1. DataInicio(hoje) <= DiaDe[o] /\ DiaDe[o] <= hoje /\ DiaDe[o] \in Int
      BY <2>1, SincronizacaoAssumption DEF NoSeuDia, Contadas
    <3> QED
      BY <2>3, <3>1, PagamentoDoCiclo
  <2>5. \A o \in Ordens : \/ ordem'[o].grupo["valor"] = ordem[o].grupo["valor"]
                          \/ ordem'[o].grupo["valor"] = DataReferencia(DiaDe[o])
    BY <2>2, <2>4 DEF Agrupou
  <2> QED
    BY <1>1, <2>5
<1> QED
  BY <1>2, <1>3, <1>4, <1>5, <1>6, Casos

\* An order is paid on the day the monthly report shows it under, also when
\* executions overlap: only one that lasts into the next day may miss it.
THEOREM PagaNoDiaSempre ==
    ASSUME "atravessaDia" \notin Riscos PROVE Spec => []PagaNoDiaDaJanela
<1>1. Init => NoSeuDia
  BY SemPrazo DEF Init, NoSeuDia, Trabalha, Processos
<1>2. Init => PagaNoDiaDaJanela
  BY SemPrazo DEF Init, PagaNoDiaDaJanela, Livre, Campos, Inexistente
<1>3. Tipos /\ Tipos' /\ Linhas /\ Capturadas /\ NoSeuDia /\ [Next]_vars => NoSeuDia'
  BY NoSeuDiaPasso
<1> QED
  BY <1>1, <1>2, <1>3, PagaNoDiaPasso, CapturadasSempre, LinhasSempre, TiposSempre, PTL DEF Spec

-----------------------------------------------------------------------------
(* The audit.                                                              *)

\* The audit row of an amount is about to be written, by an execution that
\* wrote the amount.
EmCurso(p, o, c) ==
    /\ pc[p] = "auditar" /\ atual[p] = o
    /\ c \in Escritos(p, o)
    /\ ordem[o].dados[c] = Dados[resposta[p][o]][c]
Coberta(o, c) ==
    \/ <<o, c, ordem[o].dados[c]>> \in trilha
    \/ \E p \in Processos : EmCurso(p, o, c)
Auditadas == \A o \in Ordens, c \in Campos : ordem[o].existe => Coberta(o, c)

LEMMA TrilhaCresce == ASSUME Tipos, [Next]_vars PROVE trilha \subseteq trilha'
<1>1. ASSUME NEW p \in Processos, Passo(p) \/ Abortar(p) \/ \E o \in Ordens : ErroNaOrdem(p, o)
      PROVE  trilha \subseteq trilha'
  BY <1>1 DEF Passo, BuscarPorBqIds, Auditar, Conter, Concluir, Inserir, Atualizar, Manter,
              Abortar, ErroNaOrdem, tabelas
<1>2. ASSUME NEW j \in Jobs, \/ AcquireLock(j) \/ Consultar(j) \/ AbrirCursor(j)
                             \/ AgruparOrdens(j) \/ ReleaseLock(j)
      PROVE  trilha \subseteq trilha'
  BY <1>2 DEF AcquireLock, Consultar, AbrirCursor, AgruparOrdens, ReleaseLock, tabelas
<1>3. CASE \/ IniciarManual \/ AgruparGratuidade \/ FecharConexao \/ UNCHANGED vars
           \/ \E i \in Instancias : Reiniciar(i)
           \/ \E q \in quarentena : Aprovar(q) \/ Rejeitar(q)
  BY <1>3 DEF IniciarManual, AgruparGratuidade, FecharConexao, vars, Reiniciar, Aprovar,
              Rejeitar, tabelas
<1>4. CASE DoMundo
  BY <1>4, TiposDoMundo DEF tabelas
<1>5. Manual \in Processos /\ \A j \in Jobs : j \in Processos
  BY DEF Processos
<1> QED
  BY <1>1, <1>2, <1>3, <1>4, <1>5 DEF Next, DoMundo, PassoDoJob

\* An execution leaves the audit only by writing the row.
LEMMA AuditandoFica ==
    ASSUME "semAuditar" \notin Riscos, Tipos, [Next]_vars,
           NEW p \in Processos, pc[p] = "auditar"
    PROVE  Alheio(p) \/ Auditar(p)
<1>1. /\ ~Abortar(p) /\ ~Consultar(p) /\ ~AbrirCursor(p) /\ ~AgruparOrdens(p) /\ ~ReleaseLock(p)
      /\ ~AcquireLock(p) /\ ~\E o \in Ordens : ErroNaOrdem(p, o)
  BY DEF Abortar, Consultar, AbrirCursor, AgruparOrdens, ReleaseLock, AcquireLock, ErroNaOrdem
<1>2. p = Manual => ~IniciarManual
  BY DEF IniciarManual
<1>3. ~\E i \in Instancias : Reiniciar(i) /\ p \in Da(i)
  BY DEF Reiniciar, Da
<1>4. Passo(p) => Auditar(p)
  BY DEF Passo, BuscarPorBqIds, Conter, Concluir, Inserir, Atualizar, Manter
<1> QED
  BY <1>1, <1>2, <1>3, <1>4, DeQuem

\* An amount that does not change stays covered.
LEMMA CobertaFica ==
    ASSUME "semAuditar" \notin Riscos, Tipos, [Next]_vars, NEW o \in Ordens, NEW c \in Campos,
           Coberta(o, c), ordem'[o].dados[c] = ordem[o].dados[c]
    PROVE  Coberta(o, c)'
<1>1. CASE <<o, c, ordem[o].dados[c]>> \in trilha
  BY <1>1, TrilhaCresce DEF Coberta
<1>2. ASSUME NEW p \in Processos, EmCurso(p, o, c) PROVE Coberta(o, c)'
  <2>1. CASE Alheio(p)
    <3>1. EmCurso(p, o, c)'
      BY <1>2, <2>1 DEF Alheio, EmCurso, Escritos, Aplicaveis, Divergentes
    <3> QED
      BY <3>1 DEF Coberta
  <2>2. CASE Auditar(p)
    <3>1. <<o, c, Dados[resposta[p][o]][c]>> \in trilha'
      BY <1>2, <2>2 DEF Auditar, EmCurso
    <3> QED
      BY <1>2, <3>1 DEF Coberta, EmCurso
  <2>3. pc[p] = "auditar"
    BY <1>2 DEF EmCurso
  <2> QED
    BY <2>1, <2>2, <2>3, AuditandoFica
<1> QED
  BY <1>1, <1>2 DEF Coberta

\* Who writes an amount goes on to audit it.
LEMMA EscritaCoberta ==
    ASSUME Tipos, NEW p \in Processos, NEW o \in Ordens, Inserir(p, o) \/ Atualizar(p, o),
           NEW c \in Campos
    PROVE  \/ Coberta(o, c)'
           \/ ordem'[o].dados[c] = ordem[o].dados[c] /\ ordem'[o].existe = ordem[o].existe
<1> USE DEF Tipos
<1>1. /\ UNCHANGED <<resposta, existentes>> /\ resposta[p][o] \in Versoes
      /\ pc'[p] = "auditar" /\ atual'[p] = o
  BY RespostaNaFila, TiposInserir, TiposAtualizar DEF Inserir, Atualizar, Passar
<1>2. CASE Inserir(p, o)
  <2>1. ordem'[o].dados = Dados[resposta[p][o]] /\ ~existentes[p][o].existe
    BY <1>1, <1>2, InserirEscreve
  <2>2. EmCurso(p, o, c)'
    BY <1>1, <2>1 DEF EmCurso, Escritos
  <2>3. Coberta(o, c)'
    BY <2>2 DEF Coberta
  <2> QED
    BY <2>3
<1>3. CASE Atualizar(p, o)
  <2>1. /\ ordem'[o].existe = ordem[o].existe /\ existentes[p][o].existe
        /\ ordem'[o].dados[c] = IF c \in Aplicaveis(p, o) THEN Dados[resposta[p][o]][c]
                                                          ELSE ordem[o].dados[c]
    BY <1>1, <1>3, AtualizarEscreve
  <2>2. CASE c \in Aplicaveis(p, o)
    <3>1. EmCurso(p, o, c)'
      BY <1>1, <2>1, <2>2 DEF EmCurso, Escritos, Aplicaveis, Divergentes
    <3>2. Coberta(o, c)'
      BY <3>1 DEF Coberta
    <3> QED
      BY <3>2
  <2> QED
    BY <2>1, <2>2
<1> QED
  BY <1>2, <1>3

LEMMA AuditadasPasso ==
    ASSUME "semAuditar" \notin Riscos, Tipos, Tipos', Auditadas, [Next]_vars PROVE Auditadas'
<1> USE DEF Tipos
<1>0. /\ \A j \in Jobs : j \in Processos
      /\ "valor" \in Campos /\ "valorGratuidade" \in Campos /\ "valor" # "valorGratuidade"
  BY DEF Processos, Campos
<1>1. ASSUME \A o \in Ordens, c \in Campos :
                \/ ordem'[o].dados[c] = ordem[o].dados[c] /\ ordem'[o].existe = ordem[o].existe
                \/ Coberta(o, c)'
      PROVE  Auditadas'
  BY <1>1, CobertaFica DEF Auditadas
<1>2. ASSUME \/ Calmo \/ \E j \in Jobs : AbrirCursor(j)
             \/ \E p \in Processos : Pergunta(p) \/ BuscarPorBqIds(p)
      PROVE  Auditadas'
  BY <1>1, <1>2 DEF Calmo, AbrirCursor, Pergunta, BuscarPorBqIds, tabelas
<1>3. ASSUME NEW p \in Processos, NEW o \in Ordens, Inserir(p, o) \/ Atualizar(p, o)
      PROVE  Auditadas'
  <2>1. \A x \in Ordens \ {o} : ordem'[x] = ordem[x]
    <3>1. resposta[p][o] \in Versoes
      BY <1>3, RespostaNaFila DEF Inserir, Atualizar
    <3> QED
      BY <1>3, <3>1, InserirEscreve, AtualizarEscreve
  <2> QED
    BY <1>1, <1>3, <2>1, EscritaCoberta
<1>4. ASSUME NEW p \in Processos, NEW o \in Ordens, Manter(p, o) PROVE Auditadas'
  BY <1>1, <1>4, ManterEscreve
<1>5. ASSUME NEW q \in quarentena, Aprovar(q) PROVE Auditadas'
  <2>1. ASSUME NEW c \in q.campos PROVE <<q.ordem, c, Dados[q.versao][c]>> \in trilha'
    BY <1>5, <2>1 DEF Aprovar
  <2>2. \A c \in Campos : c \in q.campos => Coberta(q.ordem, c)'
    BY <1>5, <2>1, AprovarEscreve DEF Coberta
  <2> QED
    BY <1>1, <1>5, <2>2, AprovarEscreve
<1>6. ASSUME NEW j \in Jobs, AgruparOrdens(j) PROVE Auditadas'
  <2>1. /\ Contadas(j) \in SUBSET Ordens /\ DataPagamento(dia[j]) \in Int
        /\ \A x \in Contadas(j) : cursor[j][x] \in Nat
        /\ Agrupar(Contadas(j), "valor", DataPagamento(dia[j]), cursor[j])
    BY <1>6, TiposAgruparOrdens
  <2>2. Agrupou(Contadas(j), "valor", DataPagamento(dia[j]), cursor[j])
    BY <1>0, <2>1, AgruparEscreve
  <2> QED
    BY <1>1, <2>2 DEF Agrupou
<1>7. ASSUME AgruparGratuidade PROVE Auditadas'
  <2> DEFINE ns == [x \in Gratuitas |-> ordem[x].dados["valorGratuidade"]]
  <2>1. /\ hoje \in Int /\ Gratuitas \in SUBSET Ordens
        /\ Agrupar(Gratuitas, "valorGratuidade", hoje, ns)
        /\ \A x \in Gratuitas : ns[x] \in Nat
    BY <1>7, TiposAgruparGratuidade DEF Gratuitas
  <2> HIDE DEF ns
  <2>2. Agrupou(Gratuitas, "valorGratuidade", hoje, ns)
    BY <1>0, <2>1, AgruparEscreve
  <2> QED
    BY <1>1, <2>2 DEF Agrupou
<1> QED
  BY <1>2, <1>3, <1>4, <1>5, <1>6, <1>7, Casos

\* Every amount an order has is in the audit or about to be, when no audit
\* row is refused and no instance restarts before it: whatever executions
\* overlap, and whatever a reviewer approves.
THEOREM MudancaAuditadaSempre ==
    ASSUME "semAuditar" \notin Riscos PROVE Spec => []MudancaAuditada
<1>1. Init => Auditadas
  BY SemPrazo DEF Init, Auditadas
<1>2. Auditadas => MudancaAuditada
  BY DEF Auditadas, MudancaAuditada, Coberta, EmCurso
<1>3. Tipos /\ Tipos' /\ Auditadas /\ [Next]_vars => Auditadas'
  BY AuditadasPasso
<1> QED
  BY <1>1, <1>2, <1>3, TiposSempre, PTL DEF Spec

-----------------------------------------------------------------------------
(* What a difference becomes.                                              *)

\* The amount is the one BigQuery shows.
EmDia(o, c) == ordem[o].dados[c] = Dados[bq[o]][c]

\* What an execution leaves for the quarantine.
Retidos(p, o) == IF existentes[p][o].existe THEN Contidos(p, o) ELSE {}

\* Where the copy of an execution and its answer are what BigQuery shows, an
\* amount is that of the copy or was brought up to date since.
CopiaEmDia(p, o) ==
    existentes[p][o].existe /\ resposta[p][o] # NULL /\ resposta[p][o] = bq[o] =>
    \A c \in Campos : ordem[o].dados[c] = existentes[p][o].dados[c] \/ EmDia(o, c)

\* The order in hand: all but what goes to the quarantine was written.
MaosEmDia(p, o) ==
    pc[p] \in ComOrdem /\ atual[p] = o =>
    /\ pc[p] = "conter" => existentes[p][o].existe
    /\ resposta[p][o] = bq[o] => \A c \in Campos \ Retidos(p, o) : EmDia(o, c)

\* A row of the quarantine: all but what it still holds is up to date.
LinhaEmDia(q) ==
    q.versao = bq[q.ordem] =>
    \A c \in Campos : c \notin q.campos \/ q.status = "aprovada" => EmDia(q.ordem, c)

Visivel(o) ==
    vista[o] = bq[o] /\ bq[o] # NULL =>
    \A c \in Campos :
        \/ EmDia(o, c)
        \/ \E q \in quarentena : /\ q.ordem = o /\ q.versao = bq[o] /\ c \in q.campos
                               /\ q.status \in {"pendente", "rejeitada"}

\* BigQuery goes only forward, and so do those that follow it.
VersaoDe(o) ==
    /\ vista[o] <= bq[o]
    /\ \A q \in quarentena : q.ordem = o => q.versao <= bq[o]
VersaoLida(p, o) ==
    resposta[p][o] # NULL =>
    /\ vista[o] <= resposta[p][o] /\ resposta[p][o] <= bq[o]
    /\ \A q \in quarentena : q.ordem = o => q.versao <= resposta[p][o]

EmVersao == /\ \A o \in Ordens : VersaoDe(o)
            /\ \A p \in Processos, o \in Ordens : VersaoLida(p, o)
Vistas == /\ EmVersao
          /\ \A o \in Ordens : Visivel(o)
          /\ \A p \in Processos, o \in Ordens : CopiaEmDia(p, o) /\ MaosEmDia(p, o)
          /\ \A q \in quarentena : LinhaEmDia(q)

LEMMA VersoesNat ==
    ASSUME Tipos
    PROVE  /\ \A o \in Ordens : vista[o] \in Nat /\ bq[o] \in Nat
           /\ \A p \in Processos, o \in Ordens : resposta[p][o] \in Nat
           /\ \A q \in quarentena : /\ q.versao \in Nat /\ q.versao # NULL /\ q.ordem \in Ordens
                                    /\ q.versao \in Versoes /\ q.campos \subseteq Campos
                                    /\ q.status \in {"pendente", "aprovada", "rejeitada"}
<1>1. \A v \in Versoes \cup {NULL} : v \in Nat
  BY SincronizacaoAssumption DEF NULL
<1>2. \A o \in Ordens : vista[o] \in Nat /\ bq[o] \in Nat
  BY <1>1 DEF Tipos, TabelasOK
<1>3. \A p \in Processos, o \in Ordens : resposta[p][o] \in Nat
  BY <1>1 DEF Tipos, MemoriaOK
<1>4. \A q \in quarentena : q \in LinhaQuarentena
  BY DEF Tipos, TabelasOK
<1> QED
  BY <1>1, <1>2, <1>3, <1>4, SincronizacaoAssumption DEF LinhaQuarentena

LEMMA VistasInit == Init => Vistas
<1> SUFFICES ASSUME Init PROVE Vistas
  OBVIOUS
<1>1. /\ \A o \in Ordens : vista[o] = NULL /\ bq[o] = NULL
      /\ \A p \in Processos, o \in Ordens : /\ resposta[p][o] = NULL /\ ~existentes[p][o].existe
                                            /\ pc[p] = "fora"
      /\ quarentena = {}
  BY SemPrazo DEF Init
<1> QED
  BY <1>1 DEF Vistas, EmVersao, VersaoDe, VersaoLida, Visivel, CopiaEmDia, MaosEmDia, ComOrdem, NULL

\* The amounts of an order stay, or become what BigQuery shows.
Melhora(o) == /\ bq'[o] = bq[o]
              /\ \A c \in Campos : ordem'[o].dados[c] = ordem[o].dados[c] \/ EmDia(o, c)'
\* BigQuery shows what nobody has seen.
Passada(o) == /\ vista[o] # bq[o]
              /\ \A q \in quarentena : q.ordem = o => q.versao # bq[o]
              /\ \A p \in Processos : resposta[p][o] # NULL => resposta[p][o] # bq[o]

\* In either case what was said of the order still holds.
LEMMA CopiaFica ==
    ASSUME Vistas, NEW o \in Ordens, Melhora(o) \/ Passada(o)', NEW p \in Processos,
           existentes'[p] = existentes[p], resposta'[p] = resposta[p]
    PROVE  CopiaEmDia(p, o)'
<1>1. CASE Passada(o)'
  BY <1>1 DEF Passada, CopiaEmDia
<1>2. CASE Melhora(o)
  <2>1. CopiaEmDia(p, o)
    BY DEF Vistas
  <2> QED
    BY <1>2, <2>1 DEF Melhora, CopiaEmDia, EmDia
<1> QED
  BY <1>1, <1>2

LEMMA MaosFicam ==
    ASSUME Tipos, Vistas, NEW o \in Ordens, Melhora(o) \/ Passada(o)', NEW p \in Processos,
           Alheio(p)
    PROVE  MaosEmDia(p, o)'
<1> SUFFICES ASSUME pc'[p] \in ComOrdem, atual'[p] = o
             PROVE  /\ pc'[p] = "conter" => existentes'[p][o].existe
                    /\ resposta'[p][o] = bq'[o] =>
                          \A c \in Campos \ Retidos(p, o)' : EmDia(o, c)'
  BY DEF MaosEmDia
<1>1. /\ pc[p] \in ComOrdem /\ atual[p] = o /\ resposta'[p][o] = resposta[p][o]
      /\ existentes'[p] = existentes[p] /\ pc'[p] = pc[p]
  BY DEF Alheio
<1>2. MaosEmDia(p, o) /\ resposta[p][o] # NULL
  BY <1>1 DEF Vistas, Tipos, EmOrdem
<1>3. Retidos(p, o)' = Retidos(p, o)
  BY DEF Alheio, Retidos, Contidos, Divergentes, Aplicaveis
<1>4. CASE Passada(o)'
  BY <1>1, <1>2, <1>4 DEF Passada, MaosEmDia
<1>5. CASE Melhora(o)
  BY <1>1, <1>2, <1>3, <1>5 DEF Melhora, MaosEmDia, EmDia
<1> QED
  BY <1>4, <1>5

LEMMA VisivelFica ==
    ASSUME Vistas, NEW o \in Ordens, Melhora(o) \/ Passada(o)', vista'[o] = vista[o],
           quarentena' = quarentena
    PROVE  Visivel(o)'
<1>1. CASE Passada(o)'
  BY <1>1 DEF Passada, Visivel
<1>2. CASE Melhora(o)
  <2>1. Visivel(o)
    BY DEF Vistas
  <2> QED
    BY <1>2, <2>1 DEF Melhora, Visivel, EmDia
<1> QED
  BY <1>1, <1>2

LEMMA LinhaFica ==
    ASSUME Tipos, Vistas, NEW q \in quarentena, q \in quarentena',
           Melhora(q.ordem) \/ Passada(q.ordem)'
    PROVE  LinhaEmDia(q)'
<1>1. CASE Passada(q.ordem)'
  BY <1>1 DEF Passada, LinhaEmDia
<1>2. CASE Melhora(q.ordem)
  <2>1. LinhaEmDia(q)
    BY DEF Vistas
  <2> QED
    BY <1>2, <2>1 DEF Melhora, LinhaEmDia, EmDia
<1> QED
  BY <1>1, <1>2

\* A step that writes no quarantine and shows nothing to a reviewer.
LEMMA VistasPorPartes ==
    ASSUME Tipos, Vistas, EmVersao', quarentena' = quarentena, vista' = vista,
           \A o \in Ordens : Melhora(o) \/ Passada(o)',
           \A p \in Processos, o \in Ordens : CopiaEmDia(p, o)' /\ MaosEmDia(p, o)'
    PROVE  Vistas'
<1>1. \A o \in Ordens : Visivel(o)'
  BY VisivelFica
<1>2. \A q \in quarentena' : LinhaEmDia(q)'
  BY LinhaFica, VersoesNat
<1> QED
  BY <1>1, <1>2 DEF Vistas

-----------------------------------------------------------------------------

LEMMA VistasDoMundo ==
    ASSUME "voltaDeVersao" \notin Riscos, Tipos, Vistas, DoMundo PROVE Vistas'
<1>1. /\ UNCHANGED tabelas
      /\ \A r \in Processos : Alheio(r)
  BY TiposDoMundo
<1>2. \A o \in Ordens : bq'[o] = bq[o] \/ bq'[o] > bq[o]
  <2>1. ASSUME NEW x \in Ordens, NEW v \in Versoes, bq' = [bq EXCEPT ![x] = v],
               bq[x] = NULL \/ v > bq[x]
        PROVE  \A o \in Ordens : bq'[o] = bq[o] \/ bq'[o] > bq[o]
    <3>1. v \in Nat /\ v # NULL
      BY DadosDaVersao
    <3> QED
      BY <2>1, <3>1 DEF Tipos, TabelasOK, NULL
  <2>2. CASE \E x \in Ordens : Publicar(x)
    BY <2>1, <2>2, SincronizacaoAssumption DEF Publicar
  <2>3. CASE \E x \in Ordens : Corrigir(x)
    BY <2>1, <2>3, SincronizacaoAssumption DEF Corrigir
  <2>4. CASE Cadastrar \/ VirarDia
    BY <2>4 DEF Cadastrar, VirarDia
  <2> QED
    BY <2>2, <2>3, <2>4 DEF DoMundo
<1>3. \A p \in Processos : resposta'[p] = resposta[p] /\ existentes'[p] = existentes[p]
  BY <1>1 DEF Alheio
<1>4. /\ ordem' = ordem /\ quarentena' = quarentena /\ vista' = vista
  BY <1>1 DEF tabelas
<1>5. \A o \in Ordens : bq'[o] \in Nat
  <2>1. bq' \in [Ordens -> Versoes \cup {NULL}]
    BY TiposDoMundo DEF Tipos, TabelasOK
  <2>2. \A v \in Versoes \cup {NULL} : v \in Nat
    BY SincronizacaoAssumption DEF NULL
  <2> QED
    BY <2>1, <2>2
<1>6. ASSUME NEW o \in Ordens PROVE Melhora(o) \/ Passada(o)'
  <2>1. CASE bq'[o] = bq[o]
    BY <1>4, <2>1 DEF Melhora
  <2>2. CASE bq'[o] > bq[o]
    <3>1. VersaoDe(o) /\ \A p \in Processos : VersaoLida(p, o)
      BY DEF Vistas, EmVersao
    <3>2. vista'[o] # bq'[o]
      BY <1>4, <1>5, <2>2, <3>1, VersoesNat DEF VersaoDe
    <3>3. ASSUME NEW q \in quarentena', q.ordem = o PROVE q.versao # bq'[o]
      BY <1>4, <1>5, <2>2, <3>1, <3>3, VersoesNat DEF VersaoDe
    <3>4. ASSUME NEW p \in Processos, resposta'[p][o] # NULL PROVE resposta'[p][o] # bq'[o]
      BY <1>3, <1>5, <2>2, <3>1, <3>4, VersoesNat DEF VersaoLida
    <3> QED
      BY <3>2, <3>3, <3>4 DEF Passada
  <2> QED
    BY <1>2, <2>1, <2>2
<1>7. EmVersao'
  <2>1. ASSUME NEW o \in Ordens PROVE VersaoDe(o)'
    <3>1. VersaoDe(o)
      BY DEF Vistas, EmVersao
    <3> QED
      BY <1>2, <1>4, <1>5, <3>1, VersoesNat DEF VersaoDe
  <2>2. ASSUME NEW p \in Processos, NEW o \in Ordens PROVE VersaoLida(p, o)'
    <3>1. VersaoLida(p, o)
      BY DEF Vistas, EmVersao
    <3> QED
      BY <1>2, <1>3, <1>4, <1>5, <3>1, VersoesNat DEF VersaoLida
  <2> QED
    BY <2>1, <2>2 DEF EmVersao
<1> QED
  BY <1>1, <1>3, <1>4, <1>6, <1>7, CopiaFica, MaosFicam, VistasPorPartes

\* A step after which no execution has an order in hand it had not before,
\* nor a copy or an answer: those of the lock and of the grouping, errors,
\* restarts.
Quieta ==
    /\ UNCHANGED <<bq, quarentena, vista>>
    /\ \A o \in Ordens, c \in Campos : ordem'[o].dados[c] = ordem[o].dados[c]
    /\ \A p \in Processos :
          \/ Alheio(p)
          \/ /\ pc'[p] \notin ComOrdem
             /\ \/ resposta'[p] = resposta[p] /\ existentes'[p] = existentes[p]
                \/ resposta'[p] = SemResposta /\ existentes'[p] = SemExistentes

LEMMA VistasQuietas == ASSUME Tipos, Vistas, Quieta PROVE Vistas'
<1>1. \A o \in Ordens : Melhora(o)
  BY DEF Quieta, Melhora
<1>2. /\ \A o \in Ordens : vista'[o] = vista[o] /\ bq'[o] = bq[o]
      /\ quarentena' = quarentena /\ vista' = vista
  BY DEF Quieta
<1>3. ASSUME NEW o \in Ordens PROVE VersaoDe(o)'
  <2>1. VersaoDe(o)
    BY DEF Vistas, EmVersao
  <2> QED
    BY <1>2, <2>1 DEF VersaoDe
<1>4. ASSUME NEW p \in Processos, NEW o \in Ordens
      PROVE  VersaoLida(p, o)' /\ CopiaEmDia(p, o)' /\ MaosEmDia(p, o)'
  <2>1. VersaoLida(p, o)
    BY DEF Vistas, EmVersao
  <2>2. CASE resposta'[p] = resposta[p] /\ existentes'[p] = existentes[p]
    <3>1. VersaoLida(p, o)' /\ CopiaEmDia(p, o)'
      BY <1>1, <1>2, <2>1, <2>2, CopiaFica DEF VersaoLida
    <3>2. CASE Alheio(p)
      BY <1>1, <3>1, <3>2, MaosFicam
    <3>3. CASE pc'[p] \notin ComOrdem
      BY <3>1, <3>3 DEF MaosEmDia
    <3> QED
      BY <3>2, <3>3 DEF Quieta
  <2>3. CASE /\ pc'[p] \notin ComOrdem
             /\ resposta'[p] = SemResposta /\ existentes'[p] = SemExistentes
    BY <2>3, SemPrazo DEF VersaoLida, CopiaEmDia, MaosEmDia
  <2> QED
    BY <2>2, <2>3 DEF Quieta, Alheio
<1>5. EmVersao'
  BY <1>3, <1>4 DEF EmVersao
<1> QED
  BY <1>1, <1>2, <1>4, <1>5, VistasPorPartes

LEMMA QuietaDoProcesso ==
    ASSUME Tipos, [Next]_vars, NEW p \in Processos,
           \/ Concluir(p) \/ Abortar(p)
           \/ \E o \in Ordens : ErroNaOrdem(p, o)
           \/ p \in Jobs /\ (AcquireLock(p) \/ ReleaseLock(p) \/ AbrirCursor(p))
    PROVE  Quieta
<1>1. UNCHANGED <<bq, ordem, quarentena, vista>>
  BY DEF Concluir, Abortar, ErroNaOrdem, AcquireLock, ReleaseLock, AbrirCursor, tabelas, fora
<1>2. \A r \in Processos \ {p} : Alheio(r)
  BY TiposConcluir, TiposAbortar, TiposErroNaOrdem, TiposAcquireLock, TiposReleaseLock,
     TiposAbrirCursor
<1>3. pc'[p] \notin ComOrdem
  <2>1. CASE \E o \in Ordens : ErroNaOrdem(p, o)
    BY <2>1, TiposErroNaOrdem DEF ComOrdem
  <2>2. CASE \/ Concluir(p) \/ Abortar(p)
             \/ p \in Jobs /\ (AcquireLock(p) \/ ReleaseLock(p) \/ AbrirCursor(p))
    BY <2>2 DEF Concluir, Abortar, AcquireLock, ReleaseLock, AbrirCursor, Tipos, MemoriaOK,
                ComOrdem
  <2> QED
    BY <2>1, <2>2
<1>4. \/ resposta'[p] = resposta[p] /\ existentes'[p] = existentes[p]
      \/ resposta'[p] = SemResposta /\ existentes'[p] = SemExistentes
  <2>1. CASE Concluir(p) \/ Abortar(p) \/ (p \in Jobs /\ ReleaseLock(p))
    BY <2>1, TiposConcluir, TiposAbortar, TiposReleaseLock
  <2>2. CASE \/ \E o \in Ordens : ErroNaOrdem(p, o)
             \/ p \in Jobs /\ (AcquireLock(p) \/ AbrirCursor(p))
    BY <2>2 DEF ErroNaOrdem, AcquireLock, AbrirCursor, Proxima
  <2> QED
    BY <2>1, <2>2
<1> QED
  BY <1>1, <1>2, <1>3, <1>4 DEF Quieta

LEMMA QuietaDosOutros ==
    ASSUME Tipos, \/ FecharConexao \/ AgruparGratuidade \/ UNCHANGED vars
                  \/ \E i \in Instancias : Reiniciar(i)
                  \/ \E j \in Jobs : AgruparOrdens(j)
    PROVE  Quieta
<1>0. /\ \A j \in Jobs : j \in Processos
      /\ "valor" \in Campos /\ "valorGratuidade" \in Campos
  BY DEF Processos, Campos
<1>1. CASE FecharConexao
  BY <1>1, TiposFecharConexao DEF FecharConexao, Quieta, tabelas, fora
<1>2. CASE UNCHANGED vars
  BY <1>2 DEF vars, tabelas, fora, memoria, lock, Alheio, Quieta
<1>3. ASSUME NEW i \in Instancias, Reiniciar(i) PROVE Quieta
  <2>1. UNCHANGED <<bq, ordem, quarentena, vista>>
    BY <1>3 DEF Reiniciar, tabelas, fora
  <2>2. "fora" \notin ComOrdem
    BY DEF ComOrdem
  <2> QED
    BY <1>3, <2>1, <2>2, TiposReiniciar DEF Quieta
<1>4. ASSUME NEW j \in Jobs, AgruparOrdens(j) PROVE Quieta
  <2>1. /\ Contadas(j) \in SUBSET Ordens /\ DataPagamento(dia[j]) \in Int
        /\ \A x \in Contadas(j) : cursor[j][x] \in Nat
        /\ Agrupar(Contadas(j), "valor", DataPagamento(dia[j]), cursor[j])
        /\ \A r \in Processos \ {j} : Alheio(r)
    BY <1>4, TiposAgruparOrdens
  <2>2. Agrupou(Contadas(j), "valor", DataPagamento(dia[j]), cursor[j])
    BY <1>0, <1>4, <2>1, AgruparEscreve DEF Tipos
  <2>3. \A o \in Ordens, c \in Campos : ordem'[o].dados[c] = ordem[o].dados[c]
    BY <2>2 DEF Agrupou
  <2>4. /\ UNCHANGED <<bq, quarentena, vista, resposta, existentes>>
        /\ pc'[j] \notin ComOrdem
    BY <1>0, <1>4 DEF AgruparOrdens, fora, Tipos, MemoriaOK, ComOrdem
  <2> QED
    BY <2>1, <2>3, <2>4 DEF Quieta
<1>5. CASE AgruparGratuidade
  <2> DEFINE ns == [x \in Gratuitas |-> ordem[x].dados["valorGratuidade"]]
  <2>1. /\ hoje \in Int /\ Gratuitas \in SUBSET Ordens
        /\ Agrupar(Gratuitas, "valorGratuidade", hoje, ns)
        /\ \A x \in Gratuitas : ns[x] \in Nat
        /\ \A r \in Processos : Alheio(r)
    BY <1>5, TiposAgruparGratuidade DEF Gratuitas
  <2> HIDE DEF ns
  <2>2. Agrupou(Gratuitas, "valorGratuidade", hoje, ns)
    BY <1>0, <2>1, AgruparEscreve DEF Tipos
  <2>3. \A o \in Ordens, c \in Campos : ordem'[o].dados[c] = ordem[o].dados[c]
    BY <2>2 DEF Agrupou
  <2>4. UNCHANGED <<bq, quarentena, vista>>
    BY <1>5 DEF AgruparGratuidade, fora
  <2> QED
    BY <2>1, <2>3, <2>4 DEF Quieta
<1> QED
  BY <1>1, <1>2, <1>3, <1>4, <1>5

\* What an execution is told is what BigQuery shows, and what it copies is
\* the order.
LEMMA VistasDaPergunta ==
    ASSUME Tipos, Vistas, NEW p \in Processos, Pergunta(p) PROVE Vistas'
<1>1. /\ UNCHANGED <<bq, ordem, quarentena, vista, existentes>>
      /\ pc[p] \notin NoLaco /\ pc'[p] \notin ComOrdem
      /\ \A r \in Processos \ {p} : Alheio(r)
      /\ \A o \in Ordens : resposta'[p][o] \in {bq[o], NULL}
  BY DEF Pergunta, fora, tabelas, NoLaco, ComOrdem
<1>2. \A o \in Ordens : Melhora(o)
  BY <1>1 DEF Melhora
<1>3. ASSUME NEW o \in Ordens PROVE VersaoDe(o)'
  BY <1>1 DEF Vistas, EmVersao, VersaoDe
<1>4. ASSUME NEW r \in Processos, NEW o \in Ordens
      PROVE  VersaoLida(r, o)' /\ CopiaEmDia(r, o)' /\ MaosEmDia(r, o)'
  <2>1. CASE r # p
    <3>1. Alheio(r) /\ VersaoLida(r, o)
      BY <1>1, <2>1 DEF Vistas, EmVersao
    <3>2. resposta'[r] = resposta[r] /\ existentes'[r] = existentes[r]
      BY <3>1 DEF Alheio
    <3>3. VersaoLida(r, o)'
      BY <1>1, <3>1, <3>2 DEF VersaoLida
    <3> QED
      BY <1>2, <3>1, <3>2, <3>3, CopiaFica, MaosFicam
  <2>2. CASE r = p
    <3>1. VersaoDe(o)
      BY DEF Vistas, EmVersao
    <3>2. VersaoLida(p, o)'
      BY <1>1, <3>1, VersoesNat DEF VersaoDe, VersaoLida
    <3>3. ~existentes'[p][o].existe
      BY <1>1 DEF Tipos, EmOrdem
    <3> QED
      BY <1>1, <2>2, <3>2, <3>3 DEF CopiaEmDia, MaosEmDia
  <2> QED
    BY <2>1, <2>2
<1> QED
  BY <1>1, <1>2, <1>3, <1>4, VistasPorPartes DEF EmVersao

LEMMA VistasDoBuscar ==
    ASSUME Tipos, Vistas, NEW p \in Processos, BuscarPorBqIds(p) PROVE Vistas'
<1>1. /\ UNCHANGED <<bq, ordem, quarentena, vista, resposta>>
      /\ pc'[p] \notin ComOrdem
  BY DEF BuscarPorBqIds, fora, tabelas, ComOrdem, Tipos, MemoriaOK
<1>2. /\ \A r \in Processos \ {p} : Alheio(r)
      /\ \A o \in Ordens : existentes'[p][o] = IF resposta[p][o] # NULL THEN ordem[o] ELSE Inexistente
  BY TiposBuscar
<1>3. \A o \in Ordens : Melhora(o)
  BY <1>1 DEF Melhora
<1>4. EmVersao'
  BY <1>1 DEF Vistas, EmVersao, VersaoDe, VersaoLida
<1>5. ASSUME NEW r \in Processos, NEW o \in Ordens PROVE CopiaEmDia(r, o)' /\ MaosEmDia(r, o)'
  <2>1. CASE r # p
    <3>1. Alheio(r) /\ existentes'[r] = existentes[r] /\ resposta'[r] = resposta[r]
      BY <1>2, <2>1 DEF Alheio
    <3> QED
      BY <1>3, <3>1, CopiaFica, MaosFicam
  <2>2. CASE r = p
    BY <1>1, <1>2, <2>2 DEF CopiaEmDia, MaosEmDia
  <2> QED
    BY <2>1, <2>2
<1> QED
  BY <1>1, <1>3, <1>4, <1>5, VistasPorPartes

\* An execution writes an order with its answer: with what BigQuery shows,
\* or with what it showed before anybody saw what it shows now.
LEMMA VistasDaEscrita ==
    ASSUME Tipos, Vistas, Linhas, SoUm, NEW p \in Processos, NEW o \in Ordens,
           Inserir(p, o) \/ Atualizar(p, o)
    PROVE  Vistas'
<1>1. /\ UNCHANGED <<bq, quarentena, vista, resposta, existentes>>
      /\ pc[p] = "laco" /\ resposta[p][o] \in Versoes /\ resposta[p][o] # NULL
      /\ pc'[p] = "auditar" /\ atual'[p] = o
      /\ \A r \in Processos \ {p} : Alheio(r)
  BY RespostaNaFila, DadosDaVersao, TiposInserir, TiposAtualizar
     DEF Inserir, Atualizar, Passar, fora
<1>2. \A r \in Processos \ {p} : \A x \in Ordens : resposta[r][x] = NULL
  <2>1. \A r \in Processos \ {p} : pc[r] = "fora"
    BY <1>1 DEF SoUm
  <2> QED
    BY <2>1 DEF Tipos, EmOrdem, NoLaco
<1>3. /\ \A x \in Ordens \ {o} : ordem'[x] = ordem[x]
      /\ \A c \in Campos : \/ ordem'[o].dados[c] = ordem[o].dados[c]
                           \/ ordem'[o].dados[c] = Dados[resposta[p][o]][c]
  BY <1>1, InserirEscreve, AtualizarEscreve DEF Tipos
<1>4. Melhora(o) \/ Passada(o)'
  <2>1. CASE resposta[p][o] = bq[o]
    BY <1>1, <1>3, <2>1 DEF Melhora, EmDia
  <2>2. CASE resposta[p][o] # bq[o]
    <3>1. VersaoLida(p, o)
      BY DEF Vistas, EmVersao
    <3>2. vista[o] # bq[o]
      BY <1>1, <2>2, <3>1, VersoesNat DEF VersaoLida
    <3>3. ASSUME NEW q \in quarentena, q.ordem = o PROVE q.versao # bq[o]
      BY <1>1, <2>2, <3>1, <3>3, VersoesNat DEF VersaoLida
    <3>4. ASSUME NEW r \in Processos, resposta[r][o] # NULL PROVE resposta[r][o] # bq[o]
      BY <1>2, <2>2, <3>4
    <3> QED
      BY <1>1, <3>2, <3>3, <3>4 DEF Passada
  <2> QED
    BY <2>1, <2>2
<1>5. \A x \in Ordens : Melhora(x) \/ Passada(x)'
  BY <1>1, <1>3, <1>4 DEF Melhora
<1>6. EmVersao'
  BY <1>1 DEF Vistas, EmVersao, VersaoDe, VersaoLida
<1>7. \A r \in Processos, x \in Ordens : CopiaEmDia(r, x)'
  BY <1>1, <1>5, CopiaFica
<1>8. ASSUME resposta[p][o] = bq[o], NEW c \in Campos \ Retidos(p, o) PROVE EmDia(o, c)'
  <2>1. CASE Inserir(p, o)
    BY <1>1, <1>8, <2>1, InserirEscreve DEF EmDia, Tipos
  <2>2. CASE Atualizar(p, o)
    <3>1. /\ existentes[p][o].existe
          /\ ordem'[o].dados[c] = IF c \in Aplicaveis(p, o) THEN Dados[resposta[p][o]][c]
                                                            ELSE ordem[o].dados[c]
      BY <1>1, <2>2, AtualizarEscreve DEF Tipos
    <3>2. CASE c \in Aplicaveis(p, o)
      BY <1>1, <1>8, <3>1, <3>2 DEF EmDia
    <3>3. CASE c \notin Aplicaveis(p, o)
      <4>1. existentes[p][o].dados[c] = Dados[resposta[p][o]][c]
        BY <1>8, <3>1, <3>3 DEF Retidos, Contidos, Divergentes
      <4>2. CopiaEmDia(p, o)'
        BY <1>7
      <4>3. ordem'[o].dados[c] = existentes[p][o].dados[c] \/ EmDia(o, c)'
        BY <1>1, <1>8, <3>1, <4>2 DEF CopiaEmDia
      <4> QED
        BY <1>1, <1>8, <4>1, <4>3 DEF EmDia
    <3> QED
      BY <3>2, <3>3
  <2> QED
    BY <2>1, <2>2
<1>9. ASSUME NEW r \in Processos, NEW x \in Ordens PROVE MaosEmDia(r, x)'
  <2>1. CASE r # p
    BY <1>1, <1>5, <2>1, MaosFicam
  <2>2. CASE r = p /\ x # o
    BY <1>1, <2>2 DEF MaosEmDia
  <2>3. CASE r = p /\ x = o
    <3>1. Retidos(p, o)' = Retidos(p, o)
      BY <1>1 DEF Retidos, Contidos, Divergentes, Aplicaveis
    <3> QED
      BY <1>1, <1>8, <2>3, <3>1 DEF MaosEmDia
  <2> QED
    BY <2>1, <2>2, <2>3
<1> QED
  BY <1>1, <1>5, <1>6, <1>7, <1>9, VistasPorPartes

\* The rest of the loop, on its order in hand: no amount changes.
NoLugar(p, o) ==
    /\ UNCHANGED <<bq, resposta, existentes>>
    /\ \A x \in Ordens, c \in Campos : ordem'[x].dados[c] = ordem[x].dados[c]
    /\ pc[p] \in NoLaco /\ resposta[p][o] # NULL
    /\ \A r \in Processos \ {p} : Alheio(r)

LEMMA VersaoAvanca ==
    ASSUME Tipos, Vistas, SoUm, NEW p \in Processos, NEW o \in Ordens, NoLugar(p, o),
           vista' = vista \/ vista' = [vista EXCEPT ![o] = resposta[p][o]],
           \A q \in quarentena' : q \in quarentena \/ (q.ordem = o /\ q.versao = resposta[p][o])
    PROVE  EmVersao'
<1>1. /\ VersaoLida(p, o) /\ VersaoDe(o) /\ resposta[p][o] # NULL
      /\ UNCHANGED <<bq, resposta>>
  BY DEF Vistas, EmVersao, NoLugar
<1>2. \A x \in Ordens : vista'[x] = vista[x] \/ (x = o /\ vista'[x] = resposta[p][o])
  BY DEF Tipos, TabelasOK
<1>3. ASSUME NEW x \in Ordens PROVE VersaoDe(x)'
  <2>1. VersaoDe(x)
    BY DEF Vistas, EmVersao
  <2> QED
    BY <1>1, <1>2, <2>1 DEF VersaoDe, VersaoLida
<1>4. ASSUME NEW r \in Processos, NEW x \in Ordens PROVE VersaoLida(r, x)'
  <2>1. VersaoLida(r, x)
    BY DEF Vistas, EmVersao
  <2>2. CASE r # p
    <3>1. pc[r] = "fora"
      BY <2>2 DEF SoUm, NoLugar, NoLaco
    <3>2. resposta[r][x] = NULL
      BY <3>1 DEF Tipos, EmOrdem, NoLaco
    <3> QED
      BY <1>1, <3>2 DEF VersaoLida
  <2>3. CASE r = p
    <3>1. resposta[p][x] \in Nat
      BY VersoesNat
    <3> QED
      BY <1>1, <1>2, <2>1, <2>3, <3>1 DEF VersaoLida
  <2> QED
    BY <2>2, <2>3
<1> QED
  BY <1>3, <1>4 DEF EmVersao

\* When it goes on to contain the rest of the order.
LEMMA VistasDePassar ==
    ASSUME Tipos, Vistas, SoUm, NEW p \in Processos, NEW o \in Ordens, NoLugar(p, o),
           quarentena' = quarentena, vista' = vista, MaosEmDia(p, o)', atual'[p] = o
    PROVE  Vistas'
<1>1. \A x \in Ordens : Melhora(x)
  BY DEF NoLugar, Melhora
<1>2. EmVersao'
  BY VersaoAvanca
<1>3. ASSUME NEW r \in Processos, NEW x \in Ordens PROVE CopiaEmDia(r, x)' /\ MaosEmDia(r, x)'
  <2>1. CopiaEmDia(r, x)'
    BY <1>1, CopiaFica DEF NoLugar
  <2>2. CASE r # p
    BY <1>1, <2>1, <2>2, MaosFicam DEF NoLugar
  <2>3. CASE r = p
    BY <2>1, <2>3 DEF MaosEmDia
  <2> QED
    BY <2>2, <2>3
<1> QED
  BY <1>1, <1>2, <1>3, VistasPorPartes

\* When it is done with the order.
LEMMA VistasDeProxima ==
    ASSUME Tipos, Vistas, SoUm, NEW p \in Processos, NEW o \in Ordens, NoLugar(p, o),
           pc'[p] = "laco", vista' = [vista EXCEPT ![o] = resposta[p][o]],
           quarentena \subseteq quarentena',
           \A q \in quarentena' : \/ q \in quarentena
                                  \/ q.ordem = o /\ q.versao = resposta[p][o] /\ LinhaEmDia(q)',
           Visivel(o)'
    PROVE  Vistas'
<1>1. \A x \in Ordens : Melhora(x)
  BY DEF NoLugar, Melhora
<1>2. EmVersao'
  BY VersaoAvanca
<1>3. ASSUME NEW r \in Processos, NEW x \in Ordens PROVE CopiaEmDia(r, x)' /\ MaosEmDia(r, x)'
  <2>1. CopiaEmDia(r, x)'
    BY <1>1, CopiaFica DEF NoLugar
  <2>2. CASE r # p
    BY <1>1, <2>1, <2>2, MaosFicam DEF NoLugar
  <2>3. CASE r = p
    BY <2>1, <2>3 DEF MaosEmDia, ComOrdem
  <2> QED
    BY <2>2, <2>3
<1>4. ASSUME NEW q \in quarentena' PROVE LinhaEmDia(q)'
  BY <1>1, <1>4, LinhaFica, VersoesNat
<1>5. ASSUME NEW x \in Ordens PROVE Visivel(x)'
  <2>1. CASE x = o
    BY <2>1
  <2>2. CASE x # o
    <3>1. Visivel(x) /\ Melhora(x)
      BY <1>1 DEF Vistas
    <3>2. vista'[x] = vista[x]
      BY <2>2 DEF Tipos, TabelasOK
    <3> QED
      BY <3>1, <3>2 DEF Visivel, Melhora, EmDia
  <2> QED
    BY <2>1, <2>2
<1> QED
  BY <1>2, <1>3, <1>4, <1>5 DEF Vistas

LEMMA VistasDoManter ==
    ASSUME Tipos, Vistas, SoUm, NEW p \in Processos, NEW o \in Ordens, Manter(p, o)
    PROVE  Vistas'
<1>1. /\ quarentena' = quarentena /\ existentes[p][o].existe /\ Aplicaveis(p, o) = {}
      /\ UNCHANGED <<resposta, existentes, bq>>
  BY DEF Manter, Passar, Proxima, fora
<1>2. resposta[p][o] \in Versoes /\ resposta[p][o] # NULL /\ pc[p] \in NoLaco
  BY RespostaNaFila, DadosDaVersao DEF Manter, NoLaco
<1>3. NoLugar(p, o)
  BY <1>1, <1>2, ManterEscreve, TiposManter DEF NoLugar, Tipos
<1>4. ASSUME resposta[p][o] = bq[o], NEW c \in Campos, c \notin Contidos(p, o)
      PROVE  EmDia(o, c)'
  <2>1. existentes[p][o].dados[c] = Dados[resposta[p][o]][c]
    BY <1>1, <1>4 DEF Contidos, Divergentes
  <2>2. CopiaEmDia(p, o)
    BY DEF Vistas
  <2>3. ordem[o].dados[c] = existentes[p][o].dados[c] \/ EmDia(o, c)
    BY <1>1, <1>2, <1>4, <2>2 DEF CopiaEmDia
  <2> QED
    BY <1>3, <1>4, <2>1, <2>3 DEF EmDia, NoLugar
<1>5. CASE /\ Contidos(p, o) = {} /\ pc'[p] = "laco"
           /\ vista' = [vista EXCEPT ![o] = resposta[p][o]]
  <2>1. vista'[o] = resposta[p][o]
    BY <1>5 DEF Tipos, TabelasOK
  <2>2. Visivel(o)'
    BY <1>1, <1>4, <1>5, <2>1 DEF Visivel
  <2> QED
    BY <1>1, <1>3, <1>5, <2>2, VistasDeProxima
<1>6. CASE Contidos(p, o) # {} /\ pc'[p] = "conter" /\ atual'[p] = o /\ vista' = vista
  <2>1. Retidos(p, o)' = Contidos(p, o)
    BY <1>1 DEF Retidos, Contidos, Divergentes, Aplicaveis
  <2>2. MaosEmDia(p, o)'
    BY <1>1, <1>4, <2>1 DEF MaosEmDia
  <2> QED
    BY <1>1, <1>3, <1>6, <2>2, VistasDePassar
<1> QED
  BY <1>5, <1>6, TiposManter

LEMMA VistasDoAuditar ==
    ASSUME Tipos, Vistas, SoUm, NEW p \in Processos, Auditar(p) PROVE Vistas'
<1>0. /\ UNCHANGED <<resposta, existentes, bq, ordem, quarentena>>
      /\ pc[p] \in ComOrdem /\ pc[p] \in NoLaco /\ atual[p] \in Ordens
  BY RespostaEmMaos DEF Auditar, Passar, Proxima, fora, NoLaco, ComOrdem
<1> SUFFICES ASSUME NEW o \in Ordens, o = atual[p] PROVE Vistas'
  BY <1>0
<1>1. /\ UNCHANGED <<resposta, existentes, bq, ordem, quarentena>>
      /\ pc[p] \in ComOrdem /\ pc[p] \in NoLaco
  BY <1>0
<1>2. resposta[p][o] \in Versoes /\ resposta[p][o] # NULL
  BY <1>1, RespostaEmMaos, DadosDaVersao
<1>3. NoLugar(p, o)
  BY <1>1, <1>2, TiposAuditar DEF NoLugar
<1>4. resposta[p][o] = bq[o] => \A c \in Campos \ Retidos(p, o) : EmDia(o, c)'
  BY <1>1, <1>2 DEF Vistas, MaosEmDia, EmDia
<1>5. CASE /\ existentes[p][o].existe /\ pc'[p] = "conter" /\ atual'[p] = o /\ vista' = vista
  <2>1. Retidos(p, o)' = Retidos(p, o)
    BY <1>1 DEF Retidos, Contidos, Divergentes, Aplicaveis
  <2>2. MaosEmDia(p, o)'
    BY <1>1, <1>4, <1>5, <2>1 DEF MaosEmDia
  <2> QED
    BY <1>1, <1>2, <1>3, <1>5, <2>2, VistasDePassar
<1>6. CASE /\ ~(existentes[p][o].existe /\ Contidos(p, o) # {})
           /\ pc'[p] = "laco" /\ vista' = [vista EXCEPT ![o] = resposta[p][o]]
  <2>1. vista'[o] = resposta[p][o]
    BY <1>2, <1>6 DEF Tipos, TabelasOK
  <2>2. Retidos(p, o) = {}
    BY <1>6 DEF Retidos
  <2>3. Visivel(o)'
    BY <1>1, <1>4, <2>1, <2>2 DEF Visivel
  <2> QED
    BY <1>1, <1>2, <1>3, <1>6, <2>3, VistasDeProxima
<1> QED
  BY <1>5, <1>6, TiposAuditar

LEMMA VistasDoConter ==
    ASSUME Tipos, Vistas, SoUm, NEW p \in Processos, Conter(p) PROVE Vistas'
<1>0. pc[p] \in ComOrdem /\ atual[p] \in Ordens /\ resposta[p][atual[p]] \in Versoes
  BY RespostaEmMaos DEF Conter, ComOrdem
<1> SUFFICES ASSUME NEW o \in Ordens, o = atual[p], NEW v \in Versoes, v = resposta[p][o]
             PROVE  Vistas'
  BY <1>0
<1>1. /\ UNCHANGED <<resposta, existentes, bq, ordem>>
      /\ pc[p] = "conter" /\ pc[p] \in ComOrdem /\ pc[p] \in NoLaco
      /\ vista' = [vista EXCEPT ![o] = v]
      /\ quarentena' = IF JaEmQuarentena(o, v) THEN quarentena
                       ELSE quarentena \cup {[ordem |-> o, versao |-> v,
                                              campos |-> Contidos(p, o), status |-> "pendente"]}
  BY DEF Conter, Proxima, fora, NoLaco, ComOrdem
<1>2. v # NULL
  BY DadosDaVersao
<1>3. NoLugar(p, o) /\ pc'[p] = "laco"
  BY <1>1, <1>2, TiposConter DEF NoLugar
<1>4. MaosEmDia(p, o)
  BY <1>2 DEF Vistas
<1>5. v = bq[o] => \A c \in Campos : c \notin Contidos(p, o) => EmDia(o, c)'
  BY <1>1, <1>4 DEF MaosEmDia, Retidos, EmDia
<1>6. vista'[o] = v
  BY <1>1, <1>2 DEF Tipos, TabelasOK
<1>7. CASE JaEmQuarentena(o, v)
  <2>1. quarentena' = quarentena
    BY <1>1, <1>7
  <2>2. PICK q \in quarentena : q.ordem = o /\ q.versao = v
    BY <1>7 DEF JaEmQuarentena
  <2>3. LinhaEmDia(q) /\ q.status \in {"pendente", "aprovada", "rejeitada"}
    BY VersoesNat DEF Vistas
  <2>4. v = bq[o] => \A c \in Campos : \/ EmDia(o, c)'
                                       \/ c \in q.campos /\ q.status \in {"pendente", "rejeitada"}
    BY <1>1, <2>2, <2>3 DEF LinhaEmDia, EmDia
  <2>5. Visivel(o)'
    BY <1>1, <1>6, <2>1, <2>2, <2>4 DEF Visivel
  <2> QED
    BY <1>1, <1>2, <1>3, <2>1, <2>5, VistasDeProxima
<1>8. CASE ~JaEmQuarentena(o, v)
  <2>1. PICK nova : /\ quarentena' = quarentena \cup {nova}
                    /\ nova.ordem = o /\ nova.versao = v /\ nova.status = "pendente"
                    /\ nova.campos = Contidos(p, o)
    <3> DEFINE n == [ordem |-> o, versao |-> v, campos |-> Contidos(p, o), status |-> "pendente"]
    <3>1. quarentena' = quarentena \cup {n}
      BY <1>1, <1>8
    <3>2. n.ordem = o /\ n.versao = v /\ n.status = "pendente" /\ n.campos = Contidos(p, o)
      OBVIOUS
    <3> HIDE DEF n
    <3> QED
      BY <3>1, <3>2
  <2>2. nova \in quarentena'
    BY <2>1
  <2>3. LinhaEmDia(nova)'
    BY <1>1, <1>5, <2>1 DEF LinhaEmDia
  <2>4. Visivel(o)'
    BY <1>1, <1>5, <1>6, <2>1, <2>2 DEF Visivel
  <2> QED
    BY <1>1, <1>2, <1>3, <2>1, <2>2, <2>3, <2>4, VistasDeProxima
<1> QED
  BY <1>7, <1>8

\* The reviewer, of a row BigQuery still says.
LEMMA VistasDaRevisao ==
    ASSUME "aprovarAntiga" \notin Riscos, Tipos, Vistas, NEW q \in quarentena,
           Aprovar(q) \/ Rejeitar(q)
    PROVE  Vistas'
<1>1. /\ q.ordem \in Ordens /\ q.status = "pendente"
      /\ UNCHANGED <<vista, bq, resposta, existentes>>
      /\ \A r \in Processos : Alheio(r)
  BY VersoesNat, TiposAprovar, TiposRejeitar DEF Aprovar, Rejeitar, fora, memoria
<1>2. PICK w : /\ w.ordem = q.ordem /\ w.versao = q.versao /\ w.campos = q.campos
               /\ \/ w.status = "rejeitada" /\ Rejeitar(q)
                  \/ w.status = "aprovada" /\ Aprovar(q)
               /\ quarentena' = (quarentena \ {q}) \cup {w}
  <2>1. q \in LinhaQuarentena
    BY DEF Tipos, TabelasOK
  <2>2. CASE Aprovar(q)
    <3>1. quarentena' = (quarentena \ {q}) \cup {[q EXCEPT !.status = "aprovada"]}
      BY <2>2 DEF Aprovar, Revisada
    <3> QED
      BY <2>1, <2>2, <3>1 DEF LinhaQuarentena
  <2>3. CASE Rejeitar(q)
    <3>1. quarentena' = (quarentena \ {q}) \cup {[q EXCEPT !.status = "rejeitada"]}
      BY <2>3 DEF Rejeitar, Revisada
    <3> QED
      BY <2>1, <2>3, <3>1 DEF LinhaQuarentena
  <2> QED
    BY <2>2, <2>3
<1>3. Aprovar(q) => /\ q.versao = bq[q.ordem]
                    /\ \A c \in Campos : c \in q.campos => EmDia(q.ordem, c)'
  BY <1>1, AprovarEscreve DEF Aprovar, EmDia, Tipos
<1>4. \A x \in Ordens : Melhora(x)
  <2>1. CASE Aprovar(q)
    <3>1. /\ \A x \in Ordens \ {q.ordem} : ordem'[x] = ordem[x]
          /\ \A c \in Campos : c \notin q.campos => ordem'[q.ordem].dados[c] = ordem[q.ordem].dados[c]
      BY <2>1, AprovarEscreve DEF Tipos
    <3> QED
      BY <1>1, <1>3, <2>1, <3>1 DEF Melhora
  <2>2. CASE Rejeitar(q)
    BY <1>1, <2>2 DEF Rejeitar, Melhora
  <2> QED
    BY <2>1, <2>2
<1>5. EmVersao'
  BY <1>1, <1>2 DEF Vistas, EmVersao, VersaoDe, VersaoLida
<1>6. ASSUME NEW r \in Processos, NEW x \in Ordens PROVE CopiaEmDia(r, x)' /\ MaosEmDia(r, x)'
  BY <1>1, <1>4, CopiaFica, MaosFicam
<1>7. ASSUME NEW z \in quarentena' PROVE LinhaEmDia(z)'
  <2>1. CASE z \in quarentena
    BY <1>4, <1>7, <2>1, LinhaFica, VersoesNat
  <2>2. CASE z = w
    <3>1. LinhaEmDia(q) /\ Melhora(q.ordem)
      BY <1>1, <1>4 DEF Vistas
    <3> QED
      BY <1>1, <1>2, <1>3, <2>2, <3>1 DEF LinhaEmDia, Melhora, EmDia
  <2> QED
    BY <1>2, <1>7, <2>1, <2>2
<1>8. ASSUME NEW x \in Ordens PROVE Visivel(x)'
  <2> SUFFICES ASSUME vista'[x] = bq'[x], bq'[x] # NULL, NEW c \in Campos, ~EmDia(x, c)'
               PROVE  \E z \in quarentena' : /\ z.ordem = x /\ z.versao = bq'[x] /\ c \in z.campos
                                             /\ z.status \in {"pendente", "rejeitada"}
    BY DEF Visivel
  <2>1. Visivel(x) /\ Melhora(x)
    BY <1>4 DEF Vistas
  <2>2. PICK y \in quarentena : /\ y.ordem = x /\ y.versao = bq[x] /\ c \in y.campos
                                /\ y.status \in {"pendente", "rejeitada"}
    BY <1>1, <2>1 DEF Visivel, Melhora, EmDia
  <2>3. CASE y # q
    BY <1>1, <1>2, <2>2, <2>3
  <2>4. CASE y = q
    <3>1. ~Aprovar(q)
      BY <1>3, <2>2, <2>4
    <3> QED
      BY <1>1, <1>2, <2>2, <2>4, <3>1
  <2> QED
    BY <2>3, <2>4
<1> QED
  BY <1>5, <1>6, <1>7, <1>8 DEF Vistas

LEMMA VistasPasso ==
    ASSUME Riscos \cap {"voltaDeVersao", "aprovarAntiga"} = {},
           Tipos, Linhas, SoUm, Vistas, [Next]_vars
    PROVE  Vistas'
<1>0. Manual \in Processos /\ \A j \in Jobs : j \in Processos
  BY DEF Processos
<1>1. CASE DoMundo
  BY <1>1, VistasDoMundo
<1>2. CASE \/ FecharConexao \/ AgruparGratuidade \/ UNCHANGED vars
           \/ \E i \in Instancias : Reiniciar(i)
           \/ \E j \in Jobs : AgruparOrdens(j)
  BY <1>2, QuietaDosOutros, VistasQuietas
<1>3. ASSUME NEW p \in Processos, Abortar(p) \/ \E o \in Ordens : ErroNaOrdem(p, o)
      PROVE  Vistas'
  BY <1>3, QuietaDoProcesso, VistasQuietas
<1>4. ASSUME NEW j \in Jobs, AcquireLock(j) \/ ReleaseLock(j) \/ AbrirCursor(j) PROVE Vistas'
  BY <1>0, <1>4, QuietaDoProcesso, VistasQuietas
<1>5. ASSUME IniciarManual \/ \E j \in Jobs : Consultar(j) PROVE Vistas'
  BY <1>0, <1>5, PerguntaDeUm, VistasDaPergunta
<1>6. ASSUME NEW p \in Processos, Passo(p) PROVE Vistas'
  <2>1. CASE Concluir(p)
    BY <2>1, QuietaDoProcesso, VistasQuietas
  <2>2. CASE BuscarPorBqIds(p) \/ Auditar(p) \/ Conter(p)
    BY <2>2, VistasDoBuscar, VistasDoAuditar, VistasDoConter
  <2>3. CASE \E o \in Ordens : Inserir(p, o) \/ Atualizar(p, o) \/ Manter(p, o)
    BY <2>3, VistasDaEscrita, VistasDoManter
  <2> QED
    BY <1>6, <2>1, <2>2, <2>3 DEF Passo
<1>7. ASSUME NEW q \in quarentena, Aprovar(q) \/ Rejeitar(q) PROVE Vistas'
  BY <1>7, VistasDaRevisao
<1> QED
  BY <1>0, <1>1, <1>2, <1>3, <1>4, <1>5, <1>6, <1>7 DEF Next, DoMundo, PassoDoJob

\* Once an execution compared an order with what BigQuery still shows, a
\* difference is in front of a reviewer or was refused by one: when
\* executions do not overlap, BigQuery does not go back to a content it had,
\* and no row is approved that it no longer says.
THEOREM DivergenciaVisivelSempre ==
    ASSUME Riscos \cap {"mesmaConexao", "conexaoFecha", "sobrepor",
                        "voltaDeVersao", "aprovarAntiga"} = {}
    PROVE  Spec => []DivergenciaVisivel
<1>1. Spec => []SoUm
  BY SoUmSempre
<1>2. Tipos /\ Linhas /\ SoUm /\ Vistas /\ [Next]_vars => Vistas'
  BY VistasPasso
<1>3. Vistas => DivergenciaVisivel
  BY DEF Vistas, Visivel, EmDia, DivergenciaVisivel
<1> QED
  BY <1>1, <1>2, <1>3, VistasInit, LinhasSempre, TiposSempre, PTL DEF Spec
==============================================================================
