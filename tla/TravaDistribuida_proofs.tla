------------------------ MODULE TravaDistribuida_proofs ------------------------
(***************************************************************************)
(* Proofs about TravaDistribuida, for any number of instances, connections *)
(* and executions: whenever no connection of a holder is closed, the lock  *)
(* excludes instances, and a second execution of one instance gets in only *)
(* when it is served by the holder's connection.                           *)
(***************************************************************************)
EXTENDS TravaDistribuida, FiniteSetTheorems, TLAPS

\* Whoever runs is on the instance of the session that holds the lock.
DonaEDaInstancia ==
    \A e \in Rodando : dona \in Conexoes /\ PoolDe[dona] = InstanciaDe[e]

\* The inductive invariant.  TravaCobre is what makes the last unlock of a
\* session safe for DonaEDaInstancia: it comes when one execution runs.
IndTrava == TypeOK /\ TravaCobre /\ DonaEDaInstancia

\* TypeOK alone: every step of acquireLock, releaseLock, the pool and a
\* restart keeps the types, and the session holds iff it is counted.
THEOREM TravaTipos == Spec => []TypeOK
<1>1. Init => TypeOK
  BY TravaAssumption DEF Init, TypeOK
<1>2. TypeOK /\ [Next]_vars => TypeOK'
  <2> SUFFICES ASSUME TypeOK, [Next]_vars PROVE TypeOK'
    OBVIOUS
  <2> USE TravaAssumption DEF TypeOK
  <2>1. ASSUME NEW e \in Execucoes, AcquireLock(e) PROVE TypeOK'
    BY <2>1 DEF AcquireLock, Pool, PgTryAdvisoryLock
  <2>2. ASSUME NEW e \in Execucoes, ReleaseLock(e) PROVE TypeOK'
    BY <2>2 DEF ReleaseLock, Pool, PgAdvisoryUnlock
  <2>3. CASE FecharConexao
    BY <2>3 DEF FecharConexao
  <2>4. ASSUME NEW i \in Instancias, Reiniciar(i) PROVE TypeOK'
    BY <2>4 DEF Reiniciar
  <2>5. CASE UNCHANGED vars
    BY <2>5 DEF vars
  <2> QED
    BY <2>1, <2>2, <2>3, <2>4, <2>5 DEF Next
<1> QED
  BY <1>1, <1>2, PTL DEF Spec

\* The running executions are finitely many, and their number is a natural.
LEMMA RodandoFinito ==
    IsFiniteSet(Rodando) /\ Cardinality(Rodando) \in Nat
<1>1. Rodando \subseteq Execucoes
  BY DEF Rodando
<1> QED
  BY <1>1, TravaAssumption, FS_Subset, FS_CardinalityType

\* A free lock means that nothing runs.
LEMMA LivreEntaoParado ==
    ASSUME TypeOK, TravaCobre, vezes = 0 PROVE Rodando = {}
<1>1. Cardinality(Rodando) = 0
  BY RodandoFinito DEF TravaCobre
<1> QED
  BY <1>1, RodandoFinito, FS_EmptySet

\* acquireLock keeps the invariant: a grant is counted, and comes from the
\* session of the others' instance or from a free lock.
LEMMA AcquireMantem ==
    ASSUME IndTrava, TypeOK', NEW e \in Execucoes, AcquireLock(e)
    PROVE  IndTrava'
<1> USE TravaAssumption DEF IndTrava
<1>1. Rodando' = Rodando \cup {e} /\ e \notin Rodando
  BY DEF AcquireLock, Rodando, TypeOK
<1>2. TravaCobre'
  <2>1. Cardinality(Rodando') = Cardinality(Rodando) + 1
    BY <1>1, RodandoFinito, FS_AddElement
  <2> QED
    BY <2>1, RodandoFinito DEF AcquireLock, TravaCobre, TypeOK
<1>3. PICK c \in Pool(e) : PgTryAdvisoryLock(c) /\ dona' = c
  BY DEF AcquireLock
<1>4. DonaEDaInstancia'
  <2>1. c \in Conexoes /\ PoolDe[c] = InstanciaDe[e]
    BY <1>3 DEF Pool
  <2>2. ASSUME NEW f \in Rodando PROVE PoolDe[c] = InstanciaDe[f]
    <3>1. dona \in Conexoes /\ PoolDe[dona] = InstanciaDe[f]
      BY <2>2 DEF DonaEDaInstancia
    <3> QED
      BY <1>3, <3>1 DEF PgTryAdvisoryLock
  <2> QED
    BY <1>1, <1>3, <2>1, <2>2 DEF DonaEDaInstancia
<1> QED
  BY <1>2, <1>4

\* releaseLock keeps it, on the holder's session or on another.
LEMMA ReleaseMantem ==
    ASSUME IndTrava, TypeOK', NEW e \in Execucoes, ReleaseLock(e)
    PROVE  IndTrava'
<1> USE TravaAssumption DEF IndTrava
<1>1. Rodando' = Rodando \ {e} /\ e \in Rodando
  BY DEF ReleaseLock, Rodando, TypeOK
<1>2. Cardinality(Rodando') = Cardinality(Rodando) - 1
  BY <1>1, RodandoFinito, FS_RemoveElement
<1>3. \/ vezes' = vezes /\ dona' = dona
      \/ vezes' = vezes - 1 /\ dona' = IF vezes = 1 THEN Ninguem ELSE dona
  BY DEF ReleaseLock, PgAdvisoryUnlock
<1>4. TravaCobre'
  BY <1>2, <1>3, RodandoFinito DEF TravaCobre, TypeOK
<1>5. DonaEDaInstancia'
  <2>1. CASE dona' = dona
    BY <1>1, <2>1 DEF DonaEDaInstancia
  <2>2. CASE dona' # dona
    <3>1. vezes' = 0
      BY <1>3, <2>2 DEF TypeOK
    <3>2. IsFiniteSet(Rodando') /\ Cardinality(Rodando') \in Nat
      BY <1>1, RodandoFinito, FS_Subset, FS_CardinalityType
    <3>3. Cardinality(Rodando') = 0
      BY <1>4, <3>1, <3>2 DEF TravaCobre
    <3>4. Rodando' = {}
      BY <3>2, <3>3, FS_EmptySet
    <3> QED
      BY <3>4 DEF DonaEDaInstancia
  <2> QED
    BY <2>1, <2>2
<1> QED
  BY <1>4, <1>5

\* The pool keeps it as long as it closes no connection under an execution.
LEMMA FecharMantem ==
    ASSUME IndTrava, TypeOK', FecharConexao, "conexaoFecha" \notin Riscos
    PROVE  IndTrava'
<1>1. Rodando' = {}
  BY DEF FecharConexao, Rodando
<1>2. Cardinality(Rodando') = 0
  BY <1>1, FS_EmptySet
<1> QED
  BY <1>1, <1>2 DEF IndTrava, TravaCobre, DonaEDaInstancia, TypeOK

\* A restart ends the holder's session together with all that ran under it.
LEMMA ReiniciarMantem ==
    ASSUME IndTrava, TypeOK', NEW i \in Instancias, Reiniciar(i)
    PROVE  IndTrava'
<1> USE TravaAssumption DEF IndTrava
<1>1. Rodando' = {e \in Rodando : InstanciaDe[e] # i}
  BY DEF Reiniciar, Rodando, TypeOK
<1>2. CASE dona \in Conexoes /\ PoolDe[dona] = i
  <2>1. Rodando' = {}
    BY <1>1, <1>2 DEF DonaEDaInstancia
  <2>2. Cardinality(Rodando') = 0
    BY <2>1, FS_EmptySet
  <2> QED
    BY <2>1, <2>2 DEF TravaCobre, DonaEDaInstancia, TypeOK
<1>3. CASE ~(dona \in Conexoes /\ PoolDe[dona] = i)
  <2>1. dona' = dona /\ vezes' = vezes
    BY <1>3 DEF Reiniciar
  <2>2. Cardinality(Rodando') <= Cardinality(Rodando)
    BY <1>1, RodandoFinito, FS_Subset
  <2>3. Cardinality(Rodando') \in Nat
    BY <1>1, RodandoFinito, FS_Subset, FS_CardinalityType
  <2>4. TravaCobre'
    BY <2>1, <2>2, <2>3, RodandoFinito DEF TravaCobre, TypeOK
  <2> QED
    BY <1>1, <2>1, <2>4 DEF DonaEDaInstancia
<1> QED
  BY <1>2, <1>3

\* The invariant holds whenever the pool closes no holder's connection.
THEOREM InvarianteDaTrava ==
    ASSUME "conexaoFecha" \notin Riscos PROVE Spec => []IndTrava
<1>1. Init => IndTrava
  <2> SUFFICES ASSUME Init PROVE IndTrava
    OBVIOUS
  <2>1. Rodando = {}
    BY DEF Init, Rodando
  <2>2. Cardinality(Rodando) = 0
    BY <2>1, FS_EmptySet
  <2>3. TypeOK
    BY TravaAssumption DEF Init, TypeOK
  <2> QED
    BY <2>1, <2>2, <2>3 DEF Init, IndTrava, TravaCobre, DonaEDaInstancia
<1>2. IndTrava /\ TypeOK' /\ [Next]_vars => IndTrava'
  <2> SUFFICES ASSUME IndTrava, TypeOK', [Next]_vars PROVE IndTrava'
    OBVIOUS
  <2>1. CASE UNCHANGED vars
    BY <2>1 DEF vars, IndTrava, TypeOK, TravaCobre, DonaEDaInstancia, Rodando
  <2> QED
    BY <2>1, AcquireMantem, ReleaseMantem, FecharMantem, ReiniciarMantem DEF Next
<1> QED
  BY <1>1, <1>2, TravaTipos, PTL DEF Spec

\* However many executions run on the holder's session, no release frees the
\* lock under one of them.
THEOREM CobreSempre ==
    ASSUME "conexaoFecha" \notin Riscos PROVE Spec => []TravaCobre
<1>1. IndTrava => TravaCobre
  BY DEF IndTrava
<1> QED
  BY <1>1, InvarianteDaTrava, PTL

\* Two instances never run the job at once, whatever connections the pool
\* hands out.
THEOREM ExclusaoEntreInstancias ==
    ASSUME "conexaoFecha" \notin Riscos PROVE Spec => []UmaInstanciaPorVez
<1>1. IndTrava => UmaInstanciaPorVez
  BY DEF IndTrava, DonaEDaInstancia, UmaInstanciaPorVez
<1> QED
  BY <1>1, InvarianteDaTrava, PTL

\* An execution that begins while others run.
ComecaAoLado(e) == Rodando # {} /\ e \in Rodando' \ Rodando

\* The one way in that the lock leaves open: an execution that begins beside
\* others is of the instance whose session holds the lock, was served by
\* that very connection, and its grant is counted with theirs.  This is what
\* "mesmaConexao" names; with that risk the run trava_mesma_conexao shows that
\* the way is taken.
SoPelaDona ==
    [][\A e \in Execucoes : ComecaAoLado(e) =>
          dona \in Pool(e) /\ dona' = dona /\ vezes' = vezes + 1]_vars

THEOREM SoPelaDonaSempre ==
    ASSUME "conexaoFecha" \notin Riscos PROVE Spec => SoPelaDona
<1> DEFINE Passo == \A e \in Execucoes : ComecaAoLado(e) =>
                       dona \in Pool(e) /\ dona' = dona /\ vezes' = vezes + 1
<1>1. IndTrava /\ [Next]_vars => [Passo]_vars
  <2> SUFFICES ASSUME IndTrava, Next, NEW e \in Execucoes, ComecaAoLado(e)
               PROVE  dona \in Pool(e) /\ dona' = dona /\ vezes' = vezes + 1
    BY DEF Passo
  <2>1. e \in Rodando' /\ e \notin Rodando /\ Rodando # {}
    BY DEF ComecaAoLado
  <2>2. AcquireLock(e)
    <3>1. ASSUME NEW f \in Execucoes, AcquireLock(f) PROVE f = e
      BY <2>1, <3>1 DEF AcquireLock, Rodando, IndTrava, TypeOK
    <3>2. ASSUME NEW f \in Execucoes, ReleaseLock(f) PROVE Rodando' \subseteq Rodando
      BY <3>2 DEF ReleaseLock, Rodando, IndTrava, TypeOK
    <3>3. ASSUME FecharConexao PROVE Rodando' \subseteq Rodando
      BY <3>3 DEF FecharConexao, Rodando
    <3>4. ASSUME NEW i \in Instancias, Reiniciar(i) PROVE Rodando' \subseteq Rodando
      BY <3>4 DEF Reiniciar, Rodando, IndTrava, TypeOK
    <3> QED
      BY <2>1, <3>1, <3>2, <3>3, <3>4 DEF Next
  <2>3. dona # Ninguem
    BY <2>1, LivreEntaoParado DEF IndTrava, TypeOK
  <2> QED
    BY <2>2, <2>3 DEF AcquireLock, PgTryAdvisoryLock
<1>2. Spec => []IndTrava
  BY InvarianteDaTrava
<1> QED
  BY <1>1, <1>2, PTL DEF Spec, SoPelaDona
=============================================================================
