--------------------------- MODULE TravaDistribuida ---------------------------
(***************************************************************************)
(* The lock of the synchronisation jobs, for one key: a PostgreSQL         *)
(* advisory lock, which belongs to the session that took it.  acquireLock  *)
(* and releaseLock are two queries of a pool, so each runs on whichever    *)
(* connection of the instance is free: the release may miss the session    *)
(* that holds the lock, and an acquire on that session is granted again.   *)
(*                                                                         *)
(* Executions of one key meet: the hourly jobs of modais and of            *)
(* guardadores both call the method of modais, as does the start of the    *)
(* application.  The synchronisation of transactions takes a lock of its   *)
(* own in the same way.                                                    *)
(***************************************************************************)
EXTENDS Naturals, FiniteSets

CONSTANTS
    Instancias,   \* running copies of the application
    Conexoes,     \* connections to the database
    PoolDe,       \* the instance whose pool a connection is in
    Execucoes,    \* executions of the job that may be alive at once
    InstanciaDe,  \* where each execution runs
    Ninguem,      \* no connection
    Riscos,       \* see RiscosPossiveis
    MaxVezes,     \* bound on the times one session holds the lock
    MaxQuedas     \* bound on restarts

RiscosPossiveis ==
    { "mesmaConexao",   \* a second execution is served by the holder's connection
      "conexaoFecha" }  \* the pool closes the holder's connection as idle

ASSUME TravaAssumption ==
    /\ PoolDe \in [Conexoes -> Instancias]
    /\ InstanciaDe \in [Execucoes -> Instancias]
    /\ Ninguem \notin Conexoes
    /\ IsFiniteSet(Execucoes)
    /\ Riscos \subseteq RiscosPossiveis
    /\ MaxVezes \in Nat /\ MaxQuedas \in Nat

VARIABLES
    dona,    \* the connection whose session holds the lock
    vezes,   \* how many times it holds it
    pc,      \* where each execution is
    quedas

vars == <<dona, vezes, pc, quedas>>

Rodando == {e \in Execucoes : pc[e] = "rodando"}
Pool(e) == {c \in Conexoes : PoolDe[c] = InstanciaDe[e]}

Init ==
    /\ dona = Ninguem
    /\ vezes = 0
    /\ pc = [e \in Execucoes |-> "fora"]
    /\ quedas = 0

\* pg_try_advisory_lock: free, or already of this session.
PgTryAdvisoryLock(c) == dona \in {Ninguem, c}

\* Mutant: the answer of the database is not looked at.
AcquireLockSemResposta(e) ==
    /\ pc[e] = "fora"
    /\ vezes < MaxVezes
    /\ \E c \in Pool(e) :
          /\ dona' = IF PgTryAdvisoryLock(c) THEN c ELSE dona
          /\ vezes' = IF PgTryAdvisoryLock(c) THEN vezes + 1 ELSE vezes
    /\ pc' = [pc EXCEPT ![e] = "rodando"]
    /\ UNCHANGED quedas

\* An execution that is refused the lock returns, and nothing changes.
AcquireLock(e) ==
    /\ pc[e] = "fora"
    /\ vezes < MaxVezes
    /\ \E c \in Pool(e) :
          /\ PgTryAdvisoryLock(c)
          /\ "mesmaConexao" \in Riscos \/ c # dona \/ Rodando = {}
          /\ dona' = c
    /\ vezes' = vezes + 1
    /\ pc' = [pc EXCEPT ![e] = "rodando"]
    /\ UNCHANGED quedas

\* Mutant: the counter of the session is not looked at (unlock_all).
PgAdvisoryUnlockTudo(c) ==
    /\ vezes' = IF c = dona THEN 0 ELSE vezes
    /\ dona' = IF c = dona THEN Ninguem ELSE dona

\* pg_advisory_unlock: one of the session's holds; on another session only a
\* warning.
PgAdvisoryUnlock(c) ==
    /\ vezes' = IF c = dona THEN vezes - 1 ELSE vezes
    /\ dona' = IF c = dona /\ vezes = 1 THEN Ninguem ELSE dona

\* The finally of the job, whether it worked or threw; the query itself may
\* be rejected, and nothing asks again.
ReleaseLock(e) ==
    /\ pc[e] = "rodando"
    /\ \/ \E c \in Pool(e) : PgAdvisoryUnlock(c)
       \/ UNCHANGED <<dona, vezes>>
    /\ pc' = [pc EXCEPT ![e] = "fora"]
    /\ UNCHANGED quedas

\* The pool closes an idle connection, and the database frees its locks.
FecharConexao ==
    /\ dona # Ninguem
    /\ "conexaoFecha" \in Riscos \/ Rodando = {}
    /\ dona' = Ninguem
    /\ vezes' = 0
    /\ UNCHANGED <<pc, quedas>>

\* An instance restarts: its executions and its sessions end.
Reiniciar(i) ==
    /\ quedas < MaxQuedas
    /\ quedas' = quedas + 1
    /\ pc' = [e \in Execucoes |-> IF InstanciaDe[e] = i THEN "fora" ELSE pc[e]]
    /\ \/ /\ dona \in Conexoes /\ PoolDe[dona] = i
          /\ dona' = Ninguem /\ vezes' = 0
       \/ /\ ~(dona \in Conexoes /\ PoolDe[dona] = i)
          /\ UNCHANGED <<dona, vezes>>

Next == \/ \E e \in Execucoes : AcquireLock(e) \/ ReleaseLock(e)
        \/ FecharConexao
        \/ \E i \in Instancias : Reiniciar(i)

Spec == Init /\ [][Next]_vars

-----------------------------------------------------------------------------
(* Properties.                                                             *)

\* Every variable has its type, and only a holder holds.
TypeOK ==
    /\ dona \in Conexoes \cup {Ninguem}
    /\ vezes \in Nat
    /\ dona = Ninguem <=> vezes = 0
    /\ pc \in [Execucoes -> {"fora", "rodando"}]
    /\ quedas \in 0..MaxQuedas

\* However often holds are granted twice, missed or lost, there are at least
\* as many as executions: no release frees the lock under another execution.
TravaCobre == Cardinality(Rodando) <= vezes

\* Two instances never run the job at once, also when the executions of one
\* of them do.
UmaInstanciaPorVez ==
    \A e, f \in Rodando : InstanciaDe[e] = InstanciaDe[f]

\* What the lock is there for (CONTEXT.md, "para não haver duas execuções ao
\* mesmo tempo"): one execution at a time.
UmaExecucao == \A e, f \in Rodando : e = f
=============================================================================
