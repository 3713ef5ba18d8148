------------------------------- MODULE Convites -------------------------------
(***************************************************************************)
(* Parking guards and van drivers become users and are invited.  The       *)
(* drivers come in a file; for the guards, syncWeeklyAgentUsers reads      *)
(* BigQuery from its watermark on and creates, for each row, a user, a     *)
(* queued invite and the relation with the association.  bulkSendInvites   *)
(* mails the queued invites within a daily quota; an administrator may     *)
(* mail one again; whoever received one opens it and concludes the         *)
(* registration.                                                           *)
(*                                                                         *)
(* None of it runs in a transaction or under a lock: a row is three        *)
(* writes, a mail leaves before the invite says so, and what was read      *)
(* before the mail left is written back after it.                          *)
(***************************************************************************)
EXTENDS Naturals, Sequences, SequencesExt, FiniteSets

CONSTANTS
    Pessoas,     \* who is a user, or will be
    Vanzeiros,   \* those uploaded in a file: users with a queued invite
    Data,        \* when the row of each of the others was updated, from 1
    Email,       \* the address each gives
    Identificados, \* the guards whose row has a document with digits
    Associados,    \* the guards whose row has the cnpj of an association
    Completos,     \* the users with a permit code and a name
    Recusados,   \* those whose mail never leaves
    Respondem,   \* those who may answer an invite
    Sincs,       \* executions of the synchronisation
    Envios,      \* executions of bulkSendInvites
    Ninguem,
    Quota,       \* mail.dailyQuota
    MaxGeracoes, \* bound on the invites of a user
    MaxReenvios, \* bound on the mails sent again
    MaxFalhas,   \* bound on rejected calls and restarts
    Riscos       \* see RiscosPossiveis

RiscosPossiveis ==
    { "linhaAtrasada",       \* BigQuery shows a row older than one it showed
      "quedaEntre",          \* the invite of a user just created is not written
      "sobrepor",            \* two executions that mail at once
      "perderGravacao",      \* the mail left, and what says so is not written
      "reenviarNoDia",       \* again, on the day it was sent
      "usarDuranteReenvio" } \* the invite is used while it is sent again

Guardadores == Pessoas \ Vanzeiros

ASSUME ConvitesAssumption ==
    /\ IsFiniteSet(Pessoas)
    /\ Data \in [Guardadores -> Nat \ {0}]
    /\ DOMAIN Email = Pessoas
    /\ Identificados \subseteq Guardadores /\ Associados \subseteq Guardadores
    /\ Vanzeiros \subseteq Completos /\ Completos \subseteq Pessoas
    /\ Recusados \subseteq Pessoas
    /\ Respondem \subseteq Pessoas
    /\ Vanzeiros \subseteq Pessoas
    /\ \A a, b \in Vanzeiros : Email[a] = Email[b] => a = b
    /\ Ninguem \notin Pessoas
    /\ Quota \in Nat /\ MaxGeracoes \in Nat \ {0}
    /\ MaxReenvios \in Nat /\ MaxFalhas \in Nat
    /\ Riscos \subseteq RiscosPossiveis

VARIABLES
    bq,          \* the rows BigQuery shows
    marca,       \* setting any__agentes_sync_last_execution, 0 if none
    usuario,     \* table user: "nenhum", "registro", "ativo"
    relacao,     \* the guards related to their association
    convite,     \* table invite: the invite of each user that is not deleted
    chegada,     \* the users, by createdAt of their first invite
    recebido,    \* the invites that were mailed
    correio,     \* the mails of the day that are subject to the quota
    sinc,        \* each synchronisation: its rows, its new mark
    envio,       \* each bulkSendInvites: the invites it has left
    reenvio,     \* the resend an administrator asked for
    concluindo,  \* registrations between their two writes
    reenvios, falhas

base   == <<marca, usuario, relacao, convite, chegada>>
mundo  == <<recebido, correio>>
vars   == <<bq, base, mundo, sinc, envio, reenvio, concluindo, reenvios, falhas>>

SemConvite   == [status |-> "nenhum", geracao |-> 0, hoje |-> FALSE]
NaFila       == [status |-> "queued", geracao |-> 1, hoje |-> FALSE]
SincParado   == [passo |-> "fora", linhas |-> {}, atual |-> Ninguem,
                 marca |-> 0, segura |-> TRUE]
EnvioParado  == [passo |-> "fora", lista |-> <<>>]
ReenvioParado == [passo |-> "fora", pessoa |-> Ninguem, ativo |-> FALSE,
                  convite |-> SemConvite]

Init ==
    /\ bq = {}
    /\ marca = 0
    /\ usuario = [a \in Pessoas |-> IF a \in Vanzeiros THEN "registro" ELSE "nenhum"]
    /\ relacao = {}
    /\ convite = [a \in Pessoas |-> IF a \in Vanzeiros THEN NaFila ELSE SemConvite]
    /\ chegada = SetToSeq(Vanzeiros)
    /\ recebido = {}
    /\ correio = 0
    /\ sinc = [s \in Sincs |-> SincParado]
    /\ envio = [t \in Envios |-> EnvioParado]
    /\ reenvio = ReenvioParado
    /\ concluindo = {}
    /\ reenvios = 0
    /\ falhas = 0

\* Executions that mail.
SemEnvio   == \A t \in Envios : envio[t].passo = "fora"
SemReenvio == reenvio.passo = "fora"

\* BigQuery shows a row.
Publicar(a) ==
    /\ a \notin bq
    /\ "linhaAtrasada" \in Riscos \/ \A b \in bq : Data[b] <= Data[a]
    /\ bq' = bq \cup {a}
    /\ UNCHANGED <<base, mundo, sinc, envio, reenvio, concluindo, reenvios, falhas>>

\* The quota counts from midnight, whoever is mailing then.
VirarDia ==
    /\ convite' = [a \in Pessoas |-> [convite[a] EXCEPT !.hoje = FALSE]]
    /\ correio' = 0
    /\ UNCHANGED <<bq, marca, usuario, relacao, chegada, recebido, sinc, envio, reenvio,
                   concluindo, reenvios, falhas>>

-----------------------------------------------------------------------------
(* The synchronisation of agents.                                          *)

\* findUsersToSync: ties with the watermark are read again.
LinhasDesde(m) == {a \in bq : Data[a] >= m}

\* The rows come in ascending order; ties in any.
Primeiras(linhas) == {a \in linhas : \A b \in linhas : Data[a] <= Data[b]}

ComEmailDe(a) == {b \in Pessoas : usuario[b] # "nenhum" /\ Email[b] = Email[a]}

Sincronizar(s) ==
    /\ sinc[s].passo = "fora"
    /\ LinhasDesde(marca) # {}
    /\ sinc' = [sinc EXCEPT ![s] = [SincParado EXCEPT !.passo = "linha",
                                                      !.linhas = LinhasDesde(marca)]]
    /\ UNCHANGED <<bq, base, mundo, envio, reenvio, concluindo, reenvios, falhas>>

\* The row is done; the new mark follows while no row failed.
LinhaFeita(s, a) ==
    LET r == sinc[s] IN
    sinc' = [sinc EXCEPT ![s] =
        [passo |-> "linha", linhas |-> r.linhas \ {a}, atual |-> Ninguem,
         marca |-> IF r.segura /\ Data[a] > r.marca THEN Data[a] ELSE r.marca,
         segura |-> r.segura]]

Seguir(s, a, passo) ==
    sinc' = [sinc EXCEPT ![s].passo = passo, ![s].atual = a]

\* A row without a document is passed by.  Who is already a user only lacks,
\* perhaps, the relation; the address of another user is left out, on
\* purpose; anyone else is to be created.
ProcurarUsuario(s, a) ==
    /\ sinc[s].passo = "linha" /\ a \in Primeiras(sinc[s].linhas)
    /\ \/ a \notin Identificados /\ LinhaFeita(s, a)
       \/ a \in Identificados /\ usuario[a] # "nenhum" /\ Seguir(s, a, "relacionar")
       \/ /\ a \in Identificados /\ usuario[a] = "nenhum"
          /\ \/ ComEmailDe(a) = {} /\ Seguir(s, a, "criar")
             \/ ComEmailDe(a) # {} /\ LinhaFeita(s, a)
    /\ UNCHANGED <<bq, base, mundo, envio, reenvio, concluindo, reenvios, falhas>>

\* Mutant: the invite is left to a later execution.
CriarSemConvidar(s) ==
    LET a == sinc[s].atual IN
    /\ sinc[s].passo = "criar" /\ ComEmailDe(a) = {}
    /\ usuario' = [usuario EXCEPT ![a] = "registro"]
    /\ Seguir(s, a, "relacionar")
    /\ UNCHANGED <<bq, marca, relacao, convite, chegada, mundo, envio, reenvio,
                   concluindo, reenvios, falhas>>
\* The address is unique: see FalharLinha.
CriarUsuario(s) ==
    LET a == sinc[s].atual IN
    /\ sinc[s].passo = "criar" /\ ComEmailDe(a) = {}
    /\ usuario' = [usuario EXCEPT ![a] = "registro"]
    /\ Seguir(s, a, "convidar")
    /\ UNCHANGED <<bq, marca, relacao, convite, chegada, mundo, envio, reenvio,
                   concluindo, reenvios, falhas>>

Convidar(s) ==
    LET a == sinc[s].atual IN
    /\ sinc[s].passo = "convidar"
    /\ convite' = [convite EXCEPT ![a] = NaFila]
    /\ chegada' = Append(chegada, a)
    /\ Seguir(s, a, "relacionar")
    /\ UNCHANGED <<bq, marca, usuario, relacao, mundo, envio, reenvio, concluindo,
                   reenvios, falhas>>

\* The relation with the association, itself created when it is not found; a
\* row without cnpj has none, and is done all the same.
Relacionar(s) ==
    LET a == sinc[s].atual IN
    /\ sinc[s].passo = "relacionar"
    /\ relacao' = relacao \cup ({a} \cap Associados)
    /\ LinhaFeita(s, a)
    /\ UNCHANGED <<bq, marca, usuario, convite, chegada, mundo, envio, reenvio,
                   concluindo, reenvios, falhas>>

\* The address became another user's after it was looked for: it is unique.
Repetido(s, a) == sinc[s].passo = "criar" /\ ComEmailDe(a) # {}

\* A call of the row is rejected.
LinhaRejeitada(s, a) ==
    /\ Repetido(s, a) \/ falhas < MaxFalhas
    /\ IF sinc[s].passo = "linha" THEN a \in Primeiras(sinc[s].linhas)
                                  ELSE sinc[s].passo # "fora" /\ a = sinc[s].atual
    /\ sinc[s].passo = "convidar" => "quedaEntre" \in Riscos
    /\ falhas' = IF Repetido(s, a) THEN falhas ELSE falhas + 1
    /\ UNCHANGED <<bq, base, mundo, envio, reenvio, concluindo, reenvios>>

\* Mutant: the mark goes on past a row that failed.
FalharLinhaSemSegurar(s, a) == LinhaRejeitada(s, a) /\ LinhaFeita(s, a)
\* The loop goes on, and the mark stops there.
FalharLinha(s, a) ==
    /\ LinhaRejeitada(s, a)
    /\ LET r == sinc[s] IN
       sinc' = [sinc EXCEPT ![s] =
          [passo |-> "linha", linhas |-> r.linhas \ {a}, atual |-> Ninguem,
           marca |-> r.marca, segura |-> FALSE]]

\* The mark is saved once, at the end, if there is one; or that is rejected.
SalvarMarca(s) ==
    /\ sinc[s].passo = "linha" /\ sinc[s].linhas = {}
    /\ \/ marca' = (IF sinc[s].marca = 0 THEN marca ELSE sinc[s].marca) /\ UNCHANGED falhas
       \/ falhas < MaxFalhas /\ falhas' = falhas + 1 /\ UNCHANGED marca
    /\ sinc' = [sinc EXCEPT ![s] = SincParado]
    /\ UNCHANGED <<bq, usuario, relacao, convite, chegada, mundo, envio, reenvio,
                   concluindo, reenvios>>

-----------------------------------------------------------------------------
(* The mails.                                                              *)

\* Mutant: what was already sent today is not taken off.
RestanteInteiro == Quota
\* Mutant: the invites of every day are counted.
RestanteDeSempre ==
    LET enviados == Cardinality({a \in Pessoas : convite[a].status \in {"sent", "used"}})
    IN  IF enviados > Quota THEN 0 ELSE Quota - enviados
\* getRemainingQuota: it counts invites by the day of sentAt.
Restante ==
    LET enviados == Cardinality({a \in Pessoas : convite[a].hoje})
    IN  IF enviados > Quota THEN 0 ELSE Quota - enviados

\* findUnsent: those queued, by createdAt.  SelectSeq is not one the provers
\* can expand.
Unsent ==
    LET entre[i \in 0..Len(chegada)] ==
            IF i = 0 THEN <<>>
            ELSE IF convite[chegada[i]].status = "queued"
                 THEN Append(entre[i-1], chegada[i])
                 ELSE entre[i-1]
    IN  entre[Len(chegada)]

IniciarEnvio(t) ==
    /\ envio[t].passo = "fora"
    /\ "sobrepor" \in Riscos \/ (SemEnvio /\ SemReenvio)
    /\ Unsent # <<>> /\ Restante > 0
    /\ envio' = [envio EXCEPT ![t] =
          [passo |-> "enviar",
           lista |-> SubSeq(Unsent, 1, IF Restante < Len(Unsent) THEN Restante
                                       ELSE Len(Unsent))]]
    /\ UNCHANGED <<bq, base, mundo, sinc, reenvio, concluindo, reenvios, falhas>>

ProximoConvite(t) ==
    envio' = [envio EXCEPT ![t] =
        IF Len(@.lista) = 1 THEN EnvioParado
        ELSE [passo |-> "enviar", lista |-> Tail(@.lista)]]

\* The first invite of the user is written; of a deleted one it changes
\* nothing.
Escrever(a, status, hoje) ==
    convite' = IF convite[a].geracao # 1 THEN convite
               ELSE [convite EXCEPT ![a].status = status, ![a].hoje = hoje]

\* The mail leaves.
EnviarConvite(t) ==
    LET a == Head(envio[t].lista) IN
    /\ envio[t].passo = "enviar"
    /\ a \notin Recusados
    /\ recebido' = recebido \cup {<<a, 1>>}
    /\ correio' = correio + 1
    /\ envio' = [envio EXCEPT ![t].passo = "gravar"]
    /\ UNCHANGED <<bq, base, sinc, reenvio, concluindo, reenvios, falhas>>

\* No address, an SMTP error, or a call that is rejected: sentAt is emptied
\* and the invite stays in the queue.  The update after a mail that left may
\* be the call that is rejected: the catch takes it for a mail that failed.
EnvioRecusado(t) ==
    LET a == Head(envio[t].lista) IN
    /\ \/ envio[t].passo = "enviar"
       \/ envio[t].passo = "gravar" /\ "perderGravacao" \in Riscos
    /\ a \in Recusados \/ falhas < MaxFalhas
    /\ falhas' = IF a \in Recusados THEN falhas ELSE falhas + 1
    /\ Escrever(a, convite[a].status, FALSE)
    /\ ProximoConvite(t)
    /\ UNCHANGED <<bq, marca, usuario, relacao, chegada, mundo, sinc, reenvio,
                   concluindo, reenvios>>

GravarEnvio(t) ==
    /\ envio[t].passo = "gravar"
    /\ Escrever(Head(envio[t].lista), "sent", TRUE)
    /\ ProximoConvite(t)
    /\ UNCHANGED <<bq, marca, usuario, relacao, chegada, mundo, sinc, reenvio,
                   concluindo, reenvios, falhas>>

\* A call outside the try of the mail is rejected: the task is over.
AbortarEnvio(t) ==
    /\ falhas < MaxFalhas
    /\ envio[t].passo = "enviar"
    /\ envio' = [envio EXCEPT ![t] = EnvioParado]
    /\ falhas' = falhas + 1
    /\ UNCHANGED <<bq, base, mundo, sinc, reenvio, concluindo, reenvios>>

\* resendRegisterMail: the user, the invite and the quota are read,
PedirReenvio(a) ==
    /\ SemReenvio
    /\ "sobrepor" \in Riscos \/ SemEnvio
    /\ "reenviarNoDia" \in Riscos \/ ~convite[a].hoje
    /\ "usarDuranteReenvio" \in Riscos \/ a \notin concluindo
    /\ reenvios < MaxReenvios
    /\ convite[a].status # "nenhum"
    /\ usuario[a] = "ativo" => convite[a].geracao < MaxGeracoes
    /\ Restante > 0
    /\ reenvio' = [passo |-> "enviar", pessoa |-> a, ativo |-> usuario[a] = "ativo",
                   convite |-> convite[a]]
    /\ reenvios' = reenvios + 1
    /\ UNCHANGED <<bq, base, mundo, sinc, envio, concluindo, falhas>>

\* Who is active gets a new invite.
GeracaoReenviada == reenvio.convite.geracao + IF reenvio.ativo THEN 1 ELSE 0

\* the mail leaves, or fails and nothing is written,
EnviarReenvio ==
    /\ reenvio.passo = "enviar"
    /\ reenvio.pessoa \notin Recusados
    /\ recebido' = recebido \cup {<<reenvio.pessoa, GeracaoReenviada>>}
    /\ correio' = correio + 1
    /\ reenvio' = [reenvio EXCEPT !.passo = "gravar"]
    /\ UNCHANGED <<bq, base, sinc, envio, concluindo, reenvios, falhas>>

FalharReenvio ==
    /\ reenvio.passo = "enviar"
    /\ reenvio.pessoa \in Recusados \/ falhas < MaxFalhas
    /\ falhas' = IF reenvio.pessoa \in Recusados THEN falhas ELSE falhas + 1
    /\ reenvio' = ReenvioParado
    /\ UNCHANGED <<bq, base, mundo, sinc, envio, concluindo, reenvios>>

\* Mutant: what is sent again is "sent".
GravarReenvioSempreSent ==
    /\ reenvio.passo = "gravar"
    /\ convite' = [convite EXCEPT ![reenvio.pessoa] =
          [status |-> "sent", geracao |-> GeracaoReenviada, hoje |-> TRUE]]
    /\ reenvio' = ReenvioParado
    /\ UNCHANGED <<bq, marca, usuario, relacao, chegada, mundo, sinc, envio, concluindo,
                   reenvios, falhas>>
\* and it is written: the new invite, "sent", with the old one deleted; or
\* the status that was read before the mail left, unless it was "queued".
GravarReenvio ==
    LET lido == reenvio.convite.status IN
    /\ reenvio.passo = "gravar"
    /\ convite' = [convite EXCEPT ![reenvio.pessoa] =
          [status  |-> IF reenvio.ativo \/ lido = "queued" THEN "sent" ELSE lido,
           geracao |-> GeracaoReenviada,
           hoje    |-> TRUE]]
    /\ reenvio' = ReenvioParado
    /\ UNCHANGED <<bq, marca, usuario, relacao, chegada, mundo, sinc, envio, concluindo,
                   reenvios, falhas>>

\* resendInvite, for one user of the monthly bulkResendInvites, who has an
\* invite sent long ago and no bank account: it does not look at the quota,
\* and only sentAt is written.
ReenviarMensal(a) ==
    /\ reenvios < MaxReenvios
    /\ "sobrepor" \in Riscos \/ (SemEnvio /\ SemReenvio)
    /\ convite[a].status \in {"sent", "used"} /\ ~convite[a].hoje
    /\ recebido' = recebido \cup {<<a, convite[a].geracao>>}
    /\ convite' = [convite EXCEPT ![a].hoje = TRUE]
    /\ reenvios' = reenvios + 1
    /\ UNCHANGED <<bq, marca, usuario, relacao, chegada, correio, sinc, envio, reenvio,
                   concluindo, falhas>>

-----------------------------------------------------------------------------
(* Whoever was invited.                                                    *)

\* Mutant: an invite is good for one visit.
AceitoSoSent(a) == convite[a].status = "sent"
\* What getInviteProfile, concludeRegistration and the pipe of their routes
\* ask of an invite.  concludeRegistration also refuses a permit code that is
\* undefined and an address that is null: the base gives null for a permit
\* code that is missing, and who was mailed has an address.
Aceito(a) ==
    /\ convite[a].status \in {"sent", "used"}
    /\ ~(convite[a].status = "used" /\ usuario[a] = "ativo")

\* getInviteProfile answers with the profile: it refuses who lacks a permit
\* code or a name, after it used the invite.
PerfilMostrado(a) == Aceito(a) /\ a \in Completos

Recebeu(a) == <<a, convite[a].geracao>> \in recebido

Usavel(a) ==
    /\ Recebeu(a) /\ Aceito(a)
    /\ "usarDuranteReenvio" \in Riscos \/ reenvio.pessoa # a

\* getInviteProfile: seeing it uses it, for who is not active, also when the
\* profile is then refused.
AbrirConvite(a) ==
    /\ Usavel(a)
    /\ usuario[a] # "ativo"
    /\ convite' = [convite EXCEPT ![a].status = "used"]
    /\ UNCHANGED <<bq, marca, usuario, relacao, chegada, mundo, sinc, envio, reenvio,
                   concluindo, reenvios, falhas>>

\* concludeRegistration: the invite is used,
ConcluirCadastro(a) ==
    /\ Usavel(a) /\ a \notin concluindo
    /\ convite' = [convite EXCEPT ![a].status = "used"]
    /\ concluindo' = concluindo \cup {a}
    /\ UNCHANGED <<bq, marca, usuario, relacao, chegada, mundo, sinc, envio, reenvio,
                   reenvios, falhas>>

\* and the user becomes active, or this second write is rejected.
AtivarUsuario(a) ==
    /\ a \in concluindo
    /\ \/ usuario' = [usuario EXCEPT ![a] = "ativo"] /\ UNCHANGED falhas
       \/ falhas < MaxFalhas /\ falhas' = falhas + 1 /\ UNCHANGED usuario
    /\ concluindo' = concluindo \ {a}
    /\ UNCHANGED <<bq, marca, relacao, convite, chegada, mundo, sinc, envio, reenvio,
                   reenvios>>

-----------------------------------------------------------------------------

\* The application restarts, and what it was doing is lost.
Reiniciar ==
    /\ falhas < MaxFalhas
    /\ "quedaEntre" \in Riscos \/ \A s \in Sincs : sinc[s].passo # "convidar"
    /\ \/ "perderGravacao" \in Riscos
       \/ (\A t \in Envios : envio[t].passo # "gravar") /\ reenvio.passo # "gravar"
    /\ sinc' = [s \in Sincs |-> SincParado]
    /\ envio' = [t \in Envios |-> EnvioParado]
    /\ reenvio' = ReenvioParado
    /\ concluindo' = {}
    /\ falhas' = falhas + 1
    /\ UNCHANGED <<bq, base, mundo, reenvios>>

PassoDoSinc(s) ==
    \/ CriarUsuario(s) \/ Convidar(s) \/ Relacionar(s) \/ SalvarMarca(s)
    \/ \E a \in Guardadores : ProcurarUsuario(s, a) \/ FalharLinha(s, a)

PassoDoEnvio(t) == EnviarConvite(t) \/ EnvioRecusado(t) \/ AbortarEnvio(t) \/ GravarEnvio(t)

PassoDoReenvio == EnviarReenvio \/ FalharReenvio \/ GravarReenvio

Next ==
    \/ \E a \in Guardadores : Publicar(a)
    \/ \E a \in Pessoas : PedirReenvio(a) \/ ReenviarMensal(a)
    \/ \E a \in Respondem : AbrirConvite(a) \/ ConcluirCadastro(a) \/ AtivarUsuario(a)
    \/ VirarDia
    \/ \E s \in Sincs : Sincronizar(s) \/ PassoDoSinc(s)
    \/ \E t \in Envios : IniciarEnvio(t) \/ PassoDoEnvio(t)
    \/ PassoDoReenvio
    \/ Reiniciar

\* The crons run the two tasks every day, and what runs goes on.  Nobody is
\* bound to publish a row, to ask for a resend or to answer an invite.  A day
\* ends whatever runs in it.
Justica ==
    /\ WF_vars(VirarDia)
    /\ \A s \in Sincs : WF_vars(Sincronizar(s)) /\ WF_vars(PassoDoSinc(s))
    /\ \A t \in Envios : WF_vars(IniciarEnvio(t)) /\ WF_vars(PassoDoEnvio(t))
    /\ WF_vars(PassoDoReenvio)

Spec == Init /\ [][Next]_vars /\ Justica

-----------------------------------------------------------------------------
(* Properties.                                                             *)

\* Every variable has its type; whoever has an invite has a place in the
\* queue; only what BigQuery showed is read and related.
TypeOK ==
    /\ bq \subseteq Guardadores
    /\ marca \in {0} \cup {Data[a] : a \in bq}
    /\ usuario \in [Pessoas -> {"nenhum", "registro", "ativo"}]
    /\ relacao \subseteq {a \in bq \cap Associados : usuario[a] # "nenhum"}
    /\ convite \in [Pessoas -> [status : {"nenhum", "queued", "sent", "used"},
                                geracao : 0..MaxGeracoes, hoje : BOOLEAN]]
    /\ \A a \in Pessoas : convite[a].status = "nenhum" <=> ~Contains(chegada, a)
    /\ IsInjective(chegada)
    /\ recebido \subseteq Pessoas \X (1..MaxGeracoes)
    /\ sinc \in [Sincs -> [passo : {"fora", "linha", "criar", "convidar", "relacionar"},
                           linhas : SUBSET bq, atual : Pessoas \cup {Ninguem},
                           marca : {0} \cup {Data[a] : a \in bq}, segura : BOOLEAN]]
    /\ \A t \in Envios : envio[t].passo \in {"fora", "enviar", "gravar"}
    /\ \A t \in Envios : envio[t].lista = <<>> <=> envio[t].passo = "fora"
    /\ reenvio.passo \in {"fora", "enviar", "gravar"}
    /\ concluindo \subseteq Pessoas
    /\ reenvios \in 0..MaxReenvios /\ falhas \in 0..MaxFalhas

\* A row is done when its user exists and is related to the association it
\* has, if any; when its address is of another user; and when it has no
\* document, so that there is nobody to create.
Tratada(a) ==
    \/ a \notin Identificados
    \/ ComEmailDe(a) \ {a} # {}
    \/ usuario[a] # "nenhum" /\ (a \in Associados => a \in relacao)

\* "a linha com erro (e as seguintes) sao relidas na proxima execucao"
\* (agentes-sync.service.ts:79): every row BigQuery shows is done, or the next
\* execution reads it, whatever rows failed and whatever other execution
\* saved its mark meanwhile.
NenhumaLinhaPulada == \A a \in bq : Tratada(a) \/ a \in LinhasDesde(marca)

\* A user has an invite, or the execution that created it is about to write
\* one: no other would, as the user is found.
UsuarioTemConvite ==
    \A a \in Pessoas :
        \/ usuario[a] = "nenhum"
        \/ convite[a].status # "nenhum"
        \/ \E s \in Sincs : sinc[s].passo = "convidar" /\ sinc[s].atual = a

\* bulkSendInvites and resendRegisterMail together mail no more than the
\* quota in a day, although each only reads it when it begins.
QuotaRespeitada == correio <= Quota

\* Who received the invite the base has, and is not registered, can conclude
\* the registration with it, and is shown the profile unless that lacks a
\* permit code or a name: also the second time, and after a registration
\* that failed between its two writes.
RecebeuPodeConcluir ==
    \A a \in Pessoas :
        Recebeu(a) /\ usuario[a] = "registro" =>
        \/ Aceito(a) /\ (a \in Completos => PerfilMostrado(a))
        \/ \E t \in Envios : envio[t].passo = "gravar" /\ Head(envio[t].lista) = a
        \/ reenvio.passo = "gravar" /\ reenvio.pessoa = a

\* "preserves used when resending an invite that was already accessed"
\* (auth.service.spec.ts:315): nothing that mails takes an invite back from
\* "used".
ConviteUsadoNaoVolta ==
    [][\A a \in Pessoas :
          convite[a].status = "used" /\ convite'[a].geracao = convite[a].geracao
          => convite'[a].status = "used"]_vars

\* A user of a file, and a guard BigQuery shows with a document, is mailed an
\* invite some day, unless its address was of another user, whatever rows and
\* mails failed before.  Those who refuse every mail must be fewer than the quota:
\* they stay at the head of the queue.
TodoConviteSai ==
    \A a \in Pessoas \ Recusados :
        a \in (bq \cap Identificados) \cup Vanzeiros
        ~> (<<a, 1>> \in recebido \/ ComEmailDe(a) \ {a} # {})
==============================================================================
