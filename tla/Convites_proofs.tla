---------------------------- MODULE Convites_proofs ----------------------------
(***************************************************************************)
(* Proofs about Convites, for any rows, dates, addresses, users, quota and *)
(* number of executions at once: no row is skipped by the watermark, no    *)
(* user is left without an invite, whoever received one can conclude,      *)
(* nothing that mails takes a used one back, and the quota is respected.   *)
(***************************************************************************)
EXTENDS Convites, SequenceTheorems, FiniteSetTheorems, TLAPS

\* The types the proofs rest on.
TipoDeSinc ==
    /\ sinc \in [Sincs -> [passo : {"fora", "linha", "criar", "convidar", "relacionar"},
                           linhas : SUBSET Guardadores, atual : Pessoas \cup {Ninguem},
                           marca : Nat, segura : BOOLEAN]]
    /\ \A s \in Sincs :
          sinc[s].passo \notin {"fora", "linha"} => sinc[s].atual \in Guardadores

TiposDoSinc ==
    /\ bq \subseteq Guardadores
    /\ marca \in Nat
    /\ usuario \in [Pessoas -> {"nenhum", "registro", "ativo"}]
    /\ relacao \subseteq Pessoas
    /\ TipoDeSinc

\* An execution works on rows it read, and on the first of those it has left.
AtualNaVez ==
    \A s \in Sincs :
        /\ sinc[s].linhas \subseteq bq
        /\ sinc[s].passo \notin {"fora", "linha"} =>
              sinc[s].atual \in Primeiras(sinc[s].linhas)

\* A mark is the date of a row that was shown.
Vista(m) == m = 0 \/ \E a \in bq : Data[a] = m
MarcasVistas == Vista(marca) /\ \A s \in Sincs : Vista(sinc[s].marca)

\* Nothing is pending below a mark, saved or about to be.
NadaAbaixo(m) == \A a \in bq : Tratada(a) \/ Data[a] >= m
MarcasSeguras == NadaAbaixo(marca) /\ \A s \in Sincs : NadaAbaixo(sinc[s].marca)

\* What an execution does not have, while no row of it failed, is done or
\* not older than what it has.
ListaEmDia ==
    \A s \in Sincs :
        sinc[s].segura =>
        \A a \in bq : \/ Tratada(a)
                      \/ a \in sinc[s].linhas
                      \/ \A b \in sinc[s].linhas : Data[a] >= Data[b]

IndSinc == TiposDoSinc /\ AtualNaVez /\ MarcasVistas /\ MarcasSeguras /\ ListaEmDia

\* Whoever is to be invited or related is a user.
AtualCriado ==
    \A s \in Sincs : sinc[s].passo \in {"convidar", "relacionar"} =>
                    usuario[sinc[s].atual] # "nenhum"

\* What a step does to users and relations at most.
Crescem ==
    /\ relacao \subseteq relacao'
    /\ \A b \in Pessoas : usuario[b] # "nenhum" => usuario'[b] # "nenhum"

\* A row that is done stays done.
LEMMA TratadaFica ==
    ASSUME TiposDoSinc, Crescem PROVE \A b \in bq : Tratada(b) => Tratada(b)'
<1>1. \A b \in bq : b \in Pessoas
  BY DEF TiposDoSinc, Guardadores
<1> QED
  BY <1>1 DEF Crescem, Tratada, ComEmailDe

\* A step that leaves the synchronisations, the rows and the saved mark.
LEMMA ForaDoSinc ==
    ASSUME IndSinc, TiposDoSinc', Crescem, UNCHANGED <<bq, marca, sinc>>
    PROVE  IndSinc'
<1>1. \A b \in bq : Tratada(b) => Tratada(b)'
  BY TratadaFica DEF IndSinc
<1>2. AtualNaVez'
  BY DEF IndSinc, AtualNaVez, Primeiras
<1>3. MarcasVistas'
  BY DEF IndSinc, MarcasVistas, Vista
<1>4. MarcasSeguras'
  BY <1>1 DEF IndSinc, MarcasSeguras, NadaAbaixo
<1>5. ListaEmDia'
  BY <1>1 DEF IndSinc, ListaEmDia
<1> QED
  BY <1>2, <1>3, <1>4, <1>5 DEF IndSinc

\* Going on with the row it has at hand.
LEMMA SeguirMantem ==
    ASSUME IndSinc, TiposDoSinc', Crescem, UNCHANGED <<bq, marca>>,
           NEW s \in Sincs, NEW a \in Primeiras(sinc[s].linhas),
           NEW passo, Seguir(s, a, passo)
    PROVE  IndSinc'
<1>1. \A b \in bq : Tratada(b) => Tratada(b)'
  BY TratadaFica DEF IndSinc
<1>2. /\ sinc'[s].linhas = sinc[s].linhas
      /\ sinc'[s].atual = a
      /\ sinc'[s].marca = sinc[s].marca
      /\ sinc'[s].segura = sinc[s].segura
      /\ \A t \in Sincs \ {s} : sinc'[t] = sinc[t]
  BY DEF IndSinc, TiposDoSinc, TipoDeSinc, Seguir
<1>3. AtualNaVez'
  BY <1>2 DEF IndSinc, AtualNaVez, Primeiras
<1>4. MarcasVistas'
  BY <1>2 DEF IndSinc, MarcasVistas, Vista
<1>5. MarcasSeguras'
  BY <1>1, <1>2 DEF IndSinc, MarcasSeguras, NadaAbaixo
<1>6. ListaEmDia'
  BY <1>1, <1>2 DEF IndSinc, ListaEmDia
<1> QED
  BY <1>3, <1>4, <1>5, <1>6 DEF IndSinc

\* Leaving a row that is done: the mark may follow, because what is older
\* and was shown is done.
LEMMA LinhaFeitaMantem ==
    ASSUME IndSinc, TiposDoSinc', Crescem, UNCHANGED <<bq, marca>>,
           NEW s \in Sincs, NEW a \in Primeiras(sinc[s].linhas),
           Tratada(a)', LinhaFeita(s, a)
    PROVE  IndSinc'
<1>1. \A b \in bq : Tratada(b) => Tratada(b)'
  BY TratadaFica DEF IndSinc
<1>2. a \in bq /\ a \in Guardadores /\ Data[a] \in Nat
  BY ConvitesAssumption DEF IndSinc, TiposDoSinc, TipoDeSinc, AtualNaVez, Primeiras
<1>3. /\ sinc'[s].linhas = sinc[s].linhas \ {a}
      /\ sinc'[s].passo = "linha"
      /\ sinc'[s].segura = sinc[s].segura
      /\ \/ sinc'[s].marca = sinc[s].marca
         \/ sinc'[s].marca = Data[a] /\ sinc[s].segura
      /\ \A t \in Sincs \ {s} : sinc'[t] = sinc[t]
  BY DEF IndSinc, TiposDoSinc, TipoDeSinc, LinhaFeita
<1>4. AtualNaVez'
  BY <1>3 DEF IndSinc, AtualNaVez, Primeiras
<1>5. MarcasVistas'
  BY <1>2, <1>3 DEF IndSinc, MarcasVistas, Vista
<1>6. MarcasSeguras'
  <2>1. NadaAbaixo(marca)' /\ \A t \in Sincs \ {s} : NadaAbaixo(sinc[t].marca)'
    BY <1>1, <1>3 DEF IndSinc, MarcasSeguras, NadaAbaixo
  <2>2. CASE sinc'[s].marca = sinc[s].marca
    BY <1>1, <2>1, <2>2 DEF IndSinc, MarcasSeguras, NadaAbaixo
  <2>3. CASE sinc'[s].marca = Data[a] /\ sinc[s].segura
    <3>1. ASSUME NEW b \in bq PROVE Tratada(b)' \/ Data[b] >= Data[a]
      BY <1>1, <2>3 DEF IndSinc, ListaEmDia, Primeiras
    <3> QED
      BY <2>1, <2>3, <3>1 DEF MarcasSeguras, NadaAbaixo
  <2> QED
    BY <1>3, <2>2, <2>3
<1>7. ListaEmDia'
  <2>1. ASSUME NEW t \in Sincs, t # s, sinc'[t].segura, NEW b \in bq
        PROVE \/ Tratada(b)' \/ b \in sinc'[t].linhas
              \/ \A c \in sinc'[t].linhas : Data[b] >= Data[c]
    BY <1>1, <1>3, <2>1 DEF IndSinc, ListaEmDia
  <2>2. ASSUME sinc'[s].segura, NEW b \in bq
        PROVE \/ Tratada(b)' \/ b \in sinc'[s].linhas
              \/ \A c \in sinc'[s].linhas : Data[b] >= Data[c]
    BY <1>1, <1>3, <2>2 DEF IndSinc, ListaEmDia
  <2> QED
    BY <2>1, <2>2 DEF ListaEmDia
<1> QED
  BY <1>4, <1>5, <1>6, <1>7 DEF IndSinc

\* Leaving a row that failed: the mark of the execution moves no more.
LEMMA FalharLinhaMantem ==
    ASSUME IndSinc, TiposDoSinc', Crescem, NEW s \in Sincs, NEW a, FalharLinha(s, a)
    PROVE  IndSinc'
<1>1. \A b \in bq : Tratada(b) => Tratada(b)'
  BY TratadaFica DEF IndSinc
<1>2. UNCHANGED <<bq, marca>>
  BY DEF FalharLinha, LinhaRejeitada, base
<1>3. /\ sinc'[s].linhas = sinc[s].linhas \ {a}
      /\ sinc'[s].passo = "linha"
      /\ sinc'[s].segura = FALSE
      /\ sinc'[s].marca = sinc[s].marca
      /\ \A t \in Sincs \ {s} : sinc'[t] = sinc[t]
  BY DEF IndSinc, TiposDoSinc, TipoDeSinc, FalharLinha
<1>4. AtualNaVez'
  BY <1>2, <1>3 DEF IndSinc, AtualNaVez, Primeiras
<1>5. MarcasVistas'
  BY <1>2, <1>3 DEF IndSinc, MarcasVistas, Vista
<1>6. MarcasSeguras'
  BY <1>1, <1>2, <1>3 DEF IndSinc, MarcasSeguras, NadaAbaixo
<1>7. ListaEmDia'
  BY <1>1, <1>2, <1>3 DEF IndSinc, ListaEmDia
<1> QED
  BY <1>4, <1>5, <1>6, <1>7 DEF IndSinc

\* Starting: what is not read is below the mark, and done.
LEMMA SincronizarMantem ==
    ASSUME IndSinc, TiposDoSinc', NEW s \in Sincs, Sincronizar(s) PROVE IndSinc'
<1>0. UNCHANGED <<bq, marca, usuario, relacao>>
  BY DEF Sincronizar, base
<1>1. \A b : Tratada(b) => Tratada(b)'
  BY <1>0 DEF Tratada, ComEmailDe
<1>2. /\ sinc'[s].linhas = LinhasDesde(marca)
      /\ sinc'[s].passo = "linha"
      /\ sinc'[s].marca = 0
      /\ \A t \in Sincs \ {s} : sinc'[t] = sinc[t]
  BY DEF IndSinc, TiposDoSinc, TipoDeSinc, Sincronizar, SincParado
<1>3. \A b \in bq : Data[b] \in Nat
  BY ConvitesAssumption DEF IndSinc, TiposDoSinc, TipoDeSinc
<1>4. AtualNaVez'
  BY <1>0, <1>2 DEF IndSinc, AtualNaVez, Primeiras, LinhasDesde
<1>5. MarcasVistas'
  BY <1>0, <1>2 DEF IndSinc, MarcasVistas, Vista
<1>6. MarcasSeguras'
  BY <1>0, <1>1, <1>2, <1>3 DEF IndSinc, MarcasSeguras, NadaAbaixo
<1>7. ListaEmDia'
  <2>1. ASSUME NEW t \in Sincs, t # s, sinc'[t].segura, NEW b \in bq
        PROVE \/ Tratada(b)' \/ b \in sinc'[t].linhas
              \/ \A c \in sinc'[t].linhas : Data[b] >= Data[c]
    BY <1>1, <1>2, <2>1 DEF IndSinc, ListaEmDia
  <2>2. ASSUME NEW b \in bq PROVE Tratada(b)' \/ b \in sinc'[s].linhas
    BY <1>1, <1>2 DEF IndSinc, MarcasSeguras, NadaAbaixo, LinhasDesde
  <2> QED
    BY <1>0, <2>1, <2>2 DEF ListaEmDia
<1> QED
  BY <1>4, <1>5, <1>6, <1>7 DEF IndSinc

\* A new row is not older than any that was shown, marks included.
LEMMA PublicarMantem ==
    ASSUME "linhaAtrasada" \notin Riscos, IndSinc, TiposDoSinc',
           NEW a \in Guardadores, Publicar(a)
    PROVE  IndSinc'
<1>0. UNCHANGED <<marca, usuario, relacao, sinc>> /\ bq' = bq \cup {a}
  BY DEF Publicar, base
<1>1. \A b : Tratada(b) => Tratada(b)'
  BY <1>0 DEF Tratada, ComEmailDe
<1>2. \A b \in bq : Data[b] <= Data[a]
  BY DEF Publicar
<1>3. Data[a] \in Nat /\ \A b \in bq : Data[b] \in Nat
  BY ConvitesAssumption DEF IndSinc, TiposDoSinc, TipoDeSinc
<1>4. AtualNaVez'
  BY <1>0 DEF IndSinc, AtualNaVez, Primeiras
<1>5. MarcasVistas'
  BY <1>0 DEF IndSinc, MarcasVistas, Vista
<1>6. MarcasSeguras'
  <2>1. ASSUME NEW m, Vista(m), NadaAbaixo(m) PROVE NadaAbaixo(m)'
    BY <1>0, <1>1, <1>2, <1>3, <2>1 DEF Vista, NadaAbaixo
  <2> QED
    BY <1>0, <2>1 DEF IndSinc, MarcasVistas, MarcasSeguras, NadaAbaixo
<1>7. ListaEmDia'
  BY <1>0, <1>1, <1>2, <1>3 DEF IndSinc, ListaEmDia, AtualNaVez
<1> QED
  BY <1>4, <1>5, <1>6, <1>7 DEF IndSinc

\* The mark saved is one nothing is pending below; what else ends leaves the
\* saved mark.
LEMMA SalvarMarcaMantem ==
    ASSUME IndSinc, TiposDoSinc', NEW s \in Sincs, SalvarMarca(s) PROVE IndSinc'
<1>0. UNCHANGED <<bq, usuario, relacao>> /\ marca' \in {marca, sinc[s].marca}
  BY DEF SalvarMarca
<1>1. \A b : Tratada(b) => Tratada(b)'
  BY <1>0 DEF Tratada, ComEmailDe
<1>2. /\ sinc'[s].linhas = {}
      /\ sinc'[s].passo = "fora"
      /\ sinc'[s].marca = 0
      /\ \A t \in Sincs \ {s} : sinc'[t] = sinc[t]
  BY DEF IndSinc, TiposDoSinc, TipoDeSinc, SalvarMarca, SincParado
<1>3. \A b \in bq : Data[b] \in Nat
  BY ConvitesAssumption DEF IndSinc, TiposDoSinc, TipoDeSinc
<1>4. AtualNaVez'
  BY <1>0, <1>2 DEF IndSinc, AtualNaVez, Primeiras
<1>5. MarcasVistas'
  BY <1>0, <1>2 DEF IndSinc, MarcasVistas, Vista
<1>6. MarcasSeguras'
  BY <1>0, <1>1, <1>2, <1>3 DEF IndSinc, MarcasSeguras, NadaAbaixo
<1>7. ListaEmDia'
  BY <1>0, <1>1, <1>2 DEF IndSinc, ListaEmDia
<1> QED
  BY <1>4, <1>5, <1>6, <1>7 DEF IndSinc

LEMMA ReiniciarMantem ==
    ASSUME IndSinc, TiposDoSinc', Reiniciar PROVE IndSinc'
<1>0. UNCHANGED <<bq, marca, usuario, relacao>>
  BY DEF Reiniciar, base
<1>1. \A b : Tratada(b) => Tratada(b)'
  BY <1>0 DEF Tratada, ComEmailDe
<1>2. \A t \in Sincs : /\ sinc'[t].linhas = {}
                        /\ sinc'[t].passo = "fora"
                        /\ sinc'[t].marca = 0
  BY DEF Reiniciar, SincParado
<1>3. \A b \in bq : Data[b] \in Nat
  BY ConvitesAssumption DEF IndSinc, TiposDoSinc, TipoDeSinc
<1>4. AtualNaVez' /\ ListaEmDia'
  BY <1>2 DEF AtualNaVez, ListaEmDia
<1>5. MarcasVistas'
  BY <1>0, <1>2 DEF IndSinc, MarcasVistas, Vista
<1>6. MarcasSeguras'
  BY <1>0, <1>1, <1>2, <1>3 DEF IndSinc, MarcasSeguras, NadaAbaixo
<1> QED
  BY <1>4, <1>5, <1>6 DEF IndSinc

-----------------------------------------------------------------------------

\* What no step of Next undoes.
LEMMA PassoCresce ==
    ASSUME TiposDoSinc, [Next]_vars PROVE Crescem
<1>1. \A b \in Pessoas : usuario[b] # "nenhum" => usuario'[b] # "nenhum"
  <2>1. \/ usuario' = usuario
        \/ \E a : usuario' = [usuario EXCEPT ![a] = "registro"]
        \/ \E a : usuario' = [usuario EXCEPT ![a] = "ativo"]
    BY DEF Next, vars, base, Publicar, VirarDia, Sincronizar, PassoDoSinc, ProcurarUsuario,
           CriarUsuario, Convidar, Relacionar, LinhaRejeitada, FalharLinha, SalvarMarca,
           IniciarEnvio, PassoDoEnvio, EnviarConvite, EnvioRecusado, AbortarEnvio,
           GravarEnvio, PedirReenvio, PassoDoReenvio, EnviarReenvio, FalharReenvio,
           GravarReenvio, ReenviarMensal, AbrirConvite, ConcluirCadastro, AtivarUsuario,
           Reiniciar
  <2> QED
    BY <2>1 DEF TiposDoSinc, TipoDeSinc
<1>2. relacao \subseteq relacao'
  BY DEF Next, vars, base, Publicar, VirarDia, Sincronizar, PassoDoSinc, ProcurarUsuario,
         CriarUsuario, Convidar, Relacionar, LinhaRejeitada, FalharLinha, SalvarMarca,
         IniciarEnvio, PassoDoEnvio, EnviarConvite, EnvioRecusado, AbortarEnvio,
         GravarEnvio, PedirReenvio, PassoDoReenvio, EnviarReenvio, FalharReenvio,
         GravarReenvio, ReenviarMensal, AbrirConvite, ConcluirCadastro, AtivarUsuario,
         Reiniciar
<1> QED
  BY <1>1, <1>2 DEF Crescem

\* The steps that do not touch the synchronisations, their rows or the mark.
Alheio ==
    \/ VirarDia
    \/ \E a \in Pessoas : PedirReenvio(a) \/ ReenviarMensal(a)
    \/ \E a \in Respondem : AbrirConvite(a) \/ ConcluirCadastro(a) \/ AtivarUsuario(a)
    \/ \E t \in Envios : IniciarEnvio(t) \/ PassoDoEnvio(t)
    \/ PassoDoReenvio
    \/ UNCHANGED vars

LEMMA AlheioNaoToca ==
    ASSUME Alheio PROVE UNCHANGED <<bq, marca, sinc, relacao>>
BY DEF Alheio, vars, base, VirarDia, IniciarEnvio, PassoDoEnvio, EnviarConvite,
       EnvioRecusado, AbortarEnvio, GravarEnvio, PedirReenvio, PassoDoReenvio,
       EnviarReenvio, FalharReenvio, GravarReenvio, ReenviarMensal, AbrirConvite,
       ConcluirCadastro, AtivarUsuario

\* The types are kept.
LEMMA TiposMantidos ==
    ASSUME TiposDoSinc, [Next]_vars PROVE TiposDoSinc'
<1>1. CASE Alheio
  <2>1. usuario' \in [Pessoas -> {"nenhum", "registro", "ativo"}]
    BY <1>1 DEF Alheio, TiposDoSinc, vars, base, VirarDia, IniciarEnvio, PassoDoEnvio,
         EnviarConvite, EnvioRecusado, AbortarEnvio, GravarEnvio, PedirReenvio,
         PassoDoReenvio, EnviarReenvio, FalharReenvio, GravarReenvio, ReenviarMensal,
         AbrirConvite, ConcluirCadastro, AtivarUsuario
  <2> QED
    BY <1>1, <2>1, AlheioNaoToca DEF TiposDoSinc, TipoDeSinc
<1>2. ASSUME NEW a \in Guardadores, Publicar(a) PROVE TiposDoSinc'
  BY <1>2 DEF Publicar, base, TiposDoSinc, TipoDeSinc
<1>3. ASSUME NEW s \in Sincs, Sincronizar(s) PROVE TiposDoSinc'
  <2>1. LinhasDesde(marca) \subseteq Guardadores
    BY DEF LinhasDesde, TiposDoSinc, TipoDeSinc
  <2> QED
    BY <1>3, <2>1 DEF Sincronizar, SincParado, base, TiposDoSinc, TipoDeSinc
<1>4. ASSUME NEW s \in Sincs, PassoDoSinc(s) PROVE TiposDoSinc'
  <2>1. \A a \in Guardadores : a \in Pessoas /\ Data[a] \in Nat
    BY ConvitesAssumption DEF Guardadores
  <2>2. ASSUME NEW a \in Guardadores, LinhaFeita(s, a)
        PROVE TipoDeSinc'
    BY <2>1, <2>2 DEF LinhaFeita, TiposDoSinc, TipoDeSinc
  <2>3. ASSUME NEW a \in Guardadores, NEW passo \in {"criar", "convidar", "relacionar"},
               Seguir(s, a, passo)
        PROVE TipoDeSinc'
    <3>1. sinc' = [sinc EXCEPT ![s] = [@ EXCEPT !.passo = passo, !.atual = a]]
      BY <2>3 DEF Seguir, TiposDoSinc, TipoDeSinc
    <3> QED
      BY <2>1, <3>1 DEF TiposDoSinc, TipoDeSinc
  <2>4. sinc[s].passo \notin {"fora", "linha"} =>
           sinc[s].atual \in Guardadores /\ sinc[s].atual \in Pessoas
    BY <2>1 DEF TiposDoSinc, TipoDeSinc
  <2>5. CASE CriarUsuario(s)
    BY <2>3, <2>4, <2>5 DEF CriarUsuario, TiposDoSinc, TipoDeSinc
  <2>6. CASE Convidar(s)
    BY <2>3, <2>4, <2>6 DEF Convidar, TiposDoSinc, TipoDeSinc
  <2>7. CASE Relacionar(s)
    BY <2>2, <2>4, <2>7 DEF Relacionar, TiposDoSinc, TipoDeSinc
  <2>8. CASE SalvarMarca(s)
    BY <2>8 DEF SalvarMarca, SincParado, TiposDoSinc, TipoDeSinc
  <2>9. ASSUME NEW a \in Guardadores, ProcurarUsuario(s, a) PROVE TiposDoSinc'
    BY <2>1, <2>2, <2>3, <2>9 DEF ProcurarUsuario, Primeiras, base, TiposDoSinc, TipoDeSinc
  <2>10. ASSUME NEW a \in Guardadores, FalharLinha(s, a) PROVE TiposDoSinc'
    BY <2>10 DEF FalharLinha, LinhaRejeitada, base, TiposDoSinc, TipoDeSinc
  <2> QED
    BY <1>4, <2>5, <2>6, <2>7, <2>8, <2>9, <2>10 DEF PassoDoSinc
<1>5. CASE Reiniciar
  BY <1>5 DEF Reiniciar, SincParado, base, TiposDoSinc, TipoDeSinc
<1> QED
  BY <1>1, <1>2, <1>3, <1>4, <1>5 DEF Next, Alheio

\* Whoever is a user stays one, and a row goes on to the invite or to the
\* relation when its user was found or created.
LEMMA AtualCriadoMantido ==
    ASSUME TiposDoSinc, AtualCriado, [Next]_vars PROVE AtualCriado'
<1>1. Crescem
  BY PassoCresce
<1>2. \A s \in Sincs : sinc[s].passo \notin {"fora", "linha"} => sinc[s].atual \in Pessoas
  BY ConvitesAssumption DEF TiposDoSinc, TipoDeSinc, Guardadores
<1>3. CASE Alheio \/ \E a \in Guardadores : Publicar(a)
  <2>1. UNCHANGED sinc
    BY <1>3, AlheioNaoToca DEF Publicar
  <2> QED
    BY <1>1, <1>2, <2>1 DEF AtualCriado, Crescem
<1>4. ASSUME NEW s \in Sincs, Sincronizar(s) \/ PassoDoSinc(s) PROVE AtualCriado'
  <2>1. \A r \in Sincs \ {s} : sinc'[r] = sinc[r]
    BY <1>4 DEF PassoDoSinc, Sincronizar, CriarUsuario, Convidar, Relacionar, SalvarMarca,
                ProcurarUsuario, FalharLinha, Seguir, LinhaFeita, TiposDoSinc, TipoDeSinc
  <2>2. CASE sinc'[s].passo \notin {"convidar", "relacionar"}
    BY <1>1, <1>2, <2>1, <2>2 DEF AtualCriado, Crescem
  <2>3. ASSUME NEW a \in Pessoas, NEW passo, Seguir(s, a, passo), usuario'[a] # "nenhum"
        PROVE  AtualCriado'
    <3>1. sinc'[s].atual = a
      BY <2>3 DEF Seguir, TiposDoSinc, TipoDeSinc
    <3> QED
      BY <1>1, <1>2, <2>1, <2>3, <3>1 DEF AtualCriado, Crescem
  <2>4. CASE CriarUsuario(s)
    <3>1. sinc[s].atual \in Pessoas /\ usuario'[sinc[s].atual] # "nenhum"
      BY <1>2, <2>4 DEF CriarUsuario, TiposDoSinc
    <3> QED
      BY <2>3, <2>4, <3>1 DEF CriarUsuario
  <2>5. CASE Convidar(s)
    <3>1. sinc[s].atual \in Pessoas /\ usuario'[sinc[s].atual] # "nenhum"
      BY <1>2, <2>5 DEF Convidar, AtualCriado
    <3> QED
      BY <2>3, <2>5, <3>1 DEF Convidar
  <2>6. ASSUME NEW a \in Guardadores, ProcurarUsuario(s, a) PROVE AtualCriado'
    <3>1. CASE Seguir(s, a, "relacionar") /\ usuario[a] # "nenhum"
      <4>1. a \in Pessoas /\ usuario' = usuario
        BY <2>6 DEF ProcurarUsuario, base, Guardadores
      <4> QED
        BY <2>3, <3>1, <4>1
    <3>2. CASE Seguir(s, a, "criar") \/ LinhaFeita(s, a)
      <4>1. sinc'[s].passo \in {"criar", "linha"}
        BY <3>2 DEF Seguir, LinhaFeita, TiposDoSinc, TipoDeSinc
      <4> QED
        BY <2>2, <4>1
    <3> QED
      BY <2>6, <3>1, <3>2 DEF ProcurarUsuario
  <2>7. ASSUME Sincronizar(s) \/ Relacionar(s) \/ SalvarMarca(s)
               \/ \E a \in Guardadores : FalharLinha(s, a)
        PROVE  sinc'[s].passo \in {"linha", "fora"}
    <3>1. CASE Sincronizar(s)
      BY <3>1 DEF Sincronizar, SincParado, TiposDoSinc, TipoDeSinc
    <3>2. CASE Relacionar(s)
      BY <3>2 DEF Relacionar, LinhaFeita, TiposDoSinc, TipoDeSinc
    <3>3. CASE SalvarMarca(s)
      BY <3>3 DEF SalvarMarca, SincParado, TiposDoSinc, TipoDeSinc
    <3>4. CASE \E a \in Guardadores : FalharLinha(s, a)
      BY <3>4 DEF FalharLinha, TiposDoSinc, TipoDeSinc
    <3> QED
      BY <2>7, <3>1, <3>2, <3>3, <3>4
  <2> QED
    BY <1>4, <2>2, <2>4, <2>5, <2>6, <2>7 DEF PassoDoSinc
<1>5. CASE Reiniciar
  BY <1>5 DEF Reiniciar, SincParado, AtualCriado
<1> QED
  BY <1>3, <1>4, <1>5 DEF Next, Alheio

\* Every step keeps the invariant, as long as rows come in order.
LEMMA IndSincMantido ==
    ASSUME "linhaAtrasada" \notin Riscos, IndSinc, AtualCriado, [Next]_vars
    PROVE  IndSinc'
<1>1. Crescem
  BY PassoCresce DEF IndSinc
<1>2. TiposDoSinc'
  BY TiposMantidos DEF IndSinc
<1>3. CASE Alheio
  BY <1>1, <1>2, <1>3, AlheioNaoToca, ForaDoSinc
<1>4. ASSUME NEW a \in Guardadores, Publicar(a) PROVE IndSinc'
  BY <1>2, <1>4, PublicarMantem
<1>5. ASSUME NEW s \in Sincs, Sincronizar(s) PROVE IndSinc'
  BY <1>2, <1>5, SincronizarMantem
<1>6. ASSUME NEW s \in Sincs, PassoDoSinc(s) PROVE IndSinc'
  <2>1. sinc[s].passo \notin {"fora", "linha"} => sinc[s].atual \in Primeiras(sinc[s].linhas)
    BY DEF IndSinc, AtualNaVez
  <2>2. CASE CriarUsuario(s)
    <3>1. Seguir(s, sinc[s].atual, "convidar") /\ sinc[s].passo = "criar"
          /\ UNCHANGED <<bq, marca>>
      BY <2>2 DEF CriarUsuario
    <3> QED
      BY <1>1, <1>2, <2>1, <3>1, SeguirMantem
  <2>3. CASE Convidar(s)
    <3>1. Seguir(s, sinc[s].atual, "relacionar") /\ sinc[s].passo = "convidar"
          /\ UNCHANGED <<bq, marca>>
      BY <2>3 DEF Convidar
    <3> QED
      BY <1>1, <1>2, <2>1, <3>1, SeguirMantem
  <2>4. CASE Relacionar(s)
    <3>1. PICK a \in Primeiras(sinc[s].linhas) : a = sinc[s].atual
      BY <2>1, <2>4 DEF Relacionar
    <3>2. LinhaFeita(s, a) /\ sinc[s].passo = "relacionar" /\ UNCHANGED <<bq, marca>>
      BY <2>4, <3>1 DEF Relacionar
    <3>3. /\ a \in Associados => a \in relacao'
          /\ usuario'[a] # "nenhum"
      BY <2>4, <3>1 DEF Relacionar, AtualCriado
    <3>4. Tratada(a)'
      BY <3>3 DEF Tratada
    <3> QED
      BY <1>1, <1>2, <3>2, <3>4, LinhaFeitaMantem
  <2>5. CASE SalvarMarca(s)
    BY <1>2, <2>5, SalvarMarcaMantem
  <2>6. ASSUME NEW a \in Guardadores, ProcurarUsuario(s, a) PROVE IndSinc'
    <3>1. UNCHANGED <<bq, marca, usuario, relacao>> /\ a \in Primeiras(sinc[s].linhas)
      BY <2>6 DEF ProcurarUsuario, base
    <3>2. CASE Seguir(s, a, "relacionar") \/ Seguir(s, a, "criar")
      BY <1>1, <1>2, <3>1, <3>2, SeguirMantem
    <3>3. CASE /\ a \notin Identificados \/ (usuario[a] = "nenhum" /\ ComEmailDe(a) # {})
               /\ LinhaFeita(s, a)
      <4>1. Tratada(a)'
        BY <3>1, <3>3 DEF Tratada, ComEmailDe
      <4> QED
        BY <1>1, <1>2, <3>1, <3>3, <4>1, LinhaFeitaMantem
    <3> QED
      BY <2>6, <3>2, <3>3 DEF ProcurarUsuario
  <2>7. ASSUME NEW a \in Guardadores, FalharLinha(s, a) PROVE IndSinc'
    BY <1>1, <1>2, <2>7, FalharLinhaMantem
  <2> QED
    BY <1>6, <2>2, <2>3, <2>4, <2>5, <2>6, <2>7 DEF PassoDoSinc
<1>7. CASE Reiniciar
  BY <1>2, <1>7, ReiniciarMantem
<1> QED
  BY <1>3, <1>4, <1>5, <1>6, <1>7 DEF Next, Alheio

LEMMA IndSincInicial == ASSUME Init PROVE IndSinc
BY DEF Init, IndSinc, TiposDoSinc, TipoDeSinc, SincParado, AtualNaVez, MarcasVistas, Vista,
       MarcasSeguras, NadaAbaixo, ListaEmDia

\* Every row BigQuery shows is done (its user exists, related to the
\* association the row has, if any; or the address is another user's; or it
\* has no document) or will be read by the next execution of
\* syncWeeklyAgentUsers, with any number of executions at once, whatever rows
\* fail, whichever execution saves its mark last and whenever the
\* application restarts, if BigQuery shows no row older than one it showed.
THEOREM NenhumaLinhaPuladaSempre ==
    ASSUME "linhaAtrasada" \notin Riscos PROVE Spec => []NenhumaLinhaPulada
<1>1. Init => IndSinc /\ AtualCriado
  BY IndSincInicial DEF Init, SincParado, AtualCriado
<1>2. IndSinc /\ AtualCriado /\ [Next]_vars => (IndSinc /\ AtualCriado)'
  BY IndSincMantido, AtualCriadoMantido DEF IndSinc
<1>3. IndSinc => NenhumaLinhaPulada
  BY DEF IndSinc, MarcasSeguras, NadaAbaixo, NenhumaLinhaPulada, LinhasDesde
<1> QED
  BY <1>1, <1>2, <1>3, PTL DEF Spec

-----------------------------------------------------------------------------
(* No user without an invite.                                              *)

Convite == [status : {"nenhum", "queued", "sent", "used"}, geracao : Nat, hoje : BOOLEAN]
Reenvio == [passo : {"fora", "enviar", "gravar"}, pessoa : Pessoas \cup {Ninguem},
            ativo : BOOLEAN, convite : Convite]

\* What concludes a registration, or sends an invite again, found an invite.
IndConvite ==
    /\ TiposDoSinc
    /\ convite \in [Pessoas -> Convite]
    /\ reenvio \in Reenvio
    /\ \A a \in concluindo : a \in Pessoas => convite[a].status # "nenhum"
    /\ reenvio.passo # "fora" => reenvio.convite.status # "nenhum"
    /\ UsuarioTemConvite

\* An invite once written is never taken away.
ConviteFica ==
    /\ convite' \in [Pessoas -> Convite]
    /\ \A a \in Pessoas : convite[a].status # "nenhum" => convite'[a].status # "nenhum"

LEMMA EscreverFica ==
    ASSUME IndConvite, NEW a, NEW status, NEW hoje \in BOOLEAN, Escrever(a, status, hoje),
           status = convite[a].status \/ status = "sent"
    PROVE  ConviteFica
BY DEF IndConvite, Escrever, ConviteFica, Convite

LEMMA PassoFica ==
    ASSUME IndConvite, [Next]_vars PROVE ConviteFica
<1>1. CASE UNCHANGED convite
  BY <1>1 DEF ConviteFica, IndConvite
<1>2. CASE VirarDia
  BY <1>2 DEF VirarDia, ConviteFica, IndConvite, Convite
<1>3. ASSUME NEW s \in Sincs, Convidar(s) PROVE ConviteFica
  BY <1>3 DEF Convidar, NaFila, ConviteFica, IndConvite, Convite
<1>4. ASSUME NEW t \in Envios, EnvioRecusado(t) \/ GravarEnvio(t) PROVE ConviteFica
  BY <1>4, EscreverFica DEF EnvioRecusado, GravarEnvio
<1>5. CASE GravarReenvio
  <2> DEFINE lido == reenvio.convite.status
             status == IF reenvio.ativo \/ lido = "queued" THEN "sent" ELSE lido
             novo == [status |-> status, geracao |-> GeracaoReenviada, hoje |-> TRUE]
  <2>1. convite' = [convite EXCEPT ![reenvio.pessoa] = novo]
    BY <1>5 DEF GravarReenvio
  <2>2. status \in {"queued", "sent", "used"} /\ GeracaoReenviada \in Nat
    BY <1>5 DEF GravarReenvio, GeracaoReenviada, IndConvite, Reenvio, Convite
  <2>3. novo \in Convite /\ novo.status = status
    BY <2>2 DEF Convite
  <2> HIDE DEF novo, status
  <2> QED
    BY <2>1, <2>2, <2>3 DEF ConviteFica, IndConvite
<1>6. ASSUME NEW a \in Pessoas, ReenviarMensal(a) PROVE ConviteFica
  BY <1>6 DEF ReenviarMensal, ConviteFica, IndConvite, Convite
<1>7. ASSUME NEW a \in Respondem, AbrirConvite(a) \/ ConcluirCadastro(a) PROVE ConviteFica
  BY <1>7 DEF AbrirConvite, ConcluirCadastro, ConviteFica, IndConvite, Convite
<1>8. \/ UNCHANGED convite \/ VirarDia \/ GravarReenvio
      \/ \E s \in Sincs : Convidar(s)
      \/ \E t \in Envios : EnvioRecusado(t) \/ GravarEnvio(t)
      \/ \E a \in Pessoas : ReenviarMensal(a)
      \/ \E a \in Respondem : AbrirConvite(a) \/ ConcluirCadastro(a)
  BY DEF Next, vars, base, Publicar, Sincronizar, PassoDoSinc, ProcurarUsuario,
         CriarUsuario, Relacionar, LinhaRejeitada, FalharLinha, SalvarMarca, IniciarEnvio,
         PassoDoEnvio, EnviarConvite, AbortarEnvio, PedirReenvio, PassoDoReenvio,
         EnviarReenvio, FalharReenvio, AtivarUsuario, Reiniciar
<1> QED
  BY <1>1, <1>2, <1>3, <1>4, <1>5, <1>6, <1>7, <1>8

\* What remembers having found an invite remembers one that is still there.
LEMMA LembradosFicam ==
    ASSUME IndConvite, ConviteFica, [Next]_vars
    PROVE  /\ \A a \in concluindo' : a \in Pessoas => convite'[a].status # "nenhum"
           /\ reenvio'.passo # "fora" => reenvio'.convite.status # "nenhum"
           /\ reenvio' \in Reenvio
<1>1. \A a \in concluindo' : a \in Pessoas => convite'[a].status # "nenhum"
  <2>1. \/ concluindo' \subseteq concluindo
        \/ \E a \in Respondem : ConcluirCadastro(a)
    BY DEF Next, vars, base, mundo, Publicar, VirarDia, Sincronizar, PassoDoSinc,
           ProcurarUsuario, CriarUsuario, Convidar, Relacionar, LinhaRejeitada,
           FalharLinha, SalvarMarca, IniciarEnvio, PassoDoEnvio, EnviarConvite,
           EnvioRecusado, AbortarEnvio, GravarEnvio, PedirReenvio, PassoDoReenvio,
           EnviarReenvio, FalharReenvio, GravarReenvio, ReenviarMensal, AbrirConvite,
           AtivarUsuario, Reiniciar
  <2>2. ASSUME NEW a \in Respondem, ConcluirCadastro(a)
        PROVE  /\ concluindo' = concluindo \cup {a}
               /\ a \in Pessoas => convite'[a].status # "nenhum"
    BY <2>2 DEF ConcluirCadastro, IndConvite, Convite
  <2> QED
    BY <2>1, <2>2 DEF IndConvite, ConviteFica
<1>2. \/ UNCHANGED reenvio \/ reenvio' = ReenvioParado \/ EnviarReenvio
      \/ \E a \in Pessoas : PedirReenvio(a)
  BY DEF Next, vars, base, mundo, Publicar, VirarDia, Sincronizar, PassoDoSinc,
         ProcurarUsuario, CriarUsuario, Convidar, Relacionar, LinhaRejeitada,
         FalharLinha, SalvarMarca, IniciarEnvio, PassoDoEnvio, EnviarConvite,
         EnvioRecusado, AbortarEnvio, GravarEnvio, PassoDoReenvio, FalharReenvio,
         GravarReenvio, ReenviarMensal, AbrirConvite, ConcluirCadastro, AtivarUsuario,
         Reiniciar
<1>3. CASE UNCHANGED reenvio
  BY <1>1, <1>3 DEF IndConvite
<1>4. CASE reenvio' = ReenvioParado
  BY <1>1, <1>4 DEF ReenvioParado, SemConvite, Reenvio, Convite
<1>5. CASE EnviarReenvio
  BY <1>1, <1>5 DEF EnviarReenvio, IndConvite, Reenvio
<1>6. ASSUME NEW a \in Pessoas, PedirReenvio(a)
      PROVE  /\ reenvio'.passo # "fora" => reenvio'.convite.status # "nenhum"
             /\ reenvio' \in Reenvio
  BY <1>6 DEF PedirReenvio, IndConvite, TiposDoSinc, Reenvio
<1> QED
  BY <1>1, <1>2, <1>3, <1>4, <1>5, <1>6

\* Who becomes a user was just created, or had an invite.
LEMMA NovoUsuario ==
    ASSUME IndConvite, [Next]_vars, NEW a \in Pessoas, usuario'[a] # usuario[a]
    PROVE  \/ \E s \in Sincs : CriarUsuario(s) /\ sinc[s].atual = a
           \/ convite[a].status # "nenhum"
<1>1. \/ UNCHANGED usuario
      \/ \E s \in Sincs : CriarUsuario(s)
      \/ \E b \in Respondem : AtivarUsuario(b)
  BY DEF Next, vars, base, Publicar, VirarDia, Sincronizar, PassoDoSinc, ProcurarUsuario,
         Convidar, Relacionar, LinhaRejeitada, FalharLinha, SalvarMarca, IniciarEnvio,
         PassoDoEnvio, EnviarConvite, EnvioRecusado, AbortarEnvio, GravarEnvio,
         PedirReenvio, PassoDoReenvio, EnviarReenvio, FalharReenvio, GravarReenvio,
         ReenviarMensal, AbrirConvite, ConcluirCadastro, Reiniciar
<1>2. ASSUME NEW s \in Sincs, CriarUsuario(s) PROVE sinc[s].atual = a
  BY <1>2 DEF CriarUsuario, IndConvite, TiposDoSinc
<1>3. ASSUME NEW b \in Respondem, AtivarUsuario(b) PROVE convite[a].status # "nenhum"
  BY <1>3 DEF AtivarUsuario, IndConvite, TiposDoSinc
<1> QED
  BY <1>1, <1>2, <1>3

\* Who was about to write an invite still is, or wrote it.
LEMMA QuemConvidaConvida ==
    ASSUME "quedaEntre" \notin Riscos, IndConvite, [Next]_vars,
           NEW s \in Sincs, sinc[s].passo = "convidar", sinc[s].atual \in Pessoas
    PROVE  \/ sinc'[s] = sinc[s]
           \/ convite'[sinc[s].atual].status # "nenhum"
<1>1. CASE UNCHANGED sinc
  BY <1>1
<1>2. ASSUME NEW r \in Sincs, PassoDoSinc(r) \/ Sincronizar(r), r # s
      PROVE  sinc'[s] = sinc[s]
  BY <1>2 DEF PassoDoSinc, Sincronizar, CriarUsuario, Convidar, Relacionar, SalvarMarca,
              ProcurarUsuario, FalharLinha, Seguir, LinhaFeita, IndConvite, TiposDoSinc,
              TipoDeSinc
<1>3. CASE PassoDoSinc(s) \/ Sincronizar(s)
  <2>1. Convidar(s)
    BY <1>3 DEF PassoDoSinc, Sincronizar, CriarUsuario, Relacionar, SalvarMarca,
                ProcurarUsuario, FalharLinha, LinhaRejeitada
  <2> QED
    BY <2>1 DEF Convidar, NaFila, IndConvite, Convite
<1>4. ~Reiniciar
  BY DEF Reiniciar
<1>5. UNCHANGED sinc \/ \E r \in Sincs : PassoDoSinc(r) \/ Sincronizar(r)
  BY <1>4 DEF Next, vars, base, Publicar, VirarDia, IniciarEnvio, PassoDoEnvio,
              EnviarConvite, EnvioRecusado, AbortarEnvio, GravarEnvio, PedirReenvio,
              PassoDoReenvio, EnviarReenvio, FalharReenvio, GravarReenvio,
              ReenviarMensal, AbrirConvite, ConcluirCadastro, AtivarUsuario
<1> QED
  BY <1>1, <1>2, <1>3, <1>5

LEMMA IndConviteMantido ==
    ASSUME "quedaEntre" \notin Riscos, IndConvite, [Next]_vars PROVE IndConvite'
<1>1. TiposDoSinc'
  BY TiposMantidos DEF IndConvite
<1>2. ConviteFica
  BY PassoFica
<1>3. ASSUME NEW a \in Pessoas, usuario'[a] # "nenhum", convite'[a].status = "nenhum"
      PROVE  \E s \in Sincs : sinc'[s].passo = "convidar" /\ sinc'[s].atual = a
  <2>1. convite[a].status = "nenhum"
    BY <1>2, <1>3 DEF ConviteFica
  <2>2. CASE usuario'[a] = usuario[a]
    <3>1. PICK s \in Sincs : sinc[s].passo = "convidar" /\ sinc[s].atual = a
      BY <1>3, <2>1, <2>2 DEF IndConvite, UsuarioTemConvite
    <3> QED
      BY <1>3, <3>1, QuemConvidaConvida
  <2>3. CASE usuario'[a] # usuario[a]
    <3>1. PICK s \in Sincs : CriarUsuario(s) /\ sinc[s].atual = a
      BY <2>1, <2>3, NovoUsuario
    <3> QED
      BY <3>1 DEF CriarUsuario, Seguir, IndConvite, TiposDoSinc, TipoDeSinc
  <2> QED
    BY <2>2, <2>3
<1>4. UsuarioTemConvite'
  BY <1>3 DEF UsuarioTemConvite
<1> QED
  BY <1>1, <1>2, <1>4, LembradosFicam DEF IndConvite, ConviteFica

LEMMA IndConviteInicial == ASSUME Init PROVE IndConvite
BY IndSincInicial DEF Init, IndConvite, IndSinc, NaFila, SemConvite, ReenvioParado,
                      UsuarioTemConvite, Convite, Reenvio

\* No user is left without an invite, with any number of synchronisations and
\* sendings at once, if the write of the invite that follows the creation of
\* a user is not lost: the two are separate writes, and no other execution
\* would write the invite.
THEOREM UsuarioTemConviteSempre ==
    ASSUME "quedaEntre" \notin Riscos PROVE Spec => []UsuarioTemConvite
<1>1. Init => IndConvite
  BY IndConviteInicial
<1>2. IndConvite /\ [Next]_vars => IndConvite'
  BY IndConviteMantido
<1>3. IndConvite => UsuarioTemConvite
  BY DEF IndConvite
<1> QED
  BY <1>1, <1>2, <1>3, PTL DEF Spec

-----------------------------------------------------------------------------
(* The queue of findUnsent, in the order of the first invites.             *)

\* A non-empty set of naturals has a least element.
LEMMA MenorNatural ==
    ASSUME NEW T, T \subseteq Nat, T # {} PROVE \E n \in T : \A m \in T : n <= m
<1>1. \E n \in T : \A m \in T : ~(<<m, n>> \in OpToRel(<, Nat))
  BY NatLessThanWellFounded, WFMin
<1>2. PICK n \in T : \A m \in T : ~(<<m, n>> \in OpToRel(<, Nat))
  BY <1>1
<1>3. \A m \in T : ~(m < n)
  BY <1>2 DEF OpToRel
<1> QED
  BY <1>3

\* What findUnsent selects of the first n users, for each n.
NaFilaDe(a) == convite[a].status = "queued"
Selecoes(n, f) ==
    f = [i \in 0..n |-> IF i = 0 THEN <<>>
                        ELSE IF NaFilaDe(chegada[i]) THEN Append(f[i-1], chegada[i])
                        ELSE f[i-1]]

LEMMA SelecoesExistem ==
    ASSUME NEW N \in Nat PROVE \E f : Selecoes(N, f)
<1> DEFINE T == {n \in Nat : ~ \E f : Selecoes(n, f)}
<1> SUFFICES ASSUME T # {} PROVE FALSE
  OBVIOUS
<1>1. PICK n \in T : \A m \in T : n <= m
  <2>1. T \subseteq Nat
    OBVIOUS
  <2> HIDE DEF T
  <2> QED
    BY <2>1, MenorNatural
<1>2. CASE n = 0
  <2> DEFINE f == [i \in 0..0 |-> <<>>]
  <2>1. Selecoes(0, f)
    BY DEF Selecoes
  <2> QED
    BY <1>2, <2>1
<1>3. CASE n # 0
  <2>1. n \in Nat /\ n - 1 \in Nat /\ n - 1 \notin T
    BY <1>1, <1>3
  <2>2. PICK g : Selecoes(n - 1, g)
    BY <2>1
  <2> DEFINE novo == IF NaFilaDe(chegada[n]) THEN Append(g[n-1], chegada[n]) ELSE g[n-1]
             f == [i \in 0..n |-> IF i = n THEN novo ELSE g[i]]
  <2>3. \A i \in 0..n-1 : f[i] = g[i]
    BY <2>1
  <2>4. f[n] = novo
    BY <2>1
  <2>5. \A i \in 0..n-1 :
           g[i] = IF i = 0 THEN <<>>
                  ELSE IF NaFilaDe(chegada[i]) THEN Append(g[i-1], chegada[i]) ELSE g[i-1]
    BY <2>2 DEF Selecoes
  <2>6. \A i \in 0..n :
           f[i] = IF i = 0 THEN <<>>
                  ELSE IF NaFilaDe(chegada[i]) THEN Append(f[i-1], chegada[i]) ELSE f[i-1]
    <3> SUFFICES ASSUME NEW i \in 0..n
                 PROVE  f[i] = IF i = 0 THEN <<>>
                               ELSE IF NaFilaDe(chegada[i]) THEN Append(f[i-1], chegada[i])
                               ELSE f[i-1]
      OBVIOUS
    <3> HIDE DEF f
    <3>1. CASE i = n
      <4>1. f[i-1] = g[i-1]
        BY <2>1, <2>3, <3>1, <1>3
      <4> QED
        BY <1>3, <2>4, <3>1, <4>1
    <3>2. CASE i \in 0..n-1
      <4>1. i = 0 \/ f[i-1] = g[i-1]
        BY <2>1, <2>3, <3>2
      <4> QED
        BY <2>3, <2>5, <3>2, <4>1
    <3> QED
      BY <2>1, <3>1, <3>2
  <2>7. f = [i \in 0..n |-> f[i]]
    OBVIOUS
  <2> HIDE DEF f
  <2>8. Selecoes(n, f)
    BY <2>6, <2>7 DEF Selecoes
  <2> QED
    BY <2>8
<1> QED
  BY <1>2, <1>3

\* Invites that are queued, each once, of users among the first i.
Fila(q, i) ==
    /\ q \in Seq(Pessoas)
    /\ IsInjective(q)
    /\ \A k \in DOMAIN q : NaFilaDe(q[k]) /\ \E j \in 1..i : q[k] = chegada[j]

LEMMA FilaCresce ==
    ASSUME chegada \in Seq(Pessoas), IsInjective(chegada), NEW i \in 1..Len(chegada),
           NEW q, Fila(q, i - 1)
    PROVE  /\ Fila(q, i)
           /\ NaFilaDe(chegada[i]) => Fila(Append(q, chegada[i]), i)
<1>1. Fila(q, i)
  BY DEF Fila
<1>2. ASSUME NaFilaDe(chegada[i]) PROVE Fila(Append(q, chegada[i]), i)
  <2> DEFINE a == chegada[i]
             r == Append(q, a)
  <2>1. a \in Pessoas /\ DOMAIN chegada = 1..Len(chegada)
    BY ElementOfSeq, LenProperties
  <2>2. q \in Seq(Pessoas) /\ Len(q) \in Nat /\ DOMAIN q = 1..Len(q)
    BY LenProperties DEF Fila
  <2>3. /\ r \in Seq(Pessoas) /\ Len(r) = Len(q) + 1 /\ DOMAIN r = 1..Len(q)+1
        /\ \A k \in 1..Len(q) : r[k] = q[k]
        /\ r[Len(q)+1] = a
    BY <2>1, <2>2, AppendProperties, LenProperties
  <2>4. \A k \in 1..Len(q) : q[k] # a
    BY <2>1, <2>2 DEF Fila, IsInjective
  <2> HIDE DEF r
  <2>5. IsInjective(r)
    BY <2>2, <2>3, <2>4 DEF Fila, IsInjective
  <2>6. \A k \in DOMAIN r : NaFilaDe(r[k]) /\ \E j \in 1..i : r[k] = chegada[j]
    <3> SUFFICES ASSUME NEW k \in 1..Len(q)+1
                 PROVE  NaFilaDe(r[k]) /\ \E j \in 1..i : r[k] = chegada[j]
      BY <2>3
    <3>1. CASE k = Len(q) + 1
      BY <1>2, <2>3, <3>1
    <3>2. CASE k \in 1..Len(q)
      BY <1>1, <2>2, <2>3, <3>2 DEF Fila
    <3> QED
      BY <2>2, <3>1, <3>2
  <2> QED
    BY <2>3, <2>5, <2>6 DEF Fila, r
<1> QED
  BY <1>1, <1>2

LEMMA SelecaoEhFila ==
    ASSUME chegada \in Seq(Pessoas), IsInjective(chegada), NEW f, Selecoes(Len(chegada), f)
    PROVE  \A i \in 0..Len(chegada) : Fila(f[i], i)
<1> DEFINE T == {i \in 0..Len(chegada) : ~Fila(f[i], i)}
<1>0. Len(chegada) \in Nat
  BY LenProperties
<1> SUFFICES ASSUME T # {} PROVE FALSE
  OBVIOUS
<1>1. PICK n \in T : \A m \in T : n <= m
  <2>1. T \subseteq Nat
    BY <1>0
  <2> HIDE DEF T
  <2> QED
    BY <2>1, MenorNatural
<1>2. f[0] = <<>>
  BY <1>0 DEF Selecoes
<1>3. Fila(<<>>, 0)
  BY EmptySeq DEF Fila, IsInjective
<1>4. n \in 1..Len(chegada) /\ n \in 0..Len(chegada) /\ n # 0
  BY <1>0, <1>1, <1>2, <1>3
<1>5. Fila(f[n-1], n-1)
  BY <1>0, <1>1, <1>4
<1>6. f[n] = IF NaFilaDe(chegada[n]) THEN Append(f[n-1], chegada[n]) ELSE f[n-1]
  <2>1. \A i \in 0..Len(chegada) :
           f[i] = IF i = 0 THEN <<>>
                  ELSE IF NaFilaDe(chegada[i]) THEN Append(f[i-1], chegada[i]) ELSE f[i-1]
    BY DEF Selecoes
  <2> QED
    BY <1>4, <2>1
<1>7. Fila(f[n], n)
  BY <1>4, <1>5, <1>6, FilaCresce
<1> QED
  BY <1>1, <1>7

\* findUnsent gives users that are queued, each once.
LEMMA UnsentEhFila ==
    ASSUME chegada \in Seq(Pessoas), IsInjective(chegada)
    PROVE  Fila(Unsent, Len(chegada))
<1> DEFINE S(f) == f = [i \in 0..Len(chegada) |->
                        IF i = 0 THEN <<>>
                        ELSE IF convite[chegada[i]].status = "queued"
                             THEN Append(f[i-1], chegada[i])
                        ELSE f[i-1]]
<1>0. Len(chegada) \in Nat
  BY LenProperties
<1>1. Unsent = (CHOOSE f : S(f))[Len(chegada)]
  BY DEF Unsent
<1>2. \A f : S(f) <=> Selecoes(Len(chegada), f)
  BY DEF Selecoes, NaFilaDe
<1>3. \E f : S(f)
  BY <1>0, <1>2, SelecoesExistem
<1>4. Selecoes(Len(chegada), CHOOSE f : S(f))
  <2> HIDE DEF S
  <2> QED
    BY <1>2, <1>3
<1> HIDE DEF S
<1> QED
  BY <1>0, <1>1, <1>4, SelecaoEhFila

\* The users of the files arrive once each.
LEMMA ChegadaInicial ==
    /\ SetToSeq(Vanzeiros) \in Seq(Vanzeiros)
    /\ IsInjective(SetToSeq(Vanzeiros))
<1> DEFINE n == Cardinality(Vanzeiros)
<1>1. IsFiniteSet(Vanzeiros)
  BY ConvitesAssumption, FS_Subset
<1>2. n \in Nat /\ ExistsBijection(1..n, Vanzeiros)
  BY <1>1, FS_CardinalityType
<1>3. \E f \in [1..n -> Vanzeiros] : IsInjective(f)
  BY <1>2 DEF ExistsBijection, Bijection, Injection, IsInjective
<1>4. SetToSeq(Vanzeiros) \in [1..n -> Vanzeiros] /\ IsInjective(SetToSeq(Vanzeiros))
  <2>1. SetToSeq(Vanzeiros) = CHOOSE f \in [1..n -> Vanzeiros] : IsInjective(f)
    BY DEF SetToSeq
  <2> HIDE DEF n
  <2> QED
    BY <1>3, <2>1
<1> QED
  BY <1>2, <1>4, SeqDef

\* The first ones of a queue, and the queue without its first one.
LEMMA InicioDaFila ==
    ASSUME NEW q, NEW i, Fila(q, i), NEW n \in Nat, n <= Len(q)
    PROVE  Fila(SubSeq(q, 1, n), i) /\ Len(SubSeq(q, 1, n)) = n
<1> DEFINE r == SubSeq(q, 1, n)
<1>1. q \in Seq(Pessoas) /\ Len(q) \in Nat /\ DOMAIN q = 1..Len(q)
  BY LenProperties DEF Fila
<1>2. \A k \in 1..n : q[k] \in Pessoas /\ k \in DOMAIN q
  BY <1>1, ElementOfSeq
<1>3. /\ r \in Seq(Pessoas)
      /\ Len(r) = IF 1 <= n THEN n - 1 + 1 ELSE 0
      /\ \A k \in 1..n-1+1 : r[k] = q[1+k-1]
  BY <1>2, SubSeqProperties
<1>4. Len(r) = n /\ DOMAIN r = 1..n /\ \A k \in 1..n : r[k] = q[k]
  BY <1>3, LenProperties
<1> HIDE DEF r
<1>5. Fila(r, i)
  BY <1>2, <1>3, <1>4 DEF Fila, IsInjective
<1> QED
  BY <1>4, <1>5 DEF r

LEMMA RestoDaFila ==
    ASSUME NEW q \in Seq(Pessoas), q # <<>>
    PROVE  /\ Len(q) \in Nat \ {0} /\ DOMAIN q = 1..Len(q)
           /\ Head(q) = q[1] /\ Head(q) \in Pessoas
           /\ Tail(q) \in Seq(Pessoas)
           /\ Len(Tail(q)) = Len(q) - 1
           /\ DOMAIN Tail(q) = 1..Len(q)-1
           /\ \A k \in 1..Len(q)-1 : Tail(q)[k] = q[k+1]
           /\ Len(q) # 1 => Tail(q) # <<>>
           /\ IsInjective(q) => /\ IsInjective(Tail(q))
                                /\ \A k \in 1..Len(q)-1 : Tail(q)[k] # Head(q)
<1>1. Len(q) \in Nat \ {0} /\ DOMAIN q = 1..Len(q)
  BY EmptySeq, LenProperties
<1>2. Head(q) = q[1]
  OBVIOUS
<1>3. /\ Head(q) \in Pessoas /\ Tail(q) \in Seq(Pessoas) /\ Len(Tail(q)) = Len(q) - 1
      /\ \A k \in 1..Len(Tail(q)) : Tail(q)[k] = q[k+1]
  BY HeadTailProperties
<1>4. DOMAIN Tail(q) = 1..Len(q)-1
  BY <1>3, LenProperties
<1>5. Len(q) # 1 => Tail(q) # <<>>
  BY <1>1, <1>3, EmptySeq
<1>6. IsInjective(q) => /\ IsInjective(Tail(q))
                       /\ \A k \in 1..Len(q)-1 : Tail(q)[k] # Head(q)
  BY <1>1, <1>2, <1>3, <1>4 DEF IsInjective
<1> QED
  BY <1>1, <1>2, <1>3, <1>4, <1>5, <1>6

-----------------------------------------------------------------------------
(* The mails of a day, and the invites they are about.                     *)

Caixa == [passo : {"fora", "enviar", "gravar"}, lista : Seq(Pessoas)]

TiposDoCorreio ==
    /\ TiposDoSinc
    /\ convite \in [Pessoas -> Convite]
    /\ chegada \in Seq(Pessoas)
    /\ recebido \subseteq Pessoas \X (Nat \ {0})
    /\ correio \in Nat
    /\ envio \in [Envios -> Caixa]
    /\ reenvio \in Reenvio

TemConvite(a) == convite[a].status # "nenhum"

\* An invite is whole: what is queued was never mailed again nor today.
ConviteInteiro ==
    \A a \in Pessoas :
        /\ ~TemConvite(a) => convite[a] = SemConvite
        /\ convite[a].status = "queued" => convite[a].geracao = 1 /\ ~convite[a].hoje
        /\ TemConvite(a) => convite[a].geracao > 0

\* An invite is written once, by who created the user.
ConvidadoUmaVez ==
    /\ \A a \in Pessoas : usuario[a] = "nenhum" => ~TemConvite(a)
    /\ \A s \in Sincs : sinc[s].passo = "convidar" =>
           /\ ~TemConvite(sinc[s].atual)
           /\ usuario[sinc[s].atual] # "nenhum"
           /\ \A r \in Sincs : sinc[r].passo = "convidar" /\ sinc[r].atual = sinc[s].atual
                               => r = s
    /\ IsInjective(chegada)
    /\ \A i \in DOMAIN chegada : TemConvite(chegada[i])

\* What is mailed, or was, is an invite.
CorreioDeConvites ==
    /\ \A m \in recebido : TemConvite(m[1])
    /\ \A t \in Envios : /\ envio[t].passo # "fora" => envio[t].lista # <<>>
                         /\ \A i \in DOMAIN envio[t].lista : TemConvite(envio[t].lista[i])
    /\ reenvio.passo # "fora" =>
           /\ reenvio.pessoa \in Pessoas /\ TemConvite(reenvio.pessoa)
           /\ reenvio.convite.status # "nenhum" /\ reenvio.convite.geracao > 0

IndCorreio == TiposDoCorreio /\ ConviteInteiro /\ ConvidadoUmaVez /\ CorreioDeConvites

\* What going on with a row writes.
LEMMA SeguirEscreve ==
    ASSUME TiposDoSinc, NEW s \in Sincs, NEW a, NEW passo, Seguir(s, a, passo)
    PROVE  /\ sinc'[s].passo = passo /\ sinc'[s].atual = a
           /\ \A r \in Sincs \ {s} : sinc'[r] = sinc[r]
BY DEF Seguir, TiposDoSinc, TipoDeSinc

\* What mails, of what it has at hand.
LEMMA AoMandar ==
    ASSUME IndCorreio, NEW t \in Envios, envio[t].passo # "fora"
    PROVE  /\ envio[t].lista \in Seq(Pessoas) /\ envio[t].lista # <<>>
           /\ Head(envio[t].lista) \in Pessoas /\ TemConvite(Head(envio[t].lista))
           /\ convite[Head(envio[t].lista)] \in Convite
           /\ convite[Head(envio[t].lista)].geracao > 0
<1>1. envio[t].lista \in Seq(Pessoas) /\ envio[t].lista # <<>>
  BY DEF IndCorreio, TiposDoCorreio, Caixa, CorreioDeConvites
<1>2. /\ Head(envio[t].lista) = envio[t].lista[1] /\ Head(envio[t].lista) \in Pessoas
      /\ 1 \in DOMAIN envio[t].lista
  BY <1>1, RestoDaFila
<1> QED
  BY <1>1, <1>2 DEF IndCorreio, TiposDoCorreio, CorreioDeConvites, ConviteInteiro

\* A guard whose invite is about to be written.
LEMMA AoConvidar ==
    ASSUME IndCorreio, NEW s \in Sincs, sinc[s].passo = "convidar"
    PROVE  /\ sinc[s].atual \in Pessoas /\ ~TemConvite(sinc[s].atual)
           /\ convite[sinc[s].atual] = SemConvite
<1>1. sinc[s].atual \in Pessoas
  BY DEF IndCorreio, TiposDoCorreio, TiposDoSinc, TipoDeSinc, Guardadores
<1> QED
  BY <1>1 DEF IndCorreio, ConviteInteiro, ConvidadoUmaVez

\* The steps that write invites.
PassosDeConvite ==
    \/ UNCHANGED convite
    \/ VirarDia
    \/ \E s \in Sincs : Convidar(s)
    \/ \E t \in Envios : EnvioRecusado(t) \/ GravarEnvio(t)
    \/ GravarReenvio
    \/ \E a \in Pessoas : ReenviarMensal(a)
    \/ \E a \in Pessoas : AbrirConvite(a) \/ ConcluirCadastro(a)

LEMMA QuemEscreveConvite ==
    ASSUME [Next]_vars PROVE PassosDeConvite
<1>1. Respondem \subseteq Pessoas
  BY ConvitesAssumption
<1> QED
  BY <1>1 DEF PassosDeConvite, Next, vars, base, Publicar, Sincronizar, PassoDoSinc,
         ProcurarUsuario, CriarUsuario, Relacionar, LinhaRejeitada, FalharLinha,
         SalvarMarca, IniciarEnvio, PassoDoEnvio, EnviarConvite, AbortarEnvio,
         PedirReenvio, PassoDoReenvio, EnviarReenvio, FalharReenvio, AtivarUsuario,
         Reiniciar

\* Every step leaves the invites whole; only Convidar gives one to who had none.
InteiroDepois ==
    /\ convite' \in [Pessoas -> Convite]
    /\ ConviteInteiro'
    /\ \A a \in Pessoas : TemConvite(a) => TemConvite(a)'
    /\ \A a \in Pessoas : TemConvite(a)' => \/ TemConvite(a)
                                             \/ \E s \in Sincs : Convidar(s) /\ sinc[s].atual = a

\* The invite of who has one is replaced by another.
LEMMA TrocaInteiro ==
    ASSUME IndCorreio, NEW a \in Pessoas, TemConvite(a), NEW c \in Convite,
           c.status # "nenhum", c.geracao > 0,
           c.status = "queued" => c.geracao = 1 /\ ~c.hoje,
           convite' = [convite EXCEPT ![a] = c]
    PROVE  InteiroDepois
BY DEF IndCorreio, TiposDoCorreio, InteiroDepois, ConviteInteiro, TemConvite

LEMMA EscreverInteiro ==
    ASSUME IndCorreio, NEW a \in Pessoas, TemConvite(a), NEW status, NEW hoje \in BOOLEAN,
           Escrever(a, status, hoje),
           \/ status = convite[a].status /\ ~hoje
           \/ status = "sent"
    PROVE  InteiroDepois
<1>1. CASE convite[a].geracao # 1
  <2>1. convite' = convite
    BY <1>1 DEF Escrever
  <2> QED
    BY <2>1 DEF InteiroDepois, IndCorreio, TiposDoCorreio, ConviteInteiro, TemConvite
<1>2. CASE convite[a].geracao = 1
  <2>1. convite[a] \in Convite
    BY DEF IndCorreio, TiposDoCorreio
  <2> DEFINE c == [convite[a] EXCEPT !.status = status, !.hoje = hoje]
  <2>2. convite' = [convite EXCEPT ![a] = c]
    BY <1>2 DEF Escrever, IndCorreio, TiposDoCorreio
  <2>3. /\ c.status = status /\ c.geracao = 1 /\ c.hoje = hoje
        /\ status \in {"queued", "sent", "used"}
        /\ status = "queued" => hoje = FALSE
    BY <1>2, <2>1 DEF Convite, TemConvite
  <2>4. c \in Convite
    BY <1>2, <2>1, <2>3 DEF Convite
  <2>5. c.status # "nenhum" /\ c.geracao > 0
    BY <2>3
  <2>6. c.status = "queued" => c.geracao = 1 /\ ~c.hoje
    BY <2>3
  <2> HIDE DEF c
  <2> QED
    BY <2>2, <2>4, <2>5, <2>6, TrocaInteiro
<1> QED
  BY <1>1, <1>2

LEMMA InteiroMantido ==
    ASSUME IndCorreio, [Next]_vars PROVE InteiroDepois
<1> USE DEF TemConvite
<1>0. convite \in [Pessoas -> Convite]
  BY DEF IndCorreio, TiposDoCorreio
<1>1. CASE UNCHANGED convite
  BY <1>1 DEF InteiroDepois, IndCorreio, TiposDoCorreio, ConviteInteiro
<1>2. CASE VirarDia
  <2>0. \A a \in Pessoas : convite'[a] = [convite[a] EXCEPT !.hoje = FALSE]
    BY <1>2 DEF VirarDia
  <2>1. ASSUME NEW a \in Pessoas
        PROVE  /\ convite'[a].status = convite[a].status
               /\ convite'[a].geracao = convite[a].geracao
               /\ convite'[a].hoje = FALSE
               /\ convite'[a] \in Convite
               /\ convite[a] = SemConvite => convite'[a] = SemConvite
    <3>1. convite[a] \in Convite
      BY <1>0
    <3>2. /\ convite'[a].status = convite[a].status
          /\ convite'[a].geracao = convite[a].geracao
          /\ convite'[a].hoje = FALSE
          /\ convite'[a] \in Convite
      BY <2>0, <3>1 DEF Convite
    <3>3. convite[a] = SemConvite => convite'[a] = SemConvite
      BY <2>0 DEF SemConvite
    <3> QED
      BY <3>2, <3>3
  <2>2. convite' \in [Pessoas -> Convite]
    BY <1>2, <2>1 DEF VirarDia
  <2> QED
    BY <2>1, <2>2 DEF InteiroDepois, IndCorreio, ConviteInteiro
<1>3. ASSUME NEW s \in Sincs, Convidar(s) PROVE InteiroDepois
  <2>1. sinc[s].atual \in Pessoas
    BY <1>3, AoConvidar DEF Convidar
  <2>2. convite' = [convite EXCEPT ![sinc[s].atual] = NaFila]
    BY <1>3 DEF Convidar
  <2>3. NaFila \in Convite /\ NaFila.geracao = 1 /\ ~NaFila.hoje /\ NaFila.status = "queued"
    BY DEF NaFila, Convite
  <2> QED
    BY <1>0, <1>3, <2>1, <2>2, <2>3 DEF InteiroDepois, IndCorreio, ConviteInteiro
<1>4. ASSUME NEW t \in Envios, EnvioRecusado(t) \/ GravarEnvio(t) PROVE InteiroDepois
  BY <1>4, AoMandar, EscreverInteiro DEF EnvioRecusado, GravarEnvio
<1>5. CASE GravarReenvio
  <2> DEFINE lido == reenvio.convite.status
             status == IF reenvio.ativo \/ lido = "queued" THEN "sent" ELSE lido
             novo == [status |-> status, geracao |-> GeracaoReenviada, hoje |-> TRUE]
  <2>1. convite' = [convite EXCEPT ![reenvio.pessoa] = novo]
    BY <1>5 DEF GravarReenvio
  <2>2. status \in {"sent", "used"} /\ GeracaoReenviada \in Nat /\ GeracaoReenviada > 0
    BY <1>5 DEF GravarReenvio, GeracaoReenviada, IndCorreio, TiposDoCorreio,
                CorreioDeConvites, Reenvio, Convite
  <2>3. reenvio.pessoa \in Pessoas /\ TemConvite(reenvio.pessoa)
    BY <1>5 DEF GravarReenvio, IndCorreio, CorreioDeConvites
  <2>4. novo \in Convite /\ novo.status = status /\ novo.geracao = GeracaoReenviada
    BY <2>2 DEF Convite
  <2> HIDE DEF novo, status
  <2> QED
    BY <2>1, <2>2, <2>3, <2>4, TrocaInteiro
<1>6. ASSUME NEW a \in Pessoas, ReenviarMensal(a) PROVE InteiroDepois
  <2> DEFINE c == [convite[a] EXCEPT !.hoje = TRUE]
  <2>1. convite' = [convite EXCEPT ![a] = c] /\ convite[a].status \in {"sent", "used"}
    BY <1>0, <1>6 DEF ReenviarMensal
  <2>2. /\ c \in Convite /\ c.status = convite[a].status
        /\ c.geracao = convite[a].geracao /\ convite[a].geracao > 0
    BY <1>0, <2>1 DEF Convite, IndCorreio, ConviteInteiro
  <2> HIDE DEF c
  <2> QED
    BY <2>1, <2>2, TrocaInteiro
<1>7. ASSUME NEW a \in Pessoas, AbrirConvite(a) \/ ConcluirCadastro(a) PROVE InteiroDepois
  <2> DEFINE c == [convite[a] EXCEPT !.status = "used"]
  <2>1. convite' = [convite EXCEPT ![a] = c] /\ convite[a].status \in {"sent", "used"}
    BY <1>0, <1>7 DEF AbrirConvite, ConcluirCadastro, Usavel, Aceito
  <2>2. /\ c \in Convite /\ c.status = "used"
        /\ c.geracao = convite[a].geracao /\ convite[a].geracao > 0
    BY <1>0, <2>1 DEF Convite, IndCorreio, ConviteInteiro
  <2> HIDE DEF c
  <2> QED
    BY <2>1, <2>2, TrocaInteiro
<1> QED
  BY <1>1, <1>2, <1>3, <1>4, <1>5, <1>6, <1>7, QuemEscreveConvite DEF PassosDeConvite

-----------------------------------------------------------------------------

\* An invite is written once.
LEMMA ConvidadoMantido ==
    ASSUME IndCorreio, [Next]_vars PROVE ConvidadoUmaVez' /\ chegada' \in Seq(Pessoas)
<1>0. InteiroDepois /\ Crescem /\ TiposDoSinc /\ TiposDoSinc'
  BY InteiroMantido, PassoCresce, TiposMantidos DEF IndCorreio, TiposDoCorreio
<1>1. ASSUME NEW a \in Pessoas, usuario'[a] = "nenhum" PROVE ~TemConvite(a)'
  <2>1. usuario[a] = "nenhum" /\ ~TemConvite(a)
    BY <1>0, <1>1 DEF Crescem, TiposDoSinc, IndCorreio, ConvidadoUmaVez
  <2>2. ASSUME NEW s \in Sincs, Convidar(s) PROVE sinc[s].atual # a
    BY <2>1, <2>2 DEF Convidar, IndCorreio, ConvidadoUmaVez
  <2> QED
    BY <1>0, <2>1, <2>2 DEF InteiroDepois
<1>2. ASSUME NEW s \in Sincs, sinc'[s].passo = "convidar"
      PROVE  \/ CriarUsuario(s) /\ sinc'[s].atual = sinc[s].atual
             \/ ~Convidar(s) /\ sinc[s].passo = "convidar" /\ sinc'[s].atual = sinc[s].atual
  <2>1. CASE UNCHANGED sinc
    <3>1. ~Convidar(s)
      BY <2>1, <1>0, <1>2, SeguirEscreve DEF Convidar
    <3> QED
      BY <1>2, <2>1, <3>1
  <2>2. ASSUME NEW r \in Sincs, PassoDoSinc(r) \/ Sincronizar(r), r # s
        PROVE  sinc'[s] = sinc[s] /\ ~Convidar(s)
    <3>1. sinc'[s] = sinc[s]
      BY <2>2, <1>0 DEF PassoDoSinc, Sincronizar, CriarUsuario, Convidar, Relacionar,
              SalvarMarca, ProcurarUsuario, FalharLinha, Seguir, LinhaFeita,
              TiposDoSinc, TipoDeSinc
    <3>2. Convidar(s) => sinc'[s] # sinc[s]
      <4> SUFFICES ASSUME Convidar(s) PROVE sinc'[s].passo # sinc[s].passo
        OBVIOUS
      <4> QED
        BY <1>0, SeguirEscreve DEF Convidar
    <3> QED
      BY <3>1, <3>2
  <2>3. CASE PassoDoSinc(s) \/ Sincronizar(s)
    <3>1. sinc \in [Sincs -> [passo : {"fora", "linha", "criar", "convidar", "relacionar"},
                              linhas : SUBSET Guardadores, atual : Pessoas \cup {Ninguem},
                              marca : Nat, segura : BOOLEAN]]
      BY <1>0 DEF TiposDoSinc, TipoDeSinc
    <3>2. ~Sincronizar(s)
      <4>1. Sincronizar(s) => sinc'[s] = [SincParado EXCEPT !.passo = "linha",
                                                            !.linhas = LinhasDesde(marca)]
        BY <3>1 DEF Sincronizar
      <4> QED
        BY <1>2, <4>1 DEF SincParado
    <3>3. ~SalvarMarca(s)
      <4>1. SalvarMarca(s) => sinc'[s] = SincParado
        BY <3>1 DEF SalvarMarca
      <4> QED
        BY <1>2, <4>1 DEF SincParado
    <3>4. ~Convidar(s)
      BY <1>0, <1>2, SeguirEscreve DEF Convidar
    <3>5. \A a : ~LinhaFeita(s, a)
      BY <1>2, <3>1 DEF LinhaFeita
    <3>6. \A a : ~FalharLinha(s, a)
      BY <1>2, <3>1 DEF FalharLinha
    <3>7. \A a : ~ProcurarUsuario(s, a)
      BY <1>0, <1>2, <3>5, SeguirEscreve DEF ProcurarUsuario
    <3>8. CriarUsuario(s)
      BY <2>3, <3>2, <3>4, <3>5, <3>6, <3>7, <3>3 DEF PassoDoSinc, Relacionar
    <3>9. sinc'[s].atual = sinc[s].atual
      BY <3>8, <1>0 DEF CriarUsuario, Seguir, TiposDoSinc, TipoDeSinc
    <3> QED
      BY <3>8, <3>9
  <2>4. ~Reiniciar
    BY <1>2 DEF Reiniciar, SincParado
  <2>5. UNCHANGED sinc \/ \E r \in Sincs : PassoDoSinc(r) \/ Sincronizar(r)
    BY <2>4 DEF Next, vars, base, Publicar, VirarDia, IniciarEnvio, PassoDoEnvio,
              EnviarConvite, EnvioRecusado, AbortarEnvio, GravarEnvio, PedirReenvio,
              PassoDoReenvio, EnviarReenvio, FalharReenvio, GravarReenvio,
              ReenviarMensal, AbrirConvite, ConcluirCadastro, AtivarUsuario
  <2> QED
    BY <1>2, <2>1, <2>2, <2>3, <2>5
<1>3. ASSUME NEW s \in Sincs, CriarUsuario(s)
      PROVE  /\ sinc[s].atual \in Pessoas
             /\ usuario[sinc[s].atual] = "nenhum" /\ usuario'[sinc[s].atual] = "registro"
             /\ \A r \in Sincs \ {s} : sinc'[r] = sinc[r] /\ ~CriarUsuario(r)
             /\ UNCHANGED convite
  <2>1. sinc[s].atual \in Pessoas
    BY <1>0, <1>3 DEF CriarUsuario, TiposDoSinc, TipoDeSinc, Guardadores
  <2>2. usuario[sinc[s].atual] = "nenhum"
    BY <1>0, <1>3, <2>1 DEF CriarUsuario, ComEmailDe, TiposDoSinc
  <2>3. \A r \in Sincs \ {s} : sinc'[r] = sinc[r]
    BY <1>0, <1>3 DEF CriarUsuario, Seguir, TiposDoSinc, TipoDeSinc
  <2>4. \A r \in Sincs : CriarUsuario(r) => sinc'[r].passo = "convidar" /\ sinc[r].passo = "criar"
    BY <1>0 DEF CriarUsuario, Seguir, TiposDoSinc, TipoDeSinc
  <2>5. \A r \in Sincs \ {s} : ~CriarUsuario(r)
    BY <2>3, <2>4
  <2> QED
    BY <1>0, <1>3, <2>1, <2>2, <2>3, <2>5 DEF CriarUsuario, TiposDoSinc
<1>4. ASSUME NEW s \in Sincs, sinc'[s].passo = "convidar"
      PROVE  convite'[sinc'[s].atual].status = "nenhum" /\ usuario'[sinc'[s].atual] # "nenhum"
  <2>1. CASE CriarUsuario(s) /\ sinc'[s].atual = sinc[s].atual
    BY <1>3, <2>1 DEF IndCorreio, ConvidadoUmaVez, TemConvite, TiposDoCorreio
  <2>2. CASE /\ ~Convidar(s) /\ sinc[s].passo = "convidar"
             /\ sinc'[s].atual = sinc[s].atual
    <3>1. /\ sinc[s].atual \in Pessoas /\ ~TemConvite(sinc[s].atual)
          /\ usuario[sinc[s].atual] # "nenhum"
      BY <2>2, AoConvidar DEF IndCorreio, ConvidadoUmaVez
    <3>2. ASSUME NEW r \in Sincs, Convidar(r) PROVE sinc[r].atual # sinc[s].atual
      BY <2>2, <3>2 DEF Convidar, IndCorreio, ConvidadoUmaVez
    <3> QED
      BY <1>0, <2>2, <3>1, <3>2 DEF InteiroDepois, Crescem, TemConvite
  <2> QED
    BY <1>2, <1>4, <2>1, <2>2
<1>5. ASSUME NEW s \in Sincs, NEW r \in Sincs, sinc'[s].passo = "convidar",
             sinc'[r].passo = "convidar", sinc'[r].atual = sinc'[s].atual
      PROVE  r = s
  <2>1. CASE CriarUsuario(s)
    <3>1. CASE r # s
      <4>1. sinc[r].passo = "convidar" /\ sinc[r].atual = sinc[s].atual
        BY <1>2, <1>3, <1>5, <2>1, <3>1
      <4> QED
        BY <1>3, <2>1, <4>1 DEF IndCorreio, ConvidadoUmaVez
    <3> QED
      BY <3>1
  <2>2. CASE CriarUsuario(r)
    <3>1. CASE r # s
      <4>1. sinc[s].passo = "convidar" /\ sinc[s].atual = sinc[r].atual
        BY <1>2, <1>3, <1>5, <2>2, <3>1
      <4> QED
        BY <1>3, <2>2, <4>1 DEF IndCorreio, ConvidadoUmaVez
    <3> QED
      BY <3>1
  <2>3. CASE ~CriarUsuario(s) /\ ~CriarUsuario(r)
    BY <1>2, <1>5, <2>3 DEF IndCorreio, ConvidadoUmaVez
  <2> QED
    BY <2>1, <2>2, <2>3
<1>6. /\ chegada' \in Seq(Pessoas)
      /\ IsInjective(chegada')
      /\ \A i \in DOMAIN chegada' : convite'[chegada'[i]].status # "nenhum"
  <2>1. /\ chegada \in Seq(Pessoas) /\ Len(chegada) \in Nat
        /\ DOMAIN chegada = 1..Len(chegada)
        /\ \A i \in 1..Len(chegada) : chegada[i] \in Pessoas /\ TemConvite(chegada[i])
    BY LenProperties, ElementOfSeq DEF IndCorreio, TiposDoCorreio, ConvidadoUmaVez
  <2>2. CASE UNCHANGED chegada
    BY <1>0, <2>1, <2>2 DEF InteiroDepois, IndCorreio, ConvidadoUmaVez, TemConvite
  <2>3. ASSUME NEW s \in Sincs, Convidar(s)
        PROVE  /\ chegada' \in Seq(Pessoas)
               /\ IsInjective(chegada')
               /\ \A i \in DOMAIN chegada' : convite'[chegada'[i]].status # "nenhum"
    <3> DEFINE a == sinc[s].atual
    <3>1. a \in Pessoas /\ ~TemConvite(a) /\ chegada' = Append(chegada, a)
      BY <2>3, AoConvidar DEF Convidar
    <3>2. convite'[a].status # "nenhum"
      BY <2>3, <3>1 DEF Convidar, NaFila, IndCorreio, TiposDoCorreio
    <3>3. /\ chegada' \in Seq(Pessoas) /\ Len(chegada') = Len(chegada) + 1
          /\ DOMAIN chegada' = 1..Len(chegada)+1
          /\ \A i \in 1..Len(chegada) : chegada'[i] = chegada[i]
          /\ chegada'[Len(chegada)+1] = a
      BY <2>1, <3>1, AppendProperties, LenProperties
    <3>4. \A i \in 1..Len(chegada) : chegada[i] # a
      BY <2>1, <3>1
    <3> HIDE DEF a
    <3>5. IsInjective(chegada')
      BY <2>1, <3>3, <3>4 DEF IsInjective, IndCorreio, ConvidadoUmaVez
    <3>6. \A i \in DOMAIN chegada' : convite'[chegada'[i]].status # "nenhum"
      <4> SUFFICES ASSUME NEW i \in 1..Len(chegada)+1 PROVE convite'[chegada'[i]].status # "nenhum"
        BY <3>3
      <4>1. CASE i = Len(chegada) + 1
        BY <3>2, <3>3, <4>1 DEF a
      <4>2. CASE i \in 1..Len(chegada)
        BY <1>0, <2>1, <3>3, <4>2 DEF InteiroDepois, TemConvite
      <4> QED
        BY <2>1, <4>1, <4>2
    <3> QED
      BY <3>3, <3>5, <3>6
  <2>4. UNCHANGED chegada \/ \E s \in Sincs : Convidar(s)
    BY DEF Next, vars, base, Publicar, VirarDia, Sincronizar, PassoDoSinc,
           ProcurarUsuario, CriarUsuario, Relacionar, LinhaRejeitada, FalharLinha,
           SalvarMarca, IniciarEnvio, PassoDoEnvio, EnviarConvite, EnvioRecusado,
           AbortarEnvio, GravarEnvio, PedirReenvio, PassoDoReenvio, EnviarReenvio,
           FalharReenvio, GravarReenvio, ReenviarMensal, AbrirConvite,
           ConcluirCadastro, AtivarUsuario, Reiniciar
  <2> QED
    BY <2>2, <2>3, <2>4
<1> QED
  BY <1>1, <1>4, <1>5, <1>6 DEF ConvidadoUmaVez, TemConvite

\* Going on with the next invite.
LEMMA ProximoEscreve ==
    ASSUME IndCorreio, NEW t \in Envios, envio[t].passo # "fora", ProximoConvite(t)
    PROVE  /\ envio' \in [Envios -> Caixa]
           /\ \A u \in Envios \ {t} : envio'[u] = envio[u]
           /\ \/ Len(envio[t].lista) = 1 /\ envio'[t] = EnvioParado
              \/ /\ Len(envio[t].lista) # 1
                 /\ envio'[t].passo = "enviar" /\ envio'[t].lista = Tail(envio[t].lista)
<1>1. envio \in [Envios -> Caixa]
  BY DEF IndCorreio, TiposDoCorreio
<1>2. envio[t].lista \in Seq(Pessoas) /\ envio[t].lista # <<>>
  BY AoMandar
<1>3. Tail(envio[t].lista) \in Seq(Pessoas)
  BY <1>2, RestoDaFila
<1>4. EnvioParado \in Caixa
  BY EmptySeq DEF EnvioParado, Caixa
<1> DEFINE novo == [passo |-> "enviar", lista |-> Tail(envio[t].lista)]
<1>5. novo \in Caixa /\ novo.passo = "enviar" /\ novo.lista = Tail(envio[t].lista)
  BY <1>3 DEF Caixa
<1>6. envio' = [envio EXCEPT ![t] = IF Len(envio[t].lista) = 1 THEN EnvioParado ELSE novo]
  BY <1>1 DEF ProximoConvite
<1> HIDE DEF novo
<1> QED
  BY <1>1, <1>4, <1>5, <1>6

\* What each execution has left.
ListasDeConvites(e, c) ==
    /\ e \in [Envios -> Caixa]
    /\ \A t \in Envios : /\ e[t].passo # "fora" => e[t].lista # <<>>
                         /\ \A i \in DOMAIN e[t].lista : c[e[t].lista[i]].status # "nenhum"

\* The steps that mail.
PassosDeEnvio ==
    \/ UNCHANGED envio
    \/ \E t \in Envios : IniciarEnvio(t) \/ EnviarConvite(t) \/ AbortarEnvio(t)
    \/ \E t \in Envios : envio[t].passo # "fora" /\ ProximoConvite(t)
    \/ Reiniciar

LEMMA QuemMexeNosEnvios ==
    ASSUME [Next]_vars PROVE PassosDeEnvio
<1>1. ASSUME NEW t \in Envios, EnvioRecusado(t) \/ GravarEnvio(t)
      PROVE  envio[t].passo # "fora" /\ ProximoConvite(t)
  BY <1>1 DEF EnvioRecusado, GravarEnvio
<1> QED
  BY <1>1 DEF PassosDeEnvio, Next, vars, base, mundo, Publicar, VirarDia, Sincronizar, PassoDoSinc,
         ProcurarUsuario, CriarUsuario, Convidar, Relacionar, LinhaRejeitada, FalharLinha,
         SalvarMarca, PassoDoEnvio, PedirReenvio, PassoDoReenvio, EnviarReenvio,
         FalharReenvio, GravarReenvio, ReenviarMensal, AbrirConvite,
         ConcluirCadastro, AtivarUsuario

\* Who starts takes the first of those that are queued, as many as the day
\* still allows.
LEMMA IniciarEscreve ==
    ASSUME IndCorreio, NEW t \in Envios, IniciarEnvio(t)
    PROVE  /\ envio' \in [Envios -> Caixa]
           /\ \A u \in Envios \ {t} : envio'[u] = envio[u]
           /\ envio'[t].passo = "enviar" /\ envio'[t].lista # <<>>
           /\ Fila(envio'[t].lista, Len(chegada))
           /\ Restante \in Nat /\ Len(envio'[t].lista) <= Restante
<1>1. envio \in [Envios -> Caixa] /\ chegada \in Seq(Pessoas) /\ IsInjective(chegada)
  BY DEF IndCorreio, TiposDoCorreio, ConvidadoUmaVez
<1>2. Fila(Unsent, Len(chegada))
  BY <1>1, UnsentEhFila
<1>3. Unsent \in Seq(Pessoas) /\ Len(Unsent) \in Nat \ {0}
  BY <1>2, EmptySeq DEF Fila, IniciarEnvio
<1>4. Restante \in Nat \ {0}
  <2> DEFINE E == {a \in Pessoas : convite[a].hoje}
  <2>1. Cardinality(E) \in Nat
    <3>1. IsFiniteSet(E)
      BY ConvitesAssumption, FS_Subset
    <3> QED
      BY <3>1, FS_CardinalityType
  <2> HIDE DEF E
  <2>2. Restante = IF Cardinality(E) > Quota THEN 0 ELSE Quota - Cardinality(E)
    BY DEF Restante, E
  <2>3. Quota \in Nat
    BY ConvitesAssumption
  <2> QED
    BY <2>1, <2>2, <2>3 DEF IniciarEnvio
<1> DEFINE n == IF Restante < Len(Unsent) THEN Restante ELSE Len(Unsent)
           r == SubSeq(Unsent, 1, n)
<1>5. n \in Nat \ {0} /\ n <= Len(Unsent) /\ n <= Restante
  BY <1>3, <1>4
<1> HIDE DEF n
<1>6. Fila(r, Len(chegada)) /\ Len(r) = n
  BY <1>2, <1>5, InicioDaFila
<1>7. r \in Seq(Pessoas) /\ r # <<>>
  BY <1>5, <1>6, EmptySeq DEF Fila
<1>8. envio' = [envio EXCEPT ![t] = [passo |-> "enviar", lista |-> r]]
  BY DEF IniciarEnvio, n
<1> HIDE DEF r
<1>9. [passo |-> "enviar", lista |-> r] \in Caixa
  BY <1>7 DEF Caixa
<1>10. envio'[t] = [passo |-> "enviar", lista |-> r]
  BY <1>1, <1>8
<1> QED
  BY <1>1, <1>4, <1>5, <1>6, <1>7, <1>8, <1>9, <1>10

LEMMA ListasMantidas ==
    ASSUME IndCorreio, [Next]_vars PROVE ListasDeConvites(envio', convite')
<1>1. ListasDeConvites(envio, convite)
  BY DEF ListasDeConvites, IndCorreio, TiposDoCorreio, CorreioDeConvites, TemConvite
<1>2. \A a \in Pessoas : convite[a].status # "nenhum" => convite'[a].status # "nenhum"
  BY InteiroMantido DEF InteiroDepois, TemConvite
<1>3. ASSUME NEW q \in Seq(Pessoas), NEW i \in DOMAIN q PROVE q[i] \in Pessoas
  BY LenProperties, ElementOfSeq
<1>4. \A t \in Envios : envio[t].lista \in Seq(Pessoas)
  BY <1>1 DEF ListasDeConvites, Caixa
<1>5. CASE UNCHANGED envio
  BY <1>1, <1>2, <1>3, <1>4, <1>5 DEF ListasDeConvites
<1>6. EnvioParado \in Caixa /\ EnvioParado.passo = "fora" /\ DOMAIN EnvioParado.lista = {}
  BY EmptySeq DEF EnvioParado, Caixa
<1>7. ASSUME NEW t \in Envios,
             envio' \in [Envios -> Caixa], \A u \in Envios \ {t} : envio'[u] = envio[u],
             envio'[t].passo # "fora" => envio'[t].lista # <<>>,
             \A i \in DOMAIN envio'[t].lista : convite'[envio'[t].lista[i]].status # "nenhum"
      PROVE  ListasDeConvites(envio', convite')
  BY <1>1, <1>2, <1>3, <1>4, <1>7 DEF ListasDeConvites
<1>8. ASSUME NEW t \in Envios, IniciarEnvio(t) PROVE ListasDeConvites(envio', convite')
  <2>1. UNCHANGED convite /\ convite \in [Pessoas -> Convite]
    BY <1>8 DEF IniciarEnvio, base, IndCorreio, TiposDoCorreio
  <2>2. \A i \in DOMAIN envio'[t].lista : convite'[envio'[t].lista[i]].status # "nenhum"
    BY <1>8, <2>1, IniciarEscreve DEF Fila, NaFilaDe
  <2> QED
    BY <1>7, <1>8, <2>2, IniciarEscreve
<1>9. ASSUME NEW t \in Envios, EnviarConvite(t) PROVE ListasDeConvites(envio', convite')
  <2>1. envio'[t].lista = envio[t].lista /\ envio' \in [Envios -> Caixa]
    BY <1>1, <1>9 DEF EnviarConvite, ListasDeConvites, Caixa
  <2>2. \A u \in Envios \ {t} : envio'[u] = envio[u]
    BY <1>1, <1>9 DEF EnviarConvite, ListasDeConvites
  <2>3. envio[t].passo # "fora"
    BY <1>9 DEF EnviarConvite
  <2>4. \A i \in DOMAIN envio[t].lista : convite'[envio[t].lista[i]].status # "nenhum"
    BY <1>1, <1>2, <1>3, <1>4 DEF ListasDeConvites
  <2> QED
    BY <1>1, <1>7, <2>1, <2>2, <2>3, <2>4 DEF ListasDeConvites
<1>10. ASSUME NEW t \in Envios, AbortarEnvio(t) PROVE ListasDeConvites(envio', convite')
  <2>1. envio' = [envio EXCEPT ![t] = EnvioParado]
    BY <1>10 DEF AbortarEnvio
  <2> QED
    BY <1>1, <1>6, <1>7, <2>1 DEF ListasDeConvites
<1>11. ASSUME NEW t \in Envios, envio[t].passo # "fora", ProximoConvite(t)
       PROVE  ListasDeConvites(envio', convite')
  <2>1. envio[t].lista \in Seq(Pessoas) /\ envio[t].lista # <<>>
    BY <1>11, AoMandar
  <2>2. CASE Len(envio[t].lista) = 1
    BY <1>6, <1>7, <1>11, <2>2, ProximoEscreve
  <2>3. CASE Len(envio[t].lista) # 1
    <3>1. \A i \in DOMAIN Tail(envio[t].lista) :
             i + 1 \in DOMAIN envio[t].lista /\ Tail(envio[t].lista)[i] = envio[t].lista[i+1]
      BY <2>1, RestoDaFila
    <3>2. \A i \in DOMAIN Tail(envio[t].lista) :
             convite'[Tail(envio[t].lista)[i]].status # "nenhum"
      BY <1>1, <1>2, <1>3, <1>4, <3>1 DEF ListasDeConvites
    <3>3. Tail(envio[t].lista) # <<>>
      BY <2>1, <2>3, RestoDaFila
    <3> QED
      BY <1>7, <1>11, <2>3, <3>2, <3>3, ProximoEscreve
  <2> QED
    BY <2>2, <2>3
<1>12. CASE Reiniciar
  BY <1>6, <1>12 DEF Reiniciar, ListasDeConvites
<1> QED
  BY <1>5, <1>8, <1>9, <1>10, <1>11, <1>12, QuemMexeNosEnvios DEF PassosDeEnvio

\* The steps of a resend.
LEMMA QuemMexeNoReenvio ==
    ASSUME [Next]_vars
    PROVE  \/ UNCHANGED reenvio \/ reenvio' = ReenvioParado \/ EnviarReenvio
           \/ \E a \in Pessoas : PedirReenvio(a)
BY DEF Next, vars, base, mundo, Publicar, VirarDia, Sincronizar, PassoDoSinc,
       ProcurarUsuario, CriarUsuario, Convidar, Relacionar, LinhaRejeitada,
       FalharLinha, SalvarMarca, IniciarEnvio, PassoDoEnvio, EnviarConvite,
       EnvioRecusado, AbortarEnvio, GravarEnvio, PassoDoReenvio, FalharReenvio,
       GravarReenvio, ReenviarMensal, AbrirConvite, ConcluirCadastro, AtivarUsuario,
       Reiniciar

\* The resend is of an invite, and so is every mail.
LEMMA ReenvioMantido ==
    ASSUME IndCorreio, [Next]_vars
    PROVE  /\ reenvio' \in Reenvio
           /\ reenvio'.passo # "fora" =>
                 /\ reenvio'.pessoa \in Pessoas /\ TemConvite(reenvio.pessoa)'
                 /\ reenvio'.convite.status # "nenhum" /\ reenvio'.convite.geracao > 0
<1>1. reenvio \in Reenvio /\ convite \in [Pessoas -> Convite]
  BY DEF IndCorreio, TiposDoCorreio
<1>2. \A a \in Pessoas : TemConvite(a) => convite'[a].status # "nenhum"
  BY InteiroMantido DEF InteiroDepois, TemConvite
<1>3. \/ UNCHANGED reenvio \/ reenvio' = ReenvioParado \/ EnviarReenvio
      \/ \E a \in Pessoas : PedirReenvio(a)
  BY QuemMexeNoReenvio
<1>4. CASE UNCHANGED reenvio
  BY <1>1, <1>2, <1>4 DEF IndCorreio, CorreioDeConvites, TemConvite
<1>5. CASE reenvio' = ReenvioParado
  BY <1>5 DEF ReenvioParado, SemConvite, Reenvio, Convite
<1>6. CASE EnviarReenvio
  <2>1. /\ reenvio' \in Reenvio /\ reenvio'.pessoa = reenvio.pessoa
        /\ reenvio'.convite = reenvio.convite
    BY <1>1, <1>6 DEF EnviarReenvio, Reenvio
  <2>2. reenvio.passo # "fora"
    BY <1>6 DEF EnviarReenvio
  <2> QED
    BY <1>2, <2>1, <2>2 DEF IndCorreio, CorreioDeConvites, TemConvite
<1>7. ASSUME NEW a \in Pessoas, PedirReenvio(a)
      PROVE  /\ reenvio' \in Reenvio
             /\ reenvio'.pessoa = a /\ convite'[a].status # "nenhum"
             /\ reenvio'.convite.status # "nenhum" /\ reenvio'.convite.geracao > 0
  BY <1>1, <1>2, <1>7 DEF PedirReenvio, Reenvio, IndCorreio, ConviteInteiro, TemConvite
<1> QED
  BY <1>3, <1>4, <1>5, <1>6, <1>7 DEF TemConvite

LEMMA RecebidoMantido ==
    ASSUME IndCorreio, [Next]_vars
    PROVE  /\ recebido' \subseteq Pessoas \X (Nat \ {0})
           /\ \A m \in recebido' : convite'[m[1]].status # "nenhum"
           /\ correio' \in Nat
<1>1. recebido \subseteq Pessoas \X (Nat \ {0}) /\ correio \in Nat
  BY DEF IndCorreio, TiposDoCorreio
<1>2. \A a \in Pessoas : TemConvite(a) => convite'[a].status # "nenhum"
  BY InteiroMantido DEF InteiroDepois, TemConvite
<1>3. \A m \in recebido : convite'[m[1]].status # "nenhum"
  BY <1>1, <1>2 DEF IndCorreio, CorreioDeConvites
<1>4. ASSUME NEW a \in Pessoas, NEW g \in Nat \ {0}, TemConvite(a),
             recebido' = recebido \cup {<<a, g>>}
      PROVE  /\ recebido' \subseteq Pessoas \X (Nat \ {0})
             /\ \A m \in recebido' : convite'[m[1]].status # "nenhum"
  BY <1>1, <1>2, <1>3, <1>4
<1>5. ASSUME NEW t \in Envios, EnviarConvite(t)
      PROVE  /\ recebido' \subseteq Pessoas \X (Nat \ {0})
             /\ \A m \in recebido' : convite'[m[1]].status # "nenhum"
  <2>1. PICK a : a = Head(envio[t].lista)
    OBVIOUS
  <2>2. a \in Pessoas /\ TemConvite(a) /\ recebido' = recebido \cup {<<a, 1>>}
    BY <1>5, <2>1, AoMandar DEF EnviarConvite
  <2>3. 1 \in Nat \ {0}
    OBVIOUS
  <2> QED
    BY <1>4, <2>2, <2>3
<1>6. CASE EnviarReenvio
  <2>1. reenvio.pessoa \in Pessoas /\ TemConvite(reenvio.pessoa)
    BY <1>6 DEF EnviarReenvio, IndCorreio, CorreioDeConvites
  <2>2. GeracaoReenviada \in Nat \ {0}
    BY <1>6 DEF EnviarReenvio, GeracaoReenviada, IndCorreio, TiposDoCorreio,
                CorreioDeConvites, Reenvio, Convite
  <2> QED
    BY <1>4, <1>1, <1>6, <2>1, <2>2 DEF EnviarReenvio
<1>7. ASSUME NEW a \in Pessoas, ReenviarMensal(a)
      PROVE  \E g \in Nat \ {0} : TemConvite(a) /\ recebido' = recebido \cup {<<a, g>>}
  <2>1. TemConvite(a) /\ convite[a].geracao \in Nat \ {0}
    BY <1>7 DEF ReenviarMensal, TemConvite, IndCorreio, TiposDoCorreio, ConviteInteiro, Convite
  <2> QED
    BY <1>7, <2>1 DEF ReenviarMensal
<1>8. correio' \in {correio, correio + 1, 0}
  BY DEF Next, vars, base, mundo, Publicar, VirarDia, Sincronizar, PassoDoSinc,
         ProcurarUsuario, CriarUsuario, Convidar, Relacionar, LinhaRejeitada,
         FalharLinha, SalvarMarca, IniciarEnvio, PassoDoEnvio, EnviarConvite,
         EnvioRecusado, AbortarEnvio, GravarEnvio, PedirReenvio, PassoDoReenvio,
         EnviarReenvio, FalharReenvio, GravarReenvio, ReenviarMensal, AbrirConvite,
         ConcluirCadastro, AtivarUsuario, Reiniciar
<1>9. \/ UNCHANGED recebido \/ EnviarReenvio
      \/ \E t \in Envios : EnviarConvite(t)
      \/ \E a \in Pessoas : ReenviarMensal(a)
  BY DEF Next, vars, base, mundo, Publicar, VirarDia, Sincronizar, PassoDoSinc,
         ProcurarUsuario, CriarUsuario, Convidar, Relacionar, LinhaRejeitada,
         FalharLinha, SalvarMarca, IniciarEnvio, PassoDoEnvio,
         EnvioRecusado, AbortarEnvio, GravarEnvio, PedirReenvio, PassoDoReenvio,
         FalharReenvio, GravarReenvio, AbrirConvite, ConcluirCadastro, AtivarUsuario,
         Reiniciar
<1>10. /\ recebido' \subseteq Pessoas \X (Nat \ {0})
       /\ \A m \in recebido' : convite'[m[1]].status # "nenhum"
  BY <1>1, <1>3, <1>4, <1>5, <1>6, <1>7, <1>9
<1> QED
  BY <1>1, <1>8, <1>10

LEMMA IndCorreioMantido ==
    ASSUME IndCorreio, [Next]_vars PROVE IndCorreio'
<1>1. InteiroDepois /\ TiposDoSinc'
  BY InteiroMantido, TiposMantidos DEF IndCorreio, TiposDoCorreio
<1>2. ListasDeConvites(envio', convite')
  BY ListasMantidas
<1>3. TiposDoCorreio'
  BY <1>1, <1>2, ConvidadoMantido, RecebidoMantido, ReenvioMantido
     DEF TiposDoCorreio, InteiroDepois, ListasDeConvites
<1>4. CorreioDeConvites'
  BY <1>2, RecebidoMantido, ReenvioMantido DEF CorreioDeConvites, ListasDeConvites, TemConvite
<1> QED
  BY <1>1, <1>3, <1>4, ConvidadoMantido DEF IndCorreio, InteiroDepois

LEMMA IndCorreioInicial == ASSUME Init PROVE IndCorreio
<1>1. TiposDoSinc
  BY IndSincInicial DEF IndSinc
<1>2. /\ chegada \in Seq(Pessoas) /\ IsInjective(chegada)
      /\ \A i \in DOMAIN chegada : chegada[i] \in Vanzeiros
  <2>1. Vanzeiros \subseteq Pessoas /\ chegada \in Seq(Vanzeiros) /\ IsInjective(chegada)
    BY ConvitesAssumption, ChegadaInicial DEF Init
  <2> QED
    BY <2>1, SeqMonotonic, ElementOfSeq, LenProperties
<1>3. Vanzeiros \subseteq Pessoas
  BY ConvitesAssumption
<1>4. TiposDoCorreio
  BY <1>1, <1>2, EmptySeq DEF Init, TiposDoCorreio, NaFila, SemConvite, ReenvioParado,
     EnvioParado, Caixa, Convite, Reenvio
<1>5. ConviteInteiro
  BY DEF Init, ConviteInteiro, TemConvite, NaFila, SemConvite
<1>6. ConvidadoUmaVez
  BY <1>2, <1>3 DEF Init, ConvidadoUmaVez, TemConvite, NaFila, SemConvite, SincParado
<1>7. CorreioDeConvites
  BY DEF Init, CorreioDeConvites, TemConvite, EnvioParado, ReenvioParado
<1> QED
  BY <1>4, <1>5, <1>6, <1>7 DEF IndCorreio

\* What a step makes of the invite of who has one: the same status; "used",
\* by who was mailed it; "sent", by the update after the mail; or what a
\* resend writes.
OMesmo(a) ==
    convite'[a].status = convite[a].status /\ convite'[a].geracao = convite[a].geracao
Usado(a) ==
    /\ AbrirConvite(a) \/ ConcluirCadastro(a)
    /\ convite[a].status \in {"sent", "used"}
    /\ convite'[a].status = "used" /\ convite'[a].geracao = convite[a].geracao
    /\ convite'[a].hoje = convite[a].hoje
Gravado(a) ==
    /\ \E t \in Envios : GravarEnvio(t) /\ Head(envio[t].lista) = a
    /\ convite'[a].status = "sent" /\ convite'[a].geracao = convite[a].geracao
Reenviado(a) ==
    /\ GravarReenvio /\ reenvio.pessoa = a
    /\ convite'[a].geracao = GeracaoReenviada
    /\ convite'[a].status = IF reenvio.ativo \/ reenvio.convite.status = "queued" THEN "sent"
                            ELSE reenvio.convite.status

LEMMA ConviteDepois ==
    ASSUME IndCorreio, [Next]_vars, NEW a \in Pessoas, TemConvite(a)
    PROVE  OMesmo(a) \/ Usado(a) \/ Gravado(a) \/ Reenviado(a)
<1>0. convite \in [Pessoas -> Convite] /\ convite[a] \in Convite
  BY DEF IndCorreio, TiposDoCorreio
<1>1. CASE UNCHANGED convite
  BY <1>1 DEF OMesmo
<1>2. CASE VirarDia
  BY <1>0, <1>2 DEF VirarDia, OMesmo, Convite
<1>3. ASSUME NEW s \in Sincs, Convidar(s) PROVE OMesmo(a)
  <2>1. sinc[s].atual # a /\ convite' = [convite EXCEPT ![sinc[s].atual] = NaFila]
    BY <1>3, AoConvidar DEF Convidar
  <2> QED
    BY <1>0, <2>1 DEF OMesmo
<1>4. ASSUME NEW t \in Envios, EnvioRecusado(t) PROVE OMesmo(a)
  <2>1. PICK b : b = Head(envio[t].lista)
    OBVIOUS
  <2>2. Escrever(b, convite[b].status, FALSE)
    BY <1>4, <2>1 DEF EnvioRecusado
  <2>3. CASE convite[b].geracao # 1
    BY <2>2, <2>3 DEF Escrever, OMesmo
  <2>4. CASE convite[b].geracao = 1
    <3>1. convite' = [convite EXCEPT ![b].status = convite[b].status, ![b].hoje = FALSE]
      BY <2>2, <2>4 DEF Escrever
    <3> QED
      BY <1>0, <3>1 DEF OMesmo, Convite
  <2> QED
    BY <2>3, <2>4
<1>5. ASSUME NEW t \in Envios, GravarEnvio(t) PROVE OMesmo(a) \/ Gravado(a)
  <2>1. PICK b : b = Head(envio[t].lista)
    OBVIOUS
  <2>2. Escrever(b, "sent", TRUE)
    BY <1>5, <2>1 DEF GravarEnvio
  <2>3. CASE convite[b].geracao # 1
    BY <2>2, <2>3 DEF Escrever, OMesmo
  <2>4. CASE convite[b].geracao = 1
    <3>1. convite' = [convite EXCEPT ![b].status = "sent", ![b].hoje = TRUE]
      BY <2>2, <2>4 DEF Escrever
    <3>2. CASE b # a
      BY <1>0, <3>1, <3>2 DEF OMesmo
    <3>3. CASE b = a
      BY <1>0, <1>5, <2>1, <3>1, <3>3 DEF Gravado, Convite
    <3> QED
      BY <3>2, <3>3
  <2> QED
    BY <2>3, <2>4
<1>6. CASE GravarReenvio
  BY <1>0, <1>6 DEF GravarReenvio, OMesmo, Reenviado
<1>7. ASSUME NEW b \in Pessoas, ReenviarMensal(b) PROVE OMesmo(a)
  BY <1>0, <1>7 DEF ReenviarMensal, OMesmo, Convite
<1>8. ASSUME NEW b \in Pessoas, AbrirConvite(b) \/ ConcluirCadastro(b)
      PROVE  OMesmo(a) \/ Usado(a)
  <2>1. /\ convite' = [convite EXCEPT ![b].status = "used"]
        /\ convite[b].status \in {"sent", "used"}
    BY <1>8 DEF AbrirConvite, ConcluirCadastro, Usavel, Aceito
  <2>2. CASE b # a
    BY <1>0, <2>1, <2>2 DEF OMesmo
  <2>3. CASE b = a
    <3>1. /\ convite'[a].status = "used" /\ convite'[a].geracao = convite[a].geracao
          /\ convite'[a].hoje = convite[a].hoje
      BY <1>0, <2>1, <2>3 DEF Convite
    <3> QED
      BY <1>8, <2>1, <2>3, <3>1 DEF Usado
  <2> QED
    BY <2>2, <2>3
<1> QED
  BY <1>1, <1>2, <1>3, <1>4, <1>5, <1>6, <1>7, <1>8, QuemEscreveConvite DEF PassosDeConvite

\* Who has none was mailed none.
LEMMA SemConviteNaoRecebeu ==
    ASSUME IndCorreio, NEW a \in Pessoas, ~TemConvite(a), NEW g
    PROVE  <<a, g>> \notin recebido
<1>1. ASSUME <<a, g>> \in recebido PROVE TemConvite(<<a, g>>[1])
  BY <1>1 DEF IndCorreio, CorreioDeConvites
<1> QED
  BY <1>1

-----------------------------------------------------------------------------
(* Whoever was mailed an invite can use it.                                *)

NoRegistro(a) ==
    \/ convite[a].status \in {"sent", "used"}
    \/ \E t \in Envios : envio[t].passo = "gravar" /\ Head(envio[t].lista) = a
    \/ reenvio.passo = "gravar" /\ reenvio.pessoa = a

\* What was mailed is on record, or about to be.
RecebidoNoRegistro == \A a \in Pessoas : Recebeu(a) => NoRegistro(a)

\* An execution between a mail and its update goes on to the update.
LEMMA GravaDepois ==
    ASSUME "perderGravacao" \notin Riscos, IndCorreio, [Next]_vars,
           NEW t \in Envios, envio[t].passo = "gravar"
    PROVE  envio'[t] = envio[t] \/ GravarEnvio(t)
<1>1. envio \in [Envios -> Caixa]
  BY DEF IndCorreio, TiposDoCorreio
<1>2. ~Reiniciar
  BY DEF Reiniciar
<1>3. ASSUME NEW u \in Envios, u # t,
             IniciarEnvio(u) \/ EnviarConvite(u) \/ AbortarEnvio(u) \/ ProximoConvite(u)
      PROVE  envio'[t] = envio[t]
  BY <1>1, <1>3 DEF IniciarEnvio, EnviarConvite, AbortarEnvio, ProximoConvite
<1>4. ~IniciarEnvio(t) /\ ~EnviarConvite(t) /\ ~AbortarEnvio(t) /\ ~EnvioRecusado(t)
  BY DEF IniciarEnvio, EnviarConvite, AbortarEnvio, EnvioRecusado
<1>5. \/ UNCHANGED envio \/ GravarEnvio(t)
      \/ \E u \in Envios \ {t} : \/ IniciarEnvio(u) \/ EnviarConvite(u) \/ AbortarEnvio(u)
                                \/ ProximoConvite(u)
  <2>1. \/ UNCHANGED envio
        \/ \E u \in Envios : IniciarEnvio(u) \/ PassoDoEnvio(u)
    BY <1>2 DEF Next, vars, base, mundo, Publicar, VirarDia, Sincronizar, PassoDoSinc,
       ProcurarUsuario, CriarUsuario, Convidar, Relacionar, LinhaRejeitada, FalharLinha,
       SalvarMarca, PedirReenvio, PassoDoReenvio, EnviarReenvio, FalharReenvio,
       GravarReenvio, ReenviarMensal, AbrirConvite, ConcluirCadastro, AtivarUsuario
  <2>2. ASSUME NEW u \in Envios, EnvioRecusado(u) \/ GravarEnvio(u) PROVE ProximoConvite(u)
    BY <2>2 DEF EnvioRecusado, GravarEnvio
  <2> QED
    BY <1>4, <2>1, <2>2 DEF PassoDoEnvio
<1> QED
  BY <1>3, <1>5

LEMMA ReenvioGravaDepois ==
    ASSUME "perderGravacao" \notin Riscos, [Next]_vars, reenvio.passo = "gravar"
    PROVE  UNCHANGED reenvio \/ GravarReenvio
BY DEF Next, vars, base, mundo, Publicar, VirarDia, Sincronizar, PassoDoSinc,
       ProcurarUsuario, CriarUsuario, Convidar, Relacionar, LinhaRejeitada,
       FalharLinha, SalvarMarca, IniciarEnvio, PassoDoEnvio, EnviarConvite,
       EnvioRecusado, AbortarEnvio, GravarEnvio, PedirReenvio, SemReenvio, PassoDoReenvio,
       EnviarReenvio, FalharReenvio, ReenviarMensal, AbrirConvite,
       ConcluirCadastro, AtivarUsuario, Reiniciar

LEMMA RegistroMantido ==
    ASSUME "perderGravacao" \notin Riscos, IndCorreio, RecebidoNoRegistro, [Next]_vars
    PROVE  RecebidoNoRegistro'
<1> SUFFICES ASSUME NEW a \in Pessoas, <<a, convite'[a].geracao>> \in recebido'
             PROVE  NoRegistro(a)'
  BY DEF RecebidoNoRegistro, Recebeu
<1>0. /\ convite \in [Pessoas -> Convite] /\ envio \in [Envios -> Caixa]
      /\ reenvio \in Reenvio
  BY DEF IndCorreio, TiposDoCorreio
<1>1. CASE \E t \in Envios : EnviarConvite(t) /\ Head(envio[t].lista) = a
  <2>1. PICK t \in Envios : EnviarConvite(t) /\ Head(envio[t].lista) = a
    BY <1>1
  <2>2. envio'[t].passo = "gravar" /\ envio'[t].lista = envio[t].lista
    BY <1>0, <2>1 DEF EnviarConvite, Caixa
  <2> QED
    BY <2>1, <2>2 DEF NoRegistro
<1>2. CASE EnviarReenvio /\ reenvio.pessoa = a
  BY <1>0, <1>2 DEF EnviarReenvio, NoRegistro, Reenvio
<1>3. CASE ReenviarMensal(a)
  BY <1>0, <1>3 DEF ReenviarMensal, NoRegistro, Convite
<1>4. CASE <<a, convite'[a].geracao>> \in recebido
  <2>1. TemConvite(a)
    BY <1>4, SemConviteNaoRecebeu
  <2>2. CASE convite[a].status \in {"sent", "used"}
    <3>1. CASE Reenviado(a)
      BY <1>0, <3>1 DEF Reenviado, NoRegistro, GravarReenvio, IndCorreio,
                        CorreioDeConvites, Reenvio, Convite
    <3> QED
      BY <2>1, <2>2, <3>1, ConviteDepois DEF OMesmo, Usado, Gravado, NoRegistro
  <2>3. CASE \E t \in Envios : envio[t].passo = "gravar" /\ Head(envio[t].lista) = a
    <3>1. PICK t \in Envios : envio[t].passo = "gravar" /\ Head(envio[t].lista) = a
      BY <2>3
    <3>2. CASE envio'[t] = envio[t]
      BY <3>1, <3>2 DEF NoRegistro
    <3>3. CASE GravarEnvio(t)
      <4>1. CASE convite[a].geracao = 1
        BY <1>0, <3>1, <3>3, <4>1 DEF GravarEnvio, Escrever, NoRegistro, Convite
      <4>2. CASE convite[a].geracao # 1
        <5>1. convite[a].status \in {"sent", "used"}
          BY <1>0, <2>1, <4>2 DEF IndCorreio, ConviteInteiro, TemConvite, Convite
        <5> QED
          BY <3>1, <3>3, <4>2, <5>1 DEF GravarEnvio, Escrever, NoRegistro
      <4> QED
        BY <4>1, <4>2
    <3> QED
      BY <3>1, <3>2, <3>3, GravaDepois
  <2>4. CASE reenvio.passo = "gravar" /\ reenvio.pessoa = a
    <3>1. CASE UNCHANGED reenvio
      BY <2>4, <3>1 DEF NoRegistro
    <3>2. CASE GravarReenvio
      <4>1. convite'[a].status = IF reenvio.ativo \/ reenvio.convite.status = "queued" THEN "sent"
                                 ELSE reenvio.convite.status
        BY <1>0, <2>4, <3>2 DEF GravarReenvio
      <4> QED
        BY <1>0, <2>4, <4>1 DEF NoRegistro, IndCorreio, CorreioDeConvites, Reenvio, Convite
    <3> QED
      BY <2>4, <3>1, <3>2, ReenvioGravaDepois
  <2>5. CASE Reenviado(a)
    BY <1>0, <2>5 DEF Reenviado, NoRegistro, GravarReenvio, IndCorreio,
                      CorreioDeConvites, Reenvio, Convite
  <2>6. CASE convite'[a].geracao = convite[a].geracao
    <3>1. NoRegistro(a)
      BY <1>4, <2>6 DEF RecebidoNoRegistro, Recebeu
    <3> QED
      BY <2>2, <2>3, <2>4, <3>1 DEF NoRegistro
  <2> QED
    BY <2>1, <2>5, <2>6, ConviteDepois DEF OMesmo, Usado, Gravado
<1>5. \/ recebido' = recebido
      \/ \E t \in Envios :
            EnviarConvite(t) /\ recebido' = recebido \cup {<<Head(envio[t].lista), 1>>}
      \/ EnviarReenvio /\ recebido' = recebido \cup {<<reenvio.pessoa, GeracaoReenviada>>}
      \/ \E b \in Pessoas :
            ReenviarMensal(b) /\ recebido' = recebido \cup {<<b, convite[b].geracao>>}
  <2>1. \/ UNCHANGED recebido \/ EnviarReenvio
        \/ \E t \in Envios : EnviarConvite(t)
        \/ \E b \in Pessoas : ReenviarMensal(b)
    BY DEF Next, vars, base, mundo, Publicar, VirarDia, Sincronizar, PassoDoSinc,
         ProcurarUsuario, CriarUsuario, Convidar, Relacionar, LinhaRejeitada,
         FalharLinha, SalvarMarca, IniciarEnvio, PassoDoEnvio,
         EnvioRecusado, AbortarEnvio, GravarEnvio, PedirReenvio, PassoDoReenvio,
         FalharReenvio, GravarReenvio, AbrirConvite, ConcluirCadastro, AtivarUsuario,
         Reiniciar
  <2> QED
    BY <2>1 DEF EnviarConvite, EnviarReenvio, ReenviarMensal
<1> QED
  BY <1>1, <1>2, <1>3, <1>4, <1>5

\* Who received the invite the base has, and is not registered, can conclude
\* the registration with it (and is shown the profile, but for who lacks a
\* permit code or a name), with any number of executions that mail at once,
\* whatever they read before they mailed, if the write that follows a mail is
\* not lost: the mail leaves before the invite says so.
THEOREM RecebeuPodeConcluirSempre ==
    ASSUME "perderGravacao" \notin Riscos PROVE Spec => []RecebeuPodeConcluir
<1> DEFINE Inv == IndCorreio /\ RecebidoNoRegistro
<1>1. Init => Inv
  <2>1. Init => RecebidoNoRegistro
    BY DEF Init, RecebidoNoRegistro, Recebeu
  <2> QED
    BY <2>1, IndCorreioInicial
<1>2. Inv /\ [Next]_vars => Inv'
  BY IndCorreioMantido, RegistroMantido
<1>3. Inv => RecebeuPodeConcluir
  BY DEF RecebidoNoRegistro, NoRegistro, RecebeuPodeConcluir, Aceito, PerfilMostrado
<1> QED
  BY <1>1, <1>2, <1>3, PTL DEF Spec

-----------------------------------------------------------------------------
(* One execution that mails at a time.                                     *)

\* What it has left is still queued, each once.
UmCarteiro ==
    /\ \A t, u \in Envios : envio[t].passo # "fora" /\ envio[u].passo # "fora" => t = u
    /\ \A t \in Envios : envio[t].passo # "fora" =>
           /\ SemReenvio
           /\ IsInjective(envio[t].lista)
           /\ \A i \in DOMAIN envio[t].lista : convite[envio[t].lista[i]].status = "queued"

\* The invite that is mailed again is as it was read.
ReenvioFiel ==
    ~SemReenvio => /\ convite[reenvio.pessoa].status = reenvio.convite.status
                   /\ convite[reenvio.pessoa].geracao = reenvio.convite.geracao

\* What an execution that mails does to its list.
Passa(t) ==
    \/ envio'[t].passo = "fora"
    \/ /\ IniciarEnvio(t) /\ envio'[t].lista # <<>>
       /\ Fila(envio'[t].lista, Len(chegada))
    \/ envio[t].passo # "fora" /\ envio'[t].lista = envio[t].lista /\ ~GravarEnvio(t)
    \/ /\ envio[t].passo # "fora" /\ Len(envio[t].lista) # 1
       /\ envio'[t].lista = Tail(envio[t].lista)

LEMMA EnvioDepois ==
    ASSUME IndCorreio, [Next]_vars, NEW t \in Envios PROVE Passa(t)
<1>0. envio \in [Envios -> Caixa]
  BY DEF IndCorreio, TiposDoCorreio
<1>1. EnvioParado.passo = "fora"
  BY DEF EnvioParado
<1>2. CASE Reiniciar
  BY <1>1, <1>2 DEF Reiniciar, Passa
<1>3. CASE IniciarEnvio(t)
  BY <1>3, IniciarEscreve DEF Passa
<1>4. CASE EnviarConvite(t)
  <2>1. envio'[t].lista = envio[t].lista
    BY <1>0, <1>4 DEF EnviarConvite, Caixa
  <2>2. envio[t].passo # "fora" /\ ~GravarEnvio(t)
    BY <1>4 DEF EnviarConvite, GravarEnvio
  <2> QED
    BY <2>1, <2>2 DEF Passa
<1>5. CASE AbortarEnvio(t)
  BY <1>0, <1>1, <1>5 DEF AbortarEnvio, Passa
<1>6. CASE envio[t].passo # "fora" /\ ProximoConvite(t)
  BY <1>1, <1>6, ProximoEscreve DEF Passa
<1>7. CASE envio'[t] = envio[t] /\ ~GravarEnvio(t)
  BY <1>7 DEF Passa
<1>8. ASSUME GravarEnvio(t) PROVE envio[t].passo # "fora" /\ ProximoConvite(t)
  BY <1>8 DEF GravarEnvio
<1>9. ASSUME NEW u \in Envios, u # t,
             \/ IniciarEnvio(u) \/ EnviarConvite(u) \/ AbortarEnvio(u)
             \/ envio[u].passo # "fora" /\ ProximoConvite(u)
      PROVE  envio'[t] = envio[t]
  BY <1>0, <1>9 DEF IniciarEnvio, EnviarConvite, AbortarEnvio, ProximoConvite
<1> QED
  BY <1>2, <1>3, <1>4, <1>5, <1>6, <1>7, <1>8, <1>9, QuemMexeNosEnvios DEF PassosDeEnvio

\* Who is in the list of an execution has an invite.
LEMMA DaLista ==
    ASSUME IndCorreio, NEW t \in Envios, NEW i \in DOMAIN envio[t].lista
    PROVE  envio[t].lista[i] \in Pessoas /\ TemConvite(envio[t].lista[i])
<1>1. envio[t].lista \in Seq(Pessoas)
  BY DEF IndCorreio, TiposDoCorreio, Caixa
<1> QED
  BY <1>1, LenProperties, ElementOfSeq DEF IndCorreio, CorreioDeConvites

\* Who runs or resends was alone when it began.
LEMMA SozinhoDepois ==
    ASSUME "sobrepor" \notin Riscos, IndCorreio, UmCarteiro, [Next]_vars
    PROVE  /\ \A t, u \in Envios : envio'[t].passo # "fora" /\ envio'[u].passo # "fora" => t = u
           /\ \A t \in Envios : envio'[t].passo # "fora" => SemReenvio'
<1>1. \A t \in Envios : envio'[t].passo # "fora" => envio[t].passo # "fora" \/ IniciarEnvio(t)
  BY EnvioDepois DEF Passa
<1>2. ASSUME NEW t \in Envios, IniciarEnvio(t)
      PROVE  /\ \A u \in Envios : envio[u].passo = "fora"
             /\ SemReenvio'
             /\ \A u \in Envios : IniciarEnvio(u) => u = t
  <2>1. (\A u \in Envios : envio[u].passo = "fora") /\ SemReenvio'
    BY <1>2 DEF IniciarEnvio, SemEnvio, SemReenvio
  <2>2. ASSUME NEW u \in Envios, IniciarEnvio(u), u # t PROVE FALSE
    BY <1>2, <2>1, <2>2, IniciarEscreve
  <2> QED
    BY <2>1, <2>2
<1>3. ASSUME NEW t \in Envios, envio[t].passo # "fora" PROVE SemReenvio'
  <2>1. SemReenvio /\ ~SemEnvio
    BY <1>3 DEF UmCarteiro, SemEnvio
  <2> QED
    BY <2>1, QuemMexeNoReenvio DEF SemReenvio, ReenvioParado, EnviarReenvio, PedirReenvio
<1> QED
  BY <1>1, <1>2, <1>3 DEF UmCarteiro

LEMMA CarteiroMantido ==
    ASSUME "sobrepor" \notin Riscos, IndCorreio, UmCarteiro, [Next]_vars
    PROVE  UmCarteiro'
<1>1. ASSUME NEW t \in Envios, envio'[t].passo # "fora"
      PROVE  /\ IsInjective(envio'[t].lista)
             /\ \A i \in DOMAIN envio'[t].lista :
                    convite'[envio'[t].lista[i]].status = "queued"
  <2>1. CASE IniciarEnvio(t) /\ Fila(envio'[t].lista, Len(chegada))
    BY <2>1 DEF Fila, NaFilaDe, IniciarEnvio, base
  <2>2. CASE envio[t].passo # "fora"
    <3>1. /\ IsInjective(envio[t].lista)
          /\ \A i \in DOMAIN envio[t].lista : convite[envio[t].lista[i]].status = "queued"
      BY <2>2 DEF UmCarteiro
    <3>2. ~GravarReenvio
      BY <2>2 DEF GravarReenvio, UmCarteiro, SemReenvio
    <3>3. envio[t].lista \in Seq(Pessoas) /\ envio[t].lista # <<>>
      BY <2>2, AoMandar
    <3>4. \A u \in Envios : GravarEnvio(u) => u = t
      BY <2>2 DEF GravarEnvio, UmCarteiro
    <3>5. ASSUME NEW a \in Pessoas, TemConvite(a), convite[a].status = "queued",
                 GravarEnvio(t) => a # Head(envio[t].lista)
          PROVE  convite'[a].status = "queued"
      BY <3>2, <3>4, <3>5, ConviteDepois DEF OMesmo, Usado, Gravado, Reenviado
    <3>6. CASE envio'[t].lista = envio[t].lista /\ ~GravarEnvio(t)
      BY <3>1, <3>5, <3>6, DaLista
    <3>7. CASE envio'[t].lista = Tail(envio[t].lista)
      <4>1. /\ IsInjective(Tail(envio[t].lista))
            /\ \A i \in DOMAIN Tail(envio[t].lista) :
                  /\ i + 1 \in DOMAIN envio[t].lista
                  /\ Tail(envio[t].lista)[i] = envio[t].lista[i+1]
                  /\ Tail(envio[t].lista)[i] # Head(envio[t].lista)
        <5>1. PICK q : q = envio[t].lista
          OBVIOUS
        <5>2. q \in Seq(Pessoas) /\ q # <<>> /\ IsInjective(q)
          BY <3>1, <3>3, <5>1
        <5>3. /\ Len(q) \in Nat \ {0} /\ DOMAIN q = 1..Len(q)
              /\ DOMAIN Tail(q) = 1..Len(q)-1 /\ IsInjective(Tail(q))
              /\ \A k \in 1..Len(q)-1 : Tail(q)[k] = q[k+1] /\ Tail(q)[k] # Head(q)
          BY <5>2, RestoDaFila
        <5> QED
          BY <5>1, <5>3
      <4>2. ASSUME NEW i \in DOMAIN Tail(envio[t].lista)
            PROVE  convite'[Tail(envio[t].lista)[i]].status = "queued"
        BY <3>1, <3>5, <4>1, DaLista
      <4> QED
        BY <3>7, <4>1, <4>2
    <3> QED
      BY <1>1, <2>2, <3>6, <3>7, EnvioDepois DEF Passa, IniciarEnvio
  <2> QED
    BY <1>1, <2>1, <2>2, EnvioDepois DEF Passa
<1> QED
  BY <1>1, SozinhoDepois DEF UmCarteiro

\* Nobody uses the invite, and nothing else writes it, while it is mailed again.
LEMMA FielMantido ==
    ASSUME "usarDuranteReenvio" \notin Riscos, IndCorreio, UmCarteiro, ReenvioFiel, [Next]_vars
    PROVE  ReenvioFiel'
<1>0. reenvio \in Reenvio /\ convite \in [Pessoas -> Convite]
  BY DEF IndCorreio, TiposDoCorreio
<1>1. ASSUME NEW a \in Pessoas, PedirReenvio(a) PROVE ReenvioFiel'
  BY <1>0, <1>1 DEF PedirReenvio, ReenvioFiel, SemReenvio, base
<1>2. CASE /\ ~SemReenvio /\ ~GravarReenvio
           /\ reenvio'.pessoa = reenvio.pessoa /\ reenvio'.convite = reenvio.convite
  <2>1. reenvio.pessoa \in Pessoas /\ TemConvite(reenvio.pessoa)
    BY <1>2 DEF SemReenvio, IndCorreio, CorreioDeConvites
  <2>2. \A t \in Envios : ~GravarEnvio(t)
    BY <1>2 DEF UmCarteiro, GravarEnvio
  <2>3. ~Usado(reenvio.pessoa)
    BY DEF Usado, AbrirConvite, ConcluirCadastro, Usavel
  <2>4. OMesmo(reenvio.pessoa)
    BY <1>2, <2>1, <2>2, <2>3, ConviteDepois DEF Gravado, Reenviado
  <2> QED
    BY <1>2, <2>4 DEF ReenvioFiel, OMesmo
<1>3. CASE SemReenvio'
  BY <1>3 DEF ReenvioFiel
<1>4. \/ SemReenvio' \/ \E a \in Pessoas : PedirReenvio(a)
      \/ /\ ~SemReenvio /\ ~GravarReenvio
         /\ reenvio'.pessoa = reenvio.pessoa /\ reenvio'.convite = reenvio.convite
  <2>1. \/ UNCHANGED reenvio \/ reenvio' = ReenvioParado \/ EnviarReenvio
        \/ \E a \in Pessoas : PedirReenvio(a)
    BY QuemMexeNoReenvio
  <2>2. ReenvioParado.passo = "fora"
    BY DEF ReenvioParado
  <2>3. GravarReenvio => reenvio' = ReenvioParado
    BY DEF GravarReenvio
  <2>4. EnviarReenvio => /\ ~SemReenvio /\ reenvio'.pessoa = reenvio.pessoa
                         /\ reenvio'.convite = reenvio.convite
    BY <1>0 DEF EnviarReenvio, SemReenvio, Reenvio
  <2> QED
    BY <2>1, <2>2, <2>3, <2>4 DEF SemReenvio
<1> QED
  BY <1>1, <1>2, <1>3, <1>4

LEMMA CarteiroInicial == ASSUME Init PROVE UmCarteiro /\ ReenvioFiel
BY DEF Init, UmCarteiro, ReenvioFiel, SemReenvio, EnvioParado, ReenvioParado

\* Nothing that mails takes an invite back from "used", if one execution mails
\* at a time and the invite is not used while it is mailed again: the update
\* after the mail writes what was read before it, and does not look again.
THEOREM ConviteUsadoNaoVoltaSempre ==
    ASSUME "sobrepor" \notin Riscos, "usarDuranteReenvio" \notin Riscos
    PROVE  Spec => ConviteUsadoNaoVolta
<1> DEFINE Inv == IndCorreio /\ UmCarteiro /\ ReenvioFiel
           A == \A a \in Pessoas :
                   convite[a].status = "used" /\ convite'[a].geracao = convite[a].geracao
                   => convite'[a].status = "used"
<1>1. Init => Inv
  BY IndCorreioInicial, CarteiroInicial
<1>2. Inv /\ [Next]_vars => Inv'
  BY IndCorreioMantido, CarteiroMantido, FielMantido
<1>3. Inv /\ [Next]_vars => A
  <2> SUFFICES ASSUME Inv, [Next]_vars, NEW a \in Pessoas, convite[a].status = "used",
                      convite'[a].geracao = convite[a].geracao
               PROVE  convite'[a].status = "used"
    OBVIOUS
  <2>1. TemConvite(a)
    BY DEF TemConvite
  <2>2. CASE Gravado(a)
    <3>1. PICK t \in Envios : GravarEnvio(t) /\ Head(envio[t].lista) = a
      BY <2>2 DEF Gravado
    <3>2. envio[t].passo # "fora"
      BY <3>1 DEF GravarEnvio
    <3>3. 1 \in DOMAIN envio[t].lista /\ envio[t].lista[1] = a
      BY <3>1, <3>2, AoMandar, RestoDaFila
    <3> QED
      BY <3>2, <3>3 DEF UmCarteiro
  <2>3. CASE Reenviado(a)
    <3>1. /\ convite[a].status = reenvio.convite.status
          /\ convite[a].geracao = reenvio.convite.geracao
      BY <2>3 DEF Reenviado, GravarReenvio, ReenvioFiel, SemReenvio
    <3>2. reenvio.convite.geracao \in Nat
      BY DEF IndCorreio, TiposDoCorreio, Reenvio, Convite
    <3>3. ~reenvio.ativo
      <4>1. reenvio.ativo => GeracaoReenviada = reenvio.convite.geracao + 1
        BY DEF GeracaoReenviada
      <4>2. GeracaoReenviada = convite[a].geracao
        BY <2>3 DEF Reenviado
      <4> QED
        BY <3>1, <3>2, <4>1, <4>2
    <3> QED
      BY <2>3, <3>1, <3>3 DEF Reenviado
  <2> QED
    BY <2>1, <2>2, <2>3, ConviteDepois DEF OMesmo, Usado
<1>4. ConviteUsadoNaoVolta <=> [][A]_vars
  BY DEF ConviteUsadoNaoVolta
<1> HIDE DEF Inv, A
<1> QED
  BY <1>1, <1>2, <1>3, <1>4, PTL DEF Spec

-----------------------------------------------------------------------------
(* The quota.                                                              *)

\* The mails of the day are not more than the invites that say so, but for
\* the one on its way; and what is left to mail fits.
DoDia == {a \in Pessoas : convite[a].hoje}
ContaDoDia ==
    /\ correio <= Quota
    /\ SemEnvio /\ SemReenvio => correio <= Cardinality(DoDia)
    /\ \A t \in Envios : envio[t].passo # "fora" =>
           /\ correio <= Cardinality(DoDia) + (IF envio[t].passo = "gravar" THEN 1 ELSE 0)
           /\ Cardinality(DoDia) + Len(envio[t].lista) <= Quota
    /\ ~SemReenvio =>
           /\ correio <= Cardinality(DoDia) + (IF reenvio.passo = "gravar" THEN 1 ELSE 0)
           /\ Cardinality(DoDia) < Quota /\ ~convite[reenvio.pessoa].hoje

IndQuota == IndCorreio /\ UmCarteiro /\ ContaDoDia

LEMMA DoDiaFinito ==
    /\ IsFiniteSet(DoDia) /\ Cardinality(DoDia) \in Nat
    /\ IsFiniteSet(DoDia') /\ Cardinality(DoDia') \in Nat
<1>1. DoDia \subseteq Pessoas /\ DoDia' \subseteq Pessoas
  BY DEF DoDia
<1> QED
  BY <1>1, ConvitesAssumption, FS_Subset, FS_CardinalityType

\* The day one invite says it was mailed, or none does.
LEMMA DoDiaDepois ==
    ASSUME IndCorreio, [Next]_vars, NEW a \in Pessoas,
           \A b \in Pessoas \ {a} : convite'[b].hoje = convite[b].hoje
    PROVE  /\ convite'[a].hoje /\ ~convite[a].hoje => Cardinality(DoDia') = Cardinality(DoDia) + 1
           /\ convite'[a].hoje = convite[a].hoje => DoDia' = DoDia
<1>1. ASSUME convite'[a].hoje, ~convite[a].hoje PROVE DoDia' = DoDia \cup {a} /\ a \notin DoDia
  BY <1>1 DEF DoDia
<1>2. ASSUME convite'[a].hoje = convite[a].hoje PROVE DoDia' = DoDia
  BY <1>2 DEF DoDia
<1> QED
  BY <1>1, <1>2, DoDiaFinito, FS_AddElement

\* What an execution is about to mail was not mailed today.
LEMMA NaFilaNaoFoi ==
    ASSUME IndQuota, NEW t \in Envios, envio[t].passo # "fora"
    PROVE  LET a == Head(envio[t].lista) IN
           /\ a \in Pessoas /\ convite[a].geracao = 1 /\ convite[a].hoje = FALSE
           /\ SemReenvio /\ \A u \in Envios \ {t} : envio[u].passo = "fora"
           /\ Len(envio[t].lista) \in Nat \ {0}
<1> DEFINE a == Head(envio[t].lista)
<1>1. a \in Pessoas /\ envio[t].lista \in Seq(Pessoas) /\ envio[t].lista # <<>>
  BY AoMandar DEF IndQuota
<1>2. /\ a = envio[t].lista[1] /\ 1 \in DOMAIN envio[t].lista
      /\ Len(envio[t].lista) \in Nat \ {0}
  BY <1>1, RestoDaFila
<1>3. convite[a].status = "queued"
  BY <1>2 DEF IndQuota, UmCarteiro
<1>4. convite[a] \in Convite /\ convite[a].geracao = 1 /\ ~convite[a].hoje
  BY <1>1, <1>3 DEF IndQuota, IndCorreio, TiposDoCorreio, ConviteInteiro
<1>5. convite[a].hoje = FALSE
  BY <1>4 DEF Convite
<1>6. SemReenvio /\ \A u \in Envios \ {t} : envio[u].passo = "fora"
  BY DEF IndQuota, UmCarteiro
<1> QED
  BY <1>1, <1>2, <1>4, <1>5, <1>6

\* A step that neither mails nor says that something was mailed.
LEMMA ContaParada ==
    ASSUME IndQuota, DoDia' = DoDia, UNCHANGED <<correio, envio, reenvio>>,
           ~SemReenvio => convite'[reenvio.pessoa].hoje = convite[reenvio.pessoa].hoje
    PROVE  ContaDoDia'
BY DEF IndQuota, ContaDoDia, SemEnvio, SemReenvio

LEMMA ContaDeQuemManda ==
    ASSUME IndQuota, [Next]_vars, NEW t \in Envios, EnviarConvite(t) PROVE ContaDoDia'
<1>0. envio \in [Envios -> Caixa] /\ correio \in Nat /\ Quota \in Nat
  BY ConvitesAssumption DEF IndQuota, IndCorreio, TiposDoCorreio
<1>1. envio[t].passo = "enviar"
  BY DEF EnviarConvite
<1>2. /\ SemReenvio /\ \A u \in Envios \ {t} : envio[u].passo = "fora"
      /\ Len(envio[t].lista) \in Nat \ {0}
  BY <1>1, NaFilaNaoFoi
<1>3. /\ correio' = correio + 1 /\ DoDia' = DoDia /\ SemReenvio'
      /\ envio'[t].passo = "gravar" /\ envio'[t].lista = envio[t].lista
      /\ \A u \in Envios \ {t} : envio'[u].passo = "fora"
  BY <1>0, <1>2 DEF EnviarConvite, base, DoDia, SemReenvio, Caixa
<1>4. correio <= Cardinality(DoDia) /\ Cardinality(DoDia) + Len(envio[t].lista) <= Quota
  BY <1>0, <1>1, DoDiaFinito DEF IndQuota, ContaDoDia
<1>5. ~SemEnvio'
  BY <1>3 DEF SemEnvio
<1> QED
  BY <1>0, <1>2, <1>3, <1>4, <1>5, DoDiaFinito DEF ContaDoDia

\* The update after a mail, and what stands for it when the mail failed.
LEMMA ContaDeQuemSegue ==
    ASSUME IndQuota, [Next]_vars, NEW t \in Envios, envio[t].passo # "fora",
           ProximoConvite(t), UNCHANGED <<correio, reenvio>>,
           \/ envio[t].passo = "enviar" /\ DoDia' = DoDia
           \/ Cardinality(DoDia') = Cardinality(DoDia) + 1
    PROVE  ContaDoDia'
<1>0. correio \in Nat /\ Quota \in Nat
  BY ConvitesAssumption DEF IndQuota, IndCorreio, TiposDoCorreio
<1>1. /\ SemReenvio /\ \A u \in Envios \ {t} : envio[u].passo = "fora"
      /\ Len(envio[t].lista) \in Nat \ {0}
  BY NaFilaNaoFoi
<1>2. PICK p : p = IF envio[t].passo = "gravar" THEN 1 ELSE 0
  OBVIOUS
<1>3. /\ correio <= Cardinality(DoDia) + p
      /\ Cardinality(DoDia) + Len(envio[t].lista) <= Quota
  BY <1>2 DEF IndQuota, ContaDoDia
<1>4. /\ correio <= Cardinality(DoDia')
      /\ Cardinality(DoDia') <= Cardinality(DoDia) + 1
  BY <1>0, <1>2, <1>3, DoDiaFinito
<1>5. \A u \in Envios \ {t} : envio'[u].passo = "fora"
  BY <1>1, ProximoEscreve DEF IndQuota
<1>6. CASE Len(envio[t].lista) = 1
  <2>1. envio'[t].passo = "fora"
    BY <1>6, ProximoEscreve DEF IndQuota, EnvioParado
  <2> QED
    BY <1>0, <1>1, <1>3, <1>4, <1>5, <2>1, DoDiaFinito
       DEF ContaDoDia, SemEnvio, SemReenvio, IndQuota
<1>7. CASE Len(envio[t].lista) # 1
  <2>1. envio'[t].passo = "enviar" /\ envio'[t].lista = Tail(envio[t].lista)
    BY <1>7, ProximoEscreve DEF IndQuota
  <2>2. Len(envio'[t].lista) = Len(envio[t].lista) - 1
    BY <2>1, AoMandar, RestoDaFila DEF IndQuota
  <2>3. Cardinality(DoDia') + Len(envio'[t].lista) <= Quota
    BY <1>0, <1>1, <1>3, <1>4, <2>2, DoDiaFinito
  <2>4. correio' <= Quota /\ SemReenvio' /\ ~SemEnvio'
    BY <1>1, <2>1 DEF IndQuota, ContaDoDia, SemReenvio, SemEnvio
  <2>5. correio' <= Cardinality(DoDia') + (IF envio'[t].passo = "gravar" THEN 1 ELSE 0)
    BY <1>4, <2>1, DoDiaFinito, <1>0
  <2> QED
    BY <1>5, <2>3, <2>4, <2>5 DEF ContaDoDia
<1> QED
  BY <1>6, <1>7

LEMMA ContaDoEnvio ==
    ASSUME IndQuota, [Next]_vars, NEW t \in Envios,
           \/ GravarEnvio(t)
           \/ EnvioRecusado(t) /\ envio[t].passo = "enviar"
    PROVE  ContaDoDia'
<1>0. convite \in [Pessoas -> Convite]
  BY DEF IndQuota, IndCorreio, TiposDoCorreio
<1> DEFINE a == Head(envio[t].lista)
<1>1. envio[t].passo # "fora" /\ ProximoConvite(t) /\ UNCHANGED <<correio, reenvio>>
  BY DEF GravarEnvio, EnvioRecusado, mundo
<1>2. a \in Pessoas /\ convite[a].geracao = 1 /\ convite[a].hoje = FALSE
  BY <1>1, NaFilaNaoFoi
<1>3. CASE GravarEnvio(t)
  <2>1. convite' = [convite EXCEPT ![a].status = "sent", ![a].hoje = TRUE]
    BY <1>2, <1>3 DEF GravarEnvio, Escrever
  <2> HIDE DEF a
  <2>2. /\ \A b \in Pessoas \ {a} : convite'[b].hoje = convite[b].hoje
        /\ convite'[a].hoje
    BY <1>0, <1>2, <2>1 DEF Convite
  <2>3. Cardinality(DoDia') = Cardinality(DoDia) + 1
    BY <1>2, <2>2, DoDiaDepois DEF IndQuota
  <2> QED
    BY <1>1, <2>3, ContaDeQuemSegue
<1>4. CASE EnvioRecusado(t) /\ envio[t].passo = "enviar"
  <2>1. convite' = [convite EXCEPT ![a].status = convite[a].status, ![a].hoje = FALSE]
    BY <1>2, <1>4 DEF EnvioRecusado, Escrever
  <2> HIDE DEF a
  <2>2. /\ \A b \in Pessoas \ {a} : convite'[b].hoje = convite[b].hoje
        /\ convite'[a].hoje = convite[a].hoje
    BY <1>0, <1>2, <2>1 DEF Convite
  <2>3. DoDia' = DoDia
    BY <1>2, <2>2, DoDiaDepois DEF IndQuota
  <2> QED
    BY <1>1, <1>4, <2>3, ContaDeQuemSegue
<1> QED
  BY <1>3, <1>4

LEMMA ContaAoIniciar ==
    ASSUME "sobrepor" \notin Riscos, IndQuota, [Next]_vars, NEW t \in Envios, IniciarEnvio(t)
    PROVE  ContaDoDia'
<1>0. correio \in Nat /\ Quota \in Nat
  BY ConvitesAssumption DEF IndQuota, IndCorreio, TiposDoCorreio
<1>1. /\ SemEnvio /\ SemReenvio /\ SemReenvio' /\ UNCHANGED correio /\ DoDia' = DoDia
      /\ Restante > 0
  BY DEF IniciarEnvio, SemReenvio, mundo, base, DoDia
<1>2. Restante = IF Cardinality(DoDia) > Quota THEN 0 ELSE Quota - Cardinality(DoDia)
  BY DEF Restante, DoDia
<1>3. /\ envio'[t].passo = "enviar" /\ Len(envio'[t].lista) <= Restante
      /\ Len(envio'[t].lista) \in Nat
      /\ \A u \in Envios \ {t} : envio'[u].passo = "fora"
  BY <1>1, IniciarEscreve, LenProperties DEF IndQuota, SemEnvio, Fila
<1>4. Cardinality(DoDia') + Len(envio'[t].lista) <= Quota
  BY <1>0, <1>1, <1>2, <1>3, DoDiaFinito
<1>5. correio' <= Quota /\ correio' <= Cardinality(DoDia') /\ ~SemEnvio'
  BY <1>1, <1>3 DEF IndQuota, ContaDoDia, SemEnvio
<1>6. correio' <= Cardinality(DoDia') + (IF envio'[t].passo = "gravar" THEN 1 ELSE 0)
  BY <1>3, <1>5, DoDiaFinito, <1>0, <1>1
<1> QED
  BY <1>1, <1>3, <1>4, <1>5, <1>6 DEF ContaDoDia

LEMMA ContaDoReenvio ==
    ASSUME "sobrepor" \notin Riscos, "reenviarNoDia" \notin Riscos, IndQuota, [Next]_vars
    PROVE  /\ \A a \in Pessoas : PedirReenvio(a) => ContaDoDia'
           /\ EnviarReenvio \/ FalharReenvio \/ GravarReenvio => ContaDoDia'
<1>0. /\ correio \in Nat /\ Quota \in Nat /\ reenvio \in Reenvio
      /\ convite \in [Pessoas -> Convite]
  BY ConvitesAssumption DEF IndQuota, IndCorreio, TiposDoCorreio
<1>1. ASSUME NEW a \in Pessoas, PedirReenvio(a) PROVE ContaDoDia'
  <2>1. /\ SemEnvio /\ SemReenvio /\ SemEnvio' /\ UNCHANGED correio /\ DoDia' = DoDia
        /\ Restante > 0 /\ reenvio'.passo = "enviar" /\ reenvio'.pessoa = a
        /\ ~convite'[a].hoje
    BY <1>1 DEF PedirReenvio, SemEnvio, mundo, base, DoDia
  <2>2. Restante = IF Cardinality(DoDia) > Quota THEN 0 ELSE Quota - Cardinality(DoDia)
    BY DEF Restante, DoDia
  <2>3. Cardinality(DoDia') < Quota
    BY <1>0, <2>1, <2>2, DoDiaFinito
  <2>4. correio' <= Quota /\ correio' <= Cardinality(DoDia') /\ ~SemReenvio'
    BY <2>1 DEF IndQuota, ContaDoDia, SemReenvio
  <2>5. correio' <= Cardinality(DoDia') + (IF reenvio'.passo = "gravar" THEN 1 ELSE 0)
    BY <1>0, <2>1, <2>4, DoDiaFinito
  <2> QED
    BY <2>1, <2>3, <2>4, <2>5 DEF ContaDoDia, SemEnvio
<1>2. ASSUME ~SemReenvio
      PROVE  /\ \A t \in Envios : envio[t].passo = "fora"
             /\ reenvio.pessoa \in Pessoas /\ ~convite[reenvio.pessoa].hoje
             /\ Cardinality(DoDia) < Quota
  BY <1>2 DEF IndQuota, UmCarteiro, ContaDoDia, IndCorreio, CorreioDeConvites, SemReenvio
<1>3. CASE EnviarReenvio
  <2>1. /\ ~SemReenvio /\ ~SemReenvio' /\ correio' = correio + 1 /\ DoDia' = DoDia
        /\ reenvio.passo = "enviar" /\ reenvio'.passo = "gravar"
        /\ reenvio'.pessoa = reenvio.pessoa /\ UNCHANGED <<envio, convite>>
    BY <1>0, <1>3 DEF EnviarReenvio, SemReenvio, base, DoDia, Reenvio
  <2>2. correio <= Cardinality(DoDia)
    BY <1>0, <2>1, DoDiaFinito DEF IndQuota, ContaDoDia
  <2> QED
    BY <1>0, <1>2, <2>1, <2>2, DoDiaFinito DEF ContaDoDia
<1>4. CASE FalharReenvio
  <2>1. /\ ~SemReenvio /\ SemReenvio' /\ UNCHANGED <<correio, envio>> /\ DoDia' = DoDia
        /\ reenvio.passo = "enviar"
    BY <1>4 DEF FalharReenvio, SemReenvio, base, mundo, DoDia, ReenvioParado
  <2>2. correio <= Cardinality(DoDia) /\ correio <= Quota
    BY <1>0, <2>1, DoDiaFinito DEF IndQuota, ContaDoDia
  <2> QED
    BY <1>2, <2>1, <2>2 DEF ContaDoDia
<1>5. CASE GravarReenvio
  <2>1. /\ ~SemReenvio /\ SemReenvio' /\ UNCHANGED <<correio, envio>>
        /\ \A b \in Pessoas \ {reenvio.pessoa} : convite'[b].hoje = convite[b].hoje
        /\ reenvio.pessoa \in Pessoas => convite'[reenvio.pessoa].hoje
    BY <1>0, <1>5 DEF GravarReenvio, SemReenvio, mundo, ReenvioParado
  <2>2. Cardinality(DoDia') = Cardinality(DoDia) + 1
    BY <1>2, <2>1, DoDiaDepois DEF IndQuota
  <2>3. correio <= Cardinality(DoDia) + 1 /\ correio <= Quota
    BY <1>0, <2>1, DoDiaFinito DEF IndQuota, ContaDoDia
  <2> QED
    BY <1>0, <1>2, <2>1, <2>2, <2>3 DEF ContaDoDia
<1> QED
  BY <1>1, <1>3, <1>4, <1>5

\* At midnight the day starts from nothing, and what is left to mail still
\* fits; a restart finds nobody between a mail and its update; the monthly
\* resend only adds to what the day shows.
LEMMA ContaAoVirar ==
    ASSUME IndQuota, VirarDia PROVE ContaDoDia'
<1>0. /\ correio \in Nat /\ Quota \in Nat /\ envio \in [Envios -> Caixa]
      /\ convite \in [Pessoas -> Convite]
  BY ConvitesAssumption DEF IndQuota, IndCorreio, TiposDoCorreio
<1>1. correio' = 0 /\ UNCHANGED <<envio, reenvio>>
  BY DEF VirarDia
<1>2. \A a \in Pessoas : convite'[a].hoje = FALSE
  BY <1>0 DEF VirarDia, Convite
<1>3. Cardinality(DoDia') = 0
  <2>1. DoDia' = {}
    BY <1>2 DEF DoDia
  <2> QED
    BY <2>1, FS_EmptySet
<1>4. ASSUME NEW t \in Envios, envio[t].passo # "fora"
      PROVE  Len(envio[t].lista) \in Nat /\ Len(envio[t].lista) <= Quota
  <2>1. Len(envio[t].lista) \in Nat
    BY <1>0, LenProperties DEF Caixa
  <2> QED
    BY <1>0, <1>4, <2>1, DoDiaFinito DEF IndQuota, ContaDoDia
<1>5. ASSUME ~SemReenvio PROVE 0 < Quota /\ reenvio.pessoa \in Pessoas
  BY <1>0, <1>5, DoDiaFinito DEF IndQuota, ContaDoDia, IndCorreio, CorreioDeConvites,
                                 SemReenvio
<1> QED
  BY <1>0, <1>1, <1>2, <1>3, <1>4, <1>5 DEF ContaDoDia, SemReenvio

LEMMA ContaAoReiniciar ==
    ASSUME "perderGravacao" \notin Riscos, IndQuota, Reiniciar PROVE ContaDoDia'
<1>0. correio \in Nat
  BY DEF IndQuota, IndCorreio, TiposDoCorreio
<1>1. /\ SemEnvio' /\ SemReenvio' /\ UNCHANGED correio /\ DoDia' = DoDia
  BY DEF Reiniciar, SemEnvio, SemReenvio, EnvioParado, ReenvioParado, mundo, base, DoDia
<1>2. /\ \A t \in Envios : envio[t].passo # "gravar"
      /\ reenvio.passo # "gravar"
  BY DEF Reiniciar
<1>3. correio <= Quota /\ correio <= Cardinality(DoDia)
  BY <1>0, <1>2, DoDiaFinito DEF IndQuota, ContaDoDia, SemEnvio
<1> QED
  BY <1>1, <1>3 DEF ContaDoDia, SemEnvio

LEMMA ContaDoMensal ==
    ASSUME "sobrepor" \notin Riscos, IndQuota, NEW a \in Pessoas, ReenviarMensal(a)
    PROVE  ContaDoDia'
<1>0. convite \in [Pessoas -> Convite] /\ correio \in Nat
  BY DEF IndQuota, IndCorreio, TiposDoCorreio
<1>1. /\ SemEnvio /\ SemReenvio /\ SemEnvio' /\ SemReenvio' /\ UNCHANGED correio
      /\ convite' = [convite EXCEPT ![a].hoje = TRUE]
  BY DEF ReenviarMensal, SemEnvio, SemReenvio
<1>2. DoDia \subseteq DoDia'
  BY <1>0, <1>1 DEF DoDia, Convite
<1>3. Cardinality(DoDia) <= Cardinality(DoDia')
  BY <1>2, DoDiaFinito, FS_Subset
<1>4. correio <= Quota /\ correio <= Cardinality(DoDia)
  BY <1>1 DEF IndQuota, ContaDoDia
<1> QED
  BY <1>0, <1>1, <1>3, <1>4, DoDiaFinito DEF ContaDoDia, SemEnvio

LEMMA ContaAoAbortar ==
    ASSUME IndQuota, NEW t \in Envios, AbortarEnvio(t) PROVE ContaDoDia'
<1>0. envio \in [Envios -> Caixa] /\ correio \in Nat
  BY DEF IndQuota, IndCorreio, TiposDoCorreio
<1>1. envio[t].passo = "enviar"
  BY DEF AbortarEnvio
<1>2. /\ UNCHANGED <<correio, reenvio>> /\ DoDia' = DoDia
      /\ envio' = [envio EXCEPT ![t] = EnvioParado]
  BY DEF AbortarEnvio, mundo, base, DoDia
<1>3. SemReenvio /\ \A u \in Envios \ {t} : envio[u].passo = "fora"
  BY <1>1, NaFilaNaoFoi
<1>4. SemEnvio'
  BY <1>0, <1>2, <1>3 DEF SemEnvio, EnvioParado
<1>5. correio <= Quota /\ correio <= Cardinality(DoDia)
  BY <1>0, <1>1, DoDiaFinito DEF IndQuota, ContaDoDia
<1> QED
  BY <1>2, <1>3, <1>4, <1>5 DEF ContaDoDia, SemEnvio, SemReenvio

\* What does not touch the day: the synchronisation, and who uses an invite.
LEMMA ContaDosOutros ==
    ASSUME IndQuota, [Next]_vars
    PROVE  /\ \A s \in Sincs : Convidar(s) => ContaDoDia'
           /\ \A a \in Pessoas : AbrirConvite(a) \/ ConcluirCadastro(a) => ContaDoDia'
           /\ UNCHANGED <<convite, correio, envio, reenvio>> => ContaDoDia'
<1>0. convite \in [Pessoas -> Convite]
  BY DEF IndQuota, IndCorreio, TiposDoCorreio
<1>1. ASSUME UNCHANGED <<correio, envio, reenvio>>, NEW a \in Pessoas,
             \A b \in Pessoas : convite'[b].hoje = convite[b].hoje
      PROVE  ContaDoDia'
  <2>1. DoDia' = DoDia
    BY <1>1 DEF DoDia
  <2>2. ~SemReenvio => reenvio.pessoa \in Pessoas
    BY DEF SemReenvio, IndQuota, IndCorreio, CorreioDeConvites
  <2> QED
    BY <1>1, <2>1, <2>2, ContaParada
<1>2. ASSUME NEW s \in Sincs, Convidar(s) PROVE ContaDoDia'
  <2>1. PICK a : a = sinc[s].atual
    OBVIOUS
  <2>2. a \in Pessoas /\ convite[a] = SemConvite /\ convite' = [convite EXCEPT ![a] = NaFila]
    BY <1>2, <2>1, AoConvidar DEF Convidar, IndQuota
  <2>3. \A b \in Pessoas : convite'[b].hoje = convite[b].hoje
    <3>1. convite[a].hoje = FALSE /\ NaFila.hoje = FALSE
      BY <2>2 DEF SemConvite, NaFila
    <3> QED
      BY <1>0, <2>2, <3>1
  <2> QED
    BY <1>1, <1>2, <2>2, <2>3 DEF Convidar, mundo
<1>3. ASSUME NEW a \in Pessoas, AbrirConvite(a) \/ ConcluirCadastro(a) PROVE ContaDoDia'
  <2>1. convite' = [convite EXCEPT ![a].status = "used"]
    BY <1>3 DEF AbrirConvite, ConcluirCadastro
  <2>2. \A b \in Pessoas : convite'[b].hoje = convite[b].hoje
    BY <1>0, <2>1 DEF Convite
  <2> QED
    BY <1>1, <1>3, <2>2 DEF AbrirConvite, ConcluirCadastro, mundo
<1>4. ASSUME UNCHANGED <<convite, correio, envio, reenvio>> PROVE ContaDoDia'
  <2>1. DoDia' = DoDia
    BY <1>4 DEF DoDia
  <2> QED
    BY <1>4, <2>1, ContaParada
<1> QED
  BY <1>2, <1>3, <1>4

LEMMA IndQuotaMantido ==
    ASSUME "sobrepor" \notin Riscos, "perderGravacao" \notin Riscos,
           "reenviarNoDia" \notin Riscos, IndQuota, [Next]_vars
    PROVE  IndQuota'
<1>1. IndCorreio' /\ UmCarteiro'
  BY IndCorreioMantido, CarteiroMantido DEF IndQuota
<1>2. \/ UNCHANGED <<convite, correio, envio, reenvio>>
      \/ VirarDia \/ Reiniciar
      \/ \E s \in Sincs : Convidar(s)
      \/ \E t \in Envios : IniciarEnvio(t) \/ PassoDoEnvio(t)
      \/ EnviarReenvio \/ FalharReenvio \/ GravarReenvio
      \/ \E a \in Pessoas : PedirReenvio(a) \/ ReenviarMensal(a)
      \/ \E a \in Pessoas : AbrirConvite(a) \/ ConcluirCadastro(a)
  <2>1. Respondem \subseteq Pessoas
    BY ConvitesAssumption
  <2> QED
    BY <2>1 DEF Next, vars, base, mundo, Publicar, Sincronizar, PassoDoSinc, ProcurarUsuario,
         CriarUsuario, Relacionar, LinhaRejeitada, FalharLinha, SalvarMarca,
         PassoDoReenvio, AtivarUsuario
<1>3. ASSUME NEW t \in Envios, PassoDoEnvio(t) PROVE ContaDoDia'
  <2>1. EnvioRecusado(t) => envio[t].passo = "enviar"
    BY DEF EnvioRecusado
  <2> QED
    BY <1>3, <2>1, ContaDeQuemManda, ContaDoEnvio, ContaAoAbortar DEF PassoDoEnvio
<1>4. ContaDoDia'
  BY <1>2, <1>3, ContaAoVirar, ContaAoReiniciar, ContaDoMensal, ContaDosOutros,
     ContaAoIniciar, ContaDoReenvio
<1> QED
  BY <1>1, <1>4 DEF IndQuota

\* bulkSendInvites and resendRegisterMail together mail no more than the quota
\* in a day, for any quota and any number of users: each reads what is left
\* of it only once, when it begins, which is enough, midnight or not, if one
\* runs at a time, what was mailed is on record and nothing is mailed again on
\* the day it was mailed.
THEOREM QuotaRespeitadaSempre ==
    ASSUME "sobrepor" \notin Riscos, "perderGravacao" \notin Riscos,
           "reenviarNoDia" \notin Riscos
    PROVE  Spec => []QuotaRespeitada
<1>1. Init => IndQuota
  <2> SUFFICES ASSUME Init PROVE ContaDoDia
    BY IndCorreioInicial, CarteiroInicial DEF IndQuota
  <2>1. SemEnvio /\ SemReenvio /\ correio = 0 /\ Quota \in Nat
    BY ConvitesAssumption DEF Init, SemEnvio, SemReenvio, EnvioParado, ReenvioParado
  <2> QED
    BY <2>1, DoDiaFinito DEF ContaDoDia, SemEnvio
<1>2. IndQuota /\ [Next]_vars => IndQuota'
  BY IndQuotaMantido
<1>3. IndQuota => QuotaRespeitada
  BY DEF IndQuota, ContaDoDia, QuotaRespeitada
<1> QED
  BY <1>1, <1>2, <1>3, PTL DEF Spec
==============================================================================
