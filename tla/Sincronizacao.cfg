CONSTANTS
    quinta = quinta
    sexta = sexta
    jobA = jobA
    jobB = jobB
    A = A
    B = B
    a1 = a1
    a2 = a2
    b1 = b1
    Manual = manual
    Ninguem = ninguem
    Ordens <- MCOrdens
    DiaDe <- MCDiaDe
    Versoes <- MCVersoes
    VersoesDe <- MCVersoesDe
    Dados <- MCDados
    Jobs <- MCJobs
    Instancias <- MCInstancias
    InstanciaDe <- MCInstanciaDe
    Conexoes <- MCConexoes
    PoolDe <- MCPoolDe
    Riscos <- SemRiscos
    MaxVezes = 2
    MaxQuedas = 1
    MaxFalhas = 1
    PrimeiroDia = 4
    MaxDia = 5
SPECIFICATION Spec
CHECK_DEADLOCK FALSE
INVARIANTS TypeOK SomadaUmaVez SomaConfere MudancaAuditada DivergenciaVisivel PagaNoDiaDaJanela
PROPERTIES NaoAlteraContida
