CONSTANTS
    A = A
    B = B
    a1 = a1
    a2 = a2
    b1 = b1
    modais = modais
    guardadores = guardadores
    outra = outra
    Instancias <- MCInstancias
    Conexoes <- MCConexoes
    PoolDe <- MCPoolDe
    Execucoes <- MCExecucoes
    InstanciaDe <- MCInstanciaDe
    Ninguem = Ninguem
    Riscos <- MesmaConexao
    MaxVezes = 6
    MaxQuedas = 2
SPECIFICATION Spec
CHECK_DEADLOCK FALSE
INVARIANTS TravaCobre UmaInstanciaPorVez
