CONSTANTS
    g1 = g1
    g2 = g2
    g3 = g3
    v1 = v1
    v2 = v2
    v3 = v3
    s1 = s1
    e1 = e1
    Ninguem = ninguem
    Pessoas <- MCPessoas
    Vanzeiros <- MCVanzeiros
    Data <- MCData
    Email <- MCEmail
    Identificados <- MCIdentificados
    Associados <- MCAssociados
    Completos <- MCCompletos
    Recusados <- MCRecusados
    Respondem <- MCRespondem
    Sincs <- MCSincs
    Envios <- MCEnvios
    Riscos <- SemRiscos
    Quota = 2
    MaxGeracoes = 2
    MaxReenvios = 1
    MaxFalhas = 1
SPECIFICATION Spec
INVARIANTS NenhumaLinhaPulada UsuarioTemConvite QuotaRespeitada RecebeuPodeConcluir
PROPERTIES ConviteUsadoNaoVolta TodoConviteSai
