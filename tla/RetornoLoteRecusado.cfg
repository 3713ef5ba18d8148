CONSTANTS
    p1 = p1
    p2 = p2
    filhaVelha = filhaVelha
    filhaNova = filhaNova
    Pagamentos <- SoPagamentos
    Filhas <- MCFilhas
    FilhasAntigas <- MCFilhasAntigas
    FilhasDe <- SoFilhasDe
    Chave <- SoChave
    Intersul <- SoIntersul
    Ninguem = Ninguem
    Leitores = {l1}
    CodigosInclusao <- SoBD
    Recusa = "AL"
    ErrosDeLote <- LoteHF
    BancoEspera = TRUE
    MaxArquivos = 1
    MaxQuedas = 0
    MaxFalhas = 0
SPECIFICATION Spec
INVARIANT FilhasSeguemPai
