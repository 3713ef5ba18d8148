CONSTANTS
    p1 = p1
    p2 = p2
    filhaVelha = filhaVelha
    filhaNova = filhaNova
    Pagamentos <- MCPagamentos
    Filhas <- MCFilhas
    FilhasAntigas <- MCFilhasAntigas
    FilhasDe <- MCFilhasDe
    Chave <- MCChave
    Intersul <- MCIntersul
    Ninguem = Ninguem
    Leitores = {l1, l2}
    CodigosInclusao <- SoBD
    Recusa = "AL"
    ErrosDeLote <- LoteHF
    BancoEspera = FALSE
    MaxArquivos = 3
    MaxQuedas = 1
    MaxFalhas = 1
SYMMETRY Simetria
SPECIFICATION Spec
INVARIANTS TravaCorreta BaixaSoComCredito AcrescimoNoMaximoUmaVez
PROPERTY ImplementaConciliacao
