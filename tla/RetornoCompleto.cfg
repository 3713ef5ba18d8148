CONSTANTS
    p1 = p1
    p2 = p2
    filhaVelha = filhaVelha
    filhaNova = filhaNova
    Pagamentos <- MCPagamentos
    Filhas <- MCFilhas
    FilhasAntigas <- MCFilhasAntigas
    FilhasDe <- MCFilhasDe
    Chave <- MCChave
    Intersul <- MCIntersul
    Ninguem = Ninguem
    Leitores = {l1, l2}
    CodigosInclusao <- SoBD
    Recusa = "AL"
    ErrosDeLote <- SemErros
    BancoEspera = TRUE
    MaxArquivos = 4
    MaxQuedas = 0
    MaxFalhas = 0
SPECIFICATION FairSpec
INVARIANTS LivrosConferem AcrescimoAplicado FilhasSeguemPai
PROPERTIES TodoArquivoSai CreditoLevaABaixa
