CONSTANTS
    a = a
    b = b
    c = c
    p1 = p1
    p2 = p2
    p3 = p3
    Pagamentos <- Tres
    Preparadores <- Dois
    Selecao <- SelecaoDosDois
    Ninguem = Ninguem
    Remetentes = {r1}
    Devedores <- Nada
    Divida = 0
    Valor = 1
    Teto = 1
    PrimeiroNsa = 1
    UltimoNsa = 999999
    MaxRecusas = 0
    Riscos <- FalhaNaCopia
    MaxHeaders = 3
    MaxQuedas = 0
    MaxFalhas = 0
SPECIFICATION Spec
CHECK_DEADLOCK FALSE
INVARIANT AbertoNaoEnviado
