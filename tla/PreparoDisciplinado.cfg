CONSTANTS
    a = a
    b = b
    c = c
    p1 = p1
    p2 = p2
    p3 = p3
    Pagamentos <- Tres
    Preparadores <- OsTres
    Selecao <- SelecaoDosTres
    Ninguem = Ninguem
    Remetentes = {r1}
    Devedores <- OsQueDevem
    Divida = 3
    Valor = 3
    Teto = 2
    PrimeiroNsa = 999998
    UltimoNsa = 999999
    MaxRecusas = 1
    Riscos <- Nada
    MaxHeaders = 3
    MaxQuedas = 2
    MaxFalhas = 1
SPECIFICATION Spec
CHECK_DEADLOCK FALSE
INVARIANTS PedidoUmaVez PedidoNoLivro NadaFicaParaTras AbertoNaoEnviado NsaUnico DividaConfere
