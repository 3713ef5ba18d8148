CONSTANTS
    o1 = o1
    o2 = o2
    Ordens <- Duas
    Antigas <- Uma
    Favorecidos <- Todos
    Recusa = "AL"
    ErroDeLote = "HF"
    Riscos <- Nada
    MaxOpas = 3
    MaxEnvios <- Envios
    MaxDias <- Dias
SPECIFICATION Spec
CHECK_DEADLOCK FALSE
INVARIANTS TypeOK PagoNoMaximoUmaVez UmPedidoVivo SoltaNaoPaga LivroNaoMente RespostaAchaSuaLinha PendenteNaoPago PendenciaEhOQueSePaga ContadaUmaVez PagoConfere
