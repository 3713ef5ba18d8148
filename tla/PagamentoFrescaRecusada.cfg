CONSTANTS
    o1 = o1
    o2 = o2
    Ordens <- Uma
    Antigas <- Uma
    Favorecidos <- SoPermissionario
    Recusa = "AL"
    ErroDeLote = "HF"
    Riscos <- Nada
    MaxOpas = 2
    MaxEnvios <- Envios
    MaxDias <- Dias
SPECIFICATION Spec
CHECK_DEADLOCK FALSE
INVARIANT FalhaContinuaElegivel
