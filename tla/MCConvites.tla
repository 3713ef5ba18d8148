------------------------------ MODULE MCConvites ------------------------------
(***************************************************************************)
(* Three van drivers, one of whom refuses every mail, and three guards:    *)
(* one without association and without permit code, who answers the        *)
(* invite; one with an association, who gives the same address; and one    *)
(* without document, with a row as recent as that of the second.           *)
(***************************************************************************)
EXTENDS Convites

CONSTANTS g1, g2, g3, v1, v2, v3, s1, e1

MCPessoas   == {g1, g2, g3, v1, v2, v3}
MCVanzeiros == {v1, v2, v3}
MCData      == [g \in {g1, g2, g3} |-> IF g = g1 THEN 1 ELSE 2]
MCEmail     == [p \in MCPessoas |-> IF p = g2 THEN g1 ELSE p]
MCIdentificados == {g1, g2}
MCAssociados    == {g2}
MCCompletos     == MCPessoas \ {g1}
MCRecusados == {v3}
MCRespondem == {g1}
MCSincs     == {s1}
MCEnvios    == {e1}
SemRiscos   == {}
=============================================================================
