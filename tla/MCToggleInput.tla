--------------------------- MODULE MCToggleInput ---------------------------
(* Every configuration of the input.                                       *)
EXTENDS ToggleInput

AllConfigs == {c \in Config : c.used}
=============================================================================
