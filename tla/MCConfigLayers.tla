--------------------------- MODULE MCConfigLayers ---------------------------
(* A model of 384 dimensions, which is the default, and one of 768. *)
EXTENDS ConfigLayers

CONSTANTS small, large

TwoModels == {small, large}
ModelLengths == [m \in TwoModels |-> IF m = small THEN 384 ELSE 768]
=============================================================================
