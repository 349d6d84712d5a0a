--------------------------- MODULE MCLayerSettings ---------------------------
EXTENDS LayerSettings

MCDefault ==
  [enabled |-> [layer \in Layers |-> TRUE],
   value |-> [name \in Numbers |-> IF name = "max_delay_ms" THEN 2 ELSE 1]]
=============================================================================
