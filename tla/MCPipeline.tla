----------------------------- MODULE MCPipeline -----------------------------
(* Pipeline on small instances: all three exercises, chosen in Init.        *)
EXTENDS Pipeline, TLC
=============================================================================
