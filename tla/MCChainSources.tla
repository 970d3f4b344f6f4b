--------------------------- MODULE MCChainSources ---------------------------
(* Instances of ChainSources for TLC.                                      *)
EXTENDS ChainSources
=============================================================================
