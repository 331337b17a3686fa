------------------------ MODULE MCContextAwareEval ------------------------
(* Small instances of ContextAwareEval for TLC.                            *)
EXTENDS ContextAwareEval

CONSTANTS k1, k2, w1, w2

MCKinds == {k1, k2}
MCWorkers == {w1, w2}
MCAllowedResources == <<k1, k2>>

=============================================================================
