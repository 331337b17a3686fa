------------------------ MODULE MCConcurrentRouter ------------------------
(* Two workers sharing one context-aware resource, served by spawned      *)
(* router tasks.                                                          *)
EXTENDS ConcurrentRouter

CONSTANTS k1, w1, w2

MCKinds == {k1}
MCWorkers == {w1, w2}
MCAllowedResources == <<k1>>

=============================================================================
