-------------------------- MODULE MCPollerLifecycle --------------------------
(* PollerLifecycle with small sets of starts and stops. *)
EXTENDS PollerLifecycle

CONSTANTS i1, i2, k1, k2

TwoStarts == {i1, i2}
TwoStops == {k1, k2}
==============================================================================
