------------------------------ MODULE MCRecovery ------------------------------
\* Instances of Recovery for TLC: the ids of the contents, in the order accepted.
EXTENDS Recovery

CONSTANTS a, b

AAKeyOf == <<a, a>>
=============================================================================
