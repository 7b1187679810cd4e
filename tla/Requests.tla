-------------------------------- MODULE Requests --------------------------------
(* The HTTP requests of a behaviour, each with its own goroutine. *)
EXTENDS FiniteSets

CONSTANT Request

ASSUME RequestAssumption == IsFiniteSet(Request)
===============================================================================
