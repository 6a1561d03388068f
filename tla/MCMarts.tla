------------------------------ MODULE MCMarts ------------------------------
(***************************************************************************)
(* A loader of one store and a mart that reads it.                         *)
(***************************************************************************)
EXTENDS Marts, TLC

CONSTANTS load, mart

MCFeeders == [s \in Specs |-> IF s = mart THEN {load} ELSE {}]

StepOf(s) == [spec |-> s, mode |-> "increment"]
\* A wave; the taps of the stores, or of the marts, closed.
Wave1 == <<StepOf(load), StepOf(mart)>>
NoStores == {Wave1, <<StepOf(mart)>>}
NoMarts  == {Wave1, <<StepOf(load)>>}
=============================================================================
