------------------------------ MODULE MCFlows ------------------------------
(***************************************************************************)
(* A loader of one store, a transformer that reads it and writes another,  *)
(* and the plans made of them.                                             *)
(***************************************************************************)
EXTENDS Flows, TLC

CONSTANTS load, trans

MCFeeders == [s \in Specs |-> IF s = load THEN {} ELSE {load}]

\* The loader alone, or with a reader behind it.
StepOf(s) == [spec |-> s, mode |-> "increment"]
Short  == {<<StepOf(load)>>}
Layers == {<<StepOf(load), StepOf(trans)>>}
=============================================================================
