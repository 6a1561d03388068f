------------------------------ MODULE MCBuilds ------------------------------
(***************************************************************************)
(* A loader of store da, a transformer of store db that reads da, and a    *)
(* mart that reads db.                                                     *)
(***************************************************************************)
EXTENDS Builds, TLC

CONSTANTS load, trans, mart, da, db, dm

MCDatasetOf == [s \in Specs |-> IF s = load THEN da
                                ELSE IF s = trans THEN db ELSE dm]
MCSourcesOf == [s \in Specs |-> IF s = load THEN {}
                                ELSE IF s = trans THEN {da} ELSE {db}]
MCModesOf == [s \in Specs |-> IF s = load THEN {"increment"}
                              ELSE IF s = trans THEN {"increment", "clean"}
                              ELSE {"skip"}]
=============================================================================
