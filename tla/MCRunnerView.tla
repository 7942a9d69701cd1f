---------------------------- MODULE MCRunnerView ----------------------------
(* Small instances of RunnerView for TLC. *)
EXTENDS RunnerView

CONSTANTS r1, r2

MCCat == {"f", "unc"}
MCInitial == {[id |-> "a", cat |-> "f"], [id |-> "b", cat |-> "unc"]}
MCTyped == {None, [id |-> "b", cat |-> None]}
MCBatches == {{[id |-> "a", cat |-> "f"]}, {[id |-> "a", cat |-> "unc"]}, MCInitial}
=============================================================================
