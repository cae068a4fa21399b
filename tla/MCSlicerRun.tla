---------------------------- MODULE MCSlicerRun ----------------------------
(* SlicerRun for TLC: interchangeable runs, and the bounds of exploration. *)
EXTENDS SlicerRun, TLC

CONSTANTS MaxInFlight,      \* requests on the wire at once
          MaxLaterProgress  \* progress updates of a run that is not the first

Claimed == {r \in Runs : srv[r] # "queued"}

ExplorationBound ==
    /\ Cardinality(net) <= MaxInFlight
    /\ Cardinality(Claimed) > 1 => progress <= MaxLaterProgress

RunSymmetry == Permutations(Runs)
=============================================================================
