---------------------------- MODULE MCDatasetSync ----------------------------
(***************************************************************************)
(* Instances of DatasetSync for TLC, with two paths: path 1 changes its    *)
(* object from c1 to c2, and path 2 is new.                                *)
(***************************************************************************)
EXTENDS DatasetSync, TLC

CONSTANTS o1, o2, c1, c2

TwoCommits  == {c1, c2}
MCManifest  == c1 :> (1 :> o1) @@ c2 :> (1 :> o2 @@ 2 :> o1)
MCObjects   == {o1, o2}
MCPublished == {o1}

ForeignOnly == {"foreign"}
AllFaults   == FaultKinds

=============================================================================
