--------------------------- MODULE MCIngestRunner ---------------------------
(***************************************************************************)
(* Small instances of IngestRunner.  Target 1 publishes version 1 and then *)
(* version 2, which keeps its first group and adds one; target 2 publishes *)
(* only version 3.  Two-row groups with batch sizes 1 and 2 give shards    *)
(* that share a start but not an end.                                      *)
(***************************************************************************)
EXTENDS IngestRunner, TLC

MCTargets == {1, 2}
MCContents == {1, 2, 3}
MCYields == <<{1, 2}, {3}>>
MCGroupSizes == <<<<2>>, <<2, 1>>, <<1>>>>
MCBatchSizes == {1, 2}
MCProcs == {"runner"}

\* One target only, for the run with two concurrent processes.
OneTarget == {1}
OneYields == <<{1, 2}>>
OneContents == {1, 2}
OneGroupSizes == <<<<2>>, <<2, 1>>>>
TwoSymmetric == Permutations(Procs)
=============================================================================
