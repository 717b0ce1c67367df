-------------------------- MODULE MCBundlePipeline --------------------------
(***************************************************************************)
(* Small instances of BundlePipeline.  Target 1 serves document 1 and then *)
(* its amendment 2, target 2 serves document 3.  Document 1 yields two     *)
(* records under either inputs, so that batch sizes 1 and 2 cut it         *)
(* differently; the others yield one, edited raw bytes none.               *)
(***************************************************************************)
EXTENDS BundlePipeline, TLC

\* Two targets, the first with an amendment.
TwoTargets == {1, 2}
TwoRaws == {1, 2, 3}
TwoPublish == <<{1, 2}, {3}>>

\* One target with an amendment.
OneTarget == {1}
OneRaws == {1, 2}
OnePublish == <<{1, 2}>>

\* One target that never changes.
StillRaws == {1}
StillPublish == <<{1}>>

OneInput == {1}
TwoInputs == {1, 2}
OneRelease == {1}
TwoReleases == {1, 2}
MCRowCount == [x \in Bytes \X Inputs |->
                  CASE x[1] = 1 -> 2 [] x[1] = Junk -> 0 [] OTHER -> 1]

LoaderSymmetry == Permutations(Loaders)
=============================================================================
