--------------------------- MODULE MCArtifactStore ---------------------------
(***************************************************************************)
(* Small instances of ArtifactStore: one name per way of writing and       *)
(* publishers that are interchangeable.                                    *)
(***************************************************************************)
EXTENDS ArtifactStore, TLC

PublisherSymmetry == Permutations(Publishers)
=============================================================================
