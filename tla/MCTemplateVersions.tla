------------------------ MODULE MCTemplateVersions ------------------------
(***************************************************************************)
(* Small instances of TemplateVersions: one variant, whose ids are all of  *)
(* Version, on the wallet platform the cfg chooses.                        *)
(***************************************************************************)
EXTENDS TemplateVersionsRefinement, TLC

MCVariant == {"x"}
MCVariantOf == [v \in Version |-> "x"]

PublishOps == {"create", "publish"}

\* Requests, ids and row ids are interchangeable.
Symmetry ==
    Permutations(Request) \cup Permutations(Version) \cup Permutations(RowId)
=============================================================================
