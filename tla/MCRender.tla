------------------------------ MODULE MCRender ------------------------------
(***************************************************************************)
(* Small instances of Render.                                              *)
(***************************************************************************)
EXTENDS Render, TLC

RenderOps == Rendering
ObjectOps == Rendering \cup {"deactivate"}
LostAnswers == {"lost"}

\* Authors who write no state; who write anything; who write a placeholder for it.
Stateless == {{None}}
AnyState == AllContents
Placeholder == {State}

\* Calls, passes and variants are interchangeable.
Symmetry ==
    Permutations(Request) \cup Permutations(Pass) \cup Permutations(Variant)
=============================================================================
