----------------------------- MODULE MCVariants -----------------------------
(***************************************************************************)
(* A small instance of Variants; the third variant is there for a call to  *)
(* find a default that no call has as its target.                          *)
(***************************************************************************)
EXTENDS Variants
=============================================================================
