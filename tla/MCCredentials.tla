---------------------------- MODULE MCCredentials ----------------------------
(***************************************************************************)
(* Small instances of Credentials: three certificates for one key, the     *)
(* third with other metadata (its NFC extension, say), and one for another *)
(* key.                                                                    *)
(***************************************************************************)
EXTENDS Credentials, TLC

CONSTANTS k1, k2, c1, c2, c3, c4

Keys == {k1, k2}
Certs == {c1, c2, c3, c4}
Keyed == [c \in Certs |-> IF c = c4 THEN k2 ELSE k1]
Described == [c \in Certs |-> c \in {c3, c4}]

Symmetry == Permutations(Request) \cup Permutations(Set) \cup Permutations({c1, c2})
=============================================================================
