--------------------------- MODULE MCLeaseTable ---------------------------
(* Instances of LeaseTable for TLC.                                        *)
EXTENDS LeaseTable, TLC

CONSTANTS r1, r2, r3, h1, h2

(* Two spellings of one relation, and a relation of its own.               *)
TwoSpellings == (r1 :> {h1}) @@ (r2 :> {h1}) @@ (r3 :> {h2})

(* No definition tells one lease object from another.                      *)
Interchangeable == Permutations(Lease)

==========================================================================
