------------------------------- MODULE Powers -------------------------------
(* 1 << k, by doubling.                                                     *)
EXTENDS Naturals

PowerOf2[k \in Nat] == IF k = 0 THEN 1 ELSE 2 * PowerOf2[k - 1]
=============================================================================
