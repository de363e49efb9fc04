---------------------------- MODULE PowersOfTwo -----------------------------
(***************************************************************************)
(* The powers of two, which the code writes as shifts of one.              *)
(***************************************************************************)
EXTENDS Naturals

\* 1 << k, for a word that is wide enough.
Pow2[k \in Nat] == IF k = 0 THEN 1 ELSE 2 * Pow2[k - 1]
=============================================================================
