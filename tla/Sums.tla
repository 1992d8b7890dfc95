-------------------------------- MODULE Sums --------------------------------
(***************************************************************************)
(* Sums over sequences, as a recursive function: what memory tables and    *)
(* the holders of memory add up to.                                        *)
(***************************************************************************)
EXTENDS Naturals

(* v[1] + ... + v[n] *)
SumTo(v, n) == LET sum[k \in 0 .. n] == IF k = 0 THEN 0 ELSE sum[k - 1] + v[k] IN sum[n]
=============================================================================
