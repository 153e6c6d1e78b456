---------------------------- MODULE MCEntryRadar ----------------------------
(* Small instances of EntryRadar: one key, two keys of two pairs, or two    *)
(* setups of one pair.                                                      *)
EXTENDS EntryRadar, TLC

CONSTANTS k1, k2, p1, p2, r1, r2

OneKey   == k1 :> p1
TwoPairs == k1 :> p1 @@ k2 :> p2

\* Two ticks that are not dry runs.
Symmetry == Permutations({r1, r2})
=============================================================================
