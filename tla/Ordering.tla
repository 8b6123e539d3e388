------------------------------ MODULE Ordering ------------------------------
(***************************************************************************)
(* g_ptr_array_sort() and g_ptr_array_sort_with_data() of GLib, which are  *)
(* stable sorts, as what they return.                                      *)
(***************************************************************************)
EXTENDS Integers, FiniteSets

\* A finite set in the order of the pairs R: each element comes after as many as are
\* before it.
InOrder(S, R) ==
    [k \in 1 .. Cardinality(S) |->
        CHOOSE i \in S : Cardinality({j \in S : <<j, i>> \in R}) = k - 1]
=============================================================================
