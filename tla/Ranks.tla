------------------------------- MODULE Ranks --------------------------------
(***************************************************************************)
(* Sorting and filtering of a Vec, said by ranks: an entry's place in the  *)
(* result is the number of entries that do not come after it.              *)
(***************************************************************************)
EXTENDS Naturals, FiniteSets

(* The n-th smallest of a finite set of numbers.                           *)
NthOf(S, n) == CHOOSE i \in S : Cardinality({j \in S : j <= i}) = n

(* The entries of s at the places in S, in their order.                    *)
EntriesAt(s, S) == [n \in 1 .. Cardinality(S) |-> s[NthOf(S, n)]]

(* sort_by_key, which is stable: key has the key of each place of s.       *)
SortedByKey(s, key) ==
    [n \in DOMAIN s |->
        s[CHOOSE j \in DOMAIN s :
            n = Cardinality({k \in DOMAIN s :
                    key[k] < key[j] \/ (key[k] = key[j] /\ k <= j)})]]
=============================================================================
