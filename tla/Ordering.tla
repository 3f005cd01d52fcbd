------------------------------ MODULE Ordering ------------------------------
(* Sequences made from sets and from other sequences without recursion.    *)
EXTENDS Naturals, Sequences, FiniteSets

\* the members of a set by ascending rank; no two of them have the same
InOrder(set, rank) ==
    [n \in 1 .. Cardinality(set) |->
        CHOOSE x \in set : Cardinality({y \in set : rank[y] < rank[x]}) = n - 1]

\* the elements of a sequence at some of its positions
Only(seq, positions) ==
    LET kept == InOrder(positions, [i \in positions |-> i]) IN
    [n \in DOMAIN kept |-> seq[kept[n]]]
==============================================================================
