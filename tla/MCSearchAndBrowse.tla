-------------------------- MODULE MCSearchAndBrowse --------------------------
(* Instances of SearchAndBrowse for TLC. *)
EXTENDS SearchAndBrowse

CONSTANTS artists, first, second, elsewhere, a1, a2, t1, t2, q, bad

\* two artists, whose tracks are shown one level down
MCContent == [t \in Paths |-> CASE t = artists -> <<a1, a2>>
                                [] t = first -> <<t1>>
                                [] t = second -> <<t2>>
                                [] t = elsewhere -> <<>>
                                [] OTHER -> <<t1, t2>>]
\* a track taken for an artist leads to a path without content
MCChild == [t \in Browsable |-> [r \in Rows |->
               CASE r = a1 -> first [] r = a2 -> second [] OTHER -> elsewhere]]
MCParent == [t \in Types |-> IF t = artists THEN NoType ELSE artists]
MCMatching == [x \in Queries |-> [t \in Paths |->
                  SelectSeq(MCContent[t], LAMBDA row : row \in {a2, t1})]]
==============================================================================
