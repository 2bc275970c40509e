------------------------------ MODULE MCKeyList ------------------------------
(* KeyList with interchangeable requests, transactions and backup devices.  *)
EXTENDS KeyList, TLC

MCSymmetry ==
    Permutations(Tx) \union Permutations(Request)
        \union Permutations(Device \ {Master})

\* Beyond this keylist_edits does not go: one list made, every update still in
\* the cache, and no row of an accepted one missing.  An update that expired can
\* only be sent no more, and on rows no list depends.
OneListAllKept ==
    /\ Cardinality({t \in Built : cell[t].op = "create"}) <= 1
    /\ \A t \in Built : cell[t].op = "create" \/ t \in cached
    /\ \A t \in Tx : sends[t] > 0 => t \in recording \/ row[t] # "absent"

=============================================================================
