--------------------------- MODULE MCConfirmations ---------------------------
(* Small chains for Confirmations.  A block is the sequence of the sets of   *)
(* transactions in it and its ancestors, the genesis block first: competing  *)
(* blocks differ in what they or their ancestors hold.                       *)
EXTENDS Confirmations, Sequences

CONSTANTS TopHeight     \* MaxHeight

Hashes ==
    UNION {{b \in [1..(n + 1) -> SUBSET Tx] :
              /\ \A i \in 1..(n + 1) : i <= ConfigStart + 1 => b[i] = {}
              /\ \A i, j \in 1..(n + 1) : b[i] \intersect b[j] # {} => i = j}
           : n \in 0..TopHeight}

ParentOf == [b \in Hashes |-> IF Len(b) = 1 THEN b ELSE SubSeq(b, 1, Len(b) - 1)]

HeightOf == [b \in Hashes |-> Len(b) - 1]

AllChains == {[n \in 0..(Len(b) - 1) |-> SubSeq(b, 1, n + 1)] : b \in Hashes}

ContentsOf == [b \in Hashes |-> b[Len(b)]]

\* TLC evaluates a definition that stands for a constant at every use of the
\* constant, and one that only names another definition costs nothing.
MCBlock == Hashes
MCParent == ParentOf
MCHeight == HeightOf
MCChains == AllChains
MCTxIn == ContentsOf

=============================================================================
