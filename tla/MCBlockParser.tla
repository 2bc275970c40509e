---------------------------- MODULE MCBlockParser ----------------------------
(* Small chains for BlockParser.  A hash commits to all its ancestors, so a  *)
(* block is the sequence of the choices made from the genesis block up to it: *)
(* 0 for the first block a parent got, 1 for a competing one.                *)
EXTENDS BlockParser, Sequences, FiniteSets

CONSTANTS
    TopHeight,      \* MaxHeight
    MaxForks,       \* competing blocks on one chain
    ForkHeights     \* the heights at which there are competing blocks

Hashes ==
    UNION {{s \in [1..(n + 1) -> {0, 1}] :
              /\ \A i \in 1..(n + 1) : s[i] = 1 => i - 1 \in ForkHeights
              /\ Cardinality({i \in 1..(n + 1) : s[i] = 1}) <= MaxForks}
           : n \in 0..TopHeight}

ParentOf == [b \in Hashes |-> IF Len(b) = 1 THEN b ELSE SubSeq(b, 1, Len(b) - 1)]

HeightOf == [b \in Hashes |-> Len(b) - 1]

AllChains == {[n \in 0..(Len(b) - 1) |-> SubSeq(b, 1, n + 1)] : b \in Hashes}

\* TLC evaluates a definition that stands for a constant at every use of the
\* constant, and one that only names another definition costs nothing.
MCBlock == Hashes
MCParent == ParentOf
MCHeight == HeightOf
MCChains == AllChains

=============================================================================
