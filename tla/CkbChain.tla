------------------------------ MODULE CkbChain ------------------------------
(***************************************************************************)
(* The CKB node as this service sees it through GetTipBlockNumber and      *)
(* GetBlockByNumber.  The node is not part of the repository: the module   *)
(* says only what the callers rely on.  A block is known by its hash, a    *)
(* hash determines the parent hash and the height, and the node's best     *)
(* chain gets strictly longer, replacing at most its last MaxReorg blocks. *)
(***************************************************************************)
EXTENDS Integers

CONSTANTS
    Block,      \* block hashes
    Parent,     \* the parent hash in a block's header
    Height,     \* the number in a block's header
    MaxHeight,  \* the highest block the node ever has
    Chains,     \* the chains the node may report, functions of the height
    MaxReorg,   \* the most blocks one reorganisation replaces
    MinTip      \* the least height of the chain when the service first starts

ASSUME ChainAssumption ==
    /\ MaxHeight \in Nat
    /\ MaxReorg \in Nat
    /\ MinTip \in Nat
    /\ Parent \in [Block -> Block]
    /\ Height \in [Block -> Nat]
    /\ \A c \in Chains : \E t \in 0..MaxHeight :
          /\ DOMAIN c = 0..t
          /\ \A n \in 0..t : c[n] \in Block /\ Height[c[n]] = n
          /\ \A n \in 1..t : Parent[c[n]] = c[n - 1]

VARIABLES
    chain,      \* the best chain: the hash at every height up to the tip
    tip         \* the height GetTipBlockNumber returns

chainVars == <<chain, tip>>

ChainTypeOK ==
    /\ tip \in 0..MaxHeight
    /\ chain \in Chains
    /\ DOMAIN chain = 0..tip

ChainInit ==
    /\ tip \in MinTip..MaxHeight
    /\ chain \in Chains
    /\ DOMAIN chain = 0..tip

\* The node learns of a longer chain, which may leave the old one up to
\* MaxReorg blocks below the old tip.
Advance ==
    \E c \in Chains, t \in (tip + 1)..MaxHeight :
        /\ DOMAIN c = 0..t
        /\ \A n \in 0..(tip - MaxReorg) : c[n] = chain[n]
        /\ chain' = c
        /\ tip' = t

=============================================================================
