------------------------------ MODULE BlockFeed ------------------------------
(***************************************************************************)
(* What the block parser promises to the tables it confirms transactions   *)
(* in: the blocks whose transactions are handled form one branch of the    *)
(* chain, handled from the configured height upwards, every block after    *)
(* its parent, none skipped and none beside another of the same height.    *)
(***************************************************************************)
EXTENDS Integers

CONSTANTS Block, Parent, Height, First

VARIABLE handled    \* the blocks whose transactions have been handled

FeedInit == handled = {}

Handle(b) ==
    /\ \/ handled = {} /\ Height[b] = First
       \/ Parent[b] \in handled
    /\ \A c \in handled : Height[c] < Height[b]
    /\ handled' = handled \union {b}

FeedNext == \E b \in Block : Handle(b)

FeedSpec == FeedInit /\ [][FeedNext]_handled

=============================================================================
