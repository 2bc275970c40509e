---------------------------- MODULE MCOldCidFile ----------------------------
(* One cid in the file the service starts with, one that is not there yet;  *)
(* interchangeable requests.                                                *)
EXTENDS OldCidFile, TLC

CONSTANTS old, test

MCCid == {old, test}
MCOldCids == [c \in MCCid |-> IF c = old THEN "plain" ELSE "absent"]

MCSymmetry == Permutations(Request)

=============================================================================
