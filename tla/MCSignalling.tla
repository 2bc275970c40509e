---------------------------- MODULE MCSignalling ----------------------------
(* Three connections of two pages: two tabs, or a reload, share a cid.      *)
EXTENDS Signalling

CONSTANTS k1, k2, k3, a, b

MCConn == {k1, k2, k3}
MCCid == {a, b}
MCOwn == [k \in MCConn |-> IF k = k3 THEN b ELSE a]

=============================================================================
