-------------------------- MODULE MCDealerApproval --------------------------
(* Small instances of DealerApproval. *)
EXTENDS DealerApproval

CONSTANTS t1, t2, x1, u1, u2, w1, w2
=============================================================================
