---------------------------- MODULE MCAutoReview ----------------------------
(* Instances of AutoReview for TLC. *)
EXTENDS AutoReview

CONSTANTS p1, p2, p3, r1, r2
=============================================================================
