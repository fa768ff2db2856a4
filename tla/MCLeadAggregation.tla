-------------------------- MODULE MCLeadAggregation -------------------------
(* Instances of LeadAggregation for TLC. *)
EXTENDS LeadAggregation

CONSTANTS e1, e2, e3, v1
=============================================================================
