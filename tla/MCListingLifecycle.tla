------------------------- MODULE MCListingLifecycle -------------------------
(***************************************************************************)
(* Small instances of ListingLifecycle: the constants and the rows the     *)
(* insert paths leave behind at time 0.                                    *)
(***************************************************************************)
EXTENDS ListingLifecycle

\* _new_listing_lifecycle_fields with the status _initial_listing_status.
Created(status) ==
    [status |-> status, isApproved |-> FALSE, createdAt |-> 0,
     expiresAt |-> Expiry, expiredAt |-> Null,
     retentionAt |-> Expiry + Retention, deadline |-> Null,
     soldStatus |-> Null, soldSetAt |-> Null, extendedAt |-> Null,
     archived |-> FALSE, deleted |-> FALSE, autoRemoved |-> FALSE,
     reminderSent |-> FALSE, expiredSent |-> FALSE]

\* A dealer feed inserts a live row without lifecycle columns.
Imported ==
    [Created("active") EXCEPT !.isApproved = TRUE, !.expiresAt = Null,
                              !.retentionAt = Null]

MCRows == {Created("pending"), Imported}
=============================================================================
