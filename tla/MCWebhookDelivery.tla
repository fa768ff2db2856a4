------------------------- MODULE MCWebhookDelivery --------------------------
(***************************************************************************)
(* Small instances of WebhookDelivery.                                     *)
(***************************************************************************)
EXTENDS WebhookDelivery

CONSTANTS h1, h2, w1, w2

\* Two back-offs of different length.
MCBackoff == <<1, 2>>
=============================================================================
