------------------------- MODULE MCWebhookDispatch -------------------------
(* WebhookDispatch on a few events of one trigger.                         *)
EXTENDS WebhookDispatch, TLC

ReceiptSymmetry == Permutations(Receipts)
=============================================================================
