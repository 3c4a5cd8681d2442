------------------------------- MODULE MCWebhook -------------------------------
EXTENDS Webhook

CONSTANTS b1, b2

MCOffsets == {-1, 0, 2, 12}
=============================================================================
