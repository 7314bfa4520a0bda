------------------------- MODULE MCHubProvisioning -------------------------
EXTENDS HubProvisioning, TLC

CONSTANTS u1, u2, d1, d2, w1, w2
=============================================================================
