----------------------------- MODULE MCAccounts -----------------------------
EXTENDS Accounts, TLC

CONSTANTS u1, u2, w1, w2, e1, e2, e3, p1, p2
=============================================================================
