----------------------------- MODULE MCCampaign -----------------------------
EXTENDS Campaign

CONSTANTS r1, r2

TwoRefreshers == {r1, r2}
=============================================================================
