----------------------------- MODULE MCTraffic -----------------------------
EXTENDS Traffic
MCOrder == <<"https", "admin">>
=============================================================================
