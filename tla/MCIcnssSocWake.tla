---------------------------- MODULE MCIcnssSocWake ----------------------------
\* Three threads of the host driver.
EXTENDS IcnssSocWake

CONSTANTS u1, u2, u3
MCUsers == {u1, u2, u3}

===============================================================================
