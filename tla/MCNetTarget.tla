---------------------------- MODULE MCNetTarget ----------------------------
EXTENDS NetTarget

CONSTANTS c1, c2, s1, s2, r1
MCOrders == {<<c1, c2>>, <<c1, s1>>, <<s2>>, <<r1>>}
=============================================================================
