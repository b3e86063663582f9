---------------------------- MODULE MCProxyPool ----------------------------
EXTENDS ProxyPool

CONSTANTS own, p1, p2, p3

MCExplicit == {own}
MCOffers == <<<<p1, p2>>, <<p3>>>>
=============================================================================
