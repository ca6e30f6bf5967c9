------------------------- MODULE MCFederationRelay -------------------------
EXTENDS FederationRelay
=============================================================================
