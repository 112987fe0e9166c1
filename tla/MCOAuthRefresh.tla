--------------------------- MODULE MCOAuthRefresh ---------------------------
\* Sessions of the Claude OAuth broker for TLC.
EXTENDS OAuthRefresh, TLC
=============================================================================
