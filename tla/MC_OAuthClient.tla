----------------------------- MODULE MC_OAuthClient -----------------------------
EXTENDS OAuthClient, TLC
=============================================================================
