-------------------------- MODULE MCOpenTokSession --------------------------
EXTENDS OpenTokSession
=============================================================================
