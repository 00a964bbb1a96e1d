---------------------------- MODULE MCVoipSession ----------------------------
EXTENDS VoipSession
=============================================================================
