------------------------------ MODULE MCGsBridge ------------------------------
EXTENDS GsBridge
=============================================================================
