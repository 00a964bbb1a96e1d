------------------------------- MODULE MCSift -------------------------------
EXTENDS Sift
=============================================================================
