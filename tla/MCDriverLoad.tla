---------------------------- MODULE MCDriverLoad ----------------------------
EXTENDS DriverLoad
=============================================================================
