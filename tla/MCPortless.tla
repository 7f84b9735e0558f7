------------------------------ MODULE MCPortless ------------------------------
EXTENDS Portless
=============================================================================
