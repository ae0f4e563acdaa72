------------------------------ MODULE MCDaliDriver ------------------------------
EXTENDS DaliDriver
=============================================================================
