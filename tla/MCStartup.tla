------------------------------ MODULE MCStartup ------------------------------
EXTENDS Startup

CONSTANTS b1, b2, x

=============================================================================
