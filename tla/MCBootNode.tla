----------------------------- MODULE MCBootNode -----------------------------
EXTENDS BootNode

CONSTANTS s, b, r, r2, pub, priv, lan

=============================================================================
