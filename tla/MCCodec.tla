------------------------------- MODULE MCCodec -------------------------------
EXTENDS Codec

=============================================================================
