\* Payloads of up to 3 bytes over two byte values, with the read cap scaled
\* down to 2 so that a payload longer than the cap is sent too; the response
\* cap is 2 so that, as with 100 in the code, one response byte is read to
\* end of stream.  The exchange ends, so terminal states are not deadlocks.
CONSTANTS
  Bytes = {0, 1}
  MaxLen = 3
  ReadCap = 2
  RespCap = 2
SPECIFICATION Spec
INVARIANT RoundTrip
CHECK_DEADLOCK FALSE
