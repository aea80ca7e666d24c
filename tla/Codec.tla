------------------------------- MODULE Codec -------------------------------
(***************************************************************************)
(* The legacy request/response codec of transport.rs (MessageCodec) on one *)
(* substream: the dialer's write_request and read_response, the listener's *)
(* read_request and write_response.  A request is an 8-byte big-endian     *)
(* length header followed by the payload; the listener reads at most       *)
(* ReadCap payload bytes (100 MiB in the code) and only warns on a length  *)
(* mismatch.  The response is one byte, read with a cap of RespCap (100).  *)
(*                                                                         *)
(* Around the codec, request_response (not in this repository) writes the  *)
(* request, closes the write side and reads the response; on the listener  *)
(* it hands the request to handle_request_event and either writes the      *)
(* response and closes, or closes without one when the response channel   *)
(* is dropped.  The substream can be reset at any time.                    *)
(***************************************************************************)
EXTENDS Naturals, Sequences, SequencesExt

CONSTANTS
    Bytes,      \* payload byte values (abstracted to a few)
    MaxLen,     \* longest payload the dialer sends
    ReadCap,    \* read_request's take() limit, 100 * 1024 * 1024 in the code
    RespCap     \* read_response's take() limit, 100 in the code

HeaderLen == 8    \* size_of::<u64>()

ASSUME ReadCap \in Nat /\ RespCap \in Nat \ {0} /\ MaxLen \in Nat

VARIABLES
    payload,     \* the request the dialer writes
    sent,        \* frame bytes written so far (write_all may write in parts)
    wire,        \* bytes in flight from dialer to listener
    wclosed,     \* dialer closed its write side after write_request
    reset,       \* the substream was reset
    rstate,      \* listener: "header", "body", "delivered", "answered", "error"
    hdr,         \* length read from the header
    rbuf,        \* payload the listener delivered
    accepted,    \* handle_request_event accepted the request and answered
    resp,        \* bytes in flight from listener to dialer
    respClosed,  \* listener closed its side
    sout         \* dialer's outcome: "pending", "ok", "error"

vars == <<payload, sent, wire, wclosed, reset, rstate, hdr, rbuf,
          accepted, resp, respClosed, sout>>

(* u64::to_be_bytes and u64::from_be_bytes over w bytes *)
RECURSIVE ToBE(_, _)
ToBE(n, w) == IF w = 0 THEN <<>> ELSE ToBE(n \div 256, w - 1) \o <<n % 256>>

FromBE(s) == FoldLeft(LAMBDA acc, b : acc * 256 + b, 0, s)

(* write_request: the length header, then the payload *)
Frame(p) == ToBE(Len(p), HeaderLen) \o p

MinOf(a, b) == IF a <= b THEN a ELSE b

Init ==
    /\ payload \in BoundedSeq(Bytes, MaxLen)
    /\ sent = 0
    /\ wire = <<>>
    /\ wclosed = FALSE
    /\ reset = FALSE
    /\ rstate = "header"
    /\ hdr = 0
    /\ rbuf = <<>>
    /\ accepted = FALSE
    /\ resp = <<>>
    /\ respClosed = FALSE
    /\ sout = "pending"

-----------------------------------------------------------------------------
(* Dialer *)

(* write_all(&msg_len) and write_all(req): k more bytes of the frame *)
WriteRequest(k) ==
    /\ ~reset /\ sout = "pending"
    /\ sent + k <= Len(Frame(payload))
    /\ wire' = wire \o SubSeq(Frame(payload), sent + 1, sent + k)
    /\ sent' = sent + k
    /\ UNCHANGED <<payload, wclosed, reset, rstate, hdr, rbuf, accepted,
                   resp, respClosed, sout>>

(* write_request returned Ok: the write side is closed *)
CloseWrite ==
    /\ ~reset /\ ~wclosed
    /\ sent = Len(Frame(payload))
    /\ wclosed' = TRUE
    /\ UNCHANGED <<payload, sent, wire, reset, rstate, hdr, rbuf, accepted,
                   resp, respClosed, sout>>

(* read_response: read_to_end on take(100), whatever it read, is Ok(0) *)
ReadResponse ==
    /\ wclosed /\ sout = "pending"
    /\ sout' = IF reset THEN "error"
               ELSE IF respClosed \/ Len(resp) >= RespCap THEN "ok"
               ELSE sout
    /\ sout' # sout
    /\ UNCHANGED <<payload, sent, wire, wclosed, reset, rstate, hdr, rbuf,
                   accepted, resp, respClosed>>

(* a write on a reset substream fails *)
WriteFails ==
    /\ reset /\ ~wclosed /\ sout = "pending"
    /\ sout' = "error"
    /\ UNCHANGED <<payload, sent, wire, wclosed, reset, rstate, hdr, rbuf,
                   accepted, resp, respClosed>>

-----------------------------------------------------------------------------
(* Listener *)

(* read_request, read_exact of the 8-byte header: UnexpectedEof or reset *)
(* is an error                                                           *)
ReadHeader ==
    /\ rstate = "header"
    /\ \/ /\ ~reset /\ Len(wire) >= HeaderLen
          /\ hdr' = FromBE(SubSeq(wire, 1, HeaderLen))
          /\ wire' = SubSeq(wire, HeaderLen + 1, Len(wire))
          /\ rstate' = "body"
       \/ /\ reset \/ (wclosed /\ Len(wire) < HeaderLen)
          /\ rstate' = "error"
          /\ UNCHANGED <<hdr, wire>>
    /\ UNCHANGED <<payload, sent, wclosed, reset, rbuf, accepted, resp,
                   respClosed, sout>>

(* mutant: read_to_end without the take() cap *)
ReadBodyUncapped ==
    /\ rstate = "body" /\ ~reset /\ wclosed
    /\ rbuf' = wire /\ wire' = <<>> /\ rstate' = "delivered"
    /\ UNCHANGED <<payload, sent, wclosed, reset, hdr, accepted, resp,
                   respClosed, sout>>

(* read_request, take(ReadCap).read_to_end: returns at the cap or at end *)
(* of stream; a length mismatch is only logged                           *)
ReadBody ==
    /\ rstate = "body"
    /\ \/ /\ ~reset
          /\ Len(wire) >= ReadCap \/ wclosed
          /\ rbuf' = SubSeq(wire, 1, MinOf(Len(wire), ReadCap))
          /\ wire' = SubSeq(wire, Len(rbuf') + 1, Len(wire))
          /\ rstate' = "delivered"
       \/ /\ reset
          /\ rstate' = "error"
          /\ UNCHANGED <<rbuf, wire>>
    /\ UNCHANGED <<payload, sent, wclosed, reset, hdr, accepted, resp,
                   respClosed, sout>>

(* handle_request_event: on a successful try_send, send_response(1u8),   *)
(* which write_response writes as one byte; otherwise the channel is     *)
(* dropped.  Either way the substream is then closed.                    *)
HandleRequest ==
    /\ rstate = "delivered" /\ ~reset
    /\ \E ok \in BOOLEAN :
          /\ accepted' = ok
          /\ resp' = IF ok THEN Append(resp, 1) ELSE resp
    /\ respClosed' = TRUE
    /\ rstate' = "answered"
    /\ UNCHANGED <<payload, sent, wire, wclosed, reset, hdr, rbuf, sout>>

-----------------------------------------------------------------------------
(* Environment: the connection or the peer resets the substream *)
Reset ==
    /\ ~reset /\ sout = "pending"
    /\ reset' = TRUE
    /\ UNCHANGED <<payload, sent, wire, wclosed, rstate, hdr, rbuf, accepted,
                   resp, respClosed, sout>>

Next ==
    \/ \E k \in 1..(HeaderLen + MaxLen) : WriteRequest(k)
    \/ CloseWrite \/ ReadResponse \/ WriteFails
    \/ ReadHeader \/ ReadBody \/ HandleRequest
    \/ Reset

Spec == Init /\ [][Next]_vars

-----------------------------------------------------------------------------
(* Framing round trip (spec 4.3 and 8): whatever the split of the writes *)
(* and wherever a reset falls, a payload the listener delivers carries   *)
(* the header's length and is the sent payload cut at the read cap, so a *)
(* payload of at most the cap comes back unchanged.                       *)
RoundTrip ==
    rstate \in {"delivered", "answered"} =>
        /\ hdr = Len(payload)
        /\ rbuf = SubSeq(payload, 1, MinOf(Len(payload), ReadCap))

=============================================================================
