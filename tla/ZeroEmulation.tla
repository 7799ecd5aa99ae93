--------------------------- MODULE ZeroEmulation ---------------------------
(***************************************************************************)
(* emulate_zero: zero() on a server without native zeroing sends a PUT    *)
(* whose headers announce count bytes, then streams the body from one      *)
(* zero-filled bytearray of 128 KiB: full buffers while count exceeds the *)
(* buffer, then a memoryview of the remaining count bytes.  A              *)
(* BrokenPipeError while sending (the server already answered and closed  *)
(* its side) ends the body early; the status of the response decides, and *)
(* a status other than 200 raises an error naming offset and count.       *)
(*                                                                         *)
(* HttpPool models the call as one request on a borrowed connection; this *)
(* module models what goes over that connection.  Bytes are counted, not  *)
(* represented; BufLen stands for the 128 KiB buffer.  The server, part   *)
(* of the environment, counts the body bytes it has received.             *)
(***************************************************************************)
EXTENDS Naturals, Sequences

CONSTANTS
    BufLen,     \* len(buf)
    MaxCount    \* the largest zero request nbdkit passes in a run

ASSUME ZeroAssumption == BufLen \in Nat \ {0} /\ MaxCount \in Nat \ {0}

VARIABLES
    zpc,        \* "send" (in the loop), "response", "done"
    size,       \* the count argument nbdkit passed
    length,     \* the Content-Length header sent
    count,      \* the local variable count
    chunks,     \* the lengths of the http.send calls that went through
    result,     \* "pending", "ok", or "error" (request_failed raised)
    reported,   \* the size named in the error message
    broken,     \* an http.send raised BrokenPipeError
    received    \* server: the body bytes that reached it

vars == <<zpc, size, length, count, chunks, result, reported, broken,
          received>>

TypeOK ==
    /\ zpc \in {"send", "response", "done"}
    /\ size \in 1..MaxCount
    /\ length \in 1..MaxCount
    /\ count \in 0..MaxCount
    /\ chunks \in Seq(0..BufLen)
    /\ result \in {"pending", "ok", "error"}
    /\ reported \in 0..MaxCount
    /\ broken \in BOOLEAN
    /\ received \in 0..MaxCount

(* The request headers are sent with Content-Length: count (nbdkit does   *)
(* not pass a zero-length request).                                        *)
Init ==
    /\ zpc = "send"
    /\ size \in 1..MaxCount
    /\ length = size
    /\ count = size
    /\ chunks = <<>>
    /\ result = "pending"
    /\ reported = 0
    /\ broken = FALSE
    /\ received = 0

(* http.send raised BrokenPipeError: the except clause passes and the     *)
(* response is read.                                                       *)
BrokenPipe ==
    /\ zpc = "send"
    /\ zpc' = "response"
    /\ broken' = TRUE
    /\ UNCHANGED <<size, length, count, chunks, result, reported, received>>

\* Mutant of SendFull: a full buffer is sent whatever count is left.
SendFullUnguarded ==
    /\ zpc = "send"
    /\ chunks' = Append(chunks, BufLen)
    /\ received' = received + BufLen
    /\ count' = count - BufLen
    /\ UNCHANGED <<zpc, size, length, result, reported, broken>>

\* Mutant of SendFull: the loop runs while count >= len(buf).
SendFullGe ==
    /\ zpc = "send"
    /\ count >= BufLen
    /\ chunks' = Append(chunks, BufLen)
    /\ received' = received + BufLen
    /\ count' = count - BufLen
    /\ UNCHANGED <<zpc, size, length, result, reported, broken>>

\* while count > len(buf): http.send(buf); count -= len(buf)
SendFull ==
    /\ zpc = "send"
    /\ count > BufLen
    /\ chunks' = Append(chunks, BufLen)
    /\ received' = received + BufLen
    /\ count' = count - BufLen
    /\ UNCHANGED <<zpc, size, length, result, reported, broken>>

\* http.send(memoryview(buf)[:count]) after the loop.
SendLast ==
    /\ zpc = "send"
    /\ count <= BufLen
    /\ chunks' = Append(chunks, count)
    /\ received' = received + count
    /\ zpc' = "response"
    /\ UNCHANGED <<size, length, count, result, reported, broken>>

(* r = http.getresponse(): a server answers 200 only to a body as long as *)
(* its Content-Length; otherwise request_failed raises with "could not    *)
(* write zeroes offset %d size %d" % (offset, count).                     *)
Response ==
    /\ zpc = "response"
    /\ \/ /\ received = length
          /\ result' = "ok"
          /\ UNCHANGED reported
       \/ /\ result' = "error"
          /\ reported' = count
    /\ zpc' = "done"
    /\ UNCHANGED <<size, length, count, chunks, broken, received>>

\* zero() has returned or raised.
Done == zpc = "done" /\ UNCHANGED vars

Next == BrokenPipe \/ SendFull \/ SendLast \/ Response \/ Done

Spec == Init /\ [][Next]_vars

-----------------------------------------------------------------------------
(* Properties.                                                            *)

(* The chunking spec 8 states: of size S, full BufLen chunks and a final  *)
(* chunk of S mod BufLen, or a full chunk if S is a multiple of it.       *)
SpecChunks(s) ==
    LET n    == (s + BufLen - 1) \div BufLen
        last == IF s % BufLen = 0 THEN BufLen ELSE s % BufLen
    IN  [i \in 1..n |-> IF i < n THEN BufLen ELSE last]

(* Unless the pipe broke, the body emulate_zero streams is chunked as the *)
(* spec says and totals exactly the Content-Length announced in the       *)
(* headers, so the connection is left at a request boundary for the next  *)
(* caller (spec 4.3).                                                      *)
BodyMatchesSpec ==
    zpc # "send" /\ ~broken => chunks = SpecChunks(size) /\ received = length

(* A failed emulated zero reports the request it failed: the message      *)
(* "could not write zeroes offset %d size %d" names the size nbdkit asked *)
(* for.                                                                    *)
ErrorNamesRequestSize ==
    result = "error" => reported = size

=============================================================================
