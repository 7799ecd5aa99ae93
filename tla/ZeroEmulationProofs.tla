------------------------- MODULE ZeroEmulationProofs -------------------------
(***************************************************************************)
(* Proofs, for every buffer length and every request size, that the body  *)
(* emulate_zero streams has the chunking spec 8 states and reaches the    *)
(* server whole unless the pipe broke.                                    *)
(***************************************************************************)
EXTENDS ZeroEmulation, TLAPS

(* Inside the while loop only full buffers have been sent, and count is   *)
(* what is left of the request: at least one byte, since the loop runs    *)
(* only while more than a buffer is left.                                 *)
SendLoop ==
    zpc = "send" =>
        /\ ~broken
        /\ count >= 1
        /\ received + count = size
        /\ chunks = [i \in 1..Len(chunks) |-> BufLen]
        /\ received = Len(chunks) * BufLen

\* A body cut by BrokenPipeError still accounts for every byte.
CutShort ==
    zpc # "send" /\ broken => received + count = size

(* After the last send, count is the length of the last chunk and the     *)
(* whole request has reached the server.                                  *)
LastSent ==
    zpc # "send" /\ ~broken =>
        /\ count \in 1..BufLen
        /\ received = size
        /\ chunks = SpecChunks(size)

\* The inductive invariant.
IInv == TypeOK /\ length = size /\ SendLoop /\ CutShort /\ LastSent


-----------------------------------------------------------------------------
(* A size made of k full buffers and a last chunk of c bytes, 1 <= c <=   *)
(* BufLen, has k + 1 chunks under spec 8 and its last one is c.           *)
LEMMA LastChunk ==
  ASSUME NEW B \in Nat \ {0}, NEW k \in Nat, NEW c \in 1..B
  PROVE  /\ (k * B + c + B - 1) \div B = k + 1
         /\ (IF (k * B + c) % B = 0 THEN B ELSE (k * B + c) % B) = c
<1>1. k * B + c + B - 1 = (k + 1) * B + (c - 1) /\ c - 1 \in 0..(B - 1)
  OBVIOUS
<1>2. (k * B + c + B - 1) \div B = k + 1
  BY <1>1
<1>3. CASE c = B
  <2>1. k * B + c = (k + 1) * B
    BY <1>3
  <2>2. (k * B + c) % B = 0
    BY <2>1
  <2>3. QED
    BY <2>2, <1>3
<1>4. CASE c < B
  <2>1. (k * B + c) % B = c
    BY <1>4
  <2>2. QED
    BY <2>1, <1>4
<1>5. QED
  BY <1>2, <1>3, <1>4

(* Spec 8's chunking of such a size is the k full buffers sent so far     *)
(* with the last chunk appended.                                          *)
LEMMA SpecChunksLast ==
  ASSUME NEW k \in Nat, NEW c \in 1..BufLen,
         NEW s \in Seq(Nat), s = [i \in 1..k |-> BufLen]
  PROVE  SpecChunks(k * BufLen + c) = Append(s, c)
<1>1. BufLen \in Nat \ {0}
  BY ZeroAssumption
<1>2. /\ (k * BufLen + c + BufLen - 1) \div BufLen = k + 1
      /\ (IF (k * BufLen + c) % BufLen = 0 THEN BufLen
          ELSE (k * BufLen + c) % BufLen) = c
  BY <1>1, LastChunk
<1>3. SpecChunks(k * BufLen + c) = [i \in 1..k + 1 |-> IF i < k + 1 THEN BufLen ELSE c]
  BY <1>2 DEF SpecChunks
<1>4. Len(s) = k
  OBVIOUS
<1>5. QED
  BY <1>3, <1>4

LEMMA InitIInv == Init => IInv
<1> SUFFICES ASSUME Init PROVE IInv
  OBVIOUS
<1>1. BufLen \in Nat \ {0} /\ MaxCount \in Nat \ {0}
  BY ZeroAssumption
<1>2. TypeOK
  <2>1. broken \in BOOLEAN
    BY Zenon DEF Init
  <2>2. QED
    BY <1>1, <2>1 DEF Init, TypeOK
<1>3. SendLoop
  <2>1. ~broken
    BY Zenon DEF Init
  <2>2. QED
    BY <1>1, <2>1 DEF Init, SendLoop
<1>4. QED
  BY <1>2, <1>3 DEF Init, IInv, CutShort, LastSent

LEMMA NextIInv == IInv /\ [Next]_vars => IInv'
<1> SUFFICES ASSUME IInv, [Next]_vars PROVE IInv'
  OBVIOUS
<1>0. BufLen \in Nat \ {0} /\ MaxCount \in Nat \ {0}
  BY ZeroAssumption
<1> USE <1>0 DEF IInv, TypeOK
<1>1. CASE BrokenPipe
  BY <1>1 DEF BrokenPipe, SendLoop, CutShort, LastSent
<1>2. CASE SendFull
  <2>1. /\ zpc = "send" /\ count > BufLen
        /\ chunks' = Append(chunks, BufLen)
        /\ received' = received + BufLen
        /\ count' = count - BufLen
        /\ UNCHANGED <<zpc, size, length, result, reported, broken>>
    BY <1>2 DEF SendFull
  <2>2. /\ count >= 1 /\ received + count = size
        /\ chunks = [i \in 1..Len(chunks) |-> BufLen]
        /\ received = Len(chunks) * BufLen
    BY <2>1 DEF SendLoop
  <2>3. chunks' = [i \in 1..Len(chunks') |-> BufLen]
    <3>1. chunks \in Seq(Nat)
      OBVIOUS
    <3>2. Len(chunks') = Len(chunks) + 1 /\ chunks' \in Seq(Nat)
      BY <2>1, <3>1
    <3>3. \A i \in 1..Len(chunks') : chunks'[i] = BufLen
      BY <2>1, <2>2, <3>1, <3>2
    <3>4. QED
      BY <3>2, <3>3
  <2>4. received' = Len(chunks') * BufLen
    BY <2>1, <2>2
  <2>5. TypeOK'
    BY <2>1, <2>2
  <2>6. QED
    BY <2>1, <2>2, <2>3, <2>4, <2>5 DEF SendLoop, CutShort, LastSent
<1>3. CASE SendLast
  <2>1. /\ zpc = "send" /\ count <= BufLen
        /\ chunks' = Append(chunks, count)
        /\ received' = received + count
        /\ zpc' = "response"
        /\ UNCHANGED <<size, length, count, result, reported, broken>>
    BY <1>3 DEF SendLast
  <2>2. /\ count >= 1 /\ received + count = size
        /\ chunks = [i \in 1..Len(chunks) |-> BufLen]
        /\ received = Len(chunks) * BufLen
    BY <2>1 DEF SendLoop
  <2>3. ~broken
    BY <2>1 DEF SendLoop
  <2>4. size = Len(chunks) * BufLen + count /\ count \in 1..BufLen
    BY <2>1, <2>2
  <2>5. chunks' = SpecChunks(size)
    <3>1. chunks \in Seq(Nat) /\ Len(chunks) \in Nat
      OBVIOUS
    <3>2. SpecChunks(Len(chunks) * BufLen + count) = Append(chunks, count)
      BY <2>2, <2>4, <3>1, SpecChunksLast
    <3>3. QED
      BY <2>1, <2>4, <3>2
  <2>6. TypeOK'
    BY <2>1, <2>2
  <2>7. QED
    BY <2>1, <2>2, <2>3, <2>4, <2>5, <2>6 DEF SendLoop, CutShort, LastSent
<1>4. CASE Response
  BY <1>4 DEF Response, SendLoop, CutShort, LastSent
<1>5. CASE Done \/ UNCHANGED vars
  <2>1. UNCHANGED vars
    BY <1>5 DEF Done
  <2>2. QED
    BY <2>1, Zenon DEF vars, IInv, TypeOK, SendLoop, CutShort, LastSent
<1>6. QED
  BY <1>1, <1>2, <1>3, <1>4, <1>5 DEF Next

\* IInv holds in every reachable state.
LEMMA AlwaysIInv == Spec => []IInv
BY InitIInv, NextIInv, PTL DEF Spec

(* Every variable of ZeroEmulation keeps its type: in particular the      *)
(* while loop never sends more than the request has left, so count never  *)
(* goes below zero.                                                        *)
THEOREM TypeCorrect == Spec => []TypeOK
<1>1. IInv => TypeOK
  BY DEF IInv
<1>2. QED
  BY AlwaysIInv, <1>1, PTL

(* For every buffer length and request size, emulate_zero's body, unless  *)
(* a broken pipe cut it, is chunked as spec 8 states and carries exactly  *)
(* the Content-Length announced, leaving the connection at a request      *)
(* boundary.                                                               *)
THEOREM BodyChunked == Spec => []BodyMatchesSpec
<1>1. IInv => BodyMatchesSpec
  BY DEF IInv, LastSent, BodyMatchesSpec
<1>2. QED
  BY AlwaysIInv, <1>1, PTL

=============================================================================
