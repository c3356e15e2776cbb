-------------------------- MODULE StubCalls_proofs --------------------------
(***************************************************************************)
(* Outward calls through the stub, for any number of enclaves, any size of *)
(* the stub's data fields and any length of a transfer.                    *)
(***************************************************************************)
EXTENDS StubCalls, SequenceTheorems, TLAPS

-----------------------------------------------------------------------------
(* The inductive invariant, in four parts.                                 *)

CallType ==
  [fn : Codes \cup {"UNSET"}, count : 0 .. MaxCount, i : Nat, rt : Int, buf : Seq(Nat),
   moved : Seq(Int), done : BOOLEAN, failed : BOOLEAN]

(* The call in progress: what it asks for fits, and whoever has control    *)
(* agrees with the stub on which function is called.                       *)
CallOK ==
  /\ call \in CallType /\ ret \in Int
  /\ call.fn \notin Chunked => call.count <= MaxArg
  /\ call.fn = "UNSET" => call.done /\ call.count = 0 /\ call.i = 0
  /\ ~call.done => call.i <= LastChunk(call)
  /\ call.done /\ call.fn # "UNSET" => call.i = LastChunk(call) + 1
  /\ at \in {"trampoline", "blocked", "answered"} => ~call.done
  /\ at \in {"trampoline", "blocked"} => fcode = call.fn

(* One enclave is served at a time: the host's globals agree.              *)
OneServed ==
  /\ stubTcs = tcs /\ curKeid = tcs /\ heapOf = tcs
  /\ at \in {"enclave", "trampoline", "blocked", "answered"} =>
       running = tcs /\ running \in Enclaves

(* Outside a call the output data is cleared, and only the call's own      *)
(* bytes are added to it.                                                  *)
OutDataOK ==
  /\ at \in {"host", "enclave", "answered"} =>
       data["out_data1"] = Zeros /\ data["out_data2"] = Zeros
  /\ at \in {"trampoline", "blocked"} =>
       /\ data["out_data2"] = Zeros
       /\ SetsData(call.fn) =>
            data["out_data1"] = [k \in 1 .. MaxArg |->
              IF k <= tmp_len(call) THEN call.i * MaxArg + k ELSE 0]

(* How far the transfer got: the bytes of the chunks that were handed over *)
(* to the host, and the count as it will be when the answer is read.       *)
Reached ==
  IF at = "answered" THEN call.i * MaxArg + tmp_len(call)
  ELSE IF call.i <= LastChunk(call) THEN call.i * MaxArg ELSE call.count
Answer == IF at = "answered" THEN ret ELSE 0
Total == call.rt + Answer
(* The bytes in the stub that the library function has yet to copy.        *)
Uncopied == IF Answer > 0 THEN Answer ELSE 0

SentOK ==
  call.fn \in {"WRITE", "SEND"} =>
    /\ Total <= Reached
    /\ Total = Reached => call.moved = Bytes(Reached)

PutsOK ==
  call.fn = "PUTS" /\ (at = "answered" \/ call.done) => call.moved = Bytes(call.count)

ReadOK ==
  call.fn \in {"READ", "RECV"} =>
    /\ Len(call.moved) <= Reached
    /\ call.moved = Bytes(Len(call.moved))
    /\ call.fn = "READ" /\ ~call.failed => Total = Len(call.moved)
    /\ Len(call.buf) = call.count
    /\ Uncopied <= Len(call.moved)
    /\ Delivers(call.buf, Len(call.moved) - Uncopied)
    /\ at = "answered" =>
         /\ ret <= tmp_len(call)
         /\ Len(call.moved) - Uncopied <= call.i * MaxArg
         /\ data["in_data1"] = [k \in 1 .. MaxArg |->
              IF k <= ret THEN Len(call.moved) - Uncopied + k ELSE 0]
    /\ ~call.done => \A k \in DOMAIN call.buf : k > call.i * MaxArg => call.buf[k] = 0

TransferOK == SentOK /\ PutsOK /\ ReadOK

OwnHeaps == \A e \in Enclaves : heap[e] \in {e, None}

SInv ==
  /\ TypeOK /\ CallOK /\ OneServed /\ OwnHeaps
  /\ OutDataOK /\ CallSeenIntact /\ AnswerIsOwn
  /\ TransferOK

-----------------------------------------------------------------------------
(* Division into chunks.                                                   *)

(* What \div and % are.                                                    *)
LEMMA DivMod ==
  ASSUME NEW n \in Nat, NEW m \in Nat \ {0}
  PROVE  /\ n \div m \in Nat /\ n % m \in 0 .. m - 1
         /\ n = m * (n \div m) + (n % m)
BY SMT

(* The chunks before the last are full.                                    *)
LEMMA FullChunks ==
  ASSUME NEW i \in Nat, NEW q \in Nat, NEW m \in Nat
  PROVE  /\ i * m \in Nat /\ (i + 1) * m = i * m + m /\ m * q = q * m
         /\ i < q => i * m + m <= q * m
BY SMT

(* A chunk fits in a data field and does not reach beyond the count; the   *)
(* last one reaches it.                                                    *)
LEMMA ChunkFits ==
  ASSUME NEW c \in CallType, c.i <= LastChunk(c), c.fn \notin Chunked => c.count <= MaxArg
  PROVE  /\ tmp_len(c) \in 0 .. MaxArg /\ LastChunk(c) \in Nat /\ c.i * MaxArg \in Nat
         /\ c.i * MaxArg + tmp_len(c) <= c.count
         /\ c.i < LastChunk(c) => (c.i + 1) * MaxArg = c.i * MaxArg + tmp_len(c)
         /\ c.i = LastChunk(c) => c.count = c.i * MaxArg + tmp_len(c)
<1>1. c.count \in Nat /\ c.i \in Nat /\ MaxArg \in Nat \ {0}
  BY BoundsAssumption DEF CallType
<1>2. CASE c.fn \in Chunked
  <2>1. LastChunk(c) = c.count \div MaxArg
    BY <1>2 DEF LastChunk
  <2>2. /\ LastChunk(c) \in Nat /\ c.count % MaxArg \in 0 .. MaxArg - 1
        /\ c.count = MaxArg * LastChunk(c) + (c.count % MaxArg)
    BY <1>1, <2>1, DivMod
  <2>3. /\ c.i * MaxArg \in Nat /\ (c.i + 1) * MaxArg = c.i * MaxArg + MaxArg
        /\ MaxArg * LastChunk(c) = LastChunk(c) * MaxArg
        /\ c.i < LastChunk(c) => c.i * MaxArg + MaxArg <= LastChunk(c) * MaxArg
    BY <1>1, <2>2, FullChunks
  <2>4. tmp_len(c) = IF c.i < LastChunk(c) THEN MaxArg ELSE c.count % MaxArg
    BY <1>2 DEF tmp_len
  <2>5. LastChunk(c) * MaxArg \in Nat
    BY <1>1, <2>2, FullChunks
  <2> HIDE DEF LastChunk
  <2>6. CASE c.i < LastChunk(c)
    <3>1. tmp_len(c) = MaxArg
      BY <2>4, <2>6
    <3>2. c.i * MaxArg + MaxArg <= c.count
      BY <1>1, <2>2, <2>3, <2>5, <2>6
    <3> QED
      BY <1>1, <2>2, <2>3, <2>6, <3>1, <3>2
  <2>7. CASE c.i = LastChunk(c)
    <3>1. tmp_len(c) = c.count % MaxArg
      BY <1>1, <2>4, <2>7
    <3>2. c.i * MaxArg + tmp_len(c) = c.count
      BY <1>1, <2>2, <2>3, <2>7, <3>1
    <3> QED
      BY <1>1, <2>2, <2>3, <2>7, <3>1, <3>2
  <2> QED
    BY <1>1, <2>2, <2>6, <2>7
<1>3. CASE c.fn \notin Chunked
  <2>1. LastChunk(c) = 0 /\ tmp_len(c) = c.count /\ c.i = 0
    BY <1>1, <1>3 DEF LastChunk, tmp_len
  <2>2. c.i * MaxArg = 0
    BY <2>1, <1>1
  <2> QED
    BY <2>1, <2>2, <1>1, <1>3
<1> QED
  BY <1>2, <1>3

(* The chunks depend only on the function, the count and the loop's index. *)
LEMMA SameChunks ==
  ASSUME NEW c, NEW d, d.fn = c.fn, d.count = c.count
  PROVE  LastChunk(d) = LastChunk(c) /\ (d.i = c.i => tmp_len(d) = tmp_len(c))
BY DEF LastChunk, tmp_len

-----------------------------------------------------------------------------
(* The record of a call after each kind of step.                           *)

LEMMA NoCallType ==
  /\ NoCall \in CallType /\ NoCall.fn = "UNSET" /\ NoCall.done
  /\ NoCall.count = 0 /\ NoCall.i = 0
<1>1. << >> \in Seq(Nat) /\ << >> \in Seq(Int)
  OBVIOUS
<1> QED
  BY <1>1, BoundsAssumption DEF NoCall, CallType

(* A call that goes on to its next chunk, or ends.                         *)
LEMMA AdvancedCall ==
  ASSUME NEW c \in CallType
  PROVE  /\ Advance(c) \in CallType /\ Advance(c).fn = c.fn /\ Advance(c).count = c.count
         /\ Advance(c).i = c.i + 1 /\ Advance(c).rt = c.rt /\ Advance(c).buf = c.buf
         /\ Advance(c).moved = c.moved /\ Advance(c).failed = c.failed
         /\ Advance(c).done = (c.i = LastChunk(c))
<1>1. c.i + 1 \in Nat
  BY DEF CallType
<1>2. PICK z \in BOOLEAN : z = (c.i = LastChunk(c))
  OBVIOUS
<1>3. Advance(c) = [c EXCEPT !.i = c.i + 1, !.done = z]
  BY <1>2 DEF Advance
<1> QED
  BY <1>1, <1>2, <1>3 DEF CallType

-----------------------------------------------------------------------------
(* The initial states, and the steps that leave the transfer alone.        *)

(* The page of the stub is zeroed at the start.                            *)
LEMMA InitSInv == Init => SInv
<1> SUFFICES ASSUME Init PROVE SInv
  OBVIOUS
<1>1. Zeros \in [1 .. MaxArg -> Stale .. MaxCount]
  BY BoundsAssumption DEF Zeros, Stale
<1>2. TypeOK
  BY <1>1 DEF Init, TypeOK
<1>3. CallOK
  BY NoCallType, BoundsAssumption DEF Init, CallOK
<1>4. OneServed /\ OwnHeaps /\ CallSeenIntact /\ AnswerIsOwn
  BY DEF Init, OneServed, OwnHeaps, CallSeenIntact, AnswerIsOwn
<1>5. OutDataOK
  BY DEF Init, OutDataOK, Buffers
<1>6. TransferOK
  BY NoCallType DEF Init, TransferOK, SentOK, PutsOK, ReadOK
<1> QED
  BY <1>2, <1>3, <1>4, <1>5, <1>6 DEF SInv

(* The transfer does not depend on who runs, unless an answer is waiting.  *)
LEMMA TransferKept ==
  ASSUME TransferOK, call' = call, at # "answered", at' # "answered"
  PROVE  TransferOK'
<1>1. Reached' = Reached /\ Answer' = 0 /\ Answer = 0
  BY DEF Reached, Answer
<1>2. Total' = Total /\ Uncopied' = Uncopied
  BY <1>1 DEF Total, Uncopied
<1>3. SentOK'
  BY <1>1, <1>2 DEF TransferOK, SentOK
<1>4. PutsOK'
  BY DEF TransferOK, PutsOK
<1>5. ReadOK'
  BY <1>1, <1>2 DEF TransferOK, ReadOK
<1> QED
  BY <1>3, <1>4, <1>5 DEF TransferOK

(* init_enclave sets every global of the host, or the program ends.        *)
LEMMA InitEnclaveSInv ==
  ASSUME SInv, NEW e \in Enclaves, init_enclave(e)
  PROVE  SInv'
<1>1. /\ at = "host" /\ at' \in {"host", "exited"}
      /\ UNCHANGED <<running, stubVars, call, ret, heap>>
      /\ \/ tcs' = e /\ stubTcs' = e /\ curKeid' = e /\ heapOf' = e
         \/ UNCHANGED hostVars
  BY DEF init_enclave
<1>2. TypeOK'
  BY <1>1 DEF SInv, TypeOK, stubVars, hostVars
<1>3. CallOK' /\ OwnHeaps' /\ CallSeenIntact' /\ AnswerIsOwn'
  BY <1>1 DEF SInv, CallOK, OwnHeaps, CallSeenIntact, AnswerIsOwn, stubVars
<1>4. OneServed'
  BY <1>1 DEF SInv, OneServed, hostVars
<1>5. OutDataOK'
  BY <1>1 DEF SInv, OutDataOK, stubVars
<1>6. TransferOK'
  BY <1>1, TransferKept DEF SInv
<1> QED
  BY <1>2, <1>3, <1>4, <1>5, <1>6 DEF SInv

(* The runtime enters the enclave its globals are about.                   *)
LEMMA EnterSInv ==
  ASSUME SInv, NEW e \in Enclaves, sgx_enter(e)
  PROVE  SInv'
<1>1. /\ at = "host" /\ tcs = e /\ at' = "enclave" /\ running' = e /\ call' = NoCall
      /\ UNCHANGED <<hostVars, stubVars, ret, heap>>
  BY DEF sgx_enter
<1>2. TypeOK'
  BY <1>1 DEF SInv, TypeOK, stubVars, hostVars
<1>3. CallOK'
  BY <1>1, NoCallType, BoundsAssumption DEF SInv, CallOK
<1>4. OneServed' /\ OwnHeaps' /\ CallSeenIntact' /\ AnswerIsOwn'
  BY <1>1 DEF SInv, OneServed, OwnHeaps, CallSeenIntact, AnswerIsOwn, hostVars
<1>5. OutDataOK'
  BY <1>1 DEF SInv, OutDataOK, stubVars
<1>6. TransferOK'
  BY <1>1, NoCallType DEF TransferOK, SentOK, PutsOK, ReadOK
<1> QED
  BY <1>2, <1>3, <1>4, <1>5, <1>6 DEF SInv

(* The enclave leaves when no call is in progress.                         *)
LEMMA ExitSInv ==
  ASSUME SInv, sgx_exit_home
  PROVE  SInv'
<1>1. /\ at = "enclave" /\ at' = "host"
      /\ UNCHANGED <<running, hostVars, stubVars, call, ret, heap>>
  BY DEF sgx_exit_home
<1>2. TypeOK' /\ OneServed'
  BY <1>1 DEF SInv, TypeOK, OneServed, stubVars, hostVars
<1>3. CallOK' /\ OwnHeaps' /\ CallSeenIntact' /\ AnswerIsOwn' /\ OutDataOK'
  BY <1>1 DEF SInv, CallOK, OwnHeaps, CallSeenIntact, AnswerIsOwn, OutDataOK, stubVars
<1>4. TransferOK'
  BY <1>1, TransferKept DEF SInv
<1> QED
  BY <1>2, <1>3, <1>4 DEF SInv

(* A host function that waits changes nothing.                             *)
LEMMA BlockSInv ==
  ASSUME SInv, Block
  PROVE  SInv'
<1>1. /\ at = "trampoline" /\ at' = "blocked"
      /\ UNCHANGED <<running, hostVars, stubVars, call, ret, heap>>
  BY DEF Block
<1>2. TypeOK' /\ OneServed'
  BY <1>1 DEF SInv, TypeOK, OneServed, stubVars, hostVars
<1>3. CallOK' /\ OwnHeaps' /\ AnswerIsOwn'
  BY <1>1 DEF SInv, CallOK, OwnHeaps, AnswerIsOwn, stubVars
<1>4. CallSeenIntact' /\ OutDataOK'
  BY <1>1 DEF SInv, CallSeenIntact, OutDataOK, stubVars
<1>5. TransferOK'
  BY <1>1, TransferKept DEF SInv
<1> QED
  BY <1>2, <1>3, <1>4, <1>5 DEF SInv

-----------------------------------------------------------------------------
(* The enclave starts a call and leaves for the trampoline.                *)

LEMMA LastChunkType ==
  ASSUME NEW c \in CallType
  PROVE  LastChunk(c) \in Nat
<1>1. c.count \in Nat /\ MaxArg \in Nat \ {0}
  BY BoundsAssumption DEF CallType
<1>2. c.count \div MaxArg \in Nat
  BY <1>1, DivMod
<1> QED
  BY <1>2 DEF LastChunk

(* Nothing has been transferred when a library function starts.            *)
LEMMA BeginSInv ==
  ASSUME SInv, NEW f \in Codes, NEW n \in 0 .. MaxCount, Begin(f, n)
  PROVE  SInv'
<1>1. /\ at = "enclave" /\ UNCHANGED <<at, running, hostVars, stubVars, ret, heap>>
      /\ n <= IF f \in Chunked THEN MaxCount ELSE IF SetsData(f) THEN MaxArg ELSE 0
  BY DEF Begin
<1>2. PICK rt \in IF f = "RECV" THEN {0, 1} ELSE {0} :
        call' = [NoCall EXCEPT !.fn = f, !.count = n, !.rt = rt, !.done = FALSE,
                               !.buf = [k \in 1 .. n |-> 0]]
  BY DEF Begin
<1>3. rt \in Int
  BY <1>2
<1>4. /\ call' \in CallType /\ call'.fn = f /\ call'.count = n /\ call'.i = 0 /\ call'.rt = rt
      /\ call'.buf = [k \in 1 .. n |-> 0] /\ call'.moved = << >>
      /\ ~call'.done /\ ~call'.failed
  <2> DEFINE b == [k \in 1 .. n |-> 0]
  <2>1. b \in Seq(Nat)
    BY BoundsAssumption
  <2>2. call' = [NoCall EXCEPT !.fn = f, !.count = n, !.rt = rt, !.done = FALSE, !.buf = b]
    BY <1>2
  <2> HIDE DEF b
  <2>3. /\ call' \in CallType /\ call'.fn = f /\ call'.count = n /\ call'.i = 0 /\ call'.rt = rt
        /\ call'.buf = b /\ call'.moved = << >> /\ ~call'.done /\ ~call'.failed
    <3>1. << >> \in Seq(Int)
      OBVIOUS
    <3> QED
      BY <1>3, <2>1, <2>2, <3>1, BoundsAssumption DEF NoCall, CallType
  <2> QED
    BY <2>3 DEF b
<1>5. n \in Nat /\ MaxArg \in Nat \ {0} /\ f # "UNSET"
  BY BoundsAssumption DEF Codes, Malloc, Chunked
<1>6. TypeOK' /\ OneServed'
  BY <1>1 DEF SInv, TypeOK, OneServed, stubVars, hostVars
<1>7. CallOK'
  <2>1. f \notin Chunked => n <= MaxArg
    BY <1>1, <1>5
  <2>2. 0 <= LastChunk(call')
    BY <1>4, LastChunkType
  <2> QED
    BY <1>1, <1>4, <1>5, <2>1, <2>2 DEF SInv, CallOK
<1>8. OwnHeaps' /\ AnswerIsOwn' /\ CallSeenIntact' /\ OutDataOK'
  BY <1>1 DEF SInv, OwnHeaps, AnswerIsOwn, CallSeenIntact, OutDataOK, stubVars
<1>9. Reached' = 0 /\ Answer' = 0 /\ Uncopied' = 0 /\ Total' = rt
  <2>1. LastChunk(call') \in Nat
    BY <1>4, LastChunkType
  <2>2. call'.i * MaxArg = 0
    BY <1>4, <1>5
  <2>3. Reached' = 0
    BY <1>1, <1>4, <2>1, <2>2 DEF Reached
  <2> QED
    BY <1>1, <1>3, <1>4, <2>3 DEF Answer, Uncopied, Total
<1>10. SentOK'
  <2>1. f \in {"WRITE", "SEND"} => rt = 0
    BY <1>2
  <2>2. Bytes(0) = << >>
    BY DEF Bytes
  <2> QED
    BY <1>4, <1>9, <2>1, <2>2 DEF SentOK
<1>11. PutsOK'
  BY <1>1, <1>4 DEF PutsOK
<1>12. ReadOK'
  <2>1. Len(call'.moved) = 0 /\ Bytes(0) = << >> /\ Len(call'.buf) = n
    BY <1>4, <1>5 DEF Bytes
  <2>2. Delivers(call'.buf, 0)
    BY <1>4, <1>5 DEF Delivers
  <2>3. f = "READ" => rt = 0
    BY <1>2
  <2> QED
    BY <1>1, <1>4, <1>9, <2>1, <2>2, <2>3 DEF ReadOK
<1> QED
  BY <1>6, <1>7, <1>8, <1>10, <1>11, <1>12 DEF SInv, TransferOK

(* The data fields hold what the call puts there, and no byte of an        *)
(* earlier one.                                                            *)
LEMMA CallOutSInv ==
  ASSUME SInv, CallOut
  PROVE  SInv'
<1>1. /\ at = "enclave" /\ ~call.done /\ at' = "trampoline" /\ fcode' = call.fn
      /\ field' = [f \in Scalars |-> IF f \in Sets(call.fn) THEN "new" ELSE Aged(field[f])]
      /\ data' = [b \in Buffers |-> [k \in 1 .. MaxArg |->
           IF b = "out_data1" /\ SetsData(call.fn) /\ k <= tmp_len(call)
           THEN call.i * MaxArg + k ELSE AgedByte(data[b][k])]]
      /\ UNCHANGED <<running, hostVars, call, ret, heap>>
  BY DEF CallOut
<1>2. /\ call \in CallType /\ call.i <= LastChunk(call)
      /\ call.fn \notin Chunked => call.count <= MaxArg
      /\ call.count \in 0 .. MaxCount /\ MaxCount \in Nat /\ MaxArg \in Nat \ {0}
  BY <1>1, BoundsAssumption DEF SInv, CallOK, CallType
<1>3. /\ tmp_len(call) \in 0 .. MaxArg /\ call.i * MaxArg \in Nat
      /\ call.i * MaxArg + tmp_len(call) <= call.count
  BY <1>2, ChunkFits
<1>4. ASSUME NEW k \in 1 .. MaxArg, k <= tmp_len(call)
      PROVE  call.i * MaxArg + k \in Stale .. MaxCount
  BY <1>2, <1>3, <1>4 DEF Stale
<1>5. \A b \in Stale .. MaxCount : AgedByte(b) \in Stale .. MaxCount
  BY <1>2 DEF AgedByte, Stale
<1>6. data' \in [Buffers -> [1 .. MaxArg -> Stale .. MaxCount]]
  BY <1>1, <1>4, <1>5 DEF SInv, TypeOK
<1>7. field' \in [Scalars -> {"zero", "new", "old"}]
  BY <1>1 DEF SInv, TypeOK, Aged
<1>8. call.fn \in Codes \cup {"UNSET"}
  BY <1>2 DEF CallType
<1>9. TypeOK' /\ OneServed'
  BY <1>1, <1>6, <1>7, <1>8 DEF SInv, TypeOK, OneServed, hostVars
<1>10. CallOK' /\ OwnHeaps' /\ AnswerIsOwn'
  BY <1>1 DEF SInv, CallOK, OwnHeaps, AnswerIsOwn
<1>11. /\ data'["out_data2"] = Zeros
       /\ ~SetsData(call.fn) => data'["out_data1"] = Zeros
       /\ SetsData(call.fn) =>
            data'["out_data1"] = [k \in 1 .. MaxArg |->
              IF k <= tmp_len(call) THEN call.i * MaxArg + k ELSE 0]
  <2>1. data["out_data1"] = Zeros /\ data["out_data2"] = Zeros
    BY <1>1 DEF SInv, OutDataOK
  <2>2. \A k \in 1 .. MaxArg : AgedByte(Zeros[k]) = 0
    BY DEF AgedByte, Zeros
  <2> HIDE DEF Zeros
  <2>3. Zeros = [k \in 1 .. MaxArg |-> 0]
    BY DEF Zeros
  <2> QED
    BY <1>1, <2>1, <2>2, <2>3 DEF Buffers
<1>12. OutDataOK'
  BY <1>1, <1>11 DEF OutDataOK
<1>13. CallSeenIntact'
  <2>1. ASSUME NEW f \in Uses(call.fn) PROVE field'[f] = "new"
    <3>1. f \in Sets(call.fn) /\ f \in Scalars
      BY <1>2 DEF Uses, Sets, Scalars
    <3> QED
      BY <1>1, <3>1
  <2>2. ASSUME NEW b \in UsesData(call.fn)
        PROVE  data'[b] = [k \in 1 .. MaxArg |->
                 IF b = "out_data1" /\ k <= tmp_len(call) THEN call.i * MaxArg + k ELSE 0]
    <3>1. (b = "out_data1" /\ SetsData(call.fn)) \/ b = "out_data2"
      BY DEF UsesData, SetsData
    <3> QED
      BY <3>1, <1>11 DEF Zeros
  <2> QED
    BY <1>1, <2>1, <2>2 DEF CallSeenIntact
<1>14. TransferOK'
  BY <1>1, TransferKept DEF SInv
<1> QED
  BY <1>9, <1>10, <1>12, <1>13, <1>14 DEF SInv

-----------------------------------------------------------------------------
(* The bytes of a transfer.                                                *)

LEMMA BytesType ==
  ASSUME NEW m \in Nat
  PROVE  Bytes(m) \in Seq(Int) /\ Len(Bytes(m)) = m /\ Bytes(m) \in [1 .. m -> Int]
<1>1. Bytes(m) \in [1 .. m -> Int]
  BY DEF Bytes
<1> QED
  BY <1>1 DEF Bytes

(* Bytes m + 1 to m + n follow the first m.                                *)
LEMMA BytesGrow ==
  ASSUME NEW m \in Nat, NEW n \in Nat
  PROVE  /\ [k \in 1 .. n |-> m + k] \in Seq(Int)
         /\ Len([k \in 1 .. n |-> m + k]) = n
         /\ Bytes(m) \o [k \in 1 .. n |-> m + k] = Bytes(m + n)
<1> DEFINE g == [k \in 1 .. n |-> m + k]
<1>1. g \in Seq(Int) /\ Len(g) = n
  OBVIOUS
<1>2. /\ Bytes(m) \in Seq(Int) /\ Len(Bytes(m)) = m
      /\ Bytes(m + n) \in Seq(Int) /\ Len(Bytes(m + n)) = m + n
  BY BytesType
<1>3. Bytes(m) \o g \in Seq(Int) /\ Len(Bytes(m) \o g) = m + n
  BY <1>1, <1>2
<1>4. ASSUME NEW k \in 1 .. m + n PROVE (Bytes(m) \o g)[k] = Bytes(m + n)[k]
  <2>0. k \in Nat /\ (k <= m \/ m < k)
    OBVIOUS
  <2>1. CASE k <= m
    <3>1. (Bytes(m) \o g)[k] = Bytes(m)[k]
      <4> HIDE DEF g
      <4> QED BY <1>1, <1>2, <2>1
    <3> QED
      BY <3>1, <2>1 DEF Bytes
  <2>2. CASE m < k
    <3>1. (Bytes(m) \o g)[k] = g[k - m]
      <4> HIDE DEF g
      <4>1. (Bytes(m) \o g)[k] = IF k <= Len(Bytes(m)) THEN Bytes(m)[k] ELSE g[k - Len(Bytes(m))]
        BY <1>1, <1>2, ConcatProperties
      <4> QED BY <4>1, <1>2, <2>2
    <3>2. g[k - m] = k
      BY <2>2
    <3> QED
      BY <3>1, <3>2 DEF Bytes
  <2> HIDE DEF g
  <2> QED
    BY <2>0, <2>1, <2>2
<1> HIDE DEF g
<1>5. Bytes(m) \o g = Bytes(m + n)
  BY <1>2, <1>3, <1>4, SeqEqual
<1> QED
  BY <1>1, <1>5 DEF g

(* What the host function takes from the field of a chunk.                 *)
LEMMA ChunkBytes ==
  ASSUME NEW m \in Nat, NEW t \in 0 .. MaxArg, NEW n \in 0 .. t, NEW d,
         d = [k \in 1 .. MaxArg |-> IF k <= t THEN m + k ELSE 0]
  PROVE  SubSeq(d, 1, n) = [k \in 1 .. n |-> m + k]
<1>1. MaxArg \in Nat /\ t \in Nat /\ n \in Nat /\ n <= MaxArg
  BY BoundsAssumption
<1>2. d \in Seq(Int) /\ Len(d) = MaxArg
  BY <1>1
<1>3. SubSeq(d, 1, n) = [k \in 1 .. n |-> d[k]]
  BY <1>1, <1>2
<1>4. ASSUME NEW k \in 1 .. n PROVE d[k] = m + k
  BY <1>1
<1> QED
  BY <1>3, <1>4

(* puts prints the string and nothing after it, terminated or not.         *)
LEMMA CStringBytes ==
  ASSUME NEW t \in 0 .. MaxArg, NEW d,
         d = [k \in 1 .. MaxArg |-> IF k <= t THEN 0 + k ELSE 0]
  PROVE  CString(d) = Bytes(t)
<1> DEFINE ends == {k \in 1 .. MaxArg : d[k] = 0}
           first == CHOOSE k \in ends : \A j \in ends : k <= j
           len == IF ends = {} THEN MaxArg ELSE first - 1
<1>1. MaxArg \in Nat /\ t \in Nat /\ t <= MaxArg
  BY BoundsAssumption
<1>2. ends = t + 1 .. MaxArg
  BY <1>1
<1>3. len = t
  <2>1. CASE t = MaxArg
    BY <1>1, <1>2, <2>1
  <2>2. CASE t < MaxArg
    <3>1. t + 1 \in ends /\ \A j \in ends : t + 1 <= j
      BY <1>1, <1>2, <2>2
    <3>2. first \in ends /\ \A j \in ends : first <= j
      <4> HIDE DEF ends
      <4> QED BY <3>1
    <3>3. first = t + 1
      <4>1. first \in t + 1 .. MaxArg /\ first <= t + 1
        BY <3>1, <3>2, <1>2
      <4> HIDE DEF first, ends
      <4> QED BY <4>1, <1>1
    <3> HIDE DEF first, ends
    <3> QED BY <3>1, <3>3, <1>1
  <2> HIDE DEF len
  <2> QED
    BY <1>1, <2>1, <2>2
<1>4. CString(d) = SubSeq(d, 1, len)
  BY DEF CString
<1> HIDE DEF len
<1>5. t \in 0 .. t
  BY <1>1
<1>6. SubSeq(d, 1, t) = [k \in 1 .. t |-> 0 + k]
  BY <1>5, ChunkBytes
<1>7. [k \in 1 .. t |-> 0 + k] = Bytes(t)
  BY <1>1 DEF Bytes
<1> QED
  BY <1>3, <1>4, <1>6, <1>7

-----------------------------------------------------------------------------
(* The trampoline.                                                         *)

(* What the trampoline finds when it is reached.                           *)
LEMMA Served ==
  ASSUME SInv, at \in {"trampoline", "blocked"}
  PROVE  /\ call \in CallType /\ ~call.done /\ fcode = call.fn /\ call.fn \in Codes
         /\ call.i <= LastChunk(call) /\ (call.fn \notin Chunked => call.count <= MaxArg)
         /\ call.count \in 0 .. MaxCount /\ MaxCount \in Nat /\ MaxArg \in Nat \ {0}
         /\ tmp_len(call) \in 0 .. MaxArg /\ call.i * MaxArg \in Nat
         /\ call.i * MaxArg + tmp_len(call) <= call.count
         /\ Reached = call.i * MaxArg /\ Total = call.rt /\ Uncopied = 0
         /\ call.moved \in Seq(Int) /\ Len(call.moved) \in Nat /\ call.rt \in Int
<1>1. /\ call \in CallType /\ ~call.done /\ fcode = call.fn /\ call.fn \in Codes
      /\ call.i <= LastChunk(call) /\ (call.fn \notin Chunked => call.count <= MaxArg)
      /\ call.count \in 0 .. MaxCount /\ MaxCount \in Nat /\ MaxArg \in Nat \ {0}
      /\ call.moved \in Seq(Int) /\ call.rt \in Int
  BY BoundsAssumption DEF SInv, CallOK, CallType
<1>2. /\ tmp_len(call) \in 0 .. MaxArg /\ call.i * MaxArg \in Nat
      /\ call.i * MaxArg + tmp_len(call) <= call.count
  BY <1>1, ChunkFits
<1>3. Reached = call.i * MaxArg /\ Answer = 0
  BY <1>1 DEF Reached, Answer
<1>4. Total = call.rt /\ Uncopied = 0
  BY <1>1, <1>3 DEF Total, Uncopied
<1>5. Len(call.moved) \in Nat
  BY <1>1
<1> QED
  BY <1>1, <1>2, <1>3, <1>4, <1>5

(* The bytes a host function moved.                                        *)
LEMMA MovedBytes ==
  ASSUME SInv, at \in {"trampoline", "blocked"}, NEW n \in Transfers(fcode)
  PROVE  /\ n \in Int /\ n <= tmp_len(call)
         /\ call.fn \notin Chunked => n = 0
         /\ Moved(fcode, n) \in Seq(Int)
         /\ call.fn = "PUTS" => Moved(fcode, n) = Bytes(call.count)
         /\ call.fn \in {"READ", "RECV"} =>
              Moved(fcode, n) = Bytes(Len(call.moved) + (IF n > 0 THEN n ELSE 0))
         /\ call.fn \in {"WRITE", "SEND"} /\ call.moved = Bytes(call.i * MaxArg) /\ n >= 0 =>
              Moved(fcode, n) = Bytes(call.i * MaxArg + n)
<1>1. /\ call.moved \in Seq(Int) /\ Len(call.moved) \in Nat /\ fcode = call.fn
      /\ tmp_len(call) \in 0 .. MaxArg /\ call.i * MaxArg \in Nat /\ MaxArg \in Nat \ {0}
  BY Served
<1>2. n \in Int /\ n <= tmp_len(call) /\ (call.fn \notin Chunked => n = 0)
  BY <1>1 DEF Transfers
<1>3. CASE call.fn = "PUTS"
  <2>1. /\ call.i * MaxArg = 0 /\ tmp_len(call) = call.count
        /\ data["out_data1"] = [k \in 1 .. MaxArg |->
             IF k <= tmp_len(call) THEN call.i * MaxArg + k ELSE 0]
    <3>1. call.i <= 0 /\ call.i \in Nat
      BY <1>3, Served DEF LastChunk, Chunked, CallType
    <3>2. tmp_len(call) = call.count
      BY <1>3 DEF tmp_len, Chunked
    <3>3. data["out_data1"] = [k \in 1 .. MaxArg |->
             IF k <= tmp_len(call) THEN call.i * MaxArg + k ELSE 0]
      BY <1>3 DEF SInv, OutDataOK, SetsData
    <3> QED
      BY <3>1, <3>2, <3>3, <1>1
  <2>2. CString(data["out_data1"]) = Bytes(call.count)
    BY <2>1, <1>1, CStringBytes
  <2>3. Moved(fcode, n) = Bytes(call.count)
    BY <1>1, <1>3, <2>2 DEF Moved
  <2>4. call.count \in Nat
    BY <1>1, <2>1
  <2> QED
    BY <1>2, <1>3, <2>3, <2>4, BytesType
<1>4. CASE call.fn \in {"WRITE", "SEND"}
  <2>1. CASE n > 0
    <3>1. data["out_data1"] = [k \in 1 .. MaxArg |->
             IF k <= tmp_len(call) THEN call.i * MaxArg + k ELSE 0]
      BY <1>4 DEF SInv, OutDataOK, SetsData
    <3>2. n \in 0 .. tmp_len(call) /\ n \in Nat
      BY <1>1, <1>2, <2>1
    <3>3. SubSeq(data["out_data1"], 1, n) = [k \in 1 .. n |-> call.i * MaxArg + k]
      BY <1>1, <3>1, <3>2, ChunkBytes
    <3>4. Moved(fcode, n) = call.moved \o [k \in 1 .. n |-> call.i * MaxArg + k]
      BY <1>1, <1>4, <2>1, <3>3 DEF Moved
    <3>5. [k \in 1 .. n |-> call.i * MaxArg + k] \in Seq(Int)
      BY <1>1, <3>2, BytesGrow
    <3>6. Moved(fcode, n) \in Seq(Int)
      BY <1>1, <3>4, <3>5, ConcatProperties
    <3>7. call.moved = Bytes(call.i * MaxArg) => Moved(fcode, n) = Bytes(call.i * MaxArg + n)
      BY <1>1, <3>2, <3>4, BytesGrow
    <3> QED
      BY <1>2, <1>4, <3>6, <3>7
  <2>2. CASE ~ (n > 0)
    <3>1. Moved(fcode, n) = call.moved
      BY <1>1, <1>4, <2>2 DEF Moved
    <3>2. n >= 0 => n = 0 /\ call.i * MaxArg + n = call.i * MaxArg
      BY <1>1, <1>2, <2>2
    <3> QED
      BY <1>1, <1>2, <1>4, <3>1, <3>2
  <2> QED
    BY <2>1, <2>2
<1>5. CASE call.fn \in {"READ", "RECV"}
  <2>1. call.moved = Bytes(Len(call.moved))
    BY <1>5 DEF SInv, TransferOK, ReadOK
  <2>2. CASE n > 0
    <3>1. Moved(fcode, n) = call.moved \o [k \in 1 .. n |-> Len(call.moved) + k]
      BY <1>1, <1>5, <2>2 DEF Moved
    <3>2. PICK m \in Nat : m = Len(call.moved)
      BY <1>1
    <3>3. n \in Nat
      BY <1>2, <2>2
    <3>4. Bytes(m) \o [k \in 1 .. n |-> m + k] = Bytes(m + n)
      BY <3>2, <3>3, BytesGrow
    <3>5. Moved(fcode, n) = Bytes(m + n)
      BY <3>1, <3>2, <3>4, <2>1
    <3>6. m + n \in Nat
      BY <3>2, <3>3
    <3> QED
      BY <1>2, <1>5, <2>2, <3>2, <3>5, <3>6, BytesType
  <2>3. CASE ~ (n > 0)
    <3>1. Moved(fcode, n) = call.moved
      BY <1>1, <1>5, <2>3 DEF Moved
    <3>2. Len(call.moved) + 0 = Len(call.moved)
      BY <1>1
    <3> QED
      BY <1>1, <1>2, <1>5, <2>1, <2>3, <3>1, <3>2
  <2> QED
    BY <2>2, <2>3
<1>6. CASE call.fn \notin {"PUTS", "WRITE", "SEND", "READ", "RECV"}
  <2>1. Moved(fcode, n) = call.moved
    BY <1>1, <1>6 DEF Moved
  <2> QED
    BY <1>1, <1>2, <1>6, <2>1
<1> QED
  BY <1>3, <1>4, <1>5, <1>6

(* The host function answers: the input fields are filled, the output      *)
(* fields cleared, and the enclave that called is resumed.                 *)
LEMMA AnswerSInv ==
  ASSUME SInv, at \in {"trampoline", "blocked"}, UNCHANGED <<hostVars, heap>>,
         NEW n \in Transfers(fcode), NEW fs \in AnsweredFields(fcode),
         field' = clear_abi_out_fields([f \in Scalars |->
                    IF f \in fs THEN "new" ELSE clear_abi_in_fields(field)[f]]),
         data' = cleared_out_data(Filled(fcode, n)),
         ret' = n,
         call' = [call EXCEPT !.moved = Moved(fcode, n), !.failed = @ \/ n = -1],
         fcode' = "UNSET", at' = "answered", running' = stubTcs
  PROVE  SInv'
<1>1. /\ call \in CallType /\ ~call.done /\ fcode = call.fn /\ call.fn \in Codes
      /\ call.i <= LastChunk(call) /\ (call.fn \notin Chunked => call.count <= MaxArg)
      /\ call.count \in 0 .. MaxCount /\ MaxCount \in Nat /\ MaxArg \in Nat \ {0}
      /\ tmp_len(call) \in 0 .. MaxArg /\ call.i * MaxArg \in Nat
      /\ call.i * MaxArg + tmp_len(call) <= call.count
      /\ Reached = call.i * MaxArg /\ Total = call.rt /\ Uncopied = 0
      /\ Len(call.moved) \in Nat /\ call.rt \in Int
  BY Served
<1>2. /\ n \in Int /\ n <= tmp_len(call)
      /\ call.fn \notin Chunked => n = 0
      /\ Moved(fcode, n) \in Seq(Int)
      /\ call.fn = "PUTS" => Moved(fcode, n) = Bytes(call.count)
      /\ call.fn \in {"READ", "RECV"} =>
           Moved(fcode, n) = Bytes(Len(call.moved) + (IF n > 0 THEN n ELSE 0))
      /\ call.fn \in {"WRITE", "SEND"} /\ call.moved = Bytes(call.i * MaxArg) /\ n >= 0 =>
           Moved(fcode, n) = Bytes(call.i * MaxArg + n)
  BY MovedBytes
<1>3. /\ call' \in CallType /\ call'.fn = call.fn /\ call'.count = call.count
      /\ call'.i = call.i /\ call'.rt = call.rt /\ call'.buf = call.buf
      /\ call'.moved = Moved(fcode, n) /\ call'.done = call.done
      /\ call'.failed = (call.failed \/ n = -1)
  <2>1. PICK z \in BOOLEAN : z = (call.failed \/ n = -1)
    BY <1>1 DEF CallType
  <2>2. PICK m \in Seq(Int) : m = Moved(fcode, n)
    BY <1>2
  <2>3. call' = [call EXCEPT !.moved = m, !.failed = z]
    BY <2>1, <2>2
  <2> QED
    BY <1>1, <2>1, <2>2, <2>3 DEF CallType
<1>4. LastChunk(call') = LastChunk(call) /\ tmp_len(call') = tmp_len(call)
  BY <1>3, SameChunks
<1>5. /\ data'["out_data1"] = Zeros /\ data'["out_data2"] = Zeros
      /\ data'["in_data1"] = [k \in 1 .. MaxArg |->
           IF call.fn \in {"READ", "RECV"} /\ k <= n THEN Len(call.moved) + k ELSE 0]
      /\ data' = [b \in Buffers |-> data'[b]]
  <2>1. data \in [Buffers -> [1 .. MaxArg -> Stale .. MaxCount]]
    BY DEF SInv, TypeOK
  <2> QED
    BY <1>1, <2>1 DEF cleared_out_data, Filled, Buffers
<1>6. ASSUME call.fn \in {"READ", "RECV"} PROVE Len(call.moved) <= call.i * MaxArg
  BY <1>1, <1>6 DEF SInv, TransferOK, ReadOK
<1>7. /\ data'["in_data1"] \in [1 .. MaxArg -> Stale .. MaxCount]
      /\ \A k \in 1 .. MaxArg : data'["in_data1"][k] # Stale
  <2>1. ASSUME NEW k \in 1 .. MaxArg, call.fn \in {"READ", "RECV"}, k <= n
        PROVE  Len(call.moved) + k \in 1 .. MaxCount
    <3>1. Len(call.moved) <= call.i * MaxArg
      BY <2>1, <1>6
    <3>2. k \in Nat /\ 1 <= k /\ k <= tmp_len(call)
      BY <2>1, <1>1, <1>2
    <3>3. call.i * MaxArg + tmp_len(call) <= MaxCount
      BY <1>1
    <3> QED
      BY <3>1, <3>2, <3>3, <1>1
  <2>2. /\ \A v \in 1 .. MaxCount : v \in Stale .. MaxCount /\ v # Stale
        /\ 0 \in Stale .. MaxCount /\ 0 # Stale
    BY <1>1 DEF Stale
  <2>3. ASSUME NEW k \in 1 .. MaxArg
        PROVE  data'["in_data1"][k] \in Stale .. MaxCount /\ data'["in_data1"][k] # Stale
    BY <1>5, <2>1, <2>2
  <2> QED
    BY <1>5, <2>3
<1>8. /\ Zeros \in [1 .. MaxArg -> Stale .. MaxCount]
      /\ \A k \in 1 .. MaxArg : Zeros[k] # Stale
  BY <1>1 DEF Zeros, Stale
<1>9. /\ field' \in [Scalars -> {"zero", "new", "old"}]
      /\ \A f \in fs \cap Scalars : field'[f] # "old"
      /\ "pending_page" \notin fs => field'["pending_page"] # "old"
  <2>1. field \in [Scalars -> {"zero", "new", "old"}] /\ "pending_page" \in Scalars
    BY DEF SInv, TypeOK, Scalars
  <2> DEFINE answered == [f \in Scalars |->
                            IF f \in fs THEN "new" ELSE clear_abi_in_fields(field)[f]]
  <2>2. /\ answered \in [Scalars -> {"zero", "new", "old"}]
        /\ \A f \in fs \cap Scalars : answered[f] # "old"
        /\ "pending_page" \notin fs => answered["pending_page"] = "zero"
    BY <2>1 DEF clear_abi_in_fields
  <2>3. field' = clear_abi_out_fields(answered)
    OBVIOUS
  <2> HIDE DEF answered
  <2> QED
    BY <2>1, <2>2, <2>3 DEF clear_abi_out_fields
<1>10. TypeOK'
  <2>1. data' \in [Buffers -> [1 .. MaxArg -> Stale .. MaxCount]]
    BY <1>5, <1>7, <1>8 DEF Buffers
  <2> QED
    BY <1>9, <2>1 DEF SInv, TypeOK, hostVars
<1>11. CallOK'
  BY <1>1, <1>2, <1>3, <1>4 DEF SInv, CallOK, Codes, Malloc, Chunked
<1>12. OneServed' /\ OwnHeaps' /\ OutDataOK' /\ CallSeenIntact'
  BY <1>5 DEF SInv, OneServed, OwnHeaps, OutDataOK, CallSeenIntact, hostVars
<1>13. AnswerIsOwn'
  <2>1. ASSUME NEW f \in Reads(call.fn) PROVE field'[f] # "old"
    <3>1. CASE call.fn = "REQUEST_EAUG"
      <4>1. f = "pending_page" /\ f \in Scalars
        BY <3>1 DEF Reads, Scalars
      <4> QED
        BY <4>1, <1>9
    <3>2. CASE call.fn # "REQUEST_EAUG"
      <4>1. fs = Reads(call.fn)
        BY <3>2, <1>1 DEF AnsweredFields
      <4>2. f \in Scalars
        BY <1>1 DEF Reads, Scalars
      <4> QED
        BY <4>1, <4>2, <1>9
    <3> QED
      BY <3>1, <3>2
  <2>2. ASSUME NEW b \in ReadsData(call.fn), NEW k \in 1 .. MaxArg PROVE data'[b][k] # Stale
    <3>1. b \in {"in_data1", "out_data1", "out_data2"}
      BY DEF ReadsData
    <3> QED
      BY <3>1, <1>5, <1>7, <1>8
  <2> QED
    BY <1>3, <2>1, <2>2 DEF AnswerIsOwn
<1>14. /\ Reached' = call.i * MaxArg + tmp_len(call) /\ Answer' = n /\ Total' = call.rt + n
       /\ Uncopied' = IF n > 0 THEN n ELSE 0
  BY <1>3, <1>4 DEF Reached, Answer, Total, Uncopied
<1>15. SentOK'
  <2> SUFFICES ASSUME call.fn \in {"WRITE", "SEND"}
               PROVE  /\ Total' <= Reached'
                      /\ Total' = Reached' => call'.moved = Bytes(Reached')
    BY <1>3 DEF SentOK
  <2>1. /\ call.rt <= call.i * MaxArg
        /\ call.rt = call.i * MaxArg => call.moved = Bytes(call.i * MaxArg)
    BY <1>1 DEF SInv, TransferOK, SentOK
  <2>2. call.rt + n <= call.i * MaxArg + tmp_len(call)
    BY <1>1, <1>2, <2>1
  <2>3. ASSUME call.rt + n = call.i * MaxArg + tmp_len(call)
        PROVE  Moved(fcode, n) = Bytes(call.i * MaxArg + tmp_len(call))
    <3>1. call.rt = call.i * MaxArg /\ n = tmp_len(call) /\ n >= 0
      BY <1>1, <1>2, <2>1, <2>3
    <3> QED
      BY <3>1, <2>1, <1>2
  <2> QED
    BY <1>3, <1>14, <2>2, <2>3
<1>16. PutsOK'
  BY <1>2, <1>3 DEF PutsOK
<1>17. ReadOK'
  <2> SUFFICES ASSUME call.fn \in {"READ", "RECV"} PROVE ReadOK'
    BY <1>3 DEF ReadOK
  <2>1. PICK u \in Nat : u = IF n > 0 THEN n ELSE 0
    BY <1>2
  <2>2. PICK m \in Nat : m = Len(call.moved)
    BY <1>1
  <2>3. /\ m <= call.i * MaxArg /\ u <= tmp_len(call)
        /\ call'.moved = Bytes(m + u) /\ Len(call'.moved) = m + u
        /\ Uncopied' = u /\ m + u - u = m /\ u <= m + u
    <3>1. m <= call.i * MaxArg
      BY <2>2, <1>6
    <3>2. u <= tmp_len(call)
      BY <2>1, <1>1, <1>2
    <3>3. call'.moved = Bytes(m + u)
      BY <1>2, <1>3, <2>1, <2>2
    <3>4. m + u \in Nat /\ m + u - u = m /\ u <= m + u
      OBVIOUS
    <3>5. Len(call'.moved) = m + u
      BY <3>3, <3>4, BytesType
    <3> QED
      BY <3>1, <3>2, <3>3, <3>4, <3>5, <2>1, <1>14
  <2>4. Len(call'.moved) <= Reached'
    BY <2>3, <1>14, <1>1
  <2>5. call.fn = "READ" /\ ~call'.failed => Total' = m + u
    <3>1. call.fn = "READ" /\ ~call.failed => call.rt = m
      BY <2>2, <1>1 DEF SInv, TransferOK, ReadOK
    <3>2. ~call'.failed => ~call.failed /\ n # -1
      BY <1>3
    <3>3. n # -1 => n = u
      BY <1>1, <1>2, <2>1 DEF Transfers, Chunked
    <3> QED
      BY <3>1, <3>2, <3>3, <1>1, <1>14
  <2>6. /\ Delivers(call'.buf, m) /\ Len(call'.buf) = call'.count
        /\ \A k \in DOMAIN call'.buf : k > call'.i * MaxArg => call'.buf[k] = 0
    <3>1. m - 0 = m
      OBVIOUS
    <3> QED
      BY <3>1, <1>1, <1>3, <2>2 DEF SInv, TransferOK, ReadOK
  <2>7. data'["in_data1"] = [k \in 1 .. MaxArg |-> IF k <= n THEN m + k ELSE 0]
    BY <1>5, <2>2
  <2>8. n <= tmp_len(call') /\ m <= call'.i * MaxArg
    BY <1>2, <1>3, <1>4, <2>3
  <2>9. Len(call'.moved) - Uncopied' = m
    BY <2>3
  <2> QED
    BY <1>3, <2>3, <2>4, <2>5, <2>6, <2>7, <2>8, <2>9 DEF ReadOK
<1> QED
  BY <1>10, <1>11, <1>12, <1>13, <1>15, <1>16, <1>17 DEF SInv, TransferOK

(* The trampoline answers, or it does not know the function and returns.   *)
LEMMA DispatchSInv ==
  ASSUME SInv, at \in {"trampoline", "blocked"}, Dispatch, UNCHANGED <<hostVars, heap>>
  PROVE  SInv'
<1>1. CASE fcode \notin {"UNSET", "SYSCALL"}
  <2>1. PICK n \in Transfers(fcode), fs \in AnsweredFields(fcode) :
          /\ field' = clear_abi_out_fields([f \in Scalars |->
               IF f \in fs THEN "new" ELSE clear_abi_in_fields(field)[f]])
          /\ data' = cleared_out_data(Filled(fcode, n))
          /\ ret' = n
          /\ call' = [call EXCEPT !.moved = Moved(fcode, n), !.failed = @ \/ n = -1]
    BY <1>1 DEF Dispatch
  <2>2. fcode' = "UNSET" /\ at' = "answered" /\ running' = stubTcs
    BY <1>1 DEF Dispatch
  <2> QED
    BY <2>1, <2>2, AnswerSInv
<1>2. CASE fcode \in {"UNSET", "SYSCALL"}
  <2>1. /\ field' = clear_abi_in_fields(field)
        /\ data' = [data EXCEPT !["in_data1"] = Zeros]
        /\ at' = "lost" /\ UNCHANGED <<fcode, ret, call, running>>
    BY <1>2 DEF Dispatch
  <2>2. Zeros \in [1 .. MaxArg -> Stale .. MaxCount]
    BY BoundsAssumption DEF Zeros, Stale
  <2>3. TypeOK'
    BY <2>1, <2>2 DEF SInv, TypeOK, hostVars, clear_abi_in_fields
  <2>4. CallOK' /\ OneServed' /\ OwnHeaps' /\ OutDataOK' /\ CallSeenIntact' /\ AnswerIsOwn'
    BY <2>1 DEF SInv, CallOK, OneServed, OwnHeaps, OutDataOK, CallSeenIntact, AnswerIsOwn, hostVars
  <2>5. TransferOK'
    BY <2>1, TransferKept DEF SInv
  <2> QED
    BY <2>3, <2>4, <2>5 DEF SInv
<1> QED
  BY <1>1, <1>2

-----------------------------------------------------------------------------
(* The enclave reads the answer.                                           *)

(* Buffer e is buffer b, which holds m bytes in the first o places, with a *)
(* chunk of t places copied behind them, of which the host filled r.       *)
ChunkCopied(b, e, count, o, t, m, r) ==
  /\ count \in Nat /\ o \in Nat /\ t \in Nat /\ m \in Nat /\ r \in Int
  /\ o + t <= count /\ r <= t
  /\ b \in [1 .. count -> Nat] /\ e \in [1 .. count -> Nat]
  /\ Delivers(b, m) /\ \A k \in 1 .. count : k > o => b[k] = 0
  /\ \A k \in 1 .. count : o < k /\ k <= o + t =>
       e[k] = IF k - o <= r THEN m + (k - o) ELSE 0
  /\ \A k \in 1 .. count : ~ (o < k /\ k <= o + t) => e[k] = b[k]

(* However many of its bytes the host did not provide, the chunk keeps the *)
(* buffer in order.                                                        *)
LEMMA ChunkDelivered ==
  ASSUME NEW b, NEW e, NEW count, NEW o, NEW t, NEW m, NEW r,
         ChunkCopied(b, e, count, o, t, m, r)
  PROVE  /\ Delivers(e, m + (IF r > 0 THEN r ELSE 0))
         /\ \A k \in 1 .. count : k > o + t => e[k] = 0
<1>0. /\ count \in Nat /\ o \in Nat /\ t \in Nat /\ m \in Nat /\ r \in Int
      /\ o + t <= count /\ r <= t
      /\ b \in [1 .. count -> Nat] /\ e \in [1 .. count -> Nat]
      /\ Delivers(b, m) /\ \A k \in 1 .. count : k > o => b[k] = 0
      /\ \A k \in 1 .. count : o < k /\ k <= o + t =>
           e[k] = IF k - o <= r THEN m + (k - o) ELSE 0
      /\ \A k \in 1 .. count : ~ (o < k /\ k <= o + t) => e[k] = b[k]
  BY DEF ChunkCopied
<1> USE <1>0
<1>u. PICK u \in Nat : u = IF r > 0 THEN r ELSE 0
  OBVIOUS
<1> USE <1>u
<1>1. \A k \in 1 .. count : b[k] # 0 => b[k] \in 1 .. m
  BY DEF Delivers
<1>2. \A v \in 1 .. m : \E k \in 1 .. count : b[k] = v
  BY DEF Delivers
<1>3. ASSUME NEW k \in 1 .. count, e[k] # 0
      PROVE  \/ k <= o /\ e[k] = b[k] /\ b[k] \in 1 .. m
             \/ o < k /\ k - o <= u /\ e[k] = m + (k - o)
  <2>1. CASE k <= o
    BY <2>1, <1>1, <1>3
  <2>2. CASE o < k /\ k <= o + t
    BY <2>2, <1>3
  <2>3. CASE o + t < k
    BY <2>3, <1>3
  <2> QED
    BY <2>1, <2>2, <2>3
<1>4. ASSUME NEW v \in 1 .. m + u PROVE \E k \in 1 .. count : e[k] = v
  <2>1. CASE v <= m
    <3>1. PICK k \in 1 .. count : b[k] = v
      BY <2>1, <1>2
    <3>2. k <= o
      BY <3>1
    <3> QED
      BY <3>1, <3>2
  <2>2. CASE m < v
    <3>1. PICK j \in 1 .. u : v = m + j
      <4>1. v - m \in 1 .. u /\ v = m + (v - m)
        BY <2>2
      <4> QED
        BY <4>1
    <3>2. o + j \in 1 .. count /\ o < o + j /\ o + j <= o + t /\ (o + j) - o = j /\ j <= r
      BY <3>1
    <3>3. e[o + j] = m + j
      BY <3>2
    <3> QED
      BY <3>1, <3>2, <3>3
  <2>3. v \in Nat
    OBVIOUS
  <2> QED
    BY <2>1, <2>2, <2>3
<1>5. {e[k] : k \in DOMAIN e} \ {0} = 1 .. m + u
  <2>1. ASSUME NEW k \in 1 .. count, e[k] # 0 PROVE e[k] \in 1 .. m + u
    BY <2>1, <1>3
  <2>2. ASSUME NEW v \in 1 .. m + u PROVE v # 0
    OBVIOUS
  <2> QED
    BY <1>4, <2>1, <2>2
<1>6. ASSUME NEW j \in 1 .. count, NEW k \in 1 .. count, j < k, e[k] # 0
      PROVE  e[j] < e[k]
  <2>1. e[k] \in Nat /\ e[k] > 0 /\ e[j] \in Nat
    BY <1>6
  <2>2. CASE e[j] = 0
    BY <2>1, <2>2
  <2>3. CASE e[j] # 0
    <3>1. \/ k <= o /\ e[k] = b[k] /\ b[k] \in 1 .. m
          \/ o < k /\ k - o <= u /\ e[k] = m + (k - o)
      BY <1>3, <1>6
    <3>2. \/ j <= o /\ e[j] = b[j] /\ b[j] \in 1 .. m
          \/ o < j /\ j - o <= u /\ e[j] = m + (j - o)
      BY <1>3, <2>3
    <3>3. CASE k <= o
      <4>1. e[k] = b[k] /\ e[j] = b[j] /\ b[k] # 0
        BY <3>1, <3>2, <3>3, <1>6
      <4>2. b[j] < b[k]
        BY <4>1, <1>6 DEF Delivers
      <4> QED
        BY <4>1, <4>2
    <3>4. CASE o < k /\ j <= o
      BY <3>1, <3>2, <3>4
    <3>5. CASE o < k /\ o < j
      BY <3>1, <3>2, <3>5, <1>6
    <3> QED
      BY <3>3, <3>4, <3>5
  <2> QED
    BY <2>2, <2>3
<1>7. Delivers(e, m + u)
  BY <1>5, <1>6 DEF Delivers
<1>8. ASSUME NEW k \in 1 .. count, k > o + t PROVE e[k] = 0
  BY <1>8
<1> QED
  BY <1>7, <1>8, <1>u

(* The library function copies the chunk and goes on.                      *)
LEMMA ReturnSInv ==
  ASSUME SInv, Return
  PROVE  SInv'
<1> DEFINE r == IF call.fn \in Chunked THEN call.rt + ret ELSE call.rt
           b == IF call.fn \in {"READ", "RECV"} THEN Received(call) ELSE call.buf
           o == call.i * MaxArg
           t == tmp_len(call)
<1>1. /\ at = "answered" /\ at' \in {"enclave", "fault"}
      /\ call' = Advance([call EXCEPT !.rt = r, !.buf = b])
      /\ heap' = IF call.fn = "MALLOC_INIT" THEN [heap EXCEPT ![running] = heapOf] ELSE heap
      /\ UNCHANGED <<running, hostVars, stubVars, ret>>
  BY DEF Return
<1>2. /\ call \in CallType /\ ret \in Int /\ ~call.done /\ call.i <= LastChunk(call)
      /\ call.fn # "UNSET"
      /\ call.fn \notin Chunked => call.count <= MaxArg
      /\ call.count \in Nat /\ call.i \in Nat /\ call.rt \in Int /\ call.buf \in Seq(Nat)
      /\ call.moved \in Seq(Int) /\ Len(call.moved) \in Nat /\ MaxArg \in Nat \ {0}
  BY <1>1, BoundsAssumption DEF SInv, CallOK, CallType
<1>3. /\ t \in 0 .. MaxArg /\ LastChunk(call) \in Nat /\ o \in Nat /\ o + t <= call.count
      /\ call.i < LastChunk(call) => (call.i + 1) * MaxArg = o + t
      /\ call.i = LastChunk(call) => call.count = o + t
  BY <1>2, ChunkFits
<1> HIDE DEF o, t
<1>4. r \in Int
  BY <1>2
<1>5. ASSUME call.fn \in {"READ", "RECV"}
      PROVE  /\ b \in Seq(Nat) /\ Len(b) = call.count /\ Delivers(b, Len(call.moved))
             /\ \A k \in DOMAIN b : k > o + t => b[k] = 0
  <2>1. /\ Uncopied = IF ret > 0 THEN ret ELSE 0
        /\ Uncopied \in Nat /\ Uncopied <= Len(call.moved)
    BY <1>1, <1>2, <1>5 DEF SInv, TransferOK, ReadOK, Uncopied, Answer
  <2>2. PICK m \in Nat : m = Len(call.moved) - Uncopied
    <3>1. Len(call.moved) \in Nat /\ Uncopied \in Nat /\ Uncopied <= Len(call.moved)
      BY <1>2, <2>1
    <3> QED
      BY <3>1
  <2>3. /\ ret <= t /\ Delivers(call.buf, m) /\ Len(call.buf) = call.count
        /\ data["in_data1"] = [k \in 1 .. MaxArg |-> IF k <= ret THEN m + k ELSE 0]
        /\ \A k \in DOMAIN call.buf : k > o => call.buf[k] = 0
    BY <1>1, <1>2, <1>5, <2>2 DEF SInv, TransferOK, ReadOK, o, t
  <2>4. call.buf \in [1 .. call.count -> Nat]
    BY <1>2, <2>3
  <2>5. b = [k \in 1 .. call.count |->
               IF o < k /\ k <= o + t THEN data["in_data1"][k - o] ELSE call.buf[k]]
    BY <1>5 DEF Received, o, t
  <2>6. ASSUME NEW k \in 1 .. call.count, o < k, k <= o + t
        PROVE  data["in_data1"][k - o] = IF k - o <= ret THEN m + (k - o) ELSE 0
    <3>1. k - o \in 1 .. MaxArg
      BY <1>2, <1>3, <2>6
    <3> QED
      BY <2>3, <3>1
  <2>7. ASSUME NEW k \in 1 .. call.count
        PROVE  /\ b[k] \in Nat
               /\ o < k /\ k <= o + t => b[k] = IF k - o <= ret THEN m + (k - o) ELSE 0
               /\ ~ (o < k /\ k <= o + t) => b[k] = call.buf[k]
    <3>1. CASE o < k /\ k <= o + t
      <4>1. b[k] = IF k - o <= ret THEN m + (k - o) ELSE 0
        BY <2>5, <2>6, <3>1
      <4>2. k - o \in Nat
        BY <1>2, <1>3, <3>1
      <4>3. b[k] \in Nat
        BY <4>1, <4>2
      <4> HIDE DEF b
      <4> QED
        BY <4>1, <4>3, <3>1
    <3>2. CASE ~ (o < k /\ k <= o + t)
      <4>1. b[k] = call.buf[k]
        BY <2>5, <3>2
      <4> HIDE DEF b
      <4> QED
        BY <4>1, <2>4, <3>2
    <3> HIDE DEF b
    <3> QED
      BY <3>1, <3>2
  <2>8. b \in [1 .. call.count -> Nat]
    <3>1. DOMAIN b = 1 .. call.count /\ b = [k \in 1 .. call.count |-> b[k]]
      BY <2>5
    <3> HIDE DEF b
    <3> QED
      BY <3>1, <2>7
  <2> HIDE DEF b
  <2>9. b \in Seq(Nat) /\ Len(b) = call.count /\ DOMAIN b = 1 .. call.count
    BY <2>8, <1>2
  <2>10. DOMAIN call.buf = 1 .. call.count
    BY <2>4
  <2>11. Delivers(b, m + Uncopied) /\ \A k \in 1 .. call.count : k > o + t => b[k] = 0
    <3>1. call.count \in Nat /\ o \in Nat /\ t \in Nat /\ o + t <= call.count
      BY <1>2, <1>3
    <3>2. \A k \in 1 .. call.count : k > o => call.buf[k] = 0
      BY <2>3, <2>10
    <3>3. PICK u \in Nat : u = Uncopied
      BY <2>1
    <3>4. ret \in Int /\ ret <= t /\ u = IF ret > 0 THEN ret ELSE 0
      BY <1>2, <2>1, <2>3, <3>3
    <3>5. /\ \A k \in 1 .. call.count : o < k /\ k <= o + t =>
               b[k] = IF k - o <= ret THEN m + (k - o) ELSE 0
          /\ \A k \in 1 .. call.count : ~ (o < k /\ k <= o + t) => b[k] = call.buf[k]
      BY <2>7
    <3>6. Delivers(call.buf, m)
      BY <2>3
    <3>7. ChunkCopied(call.buf, b, call.count, o, t, m, ret)
      BY <2>4, <2>8, <3>1, <3>2, <3>4, <3>5, <3>6 DEF ChunkCopied
    <3>8. /\ Delivers(b, m + (IF ret > 0 THEN ret ELSE 0))
          /\ \A k \in 1 .. call.count : k > o + t => b[k] = 0
      BY <3>7, ChunkDelivered
    <3> QED
      BY <2>1, <3>8
  <2>12. m + Uncopied = Len(call.moved)
    BY <1>2, <2>1, <2>2
  <2> QED
    BY <2>9, <2>11, <2>12
<1>6. b \in Seq(Nat)
  BY <1>2, <1>5
<1> HIDE DEF r, b
<1>7. /\ call' \in CallType /\ call'.fn = call.fn /\ call'.count = call.count
      /\ call'.i = call.i + 1 /\ call'.rt = r /\ call'.buf = b
      /\ call'.moved = call.moved /\ call'.failed = call.failed
      /\ call'.done = (call.i = LastChunk(call))
  <2>1. PICK c : c = [call EXCEPT !.rt = r, !.buf = b]
    OBVIOUS
  <2>2. /\ c \in CallType /\ c.fn = call.fn /\ c.count = call.count /\ c.i = call.i
        /\ c.rt = r /\ c.buf = b /\ c.moved = call.moved /\ c.failed = call.failed
    BY <1>2, <1>4, <1>6, <2>1 DEF CallType
  <2>3. LastChunk(c) = LastChunk(call)
    BY <2>2, SameChunks
  <2>4. call' = Advance(c)
    BY <1>1, <2>1
  <2> QED
    BY <2>2, <2>3, <2>4, AdvancedCall
<1>8. LastChunk(call') = LastChunk(call)
  BY <1>7, SameChunks
<1>9. running \in Enclaves /\ heapOf = running
  BY <1>1 DEF SInv, OneServed
<1>10. TypeOK' /\ OwnHeaps'
  BY <1>1, <1>9 DEF SInv, TypeOK, OwnHeaps, hostVars, stubVars
<1>11. CallOK'
  <2>1. ~call'.done => call'.i <= LastChunk(call')
    <3>1. ~call'.done => call.i # LastChunk(call)
      BY <1>7
    <3>2. call.i # LastChunk(call) => call.i + 1 <= LastChunk(call)
      BY <1>2, <1>3
    <3> QED
      BY <3>1, <3>2, <1>7, <1>8
  <2>2. call'.done => call'.i = LastChunk(call') + 1
    BY <1>2, <1>3, <1>7, <1>8
  <2> QED
    BY <1>1, <1>2, <1>7, <2>1, <2>2 DEF SInv, CallOK
<1>12. OneServed' /\ OutDataOK' /\ CallSeenIntact' /\ AnswerIsOwn'
  BY <1>1 DEF SInv, OneServed, OutDataOK, CallSeenIntact, AnswerIsOwn, hostVars, stubVars
<1>13. /\ Reached = o + t /\ Reached' = o + t /\ Answer' = 0 /\ Uncopied' = 0
       /\ Total = call.rt + ret /\ Total' = r
  <2>1. Reached = o + t /\ Answer' = 0 /\ Uncopied' = 0 /\ Total = call.rt + ret
    BY <1>1 DEF Reached, Answer, Uncopied, Total, o, t
  <2>2. Total' = r
    BY <2>1, <1>4, <1>7 DEF Total
  <2>3. CASE call.i = LastChunk(call)
    <3>1. ~ (call'.i <= LastChunk(call'))
      BY <2>3, <1>3, <1>7, <1>8
    <3>2. Reached' = call.count
      BY <1>1, <1>7, <3>1 DEF Reached
    <3> QED
      BY <3>2, <2>1, <2>2, <2>3, <1>3
  <2>4. CASE call.i < LastChunk(call)
    <3>1. call'.i <= LastChunk(call')
      BY <2>4, <1>2, <1>3, <1>7, <1>8
    <3>2. Reached' = (call.i + 1) * MaxArg
      BY <1>1, <1>7, <3>1 DEF Reached
    <3> QED
      BY <3>2, <2>1, <2>2, <2>4, <1>3
  <2> QED
    BY <2>3, <2>4, <1>2, <1>3
<1>14. call.fn \in Chunked => r = Total
  BY <1>13 DEF r
<1>15. SentOK'
  BY <1>7, <1>13, <1>14 DEF SInv, TransferOK, SentOK, Chunked
<1>16. PutsOK'
  BY <1>1, <1>7 DEF SInv, TransferOK, PutsOK
<1>17. ReadOK'
  <2> SUFFICES ASSUME call.fn \in {"READ", "RECV"} PROVE ReadOK'
    BY <1>7 DEF ReadOK
  <2>1. /\ Len(call.moved) <= o + t /\ call.moved = Bytes(Len(call.moved))
        /\ call.fn = "READ" /\ ~call.failed => r = Len(call.moved)
    BY <1>13, <1>14 DEF SInv, TransferOK, ReadOK, Chunked
  <2>2. Len(call.moved) - 0 = Len(call.moved) /\ 0 <= Len(call.moved)
    BY <1>2
  <2>3. ~call'.done => call'.i * MaxArg = o + t
    <3>1. ~call'.done => call.i # LastChunk(call)
      BY <1>7
    <3>2. call.i # LastChunk(call) => call.i < LastChunk(call)
      BY <1>2, <1>3
    <3> QED
      BY <3>1, <3>2, <1>3, <1>7
  <2> QED
    BY <1>1, <1>5, <1>7, <1>13, <2>1, <2>2, <2>3 DEF ReadOK
<1> QED
  BY <1>10, <1>11, <1>12, <1>15, <1>16, <1>17 DEF SInv, TransferOK

-----------------------------------------------------------------------------
(* Every step preserves the invariant.                                     *)
LEMMA NextSInv == SInv /\ [Next]_vars => SInv'
<1> SUFFICES ASSUME SInv, [Next]_vars PROVE SInv'
  OBVIOUS
<1>1. CASE Next
  <2>1. ASSUME NEW e \in Enclaves, init_enclave(e) \/ sgx_enter(e) PROVE SInv'
    BY <2>1, InitEnclaveSInv, EnterSInv
  <2>2. ASSUME NEW f \in Codes, NEW n \in 0 .. MaxCount, Begin(f, n) PROVE SInv'
    BY <2>2, BeginSInv
  <2>3. CASE sgx_trampoline
    BY <2>3, DispatchSInv DEF sgx_trampoline
  <2>4. CASE Unblock
    BY <2>4, DispatchSInv DEF Unblock
  <2> QED
    BY <1>1, <2>1, <2>2, <2>3, <2>4, CallOutSInv, BlockSInv, ReturnSInv, ExitSInv DEF Next
<1>2. CASE UNCHANGED vars
  <2>1. /\ at' = at /\ running' = running /\ tcs' = tcs /\ stubTcs' = stubTcs
        /\ curKeid' = curKeid /\ heapOf' = heapOf /\ fcode' = fcode /\ field' = field
        /\ data' = data /\ call' = call /\ ret' = ret /\ heap' = heap
    BY <1>2 DEF vars, hostVars, stubVars
  <2>2. TypeOK' /\ OneServed' /\ OwnHeaps' /\ CallOK'
    BY <2>1 DEF SInv, TypeOK, OneServed, OwnHeaps, CallOK
  <2>3. OutDataOK' /\ CallSeenIntact' /\ AnswerIsOwn'
    BY <2>1 DEF SInv, OutDataOK, CallSeenIntact, AnswerIsOwn
  <2>4. Reached' = Reached /\ Answer' = Answer
    BY <2>1 DEF Reached, Answer
  <2>5. Total' = Total /\ Uncopied' = Uncopied
    BY <2>1, <2>4 DEF Total, Uncopied
  <2>6. TransferOK'
    BY <2>1, <2>4, <2>5 DEF SInv, TransferOK, SentOK, PutsOK, ReadOK
  <2> QED
    BY <2>2, <2>3, <2>6 DEF SInv
<1> QED
  BY <1>1, <1>2

(* The invariant holds in every behaviour.                                 *)
THEOREM StubInvariance == Spec => []SInv
BY InitSInv, NextSInv, PTL DEF Spec

(***************************************************************************)
(* The stub's fields keep their types: no transfer, in however many chunks *)
(* and however short the host's answers, puts a byte beyond the caller's   *)
(* count into a data field.                                                *)
(***************************************************************************)
THEOREM StubTypes == Spec => []TypeOK
<1>1. SInv => TypeOK
  BY DEF SInv
<1> QED
  BY <1>1, StubInvariance, PTL

(***************************************************************************)
(* The host function gets the arguments of the call in progress and        *)
(* nothing of an earlier one.                                              *)
(***************************************************************************)
THEOREM ArgumentsIntact == Spec => []CallSeenIntact
<1>1. SInv => CallSeenIntact
  BY DEF SInv
<1> QED
  BY <1>1, StubInvariance, PTL

(***************************************************************************)
(* The library function never takes the answer of an earlier call for its  *)
(* own.                                                                    *)
(***************************************************************************)
THEOREM AnswersOwn == Spec => []AnswerIsOwn
<1>1. SInv => AnswerIsOwn
  BY DEF SInv
<1> QED
  BY <1>1, StubInvariance, PTL

(***************************************************************************)
(* The trampoline's globals belong to the enclave that called, and so does *)
(* the heap every enclave took its memory from.                            *)
(***************************************************************************)
THEOREM CallerServed == Spec => []TrampolineServesCaller
<1>1. SInv => TrampolineServesCaller
  BY DEF SInv, OneServed, OwnHeaps, TrampolineServesCaller
<1> QED
  BY <1>1, StubInvariance, PTL

(***************************************************************************)
(* write, send, puts and read account for the bytes they transferred, for  *)
(* every count and every size of the data fields.                          *)
(***************************************************************************)
THEOREM BytesAccounted == Spec => []TransfersAccounted
<1>1. ASSUME SInv, call.done PROVE TransfersAccounted
  <2>1. /\ call \in CallType /\ at # "answered"
        /\ call.fn # "UNSET" => call.i = LastChunk(call) + 1
    BY <1>1 DEF SInv, CallOK
  <2>2. LastChunk(call) \in Nat
    BY <2>1, LastChunkType
  <2>3. Answer = 0 /\ Uncopied = 0
    BY <2>1 DEF Answer, Uncopied
  <2>4. Total = call.rt
    BY <2>1, <2>3 DEF Total, CallType
  <2>5. call.fn # "UNSET" => Reached = call.count
    BY <2>1, <2>2 DEF Reached
  <2>6. Len(call.moved) - 0 = Len(call.moved)
    BY <2>1 DEF CallType
  <2>7. call.fn \in {"WRITE", "SEND"} /\ call.rt = call.count => call.moved = Bytes(call.count)
    BY <1>1, <2>4, <2>5 DEF SInv, TransferOK, SentOK
  <2>8. call.fn = "PUTS" => call.moved = Bytes(call.count)
    BY <1>1 DEF SInv, TransferOK, PutsOK
  <2>9. call.fn \in {"READ", "RECV"} => Delivers(call.buf, Len(call.moved))
    BY <1>1, <2>3, <2>6 DEF SInv, TransferOK, ReadOK
  <2>10. call.fn = "READ" /\ ~call.failed => call.rt = Len(call.moved)
    BY <1>1, <2>4 DEF SInv, TransferOK, ReadOK
  <2> QED
    BY <2>7, <2>8, <2>9, <2>10 DEF TransfersAccounted
<1>2. SInv => TransfersAccounted
  BY <1>1 DEF TransfersAccounted
<1> QED
  BY <1>2, StubInvariance, PTL
=============================================================================
