----------------------------- MODULE StubCalls -----------------------------
(***************************************************************************)
(* Outward calls: an enclave asks its host for a library function through  *)
(* the page at STUB_ADDR (sgx_stub_info), which both sides write.  The     *)
(* enclave's side is in libsgx/musl-libc (puts, read, write, ...), the     *)
(* host's is user/sgx-trampoline.c, and user/sgx-runtime*.c, sgx-host.c    *)
(* and sgx-user.c create and enter the enclaves.                           *)
(*                                                                         *)
(* Values are abstracted to where they come from.  A scalar field is       *)
(* "zero", "new" (written for the outward call in progress) or "old" (left *)
(* over from an earlier one).  A byte of a data field is 0 when cleared,   *)
(* k > 0 when it is byte k of what the call in progress transfers, and     *)
(* Stale when it is left over.                                             *)
(***************************************************************************)
EXTENDS Integers, Sequences

CONSTANTS
  NumEnclaves, \* how many enclaves the runtime creates, one after the other
  MaxArg,    \* SGXLIB_MAX_ARG
  MaxCount,  \* the longest transfer a program asks for
  None

ASSUME BoundsAssumption ==
  NumEnclaves \in Nat /\ MaxArg \in Nat \ {0} /\ MaxCount \in Nat

Enclaves == 1 .. NumEnclaves

Stale == -1
Scalars == {"out_arg1", "out_arg2", "out_arg3", "out_arg4",
            "in_arg1", "in_arg3", "in_tm", "pending_page", "heap"}
Buffers == {"in_data1", "out_data1", "out_data2"}

(* fcode_t; FUNC_MALLOC is split by its mcode_t.                           *)
Malloc  == {"MALLOC_UNSET", "MALLOC_INIT", "REQUEST_EAUG"}
Chunked == {"READ", "RECV", "WRITE", "SEND"}
Codes   == {"PUTS", "PUTCHAR", "FREE", "SYSCALL", "CLOSE", "GMTIME", "TIME",
            "SOCKET", "BIND", "LISTEN", "ACCEPT", "CONNECT"} \cup Malloc \cup Chunked

VARIABLES
  at,       \* who runs: "host", "enclave", "trampoline", "blocked" (in a host
            \* function), "answered" (the enclave, just resumed), "lost",
            \* "fault", "exited"
  running,  \* the enclave that was entered last
  tcs,      \* the handle main keeps: what init_enclave returned
  stubTcs, curKeid, heapOf, \* stub->tcs, cur_keid, epc_heap_beg and epc_heap_end
  fcode, field, data,       \* the call fields of the stub
  call,     \* the library call in progress, or finished last
  ret,      \* the number in_arg1 stands for when it is "new"
  heap      \* heap_start of every enclave: whose heap it is

stubVars == <<fcode, field, data>>
hostVars == <<tcs, stubTcs, curKeid, heapOf>>
vars == <<at, running, hostVars, stubVars, call, ret, heap>>

Zeros == [k \in 1 .. MaxArg |-> 0]
NoCall == [fn |-> "UNSET", count |-> 0, i |-> 0, rt |-> 0, buf |-> <<>>,
           moved |-> <<>>, done |-> TRUE, failed |-> FALSE]

(* sgx_init: the page is zeroed.                                           *)
Init ==
  /\ at = "host" /\ running = None
  /\ tcs = None /\ stubTcs = None /\ curKeid = None /\ heapOf = None
  /\ fcode = "UNSET" /\ field = [f \in Scalars |-> "zero"]
  /\ data = [b \in Buffers |-> Zeros]
  /\ call = NoCall /\ ret = 0
  /\ heap = [e \in Enclaves |-> None]

-----------------------------------------------------------------------------
(* The runtime.  main creates an enclave, enters it until it is done, and  *)
(* only then creates the next.                                             *)

init_enclave(e) ==
  /\ at = "host"
  /\ e = IF tcs = None THEN 1 ELSE tcs + 1
  /\ tcs # None => running = tcs
  /\ \/ /\ tcs' = e /\ stubTcs' = e /\ curKeid' = e /\ heapOf' = e
        /\ UNCHANGED at
     \/ /\ at' = "exited"   \* err(1, ...)
        /\ UNCHANGED hostVars
  /\ UNCHANGED <<running, stubVars, call, ret, heap>>

\* Mutant: main enters an enclave it created earlier.
sgx_enter_Any(e) ==
  /\ at = "host" /\ tcs # None /\ e <= tcs
  /\ at' = "enclave" /\ running' = e /\ call' = NoCall
  /\ UNCHANGED <<hostVars, stubVars, ret, heap>>

sgx_enter(e) ==
  /\ at = "host" /\ tcs = e
  /\ at' = "enclave" /\ running' = e /\ call' = NoCall
  /\ UNCHANGED <<hostVars, stubVars, ret, heap>>

-----------------------------------------------------------------------------
(* The enclave's side of a call.                                           *)

(* The fields the library function sets before it leaves, and those it     *)
(* reads when it is resumed.                                               *)
Sets(f) ==
  CASE f \in {"PUTCHAR", "CLOSE", "ACCEPT"} -> {"out_arg1"}
    [] f \in {"READ", "WRITE", "LISTEN", "BIND", "CONNECT"} -> {"out_arg1", "out_arg2"}
    [] f \in {"SOCKET", "SEND", "RECV"} -> {"out_arg1", "out_arg2", "out_arg3"}
    [] f = "GMTIME" -> {"out_arg4"}
    [] OTHER -> {}
SetsData(f) == f \in {"PUTS", "WRITE", "SEND", "BIND", "CONNECT"}
Reads(f) ==
  CASE f \in {"PUTCHAR", "FREE", "SYSCALL", "MALLOC_UNSET"} -> {}
    [] f = "MALLOC_INIT" -> {"heap"}
    [] f = "REQUEST_EAUG" -> {"pending_page"}
    [] f = "TIME" -> {"in_arg3"}
    [] f = "GMTIME" -> {"in_tm"}
    [] OTHER -> {"in_arg1"}
ReadsData(f) ==
  CASE f \in {"READ", "RECV"} -> {"in_data1"}
    [] f = "TIME" -> {"out_data1"}
    [] f = "ACCEPT" -> {"out_data1", "out_data2"}
    [] OTHER -> {}

(* read, write, recv and send go in chunks, the last of which is empty     *)
(* when count is a multiple of SGXLIB_MAX_ARG.  What the others pass fits  *)
(* in one field.                                                           *)
LastChunk(c) == IF c.fn \in Chunked THEN c.count \div MaxArg ELSE 0
\* Mutant: every chunk is a full one.
tmp_len_Full(c) == IF c.fn \in Chunked THEN MaxArg ELSE c.count

tmp_len(c) ==
  IF c.fn \in Chunked /\ c.i < LastChunk(c) THEN MaxArg
  ELSE IF c.fn \in Chunked THEN c.count % MaxArg ELSE c.count

Begin(f, n) ==
  /\ at = "enclave" /\ call.done
  /\ n <= IF f \in Chunked THEN MaxCount
          ELSE IF SetsData(f) THEN MaxArg ELSE 0
  /\ f = "REQUEST_EAUG" => heap[running] # None
  /\ \E rt \in IF f = "RECV" THEN {0, 1} ELSE {0} : \* recv does not initialise rt
       call' = [NoCall EXCEPT !.fn = f, !.count = n, !.rt = rt, !.done = FALSE,
                              !.buf = [k \in 1 .. n |-> 0]]
  /\ UNCHANGED <<at, running, hostVars, stubVars, ret, heap>>

Aged(v) == IF v = "new" THEN "old" ELSE v
AgedByte(b) == IF b = 0 THEN 0 ELSE Stale

CallOut ==
  /\ at = "enclave" /\ ~call.done
  /\ at' = "trampoline" /\ fcode' = call.fn
  /\ field' = [f \in Scalars |-> IF f \in Sets(call.fn) THEN "new" ELSE Aged(field[f])]
  /\ data' = [b \in Buffers |-> [k \in 1 .. MaxArg |->
       IF b = "out_data1" /\ SetsData(call.fn) /\ k <= tmp_len(call)
       THEN call.i * MaxArg + k ELSE AgedByte(data[b][k])]]
  /\ UNCHANGED <<running, hostVars, call, ret, heap>>

\* Mutant: the loop does not advance.
Advance_Stuck(c) == [c EXCEPT !.done = c.i = LastChunk(c)]

Advance(c) == [c EXCEPT !.i = c.i + 1, !.done = c.i = LastChunk(c)]

\* Mutant: every chunk is copied to the start of the buffer.
Received_Start(c) ==
  [k \in 1 .. c.count |-> IF k <= tmp_len(c) THEN data["in_data1"][k] ELSE c.buf[k]]

Received(c) ==
  [k \in 1 .. c.count |->
     IF c.i * MaxArg < k /\ k <= c.i * MaxArg + tmp_len(c)
     THEN data["in_data1"][k - c.i * MaxArg] ELSE c.buf[k]]

(* What follows sgx_exit(stub->trampoline).  morecore hands the page to    *)
(* EACCEPT, which faults on a null one.                                    *)
Return ==
  /\ at = "answered"
  /\ at' = IF call.fn = "REQUEST_EAUG" /\ field["pending_page"] = "zero" THEN "fault" ELSE "enclave"
  /\ call' = Advance([call EXCEPT
       !.rt = IF call.fn \in Chunked THEN call.rt + ret ELSE @,
       !.buf = IF call.fn \in {"READ", "RECV"} THEN Received(call) ELSE @])
  /\ heap' = IF call.fn = "MALLOC_INIT" THEN [heap EXCEPT ![running] = heapOf] ELSE heap
  /\ UNCHANGED <<running, hostVars, stubVars, ret>>

sgx_exit_home ==
  /\ at = "enclave" /\ call.done
  /\ at' = "host"
  /\ UNCHANGED <<running, hostVars, stubVars, call, ret, heap>>

-----------------------------------------------------------------------------
(* The host's side.                                                        *)

(* The fields handed to the host function, and those it fills.  accept     *)
(* finds an address length of zero in out_data2 and leaves out_data1 alone.*)
Uses(f) ==
  CASE f \in {"PUTCHAR", "CLOSE", "ACCEPT"} -> {"out_arg1"}
    [] f \in {"READ", "WRITE", "LISTEN", "BIND", "CONNECT"} -> {"out_arg1", "out_arg2"}
    [] f \in {"SOCKET", "SEND", "RECV"} -> {"out_arg1", "out_arg2", "out_arg3"}
    [] f = "GMTIME" -> {"out_arg4"}
    [] OTHER -> {}
UsesData(f) ==
  CASE f \in {"PUTS", "WRITE", "SEND", "BIND", "CONNECT"} -> {"out_data1"}
    [] f = "ACCEPT" -> {"out_data2"}
    [] OTHER -> {}
FillsData(f) ==
  CASE f \in {"READ", "RECV"} -> {"in_data1"}
    [] f = "TIME" -> {"out_data1"}
    [] f = "ACCEPT" -> {"out_data2"}
    [] OTHER -> {}

\* Mutant: a page handed out earlier stays in the stub.
clear_abi_in_fields_KeepsPage(fs) == fs

(* The part of clear_abi_in_fields about scalars; in_data1 is cleared too. *)
clear_abi_in_fields(fs) == [fs EXCEPT !["pending_page"] = "zero"]

\* Mutant: the output data stays in the stub.
cleared_out_data_Not(d) == d

clear_abi_out_fields(fs) == [fs EXCEPT !["out_arg1"] = "zero", !["out_arg2"] = "zero"]
cleared_out_data(d) == [d EXCEPT !["out_data1"] = Zeros, !["out_data2"] = Zeros]

(* What puts prints: the bytes before the first zero one.                  *)
CString(d) ==
  LET ends == {k \in 1 .. MaxArg : d[k] = 0}
      len  == IF ends = {} THEN MaxArg ELSE (CHOOSE k \in ends : \A j \in ends : k <= j) - 1
  IN  SubSeq(d, 1, len)

(* A host function that transfers data moves n of the tmp_len(call) bytes, *)
(* or fails.                                                               *)
Transfers(f) == IF f \in Chunked THEN -1 .. tmp_len(call) ELSE {0}

Moved(f, n) ==
  CASE f = "PUTS" -> CString(data["out_data1"])
    [] f \in {"WRITE", "SEND"} /\ n > 0 -> call.moved \o SubSeq(data["out_data1"], 1, n)
    [] f \in {"READ", "RECV"} /\ n > 0 ->
         call.moved \o [k \in 1 .. n |-> Len(call.moved) + k]
    [] OTHER -> call.moved

Filled(f, n) ==
  [data EXCEPT !["in_data1"] =
     [k \in 1 .. MaxArg |-> IF f \in {"READ", "RECV"} /\ k <= n THEN Len(call.moved) + k ELSE 0]]

(* sys_add_epc fails when the enclave's pages are used up.                 *)
AnsweredFields(f) ==
  CASE f = "REQUEST_EAUG" -> {{}, {"pending_page"}}
    [] OTHER -> {Reads(f)}

Dispatch ==
  \/ /\ fcode \notin {"UNSET", "SYSCALL"}
     /\ \E n \in Transfers(fcode), fs \in AnsweredFields(fcode) :
          LET answered == [f \in Scalars |->
                             IF f \in fs THEN "new" ELSE clear_abi_in_fields(field)[f]]
          IN  /\ field' = clear_abi_out_fields(answered)
              /\ data' = cleared_out_data(Filled(fcode, n))
              /\ ret' = n
              /\ call' = [call EXCEPT !.moved = Moved(fcode, n),
                                      !.failed = @ \/ n = -1]
     /\ fcode' = "UNSET"
     /\ at' = "answered" /\ running' = stubTcs  \* sgx_resume(stub->tcs, 0)
  \/ /\ fcode \in {"UNSET", "SYSCALL"}   \* default: return
     /\ field' = clear_abi_in_fields(field)
     /\ data' = [data EXCEPT !["in_data1"] = Zeros]
     /\ at' = "lost"
     /\ UNCHANGED <<fcode, ret, call, running>>

sgx_trampoline ==
  /\ at = "trampoline"
  /\ Dispatch
  /\ UNCHANGED <<hostVars, heap>>

(* A host function may wait for a peer, and need never return.             *)
Block ==
  /\ at = "trampoline" /\ fcode \in Chunked \cup {"ACCEPT", "CONNECT"}
  /\ at' = "blocked"
  /\ UNCHANGED <<running, hostVars, stubVars, call, ret, heap>>

Unblock ==
  /\ at = "blocked"
  /\ Dispatch
  /\ UNCHANGED <<hostVars, heap>>

Next ==
  \/ \E e \in Enclaves : init_enclave(e) \/ sgx_enter(e)
  \/ \E f \in Codes, n \in 0 .. MaxCount : Begin(f, n)
  \/ CallOut \/ sgx_trampoline \/ Block \/ Unblock \/ Return \/ sgx_exit_home

(* One thread runs both sides: whoever has control goes on.                *)
Spec == Init /\ [][Next]_vars /\ WF_vars(CallOut) /\ WF_vars(sgx_trampoline) /\ WF_vars(Return)

-----------------------------------------------------------------------------
(***************************************************************************)
(* The stub's fields keep their types; the data fields hold bytes of a     *)
(* transfer, never a byte beyond the longest one a program asks for.       *)
(***************************************************************************)
TypeOK ==
  /\ at \in {"host", "enclave", "trampoline", "blocked", "answered", "lost", "fault", "exited"}
  /\ {running, tcs, stubTcs, curKeid, heapOf} \subseteq Enclaves \cup {None}
  /\ fcode \in Codes \cup {"UNSET"}
  /\ field \in [Scalars -> {"zero", "new", "old"}]
  /\ data \in [Buffers -> [1 .. MaxArg -> Stale .. MaxCount]]
  /\ heap \in [Enclaves -> Enclaves \cup {None}]

(***************************************************************************)
(* The host function is given the arguments of the call in progress and    *)
(* nothing of an earlier one: the scalars it reads were set by this call,  *)
(* and the data consists of this call's bytes followed by zeros.  Two      *)
(* output arguments are never cleared, and puts copies no terminator.      *)
(***************************************************************************)
CallSeenIntact ==
  at \in {"trampoline", "blocked"} =>
    /\ \A f \in Uses(fcode) : field[f] = "new"
    /\ \A b \in UsesData(fcode) :
         data[b] = [k \in 1 .. MaxArg |->
                      IF b = "out_data1" /\ k <= tmp_len(call) THEN call.i * MaxArg + k ELSE 0]

(***************************************************************************)
(* What the library function reads when the enclave is resumed was written *)
(* for this call or is zero: it never takes the answer of an earlier call, *)
(* nor, for morecore, a page that was handed out before, for its own.      *)
(***************************************************************************)
AnswerIsOwn ==
  at = "answered" =>
    /\ \A f \in Reads(call.fn) : field[f] # "old"
    /\ \A b \in ReadsData(call.fn) : \A k \in 1 .. MaxArg : data[b][k] # Stale

(***************************************************************************)
(* The globals the trampoline works from, stub->tcs, cur_keid and the heap *)
(* bounds, all belong to the enclave that called, and so does the heap     *)
(* every enclave took its memory from.                                     *)
(***************************************************************************)
TrampolineServesCaller ==
  /\ at \in {"enclave", "trampoline", "blocked", "answered"} =>
       stubTcs = running /\ curKeid = running /\ heapOf = running
  /\ \A e \in Enclaves : heap[e] \in {e, None}

(***************************************************************************)
(* write and send that report count bytes sent them all, once and in       *)
(* order, and puts prints its string; read delivers every byte it took     *)
(* from the host, once and in order with at most zeros in between, and     *)
(* reports their number unless one of its calls failed.                    *)
(***************************************************************************)
Bytes(n) == [k \in 1 .. n |-> k]
Delivers(buf, n) ==
  /\ {buf[k] : k \in DOMAIN buf} \ {0} = 1 .. n
  /\ \A j, k \in DOMAIN buf : j < k /\ buf[k] # 0 => buf[j] < buf[k]
TransfersAccounted ==
  call.done =>
    /\ call.fn \in {"WRITE", "SEND"} /\ call.rt = call.count => call.moved = Bytes(call.count)
    /\ call.fn = "PUTS" => call.moved = Bytes(call.count)
    /\ call.fn = "READ" /\ ~call.failed => call.rt = Len(call.moved)
    /\ call.fn \in {"READ", "RECV"} => Delivers(call.buf, Len(call.moved))

(***************************************************************************)
(* A library call ends, chunk by chunk, as long as the host functions do   *)
(* return, unless the trampoline did not know the function or morecore got *)
(* no page.                                                                *)
(***************************************************************************)
CallEnds ==
  []<>(at # "blocked") => (~call.done ~> (call.done \/ at \in {"lost", "fault"}))

(***************************************************************************)
(* What the host function filled in reaches the library function that      *)
(* reads it: "in : from non-enclave to enclave", "out : from enclave to    *)
(* non-enclave".                                                           *)
(***************************************************************************)
AnswerReachesCaller ==
  at = "answered" /\ call.fn \notin Chunked =>
    \A b \in ReadsData(call.fn) \cap FillsData(call.fn) : data[b] # Zeros
=============================================================================
