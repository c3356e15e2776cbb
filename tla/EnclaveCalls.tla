---------------------------- MODULE EnclaveCalls ----------------------------
(***************************************************************************)
(* What entering and leaving enclaves promises its two sides, without      *)
(* saying how: calls nest.  The host calls into an enclave, the enclave    *)
(* may call out to the trampoline and be resumed any number of times, and  *)
(* when it leaves for good the host continues where, and on the stack on   *)
(* which, it made the call.  While an enclave is suspended in an outward   *)
(* call the host may call into it again, up to the nesting the TCS allows. *)
(***************************************************************************)
EXTENDS Integers, Sequences

CONSTANTS
  Threads,    \* the TCSs
  Nssa,       \* TCS.nssa: how deep calls into one TCS may nest
  Callers,    \* host contexts: where a call returns to, and the stack pointer
  Contexts,   \* enclave contexts: instruction and general registers
  Trampoline, \* stub->trampoline
  EntryPoint, \* base + TCS.oentry and CR_ESP: the context a call starts in
  NoThread

VARIABLES
  calls,   \* the calls in progress through each TCS, oldest first
  running, \* the TCS whose newest call executes, or NoThread for the host
  cpu      \* the context the processor continues in

callVars == <<calls, running, cpu>>

(* A call: who made it, and the context it is suspended in (meaningless    *)
(* for the call that runs).                                                *)
Call(from, at) == [from |-> from, at |-> at]

Newest(t) == calls[t][Len(calls[t])]

CallsInit ==
  /\ calls = [t \in Threads |-> <<>>]
  /\ running = NoThread
  /\ cpu \in Callers

CallIn(t, from) ==
  /\ running = NoThread
  /\ Len(calls[t]) < Nssa
  /\ calls' = [calls EXCEPT ![t] = Append(@, Call(from, EntryPoint))]
  /\ running' = t
  /\ cpu' = EntryPoint

CallOut(at) ==
  /\ running # NoThread
  /\ calls' = [calls EXCEPT ![running][Len(calls[running])].at = at]
  /\ running' = NoThread
  /\ cpu' = [eip |-> Trampoline, regs |-> Newest(running).from.regs - 1]

ReturnIn(t) ==
  /\ running = NoThread
  /\ calls[t] # <<>>
  /\ calls' = [calls EXCEPT ![t][Len(calls[t])].at = EntryPoint]
  /\ running' = t
  /\ cpu' = Newest(t).at

Leave ==
  /\ running # NoThread
  /\ calls' = [calls EXCEPT ![running] = SubSeq(@, 1, Len(@) - 1)]
  /\ running' = NoThread
  /\ cpu' = Newest(running).from

CallsNext ==
  \/ \E t \in Threads, from \in Callers : CallIn(t, from)
  \/ \E at \in Contexts : CallOut(at)
  \/ \E t \in Threads : ReturnIn(t)
  \/ Leave

CallsSpec == CallsInit /\ [][CallsNext]_callVars
=============================================================================
