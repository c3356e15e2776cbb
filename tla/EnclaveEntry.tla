---------------------------- MODULE EnclaveEntry ----------------------------
(***************************************************************************)
(* What EENTER, EEXIT, ERESUME and the exception handler of                *)
(* qemu/target-i386/sgx_helper.c do to the registers and the save areas.   *)
(* The checks of these instructions on the EPCM are in SgxEpcm; here they  *)
(* have passed.                                                            *)
(*                                                                         *)
(* One processor runs the host and the enclaves.  A context is an          *)
(* instruction pointer and the registers saveState stores; for the host    *)
(* the registers stand for its stack pointer, in units of the 0x1000 bytes *)
(* EEXIT steps over.                                                       *)
(***************************************************************************)
EXTENDS Integers, Sequences

CONSTANTS
  Threads,    \* the TCSs
  Nssa,       \* TCS.nssa
  Callers,    \* host contexts that execute EENTER
  Contexts,   \* enclave contexts that execute EEXIT or are interrupted
  Trampoline, \* stub->trampoline
  EntryPoint, \* base + TCS.oentry, CR_ESP
  Zero,       \* the context in a save area nobody has written
  NoThread

ASSUME NssaAssumption == Nssa \in Nat \ {0}
(* A context has an instruction pointer and registers and nothing else.    *)
IsContext(c) == c = [eip |-> c.eip, regs |-> c.regs]
ASSUME CallersAssumption == \A c \in Callers : IsContext(c) /\ c.regs \in Int
ASSUME ContextsAssumption == \A c \in Contexts : IsContext(c)
ASSUME ThreadsAssumption == NoThread \notin Threads

MaxCssa == Nssa + 1  \* bound: how far exceptions move cssa

Frames == 0 .. Nssa  \* the save areas, and the page that follows them

VARIABLES
  inside,      \* enclave code executes
  enclaveMode, \* CR_ENCLAVE_MODE
  cpu,         \* env->eip and the registers
  exitEip,     \* CR_EXIT_EIP
  tcsLa,       \* CR_TCS_LA
  gprPa,       \* CR_GPR_PA: the number of the frame in use
  cssa,        \* TCS.cssa of every TCS
  ssa,         \* the GPR area of every frame: gprsgx_t
  interrupted  \* history: the context an exception stopped, or Zero

vars == <<inside, enclaveMode, cpu, exitEip, tcsLa, gprPa, cssa, ssa, interrupted>>

(* ursp, rip, the saved registers and SAVED_EXIT_EIP.                      *)
ZeroFrame == [ursp |-> 0, rip |-> Zero.eip, regs |-> Zero.regs, exit |-> Zero.eip]

Init ==
  /\ inside = FALSE /\ enclaveMode = FALSE
  /\ cpu \in Callers
  /\ exitEip = Zero.eip
  /\ tcsLa = NoThread /\ gprPa = 0
  /\ cssa = [t \in Threads |-> 0]
  /\ ssa = [t \in Threads |-> [n \in Frames |-> ZeroFrame]]
  /\ interrupted = Zero

-----------------------------------------------------------------------------
(* The host, at context from, enters through TCS t.  from.eip is           *)
(* CR_NEXT_EIP.                                                            *)
\* Mutant: the number of frames is not checked.
EENTER_AnyFrame(t, from) ==
  /\ ~inside
  /\ inside' = TRUE /\ enclaveMode' = TRUE
  /\ tcsLa' = t /\ gprPa' = cssa[t]
  /\ ssa' = [ssa EXCEPT ![t][cssa[t]].ursp = from.regs]
  /\ exitEip' = from.eip
  /\ cpu' = EntryPoint
  /\ interrupted' = Zero
  /\ UNCHANGED cssa

EENTER(t, from) ==
  /\ ~inside
  /\ cssa[t] < Nssa
  /\ inside' = TRUE /\ enclaveMode' = TRUE
  /\ tcsLa' = t /\ gprPa' = cssa[t]
  /\ ssa' = [ssa EXCEPT ![t][cssa[t]].ursp = from.regs]
  /\ exitEip' = from.eip
  /\ cpu' = EntryPoint
  /\ interrupted' = Zero
  /\ UNCHANGED cssa

saveState(frame, regs) == [frame EXCEPT !.regs = regs]

(* EEXIT with RBX = 0.  cpu_exec continues at CR_EXIT_EIP.                 *)
EexitHome ==
  /\ inside
  /\ cpu' = [eip |-> exitEip, regs |-> ssa[tcsLa][gprPa].ursp]
  /\ inside' = FALSE /\ enclaveMode' = FALSE
  /\ interrupted' = Zero
  /\ UNCHANGED <<exitEip, tcsLa, gprPa, cssa, ssa>>

(* EEXIT with RBX the trampoline, executed in context at.                  *)
EexitTrampoline(at) ==
  /\ inside
  /\ cssa[tcsLa] < MaxCssa
  /\ ssa' = [ssa EXCEPT ![tcsLa][gprPa] =
       [saveState(@, at.regs) EXCEPT !.exit = exitEip, !.rip = at.eip]]
  /\ cssa' = [cssa EXCEPT ![tcsLa] = @ + 1]
  /\ exitEip' = Trampoline
  /\ cpu' = [eip |-> Trampoline, regs |-> ssa[tcsLa][gprPa].ursp - 1]
  /\ inside' = FALSE /\ enclaveMode' = FALSE
  /\ interrupted' = Zero
  /\ UNCHANGED <<tcsLa, gprPa>>

Resumed(t) == ssa[t][cssa[t] - 1]

\* Mutant: the frame is not popped.
ERESUME_NoPop(t) ==
  /\ ~inside
  /\ cssa[t] # 0
  /\ inside' = TRUE /\ enclaveMode' = TRUE
  /\ tcsLa' = t /\ gprPa' = cssa[t] - 1
  /\ cpu' = [eip |-> Resumed(t).rip, regs |-> Resumed(t).regs]
  /\ exitEip' = Resumed(t).exit
  /\ interrupted' = Zero
  /\ UNCHANGED <<ssa, cssa>>

\* Mutant: CR_EXIT_EIP is left at the trampoline.
ERESUME_KeepsExit(t) ==
  /\ ~inside
  /\ cssa[t] # 0
  /\ inside' = TRUE /\ enclaveMode' = TRUE
  /\ tcsLa' = t /\ gprPa' = cssa[t] - 1
  /\ cpu' = [eip |-> Resumed(t).rip, regs |-> Resumed(t).regs]
  /\ cssa' = [cssa EXCEPT ![t] = @ - 1]
  /\ interrupted' = Zero
  /\ UNCHANGED <<ssa, exitEip>>

ERESUME(t) ==
  /\ ~inside
  /\ cssa[t] # 0
  /\ inside' = TRUE /\ enclaveMode' = TRUE
  /\ tcsLa' = t /\ gprPa' = cssa[t] - 1
  /\ cpu' = [eip |-> Resumed(t).rip, regs |-> Resumed(t).regs]
  /\ exitEip' = Resumed(t).exit
  /\ cssa' = [cssa EXCEPT ![t] = @ - 1]
  /\ interrupted' = Zero
  /\ UNCHANGED ssa

(* gen_exception and gen_interrupt call the handler and then deliver the   *)
(* event.  Either it is a system call and the enclave goes on, with the    *)
(* host's stack pointer, or a signal handler of the host runs.  Neither    *)
(* rip nor CR_EXIT_EIP is saved, and CR_ENCLAVE_MODE stays.                *)
helper_sgx_ehandle(at, toHost) ==
  /\ inside
  /\ cssa[tcsLa] < MaxCssa
  /\ ssa' = [ssa EXCEPT ![tcsLa][gprPa] = saveState(@, at.regs)]
  /\ cssa' = [cssa EXCEPT ![tcsLa] = @ + 1]
  /\ cpu' = [eip |-> at.eip, regs |-> ssa[tcsLa][gprPa].ursp]
  /\ inside' = ~toHost
  /\ interrupted' = IF toHost THEN at ELSE Zero
  /\ UNCHANGED <<enclaveMode, exitEip, tcsLa, gprPa>>

Calls ==
  \/ \E t \in Threads, from \in Callers : EENTER(t, from)
  \/ EexitHome
  \/ \E at \in Contexts : EexitTrampoline(at)
  \/ \E t \in Threads : ERESUME(t)

Next ==
  \/ Calls
  \/ \E at \in Contexts, toHost \in BOOLEAN : helper_sgx_ehandle(at, toHost)

(* Calls in both directions, and those with exceptions.                    *)
CallSpec == Init /\ [][Calls]_vars
Spec == Init /\ [][Next]_vars

-----------------------------------------------------------------------------
Eips == {c.eip : c \in Callers \cup Contexts \cup {Zero, EntryPoint}} \cup {Trampoline}
Sps  == {c.regs : c \in Callers} \cup {0}
Regs == {c.regs : c \in Contexts \cup {Zero, EntryPoint}}

(* The processor's registers and the save areas keep their types; the      *)
(* frame in use is one the TCS has.                                        *)
TypeOK ==
  /\ inside \in BOOLEAN /\ enclaveMode \in BOOLEAN
  /\ cpu.eip \in Eips
  /\ exitEip \in Eips
  /\ tcsLa \in Threads \cup {NoThread}
  /\ gprPa \in 0 .. Nssa - 1
  /\ cssa \in [Threads -> 0 .. Nssa]
  /\ ssa \in [Threads -> [Frames -> [ursp : Sps, rip : Eips, regs : Regs, exit : Eips]]]

(***************************************************************************)
(* The frame the enclave was entered on, through which it will be saved,   *)
(* is the first one above the suspended calls of its TCS, however calls    *)
(* through several TCSs were nested in between: nothing that is still      *)
(* needed is overwritten.                                                  *)
(***************************************************************************)
RunsInFirstFreeFrame ==
  /\ enclaveMode = inside
  /\ inside => tcsLa \in Threads /\ gprPa = cssa[tcsLa]

(***************************************************************************)
(* The save areas, CR_EXIT_EIP and CR_GPR_PA together hold a stack of      *)
(* calls for every TCS: a suspended call is in the frame of its depth, the *)
(* running one in the control registers.                                   *)
(***************************************************************************)
Depth(t) == IF inside /\ tcsLa = t THEN cssa[t] + 1 ELSE cssa[t]

CallAt(t, n) ==
  LET f == ssa[t][n - 1]
  IN  IF n <= cssa[t]
      THEN [from |-> [eip |-> f.exit, regs |-> f.ursp],
            at   |-> [eip |-> f.rip, regs |-> f.regs]]
      ELSE [from |-> [eip |-> exitEip, regs |-> f.ursp], at |-> EntryPoint]

CallStacks == [t \in Threads |-> [n \in 1 .. Depth(t) |-> CallAt(t, n)]]
RunningThread == IF inside THEN tcsLa ELSE NoThread

Abstract == INSTANCE EnclaveCalls WITH calls <- CallStacks, running <- RunningThread

(* Every step of EENTER, EEXIT and ERESUME is a step of EnclaveCalls: the  *)
(* enclave continues after an outward call with the registers it had, and  *)
(* the host after an inward call at its return address and on its stack.   *)
CallsNest == Abstract!CallsSpec

(***************************************************************************)
(* An enclave stopped by an exception continues, when it is resumed, where *)
(* it was stopped.  helper_sgx_ehandle begins with "Save RIP for later     *)
(* use" and quotes the manual's "Save all registers".                      *)
(***************************************************************************)
ResumesInterrupted ==
  [][interrupted # Zero /\ ERESUME(tcsLa)
       => cpu' = interrupted]_vars
=============================================================================
