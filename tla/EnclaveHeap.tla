---------------------------- MODULE EnclaveHeap ----------------------------
(***************************************************************************)
(* A process that creates enclaves, runs them, and lets them grow their    *)
(* heap: the kernel emulation (KernEnclave), the instructions (SgxEpcm),   *)
(* the trampoline's REQUEST_EAUG, morecore in the enclave's malloc, and    *)
(* the checks the emulator makes on the memory accesses of an enclave      *)
(* (helper_mem_access, helper_mem_execute).                                *)
(*                                                                         *)
(* An access goes to a page and to its first byte or a later one.  Of what *)
(* an enclave does only the accesses, the exit, the request for a page and *)
(* its acceptance matter here; how the other outward calls pass their      *)
(* arguments is in StubCalls.                                              *)
(***************************************************************************)
EXTENDS KernEnclave

VARIABLES
  phase,       \* "host", "enclave", "trampoline", "resume", "accept", "fault"
  curKeid,     \* cur_keid
  stubTcs,     \* stub->tcs
  pendingPage  \* stub->pending_page

userVars == <<phase, curKeid, stubTcs, pendingPage>>
allVars  == <<vars, userVars>>

NoKeid == -1

HeapInit ==
  /\ Init
  /\ phase = "host" /\ curKeid = NoKeid /\ stubTcs = NoPage /\ pendingPage = NoPage

-----------------------------------------------------------------------------
(* The runtime: sys_create_enclave step by step, through init_enclave.     *)

Create ==
  /\ phase = "host"
  /\ \/ /\ alloc_keid # NoPage
        /\ curKeid # NoKeid => activeTcs = stubTcs \* the last one has been run
        /\ \E code \in CodePages : CreateBegin(code)
     \/ ecreate \/ AddTcs \/ AddReg \/ measure_enclave_page
  /\ UNCHANGED userVars

\* Mutant: the stub keeps the TCS of the enclave created first.
init_enclave_FirstTcs ==
  /\ phase = "host"
  /\ \/ /\ InitAccepted
        /\ curKeid' = call.eid
        /\ stubTcs' = IF stubTcs = NoPage THEN call.tcs ELSE stubTcs
        /\ UNCHANGED phase
     \/ /\ InitRejected
        /\ phase' = "fault"
        /\ UNCHANGED <<curKeid, stubTcs>>
  /\ UNCHANGED pendingPage

init_enclave ==
  /\ phase = "host"
  /\ \/ /\ InitAccepted
        /\ curKeid' = call.eid /\ stubTcs' = call.tcs
        /\ UNCHANGED phase
     \/ /\ InitRejected
        /\ phase' = "fault"   \* err(1, "failed to create enclave")
        /\ UNCHANGED <<curKeid, stubTcs>>
  /\ UNCHANGED pendingPage

\* Mutant: main goes back to an enclave it created earlier.
sgx_enter_Earlier(k) ==
  /\ phase = "host" /\ Running("idle")
  /\ kenclaves[k].state = "CREATED"
  /\ EENTER(kenclaves[k].tcs)
  /\ phase' = "enclave"
  /\ UNCHANGED <<kernVars, curKeid, stubTcs, pendingPage>>

sgx_enter(k) ==
  /\ phase = "host" /\ Running("idle")
  /\ kenclaves[k].state = "CREATED" /\ k = curKeid
  /\ EENTER(kenclaves[k].tcs)
  /\ phase' = "enclave"
  /\ UNCHANGED <<kernVars, curKeid, stubTcs, pendingPage>>

(* sgx_exit(NULL).                                                         *)
Leave ==
  /\ phase = "enclave"
  /\ EEXIT(FALSE)
  /\ phase' = "host"
  /\ UNCHANGED <<kernVars, curKeid, stubTcs, pendingPage>>

-----------------------------------------------------------------------------
(* morecore and the trampoline.                                            *)

RequestPage ==
  /\ phase = "enclave"
  /\ EEXIT(TRUE)
  /\ phase' = "trampoline"
  /\ UNCHANGED <<kernVars, curKeid, stubTcs, pendingPage>>

(* clear_abi_in_fields, then sys_add_epc, which answers 0 when the EPC has  *)
(* no free page; a #GP in EAUG ends the process.                           *)
AddedPage == {p \in Page : epcm'[p].valid /\ ~epcm[p].valid}

TrampolineAdds ==
  /\ phase = "trampoline"
  /\ IF alloc_epc_page(info, curKeid).idx = NoPage
     THEN UNCHANGED vars ELSE sys_add_epc(curKeid)
  /\ pendingPage' = IF AddedPage = {} THEN NoPage ELSE CHOOSE p \in AddedPage : TRUE
  /\ phase' = IF status' = "run" THEN "resume" ELSE "fault"
  /\ UNCHANGED <<curKeid, stubTcs>>

(* sgx_resume(stub->tcs, 0).                                               *)
Resume ==
  /\ phase = "resume"
  /\ ERESUME(stubTcs)
  /\ phase' = "accept"
  /\ UNCHANGED <<kernVars, curKeid, stubTcs, pendingPage>>

(* The SECINFO is in a page of the heap.  A null page makes EACCEPT fault. *)
Accept ==
  /\ phase = "accept"
  /\ IF pendingPage = NoPage
     THEN phase' = "fault" /\ UNCHANGED sgxVars
     ELSE phase' = "enclave" /\ \E q \in Page : EACCEPT(pendingPage, q, TRUE, {"r", "w"})
  /\ UNCHANGED <<kernVars, curKeid, stubTcs, pendingPage>>

-----------------------------------------------------------------------------
(* Accesses in enclave mode to the EPC.                                    *)
Address == [page : Page, first : BOOLEAN]

\* Mutant: the address of the range itself is not within it.
is_within_enclave_StrictBase(a) ==
  LET base == secs[activeSecs].base
      end  == base + secs[activeSecs].size
  IN  /\ base < a.page \/ (base = a.page /\ ~a.first)
      /\ a.page < end \/ (a.page = end /\ a.first)

(* The end of the range is taken to belong to it.                          *)
is_within_enclave(a) ==
  LET base == secs[activeSecs].base
      end  == base + secs[activeSecs].size
  IN  base <= a.page /\ (a.page < end \/ (a.page = end /\ a.first))

(* Without the permission bits, which are tested for the log only.         *)
helper_mem_access(a) == is_within_enclave(a)

helper_mem_execute(a) == is_within_enclave(a) /\ "x" \in epcm[a.page].perm

AccessFaults ==
  /\ phase = "enclave"
  /\ \E a \in Address : ~helper_mem_access(a) \/ ~helper_mem_execute(a)
  /\ phase' = "fault"
  /\ UNCHANGED <<vars, curKeid, stubTcs, pendingPage>>

HeapNext ==
  \/ Create \/ init_enclave
  \/ \E k \in Keid : sgx_enter(k)
  \/ Leave
  \/ RequestPage \/ TrampolineAdds \/ Resume \/ Accept
  \/ AccessFaults

(* One thread runs the trampoline and the enclave: once the enclave has    *)
(* asked for a page, it goes on until the page is accepted.                *)
HeapSpec ==
  /\ HeapInit /\ [][HeapNext]_allVars
  /\ WF_allVars(TrampolineAdds)
  /\ WF_allVars(Resume) /\ WF_allVars(Accept)

-----------------------------------------------------------------------------
InEnclave == phase \in {"enclave", "accept"}

(* The SECS of the enclave a page belongs to, if any.                      *)
Owner(p) == IF ~epcm[p].valid THEN NoPage
            ELSE IF epcm[p].pt = "SECS" THEN p ELSE epcm[p].secs

(* A SECINFO in some page of its own lets the enclave accept the page.     *)
Acceptable == \E q \in Page : EacceptOK(pendingPage, q, TRUE, {"r", "w"})

AddressesOf(p) == {[page |-> p, first |-> b] : b \in BOOLEAN}

(***************************************************************************)
(* The range the emulator compares an access with and the pages the kernel *)
(* gave the enclave fit: every page of the running enclave can be read and *)
(* written, and those added with code can be executed.                     *)
(***************************************************************************)
OwnPagesUsable ==
  InEnclave => \A p \in Page : Owner(p) = activeSecs =>
    \A a \in AddressesOf(p) :
      helper_mem_access(a) /\ ("x" \in epcm[p].perm => helper_mem_execute(a))

(***************************************************************************)
(* "Enclave mode access - not allow to access other enclaves": an access   *)
(* of the running enclave to a page of another one faults.                 *)
(***************************************************************************)
OthersUnreachable ==
  InEnclave => \A p \in Page : Owner(p) \notin {NoPage, activeSecs} =>
    \A a \in AddressesOf(p) : ~helper_mem_access(a)

(***************************************************************************)
(* An enclave that asks for a page gets one it can use: the trampoline     *)
(* resumes the enclave that asked, the page is that enclave's, and EACCEPT *)
(* accepts it.  morecore never meets the null page sys_add_epc answers     *)
(* with when the EPC is used up, on which EACCEPT faults: no creation is   *)
(* given the last page, so EAUG finds the page outside the ELRANGE before  *)
(* the EPC runs out.                                                       *)
(***************************************************************************)
PageIsAcceptable ==
  /\ phase \in {"trampoline", "resume", "accept"} => stubTcs = activeTcs
  /\ phase = "accept" =>
       pendingPage # NoPage /\ Owner(pendingPage) = activeSecs /\ Acceptable

(***************************************************************************)
(* A request for a page always comes to an end: the enclave runs on with   *)
(* the page accepted, or EAUG ends the process.  Neither ERESUME nor       *)
(* EACCEPT faults on the way.                                              *)
(***************************************************************************)
RequestEnds == phase = "trampoline" ~> phase \in {"enclave", "fault"}
=============================================================================
