---------------------------- MODULE KernEnclave ----------------------------
(***************************************************************************)
(* The kernel emulation of user/sgx-kern.c: sys_create_enclave, with one   *)
(* step for each instruction it executes, and sys_add_epc, over the        *)
(* allocator's table (EpcTable) and the emulator's state (SgxEpcm).        *)
(*                                                                         *)
(* The kernel is code of the process it serves and runs in its only        *)
(* thread, so there is one system call at a time.  Every way a call can    *)
(* end the process is a state of its own (status), in which nothing        *)
(* happens any more.                                                       *)
(***************************************************************************)
EXTENDS EpcTable, SgxEpcm

CONSTANTS
  MaxEnclaves,  \* MAX_ENCLAVES
  CodePages,    \* the values of code_pages
  TlsPages,     \* get_tls_npages(tcs)
  SsaPages,     \* ssa_npages
  StackPages,   \* STACK_PAGE_FRAMES_PER_THREAD
  HeapPages,    \* HEAP_PAGE_FRAMES
  Nssa          \* TCS.nssa as set_tcs_fields leaves it

ASSUME EnclavesAssumption ==
  MaxEnclaves \in Nat \ {0} /\ 0 .. MaxEnclaves - 1 \subseteq Keys
ASSUME LayoutAssumption ==
  /\ CodePages \subseteq Nat \ {0}
  /\ {TlsPages, SsaPages, StackPages, HeapPages} \subseteq Nat \ {0}
ASSUME NssaAssumption == Nssa \in 1 .. SsaPages

VARIABLES
  info,      \* g_epc_info
  kenclaves, \* kenclaves[]: what each slot records of its enclave
  regions,   \* epc_stack_end, epc_heap_beg, epc_heap_end
  esp,       \* CR_ESP, set by set_stack
  call,      \* the system call in progress
  status     \* "run", or how the process ended

kernVars == <<info, kenclaves, regions, esp, call, status>>
vars == <<sgxVars, kernVars>>

Keid == 0 .. MaxEnclaves - 1

(* state: FREE is keid = -1; BUSY and FAILED are told apart for the        *)
(* properties only, the kernel never gives a keid back.                    *)
KernEnclaveSlot ==
  [state : {"FREE", "BUSY", "CREATED", "FAILED"}, secs : PageOrNone, tcs : PageOrNone]

(* The system call in progress, with the locals it still needs.            *)
Idle == [step |-> "idle", eid |-> 0, enclave |-> NoPage, npages |-> 0,
         code |-> 0, tcs |-> NoPage, page |-> NoPage, added |-> 0]

(* How a process ends: #GP in sys_create_enclave or sys_add_epc, err(),    *)
(* a failed assert(), a write to kenclaves[-1], free_epc_pages(NULL).      *)
Status == {"run", "gpfCreate", "gpfAug", "exit", "abort", "oob", "nullfree"}

-----------------------------------------------------------------------------
(* The smallest power of two that is not below val.                        *)
rop2(val) == CHOOSE n \in {2 ^ k : k \in 0 .. val} : val <= n /\ n < 2 * val

\* Mutant: the SSA pages are looked for after themselves.
SsaStart_AfterSsa(code) == TlsPages + code + SsaPages

\* Mutant: the heap is left out of the sum.
TotalPages_NoHeap(code) == 2 + TlsPages + code + SsaPages + StackPages

(* [SECS][TCS][TLS]+[CODE][DATA]+[SSA][STACK][HEAP], as counts of REG      *)
(* pages after the TCS.                                                    *)
SsaStart(code) == TlsPages + code
StackEnd(code) == TlsPages + code + SsaPages + StackPages
RegPages(code) == StackEnd(code) + HeapPages
TotalPages(code) == 2 + RegPages(code)

(* There is a power of two to round the size of an enclave up to.  It is   *)
(* a fact about all numbers, stated here for the proofs.                   *)
ASSUME RoundingAssumption ==
  \A code \in CodePages :
    LET val == TotalPages(code)
    IN  /\ \A k \in 0 .. val : 2 ^ k \in Nat
        /\ \E k \in 0 .. val : val <= 2 ^ k /\ 2 ^ k < 2 * val

SourceTcs(code) ==
  [cssa |-> 0, nssa |-> Nssa, ossa |-> 2 + SsaStart(code), dbgoptin |-> FALSE]

alloc_keid == FirstOf({k \in Keid : kenclaves[k].state = "FREE"})

sys_sgx_init ==
  /\ encls_qemu_init
  /\ info = init_epc
  /\ kenclaves = [k \in Keid |-> [state |-> "FREE", secs |-> NoPage, tcs |-> NoPage]]
  /\ regions = [stackEnd |-> NoPage, heapBeg |-> NoPage, heapEnd |-> NoPage]
  /\ esp = NoPage
  /\ call = Idle
  /\ status = "run"

Stop(how) == status' = how /\ UNCHANGED <<sgxVars, kenclaves, regions, esp, call>>

Running(step) == status = "run" /\ call.step = step

-----------------------------------------------------------------------------
(* sys_create_enclave.                                                     *)

(* kenclaves[eid].kin_n++ comes before the test for eid = -1.              *)
CreateFull ==
  /\ Running("idle")
  /\ alloc_keid = NoPage
  /\ Stop("oob") /\ UNCHANGED info

(* A refused allocation goes to err with enclave = NULL.                   *)
CreateBegin(code) ==
  LET eid    == alloc_keid
      npages == rop2(TotalPages(code))
      out    == alloc_epc_index_pages(info, npages, eid)
  IN  /\ Running("idle")
      /\ eid # NoPage
      /\ info' = out.info
      /\ kenclaves' = [kenclaves EXCEPT ![eid].state = "BUSY"]
      /\ IF out.idx = NoPage
         THEN /\ status' = IF out.ok THEN "nullfree" ELSE "abort"
              /\ UNCHANGED call
         ELSE /\ call' = [Idle EXCEPT !.step = "ecreate", !.eid = eid,
                            !.enclave = out.idx, !.npages = npages, !.code = code]
              /\ UNCHANGED status
      /\ UNCHANGED <<sgxVars, regions, esp>>

(* get_epc for the page the next instruction works on.                     *)
NextPage(pt) == get_epc_index(info, call.eid, pt)

OwnSecs == kenclaves[call.eid].secs

(* The label err: every page of the enclave is released; its keid and its  *)
(* EPCM entries are not.                                                   *)
CreateFailed ==
  /\ info' = free_epc_pages(info, call.enclave)
  /\ kenclaves' = [kenclaves EXCEPT ![call.eid].state = "FAILED"]
  /\ call' = Idle
  /\ UNCHANGED <<sgxVars, regions, status>>

ecreate ==
  LET out == NextPage("SECS")
  IN  /\ Running("ecreate")
      /\ info' = out.info
      /\ IF out.idx # NoPage /\ EcreateOK(out.idx, call.npages)
         THEN /\ ECREATE(out.idx, call.enclave, call.npages)
              /\ kenclaves' = [kenclaves EXCEPT ![call.eid].secs = out.idx]
              /\ call' = [call EXCEPT !.step = "tcs"]
              /\ UNCHANGED <<regions, esp, status>>
         ELSE Stop(IF out.idx = NoPage THEN "exit" ELSE "gpfCreate")

(* add_page_to_epc, up to the EEXTENDs.                                    *)
add_page_to_epc(p, pt, perm, src) ==
  IF EaddOK(p, OwnSecs, pt, perm)
  THEN /\ EADD(p, OwnSecs, p, pt, perm, src)
       /\ call' = [call EXCEPT !.step = "eextend", !.page = p,
                      !.tcs = IF pt = "TCS" THEN p ELSE @]
       /\ UNCHANGED <<kenclaves, esp, status>>
  ELSE /\ status' = "gpfCreate"
       /\ UNCHANGED <<sgxVars, kenclaves, esp, call>>

AddTcs ==
  LET out == NextPage("TCS")
  IN  /\ Running("tcs")
      /\ IF out.idx = NoPage
         THEN CreateFailed /\ UNCHANGED esp
         ELSE /\ info' = out.info
              /\ add_page_to_epc(out.idx, "TCS", {"r", "w"}, SourceTcs(call.code))
              /\ UNCHANGED regions

(* add_pages_to_epc and add_empty_pages_to_epc: TLS, code, SSA, stack and  *)
(* heap in this order; the last stack page and both ends of the heap are   *)
(* remembered.  A failure ends in err().                                   *)
AddReg ==
  LET out == NextPage("REG")
      nth == call.added + 1
  IN  /\ Running("eadd")
      /\ call.added < RegPages(call.code)
      /\ info' = out.info
      /\ IF out.idx = NoPage
         THEN Stop("exit")
         ELSE /\ add_page_to_epc(out.idx, "REG", {"r", "w", "x"}, ZeroTcs)
              /\ regions' =
                   [stackEnd |-> IF nth = StackEnd(call.code) THEN out.idx
                                 ELSE regions.stackEnd,
                    heapBeg  |-> IF nth = StackEnd(call.code) + 1 THEN out.idx
                                 ELSE regions.heapBeg,
                    heapEnd  |-> IF nth = RegPages(call.code) THEN out.idx
                                 ELSE regions.heapEnd]

(* The sixteen EEXTENDs of the page just added.                            *)
measure_enclave_page ==
  /\ Running("eextend")
  /\ EEXTEND(call.page)
  /\ call' = [call EXCEPT !.step = "eadd",
                !.added = IF call.page = call.tcs THEN 0 ELSE @ + 1]
  /\ UNCHANGED <<info, kenclaves, regions, esp, status>>

(* set_stack, EINIT, and what follows its verdict.                         *)
AllAdded == Running("eadd") /\ call.added = RegPages(call.code)

InitAccepted ==
  /\ AllAdded
  /\ esp' = regions.stackEnd
  /\ EINIT(OwnSecs, TRUE)
  /\ info' = free_reserved_epc_pages(info, call.enclave)
  /\ kenclaves' = [kenclaves EXCEPT ![call.eid].state = "CREATED",
                                    ![call.eid].tcs = call.tcs]
  /\ call' = Idle
  /\ UNCHANGED <<regions, status>>

InitRejected ==
  /\ AllAdded
  /\ esp' = regions.stackEnd
  /\ CreateFailed

-----------------------------------------------------------------------------
(***************************************************************************)
(* The signing tool.  generate_enclavehash (user/sgx-crypto.c) computes    *)
(* the hash it signs without an enclave, from its own copy of the layout.  *)
(* An update carries what is hashed: the leaf, the page's offset and for   *)
(* EADD its SECINFO; as in EEXTEND one update stands for the chunks of a   *)
(* page.                                                                   *)
(***************************************************************************)
measure_enclave_create(npages) ==
  [leaf |-> "ECREATE", off |-> npages, pt |-> "SECS", perm |-> {}]

measure_page_add(pt, perm, off) ==
  [leaf |-> "EADD", off |-> off, pt |-> pt, perm |-> perm]

measure_chunk_page(pt, off) ==
  [leaf |-> "EEXTEND", off |-> off, pt |-> pt, perm |-> {}]

(* The updates for the pages at offsets 1 .. npages - 1, the TCS first.    *)
EnclaveHash(npages, size) ==
  LET pt(off)   == IF off = 1 THEN "TCS" ELSE "REG"
      perm(off) == IF off = 1 THEN {} ELSE {"r", "w", "x"}
  IN  [i \in 1 .. 2 * npages - 1 |->
         IF i = 1 THEN measure_enclave_create(size)
         ELSE IF i % 2 = 0
              THEN measure_page_add(pt(i \div 2), perm(i \div 2), i \div 2)
              ELSE measure_chunk_page(pt(i \div 2), i \div 2)]

\* Mutant: the stack pages count for the size only.
generate_enclavehash_NoStack(code) ==
  LET npages == 2 + TlsPages + code + SsaPages + HeapPages
  IN  EnclaveHash(npages, rop2(npages + StackPages))

generate_enclavehash(code) ==
  LET npages == 2 + TlsPages + code + SsaPages + StackPages + HeapPages
  IN  EnclaveHash(npages, rop2(npages))

-----------------------------------------------------------------------------
(* sys_add_epc, on behalf of an enclave that has been created.  Without a  *)
(* free page it returns 0.                                                 *)
sys_add_epc(keid) ==
  LET reserved == alloc_epc_page(info, keid)
      out      == get_epc_index(reserved.info, keid, "REG")
      s        == kenclaves[keid].secs
  IN  /\ Running("idle")
      /\ kenclaves[keid].state = "CREATED"
      /\ reserved.idx # NoPage
      /\ out.idx # NoPage
      /\ info' = out.info
      /\ IF EaugOK(out.idx, s, out.idx)
         THEN /\ EAUG(out.idx, s, out.idx)
              /\ UNCHANGED <<kenclaves, regions, esp, call, status>>
         ELSE Stop("gpfAug")

(* Nothing follows the end of the process.                                 *)
Ended == status # "run" /\ UNCHANGED vars

Init == sys_sgx_init

Next ==
  \/ CreateFull
  \/ \E code \in CodePages : CreateBegin(code)
  \/ ecreate
  \/ AddTcs
  \/ AddReg
  \/ measure_enclave_page
  \/ InitAccepted
  \/ InitRejected
  \/ \E keid \in Keid : sys_add_epc(keid)
  \/ Ended

Spec == Init /\ [][Next]_vars

-----------------------------------------------------------------------------
(***************************************************************************)
(* The kernel's variables and the emulator's keep their types; in          *)
(* particular the table of pages never holds a type or a key the allocator *)
(* does not know.                                                          *)
(***************************************************************************)
TypeOK ==
  /\ epcm \in [Page -> EpcmEntry]
  /\ secs \in [Page -> Secs]
  /\ tcs \in [Page -> Tcs]
  /\ entryEid \subseteq Nat /\ nextEid \in Nat
  /\ info \in [Page -> EpcInfo]
  /\ kenclaves \in [Keid -> KernEnclaveSlot]
  /\ regions \in [stackEnd : PageOrNone, heapBeg : PageOrNone, heapEnd : PageOrNone]
  /\ esp \in PageOrNone
  /\ call.step \in {"idle", "ecreate", "tcs", "eadd", "eextend"}
  /\ call.eid \in Keid
  /\ {call.enclave, call.tcs, call.page} \subseteq PageOrNone
  /\ status \in Status

Created == {k \in Keid : kenclaves[k].state = "CREATED"}

(***************************************************************************)
(* The pages in use are the pages below some index: the kernel never       *)
(* leaves a hole in the EPC, whatever succeeds or fails in whatever order. *)
(* So a run of pages that starts at the first free page never meets a page *)
(* in use, and the faulty rollback of alloc_epc_index_pages never runs.    *)
(***************************************************************************)
OccupiedIsPrefix ==
  \A i, j \in Page : i < j /\ info[j].type # "FREE" => info[i].type # "FREE"

(***************************************************************************)
(* A creation, once it has its run of pages, finds a page for everything   *)
(* it adds: no err() and no failed assertion ends the process.             *)
(***************************************************************************)
ReservationSuffices == status \notin {"exit", "abort"}

(***************************************************************************)
(* The kernel's table and the EPCM agree: a page the table counts as SECS, *)
(* TCS or REG of an enclave is a valid page of that type that belongs to   *)
(* that enclave.                                                           *)
(***************************************************************************)
TableMatchesEpcm ==
  status = "run" =>
    \A p \in Page : info[p].type \in PageType =>
      /\ epcm[p].valid /\ epcm[p].pt = info[p].type
      /\ kenclaves[info[p].key].secs =
           IF info[p].type = "SECS" THEN p ELSE epcm[p].secs

(***************************************************************************)
(* The number the kernel gives an enclave is the number the emulator gives *)
(* it, failed creations included: encls_stat(keid) reads the counters of   *)
(* the enclave it is asked for.                                            *)
(***************************************************************************)
KeidIsEid ==
  \A k \in Keid : kenclaves[k].secs # NoPage => secs[kenclaves[k].secs].eid = k

(***************************************************************************)
(* Every page of an enclave lies in the enclave's own ELRANGE, at its own  *)
(* address, although sgx_eadd has the check disabled.                      *)
(***************************************************************************)
PagesInElrange ==
  \A p \in Page : epcm[p].valid /\ epcm[p].pt # "SECS" =>
    InElrange(epcm[p].secs, p) /\ epcm[p].addr = p

(***************************************************************************)
(* An enclave that sys_create_enclave has returned can be entered as often *)
(* as its TCS allows: EENTER's checks on the TCS and on every SSA frame    *)
(* pass, whatever has been created or added since.                         *)
(***************************************************************************)
CreatedIsEnterable ==
  \A k \in Created :
    LET t == kenclaves[k].tcs
    IN  /\ t \in Page /\ TcsOK(t) /\ epcm[t].secs = kenclaves[k].secs
        /\ checkEINIT(secs[epcm[t].secs].eid)
        /\ \A n \in 0 .. tcs[t].nssa - 1 : FrameOK(FramePage(t, n), epcm[t].secs)

Tried == {k \in Keid : kenclaves[k].state # "FREE"}

(***************************************************************************)
(* The stack pointer and the heap the kernel hands out after a successful  *)
(* creation are pages of the new enclave, and neither overlaps the SSA     *)
(* frames EENTER will use.                                                 *)
(***************************************************************************)
RegionsOfNewest ==
  Running("idle") =>
    \A k \in Created : (\A j \in Tried : j <= k) =>
      LET t == kenclaves[k].tcs
          owned == {p \in Page : epcm[p].valid /\ epcm[p].pt = "REG"
                                 /\ epcm[p].secs = kenclaves[k].secs}
          stackBeg == esp - StackPages + 1
      IN  /\ stackBeg .. esp \subseteq owned
          /\ regions.heapBeg .. regions.heapEnd \subseteq owned
          /\ esp < regions.heapBeg
          /\ \A n \in 0 .. tcs[t].nssa - 1 : FramePage(t, n) < stackBeg

(***************************************************************************)
(* ECREATE and EADD fault only in a process in which an earlier creation   *)
(* failed at EINIT and left its EPCM entries behind.                       *)
(***************************************************************************)
CreateFaultsOnlyAfterFailure ==
  status = "gpfCreate" => \E k \in Keid : kenclaves[k].state = "FAILED"

(***************************************************************************)
(* Under this kernel the measurement of an initialised enclave is final,   *)
(* although the instructions themselves do not see to it.                  *)
(***************************************************************************)
MeasurementFinal ==
  [][\A s \in Page :
       IsSecs(s) /\ checkEINIT(secs[s].eid)
         => secs'[s].mrEnclave = secs[s].mrEnclave]_vars

(***************************************************************************)
(* What the tool signs is what the instructions measure: when all pages    *)
(* are added, wherever in the EPC they came to lie and whatever failed     *)
(* before, the updates of MRENCLAVE are those of generate_enclavehash, so  *)
(* EINIT's comparison of the two hashes can succeed.                       *)
(***************************************************************************)
SignedIsMeasured ==
  AllAdded => secs[OwnSecs].mrEnclave = generate_enclavehash(call.code)
=============================================================================
