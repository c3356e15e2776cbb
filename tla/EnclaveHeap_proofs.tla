------------------------- MODULE EnclaveHeap_proofs -------------------------
(***************************************************************************)
(* What the memory checks of the emulator and the heap protocol of the     *)
(* runtime guarantee, for every layout and every size of the EPC.  The     *)
(* kernel's part of the process keeps the invariant of KernEnclave_proofs, *)
(* the enclave's part (EENTER, ERESUME, EEXIT, EACCEPT) changes nothing    *)
(* that invariant looks at.                                                *)
(***************************************************************************)
EXTENDS EnclaveHeap, KernEnclave_proofs

-----------------------------------------------------------------------------
(* The invariant of the user's side.                                       *)

(* A SECS is the first page of the range it describes, and no range        *)
(* reaches the last page of the EPC.                                       *)
SecsPlaced ==
  \A s \in Page : IsSecs(s) =>
    /\ secs[s].base = s /\ secs[s].size >= 1
    /\ s + secs[s].size < NumEpc

(* An EPCM entry of a page that waits is the one EAUG made; no page is     *)
(* ever modified.                                                          *)
EntriesOK ==
  \A p \in Page : ~epcm[p].modified /\ (epcm[p].pending => epcm[p].perm = {"r", "w"})

(* A creation that fails ends the process.                                 *)
FailureEnds == Failed => phase = "fault"

(* The enclave that is to be entered, or has been.                         *)
CurSecs == kenclaves[curKeid].secs

CurOK ==
  curKeid # NoKeid =>
    /\ curKeid \in Keid /\ kenclaves[curKeid].state = "CREATED"
    /\ stubTcs = kenclaves[curKeid].tcs /\ stubTcs \in Page
    /\ epcm[stubTcs].valid /\ epcm[stubTcs].pt = "TCS" /\ epcm[stubTcs].secs = CurSecs
    /\ \E q \in Page : /\ epcm[q].valid /\ epcm[q].pt = "REG" /\ epcm[q].secs = CurSecs
                       /\ epcm[q].perm = {"r", "w", "x"}

(* It is the newest: what is not its own lies below it.                    *)
Above(s) == \A p \in Page : epcm[p].valid => p < s \/ Owner(p) = s

CurNewest ==
  Running("idle") /\ phase # "fault" /\ curKeid # NoKeid => Above(CurSecs)

(* Between EENTER and EEXIT, the trampoline included, the control          *)
(* registers name it and the kernel is idle.                               *)
Inside == phase \in {"enclave", "trampoline", "resume", "accept"}

ActiveOK ==
  /\ phase \in {"host", "enclave", "trampoline", "resume", "accept", "fault"}
  /\ Inside => /\ Running("idle") /\ curKeid # NoKeid
               /\ activeSecs = CurSecs /\ activeTcs = stubTcs

(* The page the trampoline has added.                                      *)
PendingOK ==
  phase \in {"resume", "accept"} =>
    /\ pendingPage \in Page /\ epcm[pendingPage].valid /\ epcm[pendingPage].pt = "REG"
    /\ epcm[pendingPage].secs = CurSecs /\ epcm[pendingPage].pending

UserInv ==
  /\ SecsPlaced /\ EntriesOK /\ FailureEnds /\ CurOK /\ CurNewest /\ ActiveOK /\ PendingOK

HeapInv == KInv /\ UserInv

-----------------------------------------------------------------------------
(* The kernel's steps.                                                     *)

(* A created enclave keeps its slot.                                       *)
LEMMA CreatedStays ==
  ASSUME KInv, [Next]_vars, NEW k \in Keid, kenclaves[k].state = "CREATED"
  PROVE  kenclaves'[k] = kenclaves[k]
<1>1. ASSUME Creating PROVE call.eid # k
  BY <1>1 DEF KInv, SlotOrder, Creating
<1>t. kenclaves \in [Keid -> KernEnclaveSlot]
  BY DEF KInv, TypeOK
<1>2. CASE kenclaves' = kenclaves
  BY <1>2
<1>3. ASSUME NEW code \in CodePages, CreateBegin(code) PROVE kenclaves'[k] = kenclaves[k]
  <2>1. alloc_keid # k
    BY <1>3, KeidIs DEF CreateBegin
  <2> QED
    BY <1>3, <1>t, <2>1 DEF CreateBegin
<1>4. CASE ecreate
  BY <1>1, <1>4, <1>t DEF ecreate, Stop, Running, Creating
<1>5. CASE AddTcs
  BY <1>1, <1>5, <1>t DEF AddTcs, CreateFailed, add_page_to_epc, Running, Creating
<1>6. CASE InitAccepted
  BY <1>1, <1>6, <1>t DEF InitAccepted, AllAdded, Running, Creating
<1>7. CASE InitRejected
  BY <1>1, <1>7, <1>t DEF InitRejected, AllAdded, CreateFailed, Running, Creating
<1> QED
  BY <1>2, <1>3, <1>4, <1>5, <1>6, <1>7
     DEF Next, vars, kernVars, CreateFull, AddReg, measure_enclave_page, sys_add_epc, Ended,
         Stop, add_page_to_epc

(* ECREATE puts a SECS at the bottom of its range; nothing moves one.      *)
LEMMA SecsPlacedStep ==
  ASSUME KInv, SecsPlaced, [Next]_vars
  PROVE  SecsPlaced'
<1>0. Issues /\ TypeOK /\ EpcmGrows
  BY StepIssues, EpcmOnlyGrows DEF KInv
<1> SUFFICES ASSUME NEW s \in Page, epcm'[s].valid, epcm'[s].pt = "SECS"
             PROVE  /\ secs'[s].base = s /\ secs'[s].size >= 1
                    /\ s + secs'[s].size < NumEpc
  BY DEF SecsPlaced, IsSecs
<1>1. CASE epcm[s].valid
  BY <1>0, <1>1 DEF EpcmGrows, Identity, SecsPlaced, IsSecs
<1>2. CASE ~epcm[s].valid
  <2>c. Creating => call.enclave \in Page /\ call.enclave \in Int /\ call.npages \in Int
    BY CreatingFacts
  <2>1. CASE IssuesEcreate
    <3>1. /\ \A r \in Page : r # call.enclave => epcm'[r] = epcm[r]
          /\ secs'[call.enclave] =
               [eid |-> nextEid, base |-> call.enclave, size |-> call.npages,
                mrEnclave |-> <<measure_enclave_create(call.npages)>>]
      BY <1>0, <2>1, <2>c, EcreateEffect DEF IssuesEcreate, NewEntry
    <3>2. s = call.enclave
      BY <1>2, <3>1
    <3>3. call.npages >= 1 /\ call.enclave + call.npages < NumEpc
      BY <2>1, CreatingFacts DEF IssuesEcreate
    <3> QED
      BY <3>1, <3>2, <3>3
  <2>2. CASE IssuesEadd
    <3>1. PICK p \in Page, pt \in {"TCS", "REG"}, perm \in SUBSET Perm, src \in Tcs :
            EADD(p, call.enclave, p, pt, perm, src)
      BY <2>2 DEF IssuesEadd
    <3>2. PICK e \in Page : e = call.enclave
      BY <2>2, <2>c DEF IssuesEadd, Building
    <3>3. EADD(p, e, p, pt, perm, src)
      BY <3>1, <3>2
    <3>4. NewEntry(p, pt, e, p)
      BY <1>0, <3>3, EaddEffect
    <3>5. epcm'[p].pt = pt /\ \A r \in Page : r # p => epcm'[r] = epcm[r]
      BY <3>4 DEF NewEntry
    <3> QED
      BY <1>2, <3>5
  <2>3. CASE IssuesEaug
    <3>1. PICK p \in Page, q \in Page : EAUG(p, q, p)
      BY <2>3 DEF IssuesEaug
    <3>2. epcm'[p].pt = "REG" /\ \A r \in Page : r # p => epcm'[r] = epcm[r]
      BY <1>0, <3>1, EaugEffect DEF NewEntry
    <3> QED
      BY <1>2, <3>2
  <2>4. CASE UNCHANGED sgxVars \/ IssuesEextend \/ IssuesEinit
    <3>1. epcm' = epcm
      BY <2>4 DEF sgxVars, pageVars, IssuesEextend, EEXTEND, IssuesEinit, EINIT
    <3> QED
      BY <1>2, <3>1
  <2> QED
    BY <1>0, <2>1, <2>2, <2>3, <2>4 DEF Issues
<1> QED
  BY <1>1, <1>2

(* Only EAUG makes a page wait, and it makes it readable and writable.     *)
LEMMA EntriesStep ==
  ASSUME KInv, EntriesOK, [Next]_vars
  PROVE  EntriesOK'
<1>0. Issues /\ epcm \in [Page -> EpcmEntry]
  BY StepIssues DEF KInv, TypeOK
<1>1. ASSUME NEW p \in Page, NEW perm, NEW pt, NEW s, NEW lin, ~epcm[p].valid,
             epcm' = [epcm EXCEPT ![p] = set_epcm_entry(@, perm, pt, s, lin)]
      PROVE  EntriesOK'
  <2>1. epcm'[p].pending = epcm[p].pending /\ epcm'[p].modified = epcm[p].modified
    BY <1>0, <1>1 DEF set_epcm_entry, EpcmEntry
  <2>2. ~epcm[p].pending
    BY <1>1 DEF KInv, InvalidNotPending
  <2>3. \A r \in Page : r # p => epcm'[r] = epcm[r]
    BY <1>0, <1>1
  <2> QED
    BY <2>1, <2>2, <2>3 DEF EntriesOK
<1>2. CASE IssuesEcreate
  <2>1. call.enclave \in Page
    BY <1>2, CreatingFacts DEF IssuesEcreate
  <2> QED
    BY <1>1, <1>2, <2>1 DEF IssuesEcreate, ECREATE, EcreateOK
<1>3. CASE IssuesEadd
  <2>1. PICK p \in Page, pt \in {"TCS", "REG"}, perm \in SUBSET Perm, src \in Tcs :
          EADD(p, call.enclave, p, pt, perm, src)
    BY <1>3 DEF IssuesEadd
  <2>2. /\ ~epcm[p].valid
        /\ epcm' = [epcm EXCEPT ![p] = set_epcm_entry(@, EaddPerm(pt, perm), pt, call.enclave, p)]
    BY <2>1 DEF EADD, EaddOK
  <2> QED
    BY <1>1, <2>2
<1>4. CASE IssuesEaug
  <2>1. PICK p \in Page, s \in Page : EAUG(p, s, p)
    BY <1>4 DEF IssuesEaug
  <2>2. ~epcm'[p].modified /\ epcm'[p].perm = {"r", "w"}
    BY <1>0, <2>1 DEF EAUG, set_epcm_entry, EpcmEntry
  <2>3. \A r \in Page : r # p => epcm'[r] = epcm[r]
    BY <1>0, <2>1 DEF EAUG
  <2> QED
    BY <2>2, <2>3 DEF EntriesOK
<1>5. CASE UNCHANGED sgxVars \/ IssuesEextend \/ IssuesEinit
  BY <1>5 DEF sgxVars, pageVars, IssuesEextend, EEXTEND, IssuesEinit, EINIT, EntriesOK
<1> QED
  BY <1>0, <1>2, <1>3, <1>4, <1>5 DEF Issues

(* A created enclave keeps its TCS and its pages.                          *)
LEMMA CurStep ==
  ASSUME KInv, CurOK, [Next]_vars, curKeid' = curKeid, stubTcs' = stubTcs
  PROVE  CurOK' /\ (curKeid # NoKeid => CurSecs' = CurSecs)
<1> SUFFICES ASSUME curKeid # NoKeid PROVE CurOK' /\ CurSecs' = CurSecs
  BY DEF CurOK
<1>1. PICK k \in Keid, t \in Page : k = curKeid /\ t = stubTcs
  BY DEF CurOK
<1>2. kenclaves'[k] = kenclaves[k] /\ EpcmGrows
  BY <1>1, CreatedStays, EpcmOnlyGrows DEF CurOK
<1>3. CurSecs' = CurSecs
  BY <1>1, <1>2 DEF CurSecs
<1>4. PICK q \in Page : /\ epcm[q].valid /\ epcm[q].pt = "REG" /\ epcm[q].secs = CurSecs
                        /\ epcm[q].perm = {"r", "w", "x"}
  BY DEF CurOK
<1>5. epcm'[q] = epcm[q] /\ epcm'[t] = epcm[t]
  BY <1>1, <1>2, <1>4 DEF CurOK, EpcmGrows
<1> QED
  BY <1>1, <1>2, <1>3, <1>4, <1>5 DEF CurOK

(* The run of a creation has a page for the TCS.                           *)
LEMMA AddTcsTakes == KInv /\ AddTcs => kenclaves' = kenclaves
<1> SUFFICES ASSUME KInv, AddTcs PROVE kenclaves' = kenclaves
  OBVIOUS
<1>1. Creating /\ Used = 1
  BY DEF AddTcs, Running, Creating, Used
<1>2. Used < call.npages
  BY <1>1, CreatingFacts
<1>3. NextPage("TCS").idx \in Page
  BY <1>1, <1>2, NextPageIs DEF KInv
<1>4. NextPage("TCS").idx # NoPage
  BY <1>3, NumEpcAssumption DEF Page, NoPage
<1> QED
  BY <1>4 DEF AddTcs, add_page_to_epc

(* Create does not leave the kernel idle and lets no creation fail.        *)
LEMMA CreateBusy ==
  ASSUME HeapInv, Create
  PROVE  /\ [Next]_vars /\ ~Running("idle")' /\ (Failed' => Failed)
<1>t. CallOK /\ kenclaves \in [Keid -> KernEnclaveSlot]
      /\ \A j \in Keid : kenclaves[j] \in KernEnclaveSlot
  BY DEF HeapInv, KInv, TypeOK
<1>0. [Next]_vars
  BY DEF Create, Next
<1> SUFFICES ~Running("idle")' /\ (Failed' => Failed)
  BY <1>0
<1>1. ASSUME NEW code \in CodePages, CreateBegin(code)
      PROVE  ~Running("idle")' /\ (Failed' => Failed)
  <2>1. ~Running("idle")'
    BY <1>1 DEF CreateBegin, Running, Idle
  <2>2. \A j \in Keid : kenclaves'[j].state = "FAILED" => kenclaves[j].state = "FAILED"
    BY <1>1, <1>t DEF CreateBegin, KernEnclaveSlot
  <2> QED
    BY <2>1, <2>2 DEF Failed
<1>2. CASE ecreate
  <2>1. ~Running("idle")'
    BY <1>2, <1>t DEF ecreate, Stop, Running, CallOK
  <2>2. \A j \in Keid : kenclaves'[j].state = kenclaves[j].state
    BY <1>2, <1>t DEF ecreate, Stop, KernEnclaveSlot
  <2> QED
    BY <2>1, <2>2 DEF Failed
<1>3. CASE AddTcs
  <2>1. kenclaves' = kenclaves
    BY <1>3, AddTcsTakes DEF HeapInv
  <2>2. ~Running("idle")'
    <3>1. Creating /\ call.eid \in Keid /\ kenclaves[call.eid].state = "BUSY"
      BY <1>3 DEF AddTcs, Running, Creating, HeapInv, KInv, CallOK, SlotOrder
    <3>2. ~CreateFailed
      BY <1>t, <2>1, <3>1 DEF CreateFailed, KernEnclaveSlot
    <3> QED
      BY <1>3, <1>t, <3>2 DEF AddTcs, add_page_to_epc, Running, CallOK
  <2> QED
    BY <2>1, <2>2 DEF Failed
<1>4. CASE AddReg
  BY <1>4, <1>t DEF AddReg, Stop, add_page_to_epc, Running, CallOK, Failed
<1>5. CASE measure_enclave_page
  BY <1>5, <1>t DEF measure_enclave_page, Running, CallOK, Failed
<1> QED
  BY <1>1, <1>2, <1>3, <1>4, <1>5 DEF Create

(* A creation under way.                                                   *)
LEMMA CreateHeap == HeapInv /\ Create => HeapInv'
<1> SUFFICES ASSUME HeapInv, Create PROVE HeapInv'
  OBVIOUS
<1>1. [Next]_vars /\ ~Running("idle")' /\ (Failed' => Failed)
  BY CreateBusy
<1>2. /\ phase = "host" /\ UNCHANGED <<phase, curKeid, stubTcs, pendingPage>>
      /\ KInv /\ UserInv
  BY DEF Create, userVars, HeapInv
<1>3. KInv' /\ SecsPlaced' /\ EntriesOK' /\ CurOK'
  BY <1>1, <1>2, NextKInv, SecsPlacedStep, EntriesStep, CurStep DEF UserInv
<1>4. FailureEnds' /\ CurNewest' /\ ActiveOK' /\ PendingOK'
  BY <1>1, <1>2 DEF UserInv, FailureEnds, CurNewest, ActiveOK, Inside, PendingOK
<1> QED
  BY <1>3, <1>4 DEF HeapInv, UserInv

(* What EINIT has accepted is above everything that exists.                *)
LEMMA AcceptedAbove ==
  ASSUME HeapInv, phase = "host", InitAccepted
  PROVE  /\ \A p \in Page : epcm'[p].valid => p < call.enclave \/ Owner(p)' = call.enclave
         /\ OwnSecs = call.enclave
<1>1. Creating /\ Building /\ call.step = "eadd" /\ ~Failed /\ KInv
  BY DEF InitAccepted, AllAdded, Running, Creating, Building, HeapInv, UserInv, FailureEnds
<1>2. PICK s \in Page, t \in Page :
           /\ s = call.enclave /\ t = call.tcs /\ t = s + 1
           /\ call.code \in CodePages /\ OwnSecs = s
           /\ epcm[t].valid /\ epcm[t].pt = "TCS" /\ epcm[t].secs = s
           /\ \A p \in Nat : s + 2 <= p /\ p <= s + 1 + RegPages(call.code) =>
                epcm[p].pt = "REG" /\ epcm[p].secs = s
  BY <1>1, Complete DEF InitAccepted
<1>3. epcm' = epcm
  BY DEF InitAccepted, EINIT
<1>4. IsSecs(s)
  BY <1>1, <1>2, OwnSecsIs
<1>5. ASSUME NEW p \in Page, epcm[p].valid, ~(p < s)
      PROVE  Owner(p)' = s
  <2>0. p \in Nat /\ s \in Nat
    BY NumEpcAssumption DEF Page
  <2>1. info[p].type \in PageType
    BY <1>1, <1>5 DEF KInv, ValidInUse, Creating
  <2>2. Used = 2 + RegPages(call.code) /\ RegPages(call.code) \in Nat
    <3>1. Used = 2 + call.added /\ call.added = RegPages(call.code)
      BY <1>1 DEF Used, InitAccepted, AllAdded
    <3> QED
      BY <1>2, <3>1, Layout
  <2>3. p < s + Used
    <3>1. /\ call.npages \in Nat
          /\ s + Used <= p /\ p < s + call.npages => info[p].type = "RESERVED"
          /\ s + call.npages <= p => info[p].type = "FREE"
      BY <1>1, <1>2, TableIs, CreatingFacts
    <3> QED
      BY <2>0, <2>1, <2>2, <3>1 DEF PageType
  <2>4. p = s \/ p = t \/ (s + 2 <= p /\ p <= s + 1 + RegPages(call.code))
    BY <1>2, <1>5, <2>0, <2>2, <2>3
  <2>5. p = s \/ (epcm[p].pt # "SECS" /\ epcm[p].secs = s)
    BY <1>2, <2>0, <2>4
  <2> QED
    BY <1>3, <1>4, <1>5, <2>5 DEF Owner, IsSecs
<1> QED
  BY <1>2, <1>3, <1>5

(* The end of a creation.                                                  *)
LEMMA InitHeap == HeapInv /\ init_enclave => HeapInv'
<1> SUFFICES ASSUME HeapInv, init_enclave PROVE HeapInv'
  OBVIOUS
<1>1. [Next]_vars /\ phase = "host" /\ KInv /\ UserInv
  BY DEF init_enclave, Next, HeapInv
<1>2. KInv' /\ SecsPlaced' /\ EntriesOK'
  BY <1>1, NextKInv, SecsPlacedStep, EntriesStep DEF UserInv
<1>3. CASE InitRejected /\ phase' = "fault" /\ UNCHANGED <<curKeid, stubTcs>>
  <2>1. CurOK'
    BY <1>1, <1>3, CurStep DEF UserInv
  <2>2. FailureEnds' /\ CurNewest' /\ ActiveOK' /\ PendingOK'
    BY <1>3 DEF FailureEnds, CurNewest, ActiveOK, Inside, PendingOK
  <2> QED
    BY <1>2, <2>1, <2>2 DEF HeapInv, UserInv
<1>4. CASE /\ InitAccepted
           /\ curKeid' = call.eid /\ stubTcs' = call.tcs
           /\ UNCHANGED phase
  <2>1. PICK s \in Page, t \in Page :
           /\ s = call.enclave /\ t = call.tcs
           /\ call.code \in CodePages /\ OwnSecs = s
           /\ epcm[t].valid /\ epcm[t].pt = "TCS" /\ epcm[t].secs = s
           /\ \A p \in Nat : s + 2 <= p /\ p <= s + 1 + RegPages(call.code) =>
                /\ p \in Page /\ epcm[p].valid /\ epcm[p].pt = "REG" /\ epcm[p].secs = s
                /\ epcm[p].perm = {"r", "w", "x"}
    BY <1>1, <1>4, Complete DEF InitAccepted
  <2>2. PICK eid \in Keid : eid = call.eid
    BY <1>1 DEF KInv, CallOK
  <2>t. kenclaves \in [Keid -> KernEnclaveSlot] /\ kenclaves[eid] \in KernEnclaveSlot
        /\ \A j \in Keid : kenclaves[j] \in KernEnclaveSlot
    BY <1>1 DEF KInv, TypeOK
  <2>3. /\ kenclaves'[eid].tcs = t /\ kenclaves'[eid].secs = s /\ kenclaves'[eid].state = "CREATED"
        /\ \A j \in Keid : j # eid => kenclaves'[j] = kenclaves[j]
    BY <1>4, <2>1, <2>2, <2>t DEF InitAccepted, OwnSecs, KernEnclaveSlot
  <2>4. epcm' = epcm /\ CurSecs' = s /\ curKeid' = eid
    BY <1>4, <2>2, <2>3 DEF InitAccepted, EINIT, CurSecs
  <2>5. \E q \in Page : /\ epcm[q].valid /\ epcm[q].pt = "REG" /\ epcm[q].secs = s
                        /\ epcm[q].perm = {"r", "w", "x"}
    <3>1. s \in Nat /\ RegPages(call.code) \in Nat /\ RegPages(call.code) >= 1
      BY <2>1, Layout, NumEpcAssumption DEF Page
    <3>2. s + 2 \in Nat /\ s + 2 <= s + 2 /\ s + 2 <= s + 1 + RegPages(call.code)
      BY <3>1
    <3> QED
      BY <2>1, <3>2
  <2>6. CurOK'
    BY <1>4, <2>1, <2>3, <2>4, <2>5 DEF CurOK
  <2>7. FailureEnds' /\ ActiveOK' /\ PendingOK'
    BY <1>1, <1>4, <2>3 DEF UserInv, FailureEnds, Failed, ActiveOK, Inside, PendingOK
  <2>8. CurNewest'
    BY <1>1, <1>4, <2>1, <2>4, AcceptedAbove DEF CurNewest, Above
  <2> QED
    BY <1>2, <2>6, <2>7, <2>8 DEF HeapInv, UserInv
<1> QED
  BY <1>3, <1>4 DEF init_enclave

-----------------------------------------------------------------------------
(* The enclave's steps.                                                    *)

(* What they do to an EPCM entry: at most the pending flag is cleared.     *)
SameButFlags(r) ==
  /\ epcm'[r].valid = epcm[r].valid /\ epcm'[r].blocked = epcm[r].blocked
  /\ epcm'[r].perm = epcm[r].perm /\ epcm'[r].pt = epcm[r].pt
  /\ epcm'[r].secs = epcm[r].secs /\ epcm'[r].addr = epcm[r].addr
  /\ epcm'[r].pending => epcm[r].pending
  /\ epcm'[r].modified => epcm[r].modified

EnclaveStep ==
  /\ UNCHANGED <<secs, entryEid, nextEid, info, kenclaves, regions, esp, call, status>>
  /\ epcm' \in [Page -> EpcmEntry] /\ tcs' \in [Page -> Tcs]
  /\ \A r \in Page : SameButFlags(r)

(* The kernel's invariant does not look at what they change.               *)
LEMMA EnclaveKInv ==
  ASSUME KInv, Running("idle"), EnclaveStep
  PROVE  KInv'
<1>u. UNCHANGED <<secs, entryEid, nextEid, info, kenclaves, regions, esp, call, status>>
  BY DEF EnclaveStep
<1>e. /\ epcm' \in [Page -> EpcmEntry] /\ tcs' \in [Page -> Tcs]
      /\ \A r \in Page : SameButFlags(r)
  BY DEF EnclaveStep
<1>1. TypeOK' /\ CallOK' /\ KeysOK' /\ NoneReserved' /\ OccupiedIsPrefix' /\ ReservationSuffices'
  BY <1>u, <1>e DEF KInv, TypeOK, CallOK, KeysOK, NoneReserved, OccupiedIsPrefix,
                    ReservationSuffices, Running
<1>2. ~Creating' /\ Taken' = Taken
  BY <1>u DEF Creating, Running, Taken
<1>3. RunOK' /\ TableOK' /\ Marks' /\ LayoutOK' /\ HashOK'
  BY <1>2 DEF RunOK, TableOK, Marks, LayoutOK, HashOK
<1>4. SlotsOK'
  <2> SUFFICES ASSUME NEW k \in Keid PROVE SlotOK(k)'
    BY DEF SlotsOK
  <2>1. SlotOK(k)
    BY DEF KInv, SlotsOK
  <2> QED
    BY <1>u, <1>e, <2>1 DEF SlotOK, IsSecs, SameButFlags
<1>5. SlotOrder' /\ InitialisedCreated'
  BY <1>u, <1>2 DEF KInv, SlotOrder, InitialisedCreated, OwnSecs
<1>6. PagesOK'
  <2> SUFFICES ASSUME NEW p \in Page, epcm'[p].valid PROVE PageOK(p)'
    BY DEF PagesOK
  <2>1. PageOK(p) /\ SameButFlags(p)
    BY <1>e DEF KInv, PagesOK, SameButFlags
  <2> QED
    BY <1>u, <1>e, <2>1 DEF PageOK, IsSecs, InElrange, SameButFlags
<1>7. TableMatchesEpcm' /\ ValidInUse' /\ InvalidNotPending' /\ CreateFaultsOnlyAfterFailure'
  BY <1>u, <1>e DEF KInv, TableMatchesEpcm, ValidInUse, Failed, InvalidNotPending,
                    CreateFaultsOnlyAfterFailure, SameButFlags
<1> QED
  BY <1>1, <1>3, <1>4, <1>5, <1>6, <1>7 DEF KInv

(* Neither does most of the user's.                                        *)
LEMMA EnclaveUserInv ==
  ASSUME UserInv, EnclaveStep, UNCHANGED <<curKeid, stubTcs>>, ~Failed
  PROVE  /\ SecsPlaced' /\ EntriesOK' /\ FailureEnds' /\ CurOK'
         /\ curKeid # NoKeid => CurSecs' = CurSecs
         /\ \A s : Above(s) => Above(s)'
<1>u. UNCHANGED <<secs, kenclaves>> /\ \A r \in Page : SameButFlags(r)
  BY DEF EnclaveStep
<1>1. SecsPlaced'
  BY <1>u DEF UserInv, SecsPlaced, IsSecs, SameButFlags
<1>2. EntriesOK'
  BY <1>u DEF UserInv, EntriesOK, SameButFlags
<1>3. FailureEnds'
  BY <1>u DEF FailureEnds, Failed
<1>4. CurSecs' = CurSecs
  BY <1>u DEF CurSecs
<1>5. CurOK'
  BY <1>u, <1>4 DEF UserInv, CurOK, SameButFlags
<1>6. \A s : Above(s) => Above(s)'
  BY <1>u DEF Above, Owner, SameButFlags
<1> QED
  BY <1>1, <1>2, <1>3, <1>4, <1>5, <1>6

(* A step that leaves the EPCM alone and counts frames at most.            *)
LEMMA FramesOnly ==
  ASSUME KInv, UNCHANGED <<epcm, secs, eidVars, kernVars>>, tcs' \in [Page -> Tcs]
  PROVE  EnclaveStep
BY DEF KInv, TypeOK, EnclaveStep, SameButFlags, eidVars, kernVars

(* The state while the enclave has the processor, or has asked for a page. *)
LEMMA InsideFacts ==
  ASSUME HeapInv, Inside
  PROVE  /\ KInv /\ UserInv /\ Running("idle") /\ curKeid \in Keid /\ curKeid # NoKeid
         /\ stubTcs \in Page /\ activeTcs = stubTcs /\ activeSecs = CurSecs /\ ~Failed
         /\ CurSecs \in Page /\ IsSecs(CurSecs) /\ epcm[stubTcs].secs = CurSecs
         /\ Above(CurSecs) /\ kenclaves[curKeid].state = "CREATED"
<1>1. /\ KInv /\ UserInv /\ Running("idle") /\ curKeid # NoKeid /\ phase # "fault"
      /\ activeTcs = stubTcs /\ activeSecs = CurSecs
  BY DEF HeapInv, UserInv, ActiveOK, Inside
<1>2. /\ curKeid \in Keid /\ stubTcs \in Page /\ epcm[stubTcs].secs = CurSecs
      /\ kenclaves[curKeid].state = "CREATED"
  BY <1>1 DEF UserInv, CurOK
<1>3. CurSecs \in Page /\ IsSecs(CurSecs)
  BY <1>1, <1>2 DEF KInv, SlotsOK, SlotOK, CurSecs
<1>4. ~Failed /\ Above(CurSecs)
  BY <1>1 DEF UserInv, FailureEnds, CurNewest
<1> QED
  BY <1>1, <1>2, <1>3, <1>4

(* EENTER of the enclave created last.                                     *)
LEMMA EnterHeap ==
  ASSUME HeapInv, NEW k \in Keid, sgx_enter(k)
  PROVE  HeapInv'
<1>1. /\ KInv /\ UserInv /\ Running("idle") /\ phase = "host" /\ phase' = "enclave"
      /\ k = curKeid /\ EENTER(kenclaves[k].tcs)
      /\ UNCHANGED <<kernVars, curKeid, stubTcs, pendingPage>>
  BY DEF HeapInv, sgx_enter
<1>2. curKeid # NoKeid /\ ~Failed
  BY <1>1, EnclavesAssumption DEF NoKeid, Keid, UserInv, FailureEnds
<1>3. PICK t \in Page : t = stubTcs /\ t = kenclaves[k].tcs /\ epcm[t].secs = CurSecs
  BY <1>1, <1>2 DEF UserInv, CurOK
<1>4. UNCHANGED <<pageVars, eidVars>> /\ activeSecs' = CurSecs /\ activeTcs' = t
  BY <1>1, <1>3 DEF EENTER, EnterEnclave
<1>5. EnclaveStep
  BY <1>1, <1>4, FramesOnly DEF pageVars, KInv, TypeOK
<1>6. KInv' /\ SecsPlaced' /\ EntriesOK' /\ FailureEnds' /\ CurOK' /\ CurSecs' = CurSecs
      /\ Above(CurSecs)'
  <2>1. PICK s : s = CurSecs
    OBVIOUS
  <2>2. Above(s)
    BY <1>1, <1>2, <2>1 DEF UserInv, CurNewest
  <2> QED
    BY <1>1, <1>2, <1>5, <2>1, <2>2, EnclaveKInv, EnclaveUserInv
<1>7. Running("idle")'
  BY <1>1 DEF Running, kernVars
<1>8. CurNewest' /\ ActiveOK' /\ PendingOK'
  BY <1>1, <1>2, <1>3, <1>4, <1>6, <1>7 DEF CurNewest, ActiveOK, Inside, PendingOK
<1> QED
  BY <1>6, <1>8 DEF HeapInv, UserInv

(* What Leave, RequestPage, Resume and Accept have in common.              *)
LEMMA InsideStep ==
  ASSUME HeapInv, Inside, EnclaveStep, UNCHANGED <<curKeid, stubTcs>>
  PROVE  /\ KInv' /\ SecsPlaced' /\ EntriesOK' /\ FailureEnds' /\ CurOK' /\ CurNewest'
         /\ Running("idle")' /\ CurSecs' = CurSecs
<1>1. PICK s \in Page : s = CurSecs /\ Above(s)
  BY InsideFacts
<1>2. /\ KInv' /\ SecsPlaced' /\ EntriesOK' /\ FailureEnds' /\ CurOK' /\ CurSecs' = CurSecs
      /\ Above(s)'
  BY <1>1, InsideFacts, EnclaveKInv, EnclaveUserInv
<1>3. Running("idle")'
  BY InsideFacts DEF Running, EnclaveStep
<1> QED
  BY <1>1, <1>2, <1>3 DEF CurNewest

(* A frame more or less leaves a TCS a TCS.                                *)
LEMMA CssaType ==
  ASSUME tcs \in [Page -> Tcs], NEW t \in Page, NEW n \in Nat
  PROVE  [tcs EXCEPT ![t].cssa = n] \in [Page -> Tcs]
<1>1. tcs[t] \in Tcs
  OBVIOUS
<1>2. [tcs[t] EXCEPT !.cssa = n] \in Tcs
  BY <1>1 DEF Tcs
<1> QED
  BY <1>2

(* EEXIT, for good or to the trampoline.                                   *)
LEMMA ExitHeap == HeapInv /\ (Leave \/ RequestPage) => HeapInv'
<1> SUFFICES ASSUME HeapInv, Leave \/ RequestPage PROVE HeapInv'
  OBVIOUS
<1>1. /\ phase = "enclave" /\ phase' \in {"host", "trampoline"} /\ Inside
      /\ UNCHANGED <<epcm, secs, eidVars, kernVars, activeSecs, activeTcs, curKeid, stubTcs>>
  BY DEF Leave, RequestPage, EEXIT, Inside
<1>2. EnclaveStep
  <2>0. KInv /\ tcs \in [Page -> Tcs]
    BY DEF HeapInv, KInv, TypeOK
  <2>1. PICK t \in Page : t = activeTcs
    BY <1>1, InsideFacts
  <2>2. tcs[t] \in Tcs
    BY <2>0
  <2>3. PICK n \in Nat : n = tcs[t].cssa + 1
    BY <2>2 DEF Tcs
  <2>4. tcs' = tcs \/ tcs' = [tcs EXCEPT ![t].cssa = n]
    BY <2>1, <2>3 DEF Leave, RequestPage, EEXIT
  <2>5. tcs' \in [Page -> Tcs]
    BY <2>0, <2>4, CssaType
  <2> QED
    BY <1>1, <2>0, <2>5, FramesOnly
<1>3. ActiveOK' /\ PendingOK'
  <2>1. Running("idle")' /\ CurSecs' = CurSecs
    BY <1>1, <1>2, InsideStep
  <2> QED
    BY <1>1, <2>1, InsideFacts DEF ActiveOK, Inside, PendingOK
<1> QED
  BY <1>1, <1>2, <1>3, InsideStep DEF HeapInv, UserInv

(* ERESUME by the trampoline.                                              *)
LEMMA ResumeHeap == HeapInv /\ Resume => HeapInv'
<1> SUFFICES ASSUME HeapInv, Resume PROVE HeapInv'
  OBVIOUS
<1>1. /\ phase = "resume" /\ phase' = "accept" /\ Inside /\ ERESUME(stubTcs)
      /\ UNCHANGED <<epcm, secs, eidVars, kernVars, curKeid, stubTcs, pendingPage>>
  BY DEF Resume, ERESUME, Inside
<1>2. PICK t \in Page : t = stubTcs /\ epcm[t].secs = CurSecs
  BY <1>1, InsideFacts
<1>3. activeSecs' = CurSecs /\ activeTcs' = t
  BY <1>1, <1>2 DEF ERESUME, EnterEnclave
<1>4. EnclaveStep
  <2>0. KInv /\ tcs \in [Page -> Tcs]
    BY DEF HeapInv, KInv, TypeOK
  <2>2. tcs[t] \in Tcs
    BY <2>0
  <2>3. tcs[t].cssa \in Nat /\ tcs[t].cssa # 0
    BY <1>1, <1>2, <2>2 DEF Tcs, ERESUME
  <2>4. PICK n \in Nat : n = tcs[t].cssa - 1
    BY <2>3
  <2>5. tcs' = [tcs EXCEPT ![t].cssa = n]
    BY <1>1, <1>2, <2>4 DEF ERESUME
  <2>6. tcs' \in [Page -> Tcs]
    BY <2>0, <2>5, CssaType
  <2> QED
    BY <1>1, <2>0, <2>6, FramesOnly
<1>5. Running("idle")' /\ CurSecs' = CurSecs
  BY <1>1, <1>4, InsideStep
<1>6. ActiveOK'
  BY <1>1, <1>2, <1>3, <1>5, InsideFacts DEF ActiveOK
<1>7. PendingOK'
  BY <1>1, <1>5, InsideFacts DEF PendingOK, UserInv
<1> QED
  BY <1>1, <1>4, <1>6, <1>7, InsideStep DEF HeapInv, UserInv

(* EACCEPT of the page the trampoline has added.                           *)
LEMMA AcceptHeap == HeapInv /\ Accept => HeapInv'
<1> SUFFICES ASSUME HeapInv, Accept PROVE HeapInv'
  OBVIOUS
<1>1. /\ phase = "accept" /\ Inside
      /\ UNCHANGED <<kernVars, curKeid, stubTcs, pendingPage>>
  BY DEF Accept, Inside
<1>2. PICK p \in Page : p = pendingPage /\ p # NoPage
  BY <1>1, NumEpcAssumption DEF HeapInv, UserInv, PendingOK, Page, NoPage
<1>3. /\ phase' = "enclave" /\ \E q \in Page : EACCEPT(p, q, TRUE, {"r", "w"})
  BY <1>2 DEF Accept
<1>4. /\ epcm' = [epcm EXCEPT ![p].pending = FALSE, ![p].modified = FALSE]
      /\ UNCHANGED <<secs, tcs, eidVars, cpuVars>>
  BY <1>3 DEF EACCEPT
<1>5. EnclaveStep
  <2>0. epcm \in [Page -> EpcmEntry] /\ tcs \in [Page -> Tcs] /\ epcm[p] \in EpcmEntry
    BY DEF HeapInv, KInv, TypeOK
  <2>1. [epcm[p] EXCEPT !.pending = FALSE, !.modified = FALSE] \in EpcmEntry
    BY <2>0 DEF EpcmEntry
  <2>2. epcm' \in [Page -> EpcmEntry]
    BY <1>4, <2>0, <2>1
  <2>3. \A r \in Page : SameButFlags(r)
    BY <1>4, <2>0 DEF SameButFlags, EpcmEntry
  <2> QED
    BY <1>1, <1>4, <2>0, <2>2, <2>3 DEF EnclaveStep, eidVars, kernVars
<1>6. ActiveOK' /\ PendingOK'
  <2>1. Running("idle")' /\ CurSecs' = CurSecs
    BY <1>1, <1>5, InsideStep
  <2> QED
    BY <1>1, <1>3, <1>4, <2>1, InsideFacts DEF ActiveOK, Inside, PendingOK, cpuVars
<1> QED
  BY <1>1, <1>5, <1>6, InsideStep DEF HeapInv, UserInv

-----------------------------------------------------------------------------
(***************************************************************************)
(* The last page of the EPC is free while the kernel is idle: it is in no  *)
(* range, and a page in use is a SECS, which is in its own, or a page of   *)
(* one.  So sys_add_epc never runs out of pages.                           *)
(***************************************************************************)
LEMMA LastFree ==
  ASSUME KInv, SecsPlaced, Running("idle")
  PROVE  NumEpc - 1 \in Page /\ info[NumEpc - 1].type = "FREE"
<1>a. NumEpc - 1 \in 0 .. (NumEpc - 1) /\ NumEpc - 1 \in Nat /\ NumEpc \in Nat
  BY NumEpcAssumption
<1>0. PICK p \in Page : p = NumEpc - 1 /\ p \in Nat /\ NumEpc \in Nat
  BY <1>a DEF Page
<1>1. info[p].type \in EpcType /\ info[p].type # "RESERVED"
  <2>1. info[p] \in KernInfo
    BY DEF KInv, KeysOK
  <2> QED
    BY <2>1 DEF KInv, NoneReserved, KernInfo
<1>2. ASSUME info[p].type \in PageType PROVE FALSE
  <2>1. epcm[p].valid
    BY <1>2 DEF KInv, TableMatchesEpcm, Running
  <2>2. CASE epcm[p].pt = "SECS"
    <3>1. secs[p].size >= 1 /\ p + secs[p].size < NumEpc /\ secs[p] \in Secs
      BY <2>1, <2>2 DEF SecsPlaced, IsSecs, KInv, TypeOK
    <3>2. secs[p].size \in Int
      BY <3>1 DEF Secs
    <3> QED
      BY <1>0, <3>1, <3>2
  <2>3. CASE epcm[p].pt # "SECS"
    <3>1. PICK s \in Page : IsSecs(s) /\ InElrange(s, p)
      BY <2>1, <2>3 DEF KInv, PagesOK, PageOK
    <3>2. secs[s].base = s /\ s + secs[s].size < NumEpc /\ p < secs[s].base + secs[s].size
      BY <3>1 DEF SecsPlaced, InElrange
    <3>3. secs[s].size \in Int /\ s \in Nat
      BY NumEpcAssumption DEF KInv, TypeOK, Secs, Page
    <3> QED
      BY <1>0, <3>2, <3>3
  <2> QED
    BY <2>2, <2>3
<1>3. info[p].type = "FREE"
  BY <1>1, <1>2 DEF EpcType, PageType
<1> QED
  BY <1>0, <1>3

(* The trampoline's REQUEST_EAUG.                                          *)
LEMMA TrampolineHeap == HeapInv /\ TrampolineAdds => HeapInv'
<1> SUFFICES ASSUME HeapInv, TrampolineAdds PROVE HeapInv'
  OBVIOUS
<1>1. phase = "trampoline" /\ Inside /\ UNCHANGED <<curKeid, stubTcs>>
  BY DEF TrampolineAdds, Inside
<1>2. /\ KInv /\ UserInv /\ Running("idle") /\ curKeid \in Keid /\ ~Failed
      /\ CurSecs \in Page /\ IsSecs(CurSecs) /\ Above(CurSecs)
  BY <1>1, InsideFacts
<1>c. PICK k \in Keid, c \in Page : k = curKeid /\ c = CurSecs
  BY <1>2
<1>3. sys_add_epc(k)
  <2>1. Free(info) # {} /\ Free(info) \in SUBSET Nat
    <3>1. NumEpc - 1 \in Free(info)
      BY <1>2, LastFree DEF UserInv, Free
    <3>2. Free(info) \in SUBSET Nat
      BY NumEpcAssumption DEF Free, Page
    <3> QED
      BY <3>1, <3>2
  <2>2. FirstOf(Free(info)) # NoPage
    <3>1. FirstOf(Free(info)) \in Nat
      BY <2>1, FirstOfLeast
    <3> QED
      BY <3>1 DEF NoPage
  <2>3. alloc_epc_page(info, k).idx # NoPage
    BY <2>2 DEF alloc_epc_page, reserve_epc_index
  <2> QED
    BY <1>c, <2>3 DEF TrampolineAdds
<1>4. [Next]_vars
  BY <1>3 DEF Next
<1>5. /\ KInv' /\ SecsPlaced' /\ EntriesOK' /\ CurOK' /\ CurSecs' = CurSecs
  <2>1. curKeid # NoKeid
    BY <1>1, InsideFacts
  <2> QED
    BY <1>1, <1>2, <1>4, <2>1, NextKInv, SecsPlacedStep, EntriesStep, CurStep DEF UserInv
<1>6. PICK f \in Page, s \in Page :
        /\ s = kenclaves[k].secs
        /\ IF EaugOK(f, s, f)
           THEN EAUG(f, s, f) /\ UNCHANGED <<kenclaves, regions, esp, call, status>>
           ELSE Stop("gpfAug")
  BY <1>2, <1>3, AddEpcTakes
<1>7. s = c
  BY <1>c, <1>6 DEF CurSecs
<1>8. CASE ~EaugOK(f, s, f)
  <2>1. status' = "gpfAug" /\ kenclaves' = kenclaves
    BY <1>6, <1>8 DEF Stop
  <2>2. phase' = "fault"
    BY <2>1 DEF TrampolineAdds
  <2>3. FailureEnds' /\ CurNewest' /\ ActiveOK' /\ PendingOK'
    BY <2>2 DEF FailureEnds, CurNewest, ActiveOK, Inside, PendingOK
  <2> QED
    BY <1>5, <2>3 DEF HeapInv, UserInv
<1>9. CASE EaugOK(f, s, f)
  <2>1. EAUG(f, s, f) /\ UNCHANGED <<kenclaves, regions, esp, call, status>>
    BY <1>6, <1>9
  <2>2. NewEntry(f, "REG", s, f)
    BY <1>2, <2>1, EaugEffect DEF KInv
  <2>3. epcm'[f].pending /\ UNCHANGED cpuVars
    <3>1. epcm \in [Page -> EpcmEntry]
      BY <1>2 DEF KInv, TypeOK
    <3> QED
      BY <2>1, <3>1 DEF EAUG, set_epcm_entry, EpcmEntry
  <2>4. AddedPage = {f}
    BY <2>2 DEF AddedPage, NewEntry
  <2>5. pendingPage' = f
    BY <2>4 DEF TrampolineAdds
  <2>6. phase' = "resume" /\ Running("idle")'
    BY <1>2, <2>1 DEF TrampolineAdds, Running
  <2>7. PendingOK'
    BY <1>5, <1>7, <1>c, <2>2, <2>3, <2>5 DEF PendingOK, NewEntry
  <2>8. ActiveOK'
    BY <1>1, <1>5, <2>3, <2>6, InsideFacts DEF ActiveOK, cpuVars
  <2>9. FailureEnds'
    BY <1>2, <2>1 DEF FailureEnds, Failed
  <2>10. CurNewest'
    <3>1. Above(c)'
      <4> SUFFICES ASSUME NEW p \in Page, epcm'[p].valid PROVE p < c \/ Owner(p)' = c
        BY DEF Above
      <4>1. CASE p = f
        BY <1>7, <2>2, <4>1 DEF NewEntry, Owner
      <4>2. CASE p # f
        BY <1>2, <1>c, <2>2, <4>2 DEF NewEntry, Owner, Above
      <4> QED
        BY <4>1, <4>2
    <3> QED
      BY <1>5, <1>c, <3>1 DEF CurNewest
  <2> QED
    BY <1>5, <2>7, <2>8, <2>9, <2>10 DEF HeapInv, UserInv
<1> QED
  BY <1>8, <1>9

(* An access that faults, and a step that changes nothing.                 *)
LEMMA StillHeap ==
  ASSUME HeapInv, UNCHANGED <<vars, curKeid, stubTcs, pendingPage>>, phase' \in {phase, "fault"}
  PROVE  HeapInv'
<1>u. UNCHANGED <<epcm, secs, tcs, info, kenclaves, call, status, activeSecs, activeTcs>>
  BY DEF vars, sgxVars, pageVars, cpuVars, kernVars
<1>1. KInv'
  BY StutterKInv DEF HeapInv
<1>2. SecsPlaced' /\ EntriesOK' /\ FailureEnds'
  BY <1>u DEF HeapInv, UserInv, SecsPlaced, IsSecs, EntriesOK, FailureEnds, Failed
<1>3. CurSecs' = CurSecs
  BY <1>u DEF CurSecs
<1>4. CurOK' /\ CurNewest'
  BY <1>u, <1>3 DEF HeapInv, UserInv, CurOK, CurNewest, Above, Owner, Running
<1>5. ActiveOK' /\ PendingOK'
  BY <1>u, <1>3 DEF HeapInv, UserInv, ActiveOK, PendingOK, Inside, Running
<1> QED
  BY <1>1, <1>2, <1>4, <1>5 DEF HeapInv, UserInv

(* A process that has just started.                                        *)
LEMMA InitHeapInv == HeapInit => HeapInv
<1> SUFFICES ASSUME HeapInit PROVE HeapInv
  OBVIOUS
<1>1. KInv
  BY InitKInv DEF HeapInit
<1>2. /\ \A p \in Page : epcm[p] = ZeroEntry
      /\ \A k \in Keid : kenclaves[k].state = "FREE"
      /\ phase = "host" /\ curKeid = NoKeid
  BY DEF HeapInit, Init, sys_sgx_init, encls_qemu_init
<1>3. SecsPlaced /\ EntriesOK /\ FailureEnds
  BY <1>2 DEF SecsPlaced, IsSecs, EntriesOK, FailureEnds, Failed, ZeroEntry
<1>4. CurOK /\ CurNewest /\ ActiveOK /\ PendingOK
  BY <1>2 DEF CurOK, CurNewest, ActiveOK, Inside, PendingOK
<1> QED
  BY <1>1, <1>3, <1>4 DEF HeapInv, UserInv

(* Every step of the process preserves both invariants.                    *)
LEMMA NextHeapInv == HeapInv /\ [HeapNext]_allVars => HeapInv'
<1> SUFFICES ASSUME HeapInv, [HeapNext]_allVars PROVE HeapInv'
  OBVIOUS
<1>1. CASE UNCHANGED allVars
  BY <1>1, StillHeap DEF allVars, userVars
<1>2. CASE AccessFaults
  BY <1>2, StillHeap DEF AccessFaults
<1> QED
  BY <1>1, <1>2, CreateHeap, InitHeap, EnterHeap, ExitHeap, TrampolineHeap, ResumeHeap,
     AcceptHeap DEF HeapNext

(* The inductive invariant of a process with enclaves that grow.           *)
THEOREM HeapInvariance == HeapSpec => []HeapInv
BY InitHeapInv, NextHeapInv, PTL DEF HeapSpec

-----------------------------------------------------------------------------
(* What the running enclave can reach.                                     *)

(* The range of the running enclave starts at its SECS.                    *)
LEMMA ActiveRange ==
  ASSUME HeapInv, InEnclave
  PROVE  \E s \in Page :
           /\ s = activeSecs /\ s # NoPage /\ Above(s) /\ secs[s].base = s
           /\ secs[s].size \in Int /\ secs[s].size >= 1 /\ s \in Int
<1>1. Inside
  BY DEF InEnclave, Inside
<1>2. PICK s \in Page : s = activeSecs /\ IsSecs(s) /\ Above(s)
  BY <1>1, InsideFacts
<1>3. secs[s].base = s /\ secs[s].size >= 1
  BY <1>2 DEF HeapInv, UserInv, SecsPlaced
<1>4. secs[s].size \in Int
  BY DEF HeapInv, KInv, TypeOK, Secs
<1>5. s \in Int /\ s # NoPage
  BY NumEpcAssumption DEF Page, NoPage
<1> QED
  BY <1>2, <1>3, <1>4, <1>5

(* helper_mem_access and helper_mem_execute let the running enclave at     *)
(* every page the kernel gave it, the ones EAUG added included.            *)
THEOREM OwnReachable == HeapSpec => []OwnPagesUsable
<1>1. HeapInv => OwnPagesUsable
  <2> SUFFICES ASSUME HeapInv, InEnclave, NEW p \in Page, Owner(p) = activeSecs,
                      NEW a \in AddressesOf(p)
               PROVE  helper_mem_access(a) /\ ("x" \in epcm[p].perm => helper_mem_execute(a))
    BY DEF OwnPagesUsable
  <2>1. PICK s \in Page :
           /\ s = activeSecs /\ s # NoPage /\ secs[s].base = s
           /\ secs[s].size \in Int /\ secs[s].size >= 1 /\ s \in Int
    BY ActiveRange
  <2>2. a.page = p /\ p \in Int
    BY NumEpcAssumption DEF AddressesOf, Page
  <2>3. secs[s].base <= p /\ p < secs[s].base + secs[s].size
    <3>1. CASE p = s
      BY <2>1, <3>1
    <3>2. CASE p # s
      <4>1. epcm[p].valid /\ epcm[p].pt # "SECS" /\ epcm[p].secs = s
        BY <2>1, <3>2 DEF Owner
      <4>2. InElrange(s, p)
        BY <4>1 DEF HeapInv, KInv, PagesOK, PageOK
      <4> QED
        BY <2>1, <2>2, <4>2 DEF InElrange
    <3> QED
      BY <3>1, <3>2
  <2>4. is_within_enclave(a)
    BY <2>1, <2>2, <2>3 DEF is_within_enclave
  <2> QED
    BY <2>2, <2>4 DEF helper_mem_access, helper_mem_execute
<1> QED
  BY <1>1, HeapInvariance, PTL

(* is_within_enclave takes the end of the range to belong to it.  An       *)
(* access to another enclave faults all the same: the enclave that runs is *)
(* the one created last, and all others lie below it.                      *)
THEOREM OthersOutOfReach == HeapSpec => []OthersUnreachable
<1>1. HeapInv => OthersUnreachable
  <2> SUFFICES ASSUME HeapInv, InEnclave, NEW p \in Page, Owner(p) \notin {NoPage, activeSecs},
                      NEW a \in AddressesOf(p)
               PROVE  ~helper_mem_access(a)
    BY DEF OthersUnreachable
  <2>1. PICK s \in Page : s = activeSecs /\ Above(s) /\ secs[s].base = s /\ s \in Int
    BY ActiveRange
  <2>2. a.page = p /\ p \in Int
    BY NumEpcAssumption DEF AddressesOf, Page
  <2>3. p < s
    BY <2>1 DEF Above, Owner
  <2>4. ~is_within_enclave(a)
    BY <2>1, <2>2, <2>3 DEF is_within_enclave
  <2> QED
    BY <2>4 DEF helper_mem_access
<1> QED
  BY <1>1, HeapInvariance, PTL

(* The trampoline resumes the enclave that asked for a page, with a page   *)
(* that is its own and that EACCEPT takes; morecore never sees page 0.     *)
THEOREM PageAccepted == HeapSpec => []PageIsAcceptable
<1>1. HeapInv => PageIsAcceptable
  <2> SUFFICES ASSUME HeapInv PROVE PageIsAcceptable
    OBVIOUS
  <2>1. phase \in {"trampoline", "resume", "accept"} => stubTcs = activeTcs
    BY InsideFacts DEF Inside
  <2>2. ASSUME phase = "accept"
        PROVE  pendingPage # NoPage /\ Owner(pendingPage) = activeSecs /\ Acceptable
    <3>0. Inside /\ InEnclave /\ phase \in {"resume", "accept"}
      BY <2>2 DEF Inside, InEnclave
    <3>1. PICK s \in Page : s = activeSecs /\ s # NoPage /\ s = CurSecs
      BY <3>0, ActiveRange, InsideFacts
    <3>2. PICK p \in Page : /\ p = pendingPage /\ epcm[p].valid /\ epcm[p].pt = "REG"
                            /\ epcm[p].secs = s /\ epcm[p].pending
      BY <3>0, <3>1 DEF HeapInv, UserInv, PendingOK
    <3>3. PICK q \in Page : /\ epcm[q].valid /\ epcm[q].pt = "REG" /\ epcm[q].secs = s
                            /\ epcm[q].perm = {"r", "w", "x"}
      BY <3>0, <3>1, InsideFacts DEF UserInv, CurOK
    <3>4. \A r \in {p, q} : InElrange(s, r) /\ epcm[r].addr = r /\ ~epcm[r].blocked
      BY <3>2, <3>3 DEF HeapInv, KInv, PagesOK, PageOK
    <3>5. /\ ~epcm[p].modified /\ epcm[p].perm = {"r", "w"} /\ ~epcm[q].modified
          /\ ~epcm[q].pending
      BY <3>2, <3>3 DEF HeapInv, UserInv, EntriesOK
    <3>6. SecinfoOK(q) /\ epcm[q].addr = q
      BY <3>1, <3>3, <3>4, <3>5 DEF SecinfoOK
    <3>7. epcm[p].pending = TRUE
      <4>1. epcm[p].pending \in BOOLEAN
        BY DEF HeapInv, KInv, TypeOK, EpcmEntry
      <4> QED
        BY <3>2, <4>1
    <3>8. EacceptOK(p, q, TRUE, {"r", "w"})
      BY <3>1, <3>2, <3>4, <3>5, <3>6, <3>7 DEF EacceptOK
    <3>9. Acceptable
      BY <3>2, <3>8 DEF Acceptable
    <3> QED
      BY <3>1, <3>2, <3>9, NumEpcAssumption DEF Owner, Page, NoPage
  <2> QED
    BY <2>1, <2>2 DEF PageIsAcceptable
<1> QED
  BY <1>1, HeapInvariance, PTL
=============================================================================
