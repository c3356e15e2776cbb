------------------------------ MODULE SgxEpcm ------------------------------
(***************************************************************************)
(* The SGX instructions of qemu/target-i386/sgx_helper.c, seen through the *)
(* state they share: the EPCM, the SECS and TCS pages, the list of         *)
(* initialised enclaves and the control registers that name the running    *)
(* enclave.  One action per instruction leaf.                              *)
(*                                                                         *)
(* A leaf that raises #GP is not a step.  raise_exception leaves the       *)
(* helper, the emulated process receives SIGSEGV, for which nothing in the *)
(* repository installs a handler, and the emulator ends with it.  The      *)
(* condition under which a leaf does not fault is an operator of its own   *)
(* (EaddOK, EaugOK, ...) so that a caller can tell the two apart.  A leaf  *)
(* that returns an error code leaves all of this state alone and is not a  *)
(* step either.                                                            *)
(*                                                                         *)
(* Leaves without an action: EREMOVE is commented out in the dispatcher;   *)
(* EPA falls through into EWB, which faults on RBX = PT_VA, and EWB and    *)
(* ELDB/ELDU need a valid version-array page, which EPA never produces;    *)
(* EMODT and ETRACK have no case.  The OSGX_ hypercalls set the emulator   *)
(* up and are no SGX instructions: OSGX_INIT is encls_qemu_init, and       *)
(* OSGX_EPCM_CLR, which clears the valid bit of an entry, is never issued. *)
(***************************************************************************)
EXTENDS EpcPages, Sequences

VARIABLES
  epcm,        \* one entry per EPC page
  secs,        \* the SECS a page holds (meaningful for PT_SECS pages)
  tcs,         \* the TCS a page holds (meaningful for PT_TCS pages)
  entryEid,    \* entry_eid: the eids EINIT has marked, as a set
  nextEid,     \* CR_NEXT_EID
  enclaveMode, \* CR_ENCLAVE_MODE
  activeSecs,  \* CR_ACTIVE_SECS (and with it CR_ELRANGE); never reset
  activeTcs,   \* CR_TCS_LA; never reset
  gprPage      \* the page of CR_GPR_PA, the register save area; never reset

pageVars == <<epcm, secs, tcs>>
eidVars  == <<entryEid, nextEid>>
cpuVars  == <<enclaveMode, activeSecs, activeTcs, gprPage>>
sgxVars  == <<pageVars, eidVars, cpuVars>>

Perm == {"r", "w", "x"}
PageType == {"SECS", "TCS", "REG"}

EpcmEntry ==
  [valid : BOOLEAN, blocked : BOOLEAN, pending : BOOLEAN, modified : BOOLEAN,
   perm : SUBSET Perm, pt : PageType, secs : PageOrNone, addr : Int]

(* An update of MRENCLAVE: the leaf, the page offset in the enclave and,   *)
(* for EADD, the page type and permissions that were hashed.               *)
Update ==
  [leaf : {"ECREATE", "EADD", "EEXTEND", "FINAL"}, off : Int,
   pt : PageType, perm : SUBSET Perm]

Secs == [eid : Nat, base : Int, size : Int, mrEnclave : Seq(Update)]
Tcs  == [cssa : Nat, nssa : Nat, ossa : Int, dbgoptin : BOOLEAN]

(* memset(epcm, 0): page type 0 is PT_SECS.  The EPC itself starts zeroed. *)
ZeroEntry ==
  [valid |-> FALSE, blocked |-> FALSE, pending |-> FALSE, modified |-> FALSE,
   perm |-> {}, pt |-> "SECS", secs |-> NoPage, addr |-> 0]
ZeroSecs == [eid |-> 0, base |-> 0, size |-> 0, mrEnclave |-> <<>>]
ZeroTcs  == [cssa |-> 0, nssa |-> 0, ossa |-> 0, dbgoptin |-> FALSE]

encls_qemu_init ==
  /\ epcm = [p \in Page |-> ZeroEntry]
  /\ secs = [p \in Page |-> ZeroSecs]
  /\ tcs = [p \in Page |-> ZeroTcs]
  /\ entryEid = {}
  /\ nextEid = 0
  /\ enclaveMode = FALSE
  /\ activeSecs = NoPage
  /\ activeTcs = NoPage
  /\ gprPage = NoPage

-----------------------------------------------------------------------------
(* Helpers of the leaves.                                                  *)

checkEINIT(eid) == eid \in entryEid

(* epcm_invalid_check and epcm_page_type_check on a SECS operand.          *)
IsSecs(s) == epcm[s].valid /\ epcm[s].pt = "SECS"

(* CR_ELRANGE, or the range of the enclave of SECS s.                      *)
InElrange(s, lin) == lin >= secs[s].base /\ lin < secs[s].base + secs[s].size

(* set_epcm_entry leaves pending and modified as they are.                 *)
set_epcm_entry(e, perm, pt, s, lin) ==
  [e EXCEPT !.valid = TRUE, !.blocked = FALSE, !.perm = perm, !.pt = pt,
            !.secs = s, !.addr = lin]

PowerOfTwo(n) == \E k \in 0 .. n : n = 2 ^ k

Measured(s, upd) == [secs EXCEPT ![s].mrEnclave = Append(@, upd)]

-----------------------------------------------------------------------------
(* ENCLS: page management by the operating system.                         *)

EcreateOK(p, size) ==
  /\ ~epcm[p].valid
  /\ size >= 2
  /\ PowerOfTwo(size)

\* Mutant: CR_NEXT_EID is not advanced.
ECREATE_SameEid(p, base, size) ==
  /\ EcreateOK(p, size)
  /\ secs' = [secs EXCEPT ![p] =
       [eid |-> nextEid, base |-> base, size |-> size, mrEnclave |-> <<>>]]
  /\ epcm' = [epcm EXCEPT ![p] = set_epcm_entry(@, {}, "SECS", NoPage, 0)]
  /\ UNCHANGED <<tcs, eidVars, cpuVars>>

ECREATE(p, base, size) ==
  /\ EcreateOK(p, size)
  /\ secs' = [secs EXCEPT ![p] =
       [eid |-> nextEid, base |-> base, size |-> size,
        mrEnclave |-> <<[leaf |-> "ECREATE", off |-> size,
                         pt |-> "SECS", perm |-> {}]>>]]
  /\ nextEid' = nextEid + 1
  /\ epcm' = [epcm EXCEPT ![p] = set_epcm_entry(@, {}, "SECS", NoPage, 0)]
  /\ UNCHANGED <<tcs, entryEid, cpuVars>>

\* Mutant: the page type of the SECS operand is not checked.
EaddOK_AnySecs(p, s, pt, perm) == ~epcm[p].valid /\ epcm[s].valid

\* Mutant: EADD takes a page that is in use.
EaddOK_Reuse(p, s, pt, perm) == IsSecs(s)

(* The range check on linaddr and the check that the enclave is not yet    *)
(* initialised are disabled in the source.                                 *)
EaddOK(p, s, pt, perm) ==
  /\ ~epcm[p].valid
  /\ IsSecs(s)
  /\ pt = "REG" => ("w" \in perm => "r" \in perm)

\* Mutant: the page types are swapped.
EaddPerm_Swapped(pt, perm) == IF pt = "REG" THEN {} ELSE perm \cup {"r"}

(* For a TCS the permissions are forced to none; a REG page is readable.   *)
EaddPerm(pt, perm) == IF pt = "TCS" THEN {} ELSE perm \cup {"r"}

(* src is the TCS in the source page.  It is copied into the EPC page      *)
(* before cssa and dbgoptin are cleared in the source, so the copy keeps   *)
(* the caller's values.                                                    *)
EADD(p, s, lin, pt, perm, src) ==
  /\ EaddOK(p, s, pt, perm)
  /\ epcm' = [epcm EXCEPT ![p] =
                set_epcm_entry(@, EaddPerm(pt, perm), pt, s, lin)]
  /\ secs' = Measured(s, [leaf |-> "EADD", off |-> lin - secs[s].base,
                          pt |-> pt, perm |-> EaddPerm(pt, perm)])
  /\ tcs' = IF pt = "TCS" THEN [tcs EXCEPT ![p] = src] ELSE tcs
  /\ UNCHANGED <<eidVars, cpuVars>>

EextendOK(p) == epcm[p].valid /\ epcm[p].pt \in {"REG", "TCS"}

(* One 256-byte chunk is five blocks of the hash; pages stand for chunks.  *)
(* The offset comes from the physical operand, not from enclave_addr.      *)
EEXTEND(p) ==
  /\ EextendOK(p)
  /\ secs' = Measured(epcm[p].secs,
                      [leaf |-> "EEXTEND", off |-> p - secs[epcm[p].secs].base,
                       pt |-> epcm[p].pt, perm |-> {}])
  /\ UNCHANGED <<epcm, tcs, eidVars, cpuVars>>

(* verdict is the outcome of the signature, measurement, attribute and     *)
(* token checks.  Nothing asks whether the enclave is initialised already. *)
EINIT(s, verdict) ==
  /\ IsSecs(s)
  /\ verdict
  /\ secs' = Measured(s, [leaf |-> "FINAL", off |-> 0,
                          pt |-> "SECS", perm |-> {}])
  /\ entryEid' = entryEid \cup {secs[s].eid}
  /\ UNCHANGED <<epcm, tcs, nextEid, cpuVars>>

\* Mutant: EAUG serves an enclave that is not initialised.
EaugOK_NoInitCheck(p, s, lin) ==
  ~epcm[p].valid /\ IsSecs(s) /\ InElrange(s, lin)

\* Mutant: the linear address is not compared with the enclave's range.
EaugOK_AnyAddress(p, s, lin) ==
  ~epcm[p].valid /\ IsSecs(s) /\ checkEINIT(secs[s].eid)

EaugOK(p, s, lin) ==
  /\ ~epcm[p].valid
  /\ IsSecs(s)
  /\ checkEINIT(secs[s].eid)
  /\ InElrange(s, lin)

\* Mutant: EAUG extends the measurement the way EADD does.
EAUG_Measured(p, s, lin) ==
  /\ EaugOK(p, s, lin)
  /\ epcm' = [epcm EXCEPT ![p] =
       [set_epcm_entry(@, {"r", "w"}, "REG", s, lin) EXCEPT !.pending = TRUE]]
  /\ secs' = Measured(s, [leaf |-> "EADD", off |-> lin - secs[s].base,
                          pt |-> "REG", perm |-> {"r", "w"}])
  /\ UNCHANGED <<tcs, eidVars, cpuVars>>

EAUG(p, s, lin) ==
  /\ EaugOK(p, s, lin)
  /\ epcm' = [epcm EXCEPT ![p] =
       [set_epcm_entry(@, {"r", "w"}, "REG", s, lin)
          EXCEPT !.pending = TRUE, !.modified = FALSE]]
  /\ UNCHANGED <<secs, tcs, eidVars, cpuVars>>

\* Mutant: the permissions are merged instead of restricted.
EMODPR_Merge(p, perm) ==
  /\ epcm[p].valid /\ ~epcm[p].pending /\ epcm[p].pt = "REG"
  /\ epcm' = [epcm EXCEPT ![p].perm = @ \cup perm]
  /\ UNCHANGED <<secs, tcs, eidVars, cpuVars>>

(* A request that keeps r and drops w is taken for a malformed one.  A     *)
(* pending or modified page gets an error code.                            *)
EMODPR(p, perm) ==
  /\ "r" \in perm => "w" \in perm
  /\ epcm[p].valid
  /\ ~epcm[p].pending /\ ~epcm[p].modified
  /\ epcm[p].pt = "REG"
  /\ epcm' = [epcm EXCEPT ![p].perm = @ \cap perm]
  /\ UNCHANGED <<secs, tcs, eidVars, cpuVars>>

EBLOCK(p) ==
  /\ epcm[p].valid
  /\ epcm[p].pt \in {"REG", "TCS"}
  /\ ~epcm[p].blocked
  /\ epcm' = [epcm EXCEPT ![p].blocked = TRUE]
  /\ UNCHANGED <<secs, tcs, eidVars, cpuVars>>

-----------------------------------------------------------------------------
(* ENCLU: none of these leaves looks at CR_ENCLAVE_MODE.  EACCEPT, EMODPE  *)
(* and EEXIT go by CR_ACTIVE_SECS, which keeps its value after EEXIT.      *)

(* The page a SECINFO operand lies in.                                     *)
SecinfoOK(q) ==
  /\ epcm[q].valid
  /\ "r" \in epcm[q].perm
  /\ ~epcm[q].pending /\ ~epcm[q].modified /\ ~epcm[q].blocked
  /\ epcm[q].pt = "REG"
  /\ epcm[q].secs = activeSecs
  /\ InElrange(activeSecs, q)

(* The accepted state must be the state the page is in: type, permissions, *)
(* and the pending and modified flags.                                     *)
EacceptOK(p, q, pending, perm) ==
  /\ activeSecs # NoPage
  /\ SecinfoOK(q) /\ epcm[q].addr = q
  /\ InElrange(activeSecs, p)
  /\ epcm[p].valid /\ ~epcm[p].blocked /\ epcm[p].pt = "REG"
  /\ epcm[p].secs = activeSecs
  /\ epcm[p].addr = p
  /\ epcm[p].pending = pending /\ ~epcm[p].modified
  /\ epcm[p].perm = perm

EACCEPT(p, q, pending, perm) ==
  /\ EacceptOK(p, q, pending, perm)
  /\ epcm' = [epcm EXCEPT ![p].pending = FALSE, ![p].modified = FALSE]
  /\ UNCHANGED <<secs, tcs, eidVars, cpuVars>>

\* Mutant: a page still waiting for EACCEPT is not refused.
EMODPE_Pending(p, q, perm, atStart) ==
  /\ activeSecs # NoPage
  /\ SecinfoOK(q)
  /\ epcm[p].valid /\ epcm[p].pt = "REG" /\ epcm[p].secs = activeSecs
  /\ epcm' = [epcm EXCEPT ![p].perm = @ \cup perm]
  /\ UNCHANGED <<secs, tcs, eidVars, cpuVars>>

\* Mutant: the page is not compared with the running enclave.
EMODPE_AnyOwner(p, q, perm, atStart) ==
  /\ activeSecs # NoPage
  /\ SecinfoOK(q) /\ ~(atStart /\ epcm[q].addr = q)
  /\ InElrange(activeSecs, p)
  /\ epcm[p].valid /\ ~epcm[p].pending /\ epcm[p].pt = "REG" /\ epcm[p].addr = p
  /\ epcm' = [epcm EXCEPT ![p].perm = @ \cup perm]
  /\ UNCHANGED <<secs, tcs, eidVars, cpuVars>>

(* atStart: the SECINFO is the first thing in its page.  EMODPE compares   *)
(* enclave_addr with RBX the wrong way round and faults on that one.       *)
EMODPE(p, q, perm, atStart) ==
  /\ activeSecs # NoPage
  /\ SecinfoOK(q) /\ ~(atStart /\ epcm[q].addr = q)
  /\ InElrange(activeSecs, p)
  /\ epcm[p].valid /\ ~epcm[p].pending /\ ~epcm[p].modified
  /\ ~epcm[p].blocked /\ epcm[p].pt = "REG"
  /\ epcm[p].secs = activeSecs
  /\ epcm[p].addr = p
  /\ epcm' = [epcm EXCEPT ![p].perm = @ \cup perm]
  /\ UNCHANGED <<secs, tcs, eidVars, cpuVars>>

(* EACCEPTCOPY faults when enclave_addr equals the destination, so it goes *)
(* through only for a page whose linear address is not its own.            *)
EACCEPTCOPY(p, q, src, perm, atStart) ==
  /\ activeSecs # NoPage
  /\ SecinfoOK(q) /\ ~(atStart /\ epcm[q].addr = q)
  /\ "w" \in perm => "r" \in perm
  /\ InElrange(activeSecs, p) /\ InElrange(activeSecs, src)
  /\ epcm[src].valid /\ ~epcm[src].pending /\ ~epcm[src].modified
  /\ ~epcm[src].blocked /\ epcm[src].pt = "REG"
  /\ epcm[src].secs = activeSecs
  /\ epcm[p].valid /\ epcm[p].pending /\ ~epcm[p].modified
  /\ epcm[p].pt = "REG" /\ epcm[p].secs = activeSecs
  /\ epcm[p].perm = {"r", "w"}
  /\ epcm[p].addr # p
  /\ epcm' = [epcm EXCEPT ![p].perm = @ \cup perm, ![p].pending = FALSE]
  /\ UNCHANGED <<secs, tcs, eidVars, cpuVars>>

(* The checks EENTER and ERESUME share: the TCS page, then the page of SSA *)
(* frame number n.  "(tmp_secs == NULL) && !checkEINIT(eid)" never holds.  *)
FramePage(t, n) == secs[epcm[t].secs].base + tcs[t].ossa + n

FrameOK(f, s) ==
  /\ f \in Page
  /\ epcm[f].valid /\ ~epcm[f].blocked
  /\ epcm[f].addr = f /\ epcm[f].pt = "REG" /\ epcm[f].secs = s
  /\ {"r", "w"} \subseteq epcm[f].perm

TcsOK(t) ==
  /\ epcm[t].valid /\ ~epcm[t].blocked
  /\ epcm[t].addr = t
  /\ epcm[t].pt = "TCS"

EnterEnclave(t, f) ==
  /\ enclaveMode' = TRUE
  /\ activeSecs' = epcm[t].secs
  /\ activeTcs' = t
  /\ gprPage' = f

\* Mutant: CR_GPR_PA is taken from the frame after the one checked.
EENTER_NextFrame(t) ==
  /\ TcsOK(t)
  /\ tcs[t].cssa < tcs[t].nssa
  /\ FrameOK(FramePage(t, tcs[t].cssa), epcm[t].secs)
  /\ EnterEnclave(t, FramePage(t, tcs[t].cssa + 1))
  /\ UNCHANGED <<pageVars, eidVars>>

EENTER(t) ==
  /\ TcsOK(t)
  /\ tcs[t].cssa < tcs[t].nssa
  /\ FrameOK(FramePage(t, tcs[t].cssa), epcm[t].secs)
  /\ EnterEnclave(t, FramePage(t, tcs[t].cssa))
  /\ UNCHANGED <<pageVars, eidVars>>

\* Mutant: a TCS without a saved frame is resumed.
ERESUME_NoFrame(t) ==
  /\ TcsOK(t)
  /\ FrameOK(FramePage(t, tcs[t].cssa - 1), epcm[t].secs)
  /\ EnterEnclave(t, FramePage(t, tcs[t].cssa - 1))
  /\ tcs' = [tcs EXCEPT ![t].cssa = @ - 1]
  /\ UNCHANGED <<epcm, secs, eidVars>>

ERESUME(t) ==
  /\ TcsOK(t)
  /\ tcs[t].cssa # 0
  /\ FrameOK(FramePage(t, tcs[t].cssa - 1), epcm[t].secs)
  /\ EnterEnclave(t, FramePage(t, tcs[t].cssa - 1))
  /\ tcs' = [tcs EXCEPT ![t].cssa = @ - 1]
  /\ UNCHANGED <<epcm, secs, eidVars>>

(* RBX = 0 leaves for good; otherwise the trampoline is called, the frame  *)
(* filled and cssa moved past it, whatever nssa is.                        *)
EEXIT(toTrampoline) ==
  /\ activeSecs # NoPage
  /\ tcs' = IF toTrampoline THEN [tcs EXCEPT ![activeTcs].cssa = @ + 1]
            ELSE tcs
  /\ enclaveMode' = FALSE
  /\ UNCHANGED <<epcm, secs, eidVars, activeSecs, activeTcs, gprPage>>

(* An exception or a software interrupt raised by enclave code, before it  *)
(* is delivered.  Nothing ends CR_ENCLAVE_MODE: when the delivery returns, *)
(* as it does for an interrupt that is a system call, the enclave goes on  *)
(* and its frame counts as used.                                           *)
helper_sgx_ehandle ==
  /\ enclaveMode
  /\ tcs' = [tcs EXCEPT ![activeTcs].cssa = @ + 1]
  /\ UNCHANGED <<epcm, secs, eidVars, cpuVars>>

-----------------------------------------------------------------------------
(* The abstract view: the eid of the enclave a page belongs to.            *)
NoEid == -1
EidOfPage(p) ==
  IF ~epcm[p].valid THEN NoEid
  ELSE IF epcm[p].pt = "SECS" THEN secs[p].eid ELSE secs[epcm[p].secs].eid

EpcOwner == [p \in Page |-> EidOfPage(p)]
WaitingPages == {p \in Page : epcm[p].valid /\ epcm[p].pending}

Life == INSTANCE EpcLife WITH
          NoOwner     <- NoEid,
          owner       <- EpcOwner,
          next        <- nextEid,
          initialised <- entryEid,
          waiting     <- WaitingPages

(***************************************************************************)
(* The instructions keep the promise of EpcLife: the EPCM, the SECS pages, *)
(* CR_NEXT_EID and entry_eid, which different leaves check and update one  *)
(* by one, together behave as one table of owners in which a page is taken *)
(* once, by the newest enclave or by one that exists, unmeasured only by   *)
(* an initialised one.                                                     *)
(***************************************************************************)
PagesLive == Life!LifeSpec
=============================================================================
