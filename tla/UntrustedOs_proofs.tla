------------------------- MODULE UntrustedOs_proofs -------------------------
(***************************************************************************)
(* What the instructions of SgxEpcm guarantee against every operating      *)
(* system, for any number of pages, enclaves and updates.                  *)
(***************************************************************************)
EXTENDS UntrustedOs, EpcLife_proofs

(* The part of the types EpcLife_proofs works with.                        *)
LEMMA Types == TypeOK => EpcmTypes
BY DEF TypeOK, EpcmTypes

(* Entering an enclave through a TCS of it sets the registers to pages.    *)
LEMMA EnterType ==
  ASSUME TypeOK, NEW t \in Page, NEW f \in Page, EnterEnclave(t, f)
  PROVE  /\ enclaveMode' \in BOOLEAN
         /\ activeSecs' \in PageOrNone
         /\ activeTcs' \in PageOrNone
         /\ gprPage' \in PageOrNone
BY DEF TypeOK, EnterEnclave, EpcmEntry, PageOrNone

(* Moving cssa of the running TCS past the current frame keeps the types.  *)
LEMMA FrameUsedType ==
  ASSUME TypeOK
  PROVE  [tcs EXCEPT ![activeTcs].cssa = @ + 1] \in [Page -> Tcs]
<1> DEFINE moved == [tcs[activeTcs] EXCEPT !.cssa = @ + 1]
<1>1. CASE activeTcs \in Page
  <2>1. tcs[activeTcs] \in Tcs
    BY <1>1 DEF TypeOK
  <2>2. moved \in Tcs
    BY <2>1 DEF Tcs
  <2>3. [tcs EXCEPT ![activeTcs] = moved] \in [Page -> Tcs]
    BY <2>2 DEF TypeOK
  <2> QED
    BY <2>3
<1>2. CASE activeTcs \notin Page
  BY <1>2 DEF TypeOK
<1> QED
  BY <1>1, <1>2

(* encls_qemu_init establishes the types.                                  *)
LEMMA InitType == Init => TypeOK
<1> SUFFICES ASSUME Init PROVE TypeOK
  OBVIOUS
<1>1. ZeroEntry \in EpcmEntry
  BY DEF ZeroEntry, EpcmEntry, Perm, PageType, PageOrNone, NoPage
<1>2. ZeroSecs \in Secs /\ ZeroTcs \in Tcs
  BY DEF ZeroSecs, Secs, ZeroTcs, Tcs
<1> QED
  BY <1>1, <1>2 DEF Init, encls_qemu_init, TypeOK, PageOrNone

(***************************************************************************)
(* Every instruction keeps the types, whatever its operands.               *)
(***************************************************************************)
LEMMA EnclsType == TypeOK /\ Encls => TypeOK'
<1> SUFFICES ASSUME TypeOK, NEW p \in Page,
                    \/ \E base \in Bases, size \in Sizes :
                         nextEid < MaxEid /\ ECREATE(p, base, size)
                    \/ \E s \in Page, d \in Displacements, perm \in Perms :
                         EADD(p, s, p + d, "REG", perm, ZeroTcs)
                    \/ \E s \in Page, d \in Displacements, src \in SrcTcs :
                         EADD(p, s, p + d, "TCS", {}, src)
                    \/ epcm[p].secs # NoPage /\ EEXTEND(p)
                    \/ \E verdict \in BOOLEAN : EINIT(p, verdict)
                    \/ \E s \in Page, d \in Displacements : EAUG(p, s, p + d)
                    \/ \E perm \in Perms : EMODPR(p, perm)
                    \/ EBLOCK(p)
             PROVE  TypeOK'
  BY DEF Encls
<1> USE PermsAssumption, SrcTcsAssumption, RangesAssumption
<1>e. epcm[p] \in EpcmEntry /\ secs[p] \in Secs /\ p \in Int
  BY NumEpcAssumption DEF TypeOK, Page
<1>1. ASSUME NEW base \in Bases, NEW size \in Sizes, ECREATE(p, base, size)
      PROVE  TypeOK'
  <2> DEFINE new == [eid |-> nextEid, base |-> base, size |-> size,
                     mrEnclave |-> <<[leaf |-> "ECREATE", off |-> size,
                                      pt |-> "SECS", perm |-> {}]>>]
  <2>1. new \in Secs
    BY DEF TypeOK, Secs, Update, PageType
  <2>2. set_epcm_entry(epcm[p], {}, "SECS", NoPage, 0) \in EpcmEntry
    <3>1. {} \in SUBSET Perm /\ "SECS" \in PageType /\ NoPage \in PageOrNone
      BY DEF PageType, PageOrNone
    <3> QED
      BY <1>e, <3>1, EntryType
  <2>3. secs' \in [Page -> Secs] /\ epcm' \in [Page -> EpcmEntry]
    BY <1>1, <2>1, <2>2 DEF TypeOK, ECREATE
  <2> QED
    BY <1>1, <2>3 DEF TypeOK, ECREATE, cpuVars
<1>2. ASSUME NEW s \in Page, NEW d \in Displacements, NEW pt \in {"REG", "TCS"},
             NEW perm \in SUBSET Perm, NEW src \in Tcs,
             EADD(p, s, p + d, pt, perm, src)
      PROVE  TypeOK'
  <2>a. p + d \in Int
    BY <1>e
  <2>b. secs[s].base \in Int
    BY DEF TypeOK, Secs
  <2>1. EaddPerm(pt, perm) \in SUBSET Perm
    BY DEF EaddPerm, Perm
  <2>2. set_epcm_entry(epcm[p], EaddPerm(pt, perm), pt, s, p + d) \in EpcmEntry
    <3>1. pt \in PageType /\ s \in PageOrNone
      BY DEF PageType, PageOrNone
    <3> QED
      BY <1>e, <2>a, <2>1, <3>1, EntryType
  <2>3. epcm' \in [Page -> EpcmEntry]
    BY <1>2, <2>2 DEF TypeOK, EADD
  <2>4. [leaf |-> "EADD", off |-> (p + d) - secs[s].base,
         pt |-> pt, perm |-> EaddPerm(pt, perm)] \in Update
    BY <2>a, <2>b, <2>1 DEF Update, PageType
  <2>5. secs' \in [Page -> Secs]
    BY <1>2, <2>4, MeasuredType, Types DEF EADD, PageOrNone
  <2> QED
    BY <1>2, <2>3, <2>5 DEF TypeOK, EADD, eidVars, cpuVars
<1>3. ASSUME epcm[p].secs # NoPage, EEXTEND(p)
      PROVE  TypeOK'
  <2>1. epcm[p].secs \in Page /\ epcm[p].pt \in PageType
    BY <1>e, <1>3 DEF EpcmEntry, PageOrNone
  <2>2. [leaf |-> "EEXTEND", off |-> p - secs[epcm[p].secs].base,
         pt |-> epcm[p].pt, perm |-> {}] \in Update
    <3>1. secs[epcm[p].secs].base \in Int
      BY <2>1 DEF TypeOK, Secs
    <3> QED
      BY <1>e, <2>1, <3>1 DEF Update
  <2>3. secs' \in [Page -> Secs]
    BY <1>3, <2>1, <2>2, MeasuredType, Types DEF EEXTEND, PageOrNone
  <2> QED
    BY <1>3, <2>3 DEF TypeOK, EEXTEND, eidVars, cpuVars
<1>4. ASSUME NEW verdict \in BOOLEAN, EINIT(p, verdict)
      PROVE  TypeOK'
  <2>1. [leaf |-> "FINAL", off |-> 0, pt |-> "SECS", perm |-> {}] \in Update
    BY DEF Update, PageType
  <2>2. secs' \in [Page -> Secs]
    BY <1>4, <2>1, MeasuredType, Types DEF EINIT, PageOrNone
  <2>3. entryEid' \subseteq Nat
    BY <1>e, <1>4 DEF TypeOK, EINIT, Secs
  <2> QED
    BY <1>4, <2>2, <2>3 DEF TypeOK, EINIT, cpuVars
<1>5. ASSUME NEW s \in Page, NEW d \in Displacements, EAUG(p, s, p + d)
      PROVE  TypeOK'
  <2> DEFINE new == set_epcm_entry(epcm[p], {"r", "w"}, "REG", s, p + d)
  <2>1. new \in EpcmEntry
    <3>1. {"r", "w"} \in SUBSET Perm /\ "REG" \in PageType /\ s \in PageOrNone
      BY DEF PageType, PageOrNone, Perm
    <3>2. p + d \in Int
      BY <1>e
    <3> QED
      BY <1>e, <3>1, <3>2, EntryType
  <2> HIDE DEF new
  <2>2. [new EXCEPT !.pending = TRUE, !.modified = FALSE] \in EpcmEntry
    BY <2>1 DEF EpcmEntry
  <2>3. epcm' = [epcm EXCEPT ![p] = [new EXCEPT !.pending = TRUE, !.modified = FALSE]]
    BY <1>5 DEF EAUG, new
  <2> QED
    BY <1>5, <2>2, <2>3 DEF TypeOK, EAUG, eidVars, cpuVars
<1>6. ASSUME NEW perm \in Perms, EMODPR(p, perm)
      PROVE  TypeOK'
  BY <1>e, <1>6 DEF TypeOK, EMODPR, EpcmEntry, eidVars, cpuVars
<1>7. ASSUME EBLOCK(p)
      PROVE  TypeOK'
  BY <1>e, <1>7 DEF TypeOK, EBLOCK, EpcmEntry, eidVars, cpuVars
<1>z. ZeroTcs \in Tcs
  BY DEF ZeroTcs, Tcs
<1> QED
  BY <1>1, <1>2, <1>3, <1>4, <1>5, <1>6, <1>7, <1>z

(* The leaves the enclave issues keep the types as well.                   *)
LEMMA EncluType == TypeOK /\ Enclu => TypeOK'
<1> SUFFICES ASSUME TypeOK, Enclu PROVE TypeOK'
  OBVIOUS
<1> USE PermsAssumption
<1>1. ASSUME NEW p \in Page, NEW q \in Page, NEW pending \in BOOLEAN,
             NEW perm \in Perms, EACCEPT(p, q, pending, perm)
      PROVE  TypeOK'
  <2> DEFINE new == [epcm[p] EXCEPT !.pending = FALSE, !.modified = FALSE]
  <2>e. epcm[p] \in EpcmEntry
    BY DEF TypeOK
  <2>1. new \in EpcmEntry
    BY <2>e DEF EpcmEntry
  <2>2. epcm' = [epcm EXCEPT ![p] = new]
    BY <1>1 DEF TypeOK, EACCEPT
  <2> QED
    BY <1>1, <2>1, <2>2 DEF TypeOK, EACCEPT, eidVars, cpuVars
<1>2. ASSUME NEW p \in Page, NEW q \in Page, NEW perm \in Perms,
             NEW atStart \in BOOLEAN, EMODPE(p, q, perm, atStart)
      PROVE  TypeOK'
  <2> DEFINE new == [epcm[p] EXCEPT !.perm = @ \cup perm, !.pending = epcm[p].pending]
  <2>1. epcm[p] \in EpcmEntry /\ epcm[p].pending \in BOOLEAN
    BY DEF TypeOK, EpcmEntry
  <2>2. new \in EpcmEntry
    BY <2>1, WidenType
  <2>3. epcm' = [epcm EXCEPT ![p] = new]
    BY <1>2, <2>1 DEF EMODPE, EpcmEntry
  <2> QED
    BY <1>2, <2>2, <2>3 DEF TypeOK, EMODPE, eidVars, cpuVars
<1>3. ASSUME NEW p \in Page, NEW q \in Page, NEW src \in Page, NEW perm \in Perms,
             NEW atStart \in BOOLEAN, EACCEPTCOPY(p, q, src, perm, atStart)
      PROVE  TypeOK'
  <2> DEFINE new == [epcm[p] EXCEPT !.perm = @ \cup perm, !.pending = FALSE]
  <2>1. new \in EpcmEntry
    BY WidenType DEF TypeOK
  <2>2. epcm' = [epcm EXCEPT ![p] = new]
    BY <1>3 DEF TypeOK, EACCEPTCOPY
  <2> QED
    BY <1>3, <2>1, <2>2 DEF TypeOK, EACCEPTCOPY, eidVars, cpuVars
<1>4. ASSUME NEW t \in Page, EENTER(t)
      PROVE  TypeOK'
  <2>1. FramePage(t, tcs[t].cssa) \in Page
    BY <1>4 DEF EENTER, FrameOK
  <2> QED
    BY <1>4, <2>1, EnterType DEF TypeOK, EENTER, pageVars, eidVars
<1>5. ASSUME NEW t \in Page, ERESUME(t)
      PROVE  TypeOK'
  <2>1. FramePage(t, tcs[t].cssa - 1) \in Page
    BY <1>5 DEF ERESUME, FrameOK
  <2>2. tcs' \in [Page -> Tcs]
    <3>1. tcs[t] \in Tcs /\ tcs[t].cssa \in Nat /\ tcs[t].cssa # 0
      BY <1>5 DEF TypeOK, ERESUME, Tcs
    <3>2. [tcs[t] EXCEPT !.cssa = @ - 1] \in Tcs
      BY <3>1 DEF Tcs
    <3>3. tcs' = [tcs EXCEPT ![t] = [tcs[t] EXCEPT !.cssa = @ - 1]]
      BY <1>5 DEF ERESUME
    <3> QED
      BY <3>2, <3>3 DEF TypeOK
  <2> QED
    BY <1>5, <2>1, <2>2, EnterType DEF TypeOK, ERESUME, eidVars
<1>6. ASSUME NEW toTrampoline \in BOOLEAN, EEXIT(toTrampoline)
      PROVE  TypeOK'
  BY <1>6, FrameUsedType DEF TypeOK, EEXIT, eidVars
<1>7. ASSUME helper_sgx_ehandle PROVE TypeOK'
  BY <1>7, FrameUsedType DEF TypeOK, helper_sgx_ehandle, eidVars, cpuVars
<1> QED
  BY <1>1, <1>2, <1>3, <1>4, <1>5, <1>6, <1>7 DEF Enclu

(* Types are kept by every step, stuttering included.                      *)
LEMMA InductiveType == TypeOK /\ [Next]_vars => TypeOK'
<1>1. TypeOK /\ UNCHANGED vars => TypeOK'
  BY DEF TypeOK, vars, sgxVars, pageVars, eidVars, cpuVars
<1> QED
  BY <1>1, EnclsType, EncluType DEF Next

(***************************************************************************)
(* The EPCM, the SECS and TCS pages and the control registers keep their   *)
(* types in every behaviour of the emulator; in particular TCS.cssa, which *)
(* EEXIT and ERESUME count up and down, never goes below zero.             *)
(***************************************************************************)
THEOREM TypeCorrect == Spec => []TypeOK
BY InitType, InductiveType, PTL DEF Spec

-----------------------------------------------------------------------------
(***************************************************************************)
(* What one step can do to one page.  The safety invariants follow from    *)
(* these five cases without a further look at the instructions.            *)
(***************************************************************************)
Same(p) == epcm'[p] = epcm[p] /\ secs'[p].eid = secs[p].eid
           /\ secs'[p].base = secs[p].base /\ secs'[p].size = secs[p].size

Kept(p) ==
  /\ epcm[p].valid /\ epcm'[p].valid
  /\ epcm'[p].pt = epcm[p].pt
  /\ epcm'[p].secs = epcm[p].secs
  /\ epcm'[p].addr = epcm[p].addr
  /\ epcm'[p].pending => epcm[p].pending /\ epcm'[p].perm = epcm[p].perm
  /\ epcm'[p].perm \subseteq epcm[p].perm \/ activeSecs = epcm[p].secs
  /\ secs'[p].eid = secs[p].eid
  /\ secs'[p].base = secs[p].base
  /\ secs'[p].size = secs[p].size

Created(p) ==
  /\ ~epcm[p].valid /\ epcm'[p].valid
  /\ epcm'[p].pt = "SECS"
  /\ epcm'[p].pending = epcm[p].pending
  /\ secs'[p].eid = nextEid
  /\ nextEid' = nextEid + 1
  /\ \A r \in Page : r # p => Same(r)

Added(p) ==
  /\ ~epcm[p].valid /\ epcm'[p].valid
  /\ epcm'[p].pt \in {"TCS", "REG"}
  /\ epcm'[p].secs \in Page /\ IsSecs(epcm'[p].secs)
  /\ \/ epcm'[p].pending = epcm[p].pending
     \/ /\ epcm'[p].pt = "REG"
        /\ epcm'[p].perm = {"r", "w"}
        /\ checkEINIT(secs[epcm'[p].secs].eid)
        /\ InElrange(epcm'[p].secs, epcm'[p].addr)

Effect(p) == Same(p) \/ Kept(p) \/ Created(p) \/ Added(p)

(* The eids change only where ECREATE and EINIT change them.               *)
EidEffect ==
  /\ nextEid' \in {nextEid, nextEid + 1}
  /\ entryEid \subseteq entryEid'
  /\ \A e \in entryEid' \ entryEid : \E s \in Page : IsSecs(s) /\ secs[s].eid = e

(* The registers of the running enclave change only when it is entered.    *)
CpuEffect ==
  \/ enclaveMode' => enclaveMode /\ activeSecs' = activeSecs /\ gprPage' = gprPage
  \/ /\ gprPage' \in Page
     /\ epcm[gprPage'].valid /\ epcm[gprPage'].pt = "REG"
     /\ epcm[gprPage'].secs = activeSecs'

StepEffect == (\A r \in Page : Effect(r)) /\ EidEffect /\ CpuEffect

(* Every ENCLS leaf has one of the effects above on every page.            *)
LEMMA EnclsEffect == TypeOK /\ Encls => StepEffect
<1> SUFFICES ASSUME TypeOK, NEW p \in Page,
                    \/ \E base \in Bases, size \in Sizes :
                         nextEid < MaxEid /\ ECREATE(p, base, size)
                    \/ \E s \in Page, d \in Displacements, perm \in Perms :
                         EADD(p, s, p + d, "REG", perm, ZeroTcs)
                    \/ \E s \in Page, d \in Displacements, src \in SrcTcs :
                         EADD(p, s, p + d, "TCS", {}, src)
                    \/ epcm[p].secs # NoPage /\ EEXTEND(p)
                    \/ \E verdict \in BOOLEAN : EINIT(p, verdict)
                    \/ \E s \in Page, d \in Displacements : EAUG(p, s, p + d)
                    \/ \E perm \in Perms : EMODPR(p, perm)
                    \/ EBLOCK(p)
             PROVE  StepEffect
  BY DEF Encls
<1>t. epcm \in [Page -> EpcmEntry] /\ secs \in [Page -> Secs] /\ nextEid \in Nat
  BY DEF TypeOK
<1>1. ASSUME NEW base, NEW size, ECREATE(p, base, size)
      PROVE  StepEffect
  <2>1. ASSUME NEW r \in Page, r # p PROVE Same(r)
    BY <1>1, <1>t, <2>1 DEF ECREATE, Same
  <2>2. Created(p)
    BY <1>1, <1>t, <2>1 DEF ECREATE, EcreateOK, Created, set_epcm_entry, EpcmEntry
  <2> QED
    BY <1>1, <1>t, <2>1, <2>2
       DEF StepEffect, Effect, EidEffect, CpuEffect, ECREATE, cpuVars
<1>2. ASSUME NEW s \in Page, NEW lin, NEW pt \in {"REG", "TCS"}, NEW perm, NEW src,
             EADD(p, s, lin, pt, perm, src)
      PROVE  StepEffect
  <2>1. ASSUME NEW r \in Page, r # p PROVE Same(r)
    BY <1>2, <1>t, <2>1, MeasuredKeeps, Types DEF EADD, Same
  <2>2. Added(p)
    BY <1>2, <1>t DEF EADD, EaddOK, Added, set_epcm_entry, EpcmEntry
  <2> QED
    BY <1>2, <1>t, <2>1, <2>2
       DEF StepEffect, Effect, EidEffect, CpuEffect, EADD, eidVars, cpuVars
<1>3. ASSUME EEXTEND(p)
      PROVE  StepEffect
  <2>1. ASSUME NEW r \in Page PROVE Same(r)
    BY <1>3, <2>1, MeasuredKeeps, Types DEF EEXTEND, Same
  <2> QED
    BY <1>3, <2>1
       DEF StepEffect, Effect, EidEffect, CpuEffect, EEXTEND, eidVars, cpuVars
<1>4. ASSUME NEW verdict, EINIT(p, verdict)
      PROVE  StepEffect
  <2>1. ASSUME NEW r \in Page PROVE Same(r)
    BY <1>4, <2>1, MeasuredKeeps, Types DEF EINIT, Same
  <2> QED
    BY <1>4, <2>1 DEF StepEffect, Effect, EidEffect, CpuEffect, EINIT, cpuVars
<1>5. ASSUME NEW s \in Page, NEW lin, EAUG(p, s, lin)
      PROVE  StepEffect
  <2>1. ASSUME NEW r \in Page, r # p PROVE Same(r)
    BY <1>5, <1>t, <2>1 DEF EAUG, Same
  <2>2. Added(p)
    BY <1>5, <1>t DEF EAUG, EaugOK, Added, set_epcm_entry, EpcmEntry
  <2> QED
    BY <1>5, <2>1, <2>2
       DEF StepEffect, Effect, EidEffect, CpuEffect, EAUG, eidVars, cpuVars
<1>6. ASSUME NEW perm, EMODPR(p, perm)
      PROVE  StepEffect
  <2>1. ASSUME NEW r \in Page, r # p PROVE Same(r)
    BY <1>6, <1>t, <2>1 DEF EMODPR, Same
  <2>2. Kept(p)
    BY <1>6, <1>t DEF EMODPR, Kept, EpcmEntry
  <2> QED
    BY <1>6, <2>1, <2>2
       DEF StepEffect, Effect, EidEffect, CpuEffect, EMODPR, eidVars, cpuVars
<1>7. ASSUME EBLOCK(p)
      PROVE  StepEffect
  <2>1. ASSUME NEW r \in Page, r # p PROVE Same(r)
    BY <1>7, <1>t, <2>1 DEF EBLOCK, Same
  <2>2. Kept(p)
    BY <1>7, <1>t DEF EBLOCK, Kept, EpcmEntry
  <2> QED
    BY <1>7, <2>1, <2>2
       DEF StepEffect, Effect, EidEffect, CpuEffect, EBLOCK, eidVars, cpuVars
<1> QED
  BY <1>1, <1>2, <1>3, <1>4, <1>5, <1>6, <1>7

(* So has every ENCLU leaf.                                                *)
LEMMA EncluEffect == TypeOK /\ Enclu => StepEffect
<1> SUFFICES ASSUME TypeOK, Enclu PROVE StepEffect
  OBVIOUS
<1>t. epcm \in [Page -> EpcmEntry] /\ secs \in [Page -> Secs]
  BY DEF TypeOK
<1>1. ASSUME NEW p \in Page, NEW q, NEW pending, NEW perm,
             EACCEPT(p, q, pending, perm)
      PROVE  StepEffect
  <2>1. ASSUME NEW r \in Page, r # p PROVE Same(r)
    BY <1>1, <1>t, <2>1 DEF EACCEPT, Same
  <2>2. Kept(p)
    BY <1>1, <1>t DEF EACCEPT, EacceptOK, Kept, EpcmEntry
  <2> QED
    BY <1>1, <2>1, <2>2
       DEF StepEffect, Effect, EidEffect, CpuEffect, EACCEPT, eidVars, cpuVars
<1>2. ASSUME NEW p \in Page, NEW q, NEW perm, NEW atStart,
             EMODPE(p, q, perm, atStart)
      PROVE  StepEffect
  <2>1. ASSUME NEW r \in Page, r # p PROVE Same(r)
    BY <1>2, <1>t, <2>1 DEF EMODPE, Same
  <2>2. Kept(p)
    BY <1>2, <1>t DEF EMODPE, Kept, EpcmEntry
  <2> QED
    BY <1>2, <2>1, <2>2
       DEF StepEffect, Effect, EidEffect, CpuEffect, EMODPE, eidVars, cpuVars
<1>3. ASSUME NEW p \in Page, NEW q, NEW src, NEW perm, NEW atStart,
             EACCEPTCOPY(p, q, src, perm, atStart)
      PROVE  StepEffect
  <2>1. ASSUME NEW r \in Page, r # p PROVE Same(r)
    BY <1>3, <1>t, <2>1 DEF EACCEPTCOPY, Same
  <2>2. Kept(p)
    BY <1>3, <1>t DEF EACCEPTCOPY, Kept, EpcmEntry
  <2> QED
    BY <1>3, <2>1, <2>2
       DEF StepEffect, Effect, EidEffect, CpuEffect, EACCEPTCOPY, eidVars, cpuVars
<1>4. ASSUME NEW t \in Page, EENTER(t)
      PROVE  StepEffect
  <2>1. CpuEffect
    BY <1>4 DEF EENTER, FrameOK, EnterEnclave, CpuEffect
  <2> QED
    BY <1>4, <2>1 DEF StepEffect, Effect, Same, EidEffect, EENTER, pageVars, eidVars
<1>5. ASSUME NEW t \in Page, ERESUME(t)
      PROVE  StepEffect
  <2>1. CpuEffect
    BY <1>5 DEF ERESUME, FrameOK, EnterEnclave, CpuEffect
  <2> QED
    BY <1>5, <2>1 DEF StepEffect, Effect, Same, EidEffect, ERESUME, eidVars
<1>6. ASSUME NEW toTrampoline, EEXIT(toTrampoline)
      PROVE  StepEffect
  BY <1>6 DEF StepEffect, Effect, Same, EidEffect, CpuEffect, EEXIT, eidVars
<1>7. ASSUME helper_sgx_ehandle PROVE StepEffect
  BY <1>7 DEF StepEffect, Effect, Same, EidEffect, CpuEffect, helper_sgx_ehandle,
              eidVars, cpuVars
<1> QED
  BY <1>1, <1>2, <1>3, <1>4, <1>5, <1>6, <1>7 DEF Enclu

(* Every step has one of the effects, stuttering included.                 *)
LEMMA NextEffect == TypeOK /\ [Next]_vars => StepEffect
<1>1. UNCHANGED vars => StepEffect
  BY DEF StepEffect, Effect, Same, EidEffect, CpuEffect, vars, sgxVars,
         pageVars, eidVars, cpuVars
<1> QED
  BY <1>1, EnclsEffect, EncluEffect DEF Next

(* A SECS in use stays what it is.                                         *)
LEMMA SecsKept ==
  ASSUME StepEffect, NEW s \in Page, IsSecs(s)
  PROVE  /\ IsSecs(s)'
         /\ secs'[s].eid = secs[s].eid
         /\ secs'[s].base = secs[s].base
         /\ secs'[s].size = secs[s].size
BY DEF StepEffect, Effect, Same, Kept, Created, Added, IsSecs

-----------------------------------------------------------------------------
(***************************************************************************)
(* The inductive invariant.  OwnedBySecs makes enclave_secs of a page a    *)
(* page whose SECS the steps keep; InvalidNotPending is needed because     *)
(* set_epcm_entry does not reset the pending flag of the entry it reuses.  *)
(***************************************************************************)
IInv ==
  /\ TypeOK
  /\ OwnedBySecs
  /\ EidsUnique
  /\ InvalidNotPending
  /\ PendingIsAugmented
  /\ SaveAreaInEnclave

(* The invariant holds when the emulator has been initialised.             *)
LEMMA InitIInv == Init => IInv
<1> SUFFICES ASSUME Init PROVE IInv
  OBVIOUS
<1>1. TypeOK
  BY InitType
<1>2. \A p \in Page : ~epcm[p].valid /\ ~epcm[p].pending
  BY DEF Init, encls_qemu_init, ZeroEntry
<1> QED
  BY <1>1, <1>2 DEF IInv, OwnedBySecs, EnclavePages, EidsUnique, IsSecs,
     InvalidNotPending, PendingIsAugmented, SaveAreaInEnclave, Init, encls_qemu_init

(* Every step of the emulator preserves it.                                *)
LEMMA NextIInv == IInv /\ [Next]_vars => IInv'
<1> SUFFICES ASSUME IInv, [Next]_vars PROVE IInv'
  OBVIOUS
<1>e. StepEffect
  BY NextEffect DEF IInv
<1>t. TypeOK'
  BY InductiveType DEF IInv
<1>1. OwnedBySecs'
  <2> SUFFICES ASSUME NEW p \in Page, epcm'[p].valid, epcm'[p].pt \in {"TCS", "REG"}
               PROVE  (epcm[p].secs \in Page /\ IsSecs(epcm[p].secs))'
    BY DEF OwnedBySecs, EnclavePages, IsSecs
  <2>1. epcm'[p].secs \in Page /\ IsSecs(epcm'[p].secs)
    BY <1>e DEF StepEffect, Effect, Same, Kept, Created, Added, IInv, OwnedBySecs, EnclavePages
  <2> QED
    BY <1>e, <2>1, SecsKept
<1>2. EidsUnique'
  <2>n. nextEid \in Nat /\ nextEid' \in Nat /\ nextEid <= nextEid'
    BY <1>e DEF StepEffect, EidEffect, IInv, TypeOK
  <2>f. \A s \in Page : secs[s].eid \in Nat /\ secs'[s].eid \in Nat
    BY <1>t DEF IInv, TypeOK, Secs
  <2>1. ASSUME NEW s \in Page, IsSecs(s)'
        PROVE  \/ IsSecs(s) /\ secs'[s].eid = secs[s].eid
               \/ Created(s)
    BY <1>e, <2>1 DEF StepEffect, Effect, Same, Kept, Added, IsSecs
  <2>2. ASSUME NEW s \in Page, IsSecs(s)' PROVE secs'[s].eid < nextEid'
    BY <2>1, <2>2, <2>n, <2>f DEF IInv, EidsUnique, Created
  <2>3. ASSUME NEW s \in Page, NEW t \in Page, IsSecs(s)', IsSecs(t)',
               secs'[s].eid = secs'[t].eid
        PROVE  s = t
    <3>1. CASE Created(s) /\ s # t
      <4>1. IsSecs(t) /\ secs'[t].eid = secs[t].eid
        BY <2>3, <3>1 DEF Created, Same, IsSecs
      <4>2. secs[t].eid < nextEid /\ secs[t].eid = nextEid
        BY <2>3, <3>1, <4>1 DEF Created, IInv, EidsUnique
      <4> QED
        BY <2>n, <4>2
    <3>2. CASE Created(t) /\ s # t
      <4>1. IsSecs(s) /\ secs'[s].eid = secs[s].eid
        BY <2>3, <3>2 DEF Created, Same, IsSecs
      <4>2. secs[s].eid < nextEid /\ secs[s].eid = nextEid
        BY <2>3, <3>2, <4>1 DEF Created, IInv, EidsUnique
      <4> QED
        BY <2>n, <4>2
    <3> QED
      BY <2>1, <2>3, <3>1, <3>2 DEF IInv, EidsUnique
  <2>4. ASSUME NEW e \in entryEid' PROVE e < nextEid'
    <3>1. e \in Nat /\ e < nextEid
      BY <1>e, <1>t, <2>4 DEF StepEffect, EidEffect, IInv, EidsUnique, TypeOK
    <3> QED
      BY <3>1, <2>n
  <2> QED
    BY <2>2, <2>3, <2>4 DEF EidsUnique
<1>3. InvalidNotPending'
  BY <1>e DEF StepEffect, Effect, Same, Kept, Created, Added, IInv, InvalidNotPending
<1>4. PendingIsAugmented'
  <2> SUFFICES ASSUME NEW p \in Page, epcm'[p].valid, epcm'[p].pending
               PROVE  /\ epcm'[p].pt = "REG"
                      /\ epcm'[p].perm = {"r", "w"}
                      /\ checkEINIT(secs[epcm[p].secs].eid)'
                      /\ InElrange(epcm[p].secs, epcm[p].addr)'
    BY DEF PendingIsAugmented
  <2>1. /\ epcm'[p].pt = "REG"
        /\ epcm'[p].perm = {"r", "w"}
        /\ epcm'[p].secs \in Page /\ IsSecs(epcm'[p].secs)
        /\ checkEINIT(secs[epcm'[p].secs].eid)
        /\ InElrange(epcm'[p].secs, epcm'[p].addr)
    <3>1. CASE Same(p)
      BY <3>1 DEF Same, IInv, PendingIsAugmented, OwnedBySecs, EnclavePages, InvalidNotPending
    <3>2. CASE Kept(p)
      BY <3>2 DEF Kept, IInv, PendingIsAugmented, OwnedBySecs, EnclavePages
    <3>3. CASE Created(p)
      BY <3>3 DEF Created, IInv, InvalidNotPending
    <3>4. CASE Added(p)
      BY <3>4 DEF Added, IInv, InvalidNotPending
    <3> QED
      BY <1>e, <3>1, <3>2, <3>3, <3>4 DEF StepEffect, Effect
  <2>2. checkEINIT(secs[epcm[p].secs].eid)'
    BY <1>e, <2>1, SecsKept DEF checkEINIT, StepEffect, EidEffect
  <2>3. InElrange(epcm[p].secs, epcm[p].addr)'
    BY <1>e, <2>1, SecsKept DEF InElrange
  <2> QED
    BY <2>1, <2>2, <2>3
<1>5. SaveAreaInEnclave'
  <2> SUFFICES ASSUME enclaveMode' PROVE SaveAreaInEnclave'
    BY DEF SaveAreaInEnclave
  <2>1. /\ gprPage' \in Page
        /\ epcm[gprPage'].valid /\ epcm[gprPage'].pt = "REG"
        /\ epcm[gprPage'].secs = activeSecs'
    BY <1>e DEF StepEffect, CpuEffect, IInv, SaveAreaInEnclave, EnclavePages
  <2>2. Same(gprPage') \/ Kept(gprPage')
    BY <1>e, <2>1 DEF StepEffect, Effect, Created, Added
  <2> QED
    BY <2>1, <2>2 DEF Same, Kept, SaveAreaInEnclave, EnclavePages
<1> QED
  BY <1>t, <1>1, <1>2, <1>3, <1>4, <1>5 DEF IInv

(* The inductive invariant holds in every behaviour.                       *)
THEOREM Invariance == Spec => []IInv
BY InitIInv, NextIInv, PTL DEF Spec

(***************************************************************************)
(* A TCS or REG page always belongs to a page that is a valid SECS, so the *)
(* cast in get_secs_address is sound.                                      *)
(***************************************************************************)
THEOREM Ownership == Spec => []OwnedBySecs
<1>1. IInv => OwnedBySecs
  BY DEF IInv
<1> QED
  BY <1>1, Invariance, PTL

(***************************************************************************)
(* Enclaves have pairwise different eids, all below CR_NEXT_EID, so that   *)
(* checkEINIT never mistakes one enclave for another.                      *)
(***************************************************************************)
THEOREM EidUniqueness == Spec => []EidsUnique
<1>1. IInv => EidsUnique
  BY DEF IInv
<1> QED
  BY <1>1, Invariance, PTL

(***************************************************************************)
(* A page is pending only after an EAUG into the range of an initialised   *)
(* enclave, and is not executable while it waits.                          *)
(***************************************************************************)
THEOREM PendingPages == Spec => []PendingIsAugmented
<1>1. IInv => PendingIsAugmented
  BY DEF IInv
<1> QED
  BY <1>1, Invariance, PTL

(***************************************************************************)
(* The registers of a running enclave are saved into a page of its own.    *)
(***************************************************************************)
THEOREM SaveArea == Spec => []SaveAreaInEnclave
<1>1. IInv => SaveAreaInEnclave
  BY DEF IInv
<1> QED
  BY <1>1, Invariance, PTL

(***************************************************************************)
(* A page in use keeps its type, its enclave and its linear address.       *)
(***************************************************************************)
THEOREM PageIdentity == Spec => PageIdentityStable
<1>1. TypeOK /\ [Next]_vars =>
        [\A p \in Page : epcm[p].valid =>
           /\ epcm'[p].valid
           /\ epcm'[p].pt = epcm[p].pt
           /\ epcm'[p].secs = epcm[p].secs
           /\ epcm'[p].addr = epcm[p].addr]_vars
  BY NextEffect DEF StepEffect, Effect, Same, Kept, Created, Added
<1> QED
  BY <1>1, TypeCorrect, PTL DEF Spec, PageIdentityStable

(* No ENCLS leaf gives a page in use a permission it did not have.         *)
LEMMA EnclsRestricts ==
  ASSUME TypeOK, Encls, NEW r \in Page, epcm[r].valid
  PROVE  epcm'[r].perm \subseteq epcm[r].perm
<1>t. epcm \in [Page -> EpcmEntry]
  BY DEF TypeOK
<1>1. ASSUME NEW p \in Page, ~epcm[p].valid, NEW new, epcm' = [epcm EXCEPT ![p] = new]
      PROVE  epcm'[r] = epcm[r]
  BY <1>t, <1>1
<1>2. ASSUME NEW p \in Page, NEW base, NEW size, ECREATE(p, base, size)
      PROVE  epcm'[r] = epcm[r]
  BY <1>1, <1>2 DEF ECREATE, EcreateOK
<1>3. ASSUME NEW p \in Page, NEW s, NEW lin, NEW pt, NEW perm, NEW src,
             EADD(p, s, lin, pt, perm, src)
      PROVE  epcm'[r] = epcm[r]
  BY <1>1, <1>3 DEF EADD, EaddOK
<1>4. ASSUME NEW p \in Page, NEW s, NEW lin, EAUG(p, s, lin)
      PROVE  epcm'[r] = epcm[r]
  BY <1>1, <1>4 DEF EAUG, EaugOK
<1>5. ASSUME NEW p, NEW verdict, EEXTEND(p) \/ EINIT(p, verdict)
      PROVE  epcm'[r] = epcm[r]
  BY <1>5 DEF EEXTEND, EINIT
<1>6. ASSUME NEW p \in Page, NEW perm, EMODPR(p, perm)
      PROVE  epcm'[r].perm \subseteq epcm[r].perm
  BY <1>t, <1>6 DEF EMODPR, EpcmEntry
<1>7. ASSUME NEW p \in Page, EBLOCK(p)
      PROVE  epcm'[r].perm \subseteq epcm[r].perm
  BY <1>t, <1>7 DEF EBLOCK, EpcmEntry
<1> QED
  BY <1>2, <1>3, <1>4, <1>5, <1>6, <1>7 DEF Encls

(***************************************************************************)
(* The permissions of a page in use grow only in EMODPE and EACCEPTCOPY,   *)
(* for pages of the enclave entered last; no leaf of the operating system  *)
(* extends them, and a page that waits for EACCEPT does not grow.          *)
(***************************************************************************)
THEOREM PermissionExtension == Spec => PermissionsExtendedByOwner
<1>1. ASSUME TypeOK, Next, NEW p \in Page, Extended(p)
      PROVE  ~Encls /\ epcm[p].secs = activeSecs /\ ~epcm'[p].pending
  <2>1. ~Encls
    BY <1>1, EnclsRestricts DEF Extended
  <2>2. Kept(p)
    BY <1>1, NextEffect DEF StepEffect, Effect, Same, Created, Added, Extended
  <2> QED
    BY <1>1, <2>1, <2>2 DEF Kept, Extended
<1>2. TypeOK /\ [Next]_vars =>
        [\A p \in Page : Extended(p) =>
           /\ ~Encls
           /\ epcm[p].secs = activeSecs
           /\ ~epcm'[p].pending]_vars
  BY <1>1
<1> QED
  BY <1>2, TypeCorrect, PTL DEF Spec, PermissionsExtendedByOwner

-----------------------------------------------------------------------------
(***************************************************************************)
(* The measurement.  No instruction shortens or rewrites one, and the only *)
(* leaf that adds a page without adding an update, EAUG, wants the enclave *)
(* initialised.                                                            *)
(***************************************************************************)
Grows(s) ==
  \A i \in DOMAIN secs[s].mrEnclave :
    i \in DOMAIN secs'[s].mrEnclave /\ secs'[s].mrEnclave[i] = secs[s].mrEnclave[i]

(* Page p of the enclave of SECS s has its update of MRENCLAVE.            *)
MeasuredIn(p, s) ==
  \E i \in DOMAIN secs[s].mrEnclave :
    /\ secs[s].mrEnclave[i].leaf = "EADD"
    /\ secs[s].mrEnclave[i].off = epcm[p].addr - secs[s].base
    /\ secs[s].mrEnclave[i].pt = epcm[p].pt

MeasureEffect ==
  /\ \A s \in Page : IsSecs(s) => Grows(s)
  /\ \A p \in Page : ~epcm[p].valid /\ epcm'[p].valid /\ epcm'[p].pt # "SECS" =>
       checkEINIT(secs[epcm'[p].secs].eid) \/ MeasuredIn(p, epcm[p].secs)'

(* Appending an update keeps the earlier ones, and the new one is last.    *)
LEMMA MeasuredGrows ==
  ASSUME TypeOK, NEW s, NEW upd, secs' = Measured(s, upd), NEW r \in Page
  PROVE  /\ Grows(r)
         /\ r = s => \E i \in DOMAIN secs'[r].mrEnclave : secs'[r].mrEnclave[i] = upd
<1> DEFINE old == secs[r].mrEnclave
<1>1. secs[r] \in Secs /\ old \in Seq(Update)
  BY DEF TypeOK, Secs
<1>2. CASE r = s
  <2>1. secs'[r].mrEnclave = Append(old, upd)
    BY <1>1, <1>2 DEF Measured, TypeOK, Secs
  <2>2. /\ \A i \in DOMAIN old : i \in DOMAIN Append(old, upd) /\ Append(old, upd)[i] = old[i]
        /\ Len(old) + 1 \in DOMAIN Append(old, upd)
        /\ Append(old, upd)[Len(old) + 1] = upd
    BY <1>1
  <2> QED
    BY <2>1, <2>2 DEF Grows
<1>3. CASE r # s
  BY <1>3 DEF Measured, TypeOK, Grows
<1> QED
  BY <1>2, <1>3

(* A step that leaves the SECS pages and the validity of pages alone.      *)
LEMMA NothingMeasured ==
  ASSUME secs' = secs, \A p \in Page : epcm'[p].valid => epcm[p].valid
  PROVE  MeasureEffect
BY DEF MeasureEffect, Grows

(* Every instruction has that effect on the measurements.                  *)
LEMMA NextMeasure == TypeOK /\ Next => MeasureEffect
<1> SUFFICES ASSUME TypeOK, Next PROVE MeasureEffect
  OBVIOUS
<1>t. epcm \in [Page -> EpcmEntry] /\ secs \in [Page -> Secs]
  BY DEF TypeOK
<1>1. ASSUME NEW p \in Page, NEW base, NEW size, ECREATE(p, base, size)
      PROVE  MeasureEffect
  <2>1. \A r \in Page : r # p => epcm'[r] = epcm[r] /\ secs'[r] = secs[r]
    BY <1>1, <1>t DEF ECREATE
  <2>2. ~epcm[p].valid /\ epcm'[p].pt = "SECS"
    BY <1>1, <1>t DEF ECREATE, EcreateOK, set_epcm_entry, EpcmEntry
  <2> QED
    BY <2>1, <2>2 DEF MeasureEffect, Grows, IsSecs
<1>2. ASSUME NEW p \in Page, NEW s \in Page, NEW lin, NEW pt \in {"TCS", "REG"},
             NEW perm, NEW src, EADD(p, s, lin, pt, perm, src)
      PROVE  MeasureEffect
  <2>u. PICK upd : /\ secs' = Measured(s, upd)
                   /\ upd.leaf = "EADD" /\ upd.off = lin - secs[s].base /\ upd.pt = pt
    BY <1>2 DEF EADD
  <2>1. \A r \in Page : Grows(r)
    BY <2>u, MeasuredGrows
  <2>2. PICK i \in DOMAIN secs'[s].mrEnclave : secs'[s].mrEnclave[i] = upd
    BY <2>u, MeasuredGrows
  <2>3. secs'[s].base = secs[s].base
    BY <1>2, MeasuredKeeps, Types DEF EADD
  <2>4. \A r \in Page : r # p => epcm'[r] = epcm[r]
    BY <1>2, <1>t DEF EADD
  <2>5. epcm'[p].secs = s /\ epcm'[p].pt = pt /\ epcm'[p].addr = lin
    BY <1>2, <1>t DEF EADD, set_epcm_entry, EpcmEntry
  <2>6. MeasuredIn(p, epcm[p].secs)'
    BY <2>u, <2>2, <2>3, <2>5 DEF MeasuredIn
  <2> QED
    BY <2>1, <2>4, <2>6 DEF MeasureEffect
<1>3. ASSUME NEW p \in Page, EEXTEND(p)
      PROVE  MeasureEffect
  <2>1. \A r \in Page : Grows(r)
    BY <1>3, MeasuredGrows DEF EEXTEND
  <2> QED
    BY <1>3, <2>1 DEF MeasureEffect, EEXTEND
<1>4. ASSUME NEW s \in Page, NEW verdict, EINIT(s, verdict)
      PROVE  MeasureEffect
  <2>1. \A r \in Page : Grows(r)
    BY <1>4, MeasuredGrows DEF EINIT
  <2> QED
    BY <1>4, <2>1 DEF MeasureEffect, EINIT
<1>5. ASSUME NEW p \in Page, NEW s \in Page, NEW lin, EAUG(p, s, lin)
      PROVE  MeasureEffect
  <2>1. \A r \in Page : r # p => epcm'[r] = epcm[r]
    BY <1>5, <1>t DEF EAUG
  <2>2. epcm'[p].secs = s /\ checkEINIT(secs[s].eid) /\ secs' = secs
    BY <1>5, <1>t DEF EAUG, EaugOK, set_epcm_entry, EpcmEntry
  <2> QED
    BY <2>1, <2>2 DEF MeasureEffect, Grows
<1>6. ASSUME NEW p \in Page, NEW perm, EMODPR(p, perm) PROVE MeasureEffect
  BY <1>6, <1>t, NothingMeasured DEF EMODPR, EpcmEntry
<1>7. ASSUME NEW p \in Page, EBLOCK(p) PROVE MeasureEffect
  BY <1>7, <1>t, NothingMeasured DEF EBLOCK, EpcmEntry
<1>8. ASSUME NEW p \in Page, NEW q, NEW pending, NEW perm, EACCEPT(p, q, pending, perm)
      PROVE  MeasureEffect
  BY <1>8, <1>t, NothingMeasured DEF EACCEPT, EpcmEntry
<1>9. ASSUME NEW p \in Page, NEW q, NEW perm, NEW atStart, EMODPE(p, q, perm, atStart)
      PROVE  MeasureEffect
  BY <1>9, <1>t, NothingMeasured DEF EMODPE, EpcmEntry
<1>10. ASSUME NEW p \in Page, NEW q, NEW src, NEW perm, NEW atStart,
              EACCEPTCOPY(p, q, src, perm, atStart)
       PROVE  MeasureEffect
  BY <1>10, <1>t, NothingMeasured DEF EACCEPTCOPY, EpcmEntry
<1>11. ASSUME \/ \E t \in Page : EENTER(t) \/ ERESUME(t)
              \/ \E toTrampoline \in BOOLEAN : EEXIT(toTrampoline)
              \/ helper_sgx_ehandle
       PROVE  MeasureEffect
  BY <1>11, NothingMeasured DEF EENTER, ERESUME, EEXIT, helper_sgx_ehandle, pageVars
<1>12. ASSUME Encls PROVE MeasureEffect
  BY <1>12, <1>1, <1>2, <1>3, <1>4, <1>5, <1>6, <1>7 DEF Encls
<1>13. ASSUME Enclu PROVE MeasureEffect
  BY <1>13, <1>8, <1>9, <1>10, <1>11 DEF Enclu
<1> QED
  BY <1>12, <1>13 DEF Next

(* A page in use has its update as long as its enclave is not initialised. *)
LEMMA MeasuredInductive ==
  IInv /\ PagesMeasuredBeforeInit /\ [Next]_vars => PagesMeasuredBeforeInit'
<1> SUFFICES ASSUME IInv, PagesMeasuredBeforeInit, Next PROVE PagesMeasuredBeforeInit'
  BY DEF PagesMeasuredBeforeInit, EnclavePages, checkEINIT, vars, sgxVars, pageVars, eidVars
<1>e. StepEffect /\ MeasureEffect
  BY NextEffect, NextMeasure DEF IInv
<1> SUFFICES ASSUME NEW p \in Page, epcm'[p].valid, epcm'[p].pt \in {"TCS", "REG"},
                    ~checkEINIT(secs[epcm[p].secs].eid)'
             PROVE  MeasuredIn(p, epcm[p].secs)'
  BY DEF PagesMeasuredBeforeInit, EnclavePages, MeasuredIn
<1>1. CASE ~epcm[p].valid
  <2>1. IsSecs(epcm'[p].secs) /\ epcm'[p].secs \in Page
    BY <1>1, <1>e DEF StepEffect, Effect, Same, Kept, Created, Added
  <2>2. secs'[epcm'[p].secs].eid = secs[epcm'[p].secs].eid
    BY <2>1, <1>e, SecsKept
  <2>3. ~checkEINIT(secs[epcm'[p].secs].eid)
    BY <2>2, <1>e DEF checkEINIT, StepEffect, EidEffect
  <2> QED
    BY <1>1, <1>e, <2>3 DEF MeasureEffect
<1>2. CASE epcm[p].valid
  <2> DEFINE s == epcm[p].secs
  <2>1. epcm'[p].secs = s /\ epcm'[p].pt = epcm[p].pt /\ epcm'[p].addr = epcm[p].addr
    BY <1>2, <1>e DEF StepEffect, Effect, Same, Kept, Created, Added
  <2>2. s \in Page /\ IsSecs(s)
    BY <1>2, <2>1 DEF IInv, OwnedBySecs, EnclavePages
  <2>3. secs'[s].eid = secs[s].eid /\ secs'[s].base = secs[s].base
    BY <2>2, <1>e, SecsKept
  <2>4. ~checkEINIT(secs[s].eid)
    BY <2>1, <2>3, <1>e DEF checkEINIT, StepEffect, EidEffect
  <2>5. MeasuredIn(p, s)
    BY <1>2, <2>1, <2>4 DEF PagesMeasuredBeforeInit, EnclavePages, MeasuredIn
  <2>6. Grows(s)
    BY <2>2, <1>e DEF MeasureEffect
  <2> QED
    BY <2>1, <2>3, <2>5, <2>6 DEF MeasuredIn, Grows
<1> QED
  BY <1>1, <1>2

(***************************************************************************)
(* Until EINIT accepts an enclave nothing gets into it unmeasured: every   *)
(* TCS or REG page of it has its EADD update in MRENCLAVE, whatever leaves *)
(* were executed in whatever order.                                        *)
(***************************************************************************)
THEOREM NothingUnmeasured == Spec => []PagesMeasuredBeforeInit
<1>1. Init => PagesMeasuredBeforeInit
  BY DEF Init, encls_qemu_init, ZeroEntry, PagesMeasuredBeforeInit, EnclavePages
<1> QED
  BY <1>1, MeasuredInductive, Invariance, PTL DEF Spec

-----------------------------------------------------------------------------
(* The inductive invariant keeps the EPCM in the order EpcLife needs.      *)
LEMMA OrderIInv == IInv => EpcmOK
BY DEF IInv, TypeOK, OwnedBySecs, EnclavePages, EpcmOK, EpcmTypes, EpcmEntry, PageType

(* Every ENCLS leaf is a step of EpcLife or a stutter.                     *)
LEMMA EnclsLife == IInv /\ Encls => LifeStep
<1> SUFFICES ASSUME IInv, Encls PROVE LifeStep
  OBVIOUS
<1>t. TypeOK /\ epcm \in [Page -> EpcmEntry]
  BY DEF IInv, TypeOK
<1>i. EpcmOK
  BY OrderIInv
<1>1. ASSUME NEW p \in Page, EEXTEND(p) PROVE LifeStep
  BY <1>1, <1>i, ExtendStep
<1>2. ASSUME NEW p \in Page, NEW perm, EMODPR(p, perm) PROVE LifeStep
  BY <1>2, <1>t, <1>i, EntryStep DEF EMODPR, SameEntry, EpcmEntry
<1>3. ASSUME NEW p \in Page, EBLOCK(p) PROVE LifeStep
  BY <1>3, <1>t, <1>i, EntryStep DEF EBLOCK, SameEntry, EpcmEntry
<1> QED
  BY <1>i, <1>1, <1>2, <1>3, CreateStep, AddStep, AugmentStep, InitialiseStep DEF Encls

(* Every ENCLU leaf is an Accept or a stutter.                             *)
LEMMA EncluLife == IInv /\ Enclu => LifeStep
<1> SUFFICES ASSUME IInv, Enclu PROVE LifeStep
  OBVIOUS
<1>t. epcm \in [Page -> EpcmEntry]
  BY DEF IInv, TypeOK
<1>i. EpcmOK
  BY OrderIInv
<1>1. ASSUME NEW p \in Page, NEW q, NEW pending, NEW perm, EACCEPT(p, q, pending, perm)
      PROVE  LifeStep
  BY <1>1, <1>t, <1>i, EntryStep DEF EACCEPT, SameEntry, EpcmEntry
<1>2. ASSUME NEW p \in Page, NEW q, NEW perm, NEW atStart, EMODPE(p, q, perm, atStart)
      PROVE  LifeStep
  BY <1>2, <1>t, <1>i, EntryStep DEF EMODPE, SameEntry, EpcmEntry
<1>3. ASSUME NEW p \in Page, NEW q, NEW src, NEW perm, NEW atStart,
             EACCEPTCOPY(p, q, src, perm, atStart)
      PROVE  LifeStep
  BY <1>3, <1>t, <1>i, EntryStep DEF EACCEPTCOPY, SameEntry, EpcmEntry
<1>4. ASSUME NEW t, EENTER(t) PROVE LifeStep
  BY <1>4, <1>i, CpuStep DEF EENTER, pageVars
<1>5. ASSUME NEW t, ERESUME(t) PROVE LifeStep
  BY <1>5, <1>i, CpuStep DEF ERESUME
<1>6. ASSUME NEW toTrampoline, EEXIT(toTrampoline) PROVE LifeStep
  BY <1>6, <1>i, CpuStep DEF EEXIT
<1>7. ASSUME helper_sgx_ehandle PROVE LifeStep
  BY <1>7, <1>i, CpuStep DEF helper_sgx_ehandle
<1> QED
  BY <1>1, <1>2, <1>3, <1>4, <1>5, <1>6, <1>7 DEF Enclu

(***************************************************************************)
(* Whatever leaves the operating system and the enclaves issue, in         *)
(* whatever order and on whatever pages, the EPC behaves as EpcLife says:  *)
(* a page is taken once and keeps its owner, eids are given out in order,  *)
(* and an unmeasured page reaches an initialised enclave only.             *)
(***************************************************************************)
THEOREM Lifecycle == Spec => PagesLive
<1>1. IInv /\ [Next]_vars => [Life!LifeNext]_(Life!lifeVars)
  <2>1. IInv /\ Next => LifeStep
    BY EnclsLife, EncluLife DEF Next
  <2>2. IInv /\ UNCHANGED vars => LifeStep
    BY CpuStep, OrderIInv DEF vars, sgxVars, pageVars
  <2> QED
    BY <2>1, <2>2 DEF LifeStep
<1> QED
  BY <1>1, LifeInitial, Invariance, PTL DEF Spec, Init, PagesLive, Life!LifeSpec
=============================================================================
