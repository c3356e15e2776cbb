--------------------------- MODULE EpcLife_proofs ---------------------------
(***************************************************************************)
(* Each instruction of SgxEpcm, in a state in which the EPCM is in order,  *)
(* is a step of EpcLife.  The refinement mapping is the one of SgxEpcm:    *)
(* the owner of a page is the eid in its SECS.  Whoever issues the         *)
(* instructions (UntrustedOs, KernEnclave) has to show that the EPCM is    *)
(* always in order: without an owner's SECS in place a page would change   *)
(* hands when ECREATE writes a SECS, without InvalidNotPending EADD would  *)
(* make a page wait.                                                       *)
(***************************************************************************)
EXTENDS SgxEpcm, TLAPS

EpcmTypes == epcm \in [Page -> EpcmEntry] /\ secs \in [Page -> Secs]

InvalidNotPending == \A p \in Page : ~epcm[p].valid => ~epcm[p].pending

EpcmOK ==
  /\ EpcmTypes
  /\ \A p \in Page : epcm[p].valid /\ epcm[p].pt # "SECS" =>
       epcm[p].secs \in Page /\ IsSecs(epcm[p].secs)
  /\ InvalidNotPending

(* The record operators of SgxEpcm stay within their types.                *)
LEMMA EntryType ==
  ASSUME NEW e \in EpcmEntry, NEW perm \in SUBSET Perm, NEW pt \in PageType,
         NEW s \in PageOrNone, NEW lin \in Int
  PROVE  set_epcm_entry(e, perm, pt, s, lin) \in EpcmEntry
BY DEF set_epcm_entry, EpcmEntry

(* Changing the flags or the permissions of an EPCM entry keeps its type.  *)
LEMMA WidenType ==
  ASSUME NEW e \in EpcmEntry, NEW perm \in SUBSET Perm, NEW pending \in BOOLEAN
  PROVE  [e EXCEPT !.perm = @ \cup perm, !.pending = pending] \in EpcmEntry
<1>1. e.perm \cup perm \in SUBSET Perm
  BY DEF EpcmEntry
<1> QED
  BY <1>1 DEF EpcmEntry

(* Extending MRENCLAVE yields a SECS table again.                          *)
LEMMA MeasuredType ==
  ASSUME EpcmTypes, NEW s \in PageOrNone, NEW upd \in Update
  PROVE  Measured(s, upd) \in [Page -> Secs]
<1> DEFINE longer == Append(secs[s].mrEnclave, upd)
<1>1. CASE s \in Page
  <2>1. secs[s] \in Secs
    BY <1>1 DEF EpcmTypes
  <2>2. longer \in Seq(Update)
    BY <2>1 DEF Secs
  <2>3. [secs[s] EXCEPT !.mrEnclave = longer] \in Secs
    BY <2>1, <2>2 DEF Secs
  <2>4. Measured(s, upd) = [secs EXCEPT ![s] = [secs[s] EXCEPT !.mrEnclave = longer]]
    BY DEF Measured
  <2> QED
    BY <2>3, <2>4 DEF EpcmTypes
<1>2. CASE s \notin Page
  BY <1>2 DEF EpcmTypes, Measured
<1> QED
  BY <1>1, <1>2

(* Appending to a measurement leaves the rest of the SECS alone.           *)
LEMMA MeasuredKeeps ==
  ASSUME EpcmTypes, NEW s, NEW upd, secs' = Measured(s, upd), NEW r \in Page
  PROVE  /\ secs'[r].eid = secs[r].eid
         /\ secs'[r].base = secs[r].base
         /\ secs'[r].size = secs[r].size
BY DEF EpcmTypes, Measured, Secs

(* The part of an entry and of the SECS pages that says who owns a page.   *)
SameEntry(r) ==
  /\ epcm'[r].valid = epcm[r].valid
  /\ epcm'[r].pt = epcm[r].pt
  /\ epcm'[r].secs = epcm[r].secs

(* A page whose entry and whose SECS keep their identity keeps its owner.  *)
LEMMA OwnerKept ==
  ASSUME EpcmOK, NEW r \in Page, SameEntry(r),
         \A s \in Page : IsSecs(s) => secs'[s].eid = secs[s].eid
  PROVE  EidOfPage(r)' = EidOfPage(r)
<1>1. CASE ~epcm[r].valid
  BY <1>1 DEF EidOfPage, SameEntry
<1>2. CASE epcm[r].valid /\ epcm[r].pt = "SECS"
  BY <1>2 DEF EidOfPage, SameEntry, IsSecs
<1>3. CASE epcm[r].valid /\ epcm[r].pt # "SECS"
  <2>1. epcm[r].secs \in Page /\ IsSecs(epcm[r].secs)
    BY <1>3 DEF EpcmOK
  <2> QED
    BY <1>3, <2>1 DEF EidOfPage, SameEntry
<1> QED
  BY <1>1, <1>2, <1>3

(* When every entry keeps its identity nothing changes hands.              *)
LEMMA AllOwnersKept ==
  ASSUME EpcmOK, \A r \in Page : SameEntry(r),
         \A s \in Page : IsSecs(s) => secs'[s].eid = secs[s].eid
  PROVE  EpcOwner' = EpcOwner
<1>1. \A r \in Page : EidOfPage(r)' = EidOfPage(r)
  BY OwnerKept
<1> QED
  BY <1>1 DEF EpcOwner

(* A step that gives page p, free before, to the enclave e.                *)
LEMMA OwnerTaken ==
  ASSUME EpcmOK, NEW p \in Page, NEW e, ~epcm[p].valid, EidOfPage(p)' = e,
         \A r \in Page : r # p => SameEntry(r),
         \A s \in Page : IsSecs(s) => secs'[s].eid = secs[s].eid
  PROVE  Life!Take(p, e)
<1>1. \A r \in Page : r # p => EidOfPage(r)' = EidOfPage(r)
  BY OwnerKept
<1>2. EpcOwner' = [EpcOwner EXCEPT ![p] = e]
  BY <1>1 DEF EpcOwner
<1>3. EpcOwner[p] = NoEid
  BY DEF EpcOwner, EidOfPage
<1> QED
  BY <1>2, <1>3 DEF Life!Take

(* The owner of a SECS page is the enclave of that SECS.                   *)
LEMMA SecsIsEnclave ==
  ASSUME EpcmOK, NEW s \in Page, IsSecs(s)
  PROVE  secs[s].eid \in Life!Enclaves
<1>1. EpcOwner[s] = secs[s].eid
  BY DEF EpcOwner, EidOfPage, IsSecs
<1>2. secs[s].eid # NoEid
  BY DEF EpcmOK, EpcmTypes, Secs, NoEid
<1> QED
  BY <1>1, <1>2 DEF Life!Enclaves

LifeStep == [Life!LifeNext]_(Life!lifeVars)

(* A step of the abstract specification that is a stutter.                 *)
LEMMA Stutter ==
  ASSUME EpcOwner' = EpcOwner, WaitingPages' = WaitingPages, UNCHANGED eidVars
  PROVE  LifeStep
BY DEF LifeStep, Life!lifeVars, eidVars

(* ECREATE is Create.                                                      *)
LEMMA CreateStep ==
  ASSUME EpcmOK, NEW p \in Page, NEW base, NEW size, ECREATE(p, base, size)
  PROVE  LifeStep
<1>t. epcm \in [Page -> EpcmEntry] /\ secs \in [Page -> Secs]
  BY DEF EpcmOK, EpcmTypes
<1>1. \A r \in Page : r # p => epcm'[r] = epcm[r] /\ secs'[r] = secs[r]
  BY <1>t DEF ECREATE
<1>2. ~epcm[p].valid /\ ~epcm[p].pending
  BY DEF ECREATE, EcreateOK, EpcmOK, InvalidNotPending
<1>3. epcm'[p].valid /\ epcm'[p].pt = "SECS" /\ epcm'[p].pending = epcm[p].pending
  BY <1>t DEF ECREATE, set_epcm_entry, EpcmEntry
<1>4. secs'[p].eid = nextEid
  BY <1>t DEF ECREATE
<1>5. Life!Take(p, nextEid)
  <2>1. EidOfPage(p)' = nextEid
    BY <1>3, <1>4 DEF EidOfPage
  <2>2. \A r \in Page : r # p => SameEntry(r)
    BY <1>1 DEF SameEntry
  <2>3. \A s \in Page : IsSecs(s) => secs'[s].eid = secs[s].eid
    BY <1>1, <1>2 DEF IsSecs
  <2> QED
    BY <1>2, <2>1, <2>2, <2>3, OwnerTaken
<1>6. WaitingPages' = WaitingPages
  BY <1>1, <1>2, <1>3 DEF WaitingPages
<1>7. Life!Create(p)
  BY <1>5, <1>6 DEF Life!Create, ECREATE
<1> QED
  BY <1>7 DEF LifeStep, Life!LifeNext

(* EADD is Add.                                                            *)
LEMMA AddStep ==
  ASSUME EpcmOK, NEW p \in Page, NEW s \in Page, NEW lin, NEW pt \in {"TCS", "REG"},
         NEW perm, NEW src, EADD(p, s, lin, pt, perm, src)
  PROVE  LifeStep
<1>t. EpcmTypes /\ epcm \in [Page -> EpcmEntry]
  BY DEF EpcmOK, EpcmTypes
<1>1. \A r \in Page : r # p => epcm'[r] = epcm[r]
  BY <1>t DEF EADD
<1>2. ~epcm[p].valid /\ ~epcm[p].pending /\ IsSecs(s)
  BY DEF EADD, EaddOK, EpcmOK, InvalidNotPending
<1>3. /\ epcm'[p].valid /\ epcm'[p].pt = pt /\ epcm'[p].secs = s
      /\ epcm'[p].pending = epcm[p].pending
  BY <1>t DEF EADD, set_epcm_entry, EpcmEntry
<1>4. \A r \in Page : secs'[r].eid = secs[r].eid
  BY <1>t, MeasuredKeeps DEF EADD
<1>5. Life!Take(p, secs[s].eid)
  <2>1. EidOfPage(p)' = secs[s].eid
    BY <1>3, <1>4 DEF EidOfPage
  <2>2. \A r \in Page : r # p => SameEntry(r)
    BY <1>1 DEF SameEntry
  <2> QED
    BY <1>2, <1>4, <2>1, <2>2, OwnerTaken
<1>6. WaitingPages' = WaitingPages
  BY <1>1, <1>2, <1>3 DEF WaitingPages
<1>7. Life!Add(p, secs[s].eid)
  BY <1>5, <1>6 DEF Life!Add, EADD, eidVars
<1>8. secs[s].eid \in Life!Enclaves
  BY <1>2, SecsIsEnclave
<1> QED
  BY <1>7, <1>8 DEF LifeStep, Life!LifeNext

(* EAUG is Augment.                                                        *)
LEMMA AugmentStep ==
  ASSUME EpcmOK, NEW p \in Page, NEW s \in Page, NEW lin, EAUG(p, s, lin)
  PROVE  LifeStep
<1>t. epcm \in [Page -> EpcmEntry]
  BY DEF EpcmOK, EpcmTypes
<1>1. \A r \in Page : r # p => epcm'[r] = epcm[r]
  BY <1>t DEF EAUG
<1>2. ~epcm[p].valid /\ IsSecs(s) /\ secs[s].eid \in entryEid
  BY DEF EAUG, EaugOK, checkEINIT
<1>3. /\ epcm'[p].valid /\ epcm'[p].pt = "REG" /\ epcm'[p].secs = s
      /\ epcm'[p].pending
  BY <1>t DEF EAUG, set_epcm_entry, EpcmEntry
<1>4. Life!Take(p, secs[s].eid)
  <2>1. EidOfPage(p)' = secs[s].eid
    BY <1>3 DEF EidOfPage, EAUG
  <2>2. \A r \in Page : r # p => SameEntry(r)
    BY <1>1 DEF SameEntry
  <2>3. secs' = secs
    BY DEF EAUG
  <2> QED
    BY <1>2, <2>1, <2>2, <2>3, OwnerTaken
<1>5. WaitingPages' = WaitingPages \cup {p}
  BY <1>1, <1>3 DEF WaitingPages
<1>6. Life!Augment(p, secs[s].eid)
  BY <1>2, <1>4, <1>5 DEF Life!Augment, EAUG, eidVars
<1>7. secs[s].eid \in Life!Enclaves
  BY <1>2, SecsIsEnclave
<1> QED
  BY <1>6, <1>7 DEF LifeStep, Life!LifeNext

(* EINIT is Initialise.                                                    *)
LEMMA InitialiseStep ==
  ASSUME EpcmOK, NEW s \in Page, NEW verdict, EINIT(s, verdict)
  PROVE  LifeStep
<1>1. \A r \in Page : secs'[r].eid = secs[r].eid
  BY MeasuredKeeps DEF EINIT, EpcmOK
<1>2. EpcOwner' = EpcOwner
  BY <1>1, AllOwnersKept DEF EINIT, SameEntry
<1>3. WaitingPages' = WaitingPages
  BY DEF EINIT, WaitingPages
<1>4. Life!Initialise(secs[s].eid)
  BY <1>2, <1>3 DEF EINIT, Life!Initialise
<1>5. secs[s].eid \in Life!Enclaves
  BY SecsIsEnclave DEF EINIT
<1> QED
  BY <1>4, <1>5 DEF LifeStep, Life!LifeNext

(* A leaf that changes one entry, and of what EpcLife sees at most the     *)
(* pending flag, and that only to clear it, is Accept or a stutter.        *)
LEMMA EntryStep ==
  ASSUME EpcmOK, NEW p \in Page, UNCHANGED <<secs, eidVars>>, SameEntry(p),
         \A r \in Page : r # p => epcm'[r] = epcm[r],
         epcm'[p].pending \in {FALSE, epcm[p].pending}
  PROVE  LifeStep
<1>1. EpcOwner' = EpcOwner
  BY AllOwnersKept DEF SameEntry
<1>2. CASE WaitingPages' = WaitingPages
  BY <1>1, <1>2, Stutter
<1>3. CASE WaitingPages' # WaitingPages
  <2>1. p \in WaitingPages /\ WaitingPages' = WaitingPages \ {p}
    BY <1>3 DEF WaitingPages, SameEntry
  <2>2. Life!Accept(p)
    BY <1>1, <2>1 DEF Life!Accept, eidVars
  <2> QED
    BY <2>2 DEF LifeStep, Life!LifeNext
<1> QED
  BY <1>2, <1>3

(* A step that leaves the EPCM, the SECS pages and the eids alone.         *)
LEMMA CpuStep ==
  ASSUME EpcmOK, UNCHANGED <<epcm, secs, eidVars>>
  PROVE  LifeStep
<1>1. EpcOwner' = EpcOwner
  BY AllOwnersKept DEF SameEntry
<1>2. WaitingPages' = WaitingPages
  BY DEF WaitingPages
<1> QED
  BY <1>1, <1>2, Stutter

(* EEXTEND changes nothing EpcLife sees.                                   *)
LEMMA ExtendStep ==
  ASSUME EpcmOK, NEW p \in Page, EEXTEND(p)
  PROVE  LifeStep
<1>1. \A r \in Page : secs'[r].eid = secs[r].eid
  BY MeasuredKeeps DEF EEXTEND, EpcmOK
<1>2. EpcOwner' = EpcOwner
  BY <1>1, AllOwnersKept DEF EEXTEND, SameEntry
<1>3. WaitingPages' = WaitingPages
  BY DEF EEXTEND, WaitingPages
<1> QED
  BY <1>2, <1>3, Stutter DEF EEXTEND

(* The zeroed EPCM is the table in which every page is free.               *)
LEMMA LifeInitial == encls_qemu_init => Life!LifeInit
<1> SUFFICES ASSUME encls_qemu_init PROVE Life!LifeInit
  OBVIOUS
<1>1. \A p \in Page : ~epcm[p].valid
  BY DEF encls_qemu_init, ZeroEntry
<1>2. EpcOwner = [p \in Page |-> NoEid]
  BY <1>1 DEF EpcOwner, EidOfPage
<1>3. WaitingPages = {}
  BY <1>1 DEF WaitingPages
<1> QED
  BY <1>2, <1>3 DEF Life!LifeInit, encls_qemu_init
=============================================================================
