---------------------------- MODULE UntrustedOs ----------------------------
(***************************************************************************)
(* The instructions of SgxEpcm issued in any order with any operands.  SGX *)
(* does not trust the operating system, so what an enclave may rely on has *)
(* to hold against an operating system that issues every ENCLS leaf it     *)
(* likes, on whatever page, between any two steps of an enclave, and       *)
(* against every enclave.  The hypercalls OpenSGX added to set up the      *)
(* emulator are not among the leaves.                                      *)
(*                                                                         *)
(* Linear addresses are given relative to the page they are meant for.     *)
(***************************************************************************)
EXTENDS SgxEpcm

CONSTANTS
  Bases,         \* the values of SECS.baseAddr
  Sizes,         \* the values of SECS.size, in pages
  Displacements, \* how far a linear address lies from its page
  Perms,         \* the permissions a SECINFO may name
  SrcTcs,        \* the TCSs the operating system puts into source pages
  MaxEid,        \* bound on the number of enclaves
  MaxUpdates,    \* bound on the updates of one measurement
  MaxCssa        \* bound on the number of frames in use

ASSUME RangesAssumption ==
  Bases \subseteq Int /\ Sizes \subseteq Int /\ Displacements \subseteq Int
ASSUME PermsAssumption == Perms \subseteq SUBSET Perm
ASSUME SrcTcsAssumption == SrcTcs \subseteq Tcs
ASSUME BoundsAssumption == {MaxEid, MaxUpdates, MaxCssa} \subseteq Nat

vars == sgxVars

Init == encls_qemu_init

(* helper_sgx_encls: the leaves of the operating system.  EEXTEND on a     *)
(* page that belongs to no SECS reads the SECS through a null pointer.     *)
Encls ==
  \E p \in Page :
    \/ \E base \in Bases, size \in Sizes :
         nextEid < MaxEid /\ ECREATE(p, base, size)
    \/ \E s \in Page, d \in Displacements, perm \in Perms :
         EADD(p, s, p + d, "REG", perm, ZeroTcs)
    \/ \E s \in Page, d \in Displacements, src \in SrcTcs :
         EADD(p, s, p + d, "TCS", {}, src)
    \/ epcm[p].secs # NoPage /\ EEXTEND(p)
    \/ \E verdict \in BOOLEAN : EINIT(p, verdict)
    \/ \E s \in Page, d \in Displacements : EAUG(p, s, p + d)
    \/ \E perm \in Perms : EMODPR(p, perm)
    \/ EBLOCK(p)

(* helper_sgx_enclu, and the exceptions that interrupt an enclave.         *)
Enclu ==
  \/ \E p, q \in Page, pending \in BOOLEAN, perm \in Perms :
       EACCEPT(p, q, pending, perm)
  \/ \E p, q \in Page, perm \in Perms, atStart \in BOOLEAN :
       EMODPE(p, q, perm, atStart)
  \/ \E p, q, src \in Page, perm \in Perms, atStart \in BOOLEAN :
       EACCEPTCOPY(p, q, src, perm, atStart)
  \/ \E t \in Page : EENTER(t)
  \/ \E t \in Page : ERESUME(t)
  \/ \E toTrampoline \in BOOLEAN : EEXIT(toTrampoline)
  \/ helper_sgx_ehandle

Next ==
  /\ Encls \/ Enclu
  /\ \A p \in Page : /\ Len(secs'[p].mrEnclave) <= MaxUpdates
                     /\ tcs'[p].cssa <= MaxCssa

Spec == Init /\ [][Next]_vars

-----------------------------------------------------------------------------
(***************************************************************************)
(* Every variable keeps its type.  With it, TCS.cssa, unsigned in the      *)
(* code, never goes below zero, whatever order EENTER, ERESUME, EEXIT and  *)
(* exceptions come in.                                                     *)
(***************************************************************************)
TypeOK ==
  /\ epcm \in [Page -> EpcmEntry]
  /\ secs \in [Page -> Secs]
  /\ tcs \in [Page -> Tcs]
  /\ entryEid \subseteq Nat
  /\ nextEid \in Nat
  /\ enclaveMode \in BOOLEAN
  /\ activeSecs \in PageOrNone
  /\ activeTcs \in PageOrNone
  /\ gprPage \in PageOrNone

EnclavePages == {p \in Page : epcm[p].valid /\ epcm[p].pt \in {"TCS", "REG"}}

(***************************************************************************)
(* A TCS or REG page always belongs to a page that is a valid SECS: the    *)
(* leaves follow enclave_secs without asking again what is there.          *)
(***************************************************************************)
OwnedBySecs ==
  \A p \in EnclavePages : epcm[p].secs \in Page /\ IsSecs(epcm[p].secs)

(***************************************************************************)
(* Enclaves have pairwise different eids, and no eid is marked initialised *)
(* before it is given out: EINIT marks an eid in entry_eid, and checkEINIT *)
(* never takes one enclave for another.                                    *)
(***************************************************************************)
EidsUnique ==
  /\ \A s \in Page : IsSecs(s) => secs[s].eid < nextEid
  /\ \A s, t \in Page :
       IsSecs(s) /\ IsSecs(t) /\ secs[s].eid = secs[t].eid => s = t
  /\ \A e \in entryEid : e < nextEid

(***************************************************************************)
(* Until EINIT accepts an enclave nothing gets into it unmeasured: every   *)
(* page of it has an update of MRENCLAVE with the page's own type, at the  *)
(* offset of its linear address.  EAUG measures nothing and has to wait.   *)
(***************************************************************************)
PagesMeasuredBeforeInit ==
  \A p \in EnclavePages :
    LET s == secs[epcm[p].secs]
    IN  ~checkEINIT(s.eid) =>
          \E i \in DOMAIN s.mrEnclave :
            /\ s.mrEnclave[i].leaf = "EADD"
            /\ s.mrEnclave[i].off = epcm[p].addr - s.base
            /\ s.mrEnclave[i].pt = epcm[p].pt

(***************************************************************************)
(* A page is pending only after an EAUG into the range of an initialised   *)
(* enclave, and has the permissions EAUG gave it until it is accepted:     *)
(* nobody can make it executable before its enclave has agreed to it.      *)
(***************************************************************************)
PendingIsAugmented ==
  \A p \in Page : epcm[p].valid /\ epcm[p].pending =>
    /\ epcm[p].pt = "REG" /\ epcm[p].perm = {"r", "w"}
    /\ checkEINIT(secs[epcm[p].secs].eid)
    /\ InElrange(epcm[p].secs, epcm[p].addr)

(***************************************************************************)
(* A page in use keeps its type, its enclave and its linear address: no    *)
(* sequence of leaves moves it into another enclave or to another place.   *)
(***************************************************************************)
PageIdentityStable ==
  [][\A p \in Page : epcm[p].valid =>
       /\ epcm'[p].valid
       /\ epcm'[p].pt = epcm[p].pt
       /\ epcm'[p].secs = epcm[p].secs
       /\ epcm'[p].addr = epcm[p].addr]_vars

Extended(p) == epcm[p].valid /\ ~(epcm'[p].perm \subseteq epcm[p].perm)

(***************************************************************************)
(* The permissions of a page in use grow in EMODPE and EACCEPTCOPY only.   *)
(* No ENCLS leaf extends them, in whatever order EMODPR, EAUG and EACCEPT  *)
(* come before; the enclave entered last extends pages of its own and of   *)
(* no other enclave; and a page that has grown does not wait for EACCEPT   *)
(* any more.  The leaves go by CR_ACTIVE_SECS, which survives EEXIT: code  *)
(* outside the enclave that runs them acts for the enclave entered last.   *)
(***************************************************************************)
PermissionsExtendedByOwner ==
  [][\A p \in Page : Extended(p) =>
       /\ ~Encls
       /\ epcm[p].secs = activeSecs
       /\ ~epcm'[p].pending]_vars

(***************************************************************************)
(* While an enclave runs, CR_GPR_PA, through which EEXIT and the exception *)
(* handler store its registers, lies in a valid regular page of that same  *)
(* enclave, whatever the operating system has done since EENTER.           *)
(***************************************************************************)
SaveAreaInEnclave ==
  enclaveMode =>
    /\ gprPage \in EnclavePages
    /\ epcm[gprPage].pt = "REG"
    /\ epcm[gprPage].secs = activeSecs
=============================================================================
