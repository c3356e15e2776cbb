------------------------------ MODULE SgxKeys ------------------------------
(***************************************************************************)
(* Launch control and keys of qemu/target-i386/sgx_helper.c: what EINIT    *)
(* accepts and commits to the SECS, which keys EGETKEY derives for whom,   *)
(* and which key EREPORT seals a report with.                              *)
(*                                                                         *)
(* A key is the keydep_t it is derived from: sgx_derivekey hashes that     *)
(* together with the device key, and hashes are taken to be injective.     *)
(* Left out of keydep_t are the owner epoch and the seal fuses, which      *)
(* nothing ever sets, and the padding, which depends on the key name only  *)
(* (ECREATE requires that of the SECS to be zero).                         *)
(* Attributes are the set of their flags; the flags that are the same for  *)
(* every enclave (mode64bit, xfrm) are left out.  The operands lie in      *)
(* pages that pass the checks of sgx_egetkey_common_check.                 *)
(*                                                                         *)
(* The instructions come in any order.  None of them asks whether EINIT    *)
(* has accepted the enclave: EGETKEY and EREPORT go by the SECS as it is,  *)
(* EINIT may come again, and EADD and EEXTEND measure before and after it. *)
(***************************************************************************)
EXTENDS Integers

CONSTANTS
  Enclaves,
  Measurements, \* the values of MRENCLAVE, under way and finalised
  sha256final(_), \* how a measurement is finalised
  Builds,      \* what ECREATE leaves in a SECS of what its caller chose
  Sigs,        \* SIGSTRUCTs
  Tokens,      \* EINITTOKENs
  Requests,    \* KEYREQUESTs
  TargetInfos, \* TARGETINFOs
  IntelKey,    \* the modulus whose hash is CSR_INTELPUBKEYHASH
  CpuSvn,      \* CR_CPUSVN
  Zero,        \* 32 zero bytes
  None

Flags == {"debug", "provisionkey", "einittokenkey"}
Misc  == {"exinfo"}
KeyNames == {"LAUNCH", "PROVISION", "PROVISION_SEAL", "REPORT", "SEAL"}

ASSUME SvnAssumption == CpuSvn \in Nat
ASSUME BuildsAssumption ==
  \A b \in Builds :
    /\ b.mrEnclave \in Measurements
    /\ b.attributes \subseteq Flags /\ b.miscselect \subseteq Misc
ASSUME MeasurementsAssumption ==
  /\ Zero \notin Measurements
  /\ \A m \in Measurements : sha256final(m) \in Measurements

VARIABLES
  secs,     \* the SECS of every enclave
  launched, \* the enclaves EINIT has accepted (entry_eid)
  key,      \* the key each enclave got last, with the request and the SECS it
            \* was derived from; None before the first
  report    \* the report written last, or None

vars == <<secs, launched, key, report>>

(* ECREATE copies its caller's page, MRSIGNER included, and then starts the *)
(* measurement and clears product and version.                             *)
Init ==
  /\ secs \in [Enclaves -> {[mrEnclave |-> b.mrEnclave, attributes |-> b.attributes,
                             miscselect |-> b.miscselect, mrSigner |-> b.mrSigner,
                             isvprodID |-> 0, isvsvn |-> 0] : b \in Builds}]
  /\ launched = {}
  /\ key = [e \in Enclaves |-> None]
  /\ report = None

(* EADD and EEXTEND update the measurement; m is what it comes to.         *)
Measure(e, m) ==
  /\ secs' = [secs EXCEPT ![e].mrEnclave = m]
  /\ UNCHANGED <<launched, key, report>>

-----------------------------------------------------------------------------
(* EINIT.  Of each header checkField compares the first byte, nibble by    *)
(* nibble, with the first two bytes of the expected one: it is true of the *)
(* prescribed first header (sig.header, with the vendor and the exponent)  *)
(* and, of second headers, only of those that begin with 0x11 ("nibbles"). *)
(* EINIT rejects what checkSigStructField is true of, so the prescribed    *)
(* headers pass, and so do most others.                                    *)
checkSigStructField(sig) == sig.header /\ sig.header2 = "nibbles"

is_debuggable_enclave_hash(sig) == sig.enclaveHash = Zero

\* Mutant: flags that need Intel's key are granted to any signer.
EinitOK_AnySigner(s, sig, token) ==
  /\ ~checkSigStructField(sig)
  /\ sig.signed
  /\ is_debuggable_enclave_hash(sig) \/ sig.enclaveHash = sha256final(s.mrEnclave)
  /\ s.attributes \cap sig.attributeMask = sig.attributes \cap sig.attributeMask
  /\ token.debugLE => "debug" \in s.attributes
  /\ token.cpuSvnLE <= CpuSvn

(* The checks of the token's MAC, measurement, signer and attributes are   *)
(* compiled out.  Of intel_only_mask only the first half is set; the other *)
(* half can only make EINIT reject more.                                   *)
EinitOK(s, sig, token) ==
  /\ ~checkSigStructField(sig)
  /\ sig.signed
  /\ is_debuggable_enclave_hash(sig) \/ sig.enclaveHash = sha256final(s.mrEnclave)
  /\ "einittokenkey" \in s.attributes => sig.modulus = IntelKey
  /\ s.attributes \cap sig.attributeMask = sig.attributes \cap sig.attributeMask
  /\ IF ~is_debuggable_enclave_hash(sig) /\ ~token.valid
     THEN sig.modulus = IntelKey
     ELSE /\ token.debugLE => "debug" \in s.attributes
          /\ token.cpuSvnLE <= CpuSvn

(* A rejected EINIT changes nothing; an accepted one commits, also when it *)
(* is not the first.                                                       *)
EINIT(e, sig, token) ==
  /\ EinitOK(secs[e], sig, token)
  /\ secs' = [secs EXCEPT ![e].mrEnclave = sha256final(@),
                          ![e].mrSigner = sig.modulus,
                          ![e].isvprodID = sig.isvProdID,
                          ![e].isvsvn = sig.isvSvn]
  /\ launched' = launched \cup {e}
  /\ UNCHANGED <<key, report>>

-----------------------------------------------------------------------------
(* EGETKEY.                                                                *)

sealing_mask == {"debug"}  \* 0x03, of which bit 0 is reserved

\* Mutant: the flags every key depends on are not added to the mask.
KeyAttributes_NoSealingMask(s, req) == req.attributeMask \cap s.attributes

KeyAttributes(s, req) == (req.attributeMask \cup sealing_mask) \cap s.attributes

(* memset(&keydep, 0), and what every case copies.                         *)
keydep(s, req) ==
  [keyname |-> req.keyname, isvprodID |-> s.isvprodID, isvsvn |-> s.isvsvn,
   attributes |-> KeyAttributes(s, req), attributesMask |-> {},
   mrEnclave |-> Zero, mrSigner |-> Zero, keyid |-> req.keyid,
   cpusvn |-> req.cpusvn, miscselect |-> s.miscselect \cap req.miscmask,
   miscmask |-> {}]

SealKey(s, req) ==
  [keydep(s, req) EXCEPT
     !.attributesMask = req.attributeMask,
     !.mrEnclave = IF "mrenclave" \in req.policy THEN s.mrEnclave ELSE Zero,
     !.mrSigner = IF "mrsigner" \in req.policy THEN s.mrSigner ELSE Zero,
     !.miscmask = Misc \ req.miscmask]

ReportKey(s, req) ==
  [keydep(s, req) EXCEPT
     !.isvprodID = 0, !.isvsvn = 0, !.attributes = s.attributes,
     !.mrEnclave = s.mrEnclave, !.cpusvn = CpuSvn]

LaunchKey(s, req) == keydep(s, req)

(* PROVISION and PROVISION_SEAL differ in the seal fuses.                  *)
ProvisionKey(s, req) ==
  [keydep(s, req) EXCEPT
     !.isvsvn = req.isvsvn, !.attributesMask = req.attributeMask,
     !.mrSigner = s.mrSigner, !.keyid = Zero, !.miscmask = Misc \ req.miscmask]

DerivedKey(s, req) ==
  CASE req.keyname = "SEAL"   -> SealKey(s, req)
    [] req.keyname = "REPORT" -> ReportKey(s, req)
    [] req.keyname = "LAUNCH" -> LaunchKey(s, req)
    [] req.keyname \in {"PROVISION", "PROVISION_SEAL"} -> ProvisionKey(s, req)

SvnOK(s, req) == req.cpusvn <= CpuSvn /\ req.isvsvn <= s.isvsvn

EgetkeyOK(s, req) ==
  /\ req.keyname \in KeyNames
  /\ req.keyname = "LAUNCH" => "einittokenkey" \in s.attributes
  /\ req.keyname \in {"PROVISION", "PROVISION_SEAL"} => "provisionkey" \in s.attributes
  /\ req.keyname # "REPORT" => SvnOK(s, req)

EGETKEY(e, req) ==
  /\ EgetkeyOK(secs[e], req)
  /\ key' = [key EXCEPT ![e] = [req |-> req, of |-> secs[e],
                                dep |-> DerivedKey(secs[e], req)]]
  /\ UNCHANGED <<secs, launched, report>>

-----------------------------------------------------------------------------
(* EREPORT by enclave e for the enclave info describes.  Of the body, which *)
(* is copied from the SECS of e, the report keeps whose it is.             *)
(* CR_REPORT_KEYID is never set.                                           *)

\* Mutant: the attributes of the reporting enclave go into the key.
ReportMacKey_OwnAttributes(s, info) ==
  [keyname |-> "REPORT", isvprodID |-> 0, isvsvn |-> 0,
   attributes |-> s.attributes, attributesMask |-> {},
   mrEnclave |-> info.measurement, mrSigner |-> Zero, keyid |-> Zero,
   cpusvn |-> CpuSvn, miscselect |-> info.miscselect, miscmask |-> {}]

ReportMacKey(s, info) ==
  [keyname |-> "REPORT", isvprodID |-> 0, isvsvn |-> 0,
   attributes |-> info.attributes, attributesMask |-> {},
   mrEnclave |-> info.measurement, mrSigner |-> Zero, keyid |-> Zero,
   cpusvn |-> CpuSvn, miscselect |-> info.miscselect, miscmask |-> {}]

EREPORT(e, info) ==
  /\ report' = [by |-> e, target |-> info, macKey |-> ReportMacKey(secs[e], info)]
  /\ UNCHANGED <<secs, launched, key>>

Next ==
  \E e \in Enclaves :
    \/ \E m \in Measurements : Measure(e, m)
    \/ \E sig \in Sigs, token \in Tokens : EINIT(e, sig, token)
    \/ \E req \in Requests : EGETKEY(e, req)
    \/ \E info \in TargetInfos : EREPORT(e, info)

Spec == Init /\ [][Next]_vars

-----------------------------------------------------------------------------
HasKey(e, name) == key[e] # None /\ key[e].req.keyname = name

(***************************************************************************)
(* A report can be verified by exactly the enclaves it was made for: a     *)
(* report key EGETKEY hands out is the one EREPORT used if and only if the *)
(* holder, when it asked, had the measurement, the attributes and, under   *)
(* the mask of its request, the MISCSELECT of the TARGETINFO, and named    *)
(* the report's keyid.                                                     *)
(***************************************************************************)
ReportForTarget ==
  \A e \in Enclaves : report # None /\ HasKey(e, "REPORT") =>
    (key[e].dep = report.macKey
       <=> /\ key[e].of.mrEnclave = report.target.measurement
           /\ key[e].of.attributes = report.target.attributes
           /\ key[e].of.miscselect \cap key[e].req.miscmask = report.target.miscselect
           /\ key[e].req.keyid = Zero)

(***************************************************************************)
(* Two enclaves that hold the same seal key had, each when it asked, the   *)
(* same product and version, were both debuggable or neither, and agreed   *)
(* on the identity their policies bind: neither gets a key bound to the    *)
(* other's measurement or signer under a looser policy.  A MRSIGNER of     *)
(* zero, which ECREATE may leave until EINIT, binds nothing.               *)
(***************************************************************************)
SealKeysSeparate ==
  \A a, b \in Enclaves :
    HasKey(a, "SEAL") /\ HasKey(b, "SEAL") /\ key[a].dep = key[b].dep =>
      /\ "mrenclave" \in key[a].req.policy =>
           /\ "mrenclave" \in key[b].req.policy
           /\ key[a].of.mrEnclave = key[b].of.mrEnclave
      /\ "mrsigner" \in key[a].req.policy /\ key[a].of.mrSigner # Zero =>
           /\ "mrsigner" \in key[b].req.policy
           /\ key[a].of.mrSigner = key[b].of.mrSigner
      /\ key[a].of.isvprodID = key[b].of.isvprodID
      /\ key[a].of.isvsvn = key[b].of.isvsvn
      /\ "debug" \in key[a].of.attributes <=> "debug" \in key[b].of.attributes

(***************************************************************************)
(* EGETKEY asks for a flag of the SECS and nothing about EINIT, so an      *)
(* enclave may hold the launch key before EINIT has seen it.  What the two *)
(* instructions do see to is that such an enclave is never initialised     *)
(* under another signer's name: whoever has got the launch key, before an  *)
(* EINIT, after it or between two, and has been accepted by EINIT, is      *)
(* signed with Intel's key, with every token and with debug hashes.        *)
(***************************************************************************)
LaunchersInitialisedByIntel ==
  \A e \in launched : HasKey(e, "LAUNCH") => secs[e].mrSigner = IntelKey
=============================================================================
