--------------------------- MODULE SgxKeys_proofs ---------------------------
(***************************************************************************)
(* What the keys of SgxKeys guarantee for every set of enclaves, builds,   *)
(* signatures, tokens and requests.                                        *)
(***************************************************************************)
EXTENDS SgxKeys, TLAPS

SecsFields ==
  {"mrEnclave", "attributes", "miscselect", "mrSigner", "isvprodID", "isvsvn"}

(* The SECS of an enclave: a record with a measurement, which is not zero. *)
SecsOK(s) == DOMAIN s = SecsFields /\ s.mrEnclave \in Measurements

Shapes ==
  /\ secs = [e \in Enclaves |-> secs[e]]
  /\ key = [e \in Enclaves |-> key[e]]
  /\ launched \subseteq Enclaves
  /\ \A e \in Enclaves : SecsOK(secs[e])

(* What EINIT has committed, however often.                                *)
Committed ==
  \A e \in launched :
    "einittokenkey" \in secs[e].attributes => secs[e].mrSigner = IntelKey

(* A key was derived from a SECS its holder once had.  The SECS may have   *)
(* changed since, except for its attributes, which only ECREATE sets.      *)
KeysDerived ==
  \A e \in Enclaves : key[e] # None =>
    /\ SecsOK(key[e].of) /\ key[e].of.attributes = secs[e].attributes
    /\ EgetkeyOK(key[e].of, key[e].req)
    /\ key[e].dep = DerivedKey(key[e].of, key[e].req)

(* The key of a report depends on the target alone.                        *)
ReportDerived ==
  report # None => \A s : report.macKey = ReportMacKey(s, report.target)

IInv == Shapes /\ Committed /\ KeysDerived /\ ReportDerived

(* ECREATE makes SECS records with a measurement, and no key is out yet.   *)
LEMMA InitIInv == Init => IInv
<1> SUFFICES ASSUME Init PROVE IInv
  OBVIOUS
<1>1. Shapes
  <2>1. \A e \in Enclaves : SecsOK(secs[e])
    <3> SUFFICES ASSUME NEW e \in Enclaves PROVE SecsOK(secs[e])
      OBVIOUS
    <3>1. PICK b \in Builds :
            secs[e] = [mrEnclave |-> b.mrEnclave, attributes |-> b.attributes,
                       miscselect |-> b.miscselect, mrSigner |-> b.mrSigner,
                       isvprodID |-> 0, isvsvn |-> 0]
      BY DEF Init
    <3> QED
      BY <3>1, BuildsAssumption DEF SecsOK, SecsFields
  <2> QED
    BY <2>1 DEF Init, Shapes
<1>2. Committed /\ KeysDerived /\ ReportDerived
  BY DEF Init, Committed, KeysDerived, ReportDerived
<1> QED
  BY <1>1, <1>2 DEF IInv

(* The SECS of e becomes s, by EINIT or by a measurement.                  *)
LEMMA SecsChanges ==
  ASSUME IInv, NEW e \in Enclaves, NEW s, SecsOK(s), s.attributes = secs[e].attributes,
         secs' = [secs EXCEPT ![e] = s], key' = key, report' = report
  PROVE  /\ secs'[e] = s /\ \A d \in Enclaves : d # e => secs'[d] = secs[d]
         /\ launched' \subseteq Enclaves => Shapes'
         /\ KeysDerived' /\ ReportDerived'
<1>1. secs'[e] = s /\ \A d \in Enclaves : d # e => secs'[d] = secs[d]
  BY DEF IInv, Shapes
<1>2. ASSUME launched' \subseteq Enclaves PROVE Shapes'
  <2>1. \A d \in Enclaves : SecsOK(secs'[d])
    BY <1>1 DEF IInv, Shapes
  <2> QED
    BY <1>2, <2>1 DEF IInv, Shapes
<1>3. \A d \in Enclaves : secs'[d].attributes = secs[d].attributes
  BY <1>1
<1>4. KeysDerived' /\ ReportDerived'
  BY <1>3 DEF IInv, KeysDerived, ReportDerived
<1> QED
  BY <1>1, <1>2, <1>4

(***************************************************************************)
(* Every instruction preserves the invariant, in any order.                *)
(***************************************************************************)
LEMMA NextIInv == IInv /\ [Next]_vars => IInv'
<1> SUFFICES ASSUME IInv, [Next]_vars PROVE IInv'
  OBVIOUS
<1>1. ASSUME NEW e \in Enclaves, NEW m \in Measurements, Measure(e, m)
      PROVE  IInv'
  <2>1. PICK s : s = [secs[e] EXCEPT !.mrEnclave = m]
    OBVIOUS
  <2>2. /\ secs' = [secs EXCEPT ![e] = s]
        /\ launched' = launched /\ key' = key /\ report' = report
    BY <1>1, <2>1 DEF Measure
  <2>3. SecsOK(s) /\ s.attributes = secs[e].attributes /\ s.mrSigner = secs[e].mrSigner
    BY <2>1 DEF IInv, Shapes, SecsOK, SecsFields
  <2>4. /\ secs'[e] = s /\ \A d \in Enclaves : d # e => secs'[d] = secs[d]
        /\ Shapes' /\ KeysDerived' /\ ReportDerived'
    BY <2>2, <2>3, SecsChanges DEF IInv, Shapes
  <2>5. Committed'
    BY <2>2, <2>3, <2>4 DEF IInv, Shapes, Committed
  <2> QED
    BY <2>4, <2>5 DEF IInv
<1>2. ASSUME NEW e \in Enclaves, NEW sig \in Sigs, NEW token \in Tokens,
             EINIT(e, sig, token)
      PROVE  IInv'
  <2>1. PICK s : s = [secs[e] EXCEPT !.mrEnclave = sha256final(secs[e].mrEnclave),
                                     !.mrSigner = sig.modulus,
                                     !.isvprodID = sig.isvProdID, !.isvsvn = sig.isvSvn]
    OBVIOUS
  <2>2. /\ secs' = [secs EXCEPT ![e] = s] /\ launched' = launched \cup {e}
        /\ key' = key /\ report' = report
    BY <1>2, <2>1 DEF EINIT, IInv, Shapes, SecsOK, SecsFields
  <2>3. SecsOK(s) /\ s.attributes = secs[e].attributes /\ s.mrSigner = sig.modulus
    BY <2>1, MeasurementsAssumption DEF IInv, Shapes, SecsOK, SecsFields
  <2>4. /\ secs'[e] = s /\ \A d \in Enclaves : d # e => secs'[d] = secs[d]
        /\ Shapes' /\ KeysDerived' /\ ReportDerived'
    BY <2>2, <2>3, SecsChanges DEF IInv, Shapes
  <2>5. "einittokenkey" \in s.attributes => s.mrSigner = IntelKey
    BY <1>2, <2>3 DEF EINIT, EinitOK
  <2>6. Committed'
    BY <2>2, <2>4, <2>5 DEF IInv, Shapes, Committed
  <2> QED
    BY <2>4, <2>6 DEF IInv
<1>3. ASSUME NEW e \in Enclaves, NEW req \in Requests, EGETKEY(e, req)
      PROVE  IInv'
  <2>1. PICK k : k = [req |-> req, of |-> secs[e], dep |-> DerivedKey(secs[e], req)]
    OBVIOUS
  <2>2. /\ key' = [key EXCEPT ![e] = k]
        /\ secs' = secs /\ launched' = launched /\ report' = report
    BY <1>3, <2>1 DEF EGETKEY
  <2>3. key'[e] = k /\ \A d \in Enclaves : d # e => key'[d] = key[d]
    BY <2>2 DEF IInv, Shapes
  <2>4. Shapes' /\ Committed' /\ ReportDerived'
    BY <2>2 DEF IInv, Shapes, Committed, ReportDerived
  <2>5. KeysDerived'
    <3>1. /\ SecsOK(k.of) /\ k.of.attributes = secs[e].attributes
          /\ EgetkeyOK(k.of, k.req) /\ k.dep = DerivedKey(k.of, k.req)
      BY <1>3, <2>1 DEF EGETKEY, IInv, Shapes
    <3> QED
      BY <2>2, <2>3, <3>1 DEF IInv, KeysDerived
  <2> QED
    BY <2>4, <2>5 DEF IInv
<1>4. ASSUME NEW e \in Enclaves, NEW info \in TargetInfos, EREPORT(e, info)
      PROVE  IInv'
  <2>1. /\ report' = [by |-> e, target |-> info, macKey |-> ReportMacKey(secs[e], info)]
        /\ secs' = secs /\ launched' = launched /\ key' = key
    BY <1>4 DEF EREPORT
  <2>2. Shapes' /\ Committed' /\ KeysDerived'
    BY <2>1 DEF IInv, Shapes, Committed, KeysDerived
  <2>3. ReportDerived'
    BY <2>1 DEF ReportDerived, ReportMacKey
  <2> QED
    BY <2>2, <2>3 DEF IInv
<1>5. CASE UNCHANGED vars
  BY <1>5 DEF vars, IInv, Shapes, Committed, KeysDerived, ReportDerived
<1> QED
  BY <1>1, <1>2, <1>3, <1>4, <1>5 DEF Next

(* The inductive invariant holds in every behaviour.                       *)
THEOREM Invariance == Spec => []IInv
BY InitIInv, NextIInv, PTL DEF Spec

(***************************************************************************)
(* The two places that fill a keydep_t for a report agree exactly when the *)
(* enclave that asks is the one the report is for and names its keyid.     *)
(***************************************************************************)
LEMMA ReportKeyMatches ==
  ASSUME NEW s, NEW req, NEW t, NEW info, req.keyname = "REPORT"
  PROVE  ReportKey(s, req) = ReportMacKey(t, info)
           <=> /\ s.mrEnclave = info.measurement
               /\ s.attributes = info.attributes
               /\ s.miscselect \cap req.miscmask = info.miscselect
               /\ req.keyid = Zero
<1> DEFINE M(a, b, c, d) ==
             [keyname |-> "REPORT", isvprodID |-> 0, isvsvn |-> 0, attributes |-> a,
              attributesMask |-> {}, mrEnclave |-> b, mrSigner |-> Zero, keyid |-> c,
              cpusvn |-> CpuSvn, miscselect |-> d, miscmask |-> {}]
           got == ReportKey(s, req)
           mac == ReportMacKey(t, info)
<1>1. got = M(s.attributes, s.mrEnclave, req.keyid, s.miscselect \cap req.miscmask)
  <2> DEFINE g == M(s.attributes, s.mrEnclave, req.keyid, s.miscselect \cap req.miscmask)
             F == {"keyname", "isvprodID", "isvsvn", "attributes", "attributesMask",
                   "mrEnclave", "mrSigner", "keyid", "cpusvn", "miscselect", "miscmask"}
  <2>1. got = [x \in F |-> got[x]]
    BY DEF ReportKey, keydep
  <2>2. g = [x \in F |-> g[x]]
    OBVIOUS
  <2>3. \A x \in F : got[x] = g[x]
    <3>1. /\ got.keyname = "REPORT" /\ got.isvprodID = 0 /\ got.isvsvn = 0
          /\ got.attributes = s.attributes /\ got.attributesMask = {}
          /\ got.mrEnclave = s.mrEnclave /\ got.mrSigner = Zero /\ got.keyid = req.keyid
          /\ got.cpusvn = CpuSvn /\ got.miscselect = s.miscselect \cap req.miscmask
          /\ got.miscmask = {}
      BY DEF ReportKey, keydep
    <3>2. /\ g.keyname = "REPORT" /\ g.isvprodID = 0 /\ g.isvsvn = 0
          /\ g.attributes = s.attributes /\ g.attributesMask = {}
          /\ g.mrEnclave = s.mrEnclave /\ g.mrSigner = Zero /\ g.keyid = req.keyid
          /\ g.cpusvn = CpuSvn /\ g.miscselect = s.miscselect \cap req.miscmask
          /\ g.miscmask = {}
      OBVIOUS
    <3> HIDE DEF got, g
    <3> QED
      BY <3>1, <3>2
  <2> HIDE DEF got, g, F
  <2>4. got = g
    BY <2>1, <2>2, <2>3
  <2> QED
    BY <2>4 DEF g
<1>2. mac = M(info.attributes, info.measurement, Zero, info.miscselect)
  BY DEF ReportMacKey
<1> HIDE DEF got, mac
<1>3. ASSUME got = mac
      PROVE  /\ s.attributes = info.attributes /\ s.mrEnclave = info.measurement
             /\ req.keyid = Zero /\ s.miscselect \cap req.miscmask = info.miscselect
  <2>1. /\ got.attributes = mac.attributes /\ got.mrEnclave = mac.mrEnclave
        /\ got.keyid = mac.keyid /\ got.miscselect = mac.miscselect
    BY <1>3
  <2> QED
    BY <1>1, <1>2, <2>1
<1>4. ASSUME s.attributes = info.attributes, s.mrEnclave = info.measurement,
             req.keyid = Zero, s.miscselect \cap req.miscmask = info.miscselect
      PROVE  got = mac
  BY <1>1, <1>2, <1>4
<1> QED
  BY <1>3, <1>4 DEF got, mac

(***************************************************************************)
(* Reports are verifiable by exactly the enclaves they were made for       *)
(* (sgx_ereport, the REPORT_KEY case of sgx_egetkey).                      *)
(***************************************************************************)
THEOREM ReportTargets == Spec => []ReportForTarget
<1>1. IInv => ReportForTarget
  <2> SUFFICES ASSUME IInv, NEW e \in Enclaves, report # None, HasKey(e, "REPORT")
               PROVE  key[e].dep = report.macKey
                        <=> /\ key[e].of.mrEnclave = report.target.measurement
                            /\ key[e].of.attributes = report.target.attributes
                            /\ key[e].of.miscselect \cap key[e].req.miscmask
                                 = report.target.miscselect
                            /\ key[e].req.keyid = Zero
    BY DEF ReportForTarget
  <2>1. key[e].dep = ReportKey(key[e].of, key[e].req) /\ key[e].req.keyname = "REPORT"
    BY DEF IInv, KeysDerived, HasKey, DerivedKey
  <2>2. report.macKey = ReportMacKey(key[e].of, report.target)
    BY DEF IInv, ReportDerived
  <2> QED
    BY <2>1, <2>2, ReportKeyMatches
<1> QED
  BY <1>1, Invariance, PTL

(***************************************************************************)
(* Enclaves that hold the same seal key agree on the identity their policy *)
(* binds (the SEAL_KEY case of sgx_egetkey).                               *)
(***************************************************************************)
THEOREM SealSeparation == Spec => []SealKeysSeparate
<1>1. IInv => SealKeysSeparate
  <2> SUFFICES ASSUME IInv, NEW a \in Enclaves, NEW b \in Enclaves,
                      HasKey(a, "SEAL"), HasKey(b, "SEAL"), key[a].dep = key[b].dep
               PROVE  /\ "mrenclave" \in key[a].req.policy =>
                           /\ "mrenclave" \in key[b].req.policy
                           /\ key[a].of.mrEnclave = key[b].of.mrEnclave
                      /\ "mrsigner" \in key[a].req.policy /\ key[a].of.mrSigner # Zero =>
                           /\ "mrsigner" \in key[b].req.policy
                           /\ key[a].of.mrSigner = key[b].of.mrSigner
                      /\ key[a].of.isvprodID = key[b].of.isvprodID
                      /\ key[a].of.isvsvn = key[b].of.isvsvn
                      /\ "debug" \in key[a].of.attributes
                           <=> "debug" \in key[b].of.attributes
    BY DEF SealKeysSeparate
  <2> DEFINE S(e) == SealKey(key[e].of, key[e].req)
  <2>1. key[a].dep = S(a) /\ key[b].dep = S(b)
    BY DEF IInv, KeysDerived, HasKey, DerivedKey
  <2>2. /\ S(a).mrEnclave = S(b).mrEnclave /\ S(a).mrSigner = S(b).mrSigner
        /\ S(a).isvprodID = S(b).isvprodID /\ S(a).isvsvn = S(b).isvsvn
        /\ S(a).attributes = S(b).attributes
    BY <2>1
  <2>3. \A e \in Enclaves :
          /\ S(e).mrEnclave = IF "mrenclave" \in key[e].req.policy
                              THEN key[e].of.mrEnclave ELSE Zero
          /\ S(e).mrSigner = IF "mrsigner" \in key[e].req.policy
                             THEN key[e].of.mrSigner ELSE Zero
          /\ S(e).isvprodID = key[e].of.isvprodID /\ S(e).isvsvn = key[e].of.isvsvn
          /\ S(e).attributes = KeyAttributes(key[e].of, key[e].req)
    BY DEF SealKey, keydep
  <2> HIDE DEF S
  <2>4. key[a].of.mrEnclave # Zero /\ key[b].of.mrEnclave # Zero
    BY MeasurementsAssumption DEF IInv, SecsOK, KeysDerived, HasKey
  <2>5. "mrenclave" \in key[a].req.policy =>
          /\ "mrenclave" \in key[b].req.policy
          /\ key[a].of.mrEnclave = key[b].of.mrEnclave
    BY <2>2, <2>3, <2>4
  <2>6. "mrsigner" \in key[a].req.policy /\ key[a].of.mrSigner # Zero =>
          /\ "mrsigner" \in key[b].req.policy
          /\ key[a].of.mrSigner = key[b].of.mrSigner
    BY <2>2, <2>3
  <2>7. "debug" \in key[a].of.attributes <=> "debug" \in key[b].of.attributes
    BY <2>2, <2>3 DEF KeyAttributes, sealing_mask
  <2> QED
    BY <2>2, <2>3, <2>5, <2>6, <2>7
<1> QED
  BY <1>1, Invariance, PTL

(***************************************************************************)
(* An enclave that has got the launch key, at whatever point, is accepted  *)
(* by EINIT under Intel's key only (sgx_einit's intel_only_mask, the       *)
(* LAUNCH_KEY case of sgx_egetkey).                                        *)
(***************************************************************************)
THEOREM Launchers == Spec => []LaunchersInitialisedByIntel
<1>1. IInv => LaunchersInitialisedByIntel
  <2> SUFFICES ASSUME IInv, NEW e \in launched, HasKey(e, "LAUNCH")
               PROVE  secs[e].mrSigner = IntelKey
    BY DEF LaunchersInitialisedByIntel
  <2>1. "einittokenkey" \in secs[e].attributes
    BY DEF IInv, Shapes, KeysDerived, EgetkeyOK, HasKey
  <2> QED
    BY <2>1 DEF IInv, Committed
<1> QED
  BY <1>1, Invariance, PTL
=============================================================================
