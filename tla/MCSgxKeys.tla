----------------------------- MODULE MCSgxKeys -----------------------------
(* Constant values for model-checking SgxKeys.  Builds share measurements  *)
(* across attributes, which are not measured.  Finalising gives another    *)
(* measurement; one that was finalised can be measured or finalised again. *)
EXTENDS SgxKeys, TLC

MCMeasurements == {"m1", "m2"}
MCsha256final(m) == IF m = "m1" THEN "m2" ELSE "m1"

Build(m, attributes, misc, signer) ==
  [mrEnclave |-> m, attributes |-> attributes, miscselect |-> misc, mrSigner |-> signer]

MCBuilds == {Build("m1", {"debug"}, {"exinfo"}, "zero"),
             Build("m1", {"provisionkey", "einittokenkey"}, {}, "vendor")}

Sig(header, header2, signed, modulus, hash, mask) ==
  [header |-> header, header2 |-> header2, signed |-> signed, modulus |-> modulus,
   enclaveHash |-> hash, attributes |-> {"debug"}, attributeMask |-> mask,
   isvProdID |-> 1, isvSvn |-> 1]

MCSigs ==
  {Sig(TRUE, "spec", TRUE, modulus, hash, {}) :
     modulus \in {"intel", "vendor"}, hash \in {"zero", "m1"}}
  \cup {Sig(TRUE, "nibbles", TRUE, "vendor", "zero", {}),
        Sig(FALSE, "nibbles", TRUE, "vendor", "zero", {"debug"}),
        Sig(TRUE, "spec", FALSE, "intel", "zero", {})}

Token(valid, debugLE, svn) == [valid |-> valid, debugLE |-> debugLE, cpuSvnLE |-> svn]

MCTokens == {Token(TRUE, FALSE, 1), Token(FALSE, FALSE, 1),
             Token(TRUE, TRUE, 1), Token(TRUE, FALSE, 2)}

Request(name, policy, isvsvn, cpusvn, mask, keyid, miscmask) ==
  [keyname |-> name, policy |-> policy, isvsvn |-> isvsvn, cpusvn |-> cpusvn,
   attributeMask |-> mask, keyid |-> keyid, miscmask |-> miscmask]

MCRequests ==
  {Request("SEAL", policy, 0, 1, {}, "zero", {}) :
     policy \in {{"mrenclave"}, {"mrsigner"}, {}}}
  \cup {Request("SEAL", {"mrenclave", "mrsigner"}, 1, 1, Flags, "zero", Misc)}
  \cup {Request("REPORT", {}, 0, 1, {}, "zero", miscmask) : miscmask \in SUBSET Misc}
  \cup {Request("REPORT", {}, 0, 1, {}, "one", Misc),
        Request("LAUNCH", {}, 0, 1, {}, "zero", {}),
        Request("PROVISION", {}, 1, 1, {}, "zero", {}),
        Request("SEAL", {}, 0, 2, {}, "zero", {}),
        Request("OTHER", {}, 0, 1, {}, "zero", {})}

MCTargetInfos ==
  {[measurement |-> "m1", attributes |-> {"debug"}, miscselect |-> {"exinfo"}],
   [measurement |-> "m2", attributes |-> {"provisionkey", "einittokenkey"}, miscselect |-> {}],
   [measurement |-> "m1", attributes |-> {}, miscselect |-> {}]}

EnclaveSymmetry == Permutations(Enclaves)
=============================================================================
