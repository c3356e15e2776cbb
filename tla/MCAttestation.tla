--------------------------- MODULE MCAttestation ---------------------------
(* Constant values for model-checking Attestation.                         *)
EXTENDS Attestation

MCMeasurements == {"m1", "m2"}
MCsha256final(m) == IF m = "m1" THEN "m2" ELSE "m1"

MCBuilds == {[mrEnclave |-> "m1", attributes |-> {}, miscselect |-> {}],
             [mrEnclave |-> "m1", attributes |-> {}, miscselect |-> {"exinfo"}],
             [mrEnclave |-> "m2", attributes |-> {"debug"}, miscselect |-> {"exinfo"}]}

MCSigs == {[modulus |-> "vendor", isvProdID |-> 1, isvSvn |-> 1]}

Conf(hash, attributes, misc) ==
  [enclaveHash |-> hash, attributes |-> attributes, miscselect |-> misc]

MCConfs == {Conf("m1", {}, {}), Conf("m1", {}, {"exinfo"}), Conf("m2", {}, {"exinfo"}),
            Conf("m2", {"debug"}, {"exinfo"}), Conf("zero", {}, {})}
=============================================================================
