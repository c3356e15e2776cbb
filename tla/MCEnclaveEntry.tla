--------------------------- MODULE MCEnclaveEntry ---------------------------
(* Constant values for model-checking EnclaveEntry: two host call sites on *)
(* different stacks and two enclave contexts.                              *)
EXTENDS EnclaveEntry, TLC

MCCallers == {[eip |-> "site1", regs |-> 10], [eip |-> "site2", regs |-> 20]}
MCContexts == {[eip |-> "code1", regs |-> 1], [eip |-> "code2", regs |-> 2]}
MCEntryPoint == [eip |-> "entry", regs |-> 3]
MCZero == [eip |-> "zero", regs |-> 0]

ThreadSymmetry == Permutations(Threads)
=============================================================================
