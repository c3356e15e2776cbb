------------------------------ MODULE EpcTable ------------------------------
(***************************************************************************)
(* The kernel emulation's table of EPC pages, g_epc_info, and what the     *)
(* functions of user/sgx-kern-epc.c do to it.  Every operator is a pure    *)
(* function from a table to an outcome, so that the stand-alone allocator  *)
(* (EpcAllocator) and the kernel that calls it (KernEnclave) share one     *)
(* translation.                                                            *)
(*                                                                         *)
(* A page is named by its index in g_epc.  An outcome is a record:         *)
(*   idx  - the index the C function returns, NoPage for -1 or NULL;       *)
(*   info - the table it leaves behind;                                    *)
(*   ok   - FALSE when an assert() of the allocator failed, which ends     *)
(*          the process.                                                   *)
(***************************************************************************)
EXTENDS EpcPages

CONSTANT Keys  \* the keys (enclave identifiers) callers pass in

ASSUME KeysAssumption == Keys \subseteq Nat /\ 0 \in Keys

EpcType == {"FREE", "SECS", "TCS", "REG", "RESERVED"}
EpcInfo == [key : Keys, type : EpcType]

(* The index a left-to-right scan over the table stops at, NoPage if none. *)
FirstOf(S) == IF S = {} THEN NoPage ELSE CHOOSE i \in S : \A j \in S : i <= j

Free(info) == {i \in Page : info[i].type = "FREE"}

(* memset(g_epc_info, 0): every page is FREE and carries key 0, which is   *)
(* also the key of the first enclave.                                      *)
init_epc == [i \in Page |-> [key |-> 0, type |-> "FREE"]]

-----------------------------------------------------------------------------
(* Scans start at index 0: the static variable last is never advanced.     *)

ReservedBy(info, key) ==
  {i \in Page : info[i].key = key /\ info[i].type = "RESERVED"}

get_epc_index(info, key, pt) ==
  LET i == FirstOf(ReservedBy(info, key))
  IN  [idx  |-> i,
       info |-> IF i = NoPage THEN info ELSE [info EXCEPT ![i].type = pt],
       ok   |-> TRUE]

\* Mutant: the scan runs from the top of the EPC.
reserve_epc_index_FromTop(info, key) ==
  LET i == IF Free(info) = {} THEN NoPage
           ELSE CHOOSE k \in Free(info) : \A j \in Free(info) : j <= k
  IN  [idx  |-> i,
       info |-> IF i = NoPage THEN info
                ELSE [info EXCEPT ![i] = [key |-> key, type |-> "RESERVED"]],
       ok   |-> TRUE]

reserve_epc_index(info, key) ==
  LET i == FirstOf(Free(info))
  IN  [idx  |-> i,
       info |-> IF i = NoPage THEN info
                ELSE [info EXCEPT ![i] = [key |-> key, type |-> "RESERVED"]],
       ok   |-> TRUE]

(* put_epc_index keeps the key of the page it frees.                       *)
put_epc_index(info, i) == [info EXCEPT ![i].type = "FREE"]

(***************************************************************************)
(* alloc_epc_index_pages takes the first free page beg and then the        *)
(* npages - 1 pages that follow it.  Three of its ends deserve a word:     *)
(*  - a run that would include the last page is refused (>=);              *)
(*  - when page i of the run is taken, the loop over j \in beg .. i-1      *)
(*    calls put_epc_index(i): page i, which belongs to somebody else, is   *)
(*    freed and pages beg .. i-1 stay reserved;                            *)
(*  - the second iteration of that loop finds page i FREE already and      *)
(*    fails put_epc_index's assertion.                                     *)
(***************************************************************************)
Run(beg, npages) == beg .. beg + npages - 1

Claim(info, run, key) ==
  [i \in Page |-> IF i \in run THEN [key |-> key, type |-> "RESERVED"]
                  ELSE info[i]]

Rollback(info, key, beg, busy) ==
  put_epc_index(Claim(info, beg .. busy - 1, key), busy)

alloc_epc_index_pages(info, npages, key) ==
  LET beg  == FirstOf(Free(info))
      busy == FirstOf(Run(beg, npages) \ Free(info))
  IN  CASE beg = NoPage ->
             [idx |-> NoPage, info |-> info, ok |-> TRUE]
        [] beg # NoPage /\ beg + npages >= NumEpc ->
             [idx  |-> NoPage,
              info |-> put_epc_index(Claim(info, {beg}, key), beg),
              ok   |-> TRUE]
        [] beg # NoPage /\ beg + npages < NumEpc /\ busy # NoPage ->
             [idx  |-> NoPage,
              info |-> Rollback(info, key, beg, busy),
              ok   |-> busy = beg + 1]
        [] OTHER ->
             [idx  |-> beg,
              info |-> Claim(info, Run(beg, npages), key),
              ok   |-> TRUE]

(* alloc_epc_page returns what reserve_epc_index returns.                  *)
alloc_epc_page(info, key) == reserve_epc_index(info, key)

\* Mutant: a released page keeps its type.
Released_KeyOnly(info, S) ==
  [i \in Page |-> IF i \in S THEN [info[i] EXCEPT !.key = 0] ELSE info[i]]

\* Mutant: a released page gets no key at all.
Released_NoKey(info, S) ==
  [i \in Page |-> IF i \in S THEN [key |-> -1, type |-> "FREE"] ELSE info[i]]

(* Both releases take the key from the page they are given, walk upwards   *)
(* from it, and reset the key to 0.                                        *)
Released(info, S) ==
  [i \in Page |-> IF i \in S THEN [key |-> 0, type |-> "FREE"] ELSE info[i]]

\* Mutant: the pages in use are released with the reserved ones.
free_reserved_epc_pages_All(info, beg) ==
  Released(info, {i \in Page : i >= beg /\ info[i].key = info[beg].key})

free_reserved_epc_pages(info, beg) ==
  Released(info, {i \in Page : i >= beg /\ info[i].key = info[beg].key
                                        /\ info[i].type = "RESERVED"})

free_epc_pages(info, beg) ==
  Released(info, {i \in Page : i >= beg /\ info[i].key = info[beg].key})
=============================================================================
