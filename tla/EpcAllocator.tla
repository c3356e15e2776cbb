---------------------------- MODULE EpcAllocator ----------------------------
(***************************************************************************)
(* The EPC page allocator of user/sgx-kern-epc.c behind its exported       *)
(* functions, called in any order by a client that, like the kernel and    *)
(* the file's own unit test, holds at most one run of pages per key and    *)
(* frees a run through the pointer alloc_epc_pages returned.               *)
(***************************************************************************)
EXTENDS EpcTable

CONSTANT MaxRun  \* the largest npages a client asks for

VARIABLES
  info,   \* g_epc_info
  runs,   \* the runs clients hold: key -> first page, or NoPage
  alive   \* FALSE once an assertion of the allocator has failed

vars == <<info, runs, alive>>

TypeOK ==
  /\ info \in [Page -> EpcInfo]
  /\ runs \in [Keys -> Page \cup {NoPage}]
  /\ alive \in BOOLEAN

Init ==
  /\ info = init_epc
  /\ runs = [k \in Keys |-> NoPage]
  /\ alive = TRUE

alloc_epc_pages(npages, key) ==
  LET out == alloc_epc_index_pages(info, npages, key)
  IN  /\ alive
      /\ runs[key] = NoPage
      /\ info' = out.info
      /\ alive' = out.ok
      /\ runs' = [runs EXCEPT ![key] = out.idx]

AllocEpcPage(key) ==
  /\ alive
  /\ info' = alloc_epc_page(info, key).info
  /\ UNCHANGED <<runs, alive>>

get_epc(key, pt) ==
  /\ alive
  /\ info' = get_epc_index(info, key, pt).info
  /\ UNCHANGED <<runs, alive>>

(* A client frees through the pointer of a run it still holds.             *)
Holds(key) ==
  /\ runs[key] # NoPage
  /\ info[runs[key]].key = key /\ info[runs[key]].type # "FREE"

FreeReservedEpcPages(key) ==
  /\ alive
  /\ Holds(key)
  /\ info' = free_reserved_epc_pages(info, runs[key])
  /\ UNCHANGED <<runs, alive>>

FreeEpcPages(key) ==
  /\ alive
  /\ Holds(key)
  /\ info' = free_epc_pages(info, runs[key])
  /\ runs' = [runs EXCEPT ![key] = NoPage]
  /\ UNCHANGED alive

Next ==
  \E key \in Keys :
    \/ \E npages \in 1 .. MaxRun : alloc_epc_pages(npages, key)
    \/ AllocEpcPage(key)
    \/ \E pt \in {"SECS", "TCS", "REG"} : get_epc(key, pt)
    \/ FreeReservedEpcPages(key)
    \/ FreeEpcPages(key)

Spec == Init /\ [][Next]_vars

-----------------------------------------------------------------------------
(* The pages an enclave holds under its key.                               *)
HeldBy(key) == {i \in Page : info[i].key = key /\ info[i].type # "FREE"}

(***************************************************************************)
(* A request for pages that cannot be met leaves the holdings of every key *)
(* as they were: the rollback in alloc_epc_index_pages announces that it   *)
(* will "restore and return".                                              *)
(***************************************************************************)
FailedAllocRestores ==
  [][\A key \in Keys, npages \in 1 .. MaxRun :
       alloc_epc_pages(npages, key) /\ runs'[key] = NoPage
         => \A k \in Keys : HeldBy(k)' = HeldBy(k)]_vars
=============================================================================
