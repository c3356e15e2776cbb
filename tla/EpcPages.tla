------------------------------ MODULE EpcPages ------------------------------
(***************************************************************************)
(* The pages of the Enclave Page Cache.  NUM_EPC is defined once for the   *)
(* emulator (qemu/target-i386/sgx.h) and once for the user side            *)
(* (user/share/include/sgx-shared.h) with the same value; page i of the    *)
(* kernel's g_epc is entry i of the emulator's epcm.  Linear and physical  *)
(* addresses of an EPC page coincide (epc_to_vaddr), so a page index also  *)
(* stands for the page's linear address.                                   *)
(***************************************************************************)
EXTENDS Integers

CONSTANT NumEpc  \* NUM_EPC

ASSUME NumEpcAssumption == NumEpc \in Nat \ {0}

Page == 0 .. NumEpc - 1
NoPage == -1
PageOrNone == Page \cup {NoPage}
=============================================================================
