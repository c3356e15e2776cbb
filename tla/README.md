# A TLA+ verification of OpenSGX

OpenSGX emulates Intel SGX: a modified QEMU (user mode) executes the ENCLS and
ENCLU instructions, a small "kernel" linked into the host program drives the
privileged ones, and a runtime loads an enclave, enters it and serves its
outward calls. This directory models the parts in which state is kept and
shared, checks them with TLC and proves the central guarantees with TLAPS.

Paths below are relative to the repository (`src/`); `H` stands for
`qemu/target-i386/sgx_helper.c`.

## 1. Inventory

| Component | State | Operations | Interacts with |
|---|---|---|---|
| EPC page allocator (`user/sgx-kern-epc.c`) | `g_epc_info`: key and type of every page | init, reserve, get, put, allocate a run, allocate a page, free reserved, free all | called by the kernel |
| Kernel emulation (`user/sgx-kern.c`) | `kenclaves[]`, the heap and stack globals | `sys_create_enclave`, `sys_add_epc`, `sys_stat_enclave`, `sys_sgx_init` | allocator below, ENCLS leaves by instruction |
| SGX instructions (`H`) | EPCM, SECS and TCS pages, `entry_eid`, `CR_*` registers | ECREATE, EADD, EEXTEND, EINIT, EAUG, EMODPR, EBLOCK; EACCEPT, EACCEPTCOPY, EMODPE | everything |
| Entry, exit, exceptions (`H`, `qemu/cpu-exec.c`, `translate.c`) | save areas (`gprsgx_t`), `TCS.cssa`, `CR_EXIT_EIP`, `CR_GPR_PA`, `CR_ENCLAVE_MODE` | EENTER, EEXIT, ERESUME, `helper_sgx_ehandle` | host, trampoline |
| Memory access checks (`H:1084-1171`) | none of their own | `helper_mem_access`, `helper_mem_execute` | `CR_ELRANGE`, `CR_ENCLAVE_MODE` |
| Launch control (`H:3671-3950`) | none | the checks of EINIT | SECS, SIGSTRUCT, EINITTOKEN |
| Keys and reports (`H`) | device keys | EGETKEY, EREPORT | SECS |
| Trampoline and stub (`user/sgx-trampoline.c`, `libsgx/`) | the shared stub page | outward calls, heap requests | EEXIT, ERESUME, `sys_add_epc` |
| User runtime, loader (`user/sgx-user.c`, ...) | `cur_keid`, `stub->tcs` | `init_enclave`, `enclu` wrappers | kernel, EENTER |
| Signing tool (`user/sgx-tool.c`, `sgx-crypto.c`, ...) | files | `generate_enclavehash`, signing | EINIT's expectations |
| Attestation (`libsgx/sgx-*-attest.c`) | sockets, keys | local and remote attestation | EREPORT, EGETKEY |

What is hard, and what makes each part correct:

* **Allocator.** Runs of pages that meet pages in use, the last page, rollback
  of half an allocation. Correct: a failed call changes nothing, no page is
  handed out twice.
* **Kernel.** A creation is some thirty instructions that can stop anywhere;
  the kernel's numbers and the emulator's numbers for an enclave come from two
  independent counters; the EPC layout must satisfy the checks EENTER makes
  much later. Correct: table and EPCM agree, a created enclave can be entered,
  one creation does not damage another.
* **Instructions.** The operating system is untrusted: any leaf, any operand,
  any order. Values checked at EENTER are used at EEXIT. Correct: ownership,
  identity and measurement of pages survive everything.
* **Entry and exit.** Control registers exist once while calls nest through
  several TCSs; exceptions arrive in between. Correct: both sides continue
  where they were.
* **Trampoline and library.** One stub page serves all calls, only some of its
  fields are cleared between them, transfers go in chunks that may come short,
  and the globals name the newest enclave. Correct: no call sees or returns what
  belongs to another, and every call ends.
* **Memory accesses.** A range check against what the kernel laid out. Correct:
  an enclave reaches its own pages and no other enclave's.
* **Signing tool.** It repeats the kernel's layout. Correct: it signs what the
  instructions measure.
* **Attestation.** Processes exchange reports over streams with reads that return
  parts of messages and peers that give up. Correct: who accepts whom is what the
  identities say, and a process does not wait for a peer that waits for it.

`PROJECT.json` lists the hazards one by one, at the line where each bites.

## 2. Modules

| Module | Models | Composes |
|---|---|---|
| `EpcPages` | the page numbers shared by kernel and emulator | |
| `EpcTable` | the allocator's functions, as operators on `g_epc_info` | `EpcPages` |
| `EpcAllocator` | the allocator called directly, in any order | `EpcTable` |
| `SgxEpcm` | one action per instruction leaf over EPCM, SECS, TCS, eids and control registers | `EpcPages` |
| `UntrustedOs` | those instructions in any order with any operands; the guarantees of SGX | `SgxEpcm` |
| `KernEnclave` | the kernel's system calls, one step per instruction; `generate_enclavehash` of the signing tool | `EpcTable`, `SgxEpcm` |
| `EnclaveCalls` | abstract: calls in both directions nest | |
| `EnclaveEntry` | registers and save areas through EENTER, EEXIT, ERESUME, exceptions; refines `EnclaveCalls` | `EnclaveCalls` |
| `SgxKeys` | what EINIT accepts and commits, the keys of EGETKEY, the key of EREPORT | |
| `EpcLife` | abstract: pages are taken once, eids given out in order, unmeasured pages wait for acceptance; implemented by `UntrustedOs` and `KernEnclave` (the mapping `Life` is in `SgxEpcm`) | |
| `StubCalls` | the stub page: the library's calls, the trampoline, the runtime that creates enclaves one after the other | |
| `EnclaveHeap` | runtime, kernel, instructions, heap requests through the trampoline and EACCEPT, the checks on memory accesses | `KernEnclave` (and with it `SgxEpcm`) |
| `Attestation` | local and remote attestation as processes over TCP | `SgxKeys` |
| `EpcLife_proofs` | each instruction, where the EPCM is in order (`EpcmOK`), is a step of `EpcLife`: lemmas | `SgxEpcm`, `TLAPS` |
| `UntrustedOs_proofs` | theorems about `UntrustedOs` | `UntrustedOs`, `EpcLife_proofs` |
| `KernEnclave_proofs` | theorems about `KernEnclave` | `KernEnclave`, `EpcLife_proofs` |
| `EnclaveHeap_proofs` | theorems about `EnclaveHeap` | `EnclaveHeap`, `KernEnclave_proofs` |
| `EnclaveEntry_proofs`, `StubCalls_proofs`, `SgxKeys_proofs` | theorems about the module each is named after | that module, `TLAPS` |
| `Attestation_proofs` | theorems about `Attestation` | `Attestation`, `SgxKeys_proofs` |
| `MCUntrustedOs`, `MCEnclaveEntry`, `MCSgxKeys`, `MCAttestation` | constants for TLC | |

### How state and actions correspond

*Pages and addresses.* OpenSGX maps EPC pages so that linear and physical
addresses coincide. A page is its index, and an address is a page index; byte
offsets inside a page are kept only where a check turns on them (`atStart` in
EMODPE and EACCEPTCOPY, whose comparison of `enclave_addr` is inverted).

*Faults.* A leaf that raises `#GP` is not a step of `SgxEpcm`: the process gets
SIGSEGV, nothing installs a handler, and emulator and enclaves end with it, so
what a faulting leaf has already written is never observed. `KernEnclave` does record it, as
the end of the process (`status`), because which creation ends the process is
one of its questions. The operators `EcreateOK`, `EaddOK`, `EaugOK` are the
conjunctions of the checks that separate the two cases.

*Measurement.* `MRENCLAVE` is the sequence of updates that were hashed; a hash
is taken to be injective. The sixteen EEXTENDs of a page are one step.

*EINIT's verdict* (signature, attributes, token) is a nondeterministic Boolean
in `SgxEpcm` and `KernEnclave`: accepted and rejected enclaves both occur. What
decides it is `EinitOK` of `SgxKeys`.

*Keys.* In `SgxKeys` a key is the `keydep_t` it is derived from, since
`sgx_derivekey` hashes that with the device key. An attribute field is the set
of its flags. EINIT, EGETKEY, EREPORT and the updates of the measurement
(`Measure`) come in any order: `sgx_egetkey` and `sgx_ereport` do not ask whether
the enclave is initialised (the tests with `checkEINIT` in EENTER and ERESUME never
fire, the one in EAUG is EAUG's), and a second EINIT commits again. MRSIGNER
starts as what ECREATE's caller left in the source page. `key` keeps, beside the
key an enclave got last, the request and the SECS it was derived from, since the
SECS may change afterwards. The operands are in pages that pass
`sgx_egetkey_common_check`.

*Disabled code is disabled in the model.* EREMOVE is commented out of the
dispatcher, EPA cannot succeed and with it EWB and ELDB/ELDU cannot, EMODT and
ETRACK have no case. EADD has no range check and no test for an initialised
enclave; EENTER's test for EINIT never fires. No ENCLU leaf reads
`CR_ENCLAVE_MODE`, and `CR_ACTIVE_SECS`, `CR_TCS_LA` and `CR_GPR_PA` keep their
values after EEXIT.

*Save frames.* The frame size is the kernel's, one page (`ssaFrameSize = 1`);
frame `n` of a TCS is page `base + ossa + n`. In `EnclaveEntry` a context is an
instruction pointer and the registers `saveState` stores, and the guard
`inside` says whose code executes; it differs from `CR_ENCLAVE_MODE` exactly
after an exception. Of EENTER and ERESUME it contains what follows the checks,
which are in `SgxEpcm`.

*The kernel* runs in its caller's only thread, so there is one system call at a
time; `call` holds its program counter and locals. `sys_create_enclave` returns
-1 after a rejected EINIT and a caller may go on; the runtime in the repository
calls `err()` there. `KernEnclave` lets the caller go on, since the function's
contract does; `EnclaveHeap`, which contains the runtime, ends there.

*The signing tool.* `generate_enclavehash` is the sequence of updates it hashes,
compared with the sequence the instructions hashed. Contents of pages are not in
the sequence, so one thing about them rests on reading the code: for TLS, SSA, stack
and heap pages the tool copies the pointer `empty_page` itself into a zeroed page
(`sgx-crypto.c:354`, `373`, `382`, `391`), not what it points to. That equals the zero
page the kernel adds only as long as the tool leaves the pointer NULL, which it does:
only `sys_sgx_init` of the kernel emulation sets it (`sgx-kern.c:429`).

*The stub.* A scalar field of `StubCalls` is `"new"` when the call in progress
wrote it, `"old"` when an earlier one did, `"zero"` when it is cleared; a data
byte is its position in the transfer, zero, or stale. That is what the properties
tell apart, and it makes every leftover visible. The function codes are those of
`fcode_t`, FUNC_MALLOC split by `mcode_t`; `Sets`, `Reads`, `Uses`, `FillsData`
list which fields each side of which code touches. `SGXLIB_MAX_ARG` is `MaxArg`.
`lost` is the `default:` branch, which returns where nobody called.

*The heap.* In `EnclaveHeap` an access is a page and whether it goes to the page's
first byte, because `is_within_enclave` counts the byte after the range as inside.
The permission tests of `helper_mem_access` write to the log only; outside enclave
mode all tests do. The EPC's own bounds (`is_within_epc`) are exact.

*Attestation.* Each of the five functions is a sequence of operations; `pc` is the
place in it. A message is two units on the wire, so that `sgx_read_sock`, which
takes whatever one `read` returns, can get half of it. The key request is built on
an uninitialised stack: the half of the keyid that is not assigned is zero or not,
and a reserved field may make EGETKEY fault. A write to a connection that was reset
fails, and the function goes to its `failed` label (the target, having sent "Good",
only prints and goes on), or raises SIGPIPE. RSA is a comparison; the challenger's
check covers the signature only, since the hash length it passes is 0.

## 3. Runs

Properties that hold:

* `untrusted_os` (`MCUntrustedOs`, `UntrustedOs.cfg`). Three pages, up to two
  enclaves, a plain TCS and one that claims a frame in use and debugging, linear
  addresses equal to the page's and one off in either direction.
  Three pages are the least an enclave that can be entered needs (SECS, TCS, SSA
  frame), and leave two SECS pages plus one for the ownership questions. Checks
  `TypeOK` (with it, that `cssa`, unsigned in the code, never goes below zero),
  `OwnedBySecs`, `EidsUnique`, `PagesMeasuredBeforeInit`, `SaveAreaInEnclave`,
  `PageIdentityStable`.
* `dynamic_pages` (`UntrustedOsDynamic.cfg`). Six pages, two enclaves whose ranges
  overlap. Under `MCPairSpec` the first five steps add SECS, TCS and frame of one
  enclave and SECS and a page of another; from then on every leaf is free. The sixth
  page may become a dynamic page of either enclave, or a TCS through which the second
  one is entered, so that `CR_ACTIVE_SECS` changes hands. Without the fixed beginning
  the same instance has millions of states that differ in where the pages lie. Checks
  `PendingIsAugmented` and `PermissionsExtendedByOwner` through EAUG, EACCEPT,
  EACCEPTCOPY, EMODPE, EMODPR, EBLOCK, entries and exits in any order. The latter
  says that no ENCLS leaf extends a page in use, that EMODPE and EACCEPTCOPY extend
  pages of the enclave entered last and of no other, and that a page that has grown
  is not pending. It does not say that the enclave itself issued the leaf: the code
  lets anyone do so after EEXIT, for the enclave entered last.
* `kernel` (`KernEnclave.cfg`). 28 pages, three slots, enclaves of 8 and 16
  pages: with one page of code a layout fills its power of two exactly and leaves
  `sys_add_epc` no page inside the enclave, with two it leaves seven.
  The EPC has room for some sequences of creations and not for others; EINIT
  accepts or rejects. The process's ends are states the model stays in.
  Checks the nine invariants of `KernEnclave` and `MeasurementFinal`, which holds
  under this kernel although not for the instructions alone. `OccupiedIsPrefix`
  explains why the faulty rollback of the allocator is never reached through the
  kernel; `PagesInElrange` shows that EADD's disabled range check would hold, even
  though the ELRANGEs of two enclaves overlap: an enclave's unused tail is released
  and used by the next one.
* `enclave_calls` (`MCEnclaveEntry`, `EnclaveEntry.cfg`). Two TCSs with two frames
  each (the value the kernel sets), two host call sites on different stacks, two
  enclave contexts, under `CallSpec` (no exceptions). Checks that the frames and
  registers implement `EnclaveCalls`. Two frames let a call nest inside a pending
  outward call of the same TCS, two TCSs let calls interleave; the threads are
  symmetric.

* `keys` (`MCSgxKeys`, `SgxKeys.cfg`). Two enclaves of two builds, one debuggable,
  one with the flags for the launch and provisioning keys and a MRSIGNER its creator
  chose; SIGSTRUCTs that differ in header, signature, signer, enclave hash and
  attribute mask; tokens that are valid, invalid, of a debug launch enclave or too new;
  all kinds of keys, and reports to targets that match or miss in one field. EINIT,
  EGETKEY, EREPORT and updates of the measurement come in any order and again. Two
  enclaves are enough because the properties are about pairs. Checks
  `LaunchersInitialisedByIntel`, `ReportForTarget` (EREPORT and EGETKEY, which fill
  the same structure in two places, agree exactly for the target) and
  `SealKeysSeparate`. What the first one says is less than one might expect: EGETKEY
  gives the launch key to any enclave whose SECS has the flag, initialised or not.
  The flag and the signer check of EINIT together only see to it that an enclave that
  has the key, whenever it got it, is never accepted under another signer's name, on
  no path through EINIT and by no second EINIT.

* `stub_calls` (`StubCalls`, `StubCalls.cfg`). Two enclaves, every library
  function, fields of two bytes and transfers up to five, so that transfers have
  none, one or two full chunks and a full, partial or empty last one. The
  host functions move fewer bytes than asked, fail, or block. `CallSeenIntact` and
  `AnswerIsOwn`: out_arg3, out_arg4, in_arg1 and others are never cleared, and puts
  copies no terminator, yet no call is served with or returns an earlier call's
  values. `TrampolineServesCaller`: `stub->tcs`, `cur_keid` and the heap bounds,
  overwritten by every creation, belong to the caller, because `main` runs an
  enclave to its end before it creates the next. `TransfersAccounted`: what write
  reports as sent was sent, what read took arrives in order; after a failed chunk
  read's count is off by one, and recv's starts uninitialised, so the property
  claims the count for read without failures and the data for both. `CallEnds` is
  the liveness of a call.
* `heap` (`EnclaveHeap`, `EnclaveHeap.cfg`). 25 pages, two enclaves of either code
  size, created and run one after the other, growing their heap. `OwnPagesUsable`
  and `OthersUnreachable` relate the range the emulator checks with the pages the
  kernel handed out; the byte after the range, which counts as inside, and the
  unused tail of a range belong at most to enclaves created later, and `main` does
  not go back to an enclave once it has created another.
  `PageIsAcceptable`: the page of a heap request belongs to the enclave that asked
  and passes every check of EACCEPT (`EacceptOK`); the null page of a used-up EPC
  never gets that far, because EAUG has faulted outside the range before. `RequestEnds` is its liveness.
* `attestation` (`MCAttestation`, `Attestation.cfg`). Three builds that differ in
  measurement, attributes and MISCSELECT, five .conf files that match or miss, both
  modes, every operation that can fail failing. `VerdictsExact` says who accepts
  whom, with the role MISCSELECT plays as mask; `QuoteSpeaksForTarget` what a
  successful challenger holds; `NoCircularWait` that nobody waits in a circle.

`untrusted_os` also checks `PagesLive`, that EPCM, SECS pages and eid lists
implement `EpcLife`; the kernel's instructions are among the ones it issues, so
`kernel` does not check it again. `kernel` checks `SignedIsMeasured`: what the signing
tool signs is what is measured, wherever in the EPC the enclave comes to lie.

Disagreements between the code and what its comments say (each a finding in
`PROJECT.json` with the quoted line):

* `alloc_rollback`: a failed allocation frees the page it met and keeps its own.
* `resume_after_exception`: the exception handler saves no instruction pointer,
  so the enclave resumes somewhere else. This is why `enclave_calls` leaves
  exceptions out: with them the stack discipline does not hold, and the frame
  count only grows for an interrupt that returns into the enclave.
* `answers_in_out_fields`: time takes its answer from an output field, which the
  trampoline clears before the enclave is resumed (accept loses the length of the
  peer's address the same way).
* `failure_is_reported`: a process whose peer has closed the connection calls read
  for ever; the program never says that attestation failed.

More differences show in the definitions without a run of their own: EENTER's test
for EINIT never fires (`EENTER`), and EGETKEY and EREPORT have none; EADD, EEXTEND and EINIT go on after EINIT
(`MeasurementFinal` holds for the kernel, not for the instructions); a TCS added
with DBGOPTIN keeps it (`EADD`); the call beyond the last slot writes
`kenclaves[-1]` (`CreateFull`); EINIT rejects when the check of the SIGSTRUCT's
fields succeeds, which it hardly ever does because it compares a nibble with a byte
(`EinitOK`); the comparison of the EINITTOKEN with the enclave is compiled out
("XXX: Bypass"); a seal key depends on the enclave's own version where the comment
on `keyrequest_t.isvsvn` speaks of the requested one.

### Bounds

The real constants are `NUM_EPC` 2000, 250 stack pages, 300 heap pages, 16
enclaves. `MaxEid`, `MaxUpdates` and `MaxCssa` bound the counters of
`UntrustedOs`; they appear as guards in its `Next` only, never in the
instructions, and the theorems hold for every value of them. `MaxCssa` in
`EnclaveEntry` is one above `Nssa`, since only an exception moves `cssa` there.
The kernel's control does not depend on how many pages a region has beyond one,
except through the rounding to a power of two, which the two code sizes exercise.

`MCSgxKeys` gives the fields of signatures, tokens and requests two or three
values each: the conditions of EINIT and EGETKEY compare fields with each other
or with one constant, so a value that matches and one that does not are enough
(`CpuSvn` is 1, with versions on both sides of it).

`NumEnclaves`, `MaxArg` and `MaxCount` of `StubCalls`: two enclaves give an older
and a newer one, two bytes a first and a last byte of a field, five bytes two full
chunks and a partial one. `EnclaveHeap` has two enclaves and 25 pages, enough for
two of the larger kind up to the last page, which the allocator refuses, and for
heap requests that stay inside the range, leave it, or find no page.

Deadlock is checked in `KernEnclave` and `EnclaveEntry`. It is off in the
`UntrustedOs`, `EpcAllocator` and `SgxKeys` runs: at the bounds, or when no
enclave is accepted, the environment has nothing left to issue. It is off in
`StubCalls`, `EnclaveHeap` and `Attestation` because a process there ends, by
`exit`, a fault or the end of its program.

### Fairness

* `StubCalls`, `EnclaveHeap`: the trampoline and the enclave are one thread, and
  whichever has control goes on: weak fairness of `CallOut`, `sgx_trampoline` and
  `Return`, and of `TrampolineAdds`, `Resume` and `Accept`. What the enclave does
  next (`Begin`, `RequestPage`) is its own choice and has none. A host function may
  block for ever (`Block`); `Unblock` has no fairness and `CallEnds` assumes that
  host functions return.
* `Attestation`: each process is scheduled by its own kernel, so weak fairness of
  each process's steps.
* Elsewhere none is assumed and no liveness claimed: the environment of
  `UntrustedOs` owes nothing, and the kernel's steps are straight-line code.

## 4. Proofs

Everything below is proved for every value of the constants: any number of pages,
enclaves, threads, frames, any operands, layouts, field sizes and transfer lengths.
Every invariant and every action property that a passing run checks on a small
instance, the two refinements included, is a theorem, except those listed at the end
of this section. The assumptions are the named ASSUMEs of the modules, which TLC
evaluates in the runs. Apart from those discussed below they give the constants
their types.

### Instructions in any order: `UntrustedOs_proofs`

| Theorem | States |
|---|---|
| `TypeCorrect` | `Spec => []TypeOK` |
| `Ownership` | `Spec => []OwnedBySecs` |
| `EidUniqueness` | `Spec => []EidsUnique` |
| `PendingPages` | `Spec => []PendingIsAugmented` |
| `SaveArea` | `Spec => []SaveAreaInEnclave` |
| `NothingUnmeasured` | `Spec => []PagesMeasuredBeforeInit` |
| `PageIdentity` | `Spec => PageIdentityStable` |
| `PermissionExtension` | `Spec => PermissionsExtendedByOwner` |
| `Lifecycle` | `Spec => PagesLive` (implements `EpcLife`) |

The argument has three layers.

1. *Types.* One case per instruction (`EnclsType`, `EncluType`). Record lemmas
   (`EntryType`, `WidenType`, `MeasuredType`, `EnterType`, `FrameUsedType`) keep
   the leaves small.
2. *Effects.* `StepEffect` says what any instruction may do to a page: keep it
   (`Kept`), make it a SECS (`Created`) or add it to one (`Added`), and what it
   may do to the eids and the registers. `EnclsEffect` and `EncluEffect` show
   it instruction by instruction; the invariants are then proved once against
   `StepEffect` and not once for each of fourteen leaves. `MeasureEffect` does the
   same for measurements: none is shortened or rewritten, and a page that becomes
   valid has its update or belongs to an initialised enclave.
   `NothingUnmeasured` follows from it with `EidsUnique` and `PageIdentityStable`.
   `PermissionExtension` adds, leaf by leaf, that no ENCLS leaf extends a page in use
   (`EnclsRestricts`).
3. *Invariants.* `IInv` is `TypeOK` and the four invariants, strengthened by
   `InvalidNotPending`: an entry that is not valid is not pending.
   `PendingIsAugmented` is not inductive without it, because `set_epcm_entry`
   does not reset the flag: a free entry with `pending` set would become, by
   EADD, a pending page of an enclave that may not be initialised. It holds
   since entries start zeroed and are never freed, so the proof also says what
   enabling EREMOVE, or calling `encls_epcm_clear`, would have to do.

`EpcLife_proofs` matches each leaf with one abstract action (`CreateStep`,
`AddStep`, `AugmentStep`, `InitialiseStep`, `EntryStep`) or a stutter, in every
state in which the EPCM is in order (`EpcmOK`). The mapping reads the owner of a
page through its SECS, so `EpcmOK` contains `OwnedBySecs` (ECREATE overwrites a page
no other page points to) and `InvalidNotPending` (EADD makes no page wait). The
lemmas do not mention who issues the leaf, and serve `Lifecycle` and `KernLifecycle`.

### The kernel: `KernEnclave_proofs`

| Theorem | States |
|---|---|
| `KernTypes` | `Spec => []TypeOK` |
| `NoHoles` | `Spec => []OccupiedIsPrefix` |
| `ReservationEnough` | `Spec => []ReservationSuffices` |
| `TableAgrees` | `Spec => []TableMatchesEpcm` |
| `KeidsMatch` | `Spec => []KeidIsEid` |
| `InRange` | `Spec => []PagesInElrange` |
| `FaultsExplained` | `Spec => []CreateFaultsOnlyAfterFailure` |
| `Signed` | `Spec => []SignedIsMeasured` |
| `AlwaysEnterable` | `Spec => []CreatedIsEnterable` |
| `RegionsRight` | `Spec => []RegionsOfNewest` |
| `MeasuredForGood` | `Spec => MeasurementFinal` |
| `KernLifecycle` | `Spec => PagesLive` |

The invariant `KInv` describes a creation at every point at which it can stop. A
single number, `Used`, tells how far it got, and each part is about the pages below
and above it:

* `RunOK`, `TableOK`: the run of the creation and the table `g_epc_info`. Below
  `enclave + Used` every page is in use, from there to the end of the run every page
  is reserved for this creation, above it every page is free. `OccupiedIsPrefix`
  and `ReservationSuffices` are not inductive without it: get_epc must find its page
  at the bottom of what is reserved.
* `SlotsOK`, `SlotOrder`: slots are taken in the order of the eids, also by
  creations that fail. `KeidIsEid` needs to know that the two counters move in step,
  which they do only between the two statements that advance them (`Taken`).
* `PagesOK`, `ValidInUse`, `InitialisedCreated`: a valid page lies in its enclave's
  range, and one that the table calls free was left by a failed creation. This is
  what makes every check of ECREATE, EADD and EAUG succeed and so what
  `CreateFaultsOnlyAfterFailure` needs.
* `LayoutOK`, `Marks`, `HashOK`: pages, markers and updates so far are those of the
  layout. `HashOK` compares with the tool's sequence update by update, so that
  `SignedIsMeasured` is a matter of its length at the end.

`RoundingAssumption` says that the power of two `rop2` takes is at least the number
of pages and less than twice it. It is true of all naturals; it is stated because
the provers know nothing of powers, and TLC evaluates it for the sizes of the runs.

`MeasuredForGood`, `AlwaysEnterable`, `RegionsRight` and `KernLifecycle` rest on
`StepIssues`: a step of the kernel issues one of five leaves with operands of the
creation in progress, or none (`Issues`). The instructions alone do not keep
`MeasurementFinal`; what keeps it is that the leaves that measure are issued for the
enclave being built, which is not initialised yet.

### Enclaves that run: `EnclaveHeap_proofs`

| Theorem | States |
|---|---|
| `OwnReachable` | `HeapSpec => []OwnPagesUsable` |
| `OthersOutOfReach` | `HeapSpec => []OthersUnreachable` |
| `PageAccepted` | `HeapSpec => []PageIsAcceptable` |

`HeapInv` is `KInv` and `UserInv`. That an enclave reaches no page of another one is
due to the order of creations: the range of an enclave may well contain pages of
later ones. `CurNewest` is the fact that carries it (what is not the running
enclave's own lies below it), `CurOK` and `ActiveOK` say that the runtime's globals
and the control registers name this enclave, and `FailureEnds` that there is no
creation after a failed one. `LastFree` shows that the last page of the EPC is never
used, because the allocator refuses a run that ends there and EAUG refuses a page
outside every range; so `sys_add_epc` always finds a page, and the null page that it
would pass to EAUG does not occur. `EntriesOK` is what EACCEPT compares.

### Calls: `EnclaveEntry_proofs`

| Theorem | States |
|---|---|
| `EntryTypes` | `CallSpec => []TypeOK` |
| `FirstFreeFrame` | `CallSpec => []RunsInFirstFreeFrame` |
| `CallsRefine` | `CallSpec => CallsNest` (implements `EnclaveCalls`) |

`CInv` adds to the two invariants that a running enclave has a frame left
(`FrameLeft`): EENTER checks it, ERESUME makes room for it, EEXIT checks nothing and
uses it up. The refinement is proved action by action. The mapping reads the
suspended calls of a thread from the frames below `cssa`, so a step must change the
frame at `cssa` only, which is `RunsInFirstFreeFrame`. `CallersAssumption` and
`ContextsAssumption` say that a context has an instruction pointer and registers and
no other field.

### Outward calls: `StubCalls_proofs`

| Theorem | States |
|---|---|
| `StubTypes` | `Spec => []TypeOK` |
| `ArgumentsIntact` | `Spec => []CallSeenIntact` |
| `AnswersOwn` | `Spec => []AnswerIsOwn` |
| `CallerServed` | `Spec => []TrampolineServesCaller` |
| `BytesAccounted` | `Spec => []TransfersAccounted` |

`SInv` has a part for who is served (`OneServed`, `OwnHeaps`), one for the call in
progress (`CallOK`), one for the data fields (`OutDataOK`) and one for the transfer
(`TransferOK`). `CallSeenIntact` needs `OutDataOK`: out_data1 is clear when a call
begins and then holds exactly the bytes of the current chunk, which explains why
puts, which copies no terminator, is served correctly. `TransferOK` speaks about
every chunk and not only about the end of the call: how many bytes have been handed
to the host (`Reached`), what the count will be when the pending answer is added
(`Total`), and which bytes of the caller's buffer have arrived; the bytes in the stub
that are not copied yet (`Uncopied`) make the two halves of a chunk agree. The
arithmetic of chunks is in lemmas about division.

### Keys: `SgxKeys_proofs`

| Theorem | States |
|---|---|
| `ReportTargets` | `Spec => []ReportForTarget` |
| `SealSeparation` | `Spec => []SealKeysSeparate` |
| `Launchers` | `Spec => []LaunchersInitialisedByIntel` |

Assumptions: a measurement is never 32 zero bytes, and finalising one gives a
measurement. The inductive invariant adds to the properties where a key comes from.
`KeysDerived` says that a key in somebody's hands was derived from the SECS kept with
it, in which EGETKEY's conditions held, and that the holder's attributes are still
those; measurement and signer may have changed since. `Committed` says that an
accepted enclave with the launch flag carries Intel's signature; it survives a second
EINIT because that one passes the same check, and together with the unchanged
attributes it covers a key obtained before EINIT. `SealSeparation` needs the first
assumption: with a zero measurement a key bound to nothing and a key bound to the
enclave would coincide. For MRSIGNER nothing excludes zero before EINIT, and the
property claims nothing for a signer that is zero.

### Attestation: `Attestation_proofs`

| Theorem | States |
|---|---|
| `VerdictsRight` | `AttestSpec => []VerdictsExact` |
| `QuoteSpeaks` | `AttestSpec => []QuoteSpeaksForTarget` |

The programs are sequences of operations, so the proof begins by saying what each of
the five does at which step (`IntraChallengerSteps` to `RemoteQuoteSteps`) and what
each operation does to program counter, connections and buffers (`Moves`, `Written`,
`ReadFrom`, `Signs`). A write that fails leaves the connection alone; it ends the
function or, after "Good", goes on. Everything after that is about two invariants.

* `AInv`, for the verdicts. `Exchange` follows the two reports: from the moment one
  is sent until it is read it is the first thing on its connection; whoever has read
  has the whole of it or half of it; whoever has verified has the whole of it.
  `Verdicts` says the same as `VerdictsExact` in terms of program counters. The step
  that matters is `Verify`, where `sgx_match_mac` compares two key dependencies that
  EREPORT and EGETKEY have filled independently; `ReportKeyMatches` of
  `SgxKeys_proofs` says when they are equal.
* `QInv`, for the quote. The challenger checks the signature, which is the second
  half of the quote, and nothing of the body, which is the first half. The property
  therefore needs that a second half never travels, and is never kept, without its
  own first half in front of it. A read that begins with a second half would separate
  the two: the target would pass it on padded with zeros, behind whatever it read
  before, and a later read of the challenger could pair it with something else.
  `ToTarget` shows why that does not happen on the way to the target: with n reads to
  come, a second half is at least 2n units away, because everything the quoting
  enclave sends before the quote is two units long and the number of messages sent
  (`SentOnQ`) and reads done (`ReadsLeft`) tell how much is waiting. So the target
  reads at most the pair, together, in its last read. `Buffers` and
  `ToChallenger` carry it on from there; the latter also says that the challenger
  hears of the target only after the target has verified the quoting enclave, which
  is where `ConfMatches` and `MiscCovered` come from.

The assumptions are that the modes are the two the library has and the enclaves the
three processes, and those of `SgxKeys`.

### Only model-checked

* Liveness: `CallEnds`, `RequestEnds`, `NoCircularWait`. Fairness and ENABLED are
  out of the prover's reach.
* The four disagreements: their runs are counterexamples. `EpcAllocator` has no
  other run; the allocator's functions as the kernel uses them are part of
  `KernEnclave_proofs`.

## 5. Not modelled

* Contents of pages and of reports, cryptography, file formats.
* The `OSGX_` hypercalls, "custom (non-spec) hypercalls: for setting up qemu"
  (`H:4912`), as steps of `UntrustedOs`: OSGX_INIT is the initial state,
  OSGX_SET_STACK is `esp` of `KernEnclave`, OSGX_PUBKEY and OSGX_CPUSVN are the
  constants `IntelKey` and `CpuSvn`, OSGX_STAT reads counters. OSGX_EPCM_CLR makes
  an EPCM entry invalid whatever it holds; `encls_epcm_clear` in the kernel, which
  issues it, has no caller. Issued on a SECS page it would break `OwnedBySecs`, so
  the guarantees are those of the instructions and not of these hypercalls. It is
  also what a rejected creation would need for `CreateFaultsOnlyAfterFailure` to
  become "never".
* The operand checks of EGETKEY and EREPORT.
* r8 to r15, FS, GS, XCR0 and the XSAVE area at entry and exit; nothing saves
  r8 to r15.
* Accesses from outside enclave mode, and the read and write permissions of a
  page in `helper_mem_access`: the code only logs them.
* The mailboxes `in_shm` and `out_shm` (`sgx_host_read`, `sgx_host_write`), which
  the trampoline does not serve; what the payloads of outward calls mean; strings
  and addresses longer than a field.
* The vendored C library and allocator (dlmalloc), apart from the functions
  OpenSGX replaced. Its `sys_alloc` does not return what it got.
* The ELF loader, the command line and the file formats of the signing tool:
  sequential code without shared state.
* The rest of the repository: QEMU's own sources, its ROMs and vendored libraries
  (including mbed TLS/PolarSSL and musl) are not OpenSGX's code.
* The statistics counters (`PERF`), with `sys_stat_enclave`; `KeidIsEid` is the
  property they depend on. `removeEnclaveEntry` at EEXIT updates a tracking list
  that no modelled instruction reads.
* The exhausted EPC: `sys_create_enclave` then calls `free_epc_pages(NULL)`, whose
  index is far outside the table. The model ends there (`nullfree`).

## 6. Plan

Done: every component with state of its own has a model, and its safety properties
are proved. What is left is outside the prover's reach (liveness) or outside the
models (section 5). When the code changes: a change to the programs in `libsgx` shows
first in the tables of steps of `Attestation_proofs`, one to the kernel's page table
in `RunOK`, one to an instruction in `StepEffect`.
