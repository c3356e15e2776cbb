------------------------- MODULE KernEnclave_proofs -------------------------
(***************************************************************************)
(* What the kernel emulation guarantees for every size of the EPC, every   *)
(* number of enclaves and every layout.                                    *)
(***************************************************************************)
EXTENDS KernEnclave, EpcLife_proofs, WellFoundedInduction

-----------------------------------------------------------------------------
(* Scans.                                                                  *)

(* A scan that has something to find stops at the least index.             *)
LEMMA FirstOfLeast ==
  ASSUME NEW S \in SUBSET Nat, S # {}
  PROVE  FirstOf(S) \in S /\ \A j \in S : FirstOf(S) <= j
<1> DEFINE less == {ss \in Nat \X Nat : ss[1] < ss[2]}
<1>1. \E x \in S : \A y \in S : ~(<<y, x>> \in less)
  <2>1. IsWellFoundedOn(less, Nat)
    BY NatLessThanWellFounded DEF OpToRel
  <2> HIDE DEF less
  <2> QED
    BY <2>1, WFMin
<1>2. PICK x \in S : \A y \in S : ~(<<y, x>> \in less)
  BY <1>1
<1>3. ASSUME NEW y \in S PROVE x <= y
  <2>1. x \in Nat /\ y \in Nat
    OBVIOUS
  <2>2. ~(y < x)
    BY <1>2, <2>1
  <2> QED
    BY <2>1, <2>2
<1> QED
  BY <1>3 DEF FirstOf

(* Where it stops is known when the least index is.                        *)
LEMMA FirstOfIs ==
  ASSUME NEW S \in SUBSET Nat, NEW m \in S, \A j \in S : m <= j
  PROVE  FirstOf(S) = m
<1>1. FirstOf(S) \in S /\ \A j \in S : FirstOf(S) <= j
  BY FirstOfLeast
<1>2. FirstOf(S) \in Nat /\ m \in Nat
  BY <1>1
<1>3. FirstOf(S) <= m /\ m <= FirstOf(S)
  BY <1>1
<1> QED
  BY <1>2, <1>3

(* A scan that has nothing to find returns -1.                             *)
LEMMA FirstOfNone == FirstOf({}) = NoPage
BY DEF FirstOf

-----------------------------------------------------------------------------
(* The regions of an enclave follow one another and none is empty.         *)
LEMMA Layout ==
  ASSUME NEW code \in CodePages
  PROVE  /\ code \in Nat /\ SsaStart(code) \in Nat /\ StackEnd(code) \in Nat
         /\ RegPages(code) \in Nat /\ TotalPages(code) \in Nat
         /\ SsaStart(code) + SsaPages + StackPages = StackEnd(code)
         /\ RegPages(code) = StackEnd(code) + HeapPages
         /\ TotalPages(code) = 2 + RegPages(code)
         /\ SsaPages >= 1 /\ StackPages >= 1 /\ HeapPages >= 1 /\ SsaStart(code) >= 2
         /\ SsaPages \in Nat /\ StackPages \in Nat /\ HeapPages \in Nat
BY LayoutAssumption DEF SsaStart, StackEnd, RegPages, TotalPages

(* The run is a power of two with room for every page.                     *)
LEMMA RoundUp ==
  ASSUME NEW code \in CodePages
  PROVE  /\ rop2(TotalPages(code)) \in Nat
         /\ TotalPages(code) <= rop2(TotalPages(code))
         /\ PowerOfTwo(rop2(TotalPages(code)))
<1> DEFINE Pow(k) == 2 ^ k
<1> DEFINE val == TotalPages(code)
<1>1. val \in Nat
  BY Layout
<1>2. PICK k \in 0 .. val : val <= Pow(k) /\ Pow(k) < 2 * val
  BY RoundingAssumption
<1>n. \A j \in 0 .. val : Pow(j) \in Nat
  BY RoundingAssumption
<1>3. rop2(val) = CHOOSE n \in {Pow(j) : j \in 0 .. val} : val <= n /\ n < 2 * val
  BY DEF rop2
<1>p. \A n : PowerOfTwo(n) <=> \E j \in 0 .. n : n = Pow(j)
  BY DEF PowerOfTwo
<1> HIDE DEF Pow, val
<1>4. rop2(val) \in {Pow(j) : j \in 0 .. val} /\ val <= rop2(val) /\ rop2(val) < 2 * val
  BY <1>2, <1>3
<1>5. PICK j \in 0 .. val : rop2(val) = Pow(j)
  BY <1>4
<1>6. rop2(val) \in Nat /\ j \in 0 .. rop2(val)
  BY <1>1, <1>4, <1>5, <1>n
<1>7. PowerOfTwo(rop2(val))
  BY <1>5, <1>6, <1>p
<1> QED
  BY <1>4, <1>6, <1>7 DEF val

-----------------------------------------------------------------------------
(* The inductive invariant.  Creating: a creation holds its run of pages.  *)
Creating == status = "run" /\ call.step # "idle"

(* The pages of the run, from the bottom, that get_epc has handed out.     *)
Used == CASE call.step = "tcs"     -> 1
          [] call.step = "eadd"    -> 2 + call.added
          [] call.step = "eextend" -> IF call.page = call.tcs THEN 2 ELSE 3 + call.added
          [] OTHER                 -> 0

CallOK ==
  /\ call \in [step : {"idle", "ecreate", "tcs", "eadd", "eextend"}, eid : Keid,
               enclave : PageOrNone, npages : Nat, code : Nat, tcs : PageOrNone,
               page : PageOrNone, added : Nat]
  /\ status = "run" /\ call.step = "idle" => call = Idle

(* The creation's arguments and its run: it has room for all its pages.    *)
RunOK ==
  Creating =>
    /\ call.enclave \in Page /\ call.code \in CodePages
    /\ call.npages = rop2(TotalPages(call.code))
    /\ call.enclave + call.npages < NumEpc
    /\ Used <= TotalPages(call.code)

(* Below the run every page is in use, above it every page is free, and    *)
(* the run is in use up to a page and reserved from there.                 *)
TableOK ==
  Creating =>
    \A p \in Page :
      /\ p < call.enclave + Used => info[p].type \in PageType
      /\ call.enclave <= p /\ p < call.enclave + call.npages
           => info[p].key = call.eid
      /\ call.enclave + Used <= p /\ p < call.enclave + call.npages
           => info[p].type = "RESERVED"
      /\ call.enclave + call.npages <= p => info[p].type = "FREE"

(* A page carries the number of a slot, a free one as well.                *)
KernInfo == [key : Keid, type : EpcType]

KeysOK == info \in [Page -> KernInfo]

NoneReserved ==
  Running("idle") => \A p \in Page : info[p].type # "RESERVED"

(* The slots are taken in order, one for each eid.                         *)
Taken == IF call.step = "ecreate" THEN nextEid + 1 ELSE nextEid

SlotOK(k) ==
  /\ kenclaves[k].state = "CREATED" => kenclaves[k].secs # NoPage
  /\ kenclaves[k].secs # NoPage =>
       /\ kenclaves[k].state # "FREE" /\ kenclaves[k].secs \in Page
       /\ IsSecs(kenclaves[k].secs) /\ secs[kenclaves[k].secs].eid = k

SlotsOK == \A k \in Keid : SlotOK(k)

SlotOrder ==
  status = "run" =>
    /\ \A k \in Keid : kenclaves[k].state = "FREE" <=> Taken <= k
    /\ call.step # "idle" => call.eid + 1 = Taken
    /\ call.step # "idle" => kenclaves[call.eid].state = "BUSY"
    /\ call.step = "ecreate" => OwnSecs = NoPage
    /\ call.step \in {"tcs", "eadd", "eextend"} => OwnSecs = call.enclave

(* Every valid page belongs to a SECS, in whose range it lies.             *)
PageOK(p) ==
  /\ ~epcm[p].blocked
  /\ epcm[p].pt # "SECS" =>
       /\ epcm[p].secs \in Page /\ IsSecs(epcm[p].secs)
       /\ InElrange(epcm[p].secs, p) /\ epcm[p].addr = p

PagesOK == \A p \in Page : epcm[p].valid => PageOK(p)

(* Only a failed creation leaves valid pages behind that the table calls   *)
(* free.                                                                   *)
Failed == \E k \in Keid : kenclaves[k].state = "FAILED"

ValidInUse ==
  status = "run" /\ ~Failed =>
    \A p \in Page : epcm[p].valid => info[p].type \in PageType

InitialisedCreated ==
  \A e \in entryEid : e \in Keid /\ kenclaves[e].state = "CREATED"

(* What the creation has laid out so far.                                  *)
LayoutOK ==
  Creating /\ call.step # "ecreate" =>
    /\ secs[call.enclave].base = call.enclave
    /\ secs[call.enclave].size = call.npages
    /\ Used >= 2 =>
         /\ call.tcs = call.enclave + 1
         /\ epcm[call.tcs].valid /\ epcm[call.tcs].pt = "TCS"
         /\ epcm[call.tcs].secs = call.enclave
         /\ tcs[call.tcs] = SourceTcs(call.code)
    /\ \A p \in Page : call.enclave + 2 <= p /\ p < call.enclave + Used =>
         /\ epcm[p].valid /\ epcm[p].pt = "REG" /\ epcm[p].secs = call.enclave
         /\ epcm[p].perm = {"r", "w", "x"}
    /\ call.step = "eextend" => call.page = call.enclave + Used - 1

Marks ==
  Creating =>
    /\ Used >= 2 + StackEnd(call.code) =>
         regions.stackEnd = call.enclave + 1 + StackEnd(call.code)
    /\ Used >= 3 + StackEnd(call.code) =>
         regions.heapBeg = call.enclave + 2 + StackEnd(call.code)
    /\ Used >= 2 + RegPages(call.code) =>
         regions.heapEnd = call.enclave + 1 + RegPages(call.code)

(* The updates of MRENCLAVE so far.                                        *)
Hashed == IF call.step = "eextend" THEN 2 * Used - 2 ELSE 2 * Used - 1

HashOK ==
  Creating /\ call.step # "ecreate" =>
    LET mr == secs[call.enclave].mrEnclave
    IN  /\ Len(mr) = Hashed
        /\ \A i \in 1 .. Hashed : mr[i] = generate_enclavehash(call.code)[i]

KInv ==
  /\ TypeOK /\ CallOK /\ RunOK /\ TableOK /\ KeysOK /\ NoneReserved /\ SlotsOK
  /\ SlotOrder
  /\ PagesOK /\ OccupiedIsPrefix /\ ReservationSuffices /\ TableMatchesEpcm /\ ValidInUse
  /\ InitialisedCreated /\ LayoutOK /\ Marks /\ HashOK /\ InvalidNotPending
  /\ CreateFaultsOnlyAfterFailure

-----------------------------------------------------------------------------
(* The pages a creation has used are a number.                             *)
LEMMA UsedNat == CallOK => Used \in Nat
BY DEF CallOK, Used

(***************************************************************************)
(* A creation that still has a reserved page gets the lowest one: get_epc  *)
(* scans the whole table for the key, and finds it right above the pages   *)
(* the creation has used.                                                  *)
(***************************************************************************)
LEMMA NextPageIs ==
  ASSUME TypeOK, CallOK, RunOK, TableOK, Creating, Used < call.npages,
         NEW pt
  PROVE  /\ call.enclave + Used \in Page
         /\ NextPage(pt).idx = call.enclave + Used
         /\ NextPage(pt).info = [info EXCEPT ![call.enclave + Used].type = pt]
         /\ info[call.enclave + Used].type = "RESERVED"
         /\ info[call.enclave + Used].key = call.eid
<1> DEFINE p == call.enclave + Used
           S == ReservedBy(info, call.eid)
<1>1. Used \in Nat /\ call.npages \in Nat /\ call.enclave \in Nat
  BY UsedNat, NumEpcAssumption DEF RunOK, CallOK, Page
<1>2. p \in Page /\ call.enclave <= p /\ p < call.enclave + call.npages
  BY <1>1, NumEpcAssumption DEF RunOK, Page
<1>3. info[p].type = "RESERVED" /\ info[p].key = call.eid
  <2>1. call.enclave + Used <= p
    BY <1>1
  <2> HIDE DEF p
  <2> QED
    BY <1>2, <2>1 DEF TableOK
<1>4. p \in S
  BY <1>2, <1>3 DEF ReservedBy
<1>5. ASSUME NEW j \in S PROVE p <= j
  <2>1. j \in Page /\ info[j].type = "RESERVED"
    BY DEF ReservedBy
  <2>2. ~(j < p)
    BY <2>1 DEF TableOK, PageType
  <2> QED
    BY <1>2, <2>1, <2>2, NumEpcAssumption DEF Page
<1>6. FirstOf(S) = p
  <2>1. S \in SUBSET Nat
    BY NumEpcAssumption DEF ReservedBy, Page
  <2> HIDE DEF S, p
  <2> QED
    BY <1>4, <1>5, <2>1, FirstOfIs
<1>7. p # NoPage
  BY <1>2, NumEpcAssumption DEF Page, NoPage
<1> QED
  BY <1>2, <1>3, <1>6, <1>7 DEF NextPage, get_epc_index

(* The two answers of alloc_epc_index_pages to the kernel.                 *)
Granted(out, npages, eid) ==
  /\ out.idx \in Page /\ out.idx + npages < NumEpc
  /\ \A p \in Page : p < out.idx => info[p].type # "FREE"
  /\ \A p \in Page : p >= out.idx => info[p].type = "FREE"
  /\ out.info = Claim(info, Run(out.idx, npages), eid)

Refused(out) ==
  /\ out.idx = NoPage /\ out.ok
  /\ out.info \in [Page -> KernInfo]
  /\ \A p \in Page : out.info[p].type = info[p].type

(***************************************************************************)
(* alloc_epc_index_pages in a table without holes: it takes a run of free  *)
(* pages that starts at the first free one, or it refuses and changes no   *)
(* page's type.  The branch with the faulty rollback is never taken.       *)
(***************************************************************************)
LEMMA AllocIs ==
  ASSUME KeysOK, OccupiedIsPrefix, NEW npages \in Nat, npages >= 1, NEW eid \in Keid
  PROVE  LET out == alloc_epc_index_pages(info, npages, eid)
         IN  Granted(out, npages, eid) \/ Refused(out)
<1> DEFINE out  == alloc_epc_index_pages(info, npages, eid)
           beg  == FirstOf(Free(info))
           busy == FirstOf(Run(beg, npages) \ Free(info))
<1> SUFFICES Granted(out, npages, eid) \/ Refused(out)
  OBVIOUS
<1> HIDE DEF out
<1>t. info \in [Page -> KernInfo] /\ Page \subseteq Nat /\ NumEpc \in Nat
  BY NumEpcAssumption DEF KeysOK, Page
<1>1. CASE Free(info) = {}
  BY <1>1, <1>t, FirstOfNone DEF out, alloc_epc_index_pages, Refused
<1>2. CASE Free(info) # {}
  <2>1. beg \in Free(info) /\ \A j \in Free(info) : beg <= j
    <3>1. Free(info) \in SUBSET Nat
      BY <1>t DEF Free
    <3> QED
      BY <1>2, <3>1, FirstOfLeast
  <2> HIDE DEF beg
  <2>2. beg \in Page /\ beg \in Nat /\ info[beg].type = "FREE" /\ beg # NoPage
    BY <2>1, <1>t DEF Free, NoPage
  <2>3. ASSUME NEW p \in Page, p < beg PROVE info[p].type # "FREE"
    BY <2>1, <2>2, <2>3, <1>t DEF Free
  <2>4. ASSUME NEW p \in Page, p >= beg PROVE info[p].type = "FREE"
    BY <2>2, <2>4, <1>t DEF OccupiedIsPrefix
  <2>5. CASE beg + npages >= NumEpc
    <3> DEFINE new == put_epc_index(Claim(info, {beg}, eid), beg)
    <3>1. out = [idx |-> NoPage, info |-> new, ok |-> TRUE]
      BY <2>2, <2>5, <1>t DEF out, alloc_epc_index_pages, beg
    <3>2. \A p \in Page : new[p] = IF p = beg THEN [key |-> eid, type |-> "FREE"] ELSE info[p]
      BY <2>2 DEF put_epc_index, Claim
    <3>3. new \in [Page -> KernInfo] /\ \A p \in Page : new[p].type = info[p].type
      BY <2>2, <3>2, <1>t DEF put_epc_index, Claim, KernInfo, EpcType
    <3> QED
      BY <3>1, <3>3 DEF Refused
  <2>6. CASE beg + npages < NumEpc
    <3>1. Run(beg, npages) \ Free(info) = {}
      BY <2>2, <2>4, <2>6, <1>t DEF Run, Free, Page
    <3>2. busy = NoPage
      BY <3>1, FirstOfNone
    <3>3. out = [idx |-> beg, info |-> Claim(info, Run(beg, npages), eid), ok |-> TRUE]
      BY <2>2, <2>6, <3>2, <1>t DEF out, alloc_epc_index_pages, beg
    <3> QED
      BY <2>2, <2>3, <2>4, <2>6, <3>3 DEF Granted
  <2> QED
    BY <2>2, <2>5, <2>6, <1>t
<1> QED
  BY <1>1, <1>2

-----------------------------------------------------------------------------
(* What the instructions the kernel issues do to the emulator's state.     *)

(* A SECS keeps its identity whatever happens to its measurement.          *)
Identity(r) ==
  /\ secs'[r].eid = secs[r].eid
  /\ secs'[r].base = secs[r].base
  /\ secs'[r].size = secs[r].size

(* What a step may never do to a page that is valid.                       *)
EpcmGrows ==
  /\ EpcmTypes' /\ tcs' \in [Page -> Tcs]
  /\ \A r \in Page : epcm[r].valid =>
       epcm'[r] = epcm[r] /\ tcs'[r] = tcs[r] /\ Identity(r)
  /\ \A r \in Page : epcm'[r].valid \/ epcm'[r] = epcm[r]

(* The entry of a page that was not valid and is now.                      *)
NewEntry(p, pt, s, addr) ==
  /\ ~epcm[p].valid /\ epcm'[p].valid /\ ~epcm'[p].blocked
  /\ epcm'[p].pt = pt /\ epcm'[p].secs = s /\ epcm'[p].addr = addr
  /\ \A r \in Page : r # p => epcm'[r] = epcm[r]

(* An update of the measurement of s, and of nothing else in a SECS.       *)
Extended(s, upd) ==
  /\ \A r \in Page : Identity(r)
  /\ \A r \in Page : r # s => secs'[r].mrEnclave = secs[r].mrEnclave
  /\ secs'[s].mrEnclave = Append(secs[s].mrEnclave, upd)

(* The types of TypeOK that EpcLife_proofs works with.                     *)
LEMMA Types == TypeOK => EpcmTypes
BY DEF TypeOK, EpcmTypes

(* Extending a measurement is an update of that measurement alone.         *)
LEMMA MeasuredExtends ==
  ASSUME TypeOK, NEW s \in Page, NEW upd \in Update, secs' = Measured(s, upd)
  PROVE  secs' \in [Page -> Secs] /\ Extended(s, upd)
<1>1. secs' \in [Page -> Secs]
  BY MeasuredType, Types DEF PageOrNone
<1>2. \A r \in Page : Identity(r)
  BY MeasuredKeeps, Types DEF Identity
<1>3. \A r \in Page : r # s => secs'[r].mrEnclave = secs[r].mrEnclave
  BY DEF TypeOK, Measured
<1>4. secs'[s].mrEnclave = Append(secs[s].mrEnclave, upd)
  BY DEF TypeOK, Measured, Secs
<1> QED
  BY <1>1, <1>2, <1>3, <1>4 DEF Extended

(* ECREATE makes a page a SECS.                                            *)
LEMMA EcreateEffect ==
  ASSUME TypeOK, NEW p \in Page, NEW base \in Int, NEW size \in Int,
         ECREATE(p, base, size)
  PROVE  /\ EpcmGrows /\ NewEntry(p, "SECS", NoPage, 0)
         /\ \A r \in Page : r # p => secs'[r] = secs[r]
         /\ secs'[p] = [eid |-> nextEid, base |-> base, size |-> size,
                        mrEnclave |-> <<measure_enclave_create(size)>>]
         /\ nextEid' = nextEid + 1 /\ entryEid' = entryEid
<1> DEFINE new == [eid |-> nextEid, base |-> base, size |-> size,
                   mrEnclave |-> <<measure_enclave_create(size)>>]
<1>1. new \in Secs
  BY DEF TypeOK, Secs, Update, PageType, measure_enclave_create
<1>2. secs' = [secs EXCEPT ![p] = new]
  BY DEF ECREATE, measure_enclave_create
<1>3. epcm[p] \in EpcmEntry
  BY DEF TypeOK
<1>4. set_epcm_entry(epcm[p], {}, "SECS", NoPage, 0) \in EpcmEntry
  <2>1. {} \in SUBSET Perm /\ "SECS" \in PageType /\ NoPage \in PageOrNone
    BY DEF PageType, PageOrNone
  <2> QED
    BY <1>3, <2>1, EntryType
<1>5. EpcmTypes' /\ tcs' = tcs
  BY <1>1, <1>2, <1>4 DEF TypeOK, EpcmTypes, ECREATE
<1>6. NewEntry(p, "SECS", NoPage, 0)
  BY <1>3 DEF NewEntry, ECREATE, EcreateOK, TypeOK, set_epcm_entry, EpcmEntry
<1> HIDE DEF new
<1>7. /\ \A r \in Page : r # p => secs'[r] = secs[r]
      /\ secs'[p] = new
  BY <1>2 DEF TypeOK
<1>8. EpcmGrows
  BY <1>5, <1>6, <1>7 DEF EpcmGrows, NewEntry, TypeOK, Identity
<1> QED
  BY <1>6, <1>7, <1>8 DEF ECREATE, new

(* EADD makes a page a page of s and measures it.                          *)
LEMMA EaddEffect ==
  ASSUME TypeOK, NEW p \in Page, NEW s \in Page, NEW pt \in {"TCS", "REG"},
         NEW perm \in SUBSET Perm, NEW src \in Tcs, EADD(p, s, p, pt, perm, src)
  PROVE  /\ EpcmGrows /\ NewEntry(p, pt, s, p)
         /\ epcm'[p].perm = EaddPerm(pt, perm)
         /\ Extended(s, measure_page_add(pt, EaddPerm(pt, perm), p - secs[s].base))
         /\ pt = "TCS" => tcs'[p] = src
         /\ nextEid' = nextEid /\ entryEid' = entryEid
<1> DEFINE new == set_epcm_entry(epcm[p], EaddPerm(pt, perm), pt, s, p)
           upd == measure_page_add(pt, EaddPerm(pt, perm), p - secs[s].base)
<1>1. EaddPerm(pt, perm) \in SUBSET Perm
  BY DEF EaddPerm, Perm
<1>2. p \in Int /\ secs[s].base \in Int /\ epcm[p] \in EpcmEntry
  BY NumEpcAssumption DEF Page, TypeOK, Secs
<1>3. upd \in Update
  BY <1>1, <1>2 DEF Update, PageType, measure_page_add
<1>4. secs' = Measured(s, upd)
  BY DEF EADD, measure_page_add
<1>5. secs' \in [Page -> Secs] /\ Extended(s, upd)
  <2> HIDE DEF upd
  <2> QED
    BY <1>3, <1>4, MeasuredExtends
<1>6. new \in EpcmEntry
  <2>1. pt \in PageType /\ s \in PageOrNone
    BY DEF PageType, PageOrNone
  <2> QED
    BY <1>1, <1>2, <2>1, EntryType
<1>7. epcm' = [epcm EXCEPT ![p] = new]
  BY DEF EADD
<1>8. NewEntry(p, pt, s, p) /\ epcm'[p].perm = EaddPerm(pt, perm)
  BY <1>2 DEF NewEntry, EADD, EaddOK, TypeOK, set_epcm_entry, EpcmEntry
<1>9. tcs' \in [Page -> Tcs] /\ (\A r \in Page : r # p => tcs'[r] = tcs[r])
      /\ (pt = "TCS" => tcs'[p] = src)
  BY DEF EADD, TypeOK
<1> HIDE DEF new, upd
<1>10. EpcmGrows
  BY <1>5, <1>6, <1>7, <1>8, <1>9 DEF EpcmGrows, EpcmTypes, NewEntry, TypeOK, Extended
<1> QED
  BY <1>5, <1>8, <1>9, <1>10 DEF EADD, eidVars, upd

(* EEXTEND measures a page.                                                *)
LEMMA EextendEffect ==
  ASSUME TypeOK, NEW p \in Page, NEW s \in Page, epcm[p].secs = s, EEXTEND(p)
  PROVE  /\ EpcmGrows /\ epcm' = epcm /\ tcs' = tcs
         /\ Extended(s, measure_chunk_page(epcm[p].pt, p - secs[s].base))
         /\ nextEid' = nextEid /\ entryEid' = entryEid
<1> DEFINE upd == measure_chunk_page(epcm[p].pt, p - secs[s].base)
<1>0. p \in Int /\ secs[s] \in Secs /\ epcm[p] \in EpcmEntry
  BY NumEpcAssumption DEF Page, TypeOK
<1>1. p \in Int /\ secs[s].base \in Int /\ epcm[p].pt \in PageType
  BY <1>0 DEF Secs, EpcmEntry
<1>2. upd \in Update
  BY <1>1 DEF Update, measure_chunk_page
<1>3. secs' = Measured(s, upd)
  BY DEF EEXTEND, measure_chunk_page
<1> HIDE DEF upd
<1>4. secs' \in [Page -> Secs] /\ Extended(s, upd)
  BY <1>2, <1>3, MeasuredExtends
<1>5. EpcmGrows
  BY <1>4 DEF EpcmGrows, EpcmTypes, TypeOK, EEXTEND, Extended
<1> QED
  BY <1>4, <1>5 DEF EEXTEND, eidVars, upd

(* EINIT closes the measurement and marks the enclave.                     *)
LEMMA EinitEffect ==
  ASSUME TypeOK, NEW s \in Page, EINIT(s, TRUE)
  PROVE  /\ EpcmGrows /\ epcm' = epcm /\ tcs' = tcs
         /\ \A r \in Page : Identity(r)
         /\ \A r \in Page : r # s => secs'[r].mrEnclave = secs[r].mrEnclave
         /\ nextEid' = nextEid /\ entryEid' = entryEid \cup {secs[s].eid}
<1> DEFINE upd == [leaf |-> "FINAL", off |-> 0, pt |-> "SECS", perm |-> {}]
<1>1. upd \in Update
  BY DEF Update, PageType
<1>2. secs' = Measured(s, upd)
  BY DEF EINIT
<1> HIDE DEF upd
<1>3. secs' \in [Page -> Secs] /\ Extended(s, upd)
  BY <1>1, <1>2, MeasuredExtends
<1>4. EpcmGrows
  BY <1>3 DEF EpcmGrows, EpcmTypes, TypeOK, EINIT, Extended
<1> QED
  BY <1>3, <1>4 DEF EINIT, Extended

(* EAUG makes a page a page of s that waits.                               *)
LEMMA EaugEffect ==
  ASSUME TypeOK, NEW p \in Page, NEW s \in Page, EAUG(p, s, p)
  PROVE  /\ EpcmGrows /\ NewEntry(p, "REG", s, p)
         /\ UNCHANGED <<secs, tcs, entryEid, nextEid>>
<1> DEFINE set == set_epcm_entry(epcm[p], {"r", "w"}, "REG", s, p)
           new == [set EXCEPT !.pending = TRUE, !.modified = FALSE]
<1>1. p \in Int /\ epcm[p] \in EpcmEntry
  BY NumEpcAssumption DEF Page, TypeOK
<1>2. set \in EpcmEntry
  <2>1. {"r", "w"} \in SUBSET Perm /\ "REG" \in PageType /\ s \in PageOrNone
    BY DEF PageType, PageOrNone, Perm
  <2> QED
    BY <1>1, <2>1, EntryType
<1>3. /\ set.valid /\ ~set.blocked /\ set.pt = "REG" /\ set.secs = s /\ set.addr = p
  BY <1>1 DEF set_epcm_entry, EpcmEntry
<1>4. epcm' = [epcm EXCEPT ![p] = new]
  BY DEF EAUG
<1> HIDE DEF set
<1>5. /\ new \in EpcmEntry /\ new.valid /\ ~new.blocked /\ new.pt = "REG"
      /\ new.secs = s /\ new.addr = p
  BY <1>2, <1>3 DEF EpcmEntry
<1> HIDE DEF new
<1>6. NewEntry(p, "REG", s, p) /\ epcm' \in [Page -> EpcmEntry]
  <2>1. ~epcm[p].valid
    BY DEF EAUG, EaugOK
  <2> QED
    BY <1>4, <1>5, <2>1 DEF NewEntry, TypeOK
<1>7. UNCHANGED <<secs, tcs, entryEid, nextEid>>
  BY DEF EAUG, eidVars
<1> QED
  BY <1>6, <1>7 DEF EpcmGrows, EpcmTypes, NewEntry, TypeOK, Identity

-----------------------------------------------------------------------------
(* Facts every step needs.                                                 *)

(* Valid pages stay in order when the pages that become valid are.         *)
LEMMA PagesGrow ==
  ASSUME TypeOK, PagesOK, EpcmGrows,
         \A p \in Page : ~epcm[p].valid /\ epcm'[p].valid => PageOK(p)'
  PROVE  PagesOK'
<1> SUFFICES ASSUME NEW p \in Page, epcm'[p].valid, epcm[p].valid PROVE PageOK(p)'
  BY DEF PagesOK
<1>1. PageOK(p) /\ epcm'[p] = epcm[p]
  BY DEF PagesOK, EpcmGrows
<1>2. CASE epcm[p].pt = "SECS"
  BY <1>1, <1>2 DEF PageOK
<1>3. CASE epcm[p].pt # "SECS"
  <2>1. PICK s \in Page : s = epcm[p].secs
    BY <1>1, <1>3 DEF PageOK
  <2>2. epcm[s].valid /\ epcm[s].pt = "SECS" /\ InElrange(s, p)
    BY <1>1, <1>3, <2>1 DEF PageOK, IsSecs
  <2>3. IsSecs(s)' /\ InElrange(s, p)'
    BY <2>2 DEF EpcmGrows, Identity, IsSecs, InElrange
  <2> QED
    BY <1>1, <1>3, <2>1, <2>3 DEF PageOK
<1> QED
  BY <1>2, <1>3

(* No invalid page starts to wait.                                         *)
LEMMA NotPendingKept == InvalidNotPending /\ EpcmGrows => InvalidNotPending'
BY DEF InvalidNotPending, EpcmGrows

(* A slot whose SECS is kept stays in order.                               *)
LEMMA SlotKept ==
  ASSUME NEW k \in Keid, SlotOK(k), EpcmGrows, kenclaves'[k].secs = kenclaves[k].secs,
         kenclaves'[k].state = "FREE" => kenclaves[k].state = "FREE",
         kenclaves'[k].state = "CREATED" =>
           kenclaves[k].state = "CREATED" \/ kenclaves[k].secs # NoPage
  PROVE  SlotOK(k)'
<1> SUFFICES ASSUME kenclaves[k].secs # NoPage PROVE SlotOK(k)'
  BY DEF SlotOK
<1>1. PICK s \in Page : s = kenclaves[k].secs
  BY DEF SlotOK
<1>2. epcm[s].valid /\ epcm[s].pt = "SECS" /\ secs[s].eid = k
  BY <1>1 DEF SlotOK, IsSecs
<1>3. IsSecs(s)' /\ secs'[s].eid = k
  BY <1>2 DEF EpcmGrows, Identity, IsSecs
<1> QED
  BY <1>1, <1>3 DEF SlotOK

(* The numbers of a creation in progress.                                  *)
LEMMA CreatingFacts ==
  ASSUME KInv, Creating
  PROVE  /\ Used \in Nat /\ call.npages \in Nat /\ call.enclave \in Nat
         /\ call.enclave \in Page /\ call.code \in CodePages /\ call.eid \in Keid
         /\ TotalPages(call.code) \in Nat /\ TotalPages(call.code) <= call.npages
         /\ TotalPages(call.code) >= 2 /\ NumEpc \in Nat
         /\ Used <= TotalPages(call.code) /\ call.enclave + call.npages < NumEpc
<1>1. /\ call.enclave \in Page /\ call.code \in CodePages /\ call.eid \in Keid
      /\ call.npages = rop2(TotalPages(call.code)) /\ Used <= TotalPages(call.code)
      /\ call.enclave + call.npages < NumEpc
  BY DEF KInv, RunOK, CallOK
<1>2. PICK code \in CodePages : code = call.code
  BY <1>1
<1>3. TotalPages(code) \in Nat /\ TotalPages(code) >= 2 /\ TotalPages(code) <= rop2(TotalPages(code))
      /\ rop2(TotalPages(code)) \in Nat
  <2>1. TotalPages(code) = 2 + RegPages(code) /\ RegPages(code) \in Nat
    BY Layout
  <2> QED
    BY <2>1, RoundUp
<1>4. Used \in Nat
  BY UsedNat DEF KInv
<1> QED
  BY <1>1, <1>2, <1>3, <1>4, NumEpcAssumption DEF Page

(* The kernel's table is one of the allocator's.                           *)
LEMMA InfoType == \A t \in [Page -> KernInfo] : t \in [Page -> EpcInfo]
<1>1. KernInfo \subseteq EpcInfo
  BY EnclavesAssumption DEF KernInfo, EpcInfo, Keid
<1> QED
  BY <1>1

SameCall ==
  /\ call'.eid = call.eid /\ call'.enclave = call.enclave
  /\ call'.npages = call.npages /\ call'.code = call.code

(***************************************************************************)
(* The table when the next page of the run is put to use: the boundary     *)
(* between used and reserved pages moves up by one.                        *)
(***************************************************************************)
LEMMA TakeTypes ==
  ASSUME KInv, NEW p \in Page, info[p].type = "RESERVED", NEW pt \in PageType,
         info' = [info EXCEPT ![p].type = pt]
  PROVE  /\ info' \in [Page -> KernInfo] /\ OccupiedIsPrefix'
         /\ \A q \in Page : info'[q].key = info[q].key
         /\ \A q \in Page : q # p => info'[q].type = info[q].type
         /\ info'[p].type = pt
<1>1. info \in [Page -> KernInfo] /\ info[p] \in KernInfo
  BY DEF KInv, KeysOK
<1>2. [info[p] EXCEPT !.type = pt] \in KernInfo
  BY <1>1 DEF KernInfo, EpcType, PageType
<1>3. /\ \A q \in Page : info'[q].key = info[q].key
      /\ \A q \in Page : q # p => info'[q].type = info[q].type
      /\ info'[p].type = pt
  BY <1>1 DEF KernInfo
<1>4. OccupiedIsPrefix'
  BY <1>3 DEF KInv, OccupiedIsPrefix, PageType
<1> QED
  BY <1>1, <1>2, <1>3, <1>4

(* So much for any page; the creation takes the one at the boundary, so    *)
(* what the invariant says of its run and of the table still holds.        *)
LEMMA TakeTable ==
  ASSUME KInv, Creating, Used < TotalPages(call.code), NEW pt \in PageType,
         info' = [info EXCEPT ![call.enclave + Used].type = pt],
         status' = "run", call'.step # "idle", SameCall, Used' = Used + 1
  PROVE  RunOK' /\ TableOK' /\ NoneReserved' /\ OccupiedIsPrefix'
<1>f. /\ Used \in Nat /\ call.npages \in Nat /\ call.enclave \in Nat
      /\ TotalPages(call.code) \in Nat /\ Used < call.npages
  BY CreatingFacts
<1> DEFINE p == call.enclave + Used
<1>1. p \in Page /\ info[p].type = "RESERVED"
  BY <1>f, NextPageIs DEF KInv
<1>p. p \in Nat /\ p < call.enclave + call.npages /\ call.enclave <= p /\ p = call.enclave + Used
  BY <1>f
<1> HIDE DEF p
<1>2. info' = [info EXCEPT ![p].type = pt]
  BY DEF p
<1>3. /\ OccupiedIsPrefix'
      /\ \A q \in Page : info'[q].key = info[q].key
      /\ \A q \in Page : q # p => info'[q].type = info[q].type
      /\ info'[p].type = pt
  BY <1>1, <1>2, TakeTypes
<1>4. RunOK'
  BY <1>f DEF KInv, RunOK, SameCall
<1>5. NoneReserved'
  BY DEF NoneReserved, Running
<1>6. TableOK'
  <2> SUFFICES ASSUME NEW q \in Page
               PROVE  /\ q < call.enclave + (Used + 1) => info'[q].type \in PageType
                      /\ call.enclave <= q /\ q < call.enclave + call.npages
                           => info'[q].key = call.eid
                      /\ call.enclave + (Used + 1) <= q /\ q < call.enclave + call.npages
                           => info'[q].type = "RESERVED"
                      /\ call.enclave + call.npages <= q => info'[q].type = "FREE"
    BY DEF TableOK, SameCall
  <2>1. q \in Nat
    BY NumEpcAssumption DEF Page
  <2>2. /\ q < call.enclave + Used => info[q].type \in PageType
        /\ call.enclave <= q /\ q < call.enclave + call.npages
             => info[q].key = call.eid
        /\ call.enclave + Used <= q /\ q < call.enclave + call.npages
             => info[q].type = "RESERVED"
        /\ call.enclave + call.npages <= q => info[q].type = "FREE"
    BY DEF KInv, TableOK
  <2> QED
    BY <1>3, <1>p, <1>f, <2>1, <2>2
<1> QED
  BY <1>3, <1>4, <1>5, <1>6

Regions == [stackEnd : PageOrNone, heapBeg : PageOrNone, heapEnd : PageOrNone]

(* A step that ends the process.                                           *)
LEMMA StopKInv ==
  ASSUME KInv, UNCHANGED <<sgxVars, esp, call>>, regions' \in Regions,
         status' \in Status \ {"run", "exit", "abort"},
         status' = "gpfCreate" => Failed,
         info' \in [Page -> KernInfo], OccupiedIsPrefix',
         kenclaves' \in [Keid -> KernEnclaveSlot],
         \A k \in Keid :
           /\ kenclaves'[k].secs = kenclaves[k].secs
           /\ kenclaves[k].state # "FREE" => kenclaves'[k].state = kenclaves[k].state
           /\ kenclaves'[k].state \in {kenclaves[k].state, "BUSY"}
  PROVE  KInv'
<1>u. /\ UNCHANGED <<epcm, secs, tcs, entryEid, nextEid>>
      /\ UNCHANGED <<esp, call>>
  BY DEF sgxVars, pageVars, eidVars
<1>1. TypeOK' /\ KeysOK'
  BY <1>u, InfoType DEF KInv, TypeOK, KeysOK, Regions
<1>g. EpcmGrows
  BY <1>u DEF EpcmGrows, EpcmTypes, Identity, KInv, TypeOK
<1>2. CallOK'
  BY <1>u DEF KInv, CallOK
<1>3. SlotsOK'
  BY <1>g, SlotKept DEF KInv, SlotsOK
<1>4. PagesOK'
  BY <1>g, <1>u, PagesGrow DEF KInv
<1>5. InvalidNotPending'
  BY <1>g, NotPendingKept DEF KInv
<1>6. InitialisedCreated'
  BY <1>u DEF KInv, InitialisedCreated
<1>7. CreateFaultsOnlyAfterFailure'
  BY DEF CreateFaultsOnlyAfterFailure, Failed
<1>8. RunOK' /\ TableOK' /\ LayoutOK' /\ Marks' /\ HashOK' /\ NoneReserved'
  BY DEF RunOK, TableOK, LayoutOK, Marks, HashOK, NoneReserved, Creating, Running
<1>9. SlotOrder' /\ ReservationSuffices' /\ TableMatchesEpcm' /\ ValidInUse'
  BY DEF SlotOrder, ReservationSuffices, TableMatchesEpcm, ValidInUse
<1> QED
  BY <1>1, <1>2, <1>3, <1>4, <1>5, <1>6, <1>7, <1>8, <1>9 DEF KInv

-----------------------------------------------------------------------------
(* The invariant, action by action.                                        *)

(* sys_sgx_init establishes it.                                            *)
LEMMA InitKInv == Init => KInv
<1> SUFFICES ASSUME Init PROVE KInv
  OBVIOUS
<1> USE DEF Init, sys_sgx_init
<1>1. ZeroEntry \in EpcmEntry
  BY DEF ZeroEntry, EpcmEntry, Perm, PageType, PageOrNone, NoPage
<1>2. ZeroSecs \in Secs /\ ZeroTcs \in Tcs
  BY DEF ZeroSecs, Secs, ZeroTcs, Tcs
<1>3. 0 \in Keid /\ NoPage \in PageOrNone
  BY EnclavesAssumption DEF Keid, PageOrNone
<1>4. \A p \in Page : ~epcm[p].valid /\ ~epcm[p].pending /\ info[p] = [key |-> 0, type |-> "FREE"]
  BY DEF encls_qemu_init, ZeroEntry, init_epc
<1>5. \A k \in Keid : kenclaves[k].state = "FREE" /\ kenclaves[k].secs = NoPage
  OBVIOUS
<1>k. KeysOK
  BY <1>3 DEF KeysOK, init_epc, KernInfo, EpcType
<1>6. TypeOK
  <2>1. info \in [Page -> EpcInfo]
    BY <1>k, InfoType DEF KeysOK
  <2>2. epcm \in [Page -> EpcmEntry] /\ secs \in [Page -> Secs] /\ tcs \in [Page -> Tcs]
    BY <1>1, <1>2 DEF encls_qemu_init
  <2>3. kenclaves \in [Keid -> KernEnclaveSlot]
    BY <1>3 DEF KernEnclaveSlot
  <2>4. entryEid \subseteq Nat /\ nextEid \in Nat
    BY DEF encls_qemu_init
  <2> QED
    BY <1>3, <2>1, <2>2, <2>3, <2>4 DEF TypeOK, Idle, Status
<1>7. CallOK
  BY <1>3 DEF CallOK, Idle
<1>8. ~Creating
  BY DEF Creating, Idle
<1>9. RunOK /\ TableOK /\ LayoutOK /\ Marks /\ HashOK
  BY <1>8 DEF RunOK, TableOK, LayoutOK, Marks, HashOK
<1>10. NoneReserved /\ OccupiedIsPrefix /\ ReservationSuffices /\ TableMatchesEpcm
       /\ ValidInUse /\ PagesOK /\ InvalidNotPending
  BY <1>4 DEF NoneReserved, OccupiedIsPrefix, ReservationSuffices, TableMatchesEpcm,
     ValidInUse, PagesOK, InvalidNotPending, PageType
<1>11. SlotsOK
  BY <1>5 DEF SlotsOK, SlotOK
<1>12. SlotOrder
  BY <1>5, EnclavesAssumption DEF SlotOrder, Taken, Idle, encls_qemu_init, Keid
<1>13. InitialisedCreated /\ CreateFaultsOnlyAfterFailure
  BY DEF InitialisedCreated, CreateFaultsOnlyAfterFailure, encls_qemu_init
<1> QED
  BY <1>k, <1>6, <1>7, <1>9, <1>10, <1>11, <1>12, <1>13 DEF KInv

(* The table of enclaves is full.                                          *)
LEMMA CreateFullKInv == KInv /\ CreateFull => KInv'
<1> SUFFICES ASSUME KInv, CreateFull PROVE KInv'
  OBVIOUS
<1>1. UNCHANGED <<sgxVars, regions, esp, call>> /\ kenclaves' = kenclaves /\ info' = info
      /\ status' = "oob"
  BY DEF CreateFull, Stop
<1>2. OccupiedIsPrefix'
  BY <1>1 DEF KInv, OccupiedIsPrefix
<1>3. kenclaves \in [Keid -> KernEnclaveSlot] /\ info \in [Page -> KernInfo]
      /\ regions \in Regions
  BY DEF KInv, TypeOK, KeysOK, Regions
<1> QED
  BY <1>1, <1>2, <1>3, StopKInv DEF Status

(* The keid handed out is the eid ECREATE will give.                       *)
LEMMA KeidIs ==
  ASSUME KInv, Running("idle"), alloc_keid # NoPage
  PROVE  alloc_keid \in Keid /\ alloc_keid = nextEid /\ kenclaves[nextEid].state = "FREE"
<1> DEFINE S == {k \in Keid : kenclaves[k].state = "FREE"}
<1>1. S \in SUBSET Nat /\ S # {} /\ nextEid \in Nat
  <2>1. S # {}
    BY FirstOfNone DEF alloc_keid
  <2>2. S \in SUBSET Nat
    BY EnclavesAssumption DEF Keid
  <2> QED
    BY <2>1, <2>2 DEF KInv, TypeOK
<1>2. FirstOf(S) \in S /\ \A j \in S : FirstOf(S) <= j
  BY <1>1, FirstOfLeast
<1>3. \A k \in Keid : k \in S <=> nextEid <= k
  BY DEF KInv, SlotOrder, Taken, Running
<1>4. PICK m \in Keid : m = FirstOf(S)
  BY <1>2
<1>5. nextEid <= m /\ m \in Nat
  BY <1>1, <1>2, <1>3, <1>4
<1>6. nextEid \in Keid
  BY <1>1, <1>5, EnclavesAssumption DEF Keid
<1>7. nextEid \in S
  BY <1>1, <1>3, <1>6
<1>8. m <= nextEid
  BY <1>2, <1>4, <1>7
<1> QED
  BY <1>1, <1>4, <1>5, <1>6, <1>7, <1>8 DEF alloc_keid

(* sys_create_enclave takes a keid and a run of pages, or dies.            *)
LEMMA CreateBeginKInv ==
  ASSUME KInv, NEW code \in CodePages, CreateBegin(code)
  PROVE  KInv'
<1> DEFINE npages == rop2(TotalPages(code))
           out    == alloc_epc_index_pages(info, npages, nextEid)
<1>1. /\ Running("idle") /\ alloc_keid # NoPage
      /\ UNCHANGED <<sgxVars, regions, esp>>
  BY DEF CreateBegin
<1>2. alloc_keid = nextEid /\ nextEid \in Keid /\ kenclaves[nextEid].state = "FREE"
  BY <1>1, KeidIs
<1>3. /\ info' = out.info
      /\ kenclaves' = [kenclaves EXCEPT ![nextEid].state = "BUSY"]
      /\ IF out.idx = NoPage
         THEN /\ status' = IF out.ok THEN "nullfree" ELSE "abort"
              /\ UNCHANGED call
         ELSE /\ call' = [Idle EXCEPT !.step = "ecreate", !.eid = nextEid,
                            !.enclave = out.idx, !.npages = npages, !.code = code]
              /\ UNCHANGED status
  BY <1>2 DEF CreateBegin
<1>4. npages \in Nat /\ npages >= 1 /\ TotalPages(code) \in Nat
  <2>1. TotalPages(code) = 2 + RegPages(code) /\ RegPages(code) \in Nat
    BY Layout
  <2>2. npages \in Nat /\ TotalPages(code) <= npages
    BY RoundUp
  <2> QED
    BY <2>1, <2>2
<1>n. code \in Nat
  BY Layout
<1> HIDE DEF npages
<1>5. Granted(out, npages, nextEid) \/ Refused(out)
  BY <1>2, <1>4, AllocIs DEF KInv
<1> HIDE DEF out
<1>6. /\ kenclaves' \in [Keid -> KernEnclaveSlot]
      /\ \A k \in Keid : kenclaves'[k].secs = kenclaves[k].secs
      /\ \A k \in Keid : k # nextEid => kenclaves'[k] = kenclaves[k]
      /\ kenclaves'[nextEid].state = "BUSY"
  <2>1. kenclaves \in [Keid -> KernEnclaveSlot] /\ kenclaves[nextEid] \in KernEnclaveSlot
    BY <1>2 DEF KInv, TypeOK
  <2>2. [kenclaves[nextEid] EXCEPT !.state = "BUSY"] \in KernEnclaveSlot
    BY <2>1 DEF KernEnclaveSlot
  <2> QED
    BY <1>2, <1>3, <2>1, <2>2 DEF KernEnclaveSlot
<1>7. CASE Refused(out)
  <2>1. status' = "nullfree" /\ UNCHANGED call
    BY <1>3, <1>7 DEF Refused
  <2>2. info' \in [Page -> KernInfo] /\ OccupiedIsPrefix' /\ regions' \in Regions
    BY <1>1, <1>3, <1>7 DEF Refused, KInv, OccupiedIsPrefix, TypeOK, Regions
  <2> QED
    BY <1>1, <1>2, <1>6, <2>1, <2>2, StopKInv DEF Status
<1>8. CASE Granted(out, npages, nextEid)
  <2>i. PICK beg \in Page : beg = out.idx
    BY <1>8 DEF Granted
  <2>0. beg # NoPage /\ beg \in Nat /\ NumEpc \in Nat
    BY NumEpcAssumption DEF Page, NoPage
  <2>1. /\ call' = [Idle EXCEPT !.step = "ecreate", !.eid = nextEid,
                       !.enclave = beg, !.npages = npages, !.code = code]
        /\ status' = "run"
    BY <1>1, <1>3, <2>i, <2>0 DEF Running
  <2>2. /\ call'.step = "ecreate" /\ call'.eid = nextEid /\ call'.enclave = beg
        /\ call'.npages = npages /\ call'.code = code /\ call'.tcs = NoPage
        /\ call'.page = NoPage /\ call'.added = 0
    BY <2>1 DEF Idle
  <2>3. CallOK'
    BY <1>2, <1>4, <1>n, <2>1 DEF CallOK, Idle, PageOrNone
  <2>4. Used' = 0 /\ Creating'
    BY <2>1, <2>2 DEF Used, Creating
  <2>5. /\ \A p \in Page : p < beg => info[p].type # "FREE"
        /\ \A p \in Page : p >= beg => info[p].type = "FREE"
        /\ info' = Claim(info, beg .. beg + npages - 1, nextEid)
        /\ beg + npages < NumEpc
    BY <1>3, <1>8, <2>i DEF Granted, Run
  <2>6. /\ \A p \in Page : beg <= p /\ p < beg + npages =>
             info'[p] = [key |-> nextEid, type |-> "RESERVED"]
        /\ \A p \in Page : p < beg \/ p >= beg + npages => info'[p] = info[p]
    BY <1>4, <2>0, <2>5, NumEpcAssumption DEF Claim, Page
  <2>7. info' \in [Page -> KernInfo] /\ KeysOK'
    <3>1. [key |-> nextEid, type |-> "RESERVED"] \in KernInfo
      BY <1>2 DEF KernInfo, EpcType
    <3> QED
      BY <2>5, <3>1 DEF Claim, KInv, KeysOK
  <2>8. OccupiedIsPrefix'
    <3> SUFFICES ASSUME NEW i \in Page, NEW j \in Page, i < j, info'[j].type # "FREE"
                 PROVE  info'[i].type # "FREE"
      BY DEF OccupiedIsPrefix
    <3>1. i \in Nat /\ j \in Nat
      BY NumEpcAssumption DEF Page
    <3> QED
      BY <1>4, <2>0, <2>5, <2>6, <3>1
  <2>9. RunOK' /\ NoneReserved'
    <3>1. 0 <= TotalPages(code)
      BY <1>4
    <3> QED
      BY <2>0, <2>1, <2>2, <2>4, <2>5, <3>1 DEF RunOK, NoneReserved, Running, npages
  <2>10. TableOK'
    <3> SUFFICES ASSUME NEW p \in Page
                 PROVE  /\ p < beg + 0 => info'[p].type \in PageType
                        /\ beg <= p /\ p < beg + npages => info'[p].key = nextEid
                        /\ beg + 0 <= p /\ p < beg + npages => info'[p].type = "RESERVED"
                        /\ beg + npages <= p => info'[p].type = "FREE"
      BY <2>2, <2>4 DEF TableOK
    <3>1. p \in Nat
      BY NumEpcAssumption DEF Page
    <3>2. p < beg => info[p].type \in PageType
      BY <1>1, <2>5 DEF KInv, NoneReserved, TypeOK, EpcInfo, EpcType, PageType
    <3> QED
      BY <1>4, <2>0, <2>5, <2>6, <3>1, <3>2
  <2>u. UNCHANGED <<epcm, secs, tcs, entryEid, nextEid, regions, esp>>
    BY <1>1 DEF sgxVars, pageVars, eidVars
  <2>11. TypeOK'
    BY <1>2, <1>6, <2>2, <2>1, <2>7, <2>u, InfoType DEF KInv, TypeOK, PageOrNone, Status
  <2>g. EpcmGrows
    BY <2>u DEF EpcmGrows, EpcmTypes, Identity, KInv, TypeOK
  <2>12. SlotsOK'
    BY <1>6, <2>g, SlotKept DEF KInv, SlotsOK
  <2>13. SlotOrder'
    <3>1. kenclaves[nextEid].secs = NoPage
      BY <1>2 DEF KInv, SlotsOK, SlotOK
    <3>2. Taken' = nextEid + 1 /\ nextEid \in Nat
      BY <2>2, <2>u DEF Taken, KInv, TypeOK
    <3>3. \A k \in Keid : kenclaves[k].state = "FREE" <=> nextEid <= k
      BY <1>1 DEF KInv, SlotOrder, Taken, Running
    <3>4. \A k \in Keid : kenclaves'[k].state = "FREE" <=> nextEid + 1 <= k
      BY <1>2, <1>6, <3>2, <3>3, EnclavesAssumption DEF Keid
    <3> QED
      BY <1>2, <1>6, <2>2, <3>1, <3>2, <3>4 DEF SlotOrder, OwnSecs
  <2>14. PagesOK' /\ InvalidNotPending'
    BY <2>g, <2>u, PagesGrow, NotPendingKept DEF KInv
  <2>15. ReservationSuffices' /\ CreateFaultsOnlyAfterFailure'
    BY <2>1 DEF ReservationSuffices, CreateFaultsOnlyAfterFailure
  <2>16. \A p \in Page : info[p].type \in PageType => info'[p] = info[p]
    <3> SUFFICES ASSUME NEW p \in Page, info[p].type \in PageType PROVE info'[p] = info[p]
      OBVIOUS
    <3>1. p \in Nat /\ ~(p >= beg)
      BY <2>5, NumEpcAssumption DEF Page, PageType
    <3> QED
      BY <2>0, <2>6, <3>1
  <2>t. \A p \in Page : info'[p].type \in PageType => info'[p] = info[p]
    <3> SUFFICES ASSUME NEW p \in Page, info'[p].type \in PageType PROVE info'[p] = info[p]
      OBVIOUS
    <3>1. p \in Nat /\ ~(beg <= p /\ p < beg + npages)
      BY <2>6, NumEpcAssumption DEF Page, PageType
    <3> QED
      BY <1>4, <2>0, <2>6, <3>1
  <2>17. TableMatchesEpcm'
    <3> SUFFICES ASSUME NEW p \in Page, info'[p].type \in PageType
                 PROVE  /\ epcm'[p].valid /\ epcm'[p].pt = info'[p].type
                        /\ kenclaves'[info'[p].key].secs =
                             IF info'[p].type = "SECS" THEN p ELSE epcm'[p].secs
      BY DEF TableMatchesEpcm
    <3>1. info'[p] = info[p]
      BY <2>t
    <3>2. /\ epcm[p].valid /\ epcm[p].pt = info[p].type
          /\ kenclaves[info[p].key].secs =
               IF info[p].type = "SECS" THEN p ELSE epcm[p].secs
      BY <1>1, <3>1 DEF KInv, TableMatchesEpcm, Running
    <3>3. kenclaves'[info[p].key].secs = kenclaves[info[p].key].secs
      <4>1. CASE info[p].key = nextEid
        BY <1>2, <1>6, <4>1
      <4>2. CASE info[p].key # nextEid
        BY <1>6, <4>2 DEF KInv, KeysOK, KernInfo
      <4> QED
        BY <4>1, <4>2
    <3> QED
      BY <2>u, <3>1, <3>2, <3>3
  <2>18. ValidInUse'
    <3>1. ASSUME ~Failed' PROVE ~Failed
      BY <1>2, <1>6, <3>1 DEF Failed
    <3> QED
      BY <1>1, <2>16, <2>u, <3>1 DEF KInv, ValidInUse, Running
  <2>19. InitialisedCreated'
    BY <1>2, <1>6, <2>u DEF KInv, InitialisedCreated
  <2>20. LayoutOK' /\ HashOK'
    BY <2>2 DEF LayoutOK, HashOK
  <2>21. Marks'
    <3>1. StackEnd(code) \in Nat /\ RegPages(code) \in Nat
      BY Layout
    <3> QED
      BY <2>2, <2>4, <3>1 DEF Marks
  <2> QED
    BY <2>3, <2>7, <2>8, <2>9, <2>10, <2>11, <2>12, <2>13, <2>14, <2>15, <2>17, <2>18, <2>19,
       <2>20, <2>21 DEF KInv
<1> QED
  BY <1>5, <1>7, <1>8

(* The table and the EPCM when page p, of type pt, is the page taken.      *)
LEMMA TakeMatches ==
  ASSUME KInv, Creating, NEW p \in Page, NEW pt \in PageType, NEW s,
         info[p].type = "RESERVED", info[p].key = call.eid,
         info' = [info EXCEPT ![p].type = pt],
         EpcmGrows, NewEntry(p, pt, s, epcm'[p].addr), status' = "run",
         kenclaves' \in [Keid -> KernEnclaveSlot],
         \A k \in Keid : k # call.eid => kenclaves'[k] = kenclaves[k],
         OwnSecs \in {NoPage, kenclaves'[call.eid].secs},
         kenclaves'[call.eid].state = kenclaves[call.eid].state,
         kenclaves'[call.eid].secs = IF pt = "SECS" THEN p ELSE s
  PROVE  TableMatchesEpcm' /\ ValidInUse'
<1>1. /\ \A q \in Page : info'[q].key = info[q].key
      /\ \A q \in Page : q # p => info'[q].type = info[q].type
      /\ info'[p].type = pt
  BY TakeTypes
<1>2. status = "run" /\ call.eid \in Keid
  BY DEF Creating, KInv, CallOK
<1>3. ASSUME NEW q \in Page, info'[q].type \in PageType
      PROVE  /\ epcm'[q].valid /\ epcm'[q].pt = info'[q].type
             /\ kenclaves'[info'[q].key].secs =
                  IF info'[q].type = "SECS" THEN q ELSE epcm'[q].secs
  <2>1. CASE q = p
    BY <1>1, <2>1 DEF NewEntry
  <2>2. CASE q # p
    <3>1. info[q].type \in PageType
      BY <1>1, <1>3, <2>2
    <3>2. /\ epcm[q].valid /\ epcm[q].pt = info[q].type
          /\ kenclaves[info[q].key].secs =
               IF info[q].type = "SECS" THEN q ELSE epcm[q].secs
      BY <1>2, <3>1 DEF KInv, TableMatchesEpcm
    <3>3. kenclaves[info[q].key].secs \in Page
      BY <3>2 DEF KInv, PagesOK, PageOK
    <3>4. kenclaves'[info[q].key].secs = kenclaves[info[q].key].secs
      <4>1. CASE info[q].key = call.eid
        BY <3>3, <4>1, NumEpcAssumption DEF OwnSecs, Page, NoPage
      <4>2. CASE info[q].key # call.eid
        BY <4>2 DEF KInv, KeysOK, KernInfo
      <4> QED
        BY <4>1, <4>2
    <3> QED
      BY <1>1, <2>2, <3>1, <3>2, <3>4 DEF NewEntry
  <2> QED
    BY <2>1, <2>2
<1>4. TableMatchesEpcm'
  BY <1>3 DEF TableMatchesEpcm
<1>5. ValidInUse'
  <2> SUFFICES ASSUME ~Failed', NEW q \in Page, epcm'[q].valid
               PROVE  info'[q].type \in PageType
    BY DEF ValidInUse
  <2>1. ~Failed
    BY DEF Failed
  <2>2. CASE q = p
    BY <1>1, <2>2
  <2>3. CASE q # p
    BY <1>1, <1>2, <2>1, <2>3 DEF NewEntry, KInv, ValidInUse
  <2> QED
    BY <2>2, <2>3
<1> QED
  BY <1>4, <1>5

(* The updates the signing tool makes, one by one.                         *)
LEMMA HashIs ==
  ASSUME NEW code \in CodePages
  PROVE  LET h == generate_enclavehash(code)
             total == TotalPages(code)
         IN  /\ h = [i \in 1 .. 2 * total - 1 |-> h[i]]
             /\ h[1] = measure_enclave_create(rop2(total))
             /\ h[2] = measure_page_add("TCS", {}, 1)
             /\ h[3] = measure_chunk_page("TCS", 1)
             /\ \A n \in 2 .. total - 1 :
                  /\ h[2 * n] = measure_page_add("REG", {"r", "w", "x"}, n)
                  /\ h[2 * n + 1] = measure_chunk_page("REG", n)
<1> DEFINE h == generate_enclavehash(code)
           pt(off)   == IF off = 1 THEN "TCS" ELSE "REG"
           perm(off) == IF off = 1 THEN {} ELSE {"r", "w", "x"}
           upd(i) == IF i = 1 THEN measure_enclave_create(rop2(TotalPages(code)))
                     ELSE IF i % 2 = 0
                          THEN measure_page_add(pt(i \div 2), perm(i \div 2), i \div 2)
                          ELSE measure_chunk_page(pt(i \div 2), i \div 2)
<1>1. PICK total \in Nat : total = TotalPages(code) /\ total >= 4
  <2>1. TotalPages(code) \in Nat /\ TotalPages(code) >= 4
    BY LayoutAssumption DEF TotalPages, RegPages, StackEnd
  <2> QED
    BY <2>1
<1>2. 2 + TlsPages + code + SsaPages + StackPages + HeapPages = total
  BY <1>1, LayoutAssumption DEF TotalPages, RegPages, StackEnd
<1>3. h = [i \in 1 .. 2 * total - 1 |-> upd(i)]
  BY <1>1, <1>2 DEF generate_enclavehash, EnclaveHash
<1> HIDE DEF h
<1>4. \A i \in 1 .. 2 * total - 1 : h[i] = upd(i)
  BY <1>3
<1>5. h[1] = measure_enclave_create(rop2(TotalPages(code)))
  BY <1>1, <1>4
<1>6. h[2] = measure_page_add("TCS", {}, 1)
  <2>1. 2 \in 1 .. 2 * total - 1 /\ 2 % 2 = 0 /\ 2 \div 2 = 1
    BY <1>1
  <2> QED
    BY <1>4, <2>1
<1>7. h[3] = measure_chunk_page("TCS", 1)
  <2>1. 3 \in 1 .. 2 * total - 1 /\ 3 % 2 = 1 /\ 3 \div 2 = 1
    BY <1>1
  <2> QED
    BY <1>4, <2>1
<1>8. ASSUME NEW n \in 2 .. total - 1
      PROVE  /\ h[2 * n] = measure_page_add("REG", {"r", "w", "x"}, n)
             /\ h[2 * n + 1] = measure_chunk_page("REG", n)
  <2>1. PICK i \in Nat : i = 2 * n
    OBVIOUS
  <2>2. /\ i \in 1 .. 2 * total - 1 /\ i % 2 = 0 /\ i \div 2 = n /\ i # 1
        /\ i + 1 \in 1 .. 2 * total - 1 /\ (i + 1) % 2 = 1 /\ (i + 1) \div 2 = n /\ i + 1 # 1
    BY <1>1, <2>1
  <2>3. upd(i) = measure_page_add("REG", {"r", "w", "x"}, n)
    BY <2>2
  <2>4. upd(i + 1) = measure_chunk_page("REG", n)
    BY <2>2
  <2>5. h[i] = upd(i) /\ h[i + 1] = upd(i + 1)
    <3> HIDE DEF upd
    <3> QED
      BY <1>4, <2>2
  <2> QED
    BY <2>1, <2>3, <2>4, <2>5
<1>9. h = [i \in 1 .. 2 * total - 1 |-> h[i]]
  BY <1>3, <1>4
<1> QED
  BY <1>1, <1>5, <1>6, <1>7, <1>8, <1>9 DEF h

(* One more update, when it is the one the tool makes next.                *)
LEMMA HashExtends ==
  ASSUME KInv, Creating, call.step # "ecreate", NEW upd \in Update,
         secs'[call.enclave].mrEnclave = Append(secs[call.enclave].mrEnclave, upd),
         Creating', call'.step # "ecreate", SameCall, Hashed' = Hashed + 1,
         Hashed \in Nat, upd = generate_enclavehash(call.code)[Hashed + 1]
  PROVE  HashOK'
<1> DEFINE mr  == secs[call.enclave].mrEnclave
           mr2 == secs'[call.enclave].mrEnclave
           h   == generate_enclavehash(call.code)
<1>1. mr \in Seq(Update)
  <2>1. secs[call.enclave] \in Secs
    BY DEF KInv, TypeOK, RunOK
  <2> QED
    BY <2>1 DEF Secs
<1>2. Len(mr) = Hashed /\ \A i \in 1 .. Hashed : mr[i] = h[i]
  BY DEF KInv, HashOK
<1>3. mr2 = Append(mr, upd)
  OBVIOUS
<1> SUFFICES Len(mr2) = Hashed + 1 /\ \A i \in 1 .. Hashed + 1 : mr2[i] = h[i]
  BY DEF HashOK, SameCall
<1>h. upd = h[Hashed + 1]
  OBVIOUS
<1> HIDE DEF mr, mr2, h
<1>4. Len(mr2) = Hashed + 1
  BY <1>1, <1>2, <1>3
<1>5. ASSUME NEW i \in 1 .. Hashed + 1 PROVE mr2[i] = h[i]
  <2>1. CASE i = Hashed + 1
    BY <1>1, <1>2, <1>3, <1>h, <2>1
  <2>2. CASE i # Hashed + 1
    BY <1>1, <1>2, <1>3, <2>2
  <2> QED
    BY <2>1, <2>2
<1> QED
  BY <1>4, <1>5

(***************************************************************************)
(* An instruction that faults because the page it is given is valid.  The  *)
(* page was reserved, so a creation has failed before.                     *)
(***************************************************************************)
LEMMA FaultKInv ==
  ASSUME KInv, Creating, NEW p \in Page, info[p].type = "RESERVED", epcm[p].valid,
         NEW pt \in PageType, info' = [info EXCEPT ![p].type = pt],
         UNCHANGED <<sgxVars, kenclaves, esp, call>>, regions' \in Regions,
         status' = "gpfCreate"
  PROVE  KInv'
<1>1. Failed
  BY DEF KInv, ValidInUse, PageType, Creating
<1>2. info' \in [Page -> KernInfo] /\ OccupiedIsPrefix'
  BY TakeTypes
<1>3. kenclaves' = kenclaves /\ kenclaves \in [Keid -> KernEnclaveSlot]
  BY DEF KInv, TypeOK
<1> QED
  BY <1>1, <1>2, <1>3, StopKInv DEF Status

(* ECREATE on the first page of the run.                                   *)
LEMMA EcreateKInv == KInv /\ ecreate => KInv'
<1> SUFFICES ASSUME KInv, ecreate PROVE KInv'
  OBVIOUS
<1>1. Creating /\ call.step = "ecreate" /\ status = "run" /\ Used = 0
  BY DEF ecreate, Running, Creating, Used
<1>f. /\ Used \in Nat /\ call.npages \in Nat /\ call.enclave \in Nat
      /\ call.enclave \in Page /\ call.code \in CodePages /\ call.eid \in Keid
      /\ TotalPages(call.code) \in Nat /\ TotalPages(call.code) <= call.npages
      /\ TotalPages(call.code) >= 2 /\ NumEpc \in Nat
      /\ call.enclave + call.npages < NumEpc
  BY <1>1, CreatingFacts
<1>c. PICK p \in Page, npages \in Nat, eid \in Keid :
        p = call.enclave /\ npages = call.npages /\ eid = call.eid
  BY <1>f
<1>n. p \in Nat /\ p # NoPage /\ call.enclave + Used = p /\ eid \in Nat
  BY <1>1, <1>f, <1>c, EnclavesAssumption DEF NoPage, Keid
<1>2. /\ NextPage("SECS").idx = p
      /\ NextPage("SECS").info = [info EXCEPT ![p].type = "SECS"]
      /\ info[p].type = "RESERVED" /\ info[p].key = eid
  <2>1. Used < call.npages
    BY <1>1, <1>f
  <2> QED
    BY <1>1, <1>c, <1>n, <2>1, NextPageIs DEF KInv
<1>3. info' = [info EXCEPT ![p].type = "SECS"]
  BY <1>2 DEF ecreate
<1>t. "SECS" \in PageType
  BY DEF PageType
<1>4. CASE ~EcreateOK(p, npages)
  <2>1. /\ UNCHANGED <<sgxVars, kenclaves, regions, esp, call>>
        /\ status' = "gpfCreate"
    BY <1>2, <1>4, <1>c, <1>n DEF ecreate, Stop
  <2>2. npages >= 2 /\ PowerOfTwo(npages)
    BY <1>f, <1>c, <1>1, RoundUp DEF KInv, RunOK
  <2>3. epcm[p].valid
    BY <1>4, <2>2 DEF EcreateOK
  <2>4. regions' \in Regions
    BY <2>1 DEF KInv, TypeOK, Regions
  <2> QED
    BY <1>1, <1>2, <1>3, <1>t, <2>1, <2>3, <2>4, FaultKInv
<1>5. CASE EcreateOK(p, npages)
  <2>1. /\ ECREATE(p, p, npages)
        /\ kenclaves' = [kenclaves EXCEPT ![eid].secs = p]
        /\ call' = [call EXCEPT !.step = "tcs"]
        /\ UNCHANGED <<regions, esp, status>>
    BY <1>2, <1>5, <1>c, <1>n DEF ecreate
  <2>2. /\ EpcmGrows /\ NewEntry(p, "SECS", NoPage, 0)
        /\ \A r \in Page : r # p => secs'[r] = secs[r]
        /\ secs'[p] = [eid |-> nextEid, base |-> p, size |-> npages,
                       mrEnclave |-> <<measure_enclave_create(npages)>>]
        /\ nextEid' = nextEid + 1 /\ entryEid' = entryEid
    BY <1>n, <2>1, EcreateEffect DEF KInv
  <2>3. /\ call'.step = "tcs" /\ SameCall /\ call'.tcs = call.tcs
        /\ call'.page = call.page /\ call'.added = call.added
    BY <2>1 DEF SameCall, KInv, CallOK
  <2>4. CallOK'
    BY <1>1, <2>1 DEF KInv, CallOK
  <2>5. Used' = Used + 1 /\ Creating' /\ Used' = 1 /\ status' = "run"
    BY <1>1, <2>1, <2>3 DEF Used, Creating
  <2>6. RunOK' /\ TableOK' /\ NoneReserved' /\ OccupiedIsPrefix'
    <3>1. Used < TotalPages(call.code) /\ call'.step # "idle"
      BY <1>1, <1>f, <2>3
    <3>2. info' = [info EXCEPT ![call.enclave + Used].type = "SECS"]
      BY <1>3, <1>n
    <3> QED
      BY <1>1, <1>t, <2>3, <2>5, <3>1, <3>2, TakeTable
  <2>7. KeysOK' /\ info' \in [Page -> EpcInfo]
    BY <1>2, <1>3, <1>t, TakeTypes, InfoType DEF KeysOK
  <2>8. /\ kenclaves' \in [Keid -> KernEnclaveSlot]
        /\ \A k \in Keid : k # eid => kenclaves'[k] = kenclaves[k]
        /\ kenclaves'[eid].secs = p /\ kenclaves'[eid].state = kenclaves[eid].state
    <3>1. kenclaves \in [Keid -> KernEnclaveSlot] /\ kenclaves[eid] \in KernEnclaveSlot
      BY DEF KInv, TypeOK
    <3>2. [kenclaves[eid] EXCEPT !.secs = p] \in KernEnclaveSlot
      BY <3>1 DEF KernEnclaveSlot, PageOrNone
    <3> QED
      BY <2>1, <3>1, <3>2 DEF KernEnclaveSlot
  <2>9. TypeOK'
    BY <1>1, <2>1, <2>2, <2>3, <2>4, <2>7, <2>8 DEF KInv, TypeOK, EpcmGrows, EpcmTypes, SameCall
  <2>10. kenclaves[eid].secs = NoPage /\ kenclaves[eid].state = "BUSY"
         /\ eid = nextEid /\ nextEid \in Nat
         /\ \A k \in Keid : kenclaves[k].state = "FREE" <=> nextEid + 1 <= k
    BY <1>1, <1>c, <1>n DEF KInv, SlotOrder, OwnSecs, Taken, TypeOK
  <2>11. SlotsOK'
    <3> SUFFICES ASSUME NEW k \in Keid PROVE SlotOK(k)'
      BY DEF SlotsOK
    <3>1. CASE k = eid
      BY <2>2, <2>8, <2>10, <3>1 DEF SlotOK, IsSecs, NewEntry
    <3>2. CASE k # eid
      BY <2>2, <2>8, <3>2, SlotKept DEF KInv, SlotsOK
    <3> QED
      BY <3>1, <3>2
  <2>12. SlotOrder'
    <3>1. Taken' = nextEid + 1
      BY <2>2, <2>3 DEF Taken
    <3>2. \A k \in Keid : kenclaves'[k].state = kenclaves[k].state
      BY <2>8
    <3> QED
      BY <1>c, <2>3, <2>8, <2>10, <3>1, <3>2 DEF SlotOrder, OwnSecs, SameCall
  <2>13. PagesOK'
    <3>1. \A q \in Page : ~epcm[q].valid /\ epcm'[q].valid => PageOK(q)'
      BY <2>2 DEF NewEntry, PageOK
    <3> QED
      BY <2>2, <3>1, PagesGrow DEF KInv
  <2>14. InvalidNotPending' /\ ReservationSuffices' /\ CreateFaultsOnlyAfterFailure'
    BY <2>2, <2>5, NotPendingKept DEF KInv, ReservationSuffices, CreateFaultsOnlyAfterFailure
  <2>15. TableMatchesEpcm' /\ ValidInUse'
    <3>1. OwnSecs \in {NoPage, kenclaves'[eid].secs}
      BY <1>c, <2>10 DEF OwnSecs
    <3>2. NewEntry(p, "SECS", NoPage, epcm'[p].addr)
      BY <2>2 DEF NewEntry
    <3> QED
      BY <1>1, <1>2, <1>3, <1>c, <1>t, <2>2, <2>5, <2>8, <3>1, <3>2, TakeMatches
  <2>16. InitialisedCreated'
    BY <2>2, <2>8, <2>10 DEF KInv, InitialisedCreated
  <2>17. LayoutOK'
    <3>1. secs'[p].base = p /\ secs'[p].size = npages
      BY <2>2
    <3>2. \A q \in Page : ~(call.enclave + 2 <= q /\ q < call.enclave + 1)
      BY <1>f, NumEpcAssumption DEF Page
    <3> QED
      BY <1>c, <2>3, <2>5, <3>1, <3>2 DEF LayoutOK, SameCall
  <2>18. Marks'
    <3>1. StackEnd(call.code) \in Nat /\ RegPages(call.code) \in Nat
      BY <1>f, Layout
    <3> QED
      BY <2>3, <2>5, <3>1 DEF Marks, SameCall
  <2>19. HashOK'
    <3>1. Hashed' = 1
      BY <2>3, <2>5 DEF Hashed
    <3>2. secs'[p].mrEnclave = <<measure_enclave_create(npages)>>
      BY <2>2
    <3>3. generate_enclavehash(call.code)[1] = measure_enclave_create(npages)
      BY <1>1, <1>c, <1>f, HashIs DEF KInv, RunOK
    <3> QED
      BY <1>c, <2>3, <3>1, <3>2, <3>3 DEF HashOK, SameCall
  <2> QED
    BY <2>4, <2>6, <2>7, <2>9, <2>11, <2>12, <2>13, <2>14, <2>15, <2>16, <2>17, <2>18, <2>19
       DEF KInv
<1> QED
  BY <1>4, <1>5

(* EADD of the next page of the run, as AddTcs and AddReg issue it.        *)
AddPage(p, pt, perm, src) ==
  /\ p = call.enclave + Used
  /\ EADD(p, call.enclave, p, pt, perm, src)
  /\ info' = [info EXCEPT ![p].type = pt]
  /\ call' = [call EXCEPT !.step = "eextend", !.page = p,
                 !.tcs = IF pt = "TCS" THEN p ELSE @]
  /\ UNCHANGED <<kenclaves, esp, status>>
  /\ regions' \in Regions

(* An EADD of add_page_to_epc keeps the invariant: it takes the page at    *)
(* the boundary of the run, which lies in the range of the SECS, and       *)
(* appends to the measurement what the signing tool hashes at that place.  *)
LEMMA AddPageKInv ==
  ASSUME KInv, Creating, call.step \in {"tcs", "eadd"}, Used < TotalPages(call.code),
         NEW p \in Page, NEW pt \in {"TCS", "REG"}, NEW perm \in SUBSET Perm,
         NEW src \in Tcs, AddPage(p, pt, perm, src),
         IF call.step = "tcs" THEN pt = "TCS" /\ src = SourceTcs(call.code)
         ELSE pt = "REG" /\ perm = {"r", "w", "x"},
         Marks'
  PROVE  KInv'
<1>f. /\ Used \in Nat /\ call.npages \in Nat /\ call.enclave \in Nat
      /\ call.enclave \in Page /\ call.code \in CodePages /\ call.eid \in Keid
      /\ TotalPages(call.code) \in Nat /\ TotalPages(call.code) <= call.npages
      /\ TotalPages(call.code) >= 2 /\ NumEpc \in Nat
      /\ call.enclave + call.npages < NumEpc
  BY CreatingFacts
<1>c. PICK s \in Page, eid \in Keid, used \in Nat :
        s = call.enclave /\ eid = call.eid /\ used = Used
  BY <1>f
<1>1. /\ status = "run" /\ status' = "run" /\ p = s + used /\ s \in Nat /\ kenclaves' = kenclaves
      /\ EADD(p, s, p, pt, perm, src) /\ info' = [info EXCEPT ![p].type = pt]
  BY <1>c, <1>f DEF AddPage, Creating
<1>2. /\ call'.step = "eextend" /\ call'.page = p /\ SameCall
      /\ call'.tcs = (IF pt = "TCS" THEN p ELSE call.tcs) /\ call'.added = call.added
  BY DEF AddPage, SameCall, KInv, CallOK
<1>3. CallOK'
  <2>1. p \in PageOrNone
    BY DEF PageOrNone
  <2> QED
    BY <1>2, <2>1 DEF AddPage, KInv, CallOK
<1>4. Creating'
  BY <1>1, <1>2 DEF Creating
<1>l. /\ secs[s].base = s /\ secs[s].size = call.npages
      /\ used >= 2 =>
           /\ call.tcs = s + 1
           /\ epcm[call.tcs].valid /\ epcm[call.tcs].pt = "TCS"
           /\ epcm[call.tcs].secs = s
           /\ tcs[call.tcs] = SourceTcs(call.code)
      /\ \A q \in Page : s + 2 <= q /\ q < s + used =>
           /\ epcm[q].valid /\ epcm[q].pt = "REG" /\ epcm[q].secs = s
           /\ epcm[q].perm = {"r", "w", "x"}
  BY <1>c DEF KInv, LayoutOK
<1>5. /\ Used' = used + 1
      /\ pt = "TCS" <=> used = 1
      /\ used >= 1
  <2>1. CASE call.step = "tcs"
    BY <1>2, <1>c, <2>1 DEF Used
  <2>2. CASE call.step = "eadd"
    <3>1. used = 2 + call.added /\ call.added \in Nat /\ pt = "REG"
      BY <1>c, <2>2 DEF Used, KInv, CallOK
    <3>2. call'.page # call'.tcs
      BY <1>1, <1>2, <1>l, <3>1
    <3> QED
      BY <1>2, <3>1, <3>2 DEF Used
  <2> QED
    BY <2>1, <2>2
<1>6. /\ info[p].type = "RESERVED" /\ info[p].key = eid
  <2>1. Used < call.npages /\ p = call.enclave + Used
    BY <1>f, <1>1, <1>c
  <2> QED
    BY <1>c, <2>1, NextPageIs DEF KInv
<1>t. pt \in PageType
  BY DEF PageType
<1>7. RunOK' /\ TableOK' /\ NoneReserved' /\ OccupiedIsPrefix'
  <2>1. call'.step # "idle" /\ Used' = Used + 1
        /\ info' = [info EXCEPT ![call.enclave + Used].type = pt]
    BY <1>1, <1>2, <1>5, <1>c
  <2> QED
    BY <1>1, <1>2, <1>t, <2>1, TakeTable
<1>8. KeysOK' /\ info' \in [Page -> EpcInfo]
  BY <1>1, <1>6, <1>t, TakeTypes, InfoType DEF KeysOK
<1>9. /\ EpcmGrows /\ NewEntry(p, pt, s, p)
      /\ epcm'[p].perm = EaddPerm(pt, perm)
      /\ Extended(s, measure_page_add(pt, EaddPerm(pt, perm), p - secs[s].base))
      /\ pt = "TCS" => tcs'[p] = src
      /\ nextEid' = nextEid /\ entryEid' = entryEid
  BY <1>1, EaddEffect DEF KInv
<1>10. TypeOK'
  <2>1. esp' = esp /\ regions' \in Regions
    BY DEF AddPage
  <2> QED
    BY <1>1, <1>2, <1>3, <1>8, <1>9, <2>1
       DEF KInv, TypeOK, EpcmGrows, EpcmTypes, CallOK, Regions, PageOrNone
<1>o. /\ kenclaves[eid].secs = s /\ kenclaves[eid].state = "BUSY"
      /\ Taken = nextEid /\ Taken' = nextEid
  BY <1>1, <1>2, <1>9, <1>c DEF KInv, SlotOrder, OwnSecs, Taken, Creating
<1>11. SlotsOK'
  BY <1>1, <1>9, SlotKept DEF KInv, SlotsOK
<1>12. SlotOrder'
  <2>1. \A k \in Keid : kenclaves[k].state = "FREE" <=> nextEid <= k
    BY <1>1, <1>o DEF KInv, SlotOrder
  <2>2. eid + 1 = nextEid
    BY <1>1, <1>o, <1>c DEF KInv, SlotOrder
  <2> QED
    BY <1>1, <1>2, <1>c, <1>o, <2>1, <2>2 DEF SlotOrder, OwnSecs, SameCall
<1>i. IsSecs(s)
  <2>1. kenclaves[eid].secs # NoPage
    BY <1>o, NumEpcAssumption DEF Page, NoPage
  <2> QED
    BY <1>o, <2>1 DEF KInv, SlotsOK, SlotOK
<1>13. PagesOK'
  <2>1. IsSecs(s)'
    BY <1>9, <1>i DEF EpcmGrows, IsSecs
  <2>2. InElrange(s, p)'
    <3>1. secs'[s].base = s /\ secs'[s].size = call.npages
      BY <1>9, <1>l DEF Extended, Identity
    <3>2. p >= s /\ p < s + call.npages
      BY <1>1, <1>c, <1>f
    <3> QED
      BY <3>1, <3>2 DEF InElrange
  <2>3. \A q \in Page : ~epcm[q].valid /\ epcm'[q].valid => PageOK(q)'
    BY <1>9, <2>1, <2>2 DEF NewEntry, PageOK
  <2> QED
    BY <1>9, <2>3, PagesGrow DEF KInv
<1>14. InvalidNotPending' /\ ReservationSuffices' /\ CreateFaultsOnlyAfterFailure'
  BY <1>1, <1>9, NotPendingKept DEF KInv, ReservationSuffices, CreateFaultsOnlyAfterFailure
<1>15. TableMatchesEpcm' /\ ValidInUse'
  <2>1. OwnSecs \in {NoPage, kenclaves'[eid].secs} /\ kenclaves' \in [Keid -> KernEnclaveSlot]
    BY <1>1, <1>c DEF OwnSecs, KInv, TypeOK
  <2>2. NewEntry(p, pt, s, epcm'[p].addr)
    BY <1>9 DEF NewEntry
  <2>3. kenclaves'[eid].secs = IF pt = "SECS" THEN p ELSE s
    BY <1>1, <1>o
  <2> QED
    BY <1>1, <1>6, <1>9, <1>c, <1>t, <2>1, <2>2, <2>3, TakeMatches
<1>16. InitialisedCreated'
  BY <1>1, <1>9 DEF KInv, InitialisedCreated
<1>e. EaddPerm(pt, perm) = IF used = 1 THEN {} ELSE {"r", "w", "x"}
  BY <1>5 DEF EaddPerm
<1>17. LayoutOK'
  <2>1. secs'[s].base = s /\ secs'[s].size = call.npages
    BY <1>9, <1>l DEF Extended, Identity
  <2>2. /\ call'.tcs = s + 1
        /\ epcm'[call'.tcs].valid /\ epcm'[call'.tcs].pt = "TCS"
        /\ epcm'[call'.tcs].secs = s
        /\ tcs'[call'.tcs] = SourceTcs(call.code)
    <3>1. CASE used = 1
      BY <1>1, <1>2, <1>5, <1>9, <3>1 DEF NewEntry
    <3>2. CASE used >= 2
      <4>1. PICK t \in Page : t = s + 1 /\ t # p
        BY <1>1, <1>c, <3>2, NumEpcAssumption DEF Page
      <4>2. epcm'[t] = epcm[t] /\ tcs'[t] = tcs[t]
        BY <1>9, <1>l, <3>2, <4>1 DEF EpcmGrows
      <4> QED
        BY <1>2, <1>5, <1>l, <3>2, <4>1, <4>2
    <3> QED
      BY <1>5, <3>1, <3>2
  <2>3. ASSUME NEW q \in Page, s + 2 <= q, q < s + (used + 1)
        PROVE  /\ epcm'[q].valid /\ epcm'[q].pt = "REG" /\ epcm'[q].secs = s
               /\ epcm'[q].perm = {"r", "w", "x"}
    <3>1. q \in Nat
      BY NumEpcAssumption DEF Page
    <3>2. CASE q = p
      <4>1. used # 1
        BY <1>1, <2>3, <3>2
      <4> QED
        BY <1>5, <1>9, <1>e, <3>2, <4>1 DEF NewEntry
    <3>3. CASE q # p
      <4>1. q < s + used
        BY <1>1, <2>3, <3>1, <3>3
      <4> QED
        BY <1>9, <1>l, <2>3, <3>3, <4>1 DEF NewEntry
    <3> QED
      BY <3>2, <3>3
  <2>4. call'.page = s + (used + 1) - 1
    BY <1>1, <1>2
  <2> QED
    BY <1>2, <1>5, <1>c, <2>1, <2>2, <2>3, <2>4 DEF LayoutOK, SameCall
<1>18. HashOK'
  <2> DEFINE upd == measure_page_add(pt, EaddPerm(pt, perm), p - secs[s].base)
  <2>1. p - secs[s].base = used
    BY <1>1, <1>l
  <2>2. upd \in Update
    BY <1>e, <2>1 DEF measure_page_add, Update, PageType, Perm
  <2>3. upd = generate_enclavehash(call.code)[2 * used]
    <3>1. PICK code \in CodePages : code = call.code
      BY <1>f
    <3>2. CASE used = 1
      <4>1. generate_enclavehash(code)[2] = measure_page_add("TCS", {}, 1)
        BY HashIs
      <4> QED
        BY <1>5, <1>e, <2>1, <3>1, <3>2, <4>1
    <3>3. CASE used # 1
      <4>1. used \in 2 .. TotalPages(code) - 1
        BY <1>5, <1>c, <1>f, <3>1, <3>3
      <4>2. generate_enclavehash(code)[2 * used] = measure_page_add("REG", {"r", "w", "x"}, used)
        BY <4>1, HashIs
      <4> QED
        BY <1>5, <1>e, <2>1, <3>1, <3>3, <4>2
    <3> QED
      BY <3>2, <3>3
  <2>4. secs'[call.enclave].mrEnclave = Append(secs[call.enclave].mrEnclave, upd)
    BY <1>9, <1>c DEF Extended
  <2> HIDE DEF upd
  <2>5. Hashed \in Nat /\ Hashed' = Hashed + 1 /\ Hashed + 1 = 2 * used
    BY <1>2, <1>5, <1>c DEF Hashed
  <2> QED
    BY <1>2, <1>4, <2>2, <2>3, <2>4, <2>5, HashExtends
<1> QED
  BY <1>3, <1>7, <1>8, <1>10, <1>11, <1>12, <1>13, <1>14, <1>15, <1>16, <1>17, <1>18 DEF KInv

(* The SECS of a creation in progress is its first page.                   *)
LEMMA OwnSecsIs ==
  ASSUME KInv, Creating, call.step # "ecreate"
  PROVE  OwnSecs = call.enclave /\ IsSecs(call.enclave) /\ secs[call.enclave].eid = call.eid
<1>1. call.step \in {"tcs", "eadd", "eextend"} /\ call.eid \in Keid /\ call.enclave \in Page
  BY CreatingFacts DEF KInv, CallOK, Creating
<1>2. OwnSecs = call.enclave
  BY <1>1 DEF KInv, SlotOrder, Creating
<1>3. call.enclave # NoPage
  BY <1>1, NumEpcAssumption DEF Page, NoPage
<1> QED
  BY <1>1, <1>2, <1>3 DEF KInv, SlotsOK, SlotOK, OwnSecs

(* The page of the TCS.                                                    *)
LEMMA AddTcsKInv == KInv /\ AddTcs => KInv'
<1> SUFFICES ASSUME KInv, AddTcs PROVE KInv'
  OBVIOUS
<1>1. Creating /\ call.step = "tcs" /\ Used = 1
  BY DEF AddTcs, Running, Creating, Used
<1>f. /\ call.npages \in Nat /\ call.enclave \in Nat /\ call.code \in CodePages
      /\ TotalPages(call.code) \in Nat /\ TotalPages(call.code) <= call.npages
      /\ TotalPages(call.code) >= 2 /\ call.enclave \in Page
  BY <1>1, CreatingFacts
<1>2. Used < TotalPages(call.code) /\ Used < call.npages
  BY <1>1, <1>f
<1>3. PICK p \in Page : p = call.enclave + Used
  BY <1>1, <1>2, NextPageIs DEF KInv
<1>4. /\ NextPage("TCS").idx = p
      /\ NextPage("TCS").info = [info EXCEPT ![p].type = "TCS"]
      /\ info[p].type = "RESERVED"
  BY <1>1, <1>2, <1>3, NextPageIs DEF KInv
<1>5. p # NoPage
  BY NumEpcAssumption DEF Page, NoPage
<1>6. PICK src \in Tcs : src = SourceTcs(call.code)
  <2>1. 2 + SsaStart(call.code) \in Int /\ Nssa \in Nat
    BY <1>f, Layout, NssaAssumption
  <2>2. SourceTcs(call.code) \in Tcs
    BY <2>1 DEF SourceTcs, Tcs
  <2> QED
    BY <2>2
<1>7. OwnSecs = call.enclave /\ IsSecs(call.enclave)
  BY <1>1, OwnSecsIs
<1>8. /\ info' = [info EXCEPT ![p].type = "TCS"]
      /\ regions' = regions
      /\ IF EaddOK(p, call.enclave, "TCS", {"r", "w"})
         THEN /\ EADD(p, call.enclave, p, "TCS", {"r", "w"}, src)
              /\ call' = [call EXCEPT !.step = "eextend", !.page = p, !.tcs = p]
              /\ UNCHANGED <<kenclaves, esp, status>>
         ELSE /\ status' = "gpfCreate"
              /\ UNCHANGED <<sgxVars, kenclaves, esp, call>>
  BY <1>4, <1>5, <1>6, <1>7 DEF AddTcs, add_page_to_epc
<1>r. regions' \in Regions
  BY <1>8 DEF KInv, TypeOK, Regions
<1>9. CASE ~EaddOK(p, call.enclave, "TCS", {"r", "w"})
  <2>1. epcm[p].valid /\ "TCS" \in PageType
    BY <1>7, <1>9 DEF EaddOK, PageType
  <2> QED
    BY <1>1, <1>4, <1>8, <1>9, <1>r, <2>1, FaultKInv
<1>10. CASE EaddOK(p, call.enclave, "TCS", {"r", "w"})
  <2>1. AddPage(p, "TCS", {"r", "w"}, src)
    BY <1>3, <1>8, <1>10, <1>r DEF AddPage
  <2>2. Marks'
    <3>1. call'.step = "eextend" /\ call'.page = p /\ call'.tcs = p /\ call'.code = call.code
      BY <1>8, <1>10 DEF KInv, CallOK
    <3>2. Used' = 2
      BY <3>1 DEF Used
    <3>3. StackEnd(call.code) \in Nat /\ StackEnd(call.code) >= 1
          /\ RegPages(call.code) \in Nat /\ RegPages(call.code) >= 1
      BY <1>f, Layout
    <3> QED
      BY <3>1, <3>2, <3>3 DEF Marks
  <2>3. {"r", "w"} \in SUBSET Perm
    BY DEF Perm
  <2> QED
    BY <1>1, <1>2, <1>6, <2>1, <2>2, <2>3, AddPageKInv
<1> QED
  BY <1>9, <1>10

(* A page of the TLS, the code, the SSA, the stack or the heap.            *)
LEMMA AddRegKInv == KInv /\ AddReg => KInv'
<1> SUFFICES ASSUME KInv, AddReg PROVE KInv'
  OBVIOUS
<1>1. Creating /\ call.step = "eadd" /\ Used = 2 + call.added
      /\ call.added < RegPages(call.code) /\ call.added \in Nat
  BY DEF AddReg, Running, Creating, Used, KInv, CallOK
<1>f. /\ call.npages \in Nat /\ call.enclave \in Nat /\ call.code \in CodePages
      /\ TotalPages(call.code) \in Nat /\ TotalPages(call.code) <= call.npages
      /\ TotalPages(call.code) >= 2 /\ call.enclave \in Page
  BY <1>1, CreatingFacts
<1>y. /\ StackEnd(call.code) \in Nat /\ RegPages(call.code) \in Nat
      /\ TotalPages(call.code) = 2 + RegPages(call.code)
      /\ RegPages(call.code) = StackEnd(call.code) + HeapPages
      /\ HeapPages \in Nat /\ HeapPages >= 1
  BY <1>f, Layout
<1>2. Used < TotalPages(call.code) /\ Used < call.npages
  BY <1>1, <1>f, <1>y
<1>3. PICK p \in Page : p = call.enclave + Used
  BY <1>1, <1>2, NextPageIs DEF KInv
<1>4. /\ NextPage("REG").idx = p
      /\ NextPage("REG").info = [info EXCEPT ![p].type = "REG"]
      /\ info[p].type = "RESERVED"
  BY <1>1, <1>2, <1>3, NextPageIs DEF KInv
<1>5. p # NoPage
  BY NumEpcAssumption DEF Page, NoPage
<1>6. ZeroTcs \in Tcs /\ {"r", "w", "x"} \in SUBSET Perm
  BY DEF ZeroTcs, Tcs, Perm
<1>7. OwnSecs = call.enclave /\ IsSecs(call.enclave)
  BY <1>1, OwnSecsIs
<1>8. /\ info' = [info EXCEPT ![p].type = "REG"]
      /\ regions' =
           [stackEnd |-> IF call.added + 1 = StackEnd(call.code) THEN p ELSE regions.stackEnd,
            heapBeg  |-> IF call.added + 1 = StackEnd(call.code) + 1 THEN p ELSE regions.heapBeg,
            heapEnd  |-> IF call.added + 1 = RegPages(call.code) THEN p ELSE regions.heapEnd]
      /\ IF EaddOK(p, call.enclave, "REG", {"r", "w", "x"})
         THEN /\ EADD(p, call.enclave, p, "REG", {"r", "w", "x"}, ZeroTcs)
              /\ call' = [call EXCEPT !.step = "eextend", !.page = p, !.tcs = @]
              /\ UNCHANGED <<kenclaves, esp, status>>
         ELSE /\ status' = "gpfCreate"
              /\ UNCHANGED <<sgxVars, kenclaves, esp, call>>
  BY <1>4, <1>5, <1>7 DEF AddReg, add_page_to_epc
<1>r. regions' \in Regions
  BY <1>8 DEF KInv, TypeOK, Regions, PageOrNone
<1>9. CASE ~EaddOK(p, call.enclave, "REG", {"r", "w", "x"})
  <2>1. epcm[p].valid /\ "REG" \in PageType
    BY <1>7, <1>9 DEF EaddOK, PageType
  <2> QED
    BY <1>1, <1>4, <1>8, <1>9, <1>r, <2>1, FaultKInv
<1>10. CASE EaddOK(p, call.enclave, "REG", {"r", "w", "x"})
  <2>1. AddPage(p, "REG", {"r", "w", "x"}, ZeroTcs)
    BY <1>3, <1>8, <1>10, <1>r DEF AddPage
  <2>2. Marks'
    <3>1. /\ call'.step = "eextend" /\ call'.page = p /\ call'.tcs = call.tcs
          /\ call'.code = call.code /\ call'.added = call.added
          /\ call'.enclave = call.enclave
      BY <1>8, <1>10 DEF KInv, CallOK
    <3>2. call.tcs = call.enclave + 1
      BY <1>1 DEF KInv, LayoutOK
    <3>3. Used' = 3 + call.added
      BY <1>1, <1>3, <1>f, <3>1, <3>2 DEF Used
    <3>4. /\ Used >= 2 + StackEnd(call.code) =>
               regions.stackEnd = call.enclave + 1 + StackEnd(call.code)
          /\ Used >= 3 + StackEnd(call.code) =>
               regions.heapBeg = call.enclave + 2 + StackEnd(call.code)
          /\ Used >= 2 + RegPages(call.code) =>
               regions.heapEnd = call.enclave + 1 + RegPages(call.code)
      BY <1>1 DEF KInv, Marks
    <3>5. 3 + call.added >= 2 + StackEnd(call.code) =>
            regions'.stackEnd = call.enclave + 1 + StackEnd(call.code)
      BY <1>1, <1>3, <1>8, <1>f, <1>y, <3>4
    <3>6. 3 + call.added >= 3 + StackEnd(call.code) =>
            regions'.heapBeg = call.enclave + 2 + StackEnd(call.code)
      BY <1>1, <1>3, <1>8, <1>f, <1>y, <3>4
    <3>7. 3 + call.added >= 2 + RegPages(call.code) =>
            regions'.heapEnd = call.enclave + 1 + RegPages(call.code)
      BY <1>1, <1>3, <1>8, <1>f, <1>y, <3>4
    <3> QED
      BY <3>1, <3>3, <3>5, <3>6, <3>7 DEF Marks
  <2> QED
    BY <1>1, <1>2, <1>6, <2>1, <2>2, AddPageKInv
<1> QED
  BY <1>9, <1>10

(* The EEXTENDs of the page added last.                                    *)
LEMMA MeasureKInv == KInv /\ measure_enclave_page => KInv'
<1> SUFFICES ASSUME KInv, measure_enclave_page PROVE KInv'
  OBVIOUS
<1>1. /\ Creating /\ call.step = "eextend" /\ status = "run" /\ status' = "run"
      /\ UNCHANGED <<info, kenclaves, regions, esp>> /\ EEXTEND(call.page)
      /\ call' = [call EXCEPT !.step = "eadd",
                    !.added = IF call.page = call.tcs THEN 0 ELSE @ + 1]
  BY DEF measure_enclave_page, Running, Creating
<1>2. /\ call'.step = "eadd" /\ SameCall /\ call'.tcs = call.tcs /\ call'.page = call.page
      /\ call'.added = IF call.page = call.tcs THEN 0 ELSE call.added + 1
      /\ call.added \in Nat
  BY <1>1 DEF SameCall, KInv, CallOK
<1>3. CallOK'
  <2>1. PICK n \in Nat : n = IF call.page = call.tcs THEN 0 ELSE call.added + 1
    BY <1>2
  <2>2. call' = [call EXCEPT !.step = "eadd", !.added = n]
    BY <1>1, <2>1
  <2> QED
    BY <1>2, <2>2 DEF KInv, CallOK
<1>4. Creating' /\ Used' = Used /\ Used >= 2
  BY <1>1, <1>2 DEF Creating, Used
<1>f. /\ Used \in Nat /\ call.npages \in Nat /\ call.enclave \in Nat
      /\ call.enclave \in Page /\ call.code \in CodePages /\ call.eid \in Keid
      /\ TotalPages(call.code) \in Nat /\ Used <= TotalPages(call.code)
  BY <1>1, CreatingFacts
<1>l. /\ secs[call.enclave].base = call.enclave
      /\ call.tcs = call.enclave + 1
      /\ epcm[call.tcs].valid /\ epcm[call.tcs].pt = "TCS"
      /\ epcm[call.tcs].secs = call.enclave
      /\ \A q \in Page : call.enclave + 2 <= q /\ q < call.enclave + Used =>
           /\ epcm[q].valid /\ epcm[q].pt = "REG" /\ epcm[q].secs = call.enclave
           /\ epcm[q].perm = {"r", "w", "x"}
      /\ call.page = call.enclave + Used - 1
  BY <1>1, <1>4 DEF KInv, LayoutOK
<1>c. PICK p \in Page, s \in Page, used \in Nat :
        p = call.page /\ s = call.enclave /\ used = Used
  <2>1. call.page \in PageOrNone /\ call.page # NoPage
    BY <1>f, <1>l, <1>4 DEF KInv, TypeOK, NoPage
  <2> QED
    BY <1>f, <2>1 DEF PageOrNone
<1>5. epcm[p].secs = s /\ epcm[p].pt = (IF used = 2 THEN "TCS" ELSE "REG")
  <2>1. CASE used = 2
    BY <1>c, <1>f, <1>l, <2>1
  <2>2. CASE used # 2
    <3>1. call.enclave + 2 <= p /\ p < call.enclave + Used
      BY <1>4, <1>c, <1>f, <1>l, <2>2
    <3> QED
      BY <1>c, <1>l, <2>2, <3>1
  <2> QED
    BY <2>1, <2>2
<1>6. /\ EpcmGrows /\ epcm' = epcm /\ tcs' = tcs
      /\ Extended(s, measure_chunk_page(epcm[p].pt, p - secs[s].base))
      /\ nextEid' = nextEid /\ entryEid' = entryEid
  BY <1>1, <1>5, <1>c, EextendEffect DEF KInv
<1>7. TypeOK'
  BY <1>1, <1>2, <1>3, <1>6 DEF KInv, TypeOK, EpcmGrows, EpcmTypes, CallOK
<1>8. RunOK' /\ TableOK' /\ NoneReserved' /\ OccupiedIsPrefix' /\ KeysOK'
  <2>1. RunOK'
    BY <1>1, <1>2, <1>4 DEF KInv, RunOK, SameCall
  <2>2. TableOK'
    BY <1>1, <1>2, <1>4 DEF KInv, TableOK, SameCall
  <2> QED
    BY <1>1, <1>2, <2>1, <2>2 DEF KInv, NoneReserved, OccupiedIsPrefix, KeysOK, Running
<1>9. SlotsOK'
  BY <1>1, <1>6, SlotKept DEF KInv, SlotsOK
<1>10. SlotOrder'
  <2>1. Taken' = Taken
    BY <1>1, <1>2, <1>6 DEF Taken
  <2>2. /\ \A k \in Keid : kenclaves[k].state = "FREE" <=> Taken <= k
        /\ call.eid + 1 = Taken /\ kenclaves[call.eid].state = "BUSY"
        /\ OwnSecs = call.enclave
    BY <1>1 DEF KInv, SlotOrder
  <2> QED
    BY <1>1, <1>2, <2>1, <2>2 DEF SlotOrder, OwnSecs, SameCall
<1>11. PagesOK' /\ InvalidNotPending' /\ ReservationSuffices' /\ CreateFaultsOnlyAfterFailure'
  <2>1. PagesOK'
    BY <1>6, PagesGrow DEF KInv
  <2> QED
    BY <1>1, <1>6, <2>1, NotPendingKept DEF KInv, ReservationSuffices, CreateFaultsOnlyAfterFailure
<1>12. TableMatchesEpcm' /\ ValidInUse' /\ InitialisedCreated'
  BY <1>1, <1>6 DEF KInv, TableMatchesEpcm, ValidInUse, InitialisedCreated, Failed
<1>13. LayoutOK'
  <2>1. secs'[s].base = s /\ secs'[s].size = call.npages
    BY <1>1, <1>6, <1>c DEF Extended, Identity, KInv, LayoutOK
  <2>2. tcs[call.tcs] = SourceTcs(call.code)
    BY <1>1, <1>4 DEF KInv, LayoutOK
  <2> QED
    BY <1>2, <1>4, <1>6, <1>c, <1>l, <2>1, <2>2 DEF LayoutOK, SameCall
<1>14. Marks'
  BY <1>1, <1>2, <1>4 DEF KInv, Marks, SameCall
<1>15. HashOK'
  <2> DEFINE upd == measure_chunk_page(epcm[p].pt, p - secs[s].base)
  <2>1. p - secs[s].base = used - 1 /\ used - 1 \in Nat
    BY <1>4, <1>c, <1>f, <1>l
  <2>2. upd \in Update
    BY <1>5, <2>1 DEF measure_chunk_page, Update, PageType, Perm
  <2>3. upd = generate_enclavehash(call.code)[2 * (used - 1) + 1]
    <3>1. PICK code \in CodePages : code = call.code
      BY <1>f
    <3>2. CASE used = 2
      <4>1. generate_enclavehash(code)[3] = measure_chunk_page("TCS", 1)
        BY HashIs
      <4>2. 2 * (used - 1) + 1 = 3 /\ used - 1 = 1
        BY <3>2
      <4> QED
        BY <1>5, <2>1, <3>1, <3>2, <4>1, <4>2
    <3>3. CASE used # 2
      <4>1. PICK n \in 2 .. TotalPages(code) - 1 : n = used - 1
        BY <1>4, <1>c, <1>f, <3>1, <3>3
      <4>2. generate_enclavehash(code)[2 * n + 1] = measure_chunk_page("REG", n)
        BY HashIs
      <4> QED
        BY <1>5, <2>1, <3>1, <3>3, <4>1, <4>2
    <3> QED
      BY <3>2, <3>3
  <2>4. secs'[call.enclave].mrEnclave = Append(secs[call.enclave].mrEnclave, upd)
    BY <1>6, <1>c DEF Extended
  <2> HIDE DEF upd
  <2>5. Hashed \in Nat /\ Hashed' = Hashed + 1 /\ Hashed + 1 = 2 * (used - 1) + 1
    BY <1>1, <1>2, <1>4, <1>c DEF Hashed
  <2>6. call.step # "ecreate" /\ call'.step # "ecreate"
    BY <1>1, <1>2
  <2> QED
    BY <1>1, <1>2, <1>4, <2>2, <2>3, <2>4, <2>5, <2>6, HashExtends
<1> QED
  BY <1>3, <1>7, <1>8, <1>9, <1>10, <1>11, <1>12, <1>13, <1>14, <1>15 DEF KInv

-----------------------------------------------------------------------------
(* The end of a creation: its keid is spent, no page stays reserved.       *)
Closed(st) ==
  /\ call' = Idle /\ status' = "run" /\ regions' = regions /\ esp' \in PageOrNone
  /\ kenclaves' \in [Keid -> KernEnclaveSlot]
  /\ \A k \in Keid : k # call.eid => kenclaves'[k] = kenclaves[k]
  /\ kenclaves'[call.eid].secs = kenclaves[call.eid].secs
  /\ kenclaves'[call.eid].state = st

Cleared(st) ==
  /\ info' \in [Page -> KernInfo]
  /\ \A p \in Page : info'[p] = info[p] \/ info'[p].type = "FREE"
  /\ \A p \in Page : info'[p].type # "RESERVED"
  /\ st = "CREATED" => \A p \in Page : info[p].type \in PageType => info'[p] = info[p]

(* Whatever EINIT said, a creation ends in a state of the invariant.       *)
LEMMA ClosedKInv ==
  ASSUME KInv, Creating, call.step # "ecreate", NEW st \in {"CREATED", "FAILED"},
         Closed(st), Cleared(st), OccupiedIsPrefix', EpcmGrows, epcm' = epcm,
         nextEid' = nextEid, entryEid' \subseteq Nat,
         \A e \in entryEid' : e \in entryEid \/ (e = call.eid /\ st = "CREATED")
  PROVE  KInv'
<1>c. PICK eid \in Keid : eid = call.eid
  BY CreatingFacts
<1>1. /\ call' = Idle /\ status' = "run" /\ regions' = regions /\ esp' \in PageOrNone
      /\ kenclaves' \in [Keid -> KernEnclaveSlot]
      /\ \A k \in Keid : k # eid => kenclaves'[k] = kenclaves[k]
      /\ kenclaves'[eid].secs = kenclaves[eid].secs
      /\ kenclaves'[eid].state = st
  BY <1>c DEF Closed
<1>2. call'.step = "idle" /\ ~Creating' /\ status = "run"
  BY <1>1 DEF Idle, Creating
<1>3. CallOK'
  <2>1. Idle \in [step : {"idle", "ecreate", "tcs", "eadd", "eextend"}, eid : Keid,
                  enclave : PageOrNone, npages : Nat, code : Nat, tcs : PageOrNone,
                  page : PageOrNone, added : Nat]
    BY EnclavesAssumption DEF Idle, Keid, PageOrNone
  <2> QED
    BY <1>1, <2>1 DEF CallOK
<1>4. KeysOK' /\ NoneReserved'
  BY DEF Cleared, KeysOK, NoneReserved
<1>5. TypeOK'
  BY <1>1, <1>3, <1>4, InfoType
     DEF KInv, TypeOK, EpcmGrows, EpcmTypes, CallOK, KeysOK, Status
<1>6. RunOK' /\ TableOK' /\ LayoutOK' /\ Marks' /\ HashOK'
  BY <1>2 DEF RunOK, TableOK, LayoutOK, Marks, HashOK
<1>o. OwnSecs = kenclaves[eid].secs /\ kenclaves[eid].secs # NoPage
      /\ kenclaves[eid].state = "BUSY"
  <2>1. call.enclave # NoPage
    BY CreatingFacts, NumEpcAssumption DEF Page, NoPage
  <2> QED
    BY <1>2, <1>c, <2>1, OwnSecsIs DEF OwnSecs, KInv, SlotOrder, Creating
<1>7. SlotsOK'
  <2> SUFFICES ASSUME NEW k \in Keid PROVE SlotOK(k)'
    BY DEF SlotsOK
  <2>1. CASE k = eid
    BY <1>1, <1>o, <2>1, SlotKept DEF KInv, SlotsOK
  <2>2. CASE k # eid
    BY <1>1, <2>2, SlotKept DEF KInv, SlotsOK
  <2> QED
    BY <2>1, <2>2
<1>8. SlotOrder'
  <2>1. Taken' = Taken
    BY <1>2 DEF Taken
  <2>2. \A k \in Keid : kenclaves[k].state = "FREE" <=> Taken <= k
    BY <1>2 DEF KInv, SlotOrder
  <2>3. \A k \in Keid : kenclaves'[k].state = "FREE" <=> kenclaves[k].state = "FREE"
    BY <1>1, <1>o
  <2> QED
    BY <1>2, <2>1, <2>2, <2>3 DEF SlotOrder
<1>9. PagesOK' /\ InvalidNotPending' /\ ReservationSuffices' /\ CreateFaultsOnlyAfterFailure'
  <2>1. PagesOK'
    BY PagesGrow DEF KInv
  <2> QED
    BY <1>1, <2>1, NotPendingKept DEF KInv, ReservationSuffices, CreateFaultsOnlyAfterFailure
<1>10. TableMatchesEpcm'
  <2> SUFFICES ASSUME NEW p \in Page, info'[p].type \in PageType
               PROVE  /\ epcm'[p].valid /\ epcm'[p].pt = info'[p].type
                      /\ kenclaves'[info'[p].key].secs =
                           IF info'[p].type = "SECS" THEN p ELSE epcm'[p].secs
    BY DEF TableMatchesEpcm
  <2>1. info'[p] = info[p]
    BY DEF Cleared, PageType
  <2>2. /\ epcm[p].valid /\ epcm[p].pt = info[p].type
        /\ kenclaves[info[p].key].secs =
             IF info[p].type = "SECS" THEN p ELSE epcm[p].secs
    BY <1>2, <2>1 DEF KInv, TableMatchesEpcm
  <2>3. kenclaves'[info[p].key].secs = kenclaves[info[p].key].secs
    BY <1>1 DEF KInv, KeysOK, KernInfo
  <2> QED
    BY <2>1, <2>2, <2>3
<1>11. ValidInUse'
  <2> SUFFICES ASSUME ~Failed' PROVE \A p \in Page : epcm'[p].valid => info'[p].type \in PageType
    BY DEF ValidInUse
  <2>1. st = "CREATED" /\ ~Failed
    BY <1>1, <1>o DEF Failed
  <2> QED
    BY <1>2, <2>1 DEF Cleared, KInv, ValidInUse
<1>12. InitialisedCreated'
  BY <1>1, <1>c, <1>o DEF KInv, InitialisedCreated
<1> QED
  BY <1>3, <1>4, <1>5, <1>6, <1>7, <1>8, <1>9, <1>10, <1>11, <1>12 DEF KInv

(* The table of a creation, as numbers.                                    *)
LEMMA TableIs ==
  ASSUME KInv, Creating, call.step # "ecreate", NEW p \in Page
  PROVE  /\ p \in Nat
         /\ info[call.enclave].key = call.eid
         /\ p < call.enclave + Used => info[p].type \in PageType
         /\ call.enclave <= p /\ p < call.enclave + call.npages => info[p].key = call.eid
         /\ call.enclave + Used <= p /\ p < call.enclave + call.npages
              => info[p].type = "RESERVED"
         /\ call.enclave + call.npages <= p => info[p].type = "FREE"
<1>1. /\ call.npages \in Nat /\ call.enclave \in Nat /\ call.enclave \in Page
      /\ TotalPages(call.code) \in Nat /\ TotalPages(call.code) <= call.npages
      /\ TotalPages(call.code) >= 2
  BY CreatingFacts
<1>2. info[call.enclave].key = call.eid
  BY <1>1 DEF KInv, TableOK
<1> QED
  BY <1>2, NumEpcAssumption DEF KInv, TableOK, Page

(* EINIT accepts.                                                          *)
LEMMA InitAcceptedKInv == KInv /\ InitAccepted => KInv'
<1> SUFFICES ASSUME KInv, InitAccepted PROVE KInv'
  OBVIOUS
<1>1. Creating /\ call.step = "eadd" /\ status = "run"
  BY DEF InitAccepted, AllAdded, Running, Creating
<1>f. /\ Used \in Nat /\ call.npages \in Nat /\ call.enclave \in Nat
      /\ Used <= call.npages
  BY <1>1, CreatingFacts
<1>c. PICK s \in Page, eid \in Keid : s = call.enclave /\ eid = call.eid
  BY <1>1, CreatingFacts
<1>2. OwnSecs = s /\ secs[s].eid = eid
  BY <1>1, <1>c, OwnSecsIs
<1>3. /\ EpcmGrows /\ epcm' = epcm /\ nextEid' = nextEid /\ entryEid' = entryEid \cup {eid}
  BY <1>2, EinitEffect DEF InitAccepted, KInv
<1>4. Closed("CREATED")
  <2>1. kenclaves \in [Keid -> KernEnclaveSlot] /\ kenclaves[eid] \in KernEnclaveSlot
    BY DEF KInv, TypeOK
  <2>2. PICK t \in PageOrNone : t = call.tcs
    BY DEF KInv, CallOK
  <2>3. [kenclaves[eid] EXCEPT !.state = "CREATED", !.tcs = t] \in KernEnclaveSlot
    BY <2>1 DEF KernEnclaveSlot
  <2>4. kenclaves' = [kenclaves EXCEPT ![eid].state = "CREATED", ![eid].tcs = t]
    BY <1>c, <2>2 DEF InitAccepted
  <2>5. /\ kenclaves' \in [Keid -> KernEnclaveSlot]
        /\ \A k \in Keid : k # eid => kenclaves'[k] = kenclaves[k]
        /\ kenclaves'[eid].secs = kenclaves[eid].secs
        /\ kenclaves'[eid].state = "CREATED"
    BY <2>1, <2>3, <2>4 DEF KernEnclaveSlot
  <2>6. esp' \in PageOrNone
    BY DEF InitAccepted, KInv, TypeOK
  <2> QED
    BY <1>1, <1>c, <2>5, <2>6 DEF Closed, InitAccepted
<1>5. \A p \in Page : info'[p] = IF p >= s /\ info[p].key = eid /\ info[p].type = "RESERVED"
                                THEN [key |-> 0, type |-> "FREE"] ELSE info[p]
  <2>1. info[s].key = eid
    BY <1>1, <1>c, TableIs
  <2> QED
    BY <1>c, <2>1 DEF InitAccepted, free_reserved_epc_pages, Released
<1>6. ASSUME NEW p \in Page
      PROVE  /\ p \in Nat
             /\ p < s + Used => info'[p] = info[p] /\ info[p].type \in PageType
             /\ s + Used <= p => info'[p].type = "FREE" /\ info[p].type \notin PageType
  <2>1. /\ p \in Nat
        /\ p < s + Used => info[p].type \in PageType
        /\ s <= p /\ p < s + call.npages => info[p].key = eid
        /\ s + Used <= p /\ p < s + call.npages => info[p].type = "RESERVED"
        /\ s + call.npages <= p => info[p].type = "FREE"
    BY <1>1, <1>c, TableIs
  <2>2. p < s + Used => info'[p] = info[p]
    BY <1>5, <2>1 DEF PageType
  <2>3. s + Used <= p => info'[p].type = "FREE" /\ info[p].type \notin PageType
    BY <1>5, <1>c, <1>f, <2>1 DEF PageType
  <2> QED
    BY <2>1, <2>2, <2>3
<1>7. Cleared("CREATED")
  <2>1. info' \in [Page -> KernInfo]
    <3>1. [key |-> 0, type |-> "FREE"] \in KernInfo
      BY EnclavesAssumption DEF KernInfo, Keid, EpcType
    <3>2. \A p \in Page : info'[p] \in KernInfo
      BY <1>5, <3>1 DEF KInv, KeysOK
    <3> QED
      BY <3>2 DEF InitAccepted, free_reserved_epc_pages, Released
  <2>2. \A p \in Page : p < s + Used \/ s + Used <= p
    BY <1>6, <1>c, <1>f
  <2> QED
    BY <1>6, <2>1, <2>2 DEF Cleared, PageType
<1>8. OccupiedIsPrefix'
  <2> SUFFICES ASSUME NEW i \in Page, NEW j \in Page, i < j, info'[j].type # "FREE"
               PROVE  info'[i].type # "FREE"
    BY DEF OccupiedIsPrefix
  <2>1. i < s + Used
    BY <1>6, <1>c, <1>f
  <2> QED
    BY <1>6, <2>1 DEF PageType
<1>9. entryEid' \subseteq Nat
  BY <1>3, EnclavesAssumption DEF KInv, TypeOK, Keid
<1> QED
  BY <1>1, <1>3, <1>4, <1>7, <1>8, <1>9, <1>c, ClosedKInv

(* EINIT rejects.                                                          *)
LEMMA InitRejectedKInv == KInv /\ InitRejected => KInv'
<1> SUFFICES ASSUME KInv, InitRejected PROVE KInv'
  OBVIOUS
<1>1. Creating /\ call.step = "eadd" /\ status = "run"
  BY DEF InitRejected, AllAdded, Running, Creating
<1>f. /\ Used \in Nat /\ call.npages \in Nat /\ call.enclave \in Nat
      /\ Used <= call.npages
  BY <1>1, CreatingFacts
<1>c. PICK s \in Page, eid \in Keid : s = call.enclave /\ eid = call.eid
  BY <1>1, CreatingFacts
<1>3. /\ EpcmGrows /\ epcm' = epcm /\ nextEid' = nextEid /\ entryEid' = entryEid
  BY DEF InitRejected, CreateFailed, sgxVars, pageVars, eidVars, EpcmGrows, EpcmTypes,
         Identity, KInv, TypeOK
<1>4. Closed("FAILED")
  <2>1. kenclaves \in [Keid -> KernEnclaveSlot] /\ kenclaves[eid] \in KernEnclaveSlot
    BY DEF KInv, TypeOK
  <2>2. [kenclaves[eid] EXCEPT !.state = "FAILED"] \in KernEnclaveSlot
    BY <2>1 DEF KernEnclaveSlot
  <2>3. kenclaves' = [kenclaves EXCEPT ![eid].state = "FAILED"]
    BY <1>c DEF InitRejected, CreateFailed
  <2>4. /\ kenclaves' \in [Keid -> KernEnclaveSlot]
        /\ \A k \in Keid : k # eid => kenclaves'[k] = kenclaves[k]
        /\ kenclaves'[eid].secs = kenclaves[eid].secs
        /\ kenclaves'[eid].state = "FAILED"
    BY <2>1, <2>2, <2>3 DEF KernEnclaveSlot
  <2>5. esp' \in PageOrNone
    BY DEF InitRejected, KInv, TypeOK
  <2> QED
    BY <1>1, <1>c, <2>4, <2>5 DEF Closed, InitRejected, CreateFailed
<1>5. \A p \in Page : info'[p] = IF p >= s /\ info[p].key = eid
                                THEN [key |-> 0, type |-> "FREE"] ELSE info[p]
  <2>1. info[s].key = eid
    BY <1>1, <1>c, TableIs
  <2> QED
    BY <1>c, <2>1 DEF InitRejected, CreateFailed, free_epc_pages, Released
<1>6. ASSUME NEW p \in Page
      PROVE  /\ p \in Nat
             /\ p < s => info'[p] = info[p] /\ info[p].type \in PageType
             /\ s <= p => info'[p].type = "FREE"
  <2>1. /\ p \in Nat
        /\ p < s + Used => info[p].type \in PageType
        /\ s <= p /\ p < s + call.npages => info[p].key = eid
        /\ s + call.npages <= p => info[p].type = "FREE"
    BY <1>1, <1>c, TableIs
  <2>2. p < s => info'[p] = info[p] /\ info[p].type \in PageType
    BY <1>5, <1>c, <1>f, <2>1
  <2>3. s <= p => info'[p].type = "FREE"
    BY <1>5, <1>c, <1>f, <2>1
  <2> QED
    BY <2>1, <2>2, <2>3
<1>7. Cleared("FAILED")
  <2>1. info' \in [Page -> KernInfo]
    <3>1. [key |-> 0, type |-> "FREE"] \in KernInfo
      BY EnclavesAssumption DEF KernInfo, Keid, EpcType
    <3>2. \A p \in Page : info'[p] \in KernInfo
      BY <1>5, <3>1 DEF KInv, KeysOK
    <3> QED
      BY <3>2 DEF InitRejected, CreateFailed, free_epc_pages, Released
  <2>2. \A p \in Page : p < s \/ s <= p
    BY <1>6, <1>c, <1>f
  <2> QED
    BY <1>6, <2>1, <2>2 DEF Cleared, PageType
<1>8. OccupiedIsPrefix'
  <2> SUFFICES ASSUME NEW i \in Page, NEW j \in Page, i < j, info'[j].type # "FREE"
               PROVE  info'[i].type # "FREE"
    BY DEF OccupiedIsPrefix
  <2>1. i < s
    BY <1>6, <1>c, <1>f
  <2> QED
    BY <1>6, <2>1 DEF PageType
<1>9. entryEid' \subseteq Nat
  BY <1>3 DEF KInv, TypeOK
<1> QED
  BY <1>1, <1>3, <1>4, <1>7, <1>8, <1>9, <1>c, ClosedKInv

(* sys_add_epc takes the first free page for the enclave that asks.        *)
LEMMA AddEpcTakes ==
  ASSUME KInv, NEW keid \in Keid, sys_add_epc(keid)
  PROVE  /\ Running("idle") /\ kenclaves[keid].state = "CREATED"
         /\ \E f \in Page, s \in Page :
              /\ info[f].type = "FREE" /\ s = kenclaves[keid].secs
              /\ \A j \in Page : info[j].type = "FREE" => f <= j
              /\ info' = [info EXCEPT ![f] = [key |-> keid, type |-> "REG"]]
              /\ IF EaugOK(f, s, f)
                 THEN EAUG(f, s, f) /\ UNCHANGED <<kenclaves, regions, esp, call, status>>
                 ELSE Stop("gpfAug")
<1> DEFINE f    == FirstOf(Free(info))
           mid  == [info EXCEPT ![f] = [key |-> keid, type |-> "RESERVED"]]
           out  == get_epc_index(mid, keid, "REG")
           s    == kenclaves[keid].secs
<1>1. Running("idle") /\ kenclaves[keid].state = "CREATED"
  BY DEF sys_add_epc
<1>2. f # NoPage
  BY DEF sys_add_epc, alloc_epc_page, reserve_epc_index
<1>3. Free(info) \in SUBSET Nat /\ Free(info) # {}
  <2>1. Free(info) # {}
    BY <1>2, FirstOfNone
  <2>2. Free(info) \in SUBSET Nat
    BY NumEpcAssumption DEF Free, Page
  <2> QED
    BY <2>1, <2>2
<1>4. f \in Free(info) /\ \A j \in Free(info) : f <= j
  BY <1>3, FirstOfLeast
<1>5. f \in Page /\ info[f].type = "FREE" /\ \A j \in Page : info[j].type = "FREE" => f <= j
  BY <1>4 DEF Free
<1>6. /\ out.idx # NoPage /\ info' = out.info
      /\ IF EaugOK(out.idx, s, out.idx)
         THEN EAUG(out.idx, s, out.idx) /\ UNCHANGED <<kenclaves, regions, esp, call, status>>
         ELSE Stop("gpfAug")
  <2>1. alloc_epc_page(info, keid).info = mid
    BY <1>2 DEF alloc_epc_page, reserve_epc_index
  <2> QED
    BY <2>1 DEF sys_add_epc
<1> HIDE DEF f
<1>k. info \in [Page -> KernInfo]
  BY DEF KInv, KeysOK
<1>7. ReservedBy(mid, keid) = {f}
  <2>1. \A j \in Page : j # f => mid[j] = info[j] /\ info[j].type # "RESERVED"
    BY <1>1, <1>k DEF KInv, NoneReserved
  <2>2. mid[f] = [key |-> keid, type |-> "RESERVED"]
    BY <1>5, <1>k
  <2> QED
    BY <1>5, <2>1, <2>2 DEF ReservedBy
<1>8. FirstOf({f}) = f
  <2>1. f \in Nat /\ {f} \in SUBSET Nat
    BY <1>5, NumEpcAssumption DEF Page
  <2> QED
    BY <2>1, FirstOfIs
<1>9. out.idx = f /\ out.info = [mid EXCEPT ![f].type = "REG"]
  BY <1>2, <1>7, <1>8 DEF get_epc_index
<1>10. out.info = [info EXCEPT ![f] = [key |-> keid, type |-> "REG"]]
  <2>1. mid \in [Page -> [key : Keid, type : {"RESERVED"}] \cup KernInfo]
    BY <1>5, <1>k
  <2>2. mid[f] = [key |-> keid, type |-> "RESERVED"]
    BY <1>5, <1>k
  <2>3. \A j \in Page : [mid EXCEPT ![f].type = "REG"][j] =
                          [info EXCEPT ![f] = [key |-> keid, type |-> "REG"]][j]
    <3> SUFFICES ASSUME NEW j \in Page
                 PROVE  [mid EXCEPT ![f].type = "REG"][j] =
                          [info EXCEPT ![f] = [key |-> keid, type |-> "REG"]][j]
      OBVIOUS
    <3>1. CASE j = f
      BY <1>5, <1>k, <2>2, <3>1
    <3>2. CASE j # f
      BY <1>5, <1>k, <3>2
    <3> QED
      BY <3>1, <3>2
  <2> QED
    BY <1>9, <1>k, <2>3
<1>11. s \in Page
  BY <1>1 DEF KInv, SlotsOK, SlotOK
<1> HIDE DEF out, s, mid
<1> QED
  BY <1>1, <1>5, <1>6, <1>9, <1>10, <1>11 DEF s

(* sys_add_epc keeps the invariant, whether EAUG faults on the page the    *)
(* allocator gave it or not.                                               *)
LEMMA AddEpcKInv ==
  ASSUME KInv, NEW keid \in Keid, sys_add_epc(keid)
  PROVE  KInv'
<1>1. /\ status = "run" /\ call.step = "idle" /\ kenclaves[keid].state = "CREATED"
  BY AddEpcTakes DEF Running
<1>2. PICK f \in Page, s \in Page :
        /\ info[f].type = "FREE" /\ s = kenclaves[keid].secs
        /\ \A j \in Page : info[j].type = "FREE" => f <= j
        /\ info' = [info EXCEPT ![f] = [key |-> keid, type |-> "REG"]]
        /\ IF EaugOK(f, s, f)
           THEN EAUG(f, s, f) /\ UNCHANGED <<kenclaves, regions, esp, call, status>>
           ELSE Stop("gpfAug")
  BY AddEpcTakes
<1>3. /\ info' \in [Page -> KernInfo]
      /\ \A q \in Page : q # f => info'[q] = info[q]
      /\ info'[f].key = keid /\ info'[f].type = "REG"
  <2>1. [key |-> keid, type |-> "REG"] \in KernInfo
    BY DEF KernInfo, EpcType
  <2> QED
    BY <1>2, <2>1 DEF KInv, KeysOK
<1>4. OccupiedIsPrefix'
  <2> SUFFICES ASSUME NEW i \in Page, NEW j \in Page, i < j, info'[j].type # "FREE"
               PROVE  info'[i].type # "FREE"
    BY DEF OccupiedIsPrefix
  <2>1. CASE j = f
    <3>1. i # f /\ ~(f <= i)
      BY <2>1, NumEpcAssumption DEF Page
    <3> QED
      BY <1>2, <1>3, <3>1
  <2>2. CASE j # f
    BY <1>3, <2>2 DEF KInv, OccupiedIsPrefix
  <2> QED
    BY <2>1, <2>2
<1>5. CASE ~EaugOK(f, s, f)
  <2>1. /\ status' = "gpfAug" /\ UNCHANGED <<sgxVars, esp, call>> /\ regions' = regions
        /\ kenclaves' = kenclaves
    BY <1>2, <1>5 DEF Stop
  <2>2. regions \in Regions /\ kenclaves \in [Keid -> KernEnclaveSlot]
    BY DEF KInv, TypeOK, Regions
  <2> QED
    BY <1>3, <1>4, <2>1, <2>2, StopKInv DEF Status
<1>6. CASE EaugOK(f, s, f)
  <2>1. EAUG(f, s, f) /\ UNCHANGED <<kenclaves, regions, esp, call, status>>
    BY <1>2, <1>6
  <2>2. /\ EpcmGrows /\ NewEntry(f, "REG", s, f)
        /\ UNCHANGED <<secs, tcs, entryEid, nextEid>>
    BY <2>1, EaugEffect DEF KInv
  <2>3. CallOK' /\ KeysOK'
    BY <1>3, <2>1 DEF KInv, CallOK, KeysOK
  <2>4. TypeOK'
    BY <1>3, <2>1, <2>2, InfoType DEF KInv, TypeOK, EpcmGrows, EpcmTypes
  <2>5. ~Creating'
    BY <1>1, <2>1 DEF Creating
  <2>6. RunOK' /\ TableOK' /\ LayoutOK' /\ Marks' /\ HashOK'
    BY <2>5 DEF RunOK, TableOK, LayoutOK, Marks, HashOK
  <2>7. NoneReserved'
    BY <1>1, <1>3 DEF KInv, NoneReserved, Running
  <2>8. SlotsOK'
    BY <2>1, <2>2, SlotKept DEF KInv, SlotsOK
  <2>9. SlotOrder'
    <3>1. Taken' = Taken
      BY <2>1, <2>2 DEF Taken
    <3> QED
      BY <1>1, <2>1, <3>1 DEF KInv, SlotOrder
  <2>10. PagesOK'
    <3>1. IsSecs(s) /\ InElrange(s, f)
      BY <1>6 DEF EaugOK
    <3>2. IsSecs(s)' /\ InElrange(s, f)'
      BY <2>2, <3>1 DEF EpcmGrows, IsSecs, InElrange
    <3>3. \A q \in Page : ~epcm[q].valid /\ epcm'[q].valid => PageOK(q)'
      BY <2>2, <3>2 DEF NewEntry, PageOK
    <3> QED
      BY <2>2, <3>3, PagesGrow DEF KInv
  <2>11. InvalidNotPending' /\ ReservationSuffices' /\ CreateFaultsOnlyAfterFailure'
         /\ InitialisedCreated'
    BY <2>1, <2>2, NotPendingKept
       DEF KInv, ReservationSuffices, CreateFaultsOnlyAfterFailure, InitialisedCreated
  <2>12. TableMatchesEpcm'
    <3> SUFFICES ASSUME NEW p \in Page, info'[p].type \in PageType
                 PROVE  /\ epcm'[p].valid /\ epcm'[p].pt = info'[p].type
                        /\ kenclaves'[info'[p].key].secs =
                             IF info'[p].type = "SECS" THEN p ELSE epcm'[p].secs
      BY DEF TableMatchesEpcm
    <3>1. CASE p = f
      BY <1>2, <1>3, <2>1, <2>2, <3>1 DEF NewEntry
    <3>2. CASE p # f
      BY <1>1, <1>3, <2>1, <2>2, <3>2 DEF NewEntry, KInv, TableMatchesEpcm
    <3> QED
      BY <3>1, <3>2
  <2>13. ValidInUse'
    <3> SUFFICES ASSUME ~Failed, NEW q \in Page, epcm'[q].valid
                 PROVE  info'[q].type \in PageType
      BY <2>1 DEF ValidInUse, Failed
    <3>1. CASE q = f
      BY <1>3, <3>1 DEF PageType
    <3>2. CASE q # f
      BY <1>1, <1>3, <2>2, <3>2 DEF NewEntry, KInv, ValidInUse
    <3> QED
      BY <3>1, <3>2
  <2> QED
    BY <1>4, <2>3, <2>4, <2>6, <2>7, <2>8, <2>9, <2>10, <2>11, <2>12, <2>13 DEF KInv
<1> QED
  BY <1>5, <1>6

(* A step that changes nothing.                                            *)
LEMMA StutterKInv == KInv /\ UNCHANGED vars => KInv'
<1> SUFFICES ASSUME KInv, UNCHANGED vars PROVE KInv'
  OBVIOUS
<1>u. UNCHANGED <<epcm, secs, tcs, entryEid, nextEid, info, kenclaves, regions, esp, call, status>>
  BY DEF vars, sgxVars, pageVars, eidVars, kernVars
<1>1. TypeOK' /\ CallOK' /\ KeysOK' /\ NoneReserved' /\ OccupiedIsPrefix' /\ ReservationSuffices'
  BY <1>u DEF KInv, TypeOK, CallOK, KeysOK, NoneReserved, OccupiedIsPrefix, ReservationSuffices,
              Running
<1>2. Creating' = Creating /\ Used' = Used /\ Taken' = Taken /\ Hashed' = Hashed
  BY <1>u DEF Creating, Used, Taken, Hashed
<1>3. RunOK' /\ TableOK' /\ Marks'
  BY <1>u, <1>2 DEF KInv, RunOK, TableOK, Marks
<1>4. SlotsOK' /\ SlotOrder' /\ InitialisedCreated'
  BY <1>u, <1>2 DEF KInv, SlotsOK, SlotOK, SlotOrder, InitialisedCreated, IsSecs, OwnSecs
<1>5. PagesOK' /\ TableMatchesEpcm' /\ ValidInUse' /\ InvalidNotPending'
      /\ CreateFaultsOnlyAfterFailure'
  BY <1>u DEF KInv, PagesOK, PageOK, IsSecs, InElrange, TableMatchesEpcm, ValidInUse, Failed,
              InvalidNotPending, CreateFaultsOnlyAfterFailure
<1>6. LayoutOK' /\ HashOK'
  BY <1>u, <1>2 DEF KInv, LayoutOK, HashOK
<1> QED
  BY <1>1, <1>3, <1>4, <1>5, <1>6 DEF KInv

(* Every step of the kernel preserves the invariant.                       *)
LEMMA NextKInv == KInv /\ [Next]_vars => KInv'
<1>1. ASSUME KInv, Ended PROVE KInv'
  BY <1>1, StutterKInv DEF Ended
<1> QED
  BY <1>1, CreateFullKInv, CreateBeginKInv, EcreateKInv, AddTcsKInv, AddRegKInv, MeasureKInv,
     InitAcceptedKInv, InitRejectedKInv, AddEpcKInv, StutterKInv DEF Next

(* The inductive invariant of the kernel emulation.                        *)
THEOREM KernInvariance == Spec => []KInv
BY InitKInv, NextKInv, PTL DEF Spec

-----------------------------------------------------------------------------
(* What the invariant says about the kernel.                               *)

(* The variables keep their types: the table never holds a key or a type   *)
(* the allocator does not know, whatever a creation ran into.              *)
THEOREM KernTypes == Spec => []TypeOK
<1>1. KInv => TypeOK
  BY DEF KInv
<1> QED
  BY <1>1, KernInvariance, PTL

(* sys_create_enclave and sys_add_epc never leave a hole in the EPC, so    *)
(* alloc_epc_index_pages never meets a page in use and never rolls back.   *)
THEOREM NoHoles == Spec => []OccupiedIsPrefix
<1>1. KInv => OccupiedIsPrefix
  BY DEF KInv
<1> QED
  BY <1>1, KernInvariance, PTL

(* rop2 of the layout is enough: get_epc never comes back empty-handed     *)
(* for a creation that has its run of pages.                               *)
THEOREM ReservationEnough == Spec => []ReservationSuffices
<1>1. KInv => ReservationSuffices
  BY DEF KInv
<1> QED
  BY <1>1, KernInvariance, PTL

(* g_epc_info and the EPCM, written by the kernel and by the emulator,     *)
(* agree on the type and the owner of every page in use.                   *)
THEOREM TableAgrees == Spec => []TableMatchesEpcm
<1>1. KInv => TableMatchesEpcm
  BY DEF KInv
<1> QED
  BY <1>1, KernInvariance, PTL

(* kenclaves[] and CR_NEXT_EID count alike, failed creations included.     *)
THEOREM KeidsMatch == Spec => []KeidIsEid
<1>1. KInv => KeidIsEid
  BY DEF KInv, SlotsOK, SlotOK, KeidIsEid
<1> QED
  BY <1>1, KernInvariance, PTL

(* Every page of an enclave lies in its ELRANGE, which sgx_eadd does not   *)
(* check and the kernel's layout sees to.                                  *)
THEOREM InRange == Spec => []PagesInElrange
<1>1. KInv => PagesInElrange
  BY DEF KInv, PagesOK, PageOK, PagesInElrange
<1> QED
  BY <1>1, KernInvariance, PTL

(* A #GP in sys_create_enclave has an earlier failed creation behind it,   *)
(* whose EPCM entries free_epc_pages left valid.                           *)
THEOREM FaultsExplained == Spec => []CreateFaultsOnlyAfterFailure
<1>1. KInv => CreateFaultsOnlyAfterFailure
  BY DEF KInv
<1> QED
  BY <1>1, KernInvariance, PTL

(* When all pages are added the updates of MRENCLAVE are those the signing *)
(* tool makes, number by number.                                           *)
LEMMA SignedNow == KInv => SignedIsMeasured
<1> SUFFICES ASSUME KInv, AllAdded
             PROVE  secs[OwnSecs].mrEnclave = generate_enclavehash(call.code)
  BY DEF SignedIsMeasured
<1>1. Creating /\ call.step = "eadd" /\ call.added = RegPages(call.code)
  BY DEF AllAdded, Running, Creating
<1>2. OwnSecs = call.enclave /\ call.enclave \in Page /\ call.code \in CodePages
  BY <1>1, OwnSecsIs, CreatingFacts
<1>3. PICK total \in Nat : total = TotalPages(call.code) /\ total = 2 + RegPages(call.code)
  BY <1>2, Layout
<1>4. Used = total /\ Hashed = 2 * total - 1
  BY <1>1, <1>3 DEF Used, Hashed
<1> DEFINE mr == secs[call.enclave].mrEnclave
           h  == generate_enclavehash(call.code)
<1>5. mr \in Seq(Update)
  <2>1. secs[call.enclave] \in Secs
    BY <1>2 DEF KInv, TypeOK
  <2> QED
    BY <2>1 DEF Secs
<1>6. Len(mr) = 2 * total - 1 /\ \A i \in 1 .. 2 * total - 1 : mr[i] = h[i]
  BY <1>1, <1>4 DEF KInv, HashOK
<1>7. h = [i \in 1 .. 2 * total - 1 |-> h[i]]
  BY <1>2, <1>3, HashIs
<1> HIDE DEF mr, h
<1>8. mr = [i \in 1 .. 2 * total - 1 |-> mr[i]]
  BY <1>5, <1>6
<1>9. mr = h
  BY <1>6, <1>7, <1>8
<1> QED
  BY <1>2, <1>9 DEF mr, h

(* The hash generate_enclavehash computes from its own copy of the layout  *)
(* is the hash EADD and EEXTEND build up, wherever the enclave lies.       *)
THEOREM Signed == Spec => []SignedIsMeasured
BY SignedNow, KernInvariance, PTL

-----------------------------------------------------------------------------
(***************************************************************************)
(* The instructions the kernel issues: a step executes at most one, and    *)
(* EADD, EEXTEND and EINIT only ever work on the enclave being created.    *)
(***************************************************************************)
Building == Creating /\ call.step # "ecreate"

IssuesEcreate == Creating /\ ECREATE(call.enclave, call.enclave, call.npages)
IssuesEadd ==
  /\ Building
  /\ \E p \in Page, pt \in {"TCS", "REG"}, perm \in SUBSET Perm, src \in Tcs :
       EADD(p, call.enclave, p, pt, perm, src)
IssuesEextend == Building /\ \E p \in Page : epcm[p].secs = call.enclave /\ EEXTEND(p)
IssuesEinit == Building /\ EINIT(call.enclave, TRUE)
IssuesEaug == \E p \in Page, s \in Page : EAUG(p, s, p)

Issues ==
  UNCHANGED sgxVars \/ IssuesEcreate \/ IssuesEadd \/ IssuesEextend \/ IssuesEinit \/ IssuesEaug

(* What get_epc returns is a page or nothing.                              *)
LEMMA GotPage ==
  ASSUME NEW pt, NextPage(pt).idx # NoPage
  PROVE  NextPage(pt).idx \in Page
<1> DEFINE S == ReservedBy(info, call.eid)
<1>1. S \in SUBSET Nat /\ S \subseteq Page
  BY NumEpcAssumption DEF ReservedBy, Page
<1>2. NextPage(pt).idx = FirstOf(S)
  BY DEF NextPage, get_epc_index
<1> HIDE DEF S
<1>3. S # {}
  BY <1>2, FirstOfNone
<1> QED
  BY <1>1, <1>2, <1>3, FirstOfLeast

(* The page EEXTEND is given belongs to the enclave being created.         *)
LEMMA MeasuredIsOwn ==
  ASSUME KInv, Creating, call.step = "eextend"
  PROVE  call.page \in Page /\ epcm[call.page].secs = call.enclave
<1>1. Used >= 2 /\ Used \in Nat /\ call.enclave \in Nat
  BY CreatingFacts DEF KInv, CallOK, Used
<1>2. /\ call.tcs = call.enclave + 1 /\ epcm[call.tcs].secs = call.enclave
      /\ \A p \in Page : call.enclave + 2 <= p /\ p < call.enclave + Used =>
           epcm[p].secs = call.enclave
      /\ call.page = call.enclave + Used - 1
  BY <1>1 DEF KInv, LayoutOK
<1>3. call.page \in Page
  BY <1>1, <1>2 DEF KInv, CallOK, PageOrNone, NoPage
<1>4. CASE Used = 2
  BY <1>1, <1>2, <1>3, <1>4
<1>5. CASE Used # 2
  BY <1>1, <1>2, <1>3, <1>5
<1> QED
  BY <1>4, <1>5

(* Every step of the kernel issues one of these or none.                   *)
LEMMA StepIssues ==
  ASSUME KInv, [Next]_vars
  PROVE  Issues
<1>1. CASE UNCHANGED vars
  BY <1>1 DEF vars, Issues
<1>2. CASE CreateFull
  BY <1>2 DEF CreateFull, Stop, Issues
<1>3. ASSUME NEW code \in CodePages, CreateBegin(code) PROVE Issues
  BY <1>3 DEF CreateBegin, Issues
<1>4. CASE ecreate
  <2>1. Creating
    BY <1>4 DEF ecreate, Running, Creating
  <2>2. CASE NextPage("SECS").idx # NoPage /\ EcreateOK(NextPage("SECS").idx, call.npages)
    <3>1. Used = 0 /\ Used < call.npages /\ call.enclave + 0 = call.enclave
      <4>1. Used = 0
        BY <1>4 DEF ecreate, Running, Used
      <4> QED
        BY <2>1, <4>1, CreatingFacts
    <3>2. NextPage("SECS").idx = call.enclave
      BY <2>1, <3>1, NextPageIs DEF KInv
    <3>3. ECREATE(call.enclave, call.enclave, call.npages)
      BY <1>4, <2>2, <3>2 DEF ecreate
    <3> QED
      BY <2>1, <3>3 DEF Issues, IssuesEcreate
  <2>3. CASE ~(NextPage("SECS").idx # NoPage /\ EcreateOK(NextPage("SECS").idx, call.npages))
    BY <1>4, <2>3 DEF ecreate, Stop, Issues
  <2> QED
    BY <2>2, <2>3
<1>5. CASE AddTcs
  <2>1. Building /\ OwnSecs = call.enclave /\ call.code \in CodePages
    BY <1>5, OwnSecsIs, CreatingFacts DEF AddTcs, Running, Creating, Building
  <2>2. CASE NextPage("TCS").idx = NoPage
    BY <1>5, <2>2 DEF AddTcs, CreateFailed, Issues
  <2>3. CASE NextPage("TCS").idx # NoPage
    <3>1. PICK p \in Page : p = NextPage("TCS").idx
      BY <2>3, GotPage
    <3>2. SourceTcs(call.code) \in Tcs /\ {"r", "w"} \in SUBSET Perm
      <4>1. 2 + SsaStart(call.code) \in Int /\ Nssa \in Nat
        BY <2>1, Layout, NssaAssumption
      <4> QED
        BY <4>1 DEF SourceTcs, Tcs, Perm
    <3>3. add_page_to_epc(p, "TCS", {"r", "w"}, SourceTcs(call.code))
      BY <1>5, <2>3, <3>1 DEF AddTcs
    <3>4. \/ UNCHANGED sgxVars
          \/ EADD(p, call.enclave, p, "TCS", {"r", "w"}, SourceTcs(call.code))
      BY <2>1, <3>3 DEF add_page_to_epc
    <3> QED
      BY <2>1, <3>2, <3>4 DEF Issues, IssuesEadd
  <2> QED
    BY <2>2, <2>3
<1>6. CASE AddReg
  <2>1. Building /\ OwnSecs = call.enclave
    BY <1>6, OwnSecsIs DEF AddReg, Running, Creating, Building
  <2>2. CASE NextPage("REG").idx = NoPage
    BY <1>6, <2>2 DEF AddReg, Stop, Issues
  <2>3. CASE NextPage("REG").idx # NoPage
    <3>1. PICK p \in Page : p = NextPage("REG").idx
      BY <2>3, GotPage
    <3>2. ZeroTcs \in Tcs /\ {"r", "w", "x"} \in SUBSET Perm
      BY DEF ZeroTcs, Tcs, Perm
    <3>3. add_page_to_epc(p, "REG", {"r", "w", "x"}, ZeroTcs)
      BY <1>6, <2>3, <3>1 DEF AddReg
    <3>4. \/ UNCHANGED sgxVars
          \/ EADD(p, call.enclave, p, "REG", {"r", "w", "x"}, ZeroTcs)
      BY <2>1, <3>3 DEF add_page_to_epc
    <3> QED
      BY <2>1, <3>2, <3>4 DEF Issues, IssuesEadd
  <2> QED
    BY <2>2, <2>3
<1>7. CASE measure_enclave_page
  <2>1. Building /\ call.step = "eextend" /\ EEXTEND(call.page)
    BY <1>7 DEF measure_enclave_page, Running, Creating, Building
  <2> QED
    BY <2>1, MeasuredIsOwn DEF Issues, IssuesEextend, Building
<1>8. CASE InitAccepted
  <2>1. Building /\ OwnSecs = call.enclave
    BY <1>8, OwnSecsIs DEF InitAccepted, AllAdded, Running, Creating, Building
  <2> QED
    BY <1>8, <2>1 DEF InitAccepted, Issues, IssuesEinit
<1>9. CASE InitRejected
  BY <1>9 DEF InitRejected, CreateFailed, Issues
<1>10. ASSUME NEW keid \in Keid, sys_add_epc(keid) PROVE Issues
  <2>1. PICK f \in Page, s \in Page :
          IF EaugOK(f, s, f)
          THEN EAUG(f, s, f) /\ UNCHANGED <<kenclaves, regions, esp, call, status>>
          ELSE Stop("gpfAug")
    BY <1>10, AddEpcTakes
  <2> QED
    BY <2>1 DEF Stop, Issues, IssuesEaug
<1>11. CASE Ended
  BY <1>11 DEF Ended, vars, Issues
<1> QED
  BY <1>1, <1>2, <1>3, <1>4, <1>5, <1>6, <1>7, <1>8, <1>9, <1>10, <1>11 DEF Next

-----------------------------------------------------------------------------
(* The invariant puts the EPCM in the order the refinement asks for.       *)
LEMMA KernEpcmOK == KInv => EpcmOK
BY Types DEF KInv, EpcmOK, PagesOK, PageOK

(***************************************************************************)
(* Under this kernel the emulator's tables implement EpcLife: a page is    *)
(* taken once, by the newest enclave or by one that exists, and unmeasured *)
(* only by an initialised one, which then has to accept it.                *)
(***************************************************************************)
THEOREM KernLifecycle == Spec => PagesLive
<1>1. Init => Life!LifeInit
  BY LifeInitial DEF Init, sys_sgx_init
<1>2. KInv /\ [Next]_vars => LifeStep
  <2> SUFFICES ASSUME KInv, [Next]_vars PROVE LifeStep
    OBVIOUS
  <2>0. EpcmOK /\ Issues
    BY KernEpcmOK, StepIssues
  <2>1. CASE UNCHANGED sgxVars
    BY <2>0, <2>1, CpuStep DEF sgxVars, pageVars
  <2>2. CASE IssuesEcreate
    BY <2>0, <2>2, CreateStep, CreatingFacts DEF IssuesEcreate
  <2>3. CASE IssuesEadd
    <3>1. call.enclave \in Page
      BY <2>3, CreatingFacts DEF IssuesEadd, Building
    <3> QED
      BY <2>0, <2>3, <3>1, AddStep DEF IssuesEadd
  <2>4. CASE IssuesEextend
    BY <2>0, <2>4, ExtendStep DEF IssuesEextend
  <2>5. CASE IssuesEinit
    <3>1. call.enclave \in Page
      BY <2>5, CreatingFacts DEF IssuesEinit, Building
    <3> QED
      BY <2>0, <2>5, <3>1, InitialiseStep DEF IssuesEinit
  <2>6. CASE IssuesEaug
    BY <2>0, <2>6, AugmentStep DEF IssuesEaug
  <2> QED
    BY <2>0, <2>1, <2>2, <2>3, <2>4, <2>5, <2>6 DEF Issues
<1> QED
  BY <1>1, <1>2, KernInvariance, PTL DEF Spec, PagesLive, Life!LifeSpec, LifeStep

(***************************************************************************)
(* An initialised enclave is one sys_create_enclave has returned, so none  *)
(* of the instructions that measure is issued for it again.                *)
(***************************************************************************)
LEMMA MeasuredOnce ==
  ASSUME KInv, [Next]_vars, NEW s \in Page, IsSecs(s), checkEINIT(secs[s].eid)
  PROVE  secs'[s].mrEnclave = secs[s].mrEnclave
<1>0. Issues /\ TypeOK
  BY StepIssues DEF KInv
<1>1. ASSUME Building PROVE call.enclave \in Page /\ s # call.enclave
  <2>1. call.enclave \in Page /\ call.eid \in Keid /\ secs[call.enclave].eid = call.eid
    BY <1>1, CreatingFacts, OwnSecsIs DEF Building
  <2>2. kenclaves[call.eid].state = "BUSY"
    BY <1>1 DEF Building, Creating, KInv, SlotOrder
  <2> QED
    BY <2>1, <2>2 DEF KInv, InitialisedCreated, checkEINIT
<1>2. CASE UNCHANGED sgxVars
  BY <1>2 DEF sgxVars, pageVars
<1>3. CASE IssuesEcreate
  <2>1. call.enclave \in Page /\ call.enclave \in Int /\ call.npages \in Int
    BY <1>3, CreatingFacts DEF IssuesEcreate
  <2>2. ~epcm[call.enclave].valid /\ \A r \in Page : r # call.enclave => secs'[r] = secs[r]
    BY <1>0, <1>3, <2>1, EcreateEffect DEF NewEntry, IssuesEcreate
  <2> QED
    BY <2>2 DEF IsSecs
<1>4. CASE IssuesEadd
  <2>1. PICK p \in Page, pt \in {"TCS", "REG"}, perm \in SUBSET Perm, src \in Tcs :
          EADD(p, call.enclave, p, pt, perm, src)
    BY <1>4 DEF IssuesEadd
  <2>2. call.enclave \in Page /\ s # call.enclave
    BY <1>1, <1>4 DEF IssuesEadd
  <2>3. Extended(call.enclave,
                 measure_page_add(pt, EaddPerm(pt, perm), p - secs[call.enclave].base))
    BY <1>0, <2>1, <2>2, EaddEffect
  <2> QED
    BY <2>2, <2>3 DEF Extended
<1>5. CASE IssuesEextend
  <2>1. PICK p \in Page : epcm[p].secs = call.enclave /\ EEXTEND(p)
    BY <1>5 DEF IssuesEextend
  <2>2. call.enclave \in Page /\ s # call.enclave
    BY <1>1, <1>5 DEF IssuesEextend
  <2>3. Extended(call.enclave,
                 measure_chunk_page(epcm[p].pt, p - secs[call.enclave].base))
    BY <1>0, <2>1, <2>2, EextendEffect
  <2> QED
    BY <2>2, <2>3 DEF Extended
<1>6. CASE IssuesEinit
  <2>1. call.enclave \in Page /\ s # call.enclave /\ EINIT(call.enclave, TRUE)
    BY <1>1, <1>6 DEF IssuesEinit
  <2> QED
    BY <1>0, <2>1, EinitEffect
<1>7. CASE IssuesEaug
  <2>1. secs' = secs
    BY <1>7 DEF IssuesEaug, EAUG
  <2> QED
    BY <2>1
<1> QED
  BY <1>0, <1>2, <1>3, <1>4, <1>5, <1>6, <1>7 DEF Issues

(* Under this kernel MRENCLAVE is final once EINIT has accepted it,        *)
(* although EADD, EEXTEND and EINIT do not ask.                            *)
THEOREM MeasuredForGood == Spec => MeasurementFinal
<1>1. KInv /\ [Next]_vars =>
        [\A s \in Page : IsSecs(s) /\ checkEINIT(secs[s].eid)
           => secs'[s].mrEnclave = secs[s].mrEnclave]_vars
  BY MeasuredOnce
<1> QED
  BY <1>1, KernInvariance, PTL DEF Spec, MeasurementFinal

-----------------------------------------------------------------------------
(* An enclave that has been created can be entered from then on.           *)

(* No step takes anything from a valid page, or from an enclave its eid.   *)
LEMMA EpcmOnlyGrows ==
  ASSUME KInv, [Next]_vars
  PROVE  EpcmGrows /\ entryEid \subseteq entryEid'
<1>0. Issues /\ TypeOK
  BY StepIssues DEF KInv
<1>e. Creating => call.enclave \in Page /\ call.enclave \in Int /\ call.npages \in Int
  BY CreatingFacts
<1>1. CASE UNCHANGED sgxVars
  BY <1>0, <1>1 DEF sgxVars, pageVars, eidVars, EpcmGrows, EpcmTypes, TypeOK, Identity
<1>2. CASE IssuesEcreate
  BY <1>0, <1>e, <1>2, EcreateEffect DEF IssuesEcreate
<1>3. CASE IssuesEadd
  BY <1>0, <1>e, <1>3, EaddEffect DEF IssuesEadd, Building
<1>4. CASE IssuesEextend
  BY <1>0, <1>e, <1>4, EextendEffect DEF IssuesEextend, Building
<1>5. CASE IssuesEinit
  BY <1>0, <1>e, <1>5, EinitEffect DEF IssuesEinit, Building
<1>6. CASE IssuesEaug
  <2>1. PICK p \in Page, s \in Page : EAUG(p, s, p)
    BY <1>6 DEF IssuesEaug
  <2>2. EpcmGrows /\ entryEid' = entryEid
    BY <1>0, <2>1, EaugEffect
  <2> QED
    BY <2>2
<1> QED
  BY <1>0, <1>1, <1>2, <1>3, <1>4, <1>5, <1>6 DEF Issues

Enterable(k) ==
  LET t == kenclaves[k].tcs
  IN  /\ t \in Page /\ TcsOK(t) /\ epcm[t].secs = kenclaves[k].secs
      /\ checkEINIT(secs[epcm[t].secs].eid)
      /\ \A n \in 0 .. tcs[t].nssa - 1 : FrameOK(FramePage(t, n), epcm[t].secs)

(* The TCS of an enclave and what EENTER reads through it stay.            *)
LEMMA FrameKept ==
  ASSUME KInv, EpcmGrows, NEW t \in Page, TcsOK(t)
  PROVE  /\ epcm'[t] = epcm[t] /\ tcs'[t] = tcs[t]
         /\ epcm[t].secs \in Page /\ secs'[epcm[t].secs].eid = secs[epcm[t].secs].eid
         /\ \A n : FramePage(t, n)' = FramePage(t, n)
<1>1. epcm[t].valid /\ epcm[t].pt = "TCS"
  BY DEF TcsOK
<1>2. PICK s \in Page : s = epcm[t].secs /\ epcm[s].valid
  BY <1>1 DEF KInv, PagesOK, PageOK, IsSecs
<1>3. epcm'[t] = epcm[t] /\ tcs'[t] = tcs[t] /\ Identity(s)
  BY <1>1, <1>2 DEF EpcmGrows
<1> QED
  BY <1>2, <1>3 DEF FramePage, Identity

(* A slot that keeps its enclave keeps an enclave that can be entered.     *)
LEMMA EnterableKept ==
  ASSUME KInv, EpcmGrows, entryEid \subseteq entryEid', NEW k \in Keid, Enterable(k),
         kenclaves'[k].tcs = kenclaves[k].tcs, kenclaves'[k].secs = kenclaves[k].secs
  PROVE  Enterable(k)'
<1>1. PICK t \in Page : t = kenclaves[k].tcs
  BY DEF Enterable
<1>2. /\ TcsOK(t) /\ epcm[t].secs = kenclaves[k].secs
      /\ secs[epcm[t].secs].eid \in entryEid
      /\ \A n \in 0 .. tcs[t].nssa - 1 : FrameOK(FramePage(t, n), epcm[t].secs)
  BY <1>1 DEF Enterable, checkEINIT
<1>3. /\ epcm'[t] = epcm[t] /\ tcs'[t] = tcs[t]
      /\ secs'[epcm[t].secs].eid = secs[epcm[t].secs].eid
      /\ \A n : FramePage(t, n)' = FramePage(t, n)
  BY <1>2, FrameKept
<1>4. TcsOK(t)'
  BY <1>2, <1>3 DEF TcsOK
<1>5. ASSUME NEW n \in 0 .. tcs[t].nssa - 1
      PROVE  FrameOK(FramePage(t, n), epcm[t].secs)'
  <2>1. PICK f \in Page : f = FramePage(t, n)
    BY <1>2 DEF FrameOK
  <2>2. FrameOK(f, epcm[t].secs) /\ epcm'[f] = epcm[f] /\ FramePage(t, n)' = f
    BY <1>2, <1>3, <2>1 DEF FrameOK, EpcmGrows
  <2> QED
    BY <1>3, <2>2 DEF FrameOK
<1> QED
  BY <1>1, <1>2, <1>3, <1>4, <1>5 DEF Enterable, checkEINIT

(* A slot becomes CREATED in one way only.                                 *)
LEMMA BecomesCreated ==
  ASSUME KInv, [Next]_vars, NEW k \in Keid, kenclaves'[k].state = "CREATED"
  PROVE  \/ kenclaves'[k].tcs = kenclaves[k].tcs /\ kenclaves'[k].secs = kenclaves[k].secs
            /\ kenclaves[k].state = "CREATED"
         \/ InitAccepted /\ k = call.eid
<1>t. kenclaves \in [Keid -> KernEnclaveSlot] /\ \A j \in Keid : kenclaves[j] \in KernEnclaveSlot
  BY DEF KInv, TypeOK
<1>1. CASE kenclaves' = kenclaves
  BY <1>1
<1>2. ASSUME NEW e, NEW st, st # "CREATED", kenclaves' = [kenclaves EXCEPT ![e].state = st]
      PROVE  kenclaves'[k] = kenclaves[k]
  BY <1>2, <1>t DEF KernEnclaveSlot
<1>3. CASE ecreate /\ kenclaves' # kenclaves
  <2>1. kenclaves' = [kenclaves EXCEPT ![call.eid].secs = NextPage("SECS").idx]
    BY <1>3 DEF ecreate, Stop
  <2>2. call.eid \in Keid /\ kenclaves[call.eid].state = "BUSY"
    BY <1>3 DEF KInv, CallOK, SlotOrder, ecreate, Running
  <2>3. k # call.eid
    BY <1>t, <2>1, <2>2 DEF KernEnclaveSlot
  <2> QED
    BY <1>t, <2>1, <2>3
<1>4. CASE InitAccepted
  BY <1>4, <1>t DEF InitAccepted
<1> QED
  BY <1>1, <1>2, <1>3, <1>4
     DEF Next, vars, kernVars, CreateFull, CreateBegin, AddTcs, AddReg, measure_enclave_page, InitRejected,
         sys_add_epc, Ended, Stop, CreateFailed, add_page_to_epc

(* The layout of a creation when all pages are added, as numbers.          *)
LEMMA Complete ==
  ASSUME KInv, AllAdded
  PROVE  \E s \in Page, t \in Page :
           /\ s = call.enclave /\ t = call.tcs /\ t = s + 1
           /\ call.code \in CodePages
           /\ OwnSecs = s /\ secs[s].base = s /\ secs[s].eid = call.eid
           /\ epcm[t].valid /\ epcm[t].pt = "TCS" /\ epcm[t].secs = s
           /\ tcs[t].nssa = Nssa /\ tcs[t].ossa = 2 + SsaStart(call.code)
           /\ \A p \in Nat : s + 2 <= p /\ p <= s + 1 + RegPages(call.code) =>
                /\ p \in Page /\ epcm[p].valid /\ epcm[p].pt = "REG" /\ epcm[p].secs = s
                /\ epcm[p].perm = {"r", "w", "x"}
           /\ regions.stackEnd = s + 1 + StackEnd(call.code)
           /\ regions.heapBeg = s + 2 + StackEnd(call.code)
           /\ regions.heapEnd = s + 1 + RegPages(call.code)
<1>1. Creating /\ call.step = "eadd" /\ call.added = RegPages(call.code)
  BY DEF AllAdded, Running, Creating
<1>2. /\ call.npages \in Nat /\ call.enclave \in Nat /\ call.enclave \in Page
      /\ call.code \in CodePages /\ TotalPages(call.code) <= call.npages
      /\ NumEpc \in Nat /\ call.enclave + call.npages < NumEpc
  BY <1>1, CreatingFacts
<1>3. /\ RegPages(call.code) \in Nat /\ StackEnd(call.code) \in Nat
      /\ TotalPages(call.code) = 2 + RegPages(call.code)
      /\ RegPages(call.code) = StackEnd(call.code) + HeapPages
      /\ HeapPages \in Nat /\ HeapPages >= 1
  BY <1>2, Layout
<1>4. Used = 2 + RegPages(call.code)
  BY <1>1 DEF Used
<1>5. /\ call.enclave + 1 \in Page
      /\ \A p \in Nat : p <= call.enclave + 1 + RegPages(call.code) => p \in Page
  BY <1>2, <1>3 DEF Page
<1>6. /\ secs[call.enclave].base = call.enclave /\ call.tcs = call.enclave + 1
      /\ epcm[call.tcs].valid /\ epcm[call.tcs].pt = "TCS"
      /\ epcm[call.tcs].secs = call.enclave /\ tcs[call.tcs] = SourceTcs(call.code)
      /\ \A p \in Page : call.enclave + 2 <= p /\ p < call.enclave + Used =>
           /\ epcm[p].valid /\ epcm[p].pt = "REG" /\ epcm[p].secs = call.enclave
           /\ epcm[p].perm = {"r", "w", "x"}
  BY <1>1, <1>3, <1>4 DEF KInv, LayoutOK
<1>7. /\ regions.stackEnd = call.enclave + 1 + StackEnd(call.code)
      /\ regions.heapBeg = call.enclave + 2 + StackEnd(call.code)
      /\ regions.heapEnd = call.enclave + 1 + RegPages(call.code)
  BY <1>1, <1>3, <1>4 DEF KInv, Marks
<1>8. OwnSecs = call.enclave /\ secs[call.enclave].eid = call.eid
  BY <1>1, OwnSecsIs
<1>9. tcs[call.tcs].nssa = Nssa /\ tcs[call.tcs].ossa = 2 + SsaStart(call.code)
  BY <1>6 DEF SourceTcs
<1>10. ASSUME NEW p \in Nat, call.enclave + 2 <= p, p <= call.enclave + 1 + RegPages(call.code)
       PROVE  /\ p \in Page /\ epcm[p].valid /\ epcm[p].pt = "REG" /\ epcm[p].secs = call.enclave
              /\ epcm[p].perm = {"r", "w", "x"}
  <2>1. p \in Page /\ p < call.enclave + Used
    BY <1>2, <1>3, <1>4, <1>5, <1>10
  <2> QED
    BY <1>6, <1>10, <2>1
<1> QED
  BY <1>2, <1>5, <1>6, <1>7, <1>8, <1>9, <1>10

(* What EINIT accepts can be entered: set_tcs_fields points ossa at the    *)
(* SSA pages, which were added as readable and writable REG pages.         *)
LEMMA EnterableNew ==
  ASSUME KInv, InitAccepted, NEW eid \in Keid, eid = call.eid
  PROVE  Enterable(eid)'
<1>1. PICK s \in Page, t \in Page :
           /\ s = call.enclave /\ t = call.tcs /\ t = s + 1
           /\ call.code \in CodePages
           /\ OwnSecs = s /\ secs[s].base = s /\ secs[s].eid = call.eid
           /\ epcm[t].valid /\ epcm[t].pt = "TCS" /\ epcm[t].secs = s
           /\ tcs[t].nssa = Nssa /\ tcs[t].ossa = 2 + SsaStart(call.code)
           /\ \A p \in Nat : s + 2 <= p /\ p <= s + 1 + RegPages(call.code) =>
                /\ p \in Page /\ epcm[p].valid /\ epcm[p].pt = "REG" /\ epcm[p].secs = s
                /\ epcm[p].perm = {"r", "w", "x"}
  BY Complete DEF InitAccepted
<1>c. PICK code \in CodePages : code = call.code
  BY <1>1
<1>2. /\ epcm' = epcm /\ tcs' = tcs /\ \A r \in Page : Identity(r)
      /\ entryEid' = entryEid \cup {eid}
  BY <1>1, <1>c, EinitEffect DEF InitAccepted, KInv
<1>3. kenclaves'[eid].tcs = t /\ kenclaves'[eid].secs = s
  <2>1. kenclaves \in [Keid -> KernEnclaveSlot] /\ kenclaves[eid] \in KernEnclaveSlot
    BY DEF KInv, TypeOK
  <2> QED
    BY <1>1, <1>c, <2>1 DEF InitAccepted, OwnSecs, KernEnclaveSlot
<1>4. TcsOK(t)'
  BY <1>1, <1>2 DEF KInv, PagesOK, PageOK, TcsOK
<1>5. secs'[s].eid = eid /\ secs'[s].base = s
  BY <1>1, <1>c, <1>2 DEF Identity
<1>6. ASSUME NEW n \in 0 .. Nssa - 1 PROVE FrameOK(FramePage(t, n), s)'
  <2>1. PICK f \in Nat : f = s + (2 + SsaStart(code)) + n
    BY Layout, NssaAssumption, NumEpcAssumption DEF Page
  <2>2. FramePage(t, n)' = f
    BY <1>1, <1>2, <1>5, <1>c, <2>1 DEF FramePage
  <2>3. s + 2 <= f /\ f <= s + 1 + RegPages(code)
    <3>1. /\ SsaStart(code) \in Nat /\ RegPages(code) \in Nat
          /\ SsaStart(code) + SsaPages + StackPages = StackEnd(code)
          /\ RegPages(code) = StackEnd(code) + HeapPages
          /\ SsaPages \in Nat /\ StackPages \in Nat /\ HeapPages \in Nat /\ HeapPages >= 1
      BY Layout
    <3>2. n \in Nat /\ n < SsaPages /\ s \in Nat
      BY <3>1, NssaAssumption, NumEpcAssumption DEF Page
    <3> QED
      BY <2>1, <3>1, <3>2
  <2>4. /\ f \in Page /\ epcm[f].valid /\ epcm[f].pt = "REG" /\ epcm[f].secs = s
        /\ epcm[f].perm = {"r", "w", "x"}
    BY <1>1, <1>c, <2>3
  <2>5. ~epcm[f].blocked /\ epcm[f].addr = f
    BY <2>4 DEF KInv, PagesOK, PageOK
  <2>6. FrameOK(f, s)'
    BY <1>2, <2>4, <2>5 DEF FrameOK
  <2> QED
    BY <2>2, <2>6 DEF FrameOK
<1> QED
  BY <1>1, <1>2, <1>3, <1>4, <1>5, <1>6 DEF Enterable, checkEINIT

(* The TCS and the frames a creation leaves behind are in place for good.  *)
LEMMA EnterableStep ==
  ASSUME KInv, CreatedIsEnterable, [Next]_vars
  PROVE  CreatedIsEnterable'
<1> SUFFICES ASSUME NEW k \in Keid, kenclaves'[k].state = "CREATED" PROVE Enterable(k)'
  BY DEF CreatedIsEnterable, Created, Enterable
<1>1. CASE InitAccepted /\ k = call.eid
  BY <1>1, EnterableNew
<1>2. CASE /\ kenclaves'[k].tcs = kenclaves[k].tcs /\ kenclaves'[k].secs = kenclaves[k].secs
           /\ kenclaves[k].state = "CREATED"
  <2>1. Enterable(k)
    BY <1>2 DEF CreatedIsEnterable, Created, Enterable
  <2> QED
    BY <1>2, <2>1, EpcmOnlyGrows, EnterableKept
<1> QED
  BY <1>1, <1>2, BecomesCreated

(* EENTER's checks on the TCS and on every SSA frame pass for an enclave   *)
(* sys_create_enclave has returned, whatever has been created since.       *)
THEOREM AlwaysEnterable == Spec => []CreatedIsEnterable
<1>1. Init => CreatedIsEnterable
  BY DEF Init, sys_sgx_init, CreatedIsEnterable, Created
<1> QED
  BY <1>1, EnterableStep, KernInvariance, PTL DEF Spec

-----------------------------------------------------------------------------
(* The stack and the heap of the newest enclave.                           *)

Owned(k) == {p \in Page : epcm[p].valid /\ epcm[p].pt = "REG"
                          /\ epcm[p].secs = kenclaves[k].secs}

OwnRegions(k) ==
  LET t == kenclaves[k].tcs
      stackBeg == esp - StackPages + 1
  IN  /\ stackBeg .. esp \subseteq Owned(k)
      /\ regions.heapBeg .. regions.heapEnd \subseteq Owned(k)
      /\ esp < regions.heapBeg
      /\ \A n \in 0 .. tcs[t].nssa - 1 : FramePage(t, n) < stackBeg

(* A step that leaves the kernel idle ended a creation, well or badly, or  *)
(* left what the kernel remembers alone.                                   *)
LEMMA BackToIdle ==
  ASSUME KInv, [Next]_vars, Running("idle")'
  PROVE  \/ InitAccepted
         \/ /\ Creating
            /\ kenclaves' = [kenclaves EXCEPT ![call.eid].state = "FAILED"]
         \/ Running("idle") /\ UNCHANGED <<kenclaves, regions, esp>>
<1>i. status' = "run" /\ call'.step = "idle" /\ CallOK
  BY DEF Running, KInv
<1>1. CASE UNCHANGED vars
  BY <1>i, <1>1 DEF vars, kernVars, Running
<1>2. CASE CreateFull
  BY <1>i, <1>2 DEF CreateFull, Stop
<1>3. ASSUME NEW code \in CodePages, CreateBegin(code) PROVE FALSE
  BY <1>i, <1>3 DEF CreateBegin, Idle
<1>4. CASE ecreate
  BY <1>i, <1>4 DEF ecreate, Stop, Running, CallOK
<1>5. CASE AddTcs
  BY <1>i, <1>5 DEF AddTcs, CreateFailed, add_page_to_epc, Running, Creating, CallOK
<1>6. CASE AddReg
  BY <1>i, <1>6 DEF AddReg, Stop, add_page_to_epc, Running, CallOK
<1>7. CASE measure_enclave_page
  BY <1>i, <1>7 DEF measure_enclave_page, CallOK
<1>8. CASE InitRejected
  BY <1>8 DEF InitRejected, AllAdded, CreateFailed, Running, Creating
<1>9. ASSUME NEW keid \in Keid, sys_add_epc(keid)
      PROVE  Running("idle") /\ UNCHANGED <<kenclaves, regions, esp>>
  BY <1>i, <1>9 DEF sys_add_epc, Stop
<1>10. CASE Ended
  BY <1>i, <1>10 DEF Ended, vars, kernVars
<1> QED
  BY <1>1, <1>2, <1>3, <1>4, <1>5, <1>6, <1>7, <1>8, <1>9, <1>10 DEF Next

(* The enclave being created is the newest one that was tried.             *)
LEMMA BusyIsNewest ==
  ASSUME KInv, Creating, NEW k \in Keid, kenclaves[k].state # "FREE"
  PROVE  k <= call.eid
<1>1. /\ ~(Taken <= k) /\ call.eid + 1 = Taken
  BY DEF KInv, SlotOrder, Creating
<1>2. k \in Nat /\ call.eid \in Nat
  BY CreatingFacts, EnclavesAssumption DEF Keid
<1> QED
  BY <1>1, <1>2

(* After EINIT the last stack page and the ends of the heap are the marks  *)
(* AddReg has set.                                                         *)
LEMMA RegionsNew ==
  ASSUME KInv, InitAccepted, NEW eid \in Keid, eid = call.eid
  PROVE  OwnRegions(eid)'
<1>1. PICK s \in Page, t \in Page :
           /\ s = call.enclave /\ t = call.tcs /\ t = s + 1
           /\ call.code \in CodePages
           /\ OwnSecs = s /\ secs[s].base = s /\ secs[s].eid = call.eid
           /\ epcm[t].valid /\ epcm[t].pt = "TCS" /\ epcm[t].secs = s
           /\ tcs[t].nssa = Nssa /\ tcs[t].ossa = 2 + SsaStart(call.code)
           /\ \A p \in Nat : s + 2 <= p /\ p <= s + 1 + RegPages(call.code) =>
                /\ p \in Page /\ epcm[p].valid /\ epcm[p].pt = "REG" /\ epcm[p].secs = s
           /\ regions.stackEnd = s + 1 + StackEnd(call.code)
           /\ regions.heapBeg = s + 2 + StackEnd(call.code)
           /\ regions.heapEnd = s + 1 + RegPages(call.code)
  BY Complete DEF InitAccepted
<1>c. PICK code \in CodePages : code = call.code
  BY <1>1
<1>2. epcm' = epcm /\ tcs' = tcs /\ \A r \in Page : Identity(r)
  BY <1>1, EinitEffect DEF InitAccepted, KInv
<1>3. kenclaves'[eid].tcs = t /\ kenclaves'[eid].secs = s
  <2>1. kenclaves \in [Keid -> KernEnclaveSlot] /\ kenclaves[eid] \in KernEnclaveSlot
    BY DEF KInv, TypeOK
  <2> QED
    BY <1>1, <2>1 DEF InitAccepted, OwnSecs, KernEnclaveSlot
<1>4. /\ SsaStart(code) \in Nat /\ StackEnd(code) \in Nat /\ RegPages(code) \in Nat
      /\ SsaStart(code) + SsaPages + StackPages = StackEnd(code)
      /\ RegPages(code) = StackEnd(code) + HeapPages
      /\ SsaPages \in Nat /\ StackPages \in Nat /\ HeapPages \in Nat /\ HeapPages >= 1
      /\ StackPages >= 1 /\ s \in Nat
  BY Layout, NumEpcAssumption DEF Page
<1>5. \A p \in Nat : s + 2 <= p /\ p <= s + 1 + RegPages(code) => p \in Owned(eid)'
  BY <1>1, <1>2, <1>3, <1>c DEF Owned
<1>6. /\ esp' = s + 1 + StackEnd(code) /\ regions'.heapBeg = s + 2 + StackEnd(code)
      /\ regions'.heapEnd = s + 1 + RegPages(code)
  BY <1>1, <1>c DEF InitAccepted
<1>7. PICK stackBeg \in Nat : /\ stackBeg = s + 2 + SsaStart(code) + SsaPages
                             /\ stackBeg = esp' - StackPages + 1
  BY <1>4, <1>6
<1>8. ASSUME NEW n \in 0 .. Nssa - 1 PROVE FramePage(t, n)' < stackBeg
  <2>1. FramePage(t, n)' = s + (2 + SsaStart(code)) + n
    BY <1>1, <1>2, <1>c DEF FramePage, Identity
  <2>2. n \in Nat /\ n < SsaPages
    BY <1>4, NssaAssumption
  <2> QED
    BY <1>4, <1>7, <2>1, <2>2
<1>9. stackBeg .. (s + 1 + StackEnd(code)) \subseteq Owned(eid)'
  <2> SUFFICES ASSUME NEW p \in stackBeg .. (s + 1 + StackEnd(code)) PROVE p \in Owned(eid)'
    OBVIOUS
  <2>1. p \in Nat /\ s + 2 <= p /\ p <= s + 1 + RegPages(code)
    BY <1>4, <1>7
  <2> QED
    BY <1>5, <2>1
<1>10. (s + 2 + StackEnd(code)) .. (s + 1 + RegPages(code)) \subseteq Owned(eid)'
  <2> SUFFICES ASSUME NEW p \in (s + 2 + StackEnd(code)) .. (s + 1 + RegPages(code))
               PROVE  p \in Owned(eid)'
    OBVIOUS
  <2>1. p \in Nat /\ s + 2 <= p /\ p <= s + 1 + RegPages(code)
    BY <1>4
  <2> QED
    BY <1>5, <2>1
<1>11. esp' < regions'.heapBeg
  BY <1>4, <1>6
<1> QED
  BY <1>1, <1>2, <1>3, <1>6, <1>7, <1>8, <1>9, <1>10, <1>11 DEF OwnRegions

(* sys_add_epc moves none of it.                                           *)
LEMMA RegionsKept ==
  ASSUME KInv, EpcmGrows, UNCHANGED <<kenclaves, regions, esp>>, NEW k \in Keid,
         Enterable(k), OwnRegions(k)
  PROVE  OwnRegions(k)'
<1>1. PICK t \in Page : t = kenclaves[k].tcs /\ TcsOK(t)
  BY DEF Enterable
<1>2. tcs'[t] = tcs[t] /\ \A n : FramePage(t, n)' = FramePage(t, n)
  BY <1>1, FrameKept
<1>3. Owned(k) \subseteq Owned(k)'
  BY DEF Owned, EpcmGrows
<1>4. /\ esp - StackPages + 1 .. esp \subseteq Owned(k)
      /\ regions.heapBeg .. regions.heapEnd \subseteq Owned(k)
      /\ esp < regions.heapBeg
      /\ \A n \in 0 .. tcs[t].nssa - 1 : FramePage(t, n) < esp - StackPages + 1
  BY <1>1 DEF OwnRegions
<1> QED
  BY <1>1, <1>2, <1>3, <1>4 DEF OwnRegions

(* The regions are the newest enclave's whenever the kernel is idle.       *)
LEMMA RegionsStep ==
  ASSUME KInv, CreatedIsEnterable, RegionsOfNewest, [Next]_vars
  PROVE  RegionsOfNewest'
<1> SUFFICES ASSUME Running("idle")', NEW k \in Keid, kenclaves'[k].state = "CREATED",
                    \A j \in Keid : kenclaves'[j].state # "FREE" => j <= k
             PROVE  OwnRegions(k)'
  BY DEF RegionsOfNewest, Created, Tried, OwnRegions, Owned
<1>t. kenclaves \in [Keid -> KernEnclaveSlot] /\ \A j \in Keid : kenclaves[j] \in KernEnclaveSlot
  BY DEF KInv, TypeOK
<1>1. ASSUME Creating, NEW eid \in Keid, eid = call.eid, kenclaves'[eid].state # "FREE",
             k # eid => kenclaves'[k] = kenclaves[k]
      PROVE  k = eid
  <2>1. eid <= k /\ k \in Nat /\ eid \in Nat
    BY <1>1, EnclavesAssumption DEF Keid
  <2>2. k # eid => k <= eid
    BY <1>1, BusyIsNewest
  <2> QED
    BY <2>1, <2>2
<1>c. Creating => \E eid \in Keid : eid = call.eid
  BY CreatingFacts
<1>2. CASE InitAccepted
  <2>1. Creating
    BY <1>2 DEF InitAccepted, AllAdded, Running, Creating
  <2>2. PICK eid \in Keid : eid = call.eid
    BY <1>c, <2>1
  <2>3. kenclaves'[eid].state # "FREE" /\ (k # eid => kenclaves'[k] = kenclaves[k])
    BY <1>2, <1>t, <2>2 DEF InitAccepted, KernEnclaveSlot
  <2> QED
    BY <1>1, <1>2, <2>1, <2>2, <2>3, RegionsNew
<1>3. CASE Creating /\ kenclaves' = [kenclaves EXCEPT ![call.eid].state = "FAILED"]
  <2>1. PICK eid \in Keid : eid = call.eid
    BY <1>c, <1>3
  <2>2. kenclaves'[eid].state = "FAILED" /\ (k # eid => kenclaves'[k] = kenclaves[k])
    BY <1>3, <1>t, <2>1 DEF KernEnclaveSlot
  <2> QED
    BY <1>1, <1>3, <2>1, <2>2
<1>4. CASE Running("idle") /\ UNCHANGED <<kenclaves, regions, esp>>
  <2>1. Enterable(k)
    BY <1>4 DEF CreatedIsEnterable, Created, Enterable
  <2>2. OwnRegions(k)
    BY <1>4 DEF RegionsOfNewest, Created, Tried, OwnRegions, Owned
  <2> QED
    BY <1>4, <2>1, <2>2, EpcmOnlyGrows, RegionsKept
<1> QED
  BY <1>2, <1>3, <1>4, BackToIdle

(* epc_stack_end, epc_heap_beg and epc_heap_end are pages of the enclave   *)
(* created last and clear of its SSA frames.                               *)
THEOREM RegionsRight == Spec => []RegionsOfNewest
<1>1. Init => RegionsOfNewest
  BY DEF Init, sys_sgx_init, RegionsOfNewest, Created
<1> QED
  BY <1>1, RegionsStep, AlwaysEnterable, KernInvariance, PTL DEF Spec
=============================================================================
