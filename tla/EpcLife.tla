------------------------------ MODULE EpcLife ------------------------------
(***************************************************************************)
(* What the SGX instructions promise about the pages of the EPC, without   *)
(* the EPCM: a page is free until an enclave takes it and belongs to that  *)
(* enclave from then on; enclaves are numbered in the order they are       *)
(* created; a page added behind the back of the measurement goes to an     *)
(* initialised enclave only and waits until that enclave accepts it.       *)
(***************************************************************************)
EXTENDS Integers

CONSTANTS
  Page,    \* the pages of the EPC
  NoOwner  \* the owner of a page that is free

VARIABLES
  owner,       \* the eid of the enclave each page belongs to
  next,        \* the eid of the next enclave
  initialised, \* the eids of the enclaves EINIT has accepted
  waiting      \* the pages their enclave has not accepted yet

lifeVars == <<owner, next, initialised, waiting>>

Enclaves == {owner[p] : p \in Page} \ {NoOwner}

LifeInit ==
  /\ owner = [p \in Page |-> NoOwner]
  /\ next = 0
  /\ initialised = {} /\ waiting = {}

Take(p, e) == owner[p] = NoOwner /\ owner' = [owner EXCEPT ![p] = e]

Create(p) ==
  /\ Take(p, next)
  /\ next' = next + 1
  /\ UNCHANGED <<initialised, waiting>>

Add(p, e) ==
  /\ Take(p, e)
  /\ UNCHANGED <<next, initialised, waiting>>

Augment(p, e) ==
  /\ e \in initialised
  /\ Take(p, e)
  /\ waiting' = waiting \cup {p}
  /\ UNCHANGED <<next, initialised>>

Initialise(e) ==
  /\ initialised' = initialised \cup {e}
  /\ UNCHANGED <<owner, next, waiting>>

Accept(p) ==
  /\ p \in waiting
  /\ waiting' = waiting \ {p}
  /\ UNCHANGED <<owner, next, initialised>>

LifeNext ==
  \/ \E p \in Page : Create(p) \/ Accept(p)
  \/ \E e \in Enclaves : Initialise(e)
  \/ \E p \in Page, e \in Enclaves : Add(p, e) \/ Augment(p, e)

LifeSpec == LifeInit /\ [][LifeNext]_lifeVars
=============================================================================
