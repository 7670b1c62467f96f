------------------------------ MODULE Idempotency ------------------------------
(***************************************************************************)
(* core/idempotency.py: a registry of orders by the id the client made for *)
(* them.  buy() registers; connect() purges; the answer of the server, or  *)
(* its absence, is handed in with confirm() and fail() by the program (the *)
(* library calls neither).  Every method holds the lock throughout.        *)
(***************************************************************************)
EXTENDS Naturals

CONSTANTS
  RequestIds,
  Lifetime    \* _TTL_SECONDS, in ticks

ASSUME IdempotencyAssumption == Lifetime \in Nat

VARIABLES
  registry,    \* the states of the entries; "absent" if there is none
  age,      \* since created_at, as far as it is compared
  known,    \* history: the server's order id was handed in by confirm()
  failed    \* history: fail() was called after that

registryVars == <<registry, age, known, failed>>

IdempotencyInit ==
  /\ registry = [r \in RequestIds |-> "absent"]
  /\ age = [r \in RequestIds |-> 0]
  /\ known = {} /\ failed = {}

\* register(): ids are random, and never drawn twice.
Register(r) ==
  /\ registry[r] = "absent" /\ age[r] = 0 /\ r \notin known
  /\ registry' = [registry EXCEPT ![r] = "PENDING"]
  /\ UNCHANGED <<age, known, failed>>

ConfirmPending(r) ==   \* variant: an answer after fail() is ignored
  /\ registry' = IF registry[r] # "PENDING" THEN registry ELSE [registry EXCEPT ![r] = "CONFIRMED"]
  /\ known' = IF registry[r] = "absent" THEN known ELSE known \cup {r}
  /\ failed' = failed \ {r}
  /\ UNCHANGED age

\* confirm(): also after fail(), for an answer that came late.
Confirm(r) ==
  /\ registry' = IF registry[r] = "absent" THEN registry ELSE [registry EXCEPT ![r] = "CONFIRMED"]
  /\ known' = IF registry[r] = "absent" THEN known ELSE known \cup {r}
  /\ failed' = failed \ {r}
  /\ UNCHANGED age

\* fail(), whatever the state: the order id of a confirmed entry is out of reach.
Fail(r) ==
  /\ registry' = IF registry[r] = "absent" THEN registry ELSE [registry EXCEPT ![r] = "FAILED"]
  /\ failed' = failed \cup {r}
  /\ UNCHANGED <<age, known>>

\* purge_expired(): by age, whatever the state.
PurgeExpired ==
  /\ registry' = [r \in RequestIds |-> IF age[r] > Lifetime THEN "absent" ELSE registry[r]]
  /\ UNCHANGED <<age, known, failed>>

RegistryAges ==
  /\ \E r \in RequestIds : registry[r] # "absent" /\ age[r] <= Lifetime
  /\ age' = [r \in RequestIds |->
       IF registry[r] # "absent" /\ age[r] <= Lifetime THEN age[r] + 1 ELSE age[r]]
  /\ UNCHANGED <<registry, known, failed>>

IdempotencyNext ==
  \/ \E r \in RequestIds : Register(r) \/ Confirm(r) \/ Fail(r)
  \/ PurgeExpired \/ RegistryAges

IdempotencySpec == IdempotencyInit /\ [][IdempotencyNext]_registryVars

IsPending(r)  == registry[r] = "PENDING"
GetOrderId(r) == registry[r] = "CONFIRMED"   \* whether it gives the id

-----------------------------------------------------------------------------
IdempotencyTypeOK ==
  /\ registry \in [RequestIds -> {"absent", "PENDING", "CONFIRMED", "FAILED"}]
  /\ age \in [RequestIds -> 0 .. Lifetime + 1]
  /\ known \subseteq RequestIds /\ failed \subseteq RequestIds

\* An order that the server has accepted is not offered for a retry during the
\* lifetime of its entry: once confirm() had its id, and unless fail() came after
\* it, get_order_id() gives it, an earlier fail() and other orders notwithstanding.
ConfirmedIsFound ==
  \A r \in known \ failed : age[r] <= Lifetime => GetOrderId(r)
=============================================================================
