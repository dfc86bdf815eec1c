-------------------------- MODULE ProviderGateway --------------------------
(***************************************************************************)
(* RoutingInvoker.invoke of the capability gateway with the two stores it  *)
(* shares with other processes: the circuit records of the providers and   *)
(* the concurrency leases.  A process chooses its stores when it starts    *)
(* (wiring.py): one that cannot reach Redis falls back to PostgreSQL, so   *)
(* processes may keep the state of one provider in two places.  A cell is  *)
(* a provider in one of these places.  A process with in-memory stores     *)
(* shares nothing with others and makes no calls here.                     *)
(*                                                                         *)
(* One action is one transaction with a store, or the provider's answer.   *)
(* A circuit record is read in one transaction and written back whole in   *)
(* another.  Deadlines are abstracted to "still to come" and "passed".     *)
(*                                                                         *)
(* A definition that stands just before another with the same parameters   *)
(* and is used nowhere is a faulty variant of it; PROJECT.json names the   *)
(* property it breaks.                                                     *)
(***************************************************************************)
EXTENDS Integers, Sequences, FiniteSets

CONSTANTS
    Callers,            \* concurrent calls of invoke, in all processes
    Providers,          \* provider instance ids
    Plan,               \* RoutingPlan.providers of each; a STRICT plan has one
    MaxConcurrency,     \* limits.max_concurrency
    FailureThreshold,   \* failure_threshold of the breaker
    Deployments,        \* which store the process of each caller may use
    StoreFaults,        \* may a store call fail?
    LongCalls,          \* may a call outlast the lease (lease_ttl_seconds)?
    Crashes             \* may the process of a caller die?

ASSUME GatewayAssumption ==
    /\ IsFiniteSet(Callers)
    /\ Plan \in [Callers -> Seq(Providers)]
    /\ \A c \in Callers : Len(Plan[c]) > 0
    /\ MaxConcurrency \in Nat \ {0}
    /\ FailureThreshold \in Nat \ {0}
    /\ Deployments \subseteq [Callers -> {"postgres", "redis", "memory"}]
    /\ {StoreFaults, LongCalls, Crashes} \subseteq BOOLEAN

VARIABLES
    store,      \* the stores of the process of each caller; never changes
    circuit,    \* the stored circuit record of each cell
    orphans,    \* unexpired leases whose release was lost, by cell
    blamed,     \* history: availability failures fed back to each cell so
                \* far, counted up to FailureThreshold
    pc,         \* where each caller is in the loop body
    at,         \* the attempt_index
    copy,       \* the record it has read and changed
    held,       \* its lease is neither released nor expired
    outcome     \* how its attempt ended

shared == <<circuit, orphans, blamed>>
vars == <<store, circuit, orphans, blamed, pc, at, copy, held, outcome>>

(* next_probe_at is None, still to come, or passed.                        *)
Record == [state : {"closed", "open", "half_open"}, failures : 0..FailureThreshold,
           probe : {"none", "future", "due"}]
Fresh == [state |-> "closed", failures |-> 0, probe |-> "none"]
Reopened(rec) == [rec EXCEPT !.state = "open", !.probe = "future"]

Cells == {"postgres", "redis"} \X Providers
Cell(c) == <<store[c], Plan[c][at[c]]>>
Go(c, step) == pc' = [pc EXCEPT ![c] = step]

Init ==
    /\ store \in Deployments
    /\ circuit = [x \in Cells |-> Fresh]
    /\ orphans = [x \in Cells |-> 0]
    /\ blamed = [x \in Cells |-> 0]
    /\ pc = [c \in Callers |-> "idle"]
    /\ at = [c \in Callers |-> 1]
    /\ copy = [c \in Callers |-> Fresh]
    /\ held = [c \in Callers |-> FALSE]
    /\ outcome = [c \in Callers |-> "none"]

-----------------------------------------------------------------------------
(* The stores.                                                             *)

Raises(x) == StoreFaults /\ x[1] = "postgres"    \* the caller gets an exception
FailsOpen(x) == StoreFaults /\ x[1] = "redis"    \* logged; a default is used

Read(x) == {circuit[x]} \cup {rec \in {Fresh} : FailsOpen(x)}

Stored(x, rec) ==
    \/ circuit' = [circuit EXCEPT ![x] = rec]
    \/ FailsOpen(x) /\ UNCHANGED circuit

Holders(x) == {c \in Callers : held[c] /\ Cell(c) = x}
Active(x) == orphans[x] + Cardinality(Holders(x))

-----------------------------------------------------------------------------
(* How the loop body is left: return, next provider of the plan, exception.*)

Return(c) == Go(c, "idle") /\ UNCHANGED <<at, outcome>>

NextProvider(c) ==
    IF at[c] = Len(Plan[c]) THEN Return(c)
    ELSE /\ Go(c, "guard")
         /\ at' = [at EXCEPT ![c] = @ + 1]
         /\ outcome' = [outcome EXCEPT ![c] = "none"]

Raise(c) ==
    /\ Raises(Cell(c))
    /\ Go(c, "finally")
    /\ outcome' = [outcome EXCEPT ![c] = "raised"]
    /\ UNCHANGED at

-----------------------------------------------------------------------------
Begin(c) ==
    /\ pc[c] = "idle" /\ store[c] # "memory"
    /\ Go(c, "guard")
    /\ at' = [at EXCEPT ![c] = 1]
    /\ outcome' = [outcome EXCEPT ![c] = "none"]
    /\ UNCHANGED <<shared, copy, held>>

MayProbe(rec) == rec.state = "open" /\ rec.probe = "due"

(* CircuitBreaker.allow reads the record.  An open circuit whose cooldown  *)
(* has passed is written back as HALF_OPEN; a rejected provider is skipped *)
(* whatever the fallback policy says.                                      *)
Allow(c) ==
    /\ pc[c] = "guard"
    /\ \/ \E rec \in Read(Cell(c)) :
             \/ /\ rec.state # "open"
                /\ Go(c, "budget") /\ UNCHANGED <<at, copy, outcome>>
             \/ /\ MayProbe(rec)
                /\ copy' = [copy EXCEPT ![c] = [rec EXCEPT !.state = "half_open"]]
                /\ Go(c, "saveProbe") /\ UNCHANGED <<at, outcome>>
             \/ /\ rec.state = "open" /\ ~MayProbe(rec)
                /\ NextProvider(c) /\ UNCHANGED copy
       \/ Raise(c) /\ UNCHANGED copy
    /\ UNCHANGED <<shared, held>>

(* The write of a record read before; the local copy is dropped.           *)
Save(c, next) ==
    /\ \/ Stored(Cell(c), copy[c]) /\ Go(c, next) /\ UNCHANGED <<at, outcome>>
       \/ Raise(c) /\ UNCHANGED circuit
    /\ copy' = [copy EXCEPT ![c] = Fresh]
    /\ UNCHANGED <<orphans, blamed, held>>

SaveProbe(c) == pc[c] = "saveProbe" /\ Save(c, "budget")

OneTooMany(x) == Active(x) <= MaxConcurrency
HasCapacity(x) == Active(x) < MaxConcurrency

(* A lease in the store that nobody will release.                          *)
Orphan(x) == orphans' = [orphans EXCEPT ![x] = @ + 1]

(* One transaction, serialised per cell by the row lock or the script: *)
(* drop what has expired, count, insert.                                   *)
Acquire(c) ==
    /\ pc[c] = "budget"
    /\ \/ /\ HasCapacity(Cell(c))
          /\ held' = [held EXCEPT ![c] = TRUE]
          /\ Go(c, "calling") /\ UNCHANGED <<orphans, at, outcome>>
       \/ /\ Raise(c)
          /\ UNCHANGED orphans \/ (HasCapacity(Cell(c)) /\ Orphan(Cell(c)))
          /\ UNCHANGED held
    /\ UNCHANGED <<circuit, blamed, copy>>

WaitsForEver(c) == FALSE
WaitIsOver(c) == ~HasCapacity(Cell(c))

(* The bounded wait ended without a lease.                                 *)
GiveUp(c) ==
    /\ pc[c] = "budget"
    /\ WaitIsOver(c)
    /\ NextProvider(c)
    /\ UNCHANGED <<shared, copy, held>>

(* Redis did not answer, but may have added the lease all the same.        *)
LoseAcquire(c) ==
    /\ pc[c] = "budget"
    /\ FailsOpen(Cell(c))
    /\ UNCHANGED orphans \/ (HasCapacity(Cell(c)) /\ Orphan(Cell(c)))
    /\ NextProvider(c)
    /\ UNCHANGED <<circuit, blamed, copy, held>>

(* The provider answers, or its timeout does: success, a failure that says *)
(* the provider is unavailable, or another one, which feeds back nothing.  *)
Answer(c) ==
    /\ pc[c] = "calling"
    /\ \E o \in {"success", "unavailable", "other"} :
          /\ outcome' = [outcome EXCEPT ![c] = o]
          /\ Go(c, IF o = "other" THEN "finally" ELSE "feedback")
          /\ blamed' = IF o = "unavailable" /\ blamed[Cell(c)] < FailureThreshold
                       THEN [blamed EXCEPT ![Cell(c)] = @ + 1] ELSE blamed
    /\ UNCHANGED <<circuit, orphans, at, copy, held>>

StaysHalfOpen(rec) == [rec EXCEPT !.failures = 0, !.probe = "none"]
AfterSuccess(rec) ==
    [state |-> IF rec.state = "half_open" THEN "closed" ELSE rec.state,
     failures |-> 0, probe |-> "none"]

LateTrip(rec) ==
    IF rec.state = "half_open" THEN Reopened(rec)
    ELSE IF rec.failures < FailureThreshold THEN [rec EXCEPT !.failures = @ + 1]
    ELSE Reopened(rec)
EagerTrip(rec) == Reopened(rec)
AfterFailure(rec) ==
    LET failures == IF rec.failures < FailureThreshold /\ rec.state # "half_open"
                    THEN rec.failures + 1 ELSE rec.failures
        counted == [rec EXCEPT !.failures = failures]
    IN IF rec.state = "half_open" \/ failures >= FailureThreshold
       THEN Reopened(counted) ELSE counted

(* record_success and record_failure read the record ...                   *)
ReadFeedback(c) ==
    /\ pc[c] = "feedback"
    /\ \/ /\ \E rec \in Read(Cell(c)) :
                copy' = [copy EXCEPT ![c] = IF outcome[c] = "success"
                                            THEN AfterSuccess(rec) ELSE AfterFailure(rec)]
          /\ Go(c, "saveFeedback") /\ UNCHANGED <<at, outcome>>
       \/ Raise(c) /\ UNCHANGED copy
    /\ UNCHANGED <<shared, held>>

(* ... and write it back.                                                  *)
SaveFeedback(c) == pc[c] = "saveFeedback" /\ Save(c, "finally")

(* A success, or a failure that may not fall back, leaves the loop.        *)
Conclude(c) ==
    \/ outcome[c] = "unavailable" /\ NextProvider(c)
    \/ outcome[c] # "unavailable" /\ Return(c)

KeptOnFailure(c) == held' = [held EXCEPT ![c] = outcome[c] # "success" /\ @]
Released(c) == held' = [held EXCEPT ![c] = FALSE]

(* A lease that is not released stays until it expires.                    *)
LeaseLost(c) == IF held[c] THEN Orphan(Cell(c)) ELSE UNCHANGED orphans

(* The finally clause releases the lease, if there is one.  A failure of   *)
(* the release is swallowed on Redis and replaces the result on Postgres.  *)
Finally(c) ==
    /\ pc[c] = "finally"
    /\ Released(c)
    /\ \/ UNCHANGED orphans /\ Conclude(c)
       \/ FailsOpen(Cell(c)) /\ LeaseLost(c) /\ Conclude(c)
       \/ /\ Raises(Cell(c)) /\ (held[c] \/ outcome[c] # "raised")
          /\ UNCHANGED orphans \/ LeaseLost(c)
          /\ Go(c, "idle")
          /\ outcome' = [outcome EXCEPT ![c] = "raised"]
          /\ UNCHANGED at
    /\ UNCHANGED <<circuit, blamed, copy>>

-----------------------------------------------------------------------------
(* The environment.                                                        *)

Crash(c) ==
    /\ Crashes
    /\ pc[c] # "idle"
    /\ Go(c, "idle")
    /\ LeaseLost(c)
    /\ held' = [held EXCEPT ![c] = FALSE]
    /\ copy' = [copy EXCEPT ![c] = Fresh]
    /\ UNCHANGED <<circuit, blamed, at, outcome>>

(* A lease outlives its TTL: that of a lost release, of a long call, or of *)
(* an attempt whose feedback and release take long after the answer.       *)
Lapse(x) ==
    /\ orphans[x] > 0
    /\ orphans' = [orphans EXCEPT ![x] = @ - 1]
    /\ UNCHANGED <<circuit, blamed, pc, at, copy, held, outcome>>

LapseHeld(c) ==
    /\ held[c]
    /\ pc[c] = "calling" => LongCalls
    /\ held' = [held EXCEPT ![c] = FALSE]
    /\ UNCHANGED <<shared, pc, at, copy, outcome>>

(* next_probe_at of a stored record, or of a copy, passes.                 *)
CoolDown(x) ==
    /\ circuit[x].probe = "future"
    /\ circuit' = [circuit EXCEPT ![x].probe = "due"]
    /\ UNCHANGED <<orphans, blamed, pc, at, copy, held, outcome>>

CopyCoolsDown(c) ==
    /\ copy[c].probe = "future" /\ pc[c] = "saveFeedback"
    /\ copy' = [copy EXCEPT ![c].probe = "due"]
    /\ UNCHANGED <<shared, pc, at, held, outcome>>

(* record_ttl_seconds after the last write Redis forgets the record.       *)
Forget(x) ==
    /\ x[1] = "redis" /\ circuit[x] # Fresh
    /\ circuit' = [circuit EXCEPT ![x] = Fresh]
    /\ UNCHANGED <<orphans, blamed, pc, at, copy, held, outcome>>

-----------------------------------------------------------------------------
(* The steps of a call once it has begun.  LoseAcquire is not among them:  *)
(* no call may count on Redis being down to get on.                        *)
Proceed(c) ==
    /\ UNCHANGED store
    /\ \/ Allow(c)
       \/ SaveProbe(c)
       \/ Acquire(c)
       \/ GiveUp(c)
       \/ Answer(c)
       \/ ReadFeedback(c)
       \/ SaveFeedback(c)
       \/ Finally(c)

Next ==
    /\ UNCHANGED store
    /\ \/ \E c \in Callers : Begin(c) \/ Proceed(c) \/ LoseAcquire(c)
                             \/ Crash(c) \/ LapseHeld(c) \/ CopyCoolsDown(c)
       \/ \E x \in Cells : Lapse(x) \/ CoolDown(x) \/ Forget(x)

Spec == Init /\ [][Next]_vars

(* A call that has begun is driven on: store calls return, transports have *)
(* timeouts.  Nothing is said of leases that expire.                       *)
CallSpec == Spec /\ \A c \in Callers : WF_vars(Proceed(c))

(* Clients also keep calling, and time passes.                             *)
BusySpec ==
    /\ CallSpec
    /\ \A c \in Callers : WF_vars(Begin(c) /\ UNCHANGED store)
    /\ \A x \in Cells : WF_vars(CoolDown(x) /\ UNCHANGED store)

-----------------------------------------------------------------------------
(* Properties.                                                             *)

(* Records, locals and counters hold what the code can put there; a caller *)
(* that is not in a call holds no lease.                                   *)
TypeOK ==
    /\ store \in Deployments
    /\ circuit \in [Cells -> Record]
    /\ orphans \in [Cells -> 0..MaxConcurrency]
    /\ blamed \in [Cells -> 0..FailureThreshold]
    /\ pc \in [Callers -> {"idle", "guard", "saveProbe", "budget", "calling",
                           "feedback", "saveFeedback", "finally"}]
    /\ at \in [Callers -> Nat] /\ \A c \in Callers : at[c] \in 1..Len(Plan[c])
    /\ copy \in [Callers -> Record]
    /\ held \in [Callers -> BOOLEAN]
    /\ outcome \in [Callers -> {"none", "success", "unavailable", "other", "raised"}]

(* Every finished attempt has given its lease back or has lost it to a     *)
(* crash or a failed release: no path through the loop body keeps it.      *)
LeasesReturned ==
    \A c \in Callers : held[c] => pc[c] \in {"calling", "feedback", "saveFeedback", "finally"}

InFlight(x) == {c \in Callers : pc[c] = "calling" /\ Cell(c) = x}

(* The in-flight calls of a provider never exceed its budget, which the    *)
(* leases ensure as long as no call outlasts its lease; processes on       *)
(* different stores have a budget each.                                    *)
CallsWithinBudget == \A x \in Cells : Cardinality(InFlight(x)) <= MaxConcurrency

(* However stale the copies that are written back, a stored record is one  *)
(* the breaker can act on: a closed circuit is below the threshold and has *)
(* no probe time, and who has a probe time has reached the threshold.      *)
WellFormed(rec) ==
    /\ rec.state = "closed" => rec.failures < FailureThreshold
    /\ rec.probe = "none" <=> rec.failures < FailureThreshold
    /\ rec.state = "half_open" => rec.probe = "due"
RecordsWellFormed == \A x \in Cells : WellFormed(circuit[x])

(* A circuit opens only on failures of its provider that callers of the    *)
(* same store have seen: exhausted capacity, invalid output and faults of  *)
(* the stores never open it.                                               *)
OpenNeedsFailures ==
    \A x \in Cells : circuit[x].state # "closed" => blamed[x] = FailureThreshold

(* Every call ends, even if the leases in its way never expire.            *)
EveryCallAnswers == \A c \in Callers : pc[c] # "idle" ~> pc[c] = "idle"

(* One call at a time over PostgreSQL sees the circuit breaker that        *)
(* circuit.py describes, whatever callers with Redis do meanwhile.  Redis  *)
(* does not follow it: it forgets records, and its faults read as Fresh.   *)
Alone == \A c, d \in Callers : {store[c], store[d]} = {"postgres"} => c = d
CM == INSTANCE CircuitMachine WITH
        state <- [p \in Providers |-> circuit[<<"postgres", p>>].state],
        failures <- [p \in Providers |-> circuit[<<"postgres", p>>].failures]
FollowsCircuitMachine == CM!Init /\ [][Alone => CM!Next]_CM!vars

-----------------------------------------------------------------------------
(* Statements of the docs that the code does not keep.                     *)

(* "after the cooldown it becomes HALF_OPEN".                              *)
OpenIsProbed == \A x \in Cells : circuit[x].state = "open" ~> circuit[x].state # "open"
=============================================================================
