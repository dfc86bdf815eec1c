----------------------- MODULE ProviderGatewayProofs -----------------------
(***************************************************************************)
(* Theorems about ProviderGateway for every number of callers, every plan, *)
(* budget and threshold.  The budget rests on the leases: the unexpired    *)
(* ones never exceed it, and while calls are short who is calling holds    *)
(* one.  The records rest on what the breaker makes of a well-formed       *)
(* record, whichever it has read, so stale copies are well-formed too.     *)
(* That an open circuit has its reasons rests on an account of the         *)
(* failures behind every record and every copy (FailuresAccounted); that a *)
(* lone call follows CircuitMachine, on how its copy continues the record  *)
(* (LoneCopiesFollow).                                                     *)
(***************************************************************************)
EXTENDS ProviderGateway, FiniteSetTheorems, TLAPS

Locals ==
    /\ pc \in [Callers -> {"idle", "guard", "saveProbe", "budget", "calling",
                           "feedback", "saveFeedback", "finally"}]
    /\ store \in Deployments /\ \A c \in Callers : pc[c] # "idle" => store[c] # "memory"
    /\ at \in [Callers -> Nat] /\ \A c \in Callers : at[c] \in 1..Len(Plan[c])
    /\ held \in [Callers -> BOOLEAN]
    /\ outcome \in [Callers -> {"none", "success", "unavailable", "other", "raised"}]

(* Conjuncts of the inductive invariant.                                   *)
LeasesWithinBudget ==
    /\ orphans \in [Cells -> Nat]
    /\ \A p \in Cells : Active(p) <= MaxConcurrency

CallersHoldLeases == ~LongCalls => \A c \in Callers : pc[c] = "calling" => held[c]

Blame == blamed \in [Cells -> 0..FailureThreshold]

Records ==
    /\ circuit \in [Cells -> Record]
    /\ copy \in [Callers -> Record]
    /\ \A p \in Cells : WellFormed(circuit[p])
    /\ \A c \in Callers : WellFormed(copy[c])

-----------------------------------------------------------------------------
(* What each step does to leases, locals and records.                      *)

(* What the assumption says of the numbers, and of the plans.              *)
LEMMA Limits == MaxConcurrency \in Nat \ {0} /\ FailureThreshold \in Nat \ {0}
BY GatewayAssumption

LEMMA Plans ==
    \A c \in Callers : /\ Len(Plan[c]) \in Nat \ {0}
                       /\ \A i \in 1..Len(Plan[c]) : Plan[c][i] \in Providers
<1> SUFFICES ASSUME NEW c \in Callers PROVE /\ Len(Plan[c]) \in Nat \ {0}
                       /\ \A i \in 1..Len(Plan[c]) : Plan[c][i] \in Providers
  OBVIOUS
<1>1. Plan[c] \in Seq(Providers) /\ Len(Plan[c]) > 0
  BY GatewayAssumption
<1> QED
  BY <1>1

(* A caller that is in a call works on a provider of its plan.             *)
LEMMA CellOfCaller ==
    ASSUME Locals, NEW c \in Callers, pc[c] # "idle" PROVE Cell(c) \in Cells
<1>1. at[c] \in 1..Len(Plan[c]) /\ store[c] # "memory"
  BY DEF Locals
<1>2. store[c] \in {"postgres", "redis", "memory"}
  BY GatewayAssumption DEF Locals
<1> QED
  BY <1>1, <1>2, Plans DEF Cell, Cells

(* Callers that hold a lease are finitely many, so they can be counted.    *)
LEMMA HoldersFinite ==
    ASSUME NEW p PROVE IsFiniteSet(Holders(p)) /\ Cardinality(Holders(p)) \in Nat
<1>1. Holders(p) \subseteq Callers
  BY DEF Holders
<1> QED
  BY <1>1, GatewayAssumption, FS_Subset, FS_CardinalityType

(* Fewer holders, the same lost leases: the budget is kept.                *)
LEMMA HoldersShrink ==
    ASSUME LeasesWithinBudget, UNCHANGED <<store, orphans>>,
           \A c \in Callers : held'[c] => held[c] /\ at'[c] = at[c]
    PROVE  LeasesWithinBudget'
<1> SUFFICES ASSUME NEW p \in Cells PROVE (Active(p) <= MaxConcurrency)'
  BY DEF LeasesWithinBudget
<1>1. Holders(p)' \subseteq Holders(p)
  BY DEF Holders, Cell
<1>2. Cardinality(Holders(p)') <= Cardinality(Holders(p))
  BY <1>1, HoldersFinite, FS_Subset
<1>3. Cardinality(Holders(p)') \in Nat
  BY <1>1, HoldersFinite, FS_Subset, FS_CardinalityType
<1> QED
  BY <1>2, <1>3, HoldersFinite, Limits DEF LeasesWithinBudget, Active

(* A lease nobody will release is added only where there is room.          *)
LEMMA OrphanFits ==
    ASSUME LeasesWithinBudget, NEW q \in Cells, HasCapacity(q), Orphan(q), UNCHANGED store,
           \A c \in Callers : held'[c] => held[c] /\ at'[c] = at[c]
    PROVE  LeasesWithinBudget'
<1>1. orphans' \in [Cells -> Nat]
  BY DEF LeasesWithinBudget, Orphan
<1> SUFFICES ASSUME NEW p \in Cells PROVE (Active(p) <= MaxConcurrency)'
  BY <1>1 DEF LeasesWithinBudget
<1>2. Holders(p)' \subseteq Holders(p)
  BY DEF Holders, Cell
<1>3. /\ Cardinality(Holders(p)') <= Cardinality(Holders(p))
      /\ Cardinality(Holders(p)') \in Nat
  BY <1>2, HoldersFinite, FS_Subset, FS_CardinalityType
<1>4. orphans'[p] = IF p = q THEN orphans[p] + 1 ELSE orphans[p]
  BY DEF Orphan, LeasesWithinBudget
<1> QED
  BY <1>3, <1>4, HoldersFinite, Limits
  DEF LeasesWithinBudget, Active, HasCapacity

(* So is the lease of a caller.                                            *)
LEMMA GrantFits ==
    ASSUME LeasesWithinBudget, Locals, NEW c \in Callers, HasCapacity(Cell(c)),
           held' = [held EXCEPT ![c] = TRUE], UNCHANGED <<store, orphans, at>>
    PROVE  LeasesWithinBudget'
<1> SUFFICES ASSUME NEW p \in Cells PROVE (Active(p) <= MaxConcurrency)'
  BY DEF LeasesWithinBudget
<1>1. CASE p = Cell(c)
  <2>1. Holders(p)' = Holders(p) \cup {c}
    BY <1>1 DEF Holders, Cell, Locals
  <2>2. Cardinality(Holders(p)') <= Cardinality(Holders(p)) + 1
    BY <2>1, HoldersFinite, FS_AddElement
  <2>3. Cardinality(Holders(p)') \in Nat
    BY <2>1, HoldersFinite, FS_AddElement, FS_CardinalityType
  <2> QED
    BY <1>1, <2>2, <2>3, HoldersFinite, Limits
    DEF LeasesWithinBudget, Active, HasCapacity
<1>2. CASE p # Cell(c)
  <2>1. Holders(p)' = Holders(p)
    BY <1>2 DEF Holders, Cell, Locals
  <2> QED
    BY <2>1 DEF LeasesWithinBudget, Active
<1> QED
  BY <1>1, <1>2

(* A lease that is lost is counted once, before and after.                 *)
LEMMA LossKeepsCount ==
    ASSUME LeasesWithinBudget, Locals, NEW c \in Callers, held[c],
           Orphan(Cell(c)), UNCHANGED store, pc[c] # "idle",
           held' = [held EXCEPT ![c] = FALSE],
           \A d \in Callers : d # c => at'[d] = at[d]
    PROVE  LeasesWithinBudget'
<1>1. orphans' \in [Cells -> Nat]
  BY CellOfCaller DEF LeasesWithinBudget, Orphan
<1> SUFFICES ASSUME NEW p \in Cells PROVE (Active(p) <= MaxConcurrency)'
  BY <1>1 DEF LeasesWithinBudget
<1>2. orphans'[p] = IF p = Cell(c) THEN orphans[p] + 1 ELSE orphans[p]
  <2>1. orphans \in [Cells -> Nat]
    BY DEF LeasesWithinBudget
  <2>2. orphans' = [orphans EXCEPT ![Cell(c)] = orphans[Cell(c)] + 1]
    BY DEF Orphan
  <2> QED
    BY <2>1, <2>2
<1>3. Holders(p)' = Holders(p) \ {c}
  BY DEF Holders, Cell, Locals
<1>4. /\ Cardinality(Holders(p)') \in Nat
      /\ Cardinality(Holders(p)') <= Cardinality(Holders(p))
      /\ p = Cell(c) => Cardinality(Holders(p)') = Cardinality(Holders(p)) - 1
  <2>1. p = Cell(c) => c \in Holders(p)
    BY DEF Holders
  <2> QED
    BY <2>1, <1>3, HoldersFinite, FS_RemoveElement, FS_CardinalityType, FS_Subset
<1> QED
  BY <1>2, <1>4, HoldersFinite, Limits DEF LeasesWithinBudget, Active

(* Whatever record the breaker reads, it makes a well-formed one of it.    *)
LEMMA BreakerKeepsShape ==
    ASSUME NEW rec \in Record, WellFormed(rec)
    PROVE  /\ AfterSuccess(rec) \in Record /\ WellFormed(AfterSuccess(rec))
           /\ AfterFailure(rec) \in Record /\ WellFormed(AfterFailure(rec))
           /\ MayProbe(rec) => LET probed == [rec EXCEPT !.state = "half_open"]
                               IN probed \in Record /\ WellFormed(probed)
<1>1. AfterSuccess(rec) \in Record /\ WellFormed(AfterSuccess(rec))
  BY Limits DEF AfterSuccess, WellFormed, Record
<1>2. AfterFailure(rec) \in Record /\ WellFormed(AfterFailure(rec))
  <2>1. CASE rec.state = "half_open"
    <3>1. AfterFailure(rec) = [state |-> "open", failures |-> rec.failures, probe |-> "future"]
      BY <2>1 DEF AfterFailure, Reopened, Record
    <3> QED
      BY <2>1, <3>1 DEF WellFormed, Record
  <2>2. CASE rec.state # "half_open" /\ rec.failures + 1 < FailureThreshold
    <3>1. AfterFailure(rec) = [rec EXCEPT !.failures = rec.failures + 1]
      BY <2>2, Limits DEF AfterFailure, Record
    <3> QED
      BY <2>2, <3>1, Limits DEF WellFormed, Record
  <2>3. CASE rec.state # "half_open" /\ rec.failures + 1 >= FailureThreshold
    <3> DEFINE counted == [rec EXCEPT !.failures = FailureThreshold]
    <3>1. counted = [rec EXCEPT !.failures = IF rec.failures < FailureThreshold
                                             THEN rec.failures + 1 ELSE rec.failures]
      BY <2>3, Limits DEF Record
    <3>2. AfterFailure(rec) = Reopened(counted)
      BY <2>3, <3>1, Limits DEF AfterFailure, Record
    <3>3. AfterFailure(rec) =
            [state |-> "open", failures |-> FailureThreshold, probe |-> "future"]
      BY <3>2 DEF Reopened, Record
    <3> QED
      BY <3>3, Limits DEF WellFormed, Record
  <2> QED
    BY <2>1, <2>2, <2>3, Limits DEF Record
<1>3. MayProbe(rec) => LET probed == [rec EXCEPT !.state = "half_open"]
                       IN probed \in Record /\ WellFormed(probed)
  BY DEF MayProbe, WellFormed, Record
<1> QED
  BY <1>1, <1>2, <1>3

(* A default record is well-formed, and so is what a store call sees.      *)
LEMMA ReadsAreWellFormed ==
    ASSUME Records
    PROVE  /\ Fresh \in Record /\ WellFormed(Fresh)
           /\ \A p \in Cells : \A rec \in Read(p) : rec \in Record /\ WellFormed(rec)
<1>1. Fresh \in Record /\ WellFormed(Fresh)
  BY Limits DEF Fresh, Record, WellFormed
<1> QED
  BY <1>1 DEF Read, Records

-----------------------------------------------------------------------------
(* The inductive invariant and its preservation.                           *)

IInv ==
    /\ Locals
    /\ LeasesReturned
    /\ LeasesWithinBudget
    /\ CallersHoldLeases
    /\ Blame
    /\ Records

(* It holds of the empty stores.                                           *)
LEMMA InitEstablishesIInv == Init => IInv
<1> SUFFICES ASSUME Init PROVE IInv
  OBVIOUS
<1>1. Locals /\ LeasesReturned /\ CallersHoldLeases /\ Blame
  BY Limits, Plans DEF Init, Locals, LeasesReturned, CallersHoldLeases, Blame
<1>2. LeasesWithinBudget
  <2>1. \A p \in Cells : Holders(p) = {}
    BY DEF Init, Holders
  <2>2. \A p \in Cells : orphans[p] = 0 /\ Cardinality(Holders(p)) = 0
    BY <2>1, FS_EmptySet DEF Init
  <2> QED
    BY <2>2, Limits DEF Init, LeasesWithinBudget, Active
<1>3. Records
  BY Limits DEF Init, Records, Fresh, Record, WellFormed
<1> QED
  BY <1>1, <1>2, <1>3 DEF IInv

(* A call begins: it holds no lease, so moving it to the first provider    *)
(* counts for none.                                                        *)
LEMMA BeginPreservesIInv ==
    ASSUME IInv, UNCHANGED store, NEW c \in Callers, Begin(c) PROVE IInv'
<1> USE DEF IInv
<1>1. Locals'
  BY Limits DEF Locals, Begin, Go
<1>2. LeasesReturned' /\ CallersHoldLeases' /\ Blame' /\ Records'
  BY DEF Locals, LeasesReturned, CallersHoldLeases, Blame, Records, Begin, Go, shared
<1>3. LeasesWithinBudget'
  <2>1. ~held[c]
    BY DEF Begin, LeasesReturned, Locals
  <2> QED
    BY <2>1, HoldersShrink DEF Begin, Locals, shared
<1> QED
  BY <1>1, <1>2, <1>3

(* The same for every step that touches neither leases nor records, by     *)
(* which a caller that holds nothing goes on, returns or raises.           *)
LEMMA MoveKeepsLeases ==
    ASSUME IInv, NEW c \in Callers, ~held[c], UNCHANGED <<store, orphans, held>>,
           \A d \in Callers : d # c => at'[d] = at[d]
    PROVE  LeasesWithinBudget'
BY HoldersShrink DEF IInv, Locals

(* Where a caller may go next.                                             *)
LEMMA NextProviderMoves ==
    ASSUME Locals, UNCHANGED store, NEW c \in Callers, NextProvider(c)
    PROVE  /\ pc' = [pc EXCEPT ![c] = "idle"] \/ pc' = [pc EXCEPT ![c] = "guard"]
           /\ at' \in [Callers -> Nat] /\ \A d \in Callers : at'[d] \in 1..Len(Plan[d])
           /\ outcome' \in [Callers -> {"none", "success", "unavailable", "other", "raised"}]
           /\ \A d \in Callers : d # c => at'[d] = at[d]
<1>1. CASE Return(c)
  BY <1>1 DEF Locals, Return, Go
<1>2. CASE ~Return(c)
  <2>1. /\ at[c] # Len(Plan[c])
        /\ pc' = [pc EXCEPT ![c] = "guard"]
        /\ at' = [at EXCEPT ![c] = at[c] + 1]
        /\ outcome' = [outcome EXCEPT ![c] = "none"]
    BY <1>2 DEF NextProvider, Go
  <2>2. at[c] + 1 \in 1..Len(Plan[c]) /\ at[c] \in Nat
    BY <2>1, Plans DEF Locals
  <2> QED
    BY <2>1, <2>2 DEF Locals
<1> QED
  BY <1>1, <1>2

(* allow: the record it copies is well-formed, and it holds no lease.      *)
LEMMA AllowPreservesIInv ==
    ASSUME IInv, UNCHANGED store, NEW c \in Callers, Allow(c) PROVE IInv'
<1> USE DEF IInv
<1>1. Locals' /\ (\A d \in Callers : d # c => at'[d] = at[d])
  BY NextProviderMoves, Limits DEF Locals, Allow, Go, Raise
<1>2. pc'[c] # "calling" /\ (\A d \in Callers : d # c => pc'[d] = pc[d])
  BY NextProviderMoves DEF Locals, Allow, Go, Raise
<1>3. ~held[c]
  BY DEF Allow, LeasesReturned, Locals
<1>4. LeasesReturned' /\ CallersHoldLeases' /\ Blame'
  BY <1>2, <1>3 DEF LeasesReturned, CallersHoldLeases, Blame, Locals, Allow, shared
<1>5. LeasesWithinBudget'
  BY <1>1, <1>3, MoveKeepsLeases DEF Allow, shared
<1>6. Records'
  <2>1. \A rec \in Read(Cell(c)) : rec \in Record /\ WellFormed(rec)
    BY CellOfCaller, ReadsAreWellFormed DEF Allow
  <2>2. copy' = copy \/ \E rec \in Read(Cell(c)) :
          /\ MayProbe(rec)
          /\ copy' = [copy EXCEPT ![c] = [rec EXCEPT !.state = "half_open"]]
    BY DEF Allow
  <2> QED
    BY <2>1, <2>2, BreakerKeepsShape DEF Records, Allow, shared
<1> QED
  BY <1>1, <1>4, <1>5, <1>6

(* A save writes a well-formed copy, or nothing, and leaves the leases.    *)
LEMMA SavePreservesIInv ==
    ASSUME IInv, UNCHANGED store, NEW c \in Callers, NEW next,
           \/ pc[c] = "saveProbe" /\ next = "budget"
           \/ pc[c] = "saveFeedback" /\ next = "finally",
           Save(c, next)
    PROVE  IInv'
<1> USE DEF IInv
<1>1. /\ at' = at /\ held' = held /\ orphans' = orphans /\ blamed' = blamed
      /\ pc' = [pc EXCEPT ![c] = next] \/ pc' = [pc EXCEPT ![c] = "finally"]
      /\ outcome' = outcome \/ outcome' = [outcome EXCEPT ![c] = "raised"]
  BY DEF Save, Raise, Go
<1>2. Locals'
  BY <1>1 DEF Locals
<1>3. LeasesReturned' /\ CallersHoldLeases' /\ Blame'
  BY <1>1 DEF LeasesReturned, CallersHoldLeases, Blame, Locals
<1>4. LeasesWithinBudget'
  BY <1>1, HoldersShrink
<1>5. Records'
  <2>1. circuit' = circuit \/ circuit' = [circuit EXCEPT ![Cell(c)] = copy[c]]
    BY DEF Save, Stored
  <2> QED
    BY <2>1, ReadsAreWellFormed DEF Records, Save
<1> QED
  BY <1>2, <1>3, <1>4, <1>5

(* A lease is granted, or lost on the way to the caller, only in the       *)
(* transaction that found room for it.                                     *)
LEMMA AcquirePreservesIInv ==
    ASSUME IInv, UNCHANGED store, NEW c \in Callers, Acquire(c) PROVE IInv'
<1> USE DEF IInv
<1>1. Blame' /\ Records' /\ at' = at /\ pc[c] = "budget" /\ store' = store
  BY DEF Blame, Records, Acquire, Raise
<1>2. CASE /\ HasCapacity(Cell(c))
           /\ held' = [held EXCEPT ![c] = TRUE]
           /\ pc' = [pc EXCEPT ![c] = "calling"]
           /\ UNCHANGED <<orphans, at, outcome>>
  <2>1. Locals' /\ LeasesReturned' /\ CallersHoldLeases'
    BY <1>1, <1>2 DEF Locals, LeasesReturned, CallersHoldLeases
  <2>2. LeasesWithinBudget'
    BY <1>2, GrantFits
  <2> QED
    BY <1>1, <2>1, <2>2
<1>3. CASE /\ pc' = [pc EXCEPT ![c] = "finally"]
           /\ outcome' = [outcome EXCEPT ![c] = "raised"]
           /\ UNCHANGED orphans \/ (HasCapacity(Cell(c)) /\ Orphan(Cell(c)))
           /\ UNCHANGED held
  <2>1. Locals' /\ LeasesReturned' /\ CallersHoldLeases'
    BY <1>1, <1>3 DEF Locals, LeasesReturned, CallersHoldLeases
  <2>2. LeasesWithinBudget'
    BY <1>1, <1>3, HoldersShrink, OrphanFits, CellOfCaller
  <2> QED
    BY <1>1, <2>1, <2>2
<1> QED
  BY <1>2, <1>3 DEF Acquire, Raise, Go

(* Waiting ends: the caller holds nothing, Redis may hold a lost lease.    *)
LEMMA GiveUpPreservesIInv ==
    ASSUME IInv, UNCHANGED store, NEW c \in Callers, GiveUp(c) \/ LoseAcquire(c) PROVE IInv'
<1> USE DEF IInv
<1>1. /\ NextProvider(c) /\ pc[c] = "budget" /\ held' = held
      /\ blamed' = blamed /\ circuit' = circuit /\ copy' = copy
      /\ UNCHANGED orphans \/ (HasCapacity(Cell(c)) /\ Orphan(Cell(c)))
  BY DEF GiveUp, LoseAcquire, shared
<1>2. Locals' /\ (\A d \in Callers : d # c => at'[d] = at[d])
  BY <1>1, NextProviderMoves DEF Locals
<1>3. ~held[c]
  BY <1>1 DEF LeasesReturned, Locals
<1>4. LeasesReturned' /\ CallersHoldLeases' /\ Blame' /\ Records'
  BY <1>1, <1>3, NextProviderMoves
  DEF LeasesReturned, CallersHoldLeases, Blame, Records, Locals
<1>5. \A d \in Callers : held'[d] => held[d] /\ at'[d] = at[d]
  BY <1>1, <1>2, <1>3
<1>6. LeasesWithinBudget'
  BY <1>1, <1>5, HoldersShrink, OrphanFits, CellOfCaller
<1> QED
  BY <1>2, <1>4, <1>6

(* The answer arrives while the lease is still held.                       *)
LEMMA AnswerPreservesIInv ==
    ASSUME IInv, UNCHANGED store, NEW c \in Callers, Answer(c) PROVE IInv'
<1> USE DEF IInv
<1>1. /\ at' = at /\ held' = held /\ orphans' = orphans /\ circuit' = circuit /\ copy' = copy
      /\ store' = store /\ pc[c] = "calling"
      /\ pc' = [pc EXCEPT ![c] = "finally"] \/ pc' = [pc EXCEPT ![c] = "feedback"]
      /\ \E o \in {"success", "unavailable", "other"} : outcome' = [outcome EXCEPT ![c] = o]
  BY DEF Answer, Go
<1>2. Locals' /\ LeasesReturned' /\ CallersHoldLeases' /\ Records'
  BY <1>1 DEF Locals, LeasesReturned, CallersHoldLeases, Records
<1>3. LeasesWithinBudget'
  BY <1>1, HoldersShrink
<1>4. Blame'
  <2>1. blamed' = blamed \/ (/\ blamed[Cell(c)] < FailureThreshold
                             /\ blamed' = [blamed EXCEPT ![Cell(c)] = blamed[Cell(c)] + 1])
    BY DEF Answer
  <2> QED
    BY <2>1, CellOfCaller, Limits DEF Blame
<1> QED
  BY <1>2, <1>3, <1>4

(* The breaker makes a well-formed copy of the record it reads.            *)
LEMMA FeedbackPreservesIInv ==
    ASSUME IInv, UNCHANGED store, NEW c \in Callers, ReadFeedback(c) PROVE IInv'
<1> USE DEF IInv
<1>1. /\ at' = at /\ held' = held /\ orphans' = orphans
      /\ circuit' = circuit /\ blamed' = blamed /\ pc[c] = "feedback"
      /\ pc' = [pc EXCEPT ![c] = "finally"] \/ pc' = [pc EXCEPT ![c] = "saveFeedback"]
      /\ outcome' = outcome \/ outcome' = [outcome EXCEPT ![c] = "raised"]
  BY DEF ReadFeedback, Go, Raise, shared
<1>2. Locals' /\ LeasesReturned' /\ CallersHoldLeases' /\ Blame'
  BY <1>1 DEF Locals, LeasesReturned, CallersHoldLeases, Blame
<1>3. LeasesWithinBudget'
  BY <1>1, HoldersShrink
<1>4. Records'
  <2>1. \A rec \in Read(Cell(c)) : rec \in Record /\ WellFormed(rec)
    BY <1>1, CellOfCaller, ReadsAreWellFormed
  <2>2. copy' = copy \/ \E rec \in Read(Cell(c)) :
          \/ copy' = [copy EXCEPT ![c] = AfterSuccess(rec)]
          \/ copy' = [copy EXCEPT ![c] = AfterFailure(rec)]
    BY DEF ReadFeedback
  <2>3. copy' = copy \/ \E new \in Record :
                            WellFormed(new) /\ copy' = [copy EXCEPT ![c] = new]
    BY <2>1, <2>2, BreakerKeepsShape
  <2> QED
    BY <1>1, <2>3 DEF Records
<1> QED
  BY <1>2, <1>3, <1>4

(* The finally clause gives the lease back, or leaves it to its TTL, and   *)
(* only then does the caller move on.                                      *)
LEMMA FinallyPreservesIInv ==
    ASSUME IInv, UNCHANGED store, NEW c \in Callers, Finally(c) PROVE IInv'
<1> USE DEF IInv
<1>1. /\ held' = [held EXCEPT ![c] = FALSE] /\ pc[c] = "finally"
      /\ blamed' = blamed /\ circuit' = circuit /\ copy' = copy
      /\ UNCHANGED orphans \/ LeaseLost(c)
  BY DEF Finally, Released
<1>2. \/ NextProvider(c)
      \/ /\ pc' = [pc EXCEPT ![c] = "idle"] /\ at' = at
         /\ outcome' = outcome \/ outcome' = [outcome EXCEPT ![c] = "raised"]
  BY DEF Finally, Conclude, Return, Go
<1>3. /\ pc' = [pc EXCEPT ![c] = "idle"] \/ pc' = [pc EXCEPT ![c] = "guard"]
      /\ at' \in [Callers -> Nat] /\ \A d \in Callers : at'[d] \in 1..Len(Plan[d])
      /\ outcome' \in [Callers -> {"none", "success", "unavailable", "other", "raised"}]
      /\ \A d \in Callers : d # c => at'[d] = at[d]
  BY <1>2, NextProviderMoves DEF Locals
<1>4. Locals' /\ LeasesReturned' /\ CallersHoldLeases' /\ Blame' /\ Records'
  BY <1>1, <1>3 DEF Locals, LeasesReturned, CallersHoldLeases, Blame, Records
<1>5. LeasesWithinBudget'
  <2>1. CASE UNCHANGED orphans
    <3>1. \A d \in Callers : held'[d] => held[d] /\ at'[d] = at[d]
      BY <1>1, <1>3 DEF Locals
    <3> QED
      BY <2>1, <3>1, HoldersShrink
  <2>2. CASE held[c] /\ Orphan(Cell(c))
    BY <1>1, <1>3, <2>2, LossKeepsCount
  <2> QED
    BY <1>1, <2>1, <2>2 DEF LeaseLost
<1> QED
  BY <1>4, <1>5

(* A crash turns the caller's lease into one that nobody will release.     *)
LEMMA CrashPreservesIInv ==
    ASSUME IInv, UNCHANGED store, NEW c \in Callers, Crash(c) PROVE IInv'
<1> USE DEF IInv
<1>1. Locals' /\ LeasesReturned' /\ CallersHoldLeases' /\ Blame'
  BY DEF Locals, LeasesReturned, CallersHoldLeases, Blame, Crash, Go
<1>2. Records'
  BY ReadsAreWellFormed DEF Records, Crash
<1>3. LeasesWithinBudget'
  <2>1. CASE UNCHANGED orphans
    BY <2>1, HoldersShrink DEF Crash, Locals
  <2>2. CASE held[c] /\ Orphan(Cell(c))
    BY <2>2, LossKeepsCount DEF Crash
  <2> QED
    BY <2>1, <2>2 DEF Crash, LeaseLost
<1> QED
  BY <1>1, <1>2, <1>3

(* The passing of time ends leases and cooldowns, never the other way.     *)
LEMMA TimePreservesIInv ==
    ASSUME IInv, UNCHANGED store,
           \/ \E c \in Callers : LapseHeld(c) \/ CopyCoolsDown(c)
           \/ \E p \in Cells : Lapse(p) \/ CoolDown(p) \/ Forget(p)
    PROVE  IInv'
<1> USE DEF IInv
<1>1. ASSUME NEW c \in Callers, LapseHeld(c) PROVE IInv'
  <2>1. Locals' /\ LeasesReturned' /\ CallersHoldLeases' /\ Blame' /\ Records'
    BY <1>1 DEF Locals, LeasesReturned, CallersHoldLeases, Blame, Records, LapseHeld, shared
  <2>2. LeasesWithinBudget'
    BY <1>1, HoldersShrink DEF LapseHeld, Locals, shared
  <2> QED
    BY <2>1, <2>2
<1>2. ASSUME NEW c \in Callers, CopyCoolsDown(c) PROVE IInv'
  <2>1. Locals' /\ LeasesReturned' /\ CallersHoldLeases' /\ Blame'
    BY <1>2 DEF Locals, LeasesReturned, CallersHoldLeases, Blame, CopyCoolsDown, shared
  <2>2. LeasesWithinBudget'
    BY <1>2, HoldersShrink DEF CopyCoolsDown, shared
  <2>3. Records'
    BY <1>2, Limits DEF Records, Record, WellFormed, CopyCoolsDown, shared
  <2> QED
    BY <2>1, <2>2, <2>3
<1>3. ASSUME NEW p \in Cells, Lapse(p) PROVE IInv'
  <2>1. Locals' /\ LeasesReturned' /\ CallersHoldLeases' /\ Blame' /\ Records'
    BY <1>3 DEF Locals, LeasesReturned, CallersHoldLeases, Blame, Records, Lapse
  <2>2. orphans' \in [Cells -> Nat] /\ (\A q \in Cells : orphans'[q] <= orphans[q])
    BY <1>3 DEF LeasesWithinBudget, Lapse
  <2>3. \A q \in Cells : Holders(q)' = Holders(q)
    BY <1>3 DEF Holders, Cell, Lapse
  <2>4. LeasesWithinBudget'
    BY <2>2, <2>3, HoldersFinite, Limits DEF LeasesWithinBudget, Active
  <2> QED
    BY <2>1, <2>4
<1>4. ASSUME NEW p \in Cells, CoolDown(p) \/ Forget(p) PROVE IInv'
  <2>1. Locals' /\ LeasesReturned' /\ CallersHoldLeases' /\ Blame'
    BY <1>4 DEF Locals, LeasesReturned, CallersHoldLeases, Blame, CoolDown, Forget
  <2>2. LeasesWithinBudget'
    BY <1>4, HoldersShrink DEF CoolDown, Forget
  <2>3. CASE CoolDown(p)
    <3>1. Records'
      BY <2>3, Limits DEF Records, Record, WellFormed, CoolDown
    <3> QED
      BY <2>1, <2>2, <3>1
  <2>4. CASE Forget(p)
    <3>1. Records'
      BY <2>4, ReadsAreWellFormed DEF Records, Forget
    <3> QED
      BY <2>1, <2>2, <3>1
  <2> QED
    BY <1>4, <2>3, <2>4
<1> QED
  BY <1>1, <1>2, <1>3, <1>4

(* Every step preserves the invariant.                                     *)
LEMMA NextPreservesIInv == IInv /\ [Next]_vars => IInv'
<1> SUFFICES ASSUME IInv, [Next]_vars PROVE IInv'
  OBVIOUS
<1>1. CASE UNCHANGED vars
  <2>1. Locals' /\ LeasesReturned' /\ CallersHoldLeases' /\ Blame' /\ Records'
    BY <1>1 DEF IInv, vars, Locals, LeasesReturned, CallersHoldLeases, Blame, Records
  <2>2. LeasesWithinBudget'
    BY <1>1, HoldersShrink DEF IInv, vars
  <2> QED
    BY <2>1, <2>2 DEF IInv
<1>2. ASSUME UNCHANGED store, NEW c \in Callers, Proceed(c) PROVE IInv'
  <2>1. CASE SaveProbe(c) \/ SaveFeedback(c)
    BY <1>2, <2>1, SavePreservesIInv DEF SaveProbe, SaveFeedback
  <2> QED
    BY <1>2, <2>1, AllowPreservesIInv, AcquirePreservesIInv, GiveUpPreservesIInv,
       AnswerPreservesIInv, FeedbackPreservesIInv, FinallyPreservesIInv DEF Proceed
<1>3. ASSUME UNCHANGED store, NEW c \in Callers, Begin(c) \/ LoseAcquire(c) \/ Crash(c) PROVE IInv'
  BY <1>3, BeginPreservesIInv, GiveUpPreservesIInv, CrashPreservesIInv
<1> QED
  BY <1>1, <1>2, <1>3, TimePreservesIInv DEF Next

LEMMA Invariance == Spec => []IInv
BY InitEstablishesIInv, NextPreservesIInv, PTL DEF Spec

-----------------------------------------------------------------------------
(* What a step of a caller leaves alone: the position and the copy of the  *)
(* others, and every record but the one it saves its copy to.              *)

Saving == {"saveProbe", "saveFeedback"}
StepOf(d) == \/ Begin(d) \/ Proceed(d) \/ LoseAcquire(d)
             \/ Crash(d) \/ LapseHeld(d) \/ CopyCoolsDown(d)

LEMMA StepsAreLocal ==
    ASSUME IInv, UNCHANGED store, NEW d \in Callers, StepOf(d)
    PROVE  /\ \A c \in Callers : c # d => /\ pc'[c] = pc[c] /\ at'[c] = at[c]
                                          /\ outcome'[c] = outcome[c] /\ copy'[c] = copy[c]
           /\ \A x \in Cells : \/ circuit'[x] = circuit[x]
                               \/ pc[d] \in Saving /\ x = Cell(d) /\ circuit'[x] = copy[d]
<1>1. CASE Begin(d)
  BY <1>1 DEF IInv, Locals, Records, Begin, Go, shared
<1>2. CASE Allow(d)
  BY <1>2 DEF IInv, Locals, Records, Allow, NextProvider, Return, Raise, Go, shared
<1>3. ASSUME NEW next, Save(d, next), pc[d] \in Saving
      PROVE  /\ \A c \in Callers : c # d => /\ pc'[c] = pc[c] /\ at'[c] = at[c]
                                            /\ outcome'[c] = outcome[c] /\ copy'[c] = copy[c]
             /\ \A x \in Cells : \/ circuit'[x] = circuit[x]
                                 \/ pc[d] \in Saving /\ x = Cell(d) /\ circuit'[x] = copy[d]
  BY <1>3 DEF IInv, Locals, Records, Save, Stored, Raise, Go
<1>4. CASE SaveProbe(d) \/ SaveFeedback(d)
  BY <1>3, <1>4 DEF SaveProbe, SaveFeedback, Saving
<1>5. CASE Acquire(d) \/ GiveUp(d) \/ LoseAcquire(d)
  BY <1>5 DEF IInv, Locals, Records, Acquire, GiveUp, LoseAcquire,
              NextProvider, Return, Raise, Go, shared
<1>6. CASE Answer(d) \/ ReadFeedback(d)
  BY <1>6 DEF IInv, Locals, Records, Answer, ReadFeedback, Raise, Go, shared
<1>7. CASE Finally(d)
  BY <1>7 DEF IInv, Locals, Records, Finally, Conclude, NextProvider, Return, Go
<1>8. CASE Crash(d) \/ LapseHeld(d) \/ CopyCoolsDown(d)
  BY <1>8 DEF IInv, Locals, Records, Crash, LapseHeld, CopyCoolsDown, Go, shared
<1> QED
  BY <1>1, <1>2, <1>4, <1>5, <1>6, <1>7, <1>8 DEF StepOf, Proceed

-----------------------------------------------------------------------------
(* Every failure that a record counts has been blamed on its cell, and so  *)
(* has one for each caller that is about to report a failure.  A copy      *)
(* counts with the callers that have still to read, not with those that    *)
(* have read since: writing it back takes their failures away again.       *)

Pending(x) == {c \in Callers : pc[c] = "feedback" /\ outcome[c] = "unavailable" /\ Cell(c) = x}

Accounted(rec, pending, blame) ==
    /\ rec.state # "closed" => blame = FailureThreshold
    /\ blame = FailureThreshold \/ rec.failures + pending <= blame

FailuresAccounted ==
    /\ \A x \in Cells : Accounted(circuit[x], Cardinality(Pending(x)), blamed[x])
    /\ \A c \in Callers : pc[c] \in Saving =>
          Accounted(copy[c], Cardinality(Pending(Cell(c))), blamed[Cell(c)])
    /\ \A c \in Callers : pc[c] = "feedback" => outcome[c] \in {"success", "unavailable"}

LEMMA PendingFinite ==
    ASSUME NEW x PROVE IsFiniteSet(Pending(x)) /\ Cardinality(Pending(x)) \in Nat
<1>1. Pending(x) \subseteq Callers
  BY DEF Pending
<1> QED
  BY <1>1, GatewayAssumption, FS_Subset, FS_CardinalityType

(* Fewer failures to report, or none counted: the accounts stay right.     *)
LEMMA AccountsShrink ==
    ASSUME NEW rec \in Record, NEW new \in Record, NEW n \in Nat, NEW m \in 0..n,
           NEW b \in 0..FailureThreshold, Accounted(rec, n, b),
           (new.state = rec.state /\ new.failures = rec.failures) \/ new = Fresh
    PROVE  Accounted(new, m, b)
BY Limits DEF Accounted, Record, Fresh

(* The step of a caller that brings no new failure to report.              *)
LEMMA StepKeepsAccounts ==
    ASSUME IInv, IInv', FailuresAccounted, UNCHANGED <<store, blamed>>,
           NEW c \in Callers, StepOf(c), pc'[c] # "feedback",
           pc'[c] \in Saving =>
              /\ at'[c] = at[c] /\ Cell(c) \in Cells
              /\ Accounted(copy'[c], Cardinality(Pending(Cell(c)) \ {c}), blamed[Cell(c)])
    PROVE  FailuresAccounted'
<1>1. /\ \A d \in Callers : d # c => /\ pc'[d] = pc[d] /\ at'[d] = at[d]
                                     /\ outcome'[d] = outcome[d] /\ copy'[d] = copy[d]
      /\ \A x \in Cells : \/ circuit'[x] = circuit[x]
                          \/ pc[c] \in Saving /\ x = Cell(c) /\ circuit'[x] = copy[c]
  BY StepsAreLocal
<1>2. ASSUME NEW x PROVE /\ Pending(x)' = Pending(x) \ {c}
                         /\ Cardinality(Pending(x)') \in 0..Cardinality(Pending(x))
  <2>1. Pending(x)' = Pending(x) \ {c}
    BY <1>1 DEF Pending, Cell
  <2>2. Cardinality(Pending(x)') \in Nat /\ Cardinality(Pending(x)') <= Cardinality(Pending(x))
    BY <2>1, PendingFinite, FS_Subset, FS_CardinalityType
  <2> QED
    BY <2>1, <2>2, PendingFinite
<1>3. ASSUME NEW x \in Cells
      PROVE  Accounted(circuit'[x], Cardinality(Pending(x)'), blamed'[x])
  <2>1. PICK rec \in {circuit[x], circuit'[x]} :
           rec = circuit'[x] /\ Accounted(rec, Cardinality(Pending(x)), blamed[x])
    BY <1>1 DEF FailuresAccounted
  <2> QED
    BY <1>2, <2>1, PendingFinite, AccountsShrink DEF IInv, Records, Blame
<1>4. ASSUME NEW d \in Callers, pc'[d] \in Saving
      PROVE  Accounted(copy[d], Cardinality(Pending(Cell(d))), blamed[Cell(d)])'
  <2>1. at'[d] = at[d] /\ Cell(d) \in Cells /\ Cell(d)' = Cell(d)
    <3>1. d # c => at'[d] = at[d] /\ pc[d] \in Saving
      BY <1>1, <1>4
    <3> QED
      BY <1>4, <3>1, CellOfCaller DEF IInv, Saving, Cell
  <2>2. PICK x \in Cells : x = Cell(d) /\ x = Cell(d)'
    BY <2>1
  <2>3. Accounted(copy'[d], Cardinality(Pending(x)'), blamed'[x])
    <3>1. CASE d = c
      BY <1>2, <1>4, <2>2, <3>1
    <3>2. CASE d # c
      <4>1. Accounted(copy[d], Cardinality(Pending(x)), blamed[x]) /\ copy'[d] = copy[d]
        BY <1>1, <1>4, <2>2, <3>2 DEF FailuresAccounted
      <4> QED
        BY <1>2, <4>1, PendingFinite, AccountsShrink DEF IInv, Records, Blame
    <3> QED
      BY <3>1, <3>2
  <2> QED
    BY <2>2, <2>3 DEF Pending
<1>5. \A d \in Callers : pc'[d] = "feedback" => outcome'[d] \in {"success", "unavailable"}
  BY <1>1 DEF FailuresAccounted
<1> QED
  BY <1>3, <1>4, <1>5 DEF FailuresAccounted

(* An availability failure is blamed in the step that makes it one to      *)
(* report; the blame is full, or grows by as much as the reports.          *)
LEMMA AnswerKeepsAccounts ==
    ASSUME IInv, IInv', FailuresAccounted, UNCHANGED store, NEW c \in Callers, Answer(c)
    PROVE  FailuresAccounted'
<1>1. /\ pc[c] = "calling" /\ UNCHANGED <<circuit, at, copy>>
      /\ \E o \in {"success", "unavailable", "other"} :
            /\ outcome' = [outcome EXCEPT ![c] = o]
            /\ pc' = [pc EXCEPT ![c] = IF o = "other" THEN "finally" ELSE "feedback"]
            /\ blamed' = IF o = "unavailable" /\ blamed[Cell(c)] < FailureThreshold
                         THEN [blamed EXCEPT ![Cell(c)] = @ + 1] ELSE blamed
  BY DEF Answer, Go
<1>2. CASE outcome'[c] # "unavailable"
  <2>1. blamed' = blamed /\ (\A x : Pending(x)' = Pending(x))
    BY <1>1, <1>2 DEF Pending, Cell, IInv, Locals
  <2> QED
    BY <1>1, <2>1 DEF FailuresAccounted, IInv, Locals, Cell, Saving
<1>3. CASE outcome'[c] = "unavailable"
  <2>1. PICK y \in Cells : y = Cell(c)
    BY <1>1, CellOfCaller DEF IInv
  <2>2. /\ pc' = [pc EXCEPT ![c] = "feedback"]
        /\ outcome' = [outcome EXCEPT ![c] = "unavailable"]
        /\ \A x \in Cells : blamed'[x] = IF x = y /\ blamed[x] < FailureThreshold
                                         THEN blamed[x] + 1 ELSE blamed[x]
    BY <1>1, <1>3, <2>1 DEF IInv, Locals, Blame
  <2>3. ASSUME NEW x \in Cells
        PROVE  /\ Cardinality(Pending(x)') \in Nat
               /\ Cardinality(Pending(x)') <= Cardinality(Pending(x)) + (IF x = y THEN 1 ELSE 0)
    <3>1. Pending(x)' = IF x = y THEN Pending(x) \cup {c} ELSE Pending(x)
      BY <1>1, <2>1, <2>2 DEF Pending, Cell, IInv, Locals
    <3>2. IsFiniteSet(Pending(x) \cup {c})
      BY PendingFinite, FS_AddElement
    <3>3. Cardinality(Pending(x) \cup {c}) <= Cardinality(Pending(x)) + 1
      BY PendingFinite, FS_AddElement
    <3>4. Cardinality(Pending(x) \cup {c}) \in Nat
      BY <3>2, FS_CardinalityType
    <3> QED
      BY <3>1, <3>3, <3>4, PendingFinite
  <2>4. ASSUME NEW x \in Cells, NEW rec \in Record,
               Accounted(rec, Cardinality(Pending(x)), blamed[x])
        PROVE  Accounted(rec, Cardinality(Pending(x)'), blamed'[x])
    <3>1. blamed[x] \in 0..FailureThreshold /\ rec.failures \in Nat
      BY DEF IInv, Blame, Record
    <3> QED
      BY <2>2, <2>3, <2>4, <3>1, PendingFinite, Limits DEF Accounted
  <2>5. \A x \in Cells : Accounted(circuit'[x], Cardinality(Pending(x)'), blamed'[x])
    BY <1>1, <2>4 DEF FailuresAccounted, IInv, Records
  <2>6. ASSUME NEW d \in Callers, pc'[d] \in Saving
        PROVE  Accounted(copy[d], Cardinality(Pending(Cell(d))), blamed[Cell(d)])'
    <3>1. pc[d] \in Saving /\ Cell(d)' = Cell(d)
      BY <1>1, <2>2, <2>6 DEF IInv, Locals, Cell, Saving
    <3>2. PICK x \in Cells : x = Cell(d) /\ x = Cell(d)'
      BY <3>1, CellOfCaller DEF IInv, Saving
    <3>3. Accounted(copy'[d], Cardinality(Pending(x)'), blamed'[x])
      BY <1>1, <2>4, <3>1, <3>2 DEF FailuresAccounted, IInv, Records
    <3> QED
      BY <3>2, <3>3 DEF Pending
  <2> QED
    BY <2>2, <2>5, <2>6 DEF FailuresAccounted, IInv, Locals
<1> QED
  BY <1>2, <1>3

(* What the breaker makes of the record it reads: the failure of the       *)
(* caller goes over from those to report to those the copy counts.         *)
LEMMA FeedbackKeepsAccounts ==
    ASSUME IInv, IInv', FailuresAccounted, UNCHANGED store, NEW c \in Callers, ReadFeedback(c)
    PROVE  FailuresAccounted'
<1>1. pc[c] = "feedback" /\ UNCHANGED <<blamed, at>> /\ StepOf(c)
  BY DEF ReadFeedback, Raise, StepOf, Proceed, shared
<1>2. PICK x \in Cells : x = Cell(c)
  BY <1>1, CellOfCaller DEF IInv
<1>3. CASE Raise(c)
  BY <1>1, <1>3, StepKeepsAccounts DEF Raise, Go, IInv, Locals, Saving
<1>4. ASSUME NEW rec \in Read(x),
             copy' = [copy EXCEPT ![c] = IF outcome[c] = "success"
                                         THEN AfterSuccess(rec) ELSE AfterFailure(rec)],
             Go(c, "saveFeedback")
      PROVE  FailuresAccounted'
  <2> DEFINE n == Cardinality(Pending(x))
             m == Cardinality(Pending(x) \ {c})
  <2>1. rec \in Record /\ WellFormed(rec) /\ Accounted(rec, n, blamed[x])
    <3>1. circuit[x] \in Record /\ WellFormed(circuit[x]) /\ Accounted(circuit[x], n, blamed[x])
      BY DEF IInv, Records, FailuresAccounted
    <3>2. Fresh \in Record /\ WellFormed(Fresh)
      BY ReadsAreWellFormed DEF IInv
    <3> QED
      BY <3>1, <3>2, PendingFinite, AccountsShrink DEF Read, IInv, Blame
  <2>2. /\ n \in Nat /\ m \in 0..n
        /\ outcome[c] = "unavailable" => m = n - 1
    <3>1. outcome[c] = "unavailable" => c \in Pending(x)
      BY <1>1, <1>2 DEF Pending
    <3> QED
      BY <3>1, PendingFinite, FS_RemoveElement, FS_CardinalityType, FS_Subset
  <2>3. Accounted(copy'[c], m, blamed[x])
    <3>1. blamed[x] \in 0..FailureThreshold /\ rec.failures \in 0..FailureThreshold
      BY <2>1 DEF IInv, Blame, Record
    <3>2. CASE outcome[c] = "success"
      <4>1. copy'[c] = AfterSuccess(rec)
        BY <1>4, <3>2 DEF IInv, Records
      <4>2. /\ copy'[c].failures = 0
            /\ copy'[c].state # "closed" => rec.state # "closed"
        BY <2>1, <4>1 DEF AfterSuccess, Record
      <4>3. m <= blamed[x] \/ blamed[x] = FailureThreshold
        BY <2>1, <2>2, <3>1, Limits DEF Accounted
      <4> QED
        BY <2>1, <2>2, <4>2, <4>3 DEF Accounted
    <3>3. CASE outcome[c] = "unavailable"
      <4>1. copy'[c] = AfterFailure(rec)
        BY <1>4, <3>3 DEF IInv, Records
      <4>2. CASE rec.state # "closed"
        BY <2>1, <4>2 DEF Accounted
      <4>3. CASE rec.state = "closed"
        <5>1. rec.failures < FailureThreshold
          BY <2>1, <4>3 DEF WellFormed
        <5>2. /\ copy'[c].failures = rec.failures + 1
              /\ copy'[c].state # "closed" => rec.failures + 1 >= FailureThreshold
          BY <2>1, <4>1, <4>3, <5>1, Limits DEF AfterFailure, Reopened, Record
        <5>3. CASE blamed[x] = FailureThreshold
          BY <5>3 DEF Accounted
        <5>4. CASE rec.failures + n <= blamed[x]
          <6> HIDE DEF n, m
          <6>1. rec.failures + 1 + m <= blamed[x]
            BY <2>2, <3>1, <3>3, <5>4
          <6>2. rec.failures + 1 >= FailureThreshold => blamed[x] = FailureThreshold
            BY <2>2, <3>1, <6>1, Limits
          <6> QED
            BY <5>2, <6>1, <6>2 DEF Accounted
        <5> QED
          BY <2>1, <5>3, <5>4 DEF Accounted
      <4> QED
        BY <4>2, <4>3
    <3> QED
      BY <1>1, <3>2, <3>3 DEF FailuresAccounted
  <2>4. Accounted(copy'[c], Cardinality(Pending(Cell(c)) \ {c}), blamed[Cell(c)])
    BY <1>2, <2>3
  <2> QED
    BY <1>1, <1>2, <1>4, <2>4, StepKeepsAccounts DEF Go, IInv, Locals
<1> QED
  BY <1>2, <1>3, <1>4 DEF ReadFeedback

(* The other steps of a call report no failure and count none.             *)
LEMMA NextKeepsAccounts ==
    ASSUME IInv, IInv', FailuresAccounted, [Next]_vars
    PROVE  FailuresAccounted'
<1>1. ASSUME NEW c \in Callers, UNCHANGED store, Begin(c) \/ Acquire(c) \/ GiveUp(c)
             \/ LoseAcquire(c) \/ Finally(c) \/ Crash(c) \/ SaveProbe(c) \/ SaveFeedback(c)
      PROVE  FailuresAccounted'
  <2>1. StepOf(c) /\ blamed' = blamed
    BY <1>1 DEF StepOf, Proceed, Begin, Acquire, GiveUp, LoseAcquire, Finally, Crash,
                SaveProbe, SaveFeedback, Save, shared
  <2>2. pc'[c] \in {"idle", "guard", "budget", "calling", "finally"}
    BY <1>1, NextProviderMoves
    DEF IInv, Locals, Begin, Acquire, GiveUp, LoseAcquire, Finally, Crash, SaveProbe,
        SaveFeedback, Save, Raise, Conclude, Return, Go
  <2> QED
    BY <1>1, <2>1, <2>2, StepKeepsAccounts DEF Saving
<1>2. ASSUME NEW c \in Callers, UNCHANGED store, Allow(c) PROVE FailuresAccounted'
  <2>1. pc[c] = "guard" /\ StepOf(c) /\ blamed' = blamed
    BY <1>2 DEF Allow, StepOf, Proceed, shared
  <2>2. CASE pc'[c] \notin Saving
    <3>1. pc'[c] # "feedback"
      BY <1>2, NextProviderMoves DEF Allow, Raise, Go, IInv, Locals
    <3> QED
      BY <1>2, <2>1, <2>2, <3>1, StepKeepsAccounts
  <2>3. CASE pc'[c] \in Saving
    <3>1. PICK rec \in Read(Cell(c)) :
            /\ MayProbe(rec) /\ at' = at
            /\ copy' = [copy EXCEPT ![c] = [rec EXCEPT !.state = "half_open"]]
      BY <1>2, <2>3, NextProviderMoves DEF Allow, Raise, Go, IInv, Locals, Saving
    <3>2. PICK x \in Cells : x = Cell(c)
      BY <2>1, CellOfCaller DEF IInv
    <3>3. rec = circuit[x] /\ rec.state = "open"
      BY <3>1, <3>2 DEF Read, Fresh, MayProbe
    <3>4. blamed[x] = FailureThreshold
      BY <3>3 DEF FailuresAccounted, Accounted
    <3>5. Accounted(copy'[c], Cardinality(Pending(Cell(c)) \ {c}), blamed[Cell(c)])
      BY <3>2, <3>4 DEF Accounted
    <3> QED
      BY <1>2, <2>1, <2>3, <3>1, <3>2, <3>5, StepKeepsAccounts DEF Saving
  <2> QED
    BY <2>2, <2>3
<1>3. ASSUME NEW c \in Callers, UNCHANGED store, CopyCoolsDown(c) PROVE FailuresAccounted'
  <2>1. /\ StepOf(c) /\ blamed' = blamed /\ pc' = pc /\ at' = at /\ pc[c] = "saveFeedback"
        /\ copy'[c].state = copy[c].state /\ copy'[c].failures = copy[c].failures
    BY <1>3 DEF CopyCoolsDown, StepOf, IInv, Records, Record, shared
  <2>2. PICK x \in Cells : x = Cell(c)
    BY <2>1, CellOfCaller DEF IInv
  <2>3. /\ Cardinality(Pending(x)) \in Nat
        /\ Cardinality(Pending(x) \ {c}) \in 0..Cardinality(Pending(x))
    BY PendingFinite, FS_RemoveElement, FS_CardinalityType, FS_Subset
  <2>4. Accounted(copy[c], Cardinality(Pending(x)), blamed[x])
    BY <2>1, <2>2 DEF FailuresAccounted, Saving
  <2>5. Accounted(copy'[c], Cardinality(Pending(Cell(c)) \ {c}), blamed[Cell(c)])
    BY <2>1, <2>2, <2>3, <2>4, AccountsShrink DEF IInv, Records, Blame
  <2> QED
    BY <1>3, <2>1, <2>2, <2>5, StepKeepsAccounts
<1>4. ASSUME NEW c \in Callers, UNCHANGED store, LapseHeld(c) PROVE FailuresAccounted'
  <2>1. (\A x : Pending(x)' = Pending(x)) /\ UNCHANGED <<circuit, blamed, copy, pc, at, outcome>>
    BY <1>4 DEF LapseHeld, Pending, Cell, shared
  <2> QED
    BY <1>4, <2>1 DEF FailuresAccounted, Cell
<1>5. ASSUME NEW y \in Cells, UNCHANGED store, Lapse(y) \/ CoolDown(y) \/ Forget(y)
      PROVE  FailuresAccounted'
  <2>1. (\A x : Pending(x)' = Pending(x)) /\ UNCHANGED <<blamed, copy, pc, at, outcome>>
    BY <1>5 DEF Lapse, CoolDown, Forget, Pending, Cell
  <2>2. ASSUME NEW x \in Cells
        PROVE  \/ circuit'[x].state = circuit[x].state /\ circuit'[x].failures = circuit[x].failures
               \/ circuit'[x] = Fresh
    BY <1>5 DEF Lapse, CoolDown, Forget, IInv, Records, Record
  <2>3. \A x \in Cells : Accounted(circuit'[x], Cardinality(Pending(x)), blamed[x])
    BY <2>2, PendingFinite, AccountsShrink DEF FailuresAccounted, IInv, Records, Blame
  <2> QED
    BY <1>5, <2>1, <2>3 DEF FailuresAccounted, Cell
<1>6. CASE UNCHANGED vars
  <2>1. \A x : Pending(x)' = Pending(x)
    BY <1>6 DEF vars, Pending, Cell
  <2> QED
    BY <1>6, <2>1 DEF vars, FailuresAccounted, Cell
<1> QED
  BY <1>1, <1>2, <1>3, <1>4, <1>5, <1>6, AnswerKeepsAccounts, FeedbackKeepsAccounts
  DEF Next, Proceed

LEMMA AccountsAreKept == Spec => []FailuresAccounted
<1>1. Init => FailuresAccounted
  <2> SUFFICES ASSUME Init PROVE FailuresAccounted
    OBVIOUS
  <2>1. \A x : Pending(x) = {}
    BY DEF Init, Pending
  <2>2. \A x \in Cells : circuit[x] = Fresh /\ Cardinality(Pending(x)) = 0 /\ blamed[x] = 0
    BY <2>1, FS_EmptySet DEF Init
  <2> QED
    BY <2>2 DEF Init, FailuresAccounted, Accounted, Fresh, Saving
<1> QED
  BY <1>1, NextKeepsAccounts, Invariance, PTL DEF Spec

-----------------------------------------------------------------------------
(* The refinement of CircuitMachine.  For a caller alone on PostgreSQL the *)
(* stored record is still the one it has read, cooling apart, so its copy  *)
(* is one step of the machine ahead of it.                                 *)

OneStepAhead(new, rec) ==
    \/ rec.state # "open" /\ new.state = "closed" /\ new.failures = 0
    \/ /\ rec.state = "closed" /\ new.failures = rec.failures + 1
       /\ new.state = IF rec.failures + 1 = FailureThreshold THEN "open" ELSE "closed"
    \/ rec.state = "half_open" /\ new.state = "open" /\ new.failures = rec.failures

Probing(new, rec) ==
    rec.state = "open" /\ new.state = "half_open" /\ new.failures = rec.failures

CopyFollows(c, rec) ==
    /\ pc[c] = "saveProbe" => Probing(copy[c], rec)
    /\ pc[c] \in {"budget", "calling", "feedback"} => rec.state # "open"
    /\ pc[c] = "saveFeedback" => OneStepAhead(copy[c], rec)

LonePostgresCaller(c) == Alone /\ store[c] = "postgres"
LoneCopiesFollow == \A c \in Callers : LonePostgresCaller(c) => CopyFollows(c, circuit[Cell(c)])

(* What the breaker makes of the record of a call is one step ahead of it. *)
LEMMA BreakerStepsAhead ==
    ASSUME NEW rec \in Record, WellFormed(rec), rec.state # "open"
    PROVE  OneStepAhead(AfterSuccess(rec), rec) /\ OneStepAhead(AfterFailure(rec), rec)
<1>1. OneStepAhead(AfterSuccess(rec), rec)
  BY DEF OneStepAhead, AfterSuccess, Record
<1>2. CASE rec.state = "half_open"
  <2>1. AfterFailure(rec).state = "open" /\ AfterFailure(rec).failures = rec.failures
    BY <1>2 DEF AfterFailure, Reopened, Record
  <2> QED
    BY <1>1, <1>2, <2>1 DEF OneStepAhead
<1>3. CASE rec.state = "closed"
  <2>1. rec.failures \in Nat /\ rec.failures < FailureThreshold
    BY <1>3 DEF WellFormed, Record
  <2>2. /\ AfterFailure(rec).failures = rec.failures + 1
        /\ AfterFailure(rec).state = IF rec.failures + 1 = FailureThreshold THEN "open" ELSE "closed"
    BY <1>3, <2>1, Limits DEF AfterFailure, Reopened, Record
  <2> QED
    BY <1>1, <1>3, <2>2 DEF OneStepAhead
<1> QED
  BY <1>2, <1>3 DEF Record

(* Nobody else is on PostgreSQL, so others write other cells.              *)
LEMMA OthersLeaveItAlone ==
    ASSUME IInv, UNCHANGED store, NEW c \in Callers, LonePostgresCaller(c),
           NEW d \in Callers, d # c, StepOf(d)
    PROVE  \A x \in Cells : x[1] = "postgres" => circuit'[x] = circuit[x]
<1>1. store[d] # "postgres"
  BY DEF LonePostgresCaller, Alone
<1>2. Cell(d)[1] # "postgres"
  BY <1>1 DEF Cell
<1> QED
  BY <1>2, StepsAreLocal

(* The steps of the lone caller keep its copy in step with the record.     *)
LEMMA LoneStepFollows ==
    ASSUME IInv, UNCHANGED store, NEW c \in Callers, LonePostgresCaller(c), StepOf(c),
           CopyFollows(c, circuit[Cell(c)])
    PROVE  CopyFollows(c, circuit[Cell(c)])'
<1>1. /\ pc[c] # "idle" => Cell(c) \in Cells
      /\ ~FailsOpen(Cell(c))
      /\ at'[c] = at[c] => Cell(c)' = Cell(c)
  BY CellOfCaller DEF IInv, FailsOpen, Cell, LonePostgresCaller
<1>2. CASE pc'[c] \in {"idle", "guard", "finally"}
  BY <1>2 DEF CopyFollows
<1>3. CASE Allow(c)
  <2>1. pc[c] = "guard" /\ circuit' = circuit /\ Read(Cell(c)) = {circuit[Cell(c)]}
    BY <1>1, <1>3 DEF Allow, Read, shared
  <2>2. CASE circuit[Cell(c)].state # "open" /\ Go(c, "budget") /\ UNCHANGED at
    BY <1>1, <2>1, <2>2 DEF Go, CopyFollows, IInv, Locals
  <2>3. CASE /\ MayProbe(circuit[Cell(c)]) /\ Go(c, "saveProbe") /\ UNCHANGED at
             /\ copy' = [copy EXCEPT ![c] = [circuit[Cell(c)] EXCEPT !.state = "half_open"]]
    <3>1. circuit[Cell(c)] \in Record /\ copy'[c] = [circuit[Cell(c)] EXCEPT !.state = "half_open"]
      BY <1>1, <2>1, <2>3 DEF IInv, Records
    <3>2. Probing(copy'[c], circuit[Cell(c)])
      BY <2>3, <3>1 DEF Probing, MayProbe, Record
    <3> QED
      BY <1>1, <2>1, <2>3, <3>2 DEF Go, CopyFollows, IInv, Locals
  <2> QED
    BY <1>2, <1>3, <2>1, <2>2, <2>3, NextProviderMoves DEF Allow, Raise, Go, IInv, Locals
<1>4. CASE SaveProbe(c)
  <2>1. CASE Raise(c)
    BY <1>2, <2>1 DEF Raise, Go, IInv, Locals
  <2>2. CASE ~Raise(c)
    <3>1. /\ pc[c] = "saveProbe" /\ pc' = [pc EXCEPT ![c] = "budget"]
          /\ at' = at /\ circuit' = [circuit EXCEPT ![Cell(c)] = copy[c]]
      BY <1>1, <1>4, <2>2 DEF SaveProbe, Save, Stored, Go
    <3>2. circuit'[Cell(c)].state # "open"
      BY <1>1, <3>1 DEF CopyFollows, Probing, IInv, Records
    <3> QED
      BY <1>1, <3>1, <3>2 DEF CopyFollows, IInv, Locals
  <2> QED
    BY <2>1, <2>2
<1>5. CASE SaveFeedback(c)
  BY <1>2, <1>5 DEF SaveFeedback, Save, Raise, Go, IInv, Locals
<1>6. CASE Acquire(c) \/ Answer(c)
  <2>1. /\ pc[c] \in {"budget", "calling"} /\ circuit' = circuit /\ UNCHANGED at
        /\ pc'[c] \in {"calling", "feedback", "finally"}
    BY <1>6 DEF Acquire, Answer, Raise, Go, IInv, Locals
  <2> QED
    BY <1>1, <2>1 DEF CopyFollows
<1>7. CASE ReadFeedback(c)
  <2>1. pc[c] = "feedback" /\ circuit' = circuit /\ Read(Cell(c)) = {circuit[Cell(c)]}
    BY <1>1, <1>7 DEF ReadFeedback, Read, shared
  <2>2. CASE Raise(c)
    BY <1>2, <2>2 DEF Raise, Go, IInv, Locals
  <2>3. CASE ~Raise(c)
    <3>1. /\ copy'[c] \in {AfterSuccess(circuit[Cell(c)]), AfterFailure(circuit[Cell(c)])}
          /\ pc'[c] = "saveFeedback" /\ at' = at
      BY <1>7, <2>1, <2>3 DEF ReadFeedback, Go, IInv, Records, Locals
    <3>2. OneStepAhead(copy'[c], circuit[Cell(c)])
      BY <1>1, <2>1, <3>1, BreakerStepsAhead DEF CopyFollows, IInv, Records
    <3> QED
      BY <1>1, <2>1, <3>1, <3>2 DEF CopyFollows
  <2> QED
    BY <2>2, <2>3
<1>8. CASE LapseHeld(c)
  BY <1>1, <1>8 DEF LapseHeld, CopyFollows, shared
<1>9. CASE CopyCoolsDown(c)
  <2>1. /\ pc'[c] = "saveFeedback" /\ pc[c] = "saveFeedback" /\ circuit' = circuit /\ at' = at
        /\ copy'[c].state = copy[c].state /\ copy'[c].failures = copy[c].failures
    BY <1>9 DEF CopyCoolsDown, IInv, Records, Record, shared
  <2> QED
    BY <1>1, <2>1 DEF CopyFollows, OneStepAhead
<1>10. CASE Begin(c) \/ GiveUp(c) \/ LoseAcquire(c) \/ Finally(c) \/ Crash(c)
  <2>1. pc'[c] \in {"idle", "guard", "finally"}
    BY <1>10, NextProviderMoves
    DEF IInv, Locals, Begin, GiveUp, LoseAcquire, Finally, Crash, Conclude, Return, Go
  <2> QED
    BY <1>2, <2>1
<1> QED
  BY <1>3, <1>4, <1>5, <1>6, <1>7, <1>8, <1>9, <1>10 DEF StepOf, Proceed

(* Every step keeps the lone copy in step.                                 *)
LEMMA NextKeepsCopiesFollowing ==
    ASSUME IInv, IInv', LoneCopiesFollow, [Next]_vars
    PROVE  LoneCopiesFollow'
<1>1. UNCHANGED store
  BY DEF Next, vars
<1> SUFFICES ASSUME NEW c \in Callers, LonePostgresCaller(c)
             PROVE  CopyFollows(c, circuit[Cell(c)])'
  BY <1>1 DEF LoneCopiesFollow, LonePostgresCaller, Alone
<1>2. CopyFollows(c, circuit[Cell(c)])
  BY DEF LoneCopiesFollow
<1>3. CASE pc[c] = "idle" /\ pc'[c] = "idle"
  BY <1>3 DEF CopyFollows
<1>4. ASSUME pc[c] # "idle", UNCHANGED <<pc, at, copy>>,
             circuit'[Cell(c)].state = circuit[Cell(c)].state,
             circuit'[Cell(c)].failures = circuit[Cell(c)].failures
      PROVE  CopyFollows(c, circuit[Cell(c)])'
  BY <1>1, <1>2, <1>4 DEF CopyFollows, Probing, OneStepAhead, Cell
<1>5. ASSUME NEW x \in Cells, Lapse(x) \/ CoolDown(x) \/ Forget(x), pc[c] # "idle"
      PROVE  CopyFollows(c, circuit[Cell(c)])'
  <2>1. Cell(c) \in Cells /\ Cell(c)[1] = "postgres"
    BY <1>5, CellOfCaller DEF IInv, LonePostgresCaller, Cell
  <2>2. /\ circuit'[Cell(c)].state = circuit[Cell(c)].state
        /\ circuit'[Cell(c)].failures = circuit[Cell(c)].failures
    BY <1>5, <2>1 DEF Lapse, CoolDown, Forget, IInv, Records, Record
  <2> QED
    BY <1>4, <1>5, <2>2 DEF Lapse, CoolDown, Forget
<1>6. ASSUME NEW d \in Callers, d # c, StepOf(d), pc[c] # "idle"
      PROVE  CopyFollows(c, circuit[Cell(c)])'
  <2>1. Cell(c) \in Cells /\ Cell(c)[1] = "postgres"
    BY <1>6, CellOfCaller DEF IInv, LonePostgresCaller, Cell
  <2>2. /\ circuit'[Cell(c)] = circuit[Cell(c)] /\ Cell(c)' = Cell(c)
        /\ pc'[c] = pc[c] /\ copy'[c] = copy[c]
    BY <1>1, <1>6, <2>1, OthersLeaveItAlone, StepsAreLocal DEF Cell
  <2> QED
    BY <1>2, <2>2 DEF CopyFollows
<1>7. ASSUME NEW d \in Callers, d # c, StepOf(d), pc[c] = "idle"
      PROVE  CopyFollows(c, circuit[Cell(c)])'
  BY <1>1, <1>3, <1>7, StepsAreLocal
<1>8. CASE UNCHANGED vars
  BY <1>3, <1>4, <1>8 DEF vars
<1>9. CASE StepOf(c)
  BY <1>1, <1>2, <1>9, LoneStepFollows
<1>10. CASE \E x \in Cells : Lapse(x) \/ CoolDown(x) \/ Forget(x)
  BY <1>3, <1>5, <1>10 DEF Lapse, CoolDown, Forget
<1>11. CASE \E d \in Callers : StepOf(d)
  BY <1>6, <1>7, <1>9, <1>11
<1> QED
  BY <1>8, <1>10, <1>11 DEF Next, StepOf

LEMMA LoneCopiesKeepFollowing == Spec => []LoneCopiesFollow
<1>1. Init => LoneCopiesFollow
  BY DEF Init, LoneCopiesFollow, CopyFollows
<1> QED
  BY <1>1, NextKeepsCopiesFollowing, Invariance, PTL DEF Spec

(* A write of such a copy is a step of the machine.                        *)
LEMMA WritesAreMachineSteps ==
    ASSUME IInv, NEW p \in Providers, NEW new \in Record,
           circuit' = [circuit EXCEPT ![<<"postgres", p>>] = new],
           \/ Probing(new, circuit[<<"postgres", p>>])
           \/ OneStepAhead(new, circuit[<<"postgres", p>>])
    PROVE  CM!Next
<1> DEFINE rec == circuit[<<"postgres", p>>]
           state == [q \in Providers |-> circuit[<<"postgres", q>>].state]
           failures == [q \in Providers |-> circuit[<<"postgres", q>>].failures]
<1>1. <<"postgres", p>> \in Cells /\ rec \in Record
  BY DEF Cells, IInv, Records
<1>2. /\ state' = [state EXCEPT ![p] = new.state]
      /\ failures' = [failures EXCEPT ![p] = new.failures]
      /\ state[p] = rec.state /\ failures[p] = rec.failures
  BY <1>1 DEF IInv, Records, Cells
<1>3. state = [state EXCEPT ![p] = state[p]] /\ failures = [failures EXCEPT ![p] = failures[p]]
  OBVIOUS
<1> HIDE DEF state, failures
<1>4. CASE Probing(new, rec)
  BY <1>2, <1>3, <1>4 DEF Probing, CM!CoolDown, CM!Next, state, failures
<1>5. CASE OneStepAhead(new, rec)
  BY <1>2, <1>3, <1>5 DEF OneStepAhead, CM!Fail, CM!ProbeFails, CM!Succeed, CM!Next, state, failures
<1> QED
  BY <1>4, <1>5

(* Only such writes change what the machine shows.                         *)
LEMMA NextImplementsMachine ==
    ASSUME IInv, IInv', LoneCopiesFollow, [Next]_vars
    PROVE  [Alone => CM!Next]_CM!vars
<1> SUFFICES ASSUME Alone, ~UNCHANGED CM!vars PROVE CM!Next
  OBVIOUS
<1>1. UNCHANGED store
  BY DEF Next, vars
<1>2. PICK p \in Providers : LET x == <<"postgres", p>>
                             IN ~(/\ circuit'[x].state = circuit[x].state
                                  /\ circuit'[x].failures = circuit[x].failures)
  BY DEF CM!vars
<1>3. <<"postgres", p>> \in Cells
  BY DEF Cells
<1>4. ASSUME NEW x \in Cells, Lapse(x) \/ CoolDown(x) \/ Forget(x) PROVE FALSE
  BY <1>2, <1>3, <1>4 DEF Lapse, CoolDown, Forget, IInv, Records, Record
<1>5. ~UNCHANGED vars
  BY <1>2 DEF vars
<1>6. PICK d \in Callers : StepOf(d)
  BY <1>4, <1>5 DEF Next, StepOf
<1>7. /\ pc[d] \in Saving /\ Cell(d) = <<"postgres", p>>
      /\ circuit'[<<"postgres", p>>] = copy[d]
  BY <1>1, <1>2, <1>3, <1>6, StepsAreLocal
<1>8. store[d] = "postgres"
  BY <1>7 DEF Cell
<1>9. CopyFollows(d, circuit[<<"postgres", p>>])
  BY <1>7, <1>8 DEF LoneCopiesFollow, LonePostgresCaller
<1>10. circuit' = [circuit EXCEPT ![<<"postgres", p>>] = copy[d]]
  BY <1>1, <1>3, <1>6, <1>7, StepsAreLocal DEF IInv, Records
<1>11. copy[d] \in Record
  BY DEF IInv, Records
<1> QED
  BY <1>7, <1>9, <1>10, <1>11, WritesAreMachineSteps DEF CopyFollows, Saving

-----------------------------------------------------------------------------
(* How many steps a call still has before it: at most seven for each       *)
(* provider left in its plan.                                              *)

Ahead == [idle |-> 0, finally |-> 1, saveFeedback |-> 2, feedback |-> 3, calling |-> 4,
          budget |-> 5, saveProbe |-> 6, guard |-> 7]
StepsLeft(c) == IF pc[c] = "idle" THEN 0 ELSE 7 * (Len(Plan[c]) - at[c]) + Ahead[pc[c]]

(* Every step of a call leaves fewer of them, and no step of others or of  *)
(* the environment, a crash included, adds any to a call that has begun.   *)
CallsComeToAnEnd ==
    [][\A c \in Callers : pc[c] # "idle" =>
          /\ StepsLeft(c) \in 1..(7 * Len(Plan[c]))
          /\ StepsLeft(c)' \in 0..StepsLeft(c)
          /\ Proceed(c) => StepsLeft(c)' < StepsLeft(c)]_vars

LEMMA SevenForEach ==
    ASSUME NEW n \in Nat, NEW k \in 1..n, NEW a \in 1..7
    PROVE  /\ 7 * (n - k) + a \in 1..(7 * n)
           /\ \A b \in 1..7 : b < a => 7 * (n - k) + b < 7 * (n - k) + a
           /\ k + 1 \in 1..n => 7 * (n - (k + 1)) + 7 < 7 * (n - k) + a
OBVIOUS

LEMMA StepsAreCounted ==
    ASSUME Locals, NEW c \in Callers, pc[c] # "idle"
    PROVE  /\ Len(Plan[c]) \in Nat /\ at[c] \in 1..Len(Plan[c]) /\ Ahead[pc[c]] \in 1..7
           /\ StepsLeft(c) = 7 * (Len(Plan[c]) - at[c]) + Ahead[pc[c]]
           /\ StepsLeft(c) \in 1..(7 * Len(Plan[c]))
<1>1. Len(Plan[c]) \in Nat /\ at[c] \in 1..Len(Plan[c])
  BY Plans DEF Locals
<1>2. Ahead[pc[c]] \in 1..7
  BY DEF Locals, Ahead
<1>3. StepsLeft(c) = 7 * (Len(Plan[c]) - at[c]) + Ahead[pc[c]]
  BY DEF StepsLeft
<1>4. 7 * (Len(Plan[c]) - at[c]) + Ahead[pc[c]] \in 1..(7 * Len(Plan[c]))
  BY <1>1, <1>2, SevenForEach
<1> QED
  BY <1>1, <1>2, <1>3, <1>4

(* Forward in the loop body, on to the next provider, or out.              *)
LEMMA ForwardLeavesFewer ==
    ASSUME Locals, Locals', UNCHANGED store, NEW c \in Callers, pc[c] # "idle",
           \/ pc'[c] = "idle"
           \/ at'[c] = at[c] /\ Ahead[pc'[c]] < Ahead[pc[c]]
           \/ at'[c] = at[c] + 1 /\ pc'[c] = "guard"
    PROVE  StepsLeft(c)' \in 0..StepsLeft(c) /\ StepsLeft(c)' < StepsLeft(c)
<1>1. CASE pc'[c] = "idle"
  BY <1>1, StepsAreCounted DEF StepsLeft
<1>2. CASE pc'[c] # "idle"
  <2>1. /\ Ahead[pc'[c]] \in 1..7 /\ at'[c] \in 1..Len(Plan[c])
        /\ StepsLeft(c)' = 7 * (Len(Plan[c]) - at'[c]) + Ahead[pc'[c]]
    BY <1>2 DEF StepsLeft, Locals, Ahead
  <2>2. pc'[c] = "guard" => Ahead[pc'[c]] = 7
    BY DEF Ahead
  <2>3. StepsLeft(c)' < StepsLeft(c)
    BY <1>2, <2>1, <2>2, StepsAreCounted, SevenForEach
  <2>4. StepsLeft(c)' \in 1..(7 * Len(Plan[c]))
    BY <2>1, StepsAreCounted, SevenForEach
  <2> QED
    BY <2>3, <2>4, StepsAreCounted
<1> QED
  BY <1>1, <1>2

LEMMA ProceedGoesForward ==
    ASSUME Locals, UNCHANGED store, NEW c \in Callers, Proceed(c)
    PROVE  /\ pc[c] # "idle"
           /\ \/ pc'[c] = "idle"
              \/ at'[c] = at[c] /\ Ahead[pc'[c]] < Ahead[pc[c]]
              \/ at'[c] = at[c] + 1 /\ pc'[c] = "guard"
<1> USE DEF Go, Locals
<1>1. ASSUME NextProvider(c) \/ Conclude(c)
      PROVE  pc'[c] = "idle" \/ (at'[c] = at[c] + 1 /\ pc'[c] = "guard")
  BY <1>1 DEF NextProvider, Conclude, Return
<1>2. CASE Allow(c)
  BY <1>1, <1>2 DEF Allow, Raise, Ahead
<1>3. CASE SaveProbe(c) \/ SaveFeedback(c)
  BY <1>3 DEF SaveProbe, SaveFeedback, Save, Raise, Ahead
<1>4. CASE Acquire(c)
  BY <1>4 DEF Acquire, Raise, Ahead
<1>5. CASE GiveUp(c)
  BY <1>1, <1>5 DEF GiveUp
<1>6. CASE Answer(c)
  BY <1>6 DEF Answer, Ahead
<1>7. CASE ReadFeedback(c)
  BY <1>7 DEF ReadFeedback, Raise, Ahead
<1>8. CASE Finally(c)
  BY <1>1, <1>8 DEF Finally
<1> QED
  BY <1>2, <1>3, <1>4, <1>5, <1>6, <1>7, <1>8 DEF Proceed

-----------------------------------------------------------------------------
(* Theorems.                                                               *)

(* Every variable keeps its type; lost leases stay within the budget too.  *)
THEOREM TypeCorrect == Spec => []TypeOK
<1>1. IInv => TypeOK
  <2> SUFFICES ASSUME IInv, NEW p \in Cells PROVE orphans[p] \in 0..MaxConcurrency
    BY DEF IInv, TypeOK, Locals, Blame, Records, LeasesWithinBudget
  <2> QED
    BY HoldersFinite, Limits DEF IInv, LeasesWithinBudget, Active
<1> QED
  BY <1>1, Invariance, PTL

(* No path through the loop body of invoke keeps a lease: a caller between *)
(* calls, in the guard or in the wait holds none.                          *)
THEOREM LeasesAreReturned == Spec => []LeasesReturned
<1>1. IInv => LeasesReturned
  BY DEF IInv
<1> QED
  BY <1>1, Invariance, PTL

(* "Never exceeds its concurrency budget": while no call outlasts its      *)
(* lease, the calls in flight at a provider are within max_concurrency,    *)
(* with crashes, lost releases and failing stores.                         *)
THEOREM BudgetHolds == ~LongCalls => (Spec => []CallsWithinBudget)
<1> SUFFICES ASSUME ~LongCalls PROVE Spec => []CallsWithinBudget
  OBVIOUS
<1>1. IInv => CallsWithinBudget
  <2> SUFFICES ASSUME IInv, NEW p \in Cells
               PROVE  Cardinality(InFlight(p)) <= MaxConcurrency
    BY DEF CallsWithinBudget
  <2>1. InFlight(p) \subseteq Holders(p)
    BY DEF IInv, CallersHoldLeases, InFlight, Holders
  <2>2. /\ Cardinality(InFlight(p)) <= Cardinality(Holders(p))
        /\ Cardinality(InFlight(p)) \in Nat
    BY <2>1, HoldersFinite, FS_Subset, FS_CardinalityType
  <2> QED
    BY <2>2, HoldersFinite, Limits DEF IInv, LeasesWithinBudget, Active
<1> QED
  BY <1>1, Invariance, PTL

(* Stored circuit records stay well-formed, whatever stale copies callers  *)
(* write back and whatever the stores lose.                                *)
THEOREM RecordsStayWellFormed == Spec => []RecordsWellFormed
<1>1. IInv => RecordsWellFormed
  BY DEF IInv, Records, RecordsWellFormed
<1> QED
  BY <1>1, Invariance, PTL

(* "Availability failures only": no circuit opens before as many answers   *)
(* of its provider as the threshold asks for have said that it is          *)
(* unavailable, however stale the records are that callers write back.     *)
THEOREM OpeningsHaveReasons == Spec => []OpenNeedsFailures
<1>1. FailuresAccounted => OpenNeedsFailures
  BY DEF FailuresAccounted, Accounted, OpenNeedsFailures
<1> QED
  BY <1>1, AccountsAreKept, PTL

(* "CLOSED -> OPEN -> HALF_OPEN": what a call that is alone on PostgreSQL  *)
(* does to the stored records, in two transactions with the steps of       *)
(* others between them, with faults and crashes, are steps of the machine  *)
(* that circuit.py describes, each of them whole or not at all.            *)
THEOREM ImplementsCircuitMachine == Spec => FollowsCircuitMachine
<1>1. Init => CM!Init
  BY DEF Init, CM!Init, Cells, Fresh
<1>2. IInv /\ IInv' /\ LoneCopiesFollow /\ [Next]_vars => [Alone => CM!Next]_CM!vars
  BY NextImplementsMachine
<1> QED
  BY <1>1, <1>2, Invariance, LoneCopiesKeepFollowing, PTL DEF Spec, FollowsCircuitMachine

(* The bounded wait, the timeouts and the plan leave no loop in invoke: a  *)
(* call has at most seven steps for each provider of its plan, each of     *)
(* which brings it nearer to its end.  With the fairness of CallSpec, and  *)
(* because no position of the loop body waits for others, every call ends. *)
THEOREM EveryCallIsShort == Spec => CallsComeToAnEnd
<1>1. ASSUME IInv, IInv', [Next]_vars, NEW c \in Callers, pc[c] # "idle"
      PROVE  /\ StepsLeft(c) \in 1..(7 * Len(Plan[c]))
             /\ StepsLeft(c)' \in 0..StepsLeft(c)
             /\ Proceed(c) => StepsLeft(c)' < StepsLeft(c)
  <2>1. UNCHANGED store
    BY <1>1 DEF Next, vars
  <2>2. Locals /\ Locals' /\ StepsLeft(c) \in 1..(7 * Len(Plan[c]))
    BY <1>1, StepsAreCounted DEF IInv
  <2>3. CASE Proceed(c) \/ LoseAcquire(c) \/ Crash(c)
    <3>1. \/ pc'[c] = "idle"
          \/ at'[c] = at[c] /\ Ahead[pc'[c]] < Ahead[pc[c]]
          \/ at'[c] = at[c] + 1 /\ pc'[c] = "guard"
      BY <2>1, <2>2, <2>3, ProceedGoesForward
      DEF LoseAcquire, Crash, NextProvider, Return, Go, Locals
    <3> QED
      BY <1>1, <2>1, <2>2, <3>1, ForwardLeavesFewer
  <2>4. CASE ~(Proceed(c) \/ LoseAcquire(c) \/ Crash(c))
    <3>1. pc'[c] = pc[c] /\ at'[c] = at[c]
      <4>1. CASE \E d \in Callers : d # c /\ StepOf(d)
        BY <1>1, <2>1, <4>1, StepsAreLocal
      <4>2. CASE LapseHeld(c) \/ CopyCoolsDown(c)
        BY <4>2 DEF LapseHeld, CopyCoolsDown
      <4>3. CASE \E x \in Cells : Lapse(x) \/ CoolDown(x) \/ Forget(x)
        BY <4>3 DEF Lapse, CoolDown, Forget
      <4>4. CASE UNCHANGED vars
        BY <4>4 DEF vars
      <4> QED
        BY <1>1, <2>4, <4>1, <4>2, <4>3, <4>4 DEF Next, StepOf, Begin
    <3> QED
      BY <2>2, <2>4, <3>1 DEF StepsLeft
  <2> QED
    BY <2>2, <2>3, <2>4
<1>2. IInv /\ IInv' /\ [Next]_vars =>
        [\A c \in Callers : pc[c] # "idle" =>
            /\ StepsLeft(c) \in 1..(7 * Len(Plan[c]))
            /\ StepsLeft(c)' \in 0..StepsLeft(c)
            /\ Proceed(c) => StepsLeft(c)' < StepsLeft(c)]_vars
  BY <1>1
<1> QED
  BY <1>2, Invariance, PTL DEF Spec, CallsComeToAnEnd
=============================================================================
