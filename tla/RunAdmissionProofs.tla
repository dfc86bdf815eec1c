------------------------- MODULE RunAdmissionProofs -------------------------
(***************************************************************************)
(* Theorems about RunAdmission for every number of callers, keys, bodies   *)
(* and every capacity.  The inductive invariant IInv says that the         *)
(* critical section has one occupant, that what its occupant has found     *)
(* out (no run has its key, the queue has room) stays true until it        *)
(* leaves, and that the ids of rows, flushed ones included, are distinct.  *)
(* With the refinement, what Submissions promises of a key is proved from  *)
(* its steps alone (KeyInv) and holds of the interleaved requests.         *)
(***************************************************************************)
EXTENDS RunAdmission, FiniteSetTheorems, TLAPS

Inside(c) == pc[c] \in {"recheck", "decide", "create"}

OneInside ==
    /\ \A c \in Callers : Inside(c) => c \in lock
    /\ \A c, d \in lock : c = d

KeyIsNew == \A c \in Callers : pc[c] \in {"decide", "create"} => RunsOf(c) = {}

OnGatewayPath ==
    \A c \in Callers : pc[c] \in {"lock", "recheck", "decide", "create"} =>
        want[c].path = "gateway"

HasRoom ==
    /\ IsFiniteSet(runs)
    /\ \A c \in Callers :
          pc[c] = "create" /\ Atomic!GatewayOnly => Cardinality(Queued) < Capacity

IdsAreDistinct ==
    \A c \in Callers : pc[c] = "enqueue" =>
        /\ want[c].path = "legacy" /\ pending[c] > 0
        /\ \A r \in runs : r.id # pending[c]
        /\ \A d \in Callers : pc[d] = "enqueue" /\ pending[d] = pending[c] => d = c

Unanswered == \A c \in Callers : pc[c] # "done" => told[c].kind = "none"

IInv ==
    /\ TypeOK
    /\ OneInside
    /\ KeyIsNew
    /\ OnGatewayPath
    /\ HasRoom
    /\ IdsAreDistinct
    /\ Unanswered
    /\ QueueWithinCap
    /\ DuplicatesReplay

-----------------------------------------------------------------------------
LEMMA InitEstablishesIInv == Init => IInv
<1> SUFFICES ASSUME Init PROVE IInv
  OBVIOUS
<1>1. TypeOK
  BY DEF Init, TypeOK
<1>2. OneInside /\ KeyIsNew /\ OnGatewayPath /\ IdsAreDistinct /\ Unanswered
  BY DEF Init, OneInside, Inside, KeyIsNew, OnGatewayPath, IdsAreDistinct, Unanswered
<1>3. IsFiniteSet(runs) /\ Queued = {} /\ Cardinality(Queued) = 0
  BY FS_EmptySet DEF Init, Queued
<1>4. HasRoom /\ QueueWithinCap /\ DuplicatesReplay
  BY <1>3, AdmissionAssumption DEF Init, HasRoom, QueueWithinCap, DuplicatesReplay
<1> QED
  BY <1>1, <1>2, <1>4 DEF IInv

-----------------------------------------------------------------------------
(* The answer of a caller leaves the rows alone, and takes it out of the   *)
(* critical section.                                                       *)
LEMMA TellPreservesIInv ==
    ASSUME IInv, NEW c \in Callers, NEW kind, NEW id \in 0..lastId,
           kind \in {"replayed", "deduplicated", "conflict", "full"},
           Tell(c, kind, id), UNCHANGED <<want, runs, lastId, pending>>
    PROVE  IInv'
<1> USE DEF IInv
<1>1. /\ told' = [told EXCEPT ![c] = [kind |-> kind, run |-> id]]
      /\ pc' = [pc EXCEPT ![c] = "done"]
      /\ lock' = lock \ {c}
  BY DEF Tell, Go, Unlock
<1>2. Queued' = Queued /\ Atomic!GatewayOnly' = Atomic!GatewayOnly
      /\ \A d \in Callers : RunsOf(d)' = RunsOf(d)
  BY DEF Queued, RunsOf, Atomic!GatewayOnly, Atomic!Through
<1>3. TypeOK'
  BY <1>1 DEF TypeOK
<1>4. OneInside' /\ KeyIsNew' /\ OnGatewayPath' /\ IdsAreDistinct' /\ Unanswered'
  BY <1>1, <1>2 DEF TypeOK, OneInside, Inside, KeyIsNew, OnGatewayPath, IdsAreDistinct,
                    Unanswered
<1>5. HasRoom' /\ QueueWithinCap' /\ DuplicatesReplay'
  BY <1>1, <1>2 DEF TypeOK, HasRoom, QueueWithinCap, DuplicatesReplay
<1> QED
  BY <1>3, <1>4, <1>5

(* A caller that goes on without an answer and without a row: what it has  *)
(* found out is the hypothesis.                                            *)
LEMMA StepPreservesIInv ==
    ASSUME IInv, NEW c \in Callers,
           NEW step \in {"lock", "recheck", "decide", "create"},
           pc' = [pc EXCEPT ![c] = step],
           step = "recheck" => lock = {} /\ lock' = {c},
           step # "recheck" => lock' = lock,
           step \in {"decide", "create"} => Inside(c),
           step = "lock" => ~Inside(c),
           want[c].path = "gateway",
           step \in {"decide", "create"} => RunsOf(c) = {},
           step = "create" => ~Full,
           UNCHANGED <<want, runs, lastId, pending, told>>, pc[c] # "done"
    PROVE  IInv'
<1> USE DEF IInv
<1>2. Queued' = Queued /\ Atomic!GatewayOnly' = Atomic!GatewayOnly
      /\ \A d \in Callers : RunsOf(d)' = RunsOf(d)
  BY DEF Queued, RunsOf, Atomic!GatewayOnly, Atomic!Through
<1>3. TypeOK'
  <2>1. (lock \subseteq {d \in Callers : Inside(d)})'
    BY DEF TypeOK, Inside
  <2> QED
    BY <2>1 DEF TypeOK, Inside
<1>4. OneInside'
  BY DEF TypeOK, OneInside, Inside
<1>5. KeyIsNew' /\ OnGatewayPath' /\ IdsAreDistinct' /\ Unanswered'
  BY <1>2 DEF TypeOK, KeyIsNew, OnGatewayPath, IdsAreDistinct, Unanswered
<1>6. Queued \subseteq runs /\ Cardinality(Queued) \in Nat
  BY FS_Subset, FS_CardinalityType DEF Queued, HasRoom
<1>7. HasRoom'
  BY <1>2, <1>6, AdmissionAssumption DEF HasRoom, Full, TypeOK
<1>8. QueueWithinCap' /\ DuplicatesReplay'
  BY <1>2 DEF QueueWithinCap, DuplicatesReplay
<1> QED
  BY <1>3, <1>4, <1>5, <1>7, <1>8

LEMMA ResolvePreservesIInv ==
    ASSUME IInv, NEW c \in Callers, NEW step \in {"lock", "decide"}, Resolve(c, step),
           want[c].path = "gateway", pc[c] # "done",
           IF step = "decide" THEN Inside(c) ELSE ~Inside(c)
    PROVE  IInv'
<1>1. CASE \E r \in RunsOf(c) : Tell(c, "replayed", r.id)
  <2>1. PICK r \in RunsOf(c) : Tell(c, "replayed", r.id)
    BY <1>1
  <2>2. r.id \in 0..lastId
    BY DEF RunsOf, IInv, TypeOK
  <2> QED
    BY <2>1, <2>2, TellPreservesIInv DEF Resolve
<1>2. CASE Tell(c, "conflict", 0)
  BY <1>2, TellPreservesIInv DEF Resolve, IInv, TypeOK
<1>3. CASE RunsOf(c) = {} /\ Go(c, step) /\ UNCHANGED <<lock, told>>
  BY <1>3, StepPreservesIInv DEF Resolve, Go
<1> QED
  BY <1>1, <1>2, <1>3 DEF Resolve

LEMMA LockPreservesIInv ==
    ASSUME IInv, NEW c \in Callers, Lock(c)
    PROVE  IInv'
BY StepPreservesIInv DEF Lock, At, LockIsFree, Go

LEMMA DecidePreservesIInv ==
    ASSUME IInv, NEW c \in Callers, Decide(c)
    PROVE  IInv'
<1>1. CASE Full
  BY <1>1, TellPreservesIInv DEF Decide, At, IInv, TypeOK
<1>2. CASE ~Full
  <2>1. RunsOf(c) = {} /\ Inside(c)
    BY DEF Decide, At, IInv, KeyIsNew, Inside
  <2> QED
    BY <1>2, <2>1, StepPreservesIInv DEF Decide, At, Go
<1> QED
  BY <1>1, <1>2

(* A new row does not change what others have found out: a row of the      *)
(* gateway is made by the one occupant of the critical section, and a row  *)
(* of the legacy route has no key and lifts the promise of a capacity.     *)
LEMMA CreatePreservesIInv ==
    ASSUME IInv, NEW c \in Callers, NEW id \in 1..lastId', NEW taskKey \in Keys \cup {NoKey},
           runs' = runs \cup {Row(c, id, taskKey)},
           \/ want[c].path = "gateway" /\ pc[c] = "create" /\ id = lastId + 1
              /\ lastId' = lastId + 1
           \/ want[c].path = "legacy" /\ pc[c] = "enqueue" /\ id = pending[c]
              /\ lastId' = lastId,
           Tell(c, "accepted", id), UNCHANGED <<want, pending>>
    PROVE  IInv'
<1> USE DEF IInv
<1> DEFINE row == Row(c, id, taskKey)
<1>1. /\ told' = [told EXCEPT ![c] = [kind |-> "accepted", run |-> id]]
      /\ pc' = [pc EXCEPT ![c] = "done"]
      /\ lock' = lock \ {c}
  BY DEF Tell, Go, Unlock
<1>2. lastId \in Nat /\ lastId' \in Nat /\ lastId <= lastId'
  BY DEF TypeOK
<1>3. /\ row \in [id : 1..lastId', key : Keys \cup {NoKey}, taskKey : Keys \cup {NoKey},
                   body : Bodies, queued : BOOLEAN]
      /\ row.id = id /\ row.queued
      /\ row.key = IF want[c].path = "gateway" THEN want[c].key ELSE NoKey
  BY DEF Row, TypeOK, Request
<1>4. TypeOK'
  <2>1. runs' \subseteq [id : 1..lastId', key : Keys \cup {NoKey}, taskKey : Keys \cup {NoKey},
                         body : Bodies, queued : BOOLEAN]
    BY <1>2, <1>3 DEF TypeOK
  <2>2. pending' \in [Callers -> 0..lastId']
    BY <1>2 DEF TypeOK
  <2>3. told' \in [Callers -> [kind : {"none", "accepted", "replayed", "deduplicated",
                                       "conflict", "full", "error"}, run : 0..lastId']]
    BY <1>1, <1>2 DEF TypeOK
  <2> QED
    BY <1>1, <1>2, <2>1, <2>2, <2>3 DEF TypeOK
<1>5. OneInside' /\ OnGatewayPath' /\ Unanswered' /\ DuplicatesReplay'
  BY <1>1 DEF TypeOK, OneInside, Inside, OnGatewayPath, Unanswered, DuplicatesReplay
<1>6. ASSUME NEW d \in Callers, d # c, Inside(d)
      PROVE  want[c].path = "legacy" /\ ~Atomic!GatewayOnly
  BY <1>6 DEF TypeOK, OneInside, Inside, Atomic!GatewayOnly, Atomic!Through
<1>7. KeyIsNew'
  <2> SUFFICES ASSUME NEW d \in Callers, pc'[d] \in {"decide", "create"}
               PROVE  RunsOf(d)' = {}
    BY DEF KeyIsNew
  <2>1. d # c /\ pc[d] = pc'[d]
    BY <1>1 DEF TypeOK
  <2>2. row.key = NoKey
    BY <1>3, <1>6, <2>1 DEF Inside
  <2> QED
    BY <2>1, <2>2 DEF KeyIsNew, RunsOf
<1>8. IdsAreDistinct'
  <2> SUFFICES ASSUME NEW d \in Callers, pc'[d] = "enqueue"
               PROVE  /\ want[d].path = "legacy" /\ pending[d] > 0
                      /\ \A r \in runs' : r.id # pending[d]
                      /\ \A e \in Callers : pc'[e] = "enqueue" /\ pending[e] = pending[d]
                                          => e = d
    BY DEF IdsAreDistinct
  <2>1. d # c /\ pc[d] = "enqueue"
    BY <1>1 DEF TypeOK
  <2>2. pending[d] # id
    <3>1. CASE id = pending[c] /\ pc[c] = "enqueue"
      BY <3>1, <2>1 DEF IdsAreDistinct
    <3>2. CASE id = lastId + 1
      BY <3>2, <2>1 DEF TypeOK
    <3> QED
      BY <3>1, <3>2
  <2> QED
    BY <1>1, <1>3, <2>1, <2>2 DEF IdsAreDistinct, TypeOK
<1>9. /\ IsFiniteSet(Queued)
      /\ Cardinality(Queued) \in Nat
      /\ Queued' = Queued \cup {row}
      /\ Cardinality(Queued') \in Nat
      /\ Cardinality(Queued') <= Cardinality(Queued) + 1
  <2>1. IsFiniteSet(Queued) /\ Cardinality(Queued) \in Nat
    BY FS_Subset, FS_CardinalityType DEF Queued, HasRoom
  <2>2. Queued' = Queued \cup {row}
    BY <1>3 DEF Queued
  <2>3. Cardinality(Queued \cup {row}) \in {Cardinality(Queued), Cardinality(Queued) + 1}
    BY <2>1, FS_AddElement
  <2> QED
    BY <2>1, <2>2, <2>3
<1>10. HasRoom'
  <2>1. IsFiniteSet(runs')
    BY FS_AddElement DEF HasRoom
  <2>2. \A d \in Callers : pc'[d] = "create" => ~Atomic!GatewayOnly
    BY <1>1, <1>6 DEF Inside, TypeOK
  <2> QED
    BY <2>1, <2>2 DEF HasRoom, Atomic!GatewayOnly, Atomic!Through
<1>11. QueueWithinCap'
  <2> SUFFICES ASSUME Atomic!GatewayOnly PROVE Cardinality(Queued') <= Capacity
    BY DEF QueueWithinCap, Atomic!GatewayOnly, Atomic!Through
  <2>1. pc[c] = "create"
    BY DEF Atomic!GatewayOnly, Atomic!Through
  <2>2. Cardinality(Queued) < Capacity /\ Capacity \in Nat
    BY <2>1, AdmissionAssumption DEF HasRoom
  <2> QED
    BY <1>9, <2>2
<1> QED
  BY <1>4, <1>5, <1>7, <1>8, <1>10, <1>11

(* The flushed run of a legacy submission gets an id of its own.           *)
LEMMA LookupPreservesIInv ==
    ASSUME IInv, NEW c \in Callers, LegacyLookup(c)
    PROVE  IInv'
<1> USE DEF IInv
<1>1. CASE \E r \in TasksOf(c) : Tell(c, "deduplicated", r.id) /\ UNCHANGED <<lastId, pending>>
  <2>1. PICK r \in TasksOf(c) : Tell(c, "deduplicated", r.id) /\ UNCHANGED <<lastId, pending>>
    BY <1>1
  <2>2. r.id \in 0..lastId
    BY DEF TasksOf, TypeOK
  <2> QED
    BY <2>1, <2>2, TellPreservesIInv DEF LegacyLookup
<1>2. CASE /\ TasksOf(c) = {}
           /\ lastId' = lastId + 1
           /\ pending' = [pending EXCEPT ![c] = lastId + 1]
           /\ Go(c, "enqueue") /\ UNCHANGED <<lock, told>>
  <2>1. /\ pc' = [pc EXCEPT ![c] = "enqueue"]
        /\ UNCHANGED <<want, runs, lock, told>>
        /\ want[c].path = "legacy" /\ pc[c] = "start"
    BY <1>2 DEF LegacyLookup, Go, At
  <2>2. Queued' = Queued /\ Atomic!GatewayOnly' = Atomic!GatewayOnly
        /\ \A d \in Callers : RunsOf(d)' = RunsOf(d)
    BY <2>1 DEF Queued, RunsOf, Atomic!GatewayOnly, Atomic!Through
  <2>3. TypeOK'
    <3>1. runs' \subseteq [id : 1..lastId', key : Keys \cup {NoKey},
                           taskKey : Keys \cup {NoKey}, body : Bodies, queued : BOOLEAN]
      BY <1>2, <2>1 DEF TypeOK
    <3>2. pending' \in [Callers -> 0..lastId']
      BY <1>2 DEF TypeOK
    <3>3. told' \in [Callers -> [kind : {"none", "accepted", "replayed", "deduplicated",
                                         "conflict", "full", "error"}, run : 0..lastId']]
      BY <1>2, <2>1 DEF TypeOK
    <3> QED
      BY <1>2, <2>1, <3>1, <3>2, <3>3 DEF TypeOK
  <2>4. OneInside' /\ KeyIsNew' /\ OnGatewayPath' /\ Unanswered' /\ HasRoom'
    BY <2>1, <2>2 DEF TypeOK, OneInside, Inside, KeyIsNew, OnGatewayPath, Unanswered, HasRoom
  <2>5. QueueWithinCap' /\ DuplicatesReplay'
    BY <2>1, <2>2 DEF QueueWithinCap, DuplicatesReplay
  <2>6. \A d \in Callers : pending[d] # lastId + 1
    BY DEF TypeOK
  <2>7. \A r \in runs : r.id # lastId + 1
    BY DEF TypeOK
  <2>8. IdsAreDistinct'
    <3> SUFFICES ASSUME NEW d \in Callers, pc'[d] = "enqueue"
                 PROVE  /\ want[d].path = "legacy" /\ pending'[d] > 0
                        /\ \A r \in runs : r.id # pending'[d]
                        /\ \A e \in Callers : pc'[e] = "enqueue" /\ pending'[e] = pending'[d]
                                            => e = d
      BY <2>1 DEF IdsAreDistinct
    <3>1. CASE d = c
      BY <1>2, <2>1, <2>6, <2>7, <3>1 DEF TypeOK
    <3>2. CASE d # c
      BY <1>2, <2>1, <2>6, <3>2 DEF IdsAreDistinct, TypeOK
    <3> QED
      BY <3>1, <3>2
  <2> QED
    BY <2>3, <2>4, <2>5, <2>8
<1> QED
  BY <1>1, <1>2 DEF LegacyLookup

LEMMA EnqueuePreservesIInv ==
    ASSUME IInv, NEW c \in Callers, LegacyEnqueue(c)
    PROVE  IInv'
<1>1. pending[c] \in 1..lastId /\ lastId \in Nat
  BY DEF IInv, TypeOK, IdsAreDistinct, LegacyEnqueue, At
<1>2. CASE TasksOf(c) # {}
  BY <1>1, <1>2, TellPreservesIInv DEF LegacyEnqueue
<1>3. CASE TasksOf(c) = {}
  <2>1. want[c].key \in Keys \cup {NoKey}
    BY DEF IInv, TypeOK, Request
  <2> QED
    BY <1>1, <1>3, <2>1, CreatePreservesIInv DEF LegacyEnqueue, At
<1> QED
  BY <1>2, <1>3

LEMMA GatewayCreatePreservesIInv ==
    ASSUME IInv, NEW c \in Callers, Create(c)
    PROVE  IInv'
<1>1. RunsOf(c) = {} /\ lastId \in Nat
  BY DEF IInv, TypeOK, KeyIsNew, Create, At
<1>2. runs' = runs \cup {Row(c, lastId + 1, NoKey)} /\ Tell(c, "accepted", lastId + 1)
  BY <1>1 DEF Create, RunsOf
<1> QED
  BY <1>1, <1>2, CreatePreservesIInv DEF Create, At

(* A request that dies leaves the critical section, and a run that leaves  *)
(* the queue makes room.                                                   *)
LEMMA LosePreservesIInv ==
    ASSUME IInv, NEW c \in Callers, Lose(c)
    PROVE  IInv'
<1> USE DEF IInv
<1>1. /\ pc' = [pc EXCEPT ![c] = "done"]
      /\ lock' = lock \ {c}
      /\ UNCHANGED <<want, runs, lastId, pending, told>>
  BY DEF Lose, Go
<1>2. Queued' = Queued /\ Atomic!GatewayOnly' = Atomic!GatewayOnly
      /\ \A d \in Callers : RunsOf(d)' = RunsOf(d)
  BY <1>1 DEF Queued, RunsOf, Atomic!GatewayOnly, Atomic!Through
<1>3. TypeOK' /\ OneInside' /\ KeyIsNew' /\ OnGatewayPath'
  BY <1>1, <1>2 DEF TypeOK, OneInside, Inside, KeyIsNew, OnGatewayPath
<1>4. IdsAreDistinct' /\ Unanswered' /\ HasRoom' /\ QueueWithinCap' /\ DuplicatesReplay'
  BY <1>1, <1>2 DEF TypeOK, IdsAreDistinct, Unanswered, HasRoom, QueueWithinCap,
                    DuplicatesReplay
<1> QED
  BY <1>3, <1>4

LEMMA LeavePreservesIInv ==
    ASSUME IInv, NEW r \in runs, Leave(r)
    PROVE  IInv'
<1> USE DEF IInv
<1> DEFINE left == [r EXCEPT !.queued = FALSE]
<1>1. /\ r.queued
      /\ runs' = (runs \ {r}) \cup {left}
      /\ UNCHANGED <<want, lastId, lock, pc, pending, told>>
  BY DEF Leave
<1>2. /\ left \in [id : 1..lastId, key : Keys \cup {NoKey}, taskKey : Keys \cup {NoKey},
                    body : Bodies, queued : BOOLEAN]
      /\ left.id = r.id /\ left.key = r.key /\ left.queued = FALSE
  BY DEF TypeOK
<1>3. TypeOK' /\ OneInside' /\ OnGatewayPath' /\ Unanswered' /\ DuplicatesReplay'
  <2>1. runs' \subseteq [id : 1..lastId, key : Keys \cup {NoKey},
                         taskKey : Keys \cup {NoKey}, body : Bodies, queued : BOOLEAN]
    <3>1. runs \subseteq [id : 1..lastId, key : Keys \cup {NoKey},
                          taskKey : Keys \cup {NoKey}, body : Bodies, queued : BOOLEAN]
      BY DEF TypeOK
    <3> HIDE DEF left
    <3> QED
      BY <1>1, <1>2, <3>1
  <2>2. TypeOK'
    <3> HIDE DEF left
    <3> QED
      BY <1>1, <2>1 DEF TypeOK
  <2> QED
    BY <1>1, <2>2 DEF OneInside, Inside, OnGatewayPath, Unanswered, DuplicatesReplay
<1>4. KeyIsNew' /\ IdsAreDistinct'
  BY <1>1, <1>2 DEF KeyIsNew, RunsOf, IdsAreDistinct
<1>5. /\ IsFiniteSet(runs')
      /\ Cardinality(Queued') <= Cardinality(Queued)
      /\ Cardinality(Queued') \in Nat
      /\ Cardinality(Queued) \in Nat
  <2>1. Queued' \subseteq Queued
    BY <1>1, <1>2 DEF Queued
  <2>2. IsFiniteSet(Queued)
    BY FS_Subset DEF Queued, HasRoom
  <2>3. IsFiniteSet(runs \ {r}) /\ IsFiniteSet(runs')
    BY <1>1, FS_RemoveElement, FS_AddElement DEF HasRoom
  <2> QED
    BY <2>1, <2>2, <2>3, FS_Subset, FS_CardinalityType
<1>6. Atomic!GatewayOnly' = Atomic!GatewayOnly
  BY <1>1 DEF Atomic!GatewayOnly, Atomic!Through
<1>7. Capacity \in Nat
  BY AdmissionAssumption
<1>8. HasRoom' /\ QueueWithinCap'
  BY <1>1, <1>5, <1>6, <1>7 DEF HasRoom, QueueWithinCap
<1> QED
  BY <1>3, <1>4, <1>8

LEMMA NextPreservesIInv == IInv /\ [Next]_vars => IInv'
<1> SUFFICES ASSUME IInv, [Next]_vars PROVE IInv'
  OBVIOUS
<1>1. CASE UNCHANGED vars
  <2>1. Queued' = Queued /\ Atomic!GatewayOnly' = Atomic!GatewayOnly
        /\ \A d \in Callers : RunsOf(d)' = RunsOf(d)
    BY <1>1 DEF vars, Queued, RunsOf, Atomic!GatewayOnly, Atomic!Through
  <2>2. TypeOK' /\ OneInside' /\ KeyIsNew' /\ OnGatewayPath' /\ Unanswered'
    BY <1>1, <2>1 DEF vars, IInv, TypeOK, OneInside, Inside, KeyIsNew, OnGatewayPath, Unanswered
  <2>3. HasRoom' /\ IdsAreDistinct' /\ QueueWithinCap' /\ DuplicatesReplay'
    BY <1>1, <2>1 DEF vars, IInv, HasRoom, IdsAreDistinct, QueueWithinCap, DuplicatesReplay
  <2> QED
    BY <2>2, <2>3 DEF IInv
<1>2. ASSUME NEW c \in Callers, Submit(c) PROVE IInv'
  <2>1. CASE FastPath(c)
    BY <2>1, ResolvePreservesIInv DEF FastPath, At, Inside
  <2>2. CASE Recheck(c)
    BY <2>2, ResolvePreservesIInv DEF Recheck, At, Inside
  <2> QED
    BY <1>2, <2>1, <2>2, LockPreservesIInv, DecidePreservesIInv, GatewayCreatePreservesIInv,
       LookupPreservesIInv, EnqueuePreservesIInv DEF Submit
<1>3. ASSUME NEW c \in Callers, Lose(c) PROVE IInv'
  BY <1>3, LosePreservesIInv
<1>4. ASSUME NEW r \in runs, Leave(r) PROVE IInv'
  BY <1>4, LeavePreservesIInv
<1> QED
  BY <1>1, <1>2, <1>3, <1>4 DEF Next

LEMMA Invariance == Spec => []IInv
BY InitEstablishesIInv, NextPreservesIInv, PTL DEF Spec

-----------------------------------------------------------------------------
(* Theorems.                                                               *)

(* The tables and locals keep their types, and only who is in the critical *)
(* section holds the advisory lock.                                        *)
THEOREM TypeCorrect == Spec => []TypeOK
<1>1. IInv => TypeOK
  BY DEF IInv
<1> QED
  BY <1>1, Invariance, PTL

(* "Queue never exceeds its capacity": the decision under the advisory     *)
(* lock bounds the queued runs as long as the gateway is the only entry.   *)
THEOREM CapacityIsRespected == Spec => []QueueWithinCap
<1>1. IInv => QueueWithinCap
  BY DEF IInv
<1> QED
  BY <1>1, Invariance, PTL

(* The second lookup, under the lock, keeps every duplicate away from the  *)
(* unique constraint.                                                      *)
THEOREM DuplicatesAreAnswered == Spec => []DuplicatesReplay
<1>1. IInv => DuplicatesReplay
  BY DEF IInv
<1> QED
  BY <1>1, Invariance, PTL

-----------------------------------------------------------------------------
(* The refinement: the step that tells the client is the one in which the  *)
(* submission takes effect; all others change nothing a client can see.    *)

LEMMA KnownRuns ==
    ASSUME NEW c \in Callers
    PROVE  Atomic!Known(c) = IF want[c].path = "gateway" THEN RunsOf(c) ELSE TasksOf(c)
<1>1. CASE want[c].key = NoKey
  BY <1>1 DEF Atomic!Known, RunsOf, TasksOf
<1>2. CASE want[c].key # NoKey /\ want[c].path = "gateway"
  BY <1>2 DEF Atomic!Known, Atomic!Through, RunsOf
<1>3. CASE want[c].key # NoKey /\ want[c].path # "gateway"
  BY <1>3 DEF Atomic!Known, Atomic!Through, TasksOf
<1> QED
  BY <1>1, <1>2, <1>3

LEMMA SameCount == Atomic!Cardinality(Atomic!Queued) = Cardinality(Queued)
BY DEF Atomic!Cardinality, Cardinality, Atomic!Queued, Queued, Atomic!IsFiniteSet, IsFiniteSet

LEMMA CreatedRun ==
    ASSUME NEW c \in Callers, NEW id, NEW taskKey, NEW row, row = Row(c, id, taskKey),
           runs' = runs \cup {row}, \A r \in runs : r.id # id,
           taskKey = IF want[c].path = "gateway" THEN NoKey ELSE want[c].key,
           want[c].path \in {"gateway", "legacy"},
           Tell(c, "accepted", id), Atomic!Known(c) = {}
    PROVE  Atomic!Created(c)
<1>1. row.id = id /\ row.body = want[c].body /\ row.queued /\ row.taskKey = taskKey
      /\ row.key = IF want[c].path = "gateway" THEN want[c].key ELSE NoKey
  BY DEF Row
<1>2. Atomic!Answered(c, "accepted", row.id)
  BY <1>1 DEF Tell, Atomic!Answered
<1>3. /\ row.key = IF Atomic!Through(c, "gateway") THEN want[c].key ELSE NoKey
      /\ row.taskKey = IF Atomic!Through(c, "gateway") THEN NoKey ELSE want[c].key
  BY <1>1 DEF Atomic!Through
<1> QED
  BY <1>1, <1>2, <1>3 DEF Atomic!Created

LEMMA ResolveRefines ==
    ASSUME IInv, NEW c \in Callers, NEW step, Resolve(c, step),
           want[c].path = "gateway", pc[c] # "done"
    PROVE  Atomic!Submit(c) \/ UNCHANGED <<want, runs, told>>
<1>1. told[c].kind = "none" /\ Atomic!Through(c, "gateway") /\ Atomic!Known(c) = RunsOf(c)
  BY KnownRuns DEF IInv, Unanswered, Atomic!Through
<1>2. UNCHANGED <<want, runs>>
  BY DEF Resolve
<1>3. CASE \E r \in RunsOf(c) : r.body = want[c].body /\ Tell(c, "replayed", r.id)
  BY <1>1, <1>2, <1>3 DEF Tell, Atomic!Answered, Atomic!Replay, Atomic!Submit
<1>4. CASE \E r \in RunsOf(c) : r.body # want[c].body /\ Tell(c, "conflict", 0)
  BY <1>1, <1>2, <1>4 DEF Tell, Atomic!Answered, Atomic!Conflict, Atomic!Submit
<1> QED
  BY <1>2, <1>3, <1>4 DEF Resolve

LEMMA SubmitRefines ==
    ASSUME IInv, NEW c \in Callers, Submit(c)
    PROVE  Atomic!Submit(c) \/ UNCHANGED <<want, runs, told>>
<1>1. CASE FastPath(c) \/ Recheck(c)
  BY <1>1, ResolveRefines DEF FastPath, Recheck, At
<1>2. CASE Lock(c)
  BY <1>2 DEF Lock
<1>3. CASE Decide(c)
  <2>1. CASE ~Full
    BY <1>3, <2>1 DEF Decide
  <2>2. CASE Full
    <3>1. told[c].kind = "none" /\ Atomic!Through(c, "gateway") /\ Atomic!Known(c) = {}
      BY <1>3, KnownRuns DEF IInv, Unanswered, KeyIsNew, Atomic!Through, Decide, At
    <3>2. Atomic!Cardinality(Atomic!Queued) >= Capacity
      BY <2>2, SameCount DEF Full
    <3>3. UNCHANGED <<want, runs>> /\ Atomic!Answered(c, "full", 0)
      BY <1>3, <2>2 DEF Decide, Tell, Atomic!Answered
    <3>4. Atomic!Refuse(c)
      BY <3>1, <3>2, <3>3 DEF Atomic!Refuse
    <3> QED
      BY <3>1, <3>3, <3>4 DEF Atomic!Submit
  <2> QED
    BY <2>1, <2>2
<1>4. CASE Create(c)
  <2>1. told[c].kind = "none" /\ Atomic!Through(c, "gateway") /\ Atomic!Known(c) = {}
        /\ RunsOf(c) = {} /\ want' = want
    BY <1>4, KnownRuns DEF IInv, Unanswered, KeyIsNew, Atomic!Through, Create, At
  <2>2. PICK id, row : id = lastId + 1 /\ row = Row(c, id, NoKey)
    OBVIOUS
  <2>3. runs' = runs \cup {row} /\ Tell(c, "accepted", id) /\ \A r \in runs : r.id # id
    BY <1>4, <2>1, <2>2 DEF Create, RunsOf, IInv, TypeOK
  <2>4. Atomic!Created(c)
    BY <1>4, <2>1, <2>2, <2>3, CreatedRun DEF Create, At
  <2>5. Atomic!GatewayOnly => Atomic!Cardinality(Atomic!Queued) < Capacity
    BY <1>4, SameCount DEF IInv, HasRoom, Create, At
  <2>6. Atomic!Accept(c)
    BY <2>4, <2>5 DEF Atomic!Accept
  <2> QED
    BY <2>1, <2>6 DEF Atomic!Submit
<1>5. CASE LegacyLookup(c)
  <2>1. told[c].kind = "none" /\ Atomic!Through(c, "legacy") /\ Atomic!Known(c) = TasksOf(c)
        /\ UNCHANGED <<want, runs>>
    BY <1>5, KnownRuns DEF IInv, Unanswered, Atomic!Through, LegacyLookup, At
  <2>2. CASE \E r \in TasksOf(c) : Tell(c, "deduplicated", r.id)
    <3>1. PICK r \in TasksOf(c) : Tell(c, "deduplicated", r.id)
      BY <2>2
    <3>2. Atomic!Answered(c, "deduplicated", told'[c].run)
      BY <3>1 DEF Tell, Atomic!Answered, IInv, TypeOK
    <3> QED
      BY <2>1, <3>1, <3>2 DEF Atomic!Deduplicate, Atomic!Submit
  <2> QED
    BY <1>5, <2>1, <2>2 DEF LegacyLookup
<1>6. CASE LegacyEnqueue(c)
  <2>1. told[c].kind = "none" /\ Atomic!Through(c, "legacy") /\ Atomic!Known(c) = TasksOf(c)
        /\ want' = want
    BY <1>6, KnownRuns DEF IInv, Unanswered, Atomic!Through, LegacyEnqueue, At
  <2>2. CASE TasksOf(c) # {}
    <3>1. Atomic!Answered(c, "deduplicated", told'[c].run) /\ runs' = runs
      BY <1>6, <2>2 DEF LegacyEnqueue, Tell, Atomic!Answered, IInv, TypeOK
    <3> QED
      BY <2>1, <2>2, <3>1 DEF Atomic!Deduplicate, Atomic!Submit
  <2>3. CASE TasksOf(c) = {}
    <3>1. \A r \in runs : r.id # pending[c]
      BY <1>6 DEF IInv, IdsAreDistinct, LegacyEnqueue, At
    <3>2. PICK row : row = Row(c, pending[c], want[c].key)
      OBVIOUS
    <3>3. runs' = runs \cup {row} /\ Tell(c, "accepted", pending[c])
          /\ want[c].path = "legacy"
      BY <1>6, <2>3, <3>2 DEF LegacyEnqueue, At
    <3>4. Atomic!Created(c)
      BY <2>1, <2>3, <3>1, <3>2, <3>3, CreatedRun
    <3> QED
      BY <2>1, <3>4 DEF Atomic!Submit
  <2> QED
    BY <2>2, <2>3
<1> QED
  BY <1>1, <1>2, <1>3, <1>4, <1>5, <1>6 DEF Submit

(* Submissions behave as if each took effect in a single step, whatever    *)
(* they find in flight.                                                    *)
THEOREM SubmissionsTakeOneStep == Spec => SubmissionsAreAtomic
<1>1. Init => Atomic!Init
  BY DEF Init, Atomic!Init
<1>2. IInv /\ [Next]_vars => [Atomic!Next]_<<want, runs, told>>
  <2> SUFFICES ASSUME IInv, [Next]_vars PROVE [Atomic!Next]_<<want, runs, told>>
    OBVIOUS
  <2>1. CASE UNCHANGED vars
    BY <2>1 DEF vars
  <2>2. ASSUME NEW c \in Callers, Submit(c) PROVE [Atomic!Next]_<<want, runs, told>>
    BY <2>2, SubmitRefines DEF Atomic!Next
  <2>3. ASSUME NEW c \in Callers, Lose(c) PROVE [Atomic!Next]_<<want, runs, told>>
    BY <2>3 DEF Lose
  <2>4. ASSUME NEW r \in runs, Leave(r) PROVE [Atomic!Next]_<<want, runs, told>>
    BY <2>4 DEF Leave, Atomic!Leave, Atomic!Queued, Atomic!Next
  <2> QED
    BY <2>1, <2>2, <2>3, <2>4 DEF Next
<1> QED
  BY <1>1, <1>2, Invariance, PTL DEF Spec, SubmissionsAreAtomic, Atomic!Spec
-----------------------------------------------------------------------------
(* What idempotency keys are good for.  It follows from the abstract       *)
(* specification alone: only its steps touch requests, rows and answers.   *)

(* A row is known by its id, by the key of its run and by that of its task.*)
OneRunPerKey ==
    \A q, r \in runs :
        \/ q.id = r.id
        \/ q.key # NoKey /\ q.key = r.key
        \/ q.taskKey # NoKey /\ q.taskKey = r.taskKey
        => q = r

(* The run that an answer names is there, and is what was asked for.       *)
Serves(r, c) ==
    /\ r.id = told[c].run
    /\ r.body = want[c].body
    /\ want[c].key = IF want[c].path = "gateway" THEN r.key ELSE r.taskKey

AnswersNameRuns ==
    \A c \in Callers : told[c].kind \in {"accepted", "replayed"} => \E r \in runs : Serves(r, c)

(* No run is the new run of two callers.                                   *)
AcceptedOnce ==
    \A c, d \in Callers :
        told[c].kind = "accepted" /\ told[d].kind = "accepted" /\ told[c].run = told[d].run => c = d

KeyInv == OneRunPerKey /\ AnswersNameRuns /\ AcceptedOnce

LEMMA ServesStays ==
    ASSUME NEW c \in Callers, NEW r, Serves(r, c), want' = want, told'[c] = told[c]
    PROVE  Serves(r, c)'
BY DEF Serves

(* An answer about rows that stay.                                         *)
LEMMA AnswerKeepsKeys ==
    ASSUME TypeOK, KeyInv, NEW c \in Callers, NEW kind \in {"replayed", "conflict", "full", "deduplicated"},
           NEW id, Atomic!Answered(c, kind, id), UNCHANGED <<want, runs>>,
           kind = "replayed" => \E r \in Atomic!Known(c) : r.body = want[c].body /\ r.id = id
    PROVE  KeyInv'
<1>1. told' = [told EXCEPT ![c] = [kind |-> kind, run |-> id]]
  BY DEF Atomic!Answered
<1>2. told'[c] = [kind |-> kind, run |-> id] /\ \A d \in Callers \ {c} : told'[d] = told[d]
  BY <1>1 DEF TypeOK
<1>3. AnswersNameRuns'
  <2> SUFFICES ASSUME NEW d \in Callers, told'[d].kind \in {"accepted", "replayed"}
               PROVE  \E r \in runs : Serves(r, d)'
    BY DEF AnswersNameRuns
  <2>1. CASE d = c
    BY <1>2, <2>1 DEF Serves, Atomic!Known, Atomic!Through
  <2>2. CASE d # c
    BY <1>2, <2>2, ServesStays DEF KeyInv, AnswersNameRuns
  <2> QED
    BY <2>1, <2>2
<1>4. AcceptedOnce'
  BY <1>2 DEF KeyInv, AcceptedOnce
<1>5. OneRunPerKey'
  BY DEF KeyInv, OneRunPerKey
<1> QED
  BY <1>3, <1>4, <1>5 DEF KeyInv

(* A new row: neither its id nor its key is that of another.               *)
LEMMA CreatedKeepsKeys ==
    ASSUME TypeOK, KeyInv, NEW c \in Callers, Atomic!Created(c), want' = want
    PROVE  KeyInv'
<1>1. PICK row \in runs' :
         /\ runs' = runs \cup {row}
         /\ \A r \in runs : row.id # r.id
         /\ row.key = IF Atomic!Through(c, "gateway") THEN want[c].key ELSE NoKey
         /\ row.taskKey = IF Atomic!Through(c, "gateway") THEN NoKey ELSE want[c].key
         /\ row.body = want[c].body /\ row.queued
         /\ Atomic!Answered(c, "accepted", row.id)
  BY DEF Atomic!Created
<1>2. told'[c] = [kind |-> "accepted", run |-> row.id]
      /\ \A d \in Callers \ {c} : told'[d] = told[d]
  BY <1>1 DEF TypeOK, Atomic!Answered
<1>3. \A r \in runs : /\ ~(row.key # NoKey /\ row.key = r.key)
                      /\ ~(row.taskKey # NoKey /\ row.taskKey = r.taskKey)
  BY <1>1 DEF Atomic!Created, Atomic!Known
<1>4. OneRunPerKey'
  BY <1>1, <1>3 DEF KeyInv, OneRunPerKey
<1>5. ASSUME NEW d \in Callers \ {c}, told[d].kind \in {"accepted", "replayed"}
      PROVE  \E r \in runs : Serves(r, d) /\ Serves(r, d)' /\ told'[d].run # row.id
  BY <1>1, <1>2, <1>5, ServesStays DEF KeyInv, AnswersNameRuns, Serves
<1>6. AnswersNameRuns'
  <2> SUFFICES ASSUME NEW d \in Callers, told'[d].kind \in {"accepted", "replayed"}
               PROVE  \E r \in runs' : Serves(r, d)'
    BY DEF AnswersNameRuns
  <2>1. CASE d = c
    BY <1>1, <1>2, <2>1 DEF Serves, Atomic!Through
  <2>2. CASE d # c
    BY <1>1, <1>2, <1>5, <2>2
  <2> QED
    BY <2>1, <2>2
<1>7. AcceptedOnce'
  BY <1>2, <1>5 DEF KeyInv, AcceptedOnce
<1> QED
  BY <1>4, <1>6, <1>7 DEF KeyInv

LEMMA LeaveKeepsKeys ==
    ASSUME TypeOK, KeyInv, Atomic!Leave
    PROVE  KeyInv'
<1>1. PICK r \in Atomic!Queued : runs' = (runs \ {r}) \cup {[r EXCEPT !.queued = FALSE]}
  BY DEF Atomic!Leave
<1>2. UNCHANGED <<want, told>> /\ r \in runs
  BY <1>1 DEF Atomic!Leave, Atomic!Queued
<1>3. PICK left : left = [r EXCEPT !.queued = FALSE]
  OBVIOUS
<1>4. left.id = r.id /\ left.key = r.key /\ left.taskKey = r.taskKey /\ left.body = r.body
  BY <1>2, <1>3 DEF TypeOK
<1>5. runs' = (runs \ {r}) \cup {left}
  BY <1>1, <1>3
<1>6. OneRunPerKey'
  BY <1>2, <1>4, <1>5 DEF KeyInv, OneRunPerKey
<1>7. AnswersNameRuns'
  BY <1>2, <1>4, <1>5 DEF KeyInv, AnswersNameRuns, Serves
<1>8. AcceptedOnce'
  BY <1>2 DEF KeyInv, AcceptedOnce
<1> QED
  BY <1>6, <1>7, <1>8 DEF KeyInv

LEMMA AtomicStepKeepsKeys ==
    TypeOK /\ KeyInv /\ [Atomic!Next]_<<want, runs, told>> => KeyInv'
<1> SUFFICES ASSUME TypeOK, KeyInv, [Atomic!Next]_<<want, runs, told>> PROVE KeyInv'
  OBVIOUS
<1>1. CASE UNCHANGED <<want, runs, told>>
  BY <1>1 DEF KeyInv, OneRunPerKey, AnswersNameRuns, Serves, AcceptedOnce
<1>2. CASE Atomic!Leave
  BY <1>2, LeaveKeepsKeys
<1>3. ASSUME NEW c \in Callers, Atomic!Submit(c) PROVE KeyInv'
  <2>1. want' = want
    BY <1>3 DEF Atomic!Submit
  <2>2. CASE Atomic!Created(c)
    BY <2>1, <2>2, CreatedKeepsKeys
  <2>3. CASE Atomic!Replay(c)
    BY <2>1, <2>3, AnswerKeepsKeys DEF Atomic!Replay
  <2>4. CASE Atomic!Conflict(c) \/ Atomic!Refuse(c) \/ Atomic!Deduplicate(c)
    BY <2>1, <2>4, AnswerKeepsKeys DEF Atomic!Conflict, Atomic!Refuse, Atomic!Deduplicate
  <2> QED
    BY <1>3, <2>2, <2>3, <2>4 DEF Atomic!Submit, Atomic!Accept
<1> QED
  BY <1>1, <1>2, <1>3 DEF Atomic!Next

LEMMA KeysAreKept == Spec => [](TypeOK /\ KeyInv)
<1>1. Init => KeyInv
  BY DEF Init, KeyInv, OneRunPerKey, AnswersNameRuns, AcceptedOnce
<1>2. TypeOK /\ KeyInv /\ [Atomic!Next]_<<want, runs, told>> => KeyInv'
  BY AtomicStepKeepsKeys
<1>3. Spec => Init
  BY DEF Spec
<1> QED
  BY <1>1, <1>2, <1>3, TypeCorrect, SubmissionsTakeOneStep, PTL DEF SubmissionsAreAtomic, Atomic!Spec

(* Callers that give the same key on the same path and are served get one  *)
(* run, which was made for the body of each of them, and at most one of    *)
(* them is told that it is new: however their requests overlap, and        *)
(* whatever requests die or runs leave the queue meanwhile.                *)
KeysAreIdempotent ==
    \A c, d \in Callers :
        /\ want[c].path = want[d].path /\ want[c].key = want[d].key /\ want[c].key # NoKey
        /\ {told[c].kind, told[d].kind} \subseteq {"accepted", "replayed"}
        => /\ told[c].run = told[d].run /\ want[c].body = want[d].body
           /\ told[c].kind = "accepted" /\ told[d].kind = "accepted" => c = d

THEOREM SameKeySameRun == Spec => []KeysAreIdempotent
<1>1. KeyInv => KeysAreIdempotent
  <2> SUFFICES ASSUME KeyInv, NEW c \in Callers, NEW d \in Callers,
                      want[c].path = want[d].path, want[c].key = want[d].key,
                      want[c].key # NoKey,
                      told[c].kind \in {"accepted", "replayed"},
                      told[d].kind \in {"accepted", "replayed"}
               PROVE  /\ told[c].run = told[d].run /\ want[c].body = want[d].body
                      /\ told[c].kind = "accepted" /\ told[d].kind = "accepted" => c = d
    BY DEF KeysAreIdempotent
  <2>1. PICK q \in runs : Serves(q, c)
    BY DEF KeyInv, AnswersNameRuns
  <2>2. PICK r \in runs : Serves(r, d)
    BY DEF KeyInv, AnswersNameRuns
  <2>3. q = r
    BY <2>1, <2>2 DEF KeyInv, OneRunPerKey, Serves
  <2> QED
    BY <2>1, <2>2, <2>3 DEF KeyInv, AcceptedOnce, Serves
<1> QED
  BY <1>1, KeysAreKept, PTL

-----------------------------------------------------------------------------
(* How many statements a submission has before it at most.                 *)
StepsLeft(c) ==
    CASE pc[c] = "start" -> 5
      [] pc[c] = "lock" -> 4
      [] pc[c] = "recheck" -> 3
      [] pc[c] = "decide" -> 2
      [] pc[c] \in {"create", "enqueue"} -> 1
      [] pc[c] = "done" -> 0

SubmissionsComeToAnEnd ==
    \A c \in Callers :
        /\ StepsLeft(c) \in 0..5
        /\ StepsLeft(c)' <= StepsLeft(c)
        /\ Submit(c) => StepsLeft(c)' < StepsLeft(c)

(* Every submission is answered within five statements; only for the lock  *)
(* may it have to wait, and whoever holds that has three statements before *)
(* it and waits for nobody.                                                *)
LockIsBrief == \A c \in lock : StepsLeft(c) \in 1..3 /\ \A d \in lock : d = c

THEOREM EverySubmissionIsShort == Spec => [][SubmissionsComeToAnEnd]_vars /\ []LockIsBrief
<1>1. IInv => LockIsBrief
  BY DEF IInv, TypeOK, OneInside, LockIsBrief, StepsLeft
<1>2. IInv /\ IInv' /\ [Next]_vars => SubmissionsComeToAnEnd
  <2> SUFFICES ASSUME IInv, IInv', [Next]_vars, NEW c \in Callers
               PROVE  /\ StepsLeft(c) \in 0..5
                      /\ StepsLeft(c)' <= StepsLeft(c)
                      /\ Submit(c) => StepsLeft(c)' < StepsLeft(c)
    BY DEF SubmissionsComeToAnEnd
  <2> USE DEF IInv, TypeOK
  <2>1. StepsLeft(c) \in 0..5 /\ StepsLeft(c)' \in 0..5
    BY DEF StepsLeft
  <2>2. Submit(c) => StepsLeft(c)' < StepsLeft(c)
    <3>1. CASE FastPath(c) \/ Recheck(c)
      BY <3>1 DEF FastPath, Recheck, Resolve, Tell, Go, At, StepsLeft
    <3>2. CASE Lock(c) \/ Decide(c) \/ Create(c)
      BY <3>2 DEF Lock, Decide, Create, Tell, Go, At, StepsLeft
    <3>3. CASE LegacyLookup(c) \/ LegacyEnqueue(c)
      BY <3>3 DEF LegacyLookup, LegacyEnqueue, Tell, Go, At, StepsLeft
    <3> QED
      BY <3>1, <3>2, <3>3 DEF Submit
  <2>3. Lose(c) => StepsLeft(c)' = 0
    BY DEF Lose, Go, StepsLeft
  <2>4. ~Submit(c) /\ ~Lose(c) => StepsLeft(c)' = StepsLeft(c)
    <3>1. ASSUME NEW d \in Callers \ {c}, Submit(d) \/ Lose(d) PROVE pc'[c] = pc[c]
      <4>1. \E step : pc' = [pc EXCEPT ![d] = step]
        BY <3>1 DEF Submit, FastPath, Lock, Recheck, Resolve, Decide, Create, LegacyLookup,
           LegacyEnqueue, Tell, Go, Lose
      <4> QED
        BY <4>1
    <3>2. ASSUME ~Submit(c), ~Lose(c) PROVE pc'[c] = pc[c]
      BY <3>1, <3>2 DEF Next, Leave, vars
    <3> QED
      BY <3>2 DEF StepsLeft
  <2> HIDE DEF StepsLeft
  <2> QED
    BY <2>1, <2>2, <2>3, <2>4
<1> QED
  BY <1>1, <1>2, Invariance, PTL DEF Spec
=============================================================================
