--------------------------- MODULE DeliveryProofs ---------------------------
(***************************************************************************)
(* Theorems about Delivery for every number of items, clients, requests    *)
(* and crashes.  IInv adds to JobTellsItems what each request in flight    *)
(* knows: in any case that the item it is about to record was accepted and *)
(* that its job was reviewed; and, while requests keep apart, that it is   *)
(* the only one, which status the job has, and how often each item can     *)
(* have been sent at the point it has reached.                             *)
(***************************************************************************)
EXTENDS Delivery, TLAPS

Dispatches(c) ==
    pc[c] \in {"validated", "marked", "exporting", "items", "sent", "settling", "finishing"}

(* Whatever overlaps.                                                      *)
Recorded ==
    /\ \A i \in Items : items[i] = "dispatched" => sent[i] > 0
    /\ \A c \in Clients : pc[c] = "sent" =>
          /\ next[c] \in Items
          /\ result[c] = "dispatched" => sent[next[c]] > 0
          /\ result[c] \in ItemStatus

Reviewed ==
    /\ \A i \in Items : sent[i] > 0 => job.review # "pending"
    /\ \A c \in Clients : Dispatches(c) => job.review # "pending"
    /\ \A c \in Clients : pc[c] = "settling" => result[c] # "none"

(* While requests keep apart.                                              *)
Alone == \A c, d \in Clients : pc[c] # "idle" /\ pc[d] # "idle" => c = d

StatusKnown ==
    /\ \A c \in Clients : pc[c] = "approving" => job.status = "pending_review"
    /\ \A c \in Clients : pc[c] = "validated" => job.status \in {"ready", "partial_failed"}
    /\ \A c \in Clients : pc[c] \in {"marked", "exporting", "items", "sent", "settling"} =>
          job.status = "dispatching"

OutcomeKnown ==
    /\ job.status \in {"dispatched", "partial_failed"} => job.status = Derived(items)
    /\ \A c \in Clients : pc[c] = "settling" =>
          known[c] \in {"none", "dispatching"} /\ result[c] \in {"failed", Derived(items)}

SentKnown ==
    /\ job.status \in {"pending_review", "ready"} => \A i \in Items : sent[i] = 0
    /\ \A c \in Clients : \A i \in Items :
          \/ pc[c] \in {"validated", "marked", "exporting"}
          \/ pc[c] = "items" /\ i >= next[c]
          \/ pc[c] = "sent" /\ i > next[c]
          => sent[i] <= repeats
    /\ \A i \in Items : sent[i] <= repeats + 1

Calm == Alone /\ StatusKnown /\ OutcomeKnown /\ SentKnown

IInv ==
    /\ TypeOK
    /\ Recorded
    /\ Reviewed
    /\ ~overlap => Calm

USE DeliveryAssumption

-----------------------------------------------------------------------------
LEMMA InitEstablishesIInv == Init => IInv
<1> SUFFICES ASSUME Init PROVE IInv
  OBVIOUS
<1>1. TypeOK
  <2>1. job \in [status : JobStatus, review : {"pending", "not_required", "approved"}]
    BY DEF Init, JobStatus
  <2>2. ItemCount \in Nat /\ MaxRequests \in Nat /\ MaxCrashes \in Nat
    OBVIOUS
  <2>3. next \in [Clients -> 1..(ItemCount + 1)]
    BY <2>2 DEF Init
  <2>4. budget \in [requests : Nat, crashes : Nat]
    BY <2>2 DEF Init
  <2> QED
    BY <2>1, <2>3, <2>4 DEF Init, TypeOK, ItemStatus
<1>2. Recorded /\ Reviewed
  BY DEF Init, Recorded, Reviewed, Dispatches
<1>3. Alone /\ StatusKnown /\ OutcomeKnown /\ SentKnown
  BY DEF Init, Alone, StatusKnown, OutcomeKnown, SentKnown
<1> QED
  BY <1>1, <1>2, <1>3 DEF IInv, Calm

LEMMA DerivedType == \A status : Derived(status) \in {"dispatched", "partial_failed", "failed"}
BY DEF Derived

-----------------------------------------------------------------------------
(* Types.                                                                  *)
LEMMA TypePreserved == IInv /\ [Next]_vars => TypeOK'
<1> SUFFICES ASSUME IInv, [Next]_vars PROVE TypeOK'
  OBVIOUS
<1> USE DEF IInv, TypeOK, Go, rows, locals, history
<1>1. CASE UNCHANGED vars
  BY <1>1 DEF vars
<1>2. ASSUME NEW c \in Clients, ApproveReads(c) \/ DispatchReads(c) PROVE TypeOK'
  <2>1. budget' \in [requests : Nat, crashes : Nat]
    BY <1>2 DEF ApproveReads, DispatchReads, Begin
  <2>2. overlap' \in BOOLEAN
    BY <1>2, Zenon DEF ApproveReads, DispatchReads, Begin
  <2>3. repeats' \in Nat
    BY <1>2 DEF ApproveReads, DispatchReads
  <2>4. pc' \in [Clients -> {"idle", "approving", "validated", "marked", "exporting", "items",
                            "sent", "settling", "finishing"}]
    BY <1>2 DEF ApproveReads, DispatchReads
  <2> QED
    BY <1>2, <2>1, <2>2, <2>3, <2>4 DEF ApproveReads, DispatchReads
<1>3. ASSUME NEW c \in Clients, Proceed(c) PROVE TypeOK'
  <2>1. CASE Approves(c)
    BY <2>1 DEF Approves, JobStatus
  <2>2. CASE Marks(c)
    BY <2>2 DEF Marks, JobStatus
  <2>3. CASE CreatesRun(c)
    BY <2>3 DEF CreatesRun
  <2>4. CASE Exports(c)
    BY <2>4 DEF Exports
  <2>5. CASE Sends(c)
    BY <2>5 DEF Sends
  <2>6. CASE RecordsItem(c)
    BY <2>6 DEF RecordsItem, Flushed, Recorded, Items
  <2>7. CASE Derives(c)
    BY <2>7, DerivedType DEF Derives
  <2>8. CASE Settles(c)
    BY <2>8 DEF Settles, Reviewed, JobStatus
  <2>9. CASE FinishesRun(c)
    BY <2>9 DEF FinishesRun, Leave
  <2> QED
    BY <1>3, <2>1, <2>2, <2>3, <2>4, <2>5, <2>6, <2>7, <2>8, <2>9 DEF Proceed
<1>4. ASSUME NEW c \in Clients, Crash(c) PROVE TypeOK'
  BY <1>4 DEF Crash, Leave
<1> QED
  BY <1>1, <1>2, <1>3, <1>4 DEF Next

-----------------------------------------------------------------------------
(* What holds whatever overlaps.                                           *)

LEMMA RecordedPreserved == IInv /\ [Next]_vars => Recorded'
<1> SUFFICES ASSUME IInv, [Next]_vars PROVE Recorded'
  OBVIOUS
<1> USE DEF IInv, TypeOK, Recorded, Go, rows, locals, history
<1>1. CASE UNCHANGED vars
  BY <1>1 DEF vars
<1>2. ASSUME NEW c \in Clients, ApproveReads(c) \/ DispatchReads(c) PROVE Recorded'
  BY <1>2 DEF ApproveReads, DispatchReads
<1>3. ASSUME NEW c \in Clients, Proceed(c) PROVE Recorded'
  <2>1. CASE Approves(c) \/ Marks(c) \/ CreatesRun(c) \/ Exports(c) \/ Derives(c)
    BY <2>1 DEF Approves, Marks, CreatesRun, Exports, Derives
  <2>2. CASE Sends(c)
    <3>1. \A i \in Items : sent'[i] \in Nat /\ sent'[i] >= sent[i]
      BY <2>2 DEF Sends
    <3>2. \A i \in Items : items'[i] = "dispatched" => sent'[i] > 0
      BY <2>2, <3>1 DEF Sends
    <3>3. next[c] \in Items /\ next' = next /\ result'[c] \in {"dispatched", "failed"}
      BY <2>2 DEF Sends
    <3>4. result'[c] = "dispatched" => sent'[next[c]] > 0
      BY <2>2, <3>3 DEF Sends
    <3>5. \A d \in Clients \ {c} : pc'[d] = pc[d] /\ result'[d] = result[d]
      BY <2>2 DEF Sends
    <3>6. ASSUME NEW d \in Clients \ {c}, pc'[d] = "sent"
          PROVE  next[d] \in Items /\ (result'[d] = "dispatched" => sent'[next[d]] > 0)
                 /\ result'[d] \in ItemStatus
      BY <3>1, <3>5, <3>6
    <3> QED
      BY <3>2, <3>3, <3>4, <3>6 DEF ItemStatus
  <2>3. CASE RecordsItem(c)
    BY <2>3 DEF RecordsItem, Flushed
  <2>4. CASE Settles(c) \/ FinishesRun(c)
    BY <2>4 DEF Settles, FinishesRun, Leave
  <2> QED
    BY <1>3, <2>1, <2>2, <2>3, <2>4 DEF Proceed
<1>4. ASSUME NEW c \in Clients, Crash(c) PROVE Recorded'
  BY <1>4 DEF Crash, Leave
<1> QED
  BY <1>1, <1>2, <1>3, <1>4 DEF Next

LEMMA ReviewedPreserved == IInv /\ [Next]_vars => Reviewed'
<1> SUFFICES ASSUME IInv, [Next]_vars PROVE Reviewed'
  OBVIOUS
<1> USE DEF IInv, TypeOK, Reviewed, Dispatches, Go, rows, locals, history
<1>1. CASE UNCHANGED vars
  BY <1>1 DEF vars
<1>2. ASSUME NEW c \in Clients, ApproveReads(c) \/ DispatchReads(c) PROVE Reviewed'
  BY <1>2 DEF ApproveReads, DispatchReads, Dispatchable
<1>3. ASSUME NEW c \in Clients, Proceed(c) PROVE Reviewed'
  <2>1. CASE Approves(c)
    BY <2>1 DEF Approves
  <2>2. CASE Marks(c) \/ CreatesRun(c) \/ Exports(c)
    BY <2>2 DEF Marks, CreatesRun, Exports
  <2>3. CASE Sends(c) \/ RecordsItem(c)
    BY <2>3 DEF Sends, RecordsItem
  <2>4. CASE Derives(c)
    BY <2>4, DerivedType DEF Derives
  <2>5. CASE Settles(c) \/ FinishesRun(c)
    BY <2>5 DEF Settles, FinishesRun, Leave
  <2> QED
    BY <1>3, <2>1, <2>2, <2>3, <2>4, <2>5 DEF Proceed
<1>4. ASSUME NEW c \in Clients, Crash(c) PROVE Reviewed'
  BY <1>4 DEF Crash, Leave
<1> QED
  BY <1>1, <1>2, <1>3, <1>4 DEF Next

-----------------------------------------------------------------------------
(* What holds while requests keep apart.                                   *)

(* A request that begins and leaves overlap unset finds no other.          *)
LEMMA BeginsAlone ==
    ASSUME NEW c \in Clients, Begin(c), ~overlap'
    PROVE  ~overlap /\ \A d \in Clients : pc[d] = "idle"
BY Zenon DEF Begin

LEMMA CalmPreserved == IInv /\ [Next]_vars => (~overlap' => Calm')
<1> SUFFICES ASSUME IInv, [Next]_vars, ~overlap' PROVE Calm'
  OBVIOUS
<1> USE DEF IInv, TypeOK, Go, rows, locals, history
<1>1. CASE UNCHANGED vars
  BY <1>1 DEF vars, Calm, Alone, StatusKnown, OutcomeKnown, SentKnown, Derived
<1>2. ASSUME NEW c \in Clients, ApproveReads(c) PROVE Calm'
  <2>1. Calm /\ \A d \in Clients : pc[d] = "idle"
    BY <1>2, BeginsAlone DEF ApproveReads
  <2> QED
    BY <1>2, <2>1 DEF ApproveReads, Calm, Alone, StatusKnown, OutcomeKnown, SentKnown, Derived
<1>3. ASSUME NEW c \in Clients, DispatchReads(c) PROVE Calm'
  <2>1. Calm /\ \A d \in Clients : pc[d] = "idle"
    BY <1>3, BeginsAlone DEF DispatchReads
  <2>2. Alone' /\ StatusKnown' /\ OutcomeKnown'
    BY <1>3, <2>1 DEF DispatchReads, Dispatchable, Calm, Alone, StatusKnown, OutcomeKnown, Derived
  <2>3. SentKnown'
    BY <1>3, <2>1 DEF DispatchReads, Dispatchable, Calm, SentKnown
  <2> QED
    BY <2>2, <2>3 DEF Calm
<1>4. ASSUME NEW c \in Clients, Proceed(c) PROVE Calm'
  <2>0. Calm /\ overlap' = overlap
    BY <1>4 DEF Proceed, Approves, Marks, CreatesRun, Exports, Sends, RecordsItem, Derives,
                Settles, FinishesRun
  <2>1. \A d \in Clients \ {c} : pc[d] = "idle" /\ pc'[d] = "idle"
    BY <1>4, <2>0 DEF Calm, Alone, Proceed, Approves, Marks, CreatesRun, Exports, Sends,
                      RecordsItem, Derives, Settles, FinishesRun, Leave
  <2>2. Alone'
    BY <2>1 DEF Alone
  <2> USE DEF Calm, StatusKnown, OutcomeKnown, SentKnown
  <2>3. CASE Approves(c)
    BY <2>0, <2>1, <2>2, <2>3 DEF Approves, Derived
  <2>4. CASE Marks(c)
    BY <2>0, <2>1, <2>2, <2>4 DEF Marks, Derived
  <2>5. CASE CreatesRun(c)
    BY <2>0, <2>1, <2>2, <2>5 DEF CreatesRun, Derived
  <2>6. CASE Exports(c)
    BY <2>0, <2>1, <2>2, <2>6 DEF Exports, Derived
  <2>7. CASE Sends(c)
    <3>1. StatusKnown' /\ OutcomeKnown'
      BY <2>0, <2>1, <2>7 DEF Sends, Derived
    <3>2. SentKnown'
      <4>1. job' = job /\ next' = next /\ repeats' = repeats /\ job.status = "dispatching"
        BY <2>0, <2>7 DEF Sends
      <4>2. \A i \in Items \ {next[c]} : sent'[i] = sent[i]
        BY <2>7 DEF Sends
      <4>3. next[c] \in Items /\ sent[next[c]] <= repeats
        BY <2>0, <2>7 DEF Sends, Items
      <4>4. sent'[next[c]] <= repeats + 1
        BY <2>7, <4>3 DEF Sends
      <4>5. \A i \in Items : i > next[c] => sent'[i] <= repeats
        BY <2>0, <2>7, <4>2, <4>3 DEF Sends, Items
      <4>6. \A i \in Items : sent'[i] <= repeats + 1
        BY <2>0, <4>2, <4>4
      <4>7. pc'[c] = "sent" /\ \A d \in Clients \ {c} : pc'[d] = "idle"
        BY <2>1, <2>7 DEF Sends
      <4> QED
        BY <4>1, <4>5, <4>6, <4>7
    <3> QED
      BY <2>2, <3>1, <3>2
  <2>8. CASE RecordsItem(c)
    <3>1. StatusKnown' /\ OutcomeKnown'
      BY <2>0, <2>1, <2>8 DEF RecordsItem
    <3>2. SentKnown'
      BY <2>0, <2>1, <2>8 DEF RecordsItem, Items
    <3> QED
      BY <2>2, <3>1, <3>2
  <2>9. CASE Derives(c)
    <3>1. Derived(items)' = Derived(items)
      BY <2>9 DEF Derives, Derived
    <3> QED
      BY <2>0, <2>1, <2>2, <2>9, <3>1, DerivedType DEF Derives
  <2>10. CASE Settles(c)
    <3>1. Derived(items)' = Derived(items)
      BY <2>10 DEF Settles, Derived
    <3> QED
      BY <2>0, <2>1, <2>2, <2>10, <3>1, DerivedType DEF Settles
  <2>11. CASE FinishesRun(c)
    BY <2>0, <2>1, <2>2, <2>11 DEF FinishesRun, Leave, Derived
  <2> QED
    BY <1>4, <2>3, <2>4, <2>5, <2>6, <2>7, <2>8, <2>9, <2>10, <2>11 DEF Proceed
<1>5. ASSUME NEW c \in Clients, Crash(c) PROVE Calm'
  BY <1>5 DEF Crash, Leave, Calm, Alone, StatusKnown, OutcomeKnown, SentKnown, Derived
<1> QED
  BY <1>1, <1>2, <1>3, <1>4, <1>5 DEF Next

-----------------------------------------------------------------------------
THEOREM Invariance == Spec => []IInv
<1>1. IInv /\ [Next]_vars => IInv'
  BY TypePreserved, RecordedPreserved, ReviewedPreserved, CalmPreserved DEF IInv
<1> QED
  BY <1>1, InitEstablishesIInv, PTL DEF Spec

(* Type correctness of the job, its items and the requests.                *)
THEOREM TypeCorrect == Spec => []TypeOK
<1>1. IInv => TypeOK
  BY DEF IInv
<1> QED
  BY <1>1, Invariance, PTL

(* Nothing is sent before the review, no item is called dispatched that    *)
(* the connector has not accepted, and while requests keep apart the job   *)
(* tells what its items tell and sends none twice in one dispatch.         *)
THEOREM JobsTellTheirItems == Spec => []JobTellsItems
<1>1. IInv => JobTellsItems
  BY DEF IInv, Calm, Recorded, Reviewed, OutcomeKnown, SentKnown, JobTellsItems
<1> QED
  BY <1>1, Invariance, PTL

-----------------------------------------------------------------------------
(* The job implements DeliveryFlow while requests keep apart.              *)
LEMMA StepFollows == IInv /\ [Next]_vars => [~overlap' => DF!Next]_DF!vars
<1> SUFFICES ASSUME IInv, [Next]_vars, ~overlap', job'.status # job.status PROVE DF!Next
  BY DEF DF!vars
<1> USE DEF IInv, TypeOK, Calm, StatusKnown, Go, rows, locals, history
<1>1. PICK c \in Clients : Approves(c) \/ Marks(c) \/ Settles(c)
  BY DEF Next, ApproveReads, DispatchReads, Proceed, CreatesRun, Exports, Sends, RecordsItem,
         Derives, FinishesRun, Crash, vars
<1>2. ~overlap
  BY <1>1 DEF Approves, Marks, Settles
<1>3. CASE Approves(c)
  BY <1>2, <1>3 DEF Approves, DF!Next, DF!Approve
<1>4. CASE Marks(c)
  BY <1>2, <1>4 DEF Marks, DF!Next, DF!Dispatch
<1>5. CASE Settles(c)
  BY <1>2, <1>5, DerivedType DEF Settles, OutcomeKnown, DF!Next, DF!End
<1> QED
  BY <1>1, <1>3, <1>4, <1>5

(* Approval, dispatch and end of a job follow the promised flow in every   *)
(* step that no overlap of requests precedes, whatever crashes.            *)
THEOREM FlowIsFollowed == Spec => DF!Init /\ [][~overlap' => DF!Next]_DF!vars
<1>1. Init => DF!Init
  BY DEF Init, DF!Init
<1> QED
  BY <1>1, StepFollows, Invariance, PTL DEF Spec

-----------------------------------------------------------------------------
(* A job that is dispatching has a request at work that will write another *)
(* status there, unless a request has died.                                *)

WillSettle(c) ==
    \/ pc[c] \in {"marked", "exporting", "items", "sent"}
    \/ pc[c] = "settling" /\ result[c] # known[c]

DispatchingIsWorkedOn ==
    job.status = "dispatching" => Crashed \/ \E c \in Clients : WillSettle(c)

CrashesCounted == budget.crashes <= MaxCrashes

LEMMA CrashesStayCounted == IInv /\ CrashesCounted /\ [Next]_vars => CrashesCounted'
BY DEF IInv, TypeOK, CrashesCounted, Next, vars, ApproveReads, DispatchReads, Begin, Proceed,
       Approves, Marks, CreatesRun, Exports, Sends, RecordsItem, Derives, Settles, FinishesRun,
       Crash, history

LEMMA WorkIsPassedOn ==
    IInv /\ CrashesCounted /\ DispatchingIsWorkedOn /\ [Next]_vars => DispatchingIsWorkedOn'
<1> SUFFICES ASSUME IInv, CrashesCounted, DispatchingIsWorkedOn, [Next]_vars,
                    job'.status = "dispatching", ~Crashed'
             PROVE  \E c \in Clients : WillSettle(c)'
  BY DEF DispatchingIsWorkedOn
<1> USE DEF IInv, TypeOK, Go, rows, locals, history
<1>1. ASSUME NEW d \in Clients, WillSettle(d), job.status = "dispatching",
             UNCHANGED <<pc[d], result[d], known[d]>>
      PROVE  \E c \in Clients : WillSettle(c)'
  BY <1>1 DEF WillSettle
<1>2. CASE UNCHANGED vars
  BY <1>1, <1>2 DEF vars, DispatchingIsWorkedOn, Crashed
<1>3. ASSUME NEW c \in Clients, Marks(c) PROVE WillSettle(c)'
  BY <1>3 DEF Marks, WillSettle
<1>4. ASSUME NEW c \in Clients, ApproveReads(c) \/ DispatchReads(c) \/ Proceed(c) \/ Crash(c),
             ~Marks(c)
      PROVE  \E d \in Clients : WillSettle(d)'
  <2>1. job.status = "dispatching" /\ ~Crash(c) /\ ~Approves(c)
    <3>1. Crash(c) => Crashed'
      BY DEF Crash, Crashed, CrashesCounted
    <3> QED
      BY <1>4, <3>1 DEF ApproveReads, DispatchReads, Proceed, Approves, CreatesRun, Exports,
                        Sends, RecordsItem, Derives, Settles, FinishesRun
  <2>2. ~Crashed
    BY <1>4, <2>1 DEF ApproveReads, DispatchReads, Begin, Proceed, CreatesRun, Exports,
                      Sends, RecordsItem, Derives, Settles, FinishesRun, Crashed
  <2>3. PICK d \in Clients : WillSettle(d)
    BY <2>1, <2>2 DEF DispatchingIsWorkedOn
  <2>4. CASE c # d
    <3>1. UNCHANGED <<pc[d], result[d], known[d]>>
      BY <1>4, <2>1, <2>4 DEF ApproveReads, DispatchReads, Proceed, CreatesRun, Exports,
                        Sends, RecordsItem, Derives, Settles, FinishesRun, Leave
    <3> QED
      BY <1>1, <2>1, <2>3, <3>1
  <2>5. CASE c = d
    <3>1. CASE Derives(c)
      <4>1. known'[c] = "dispatching" /\ result'[c] # "dispatching" /\ pc'[c] = "settling"
        BY <2>1, <3>1, DerivedType DEF Derives
      <4> QED
        BY <4>1 DEF WillSettle
    <3>2. CASE Settles(c)
      BY <2>1, <2>3, <2>5, <3>2 DEF Settles, WillSettle
    <3>3. CASE CreatesRun(c) \/ Exports(c) \/ Sends(c) \/ RecordsItem(c)
      BY <3>3 DEF CreatesRun, Exports, Sends, RecordsItem, WillSettle
    <3> QED
      BY <1>4, <2>1, <2>3, <2>5, <3>1, <3>2, <3>3
      DEF WillSettle, ApproveReads, DispatchReads, Begin, Proceed, FinishesRun
  <2> QED
    BY <2>4, <2>5
<1> QED
  BY <1>2, <1>3, <1>4 DEF Next

(* However dispatches of a job overlap, it is not left dispatching: the    *)
(* skipped write of an unchanged status, the exception clause and the      *)
(* dispatch that comes last all leave someone who settles it.              *)
THEOREM NoJobIsForgotten == Spec => []DispatchingIsWorkedOn
<1>1. Init => DispatchingIsWorkedOn /\ CrashesCounted
  BY DEF Init, DispatchingIsWorkedOn, CrashesCounted
<1> QED
  BY <1>1, WorkIsPassedOn, CrashesStayCounted, Invariance, PTL DEF Spec

-----------------------------------------------------------------------------
(* How many steps a request still has before it.                           *)

ItemSteps(c) == IF pc[c] \in {"items", "sent"} THEN 2 * (ItemCount + 1 - next[c])
                ELSE IF pc[c] \in {"validated", "marked", "exporting"} THEN 2 * ItemCount ELSE 0
OtherSteps == [idle |-> 0, approving |-> 1, finishing |-> 1, settling |-> 2, sent |-> 2,
               items |-> 3, exporting |-> 4, marked |-> 5, validated |-> 6]
StepsLeft(c) == ItemSteps(c) + OtherSteps[pc[c]]

(* Every step of a request leaves fewer of them, and neither other         *)
(* requests nor crashes add any to a request that has begun.               *)
RequestsComeToAnEnd ==
    [][\A c \in Clients : pc[c] # "idle" =>
          /\ StepsLeft(c) \in 1..(2 * ItemCount + 6)
          /\ StepsLeft(c)' \in 0..StepsLeft(c)
          /\ Proceed(c) => StepsLeft(c)' < StepsLeft(c)]_vars

LEMMA StepsAreCounted ==
    ASSUME TypeOK, TypeOK', NEW c \in Clients
    PROVE  /\ pc[c] # "idle" => StepsLeft(c) \in 1..(2 * ItemCount + 6)
           /\ {StepsLeft(c), StepsLeft(c)'} \subseteq Nat
<1>1. ItemSteps(c) \in 0..(2 * ItemCount) /\ ItemSteps(c)' \in Nat
  BY DEF TypeOK, ItemSteps
<1>2. /\ OtherSteps[pc[c]] \in 0..6 /\ OtherSteps[pc'[c]] \in Nat
      /\ pc[c] # "idle" => OtherSteps[pc[c]] > 0
  BY DEF TypeOK, OtherSteps
<1> QED
  BY <1>1, <1>2 DEF StepsLeft

LEMMA ProceedLeavesFewer ==
    ASSUME IInv, IInv', NEW c \in Clients, Proceed(c)
    PROVE  StepsLeft(c)' < StepsLeft(c)
<1> USE DEF IInv, TypeOK, Go, rows, locals, history, StepsLeft, ItemSteps, OtherSteps
<1>1. CASE Approves(c) \/ Marks(c) \/ CreatesRun(c)
  BY <1>1 DEF Approves, Marks, CreatesRun
<1>2. CASE Exports(c)
  BY <1>2 DEF Exports
<1>3. CASE Sends(c)
  BY <1>3 DEF Sends, Items
<1>4. CASE RecordsItem(c)
  BY <1>4 DEF RecordsItem
<1>5. CASE Derives(c)
  BY <1>5 DEF Derives
<1>6. CASE Settles(c) \/ FinishesRun(c)
  BY <1>6 DEF Settles, FinishesRun, Leave
<1> QED
  BY <1>1, <1>2, <1>3, <1>4, <1>5, <1>6 DEF Proceed

(* A request visits each item once and passes every other position once,   *)
(* so with the fairness of Spec it ends; with NoJobIsForgotten, no job     *)
(* stays dispatching.                                                      *)
THEOREM EveryRequestIsShort == Spec => RequestsComeToAnEnd
<1>1. ASSUME IInv, IInv', [Next]_vars, NEW c \in Clients, pc[c] # "idle"
      PROVE  /\ StepsLeft(c) \in 1..(2 * ItemCount + 6)
             /\ StepsLeft(c)' \in 0..StepsLeft(c)
             /\ Proceed(c) => StepsLeft(c)' < StepsLeft(c)
  <2>1. StepsLeft(c) \in 1..(2 * ItemCount + 6) /\ StepsLeft(c)' \in Nat
    BY <1>1, StepsAreCounted DEF IInv
  <2>2. CASE Proceed(c)
    BY <1>1, <2>1, <2>2, ProceedLeavesFewer
  <2>3. CASE Crash(c)
    <3>1. StepsLeft(c)' = 0
      BY <1>1, <2>3 DEF Crash, Leave, Go, StepsLeft, ItemSteps, OtherSteps, IInv, TypeOK
    <3> QED
      BY <2>1, <3>1
  <2>4. CASE ~Proceed(c) /\ ~Crash(c)
    <3>1. pc'[c] = pc[c] /\ next'[c] = next[c]
      BY <1>1, <2>4 DEF Next, ApproveReads, DispatchReads, Begin, Proceed, Approves, Marks,
         CreatesRun, Exports, Sends, RecordsItem, Derives, Settles, FinishesRun, Crash, Leave,
         Go, IInv, TypeOK, rows, locals, history, vars
    <3> QED
      BY <2>1, <2>4, <3>1 DEF StepsLeft, ItemSteps
  <2> QED
    BY <2>1, <2>2, <2>3, <2>4
<1>2. IInv /\ IInv' /\ [Next]_vars =>
        [\A c \in Clients : pc[c] # "idle" =>
            /\ StepsLeft(c) \in 1..(2 * ItemCount + 6)
            /\ StepsLeft(c)' \in 0..StepsLeft(c)
            /\ Proceed(c) => StepsLeft(c)' < StepsLeft(c)]_vars
  BY <1>1
<1> QED
  BY <1>2, Invariance, PTL DEF Spec, RequestsComeToAnEnd
=============================================================================
