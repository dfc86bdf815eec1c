-------------------------- MODULE IngestionProofs --------------------------
(***************************************************************************)
(* Theorems about Ingestion for every number of ingestions, every number   *)
(* of chunks they cut and any number of crashes.  That the chunks stay     *)
(* whole is not inductive: IInv adds what each ingestion has selected for  *)
(* deletion (nothing, or all chunks of one ingestion), that one ingestion  *)
(* at a time is about to commit, and that it then has selected every chunk *)
(* there is.                                                               *)
(***************************************************************************)
EXTENDS Ingestion, TLAPS

Whole(set) == set = {} \/ \E i \in Ingestions : set = ChunksOf(i)

SelectionsAreWhole == \A i \in Ingestions : Whole(found[i])

CommitsAlone ==
    \A i, j \in Ingestions : pc[i] = "committing" /\ pc[j] = "committing" => i = j

CommitReplacesAll == \A i \in Ingestions : pc[i] = "committing" => chunks \subseteq found[i]

EndedWithChunks ==
    \A i \in Ingestions : pc[i] = "finishing" => chunks # {}

IInv ==
    /\ TypeOK
    /\ ChunksAreWhole
    /\ SelectionsAreWhole
    /\ CommitsAlone
    /\ CommitReplacesAll
    /\ EndedWithChunks

USE IngestionAssumption

-----------------------------------------------------------------------------
(* The chunks of an ingestion: there is a first one, and it is its own.    *)
LEMMA FirstChunk ==
    ASSUME NEW i \in Ingestions
    PROVE  <<0, i>> \in ChunksOf(i)
BY DEF ChunksOf

LEMMA OwnChunks ==
    ASSUME NEW i, NEW j, NEW chunk \in ChunksOf(i), chunk \in ChunksOf(j)
    PROVE  i = j
BY DEF ChunksOf

(* An ingestion that finds no conflict has selected every chunk: of those  *)
(* of another it would meet the first.                                     *)
LEMMA NoConflictMeansAllFound ==
    ASSUME NEW i \in Ingestions, Whole(chunks), Whole(found[i]), ~Conflicts(i)
    PROVE  chunks \subseteq found[i]
<1> SUFFICES ASSUME NEW k \in Ingestions, chunks = ChunksOf(k), chunks # found[i] PROVE FALSE
  BY DEF Whole
<1>1. <<0, k>> \in chunks
  BY FirstChunk
<1>2. <<0, k>> \notin found[i]
  <2> SUFFICES ASSUME NEW j \in Ingestions, found[i] = ChunksOf(j), <<0, k>> \in found[i]
               PROVE  FALSE
    BY DEF Whole
  <2>1. j = k
    BY <1>1, OwnChunks
  <2> QED
    BY <2>1
<1>3. 0 < Count[i]
  OBVIOUS
<1> QED
  BY <1>1, <1>2, <1>3 DEF Conflicts

-----------------------------------------------------------------------------
LEMMA InitEstablishesIInv == Init => IInv
BY DEF Init, IInv, TypeOK, ChunksAreWhole, SelectionsAreWhole, Whole, CommitsAlone,
       CommitReplacesAll, EndedWithChunks

LEMMA StepPreservesIInv == IInv /\ [Next]_vars => IInv'
<1> SUFFICES ASSUME IInv, [Next]_vars PROVE IInv'
  OBVIOUS
<1> USE DEF IInv, Go, SetRun, locals
<1>0. CASE UNCHANGED vars
  BY <1>0 DEF vars, TypeOK, ChunksAreWhole, SelectionsAreWhole, Whole, CommitsAlone,
              CommitReplacesAll, EndedWithChunks
<1> SUFFICES ASSUME NEW i \in Ingestions, Begin(i) \/ Proceed(i) \/ Crash(i) PROVE IInv'
  BY <1>0 DEF Next
<1> USE DEF TypeOK, ChunksAreWhole, SelectionsAreWhole, Whole, CommitsAlone, CommitReplacesAll,
            EndedWithChunks
<1>1. CASE Begin(i)
  BY <1>1 DEF Begin
<1>2. CASE FindDocument(i)
  BY <1>2 DEF FindDocument
<1>3. CASE CreateDocument(i)
  <2>1. CASE doc = "none"
    BY <1>3, <2>1 DEF CreateDocument
  <2>2. CASE doc # "none"
    BY <1>3, <2>2 DEF CreateDocument, Leave
  <2> QED
    BY <2>1, <2>2
<1>4. CASE Parse(i)
  BY <1>4 DEF Parse
<1>5. CASE SelectChunks(i)
  BY <1>5 DEF SelectChunks
<1>6. CASE DeleteChunks(i)
  BY <1>6 DEF DeleteChunks
<1>7. CASE InsertChunks(i)
  <2>1. CASE Conflicts(i)
    BY <1>7, <2>1 DEF InsertChunks, Leave
  <2>2. CASE ~Conflicts(i)
    <3>1. chunks \subseteq found[i]
      BY <2>2, NoConflictMeansAllFound
    <3>2. \A j \in Ingestions \ {i} : pc[j] # "committing"
      BY <1>7 DEF InsertChunks, Holding
    <3> QED
      BY <1>7, <2>2, <3>1, <3>2 DEF InsertChunks
  <2> QED
    BY <2>1, <2>2
<1>8. CASE Commit(i)
  <2>1. chunks' = ChunksOf(i) /\ chunks' # {}
    BY <1>8, FirstChunk DEF Commit, Replaced
  <2>2. \A j \in Ingestions : pc'[j] # "committing"
    BY <1>8 DEF Commit, Leave
  <2> QED
    BY <1>8, <2>1, <2>2 DEF Commit, Leave
<1>9. CASE FinishRun(i)
  BY <1>9 DEF FinishRun
<1>10. CASE Fail(i)
  BY <1>10 DEF Fail
<1>11. CASE Crash(i)
  BY <1>11 DEF Crash, Leave
<1> QED
  BY <1>1, <1>2, <1>3, <1>4, <1>5, <1>6, <1>7, <1>8, <1>9, <1>10, <1>11 DEF Proceed

-----------------------------------------------------------------------------
THEOREM Invariance == Spec => []IInv
BY InitEstablishesIInv, StepPreservesIInv, PTL DEF Spec

(* Type correctness of the document, its chunks and the ingestions.        *)
THEOREM TypeCorrect == Spec => []TypeOK
<1>1. IInv => TypeOK
  BY DEF IInv
<1> QED
  BY <1>1, Invariance, PTL

(* Concurrent ingestions that lock nothing leave all chunks of one of them *)
(* and none of another, and an indexed document and a succeeded run have   *)
(* some.                                                                   *)
THEOREM ChunksStayWhole == Spec => []ChunksAreWhole
<1>1. IInv => ChunksAreWhole
  BY DEF IInv
<1> QED
  BY <1>1, Invariance, PTL

-----------------------------------------------------------------------------
(* Who waits for whom.  A transaction waits for rows that another has      *)
(* deleted, or for indexes that another has inserted or deleted; the       *)
(* disjuncts are the negated guards of DeleteChunks and InsertChunks.      *)

WaitsFor(i, j) ==
    /\ j \in Holding \ {i}
    /\ \/ pc[i] = "deleting" /\ found[i] \cap found[j] \cap chunks # {}
       \/ pc[i] = "inserting" /\ (pc[j] = "committing" \/ found[j] \cap chunks # {})

(* Who waits for nobody passes the guards of both.                         *)
LEMMA WaitsAreTheGuards ==
    ASSUME TypeOK, NEW i \in Ingestions, \A j \in Ingestions : ~WaitsFor(i, j)
    PROVE  /\ pc[i] = "deleting" => ~Waits(i)
           /\ pc[i] = "inserting" =>
                 \A j \in Holding \ {i} : pc[j] = "inserting" /\ found[j] \cap chunks = {}
BY DEF WaitsFor, Waits, Holding, TypeOK

NobodyWaitsForAWaiter ==
    \A i, j, k \in Ingestions : ~(WaitsFor(i, j) /\ WaitsFor(j, k))

(* At most one transaction has deleted chunks that are there, and whoever  *)
(* is about to commit has deleted them all.                                *)
OneHolder ==
    \A j, k \in Holding :
        j # k /\ found[k] \cap chunks # {} => pc[j] # "committing" /\ found[j] \cap chunks = {}

(* Nobody has seen the chunks of an ingestion that has not committed, so   *)
(* what a commit brings has been deleted by nobody.                        *)
SeenOnceCommitted ==
    \A i \in Ingestions : pc[i] \notin {"finishing", "done", "crashed"} =>
        /\ chunks \cap ChunksOf(i) = {}
        /\ \A j \in Ingestions : found[j] \cap ChunksOf(i) = {}

WInv == OneHolder /\ SeenOnceCommitted

LEMMA StepPreservesWInv == IInv /\ IInv' /\ WInv /\ [Next]_vars => WInv'
<1> SUFFICES ASSUME IInv, IInv', WInv, [Next]_vars PROVE WInv'
  OBVIOUS
<1> USE DEF WInv, Go, SetRun, locals, TypeOK
<1>0. CASE UNCHANGED vars
  BY <1>0 DEF vars, OneHolder, SeenOnceCommitted, Holding
<1> SUFFICES ASSUME NEW i \in Ingestions, Begin(i) \/ Proceed(i) \/ Crash(i) PROVE WInv'
  BY <1>0 DEF Next
<1>1. ASSUME UNCHANGED chunks, \A j \in Ingestions \ {i} : pc'[j] = pc[j] /\ found'[j] = found[j],
             pc'[i] \notin {"inserting", "committing"}, found'[i] \in {found[i], {}, chunks},
             pc[i] \notin {"finishing", "done", "crashed"}
                \/ pc'[i] \in {"finishing", "done", "crashed"}
      PROVE  WInv'
  <2>1. OneHolder'
    BY <1>1 DEF OneHolder, Holding
  <2>2. SeenOnceCommitted'
    BY <1>1 DEF SeenOnceCommitted
  <2> QED
    BY <2>1, <2>2
<1>2. CASE Begin(i) \/ FindDocument(i) \/ Parse(i) \/ SelectChunks(i) \/ FinishRun(i) \/ Fail(i)
  BY <1>1, <1>2 DEF IInv, Begin, FindDocument, Parse, SelectChunks, FinishRun, Fail
<1>3. CASE CreateDocument(i) \/ Crash(i)
  BY <1>1, <1>3 DEF IInv, CreateDocument, Leave, Crash
<1>4. CASE DeleteChunks(i)
  <2>1. /\ \A j \in Holding \ {i} : found[i] \cap found[j] \cap chunks = {}
        /\ pc' = [pc EXCEPT ![i] = "inserting"] /\ UNCHANGED <<chunks, found>> /\ pc[i] = "deleting"
    BY <1>4 DEF DeleteChunks, Waits
  <2>2. ASSUME NEW j \in Holding \ {i}
        PROVE  /\ found[j] \cap chunks # {} => found[i] \cap chunks = {}
               /\ pc[j] = "committing" => found[i] \cap chunks = {}
    <3>1. Whole(found[i]) /\ Whole(found[j]) /\ Whole(chunks)
      BY DEF IInv, SelectionsAreWhole, ChunksAreWhole, Whole, Holding
    <3>2. CASE found[j] \cap chunks # {}
      BY <2>1, <3>1, <3>2, OwnChunks DEF Whole
    <3>3. CASE pc[j] = "committing"
      BY <2>1, <3>3 DEF IInv, CommitReplacesAll, Holding
    <3> QED
      BY <3>2, <3>3
  <2>3. Holding' = Holding \cup {i} /\ i \notin Holding
    BY <2>1 DEF Holding, IInv
  <2>4. OneHolder'
    BY <2>1, <2>2, <2>3 DEF OneHolder, Holding, IInv
  <2>5. SeenOnceCommitted'
    BY <2>1 DEF SeenOnceCommitted, IInv
  <2> QED
    BY <2>4, <2>5
<1>5. CASE InsertChunks(i)
  <2>1. CASE Conflicts(i)
    BY <1>1, <1>5, <2>1 DEF IInv, InsertChunks, Leave
  <2>2. CASE ~Conflicts(i)
    <3>1. /\ pc' = [pc EXCEPT ![i] = "committing"] /\ UNCHANGED <<chunks, found>>
          /\ pc[i] = "inserting"
          /\ \A j \in Holding \ {i} : found[j] \cap chunks = {}
      BY <1>5, <2>2 DEF InsertChunks
    <3>2. OneHolder'
      BY <3>1 DEF OneHolder, Holding, IInv
    <3>3. SeenOnceCommitted'
      BY <3>1 DEF SeenOnceCommitted, IInv
    <3> QED
      BY <3>2, <3>3
  <2> QED
    BY <2>1, <2>2
<1>6. CASE Commit(i)
  <2>1. /\ pc[i] = "committing" /\ pc' = [pc EXCEPT ![i] = "finishing"]
        /\ found' = [found EXCEPT ![i] = {}] /\ chunks' = ChunksOf(i)
    BY <1>6 DEF Commit, Leave, Replaced, IInv, CommitReplacesAll
  <2>2. \A j \in Ingestions : found'[j] \cap chunks' = {}
    BY <2>1 DEF SeenOnceCommitted, IInv
  <2>3. OneHolder'
    BY <2>2 DEF OneHolder, Holding
  <2>4. SeenOnceCommitted'
    BY <2>1, OwnChunks DEF SeenOnceCommitted, IInv
  <2> QED
    BY <2>3, <2>4
<1> QED
  BY <1>2, <1>3, <1>4, <1>5, <1>6 DEF Proceed

(* Transactions wait in one direction only: whoever is waited for does not *)
(* wait himself, however many ingestions replace the same chunks.  So no   *)
(* circle of waiting rows or indexes can form, and while an ingestion has  *)
(* not ended there is one that may go on.                                  *)
THEOREM NoDeadlock == Spec => []NobodyWaitsForAWaiter
<1>1. Init => WInv
  BY DEF Init, WInv, OneHolder, SeenOnceCommitted, Holding
<1>2. IInv /\ WInv => NobodyWaitsForAWaiter
  <2> SUFFICES ASSUME IInv, WInv, NEW i \in Ingestions, NEW j \in Ingestions,
                      NEW k \in Ingestions, WaitsFor(i, j), WaitsFor(j, k)
               PROVE  FALSE
    BY DEF NobodyWaitsForAWaiter
  <2>1. j \in Holding /\ k \in Holding /\ j # k /\ pc[j] = "inserting"
    BY DEF WaitsFor, Holding
  <2>2. found[j] \cap chunks # {}
    BY <2>1 DEF WaitsFor
  <2>3. pc[k] # "committing" /\ found[k] \cap chunks = {}
    BY <2>1, <2>2 DEF WInv, OneHolder
  <2> QED
    BY <2>1, <2>3 DEF WaitsFor
<1> QED
  BY <1>1, <1>2, StepPreservesWInv, Invariance, PTL DEF Spec

-----------------------------------------------------------------------------
(* How many steps an ingestion still has before it, and that none is added *)
(* to one that has begun.                                                  *)

StepsLeft == [idle |-> 0, done |-> 0, crashed |-> 0, finishing |-> 1, failing |-> 1,
              committing |-> 2, inserting |-> 3, deleting |-> 4, chunking |-> 5,
              parsing |-> 6, creating |-> 7, storing |-> 8]

IngestionsComeToAnEnd ==
    [][\A i \in Ingestions : pc[i] # "idle" =>
          /\ StepsLeft[pc'[i]] <= StepsLeft[pc[i]]
          /\ Proceed(i) => StepsLeft[pc'[i]] < StepsLeft[pc[i]]]_vars

(* An ingestion has at most eight steps and never goes back, so one that   *)
(* waits does so for a transaction that by NoDeadlock does not wait itself *)
(* and by the fairness of Spec ends.                                       *)
THEOREM EveryIngestionIsShort == Spec => IngestionsComeToAnEnd
<1>1. ASSUME IInv, [Next]_vars, NEW i \in Ingestions, pc[i] # "idle"
      PROVE  /\ StepsLeft[pc'[i]] <= StepsLeft[pc[i]]
             /\ Proceed(i) => StepsLeft[pc'[i]] < StepsLeft[pc[i]]
  <2> USE <1>1 DEF IInv, TypeOK, Go, StepsLeft
  <2>1. CASE Proceed(i)
    BY <2>1 DEF Proceed, FindDocument, CreateDocument, Parse, SelectChunks, DeleteChunks,
                InsertChunks, Commit, FinishRun, Fail, Leave
  <2>2. CASE ~Proceed(i)
    <3>1. pc'[i] \in {pc[i], "crashed"}
      BY <2>2 DEF Next, vars, locals, Begin, Crash, Proceed, FindDocument, CreateDocument, Parse,
                  SelectChunks, DeleteChunks, InsertChunks, Commit, FinishRun, Fail, Leave
    <3> QED
      BY <2>2, <3>1
  <2> QED
    BY <2>1, <2>2
<1>2. IInv /\ [Next]_vars =>
        [\A i \in Ingestions : pc[i] # "idle" =>
            /\ StepsLeft[pc'[i]] <= StepsLeft[pc[i]]
            /\ Proceed(i) => StepsLeft[pc'[i]] < StepsLeft[pc[i]]]_vars
  BY <1>1
<1> QED
  BY <1>2, Invariance, PTL DEF Spec, IngestionsComeToAnEnd
=============================================================================
