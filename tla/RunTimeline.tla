---------------------------- MODULE RunTimeline ----------------------------
(***************************************************************************)
(* RunEventRecorder: the append-only timeline of a run that clients poll   *)
(* with after_sequence (packages/research_gateway/events.py).  An event    *)
(* gets the number after the highest one stored; on PostgreSQL the row of  *)
(* the run is locked from that reading to the commit, on SQLite it is not. *)
(* record() fails open: an event that cannot be stored is dropped.         *)
(***************************************************************************)
EXTENDS RunRow

CONSTANTS Creator, Canceller    \* the requests that record events of the run

ASSUME TimelineAssumption ==
    Creator \notin Executions /\ Canceller \notin Executions /\ Creator # Canceller

Writers == Executions \cup {Creator, Canceller}

VARIABLES
    taken,      \* sequence numbers in run_events
    rows,       \* number of rows in run_events
    number,     \* the sequence each writer is about to insert, 0 if none
    refused     \* history: has the unique constraint refused a row?

timeline == <<taken, rows, number, refused>>

InitTimeline ==
    /\ taken = {}
    /\ rows = 0
    /\ number = [w \in Writers |-> 0]
    /\ refused = FALSE

TimelineTypeOK ==
    /\ taken \subseteq Nat
    /\ rows \in Nat
    /\ number \in [Writers -> Nat]
    /\ refused \in BOOLEAN

-----------------------------------------------------------------------------

NeverLocked == TRUE
(* No transaction holds the FOR UPDATE lock on the row of the run.         *)
Unlocked == dialect = "postgresql" => \A w \in Writers : number[w] = 0

(* SELECT max(sequence), 0 when there is no event.                         *)
Latest == IF taken = {} THEN 0 ELSE CHOOSE n \in taken : \A m \in taken : m <= n

Allocate(w) ==
    /\ number[w] = 0
    /\ Unlocked
    /\ number' = [number EXCEPT ![w] = Latest + 1]
    /\ UNCHANGED <<taken, rows, refused>>

(* UNIQUE (run_id, sequence).                                              *)
Admits(n) == n \notin taken

Insert(w) ==
    /\ number[w] # 0
    /\ IF Admits(number[w])
       THEN taken' = taken \cup {number[w]} /\ rows' = rows + 1 /\ UNCHANGED refused
       ELSE refused' = TRUE /\ UNCHANGED <<taken, rows>>
    /\ number' = [number EXCEPT ![w] = 0]

(* The transaction is rolled back: the database failed, or the writer died.*)
Abandon(w) ==
    /\ number' = [number EXCEPT ![w] = 0]
    /\ UNCHANGED <<taken, rows, refused>>

(* record() returns: the row is stored, refused by the constraint, or lost *)
(* to a failure that is only logged.                                       *)
Recorded(w) ==
    \/ Insert(w) /\ UNCHANGED accidents
    \/ Abandon(w) /\ number[w] # 0 /\ Fault
=============================================================================
