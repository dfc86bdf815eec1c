---------------------------- MODULE FencingToken ----------------------------
(***************************************************************************)
(* What the execution plane promises about results, without workers,       *)
(* leases or sweeps: the right to execute a task is granted with a token   *)
(* that grows by one, a result is published only under the token granted   *)
(* last, and once a result is out a further execution is granted only      *)
(* after somebody asked for it.                                            *)
(***************************************************************************)
EXTENDS Integers

CONSTANT Tasks

VARIABLES
    token,      \* the token granted last, 0 before the first grant
    published,  \* the token under which the result was published, 0 if none
    open,       \* may (another) execution be granted?
    asked       \* how often another execution was asked for

vars == <<token, published, open, asked>>

Init ==
    /\ token = [t \in Tasks |-> 0]
    /\ published = [t \in Tasks |-> 0]
    /\ open \in [Tasks -> BOOLEAN]
    /\ asked \in [Tasks -> Nat]

Grant(t) ==
    /\ open[t]
    /\ token' = [token EXCEPT ![t] = @ + 1]
    /\ UNCHANGED <<published, open, asked>>

(* A result closes the task to further executions ...                      *)
Publish(t) ==
    /\ token[t] > 0
    /\ published' = [published EXCEPT ![t] = token[t]]
    /\ open' = [open EXCEPT ![t] = FALSE]
    /\ UNCHANGED <<token, asked>>

(* ... until another is asked for, which may be withdrawn.                 *)
Ask(t) ==
    /\ asked' = [asked EXCEPT ![t] = @ + 1]
    /\ open' = [open EXCEPT ![t] = TRUE]
    /\ UNCHANGED <<token, published>>

Withdraw(t) ==
    /\ open' = [open EXCEPT ![t] = FALSE]
    /\ UNCHANGED <<token, published, asked>>

Next == \E t \in Tasks : Grant(t) \/ Publish(t) \/ Ask(t) \/ Withdraw(t)

Spec == Init /\ [][Next]_vars
=============================================================================
