----------------------------- MODULE JobPromise -----------------------------
(***************************************************************************)
(* What the job table of a tenant promises to whoever enqueues a job,      *)
(* whatever replicas, crashes and lost connections lie below it: all the   *)
(* writes of a job appear together, once, in the step that completes it; a *)
(* failed attempt leaves none of them; a job that is over stays over.      *)
(***************************************************************************)
EXTENDS Naturals

CONSTANTS Job, Part, LastAttempt

VARIABLES
    state,      \* "absent", "pending", "completed" or "failed"
    tries,      \* attempts that were made
    seen        \* how many times each part of the job's work is in the data

promiseVars == <<state, tries, seen>>

PromiseInit ==
    /\ state = [j \in Job |-> "absent"]
    /\ tries = [j \in Job |-> 0]
    /\ seen = [j \in Job |-> [p \in Part |-> 0]]

Enqueue(j) ==
    /\ state[j] = "absent"
    /\ state' = [state EXCEPT ![j] = "pending"]
    /\ UNCHANGED <<tries, seen>>

Complete(j) ==
    /\ state[j] = "pending"
    /\ state' = [state EXCEPT ![j] = "completed"]
    /\ tries' = [tries EXCEPT ![j] = @ + 1]
    /\ seen' = [seen EXCEPT ![j] = [p \in Part |-> 1]]

\* The attempt after LastAttempt earlier failures is the last one.
Fail(j) ==
    /\ state[j] = "pending"
    /\ state' = [state EXCEPT ![j] = IF tries[j] < LastAttempt THEN "pending" ELSE "failed"]
    /\ tries' = [tries EXCEPT ![j] = @ + 1]
    /\ UNCHANGED seen

\* A job nobody can run is given up without an attempt.
Reject(j) ==
    /\ state[j] = "pending"
    /\ state' = [state EXCEPT ![j] = "failed"]
    /\ UNCHANGED <<tries, seen>>

PromiseNext == \E j \in Job : Enqueue(j) \/ Complete(j) \/ Fail(j) \/ Reject(j)

PromiseSpec == PromiseInit /\ [][PromiseNext]_promiseVars

=============================================================================
