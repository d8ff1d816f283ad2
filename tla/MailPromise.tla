---------------------------- MODULE MailPromise ----------------------------
(***************************************************************************)
(* What the outgoing mail of a tenant promises, whatever replicas, crashes *)
(* and retries lie below it (docs/saas-mail.md, "Отправка и сбои"): a      *)
(* message is handed to the provider at most once; "failed" means it was   *)
(* not and never will be; "sent" means it was; everything in between is    *)
(* reported as "unknown" and only a confirmation ends that.                *)
(***************************************************************************)
EXTENDS Naturals

CONSTANT Message

VARIABLES
    outcome,    \* what the system says of the message
    taken       \* how many times the provider took it

promiseVars == <<outcome, taken>>

Outcome == {"none", "queued", "trying", "sent", "failed", "unknown"}

PromiseInit ==
    /\ outcome = [m \in Message |-> "none"]
    /\ taken = [m \in Message |-> 0]

Becomes(m, next) == outcome'[m] = next /\ taken'[m] = taken[m]

Queue(m) == outcome[m] = "none" /\ Becomes(m, "queued")
Try(m) == outcome[m] = "queued" /\ Becomes(m, "trying")
Take(m) ==
    /\ outcome[m] \in {"trying", "unknown"} /\ taken[m] = 0
    /\ taken'[m] = 1 /\ outcome'[m] = outcome[m]
Confirm(m) == outcome[m] \in {"trying", "unknown"} /\ taken[m] = 1 /\ Becomes(m, "sent")
Fail(m) == outcome[m] = "trying" /\ taken[m] = 0 /\ Becomes(m, "failed")
LoseTrack(m) == outcome[m] = "trying" /\ Becomes(m, "unknown")
Rest(m) == Becomes(m, outcome[m])

MessageStep(m) ==
    Queue(m) \/ Try(m) \/ Take(m) \/ Confirm(m) \/ Fail(m) \/ LoseTrack(m) \/ Rest(m)

\* One transaction of a sweep may lose track of several messages at once.
PromiseNext ==
    /\ outcome' \in [Message -> Outcome]
    /\ taken' \in [Message -> {0, 1}]
    /\ \A m \in Message : MessageStep(m)

PromiseSpec == PromiseInit /\ [][PromiseNext]_promiseVars

=============================================================================
