---------------------------- MODULE RoomPromise ----------------------------
(***************************************************************************)
(* What the voice cluster promises about one room, whatever replicas,      *)
(* connections and late answers lie below it (docs/saas-voice.md,          *)
(* "Несколько backend-реплик"): one replica at a time serves it, and only  *)
(* while it holds the room; the room changes hands when it is given back   *)
(* or its time is over, and by then its server has stopped of itself.      *)
(***************************************************************************)
EXTENDS Naturals

CONSTANTS Node, None, Dead, Lease, Fence

VARIABLES
    holder,     \* who holds the room
    left,       \* how long it is still held
    serving     \* the replica that serves it, as a set

promiseVars == <<holder, left, serving>>

PromiseInit == holder = None /\ left = 0 /\ serving = {}

\* A server has a margin: it stops earlier than the room is free.
Safe(time) == time + Fence > Lease

Take ==
    /\ holder = None /\ serving = {}
    /\ holder' \in Node /\ left' = Lease
    /\ UNCHANGED serving

Extend == holder \in Node /\ left' = Lease /\ UNCHANGED <<holder, serving>>

Serve ==
    /\ holder \in Node /\ Safe(left)
    /\ serving' = {holder}
    /\ UNCHANGED <<holder, left>>

Stop == serving' = {} /\ UNCHANGED <<holder, left>>

GiveBack == holder \in Node /\ holder' = None /\ left' = 0 /\ serving' = {}

\* Nobody is told: the time of a process that is gone has to run out.
Die == holder \in Node /\ holder' = Dead /\ serving' = {} /\ UNCHANGED left

Pass ==
    /\ left' = IF left = 0 THEN 0 ELSE left - 1
    /\ holder' = IF left <= 1 THEN None ELSE holder
    /\ serving' \in {serving, {}}
    /\ serving' # {} => Safe(left')

PromiseNext == Take \/ Extend \/ Serve \/ Stop \/ GiveBack \/ Die \/ Pass

PromiseSpec == PromiseInit /\ [][PromiseNext]_promiseVars

=============================================================================
