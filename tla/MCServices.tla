----------------------------- MODULE MCServices -----------------------------
(***************************************************************************)
(* The services that live on their own tables, each on a small instance.   *)
(* A behaviour is one of one service: `part` says of which.  Some have two *)
(* instances.  Reminders: two sweepers and one edit, or one sweeper and    *)
(* two.  Monitors: two probes and one request, or one probe and two.  The  *)
(* tab in a voice room: two producers of others, or one and screens.       *)
(***************************************************************************)
EXTENDS TenantJobs, MailDelivery, GitCopies, Reminders, Monitors, Billing, ReleaseRunner, VoiceSession,
        VoiceCalls

TheTenantOf == [j \in Job |-> IF j \in {"b1"} THEN "t2" ELSE "t1"]
TheBatches == {<<"o1", "d1">>, <<"b1", "o1", "c2">>}
TheMailOf == [e \in Event |-> IF e \in {"o1", "b1", "d1"} THEN "m1" ELSE "m2"]
TheKindOf == [o1 |-> "Open", b1 |-> "Bounce", d1 |-> "Delivery", c2 |-> "Click"]
TheTimeOf == [o1 |-> 3, b1 |-> 2, d1 |-> 1, c2 |-> 2]
TheCommitOf == [x \in Release |-> IF x = "B1" THEN "B" ELSE "A"]
TheImageOf == [x \in Release |-> [s \in Service |-> TheCommitOf[x]]]
TheConfigOf == [x \in Release |-> [s \in Service |-> IF s = "backend" THEN TheCommitOf[x] ELSE x]]

VARIABLE part
Parts == {"jobs", "delivery", "git", "reminders", "invitations", "probes", "changes", "billing", "release",
          "hearing", "sharing", "calls"}
serviceVars == <<vars, deliveryVars, gitVars, reminderVars, monitorVars, billVars, releaseVars,
                 sessionVars, callVars, part>>

ServicesInit ==
    /\ part \in Parts
    /\ Init /\ DeliveryInit /\ GitInit /\ ReminderInit /\ MonitorInit /\ BillingInit /\ ReleaseInit
    /\ SessionInit /\ CallsInit
    \* The choices of the services that do not move.
    /\ part \notin {"reminders", "invitations"} =>
           hosted /\ \A u \in Participant : reminder[u].at = 1 /\ reminder[u].invited
    /\ part \notin {"probes", "changes"} => perTenant
    /\ part # "billing" => task.kind = "FIXED"
    /\ part # "release" => offered["A"] = "A1"

\* Only one sweeper, or one edit of the event, moves.
OneSweeper == \A w \in Sweeper \ {"w1"} : claims'[w] = claims[w]
OneEdit == edits' <= 1

\* Only one prober, or one author with one request, moves.
OneProbes == \A p \in Prober \ {"p1"} : probe'[p] = probe[p]
OneChanges == changes' <= 1

\* One producer of the others, or two and neither screens, faults nor removals.
TheStream == CHOOSE s \in Stream : TRUE
OneStream == \A s \in Stream \ {TheStream} : others'[s] = others[s]
OnlyStreams ==
    /\ share' = share /\ sessionFaults' = 0
    /\ generation' = generation /\ join' = join => member' = member

ServicesNext ==
    /\ UNCHANGED part
    /\ \/ /\ part = "jobs"
          /\ Next
          /\ UNCHANGED <<deliveryVars, gitVars, reminderVars, monitorVars, billVars, releaseVars, sessionVars, callVars>>
       \/ /\ part = "delivery"
          /\ DeliveryNext
          /\ UNCHANGED <<vars, gitVars, reminderVars, monitorVars, billVars, releaseVars, sessionVars, callVars>>
       \/ /\ part = "git"
          /\ GitNext
          /\ UNCHANGED <<vars, deliveryVars, reminderVars, monitorVars, billVars, releaseVars, sessionVars, callVars>>
       \/ /\ part \in {"reminders", "invitations"}
          /\ ReminderNext
          /\ IF part = "invitations" THEN OneSweeper ELSE OneEdit
          /\ UNCHANGED <<vars, deliveryVars, gitVars, monitorVars, billVars, releaseVars, sessionVars, callVars>>
       \/ /\ part \in {"probes", "changes"}
          /\ MonitorNext
          /\ IF part = "changes" THEN OneProbes ELSE OneChanges
          /\ UNCHANGED <<vars, deliveryVars, gitVars, reminderVars, billVars, releaseVars, sessionVars, callVars>>
       \/ /\ part = "billing"
          /\ BillingNext
          /\ UNCHANGED <<vars, deliveryVars, gitVars, reminderVars, monitorVars, releaseVars, sessionVars, callVars>>
       \/ /\ part = "release"
          /\ ReleaseNext
          /\ UNCHANGED <<vars, deliveryVars, gitVars, reminderVars, monitorVars, billVars, sessionVars, callVars>>
       \/ /\ part \in {"hearing", "sharing"}
          /\ SessionNext
          /\ IF part = "hearing" THEN OnlyStreams ELSE OneStream
          /\ UNCHANGED <<vars, deliveryVars, gitVars, reminderVars, monitorVars, billVars, releaseVars, callVars>>
       \/ /\ part = "calls"
          /\ CallsNext
          /\ UNCHANGED <<vars, deliveryVars, gitVars, reminderVars, monitorVars, billVars, releaseVars, sessionVars>>

ServicesSpec == ServicesInit /\ [][ServicesNext]_serviceVars

\* The service that moves keeps the types of its state.
ServicesTypeOK ==
    /\ part \in Parts
    /\ part = "jobs" => TypeOK
    /\ part = "delivery" => DeliveryTypeOK
    /\ part = "git" => GitTypeOK
    /\ part \in {"reminders", "invitations"} => ReminderTypeOK
    /\ part \in {"probes", "changes"} => MonitorTypeOK
    /\ part = "billing" => BillingTypeOK
    /\ part = "release" => ReleaseTypeOK
    /\ part \in {"hearing", "sharing"} => SessionTypeOK
    /\ part = "calls" => CallsTypeOK

=============================================================================
