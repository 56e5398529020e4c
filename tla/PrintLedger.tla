---------------------------- MODULE PrintLedger ----------------------------
(***************************************************************************)
(* What the print queue of server/app.js promises its callers, with no     *)
(* timer, no worker and no MQTT client in it.  An accepted job is pending  *)
(* until it is printed or cancelled, exactly one of the two; a job is      *)
(* printed when its time has come, and never before a pending job that is  *)
(* due earlier.                                                            *)
(***************************************************************************)
EXTENDS Naturals, FiniteSets

CONSTANT Capacity       \* the most jobs that may be pending at once

VARIABLES
    clock,              \* the time of day
    pending,            \* the pending jobs, each with the time it is due
    printed,            \* the jobs that were printed
    cancelled           \* the jobs that were cancelled

ledger == <<clock, pending, printed, cancelled>>

Known == DOMAIN pending \cup printed \cup cancelled

Without(id) == [j \in DOMAIN pending \ {id} |-> pending[j]]

Init == /\ clock \in Nat
        /\ pending = [j \in {} |-> 0]
        /\ printed = {}
        /\ cancelled = {}

Elapse == /\ clock' > clock
          /\ UNCHANGED <<pending, printed, cancelled>>

\* A new job is accepted when there is room for it.
Accept == /\ Cardinality(DOMAIN pending) < Capacity
          /\ \E id \in DOMAIN pending' \ Known :
                /\ DOMAIN pending' = DOMAIN pending \cup {id}
                /\ pending'[id] \in Nat
                /\ \A j \in DOMAIN pending : pending'[j] = pending[j]
          /\ UNCHANGED <<clock, printed, cancelled>>

\* The earliest pending job is printed, once it is due.
PrintJob(id) == /\ pending[id] <= clock
                /\ \A j \in DOMAIN pending : pending[id] <= pending[j]
                /\ pending' = Without(id)
                /\ printed' = printed \cup {id}
                /\ UNCHANGED <<clock, cancelled>>

\* Any pending job may be cancelled; it is not printed afterwards.
Cancel(id) == /\ pending' = Without(id)
              /\ cancelled' = cancelled \cup {id}
              /\ UNCHANGED <<clock, printed>>

Next == \/ Elapse
        \/ Accept
        \/ \E id \in DOMAIN pending : PrintJob(id) \/ Cancel(id)

Spec == Init /\ [][Next]_ledger
=============================================================================
