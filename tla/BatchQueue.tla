----------------------------- MODULE BatchQueue -----------------------------
(***************************************************************************)
(* What a batch promises ("a sequential queue of addon migrations",        *)
(* models.go; "addons run one at a time in sequence",                      *)
(* docs/user-guide/06-migration.md): every member gets one turn, in the    *)
(* order of the queue, and the queue moves on only from a member that has  *)
(* ended, by one place.  MigrationBatch implements it for an operator who  *)
(* starts migrations and batches and rolls back what has failed.           *)
(***************************************************************************)
EXTENDS Integers

CONSTANT Length

VARIABLES
    state, \* "none" before the batch is created
    at,    \* the member whose turn it is, past the last one at the end
    turn   \* place -> absent, queued, running, stopped (for a person), ended

vars == <<state, at, turn>>

Init ==
    /\ state = "none"
    /\ at = 0
    /\ turn = [i \in 1..Length |-> "absent"]

Become(i, from, to) ==
    /\ turn[i] = from
    /\ turn' = [turn EXCEPT ![i] = to]

\* the members are created in order, the first one at work
Enqueue(i) ==
    /\ state = "none"
    /\ \A j \in 1..(i - 1) : turn[j] # "absent"
    /\ Become(i, "absent", IF i = 1 THEN "running" ELSE "queued")
    /\ UNCHANGED <<state, at>>

Open ==
    /\ state = "none"
    /\ \A i \in 1..Length : turn[i] # "absent"
    /\ state' = "running"
    /\ at' = 1
    /\ UNCHANGED turn

\* a member comes to where a person must act, or to its end
Rest(i) ==
    /\ Become(i, "running", "stopped") \/ Become(i, "running", "ended")
    /\ UNCHANGED <<state, at>>

\* past a member that has ended; the last one completes the batch
MoveOn ==
    /\ state = "running"
    /\ turn[at] = "ended"
    /\ at' = at + 1
    /\ state' = IF at = Length THEN "completed" ELSE "running"
    /\ UNCHANGED turn

Begin ==
    /\ state = "running"
    /\ at \in 1..Length
    /\ Become(at, "queued", "running")
    /\ UNCHANGED <<state, at>>

Next == Open \/ MoveOn \/ Begin \/ \E i \in 1..Length : Enqueue(i) \/ Rest(i)

Spec == Init /\ [][Next]_vars
=============================================================================
