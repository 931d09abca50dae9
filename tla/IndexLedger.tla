---------------------------- MODULE IndexLedger ----------------------------
(***************************************************************************)
(* What the index-job store promises, without SQL: a ledger of indexing    *)
(* attempts.  At most one attempt is open; it is closed exactly once; only *)
(* the open attempt may move a publication pointer, and only while it      *)
(* closes as "published".  Attempts are opened in order, so they publish   *)
(* in order.  Foreground publications carry no attempt and may move the    *)
(* pointers at any time.  IndexJobStore implements this specification.     *)
(***************************************************************************)
EXTENDS Integers

CONSTANTS
    Attempts,       \* identities of attempts, numbers in order of creation
    Surfaces        \* the published surfaces, each with its own pointer

None == 0           \* no attempt

VARIABLES
    holder,         \* the open attempt, or None
    outcome,        \* [Attempts -> {"none", "open"} \cup Closed]
    pointer         \* [Surfaces -> Int]: an attempt, None or a foreground id

ledgerVars == <<holder, outcome, pointer>>

Closed == {"published", "skipped", "failed", "canceled"}

Init ==
    /\ holder = None
    /\ outcome = [a \in Attempts |-> "none"]
    /\ pointer = [s \in Surfaces |-> None]

Open(a) ==
    /\ holder = None
    /\ \A b \in Attempts : outcome[b] # "none" => b < a
    /\ outcome[a] = "none"
    /\ holder' = a
    /\ outcome' = [outcome EXCEPT ![a] = "open"]
    /\ UNCHANGED pointer

\* Closing and publishing are one step.
Close(a, o, S) ==
    /\ holder = a
    /\ S # {} => o = "published"
    /\ holder' = None
    /\ outcome' = [outcome EXCEPT ![a] = o]
    /\ pointer' = [s \in Surfaces |-> IF s \in S THEN a ELSE pointer[s]]

\* A foreground identity is negative: it is no attempt's.
Foreground ==
    /\ pointer' \in [Surfaces -> Int]
    /\ \A s \in Surfaces : pointer'[s] = pointer[s] \/ pointer'[s] < 0
    /\ UNCHANGED <<holder, outcome>>

Next ==
    \/ \E a \in Attempts : Open(a)
    \/ \E a \in Attempts, o \in Closed, S \in SUBSET Surfaces : Close(a, o, S)
    \/ Foreground

Spec == Init /\ [][Next]_ledgerVars
=============================================================================
