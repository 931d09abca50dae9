----------------------------- MODULE StartLock -----------------------------
(***************************************************************************)
(* The lock files of internal/daemon/start_lock.go (start.lock of `daemon  *)
(* start`, instance.lock of the serving daemon): an O_EXCL file with the   *)
(* owner's pid and a nonce, every look at which is made under an exclusive *)
(* system lock on start.guard, which the system drops when a process dies. *)
(* One step is one system call on the lock file.                           *)
(***************************************************************************)
EXTENDS Integers

CONSTANTS
    Procs,     \* process ids; a new process may get the id of a dead one
    Nobody,    \* no process
    MaxRuns    \* bound: processes that ever run under one id

ASSUME ProcsAssumption == Nobody \notin Procs
ASSUME RunsAssumption == MaxRuns \in Nat \ {0}

VARIABLES
    alive,     \* ids with a live process
    pc,        \* where each process is in acquireStartLockAtWithNonce or Close
    nonce,     \* nonce of the process that runs under the id
    file,      \* the lock file
    aged,      \* an empty lock file is older than startLockLegacyStaleAfter
    guard      \* who has start.guard locked

lockVars == <<alive, pc, nonce, file, aged, guard>>

\* Content of the lock file: none, created but not yet filled, metadata, or
\* anything parseStartLockMetadata does not know.
Absent == [pid |-> Nobody, nonce |-> 0]
Empty == [pid |-> Nobody, nonce |-> 1]
Garbled == [pid |-> Nobody, nonce |-> 2]

Metadata(p) == [pid |-> p, nonce |-> nonce[p]]
Contents == {Absent, Empty, Garbled} \cup [pid : Procs, nonce : 1..MaxRuns]

\* Under the guard: creating, filling, inspecting, removing a stale lock and
\* creating again, about to unlock with or without it, and Close's inspection
\* and removal.
Guarded == {"create", "fill", "inspect", "reclaim", "recreate", "won", "retry", "failing",
            "closing", "erase", "closed"}
Steps == Guarded \cup {"idle", "waiting", "held", "close", "done"}

\* The process has its *startLock, or will once it has left the guard.
Holds(p) == pc[p] \in {"won", "held", "close", "closing", "erase"}

LockInit ==
    /\ alive = Procs
    /\ pc = [p \in Procs |-> "idle"]
    /\ nonce = [p \in Procs |-> 1]
    /\ file \in {Absent, Empty, Garbled}
    /\ aged = FALSE
    /\ guard = Nobody

To(p, step) == pc' = [pc EXCEPT ![p] = step]
-----------------------------------------------------------------------------
(* withStartGuard                                                          *)

Begin(p) == pc[p] = "idle" /\ To(p, "waiting") /\ UNCHANGED <<alive, nonce, file, aged, guard>>

LockGuard(p) ==
    /\ pc[p] \in {"waiting", "close"} /\ guard = Nobody
    /\ guard' = p
    /\ To(p, IF pc[p] = "close" THEN "closing" ELSE "create")
    /\ UNCHANGED <<alive, nonce, file, aged>>

\* The deadline passes: an acquirer gives up; a Close returns an error and
\* leaves the file behind.
Timeout(p) ==
    /\ pc[p] \in {"waiting", "close"}
    /\ To(p, "done")
    /\ UNCHANGED <<alive, nonce, file, aged, guard>>

UnlockGuard(p) ==
    /\ pc[p] \in {"won", "retry", "failing", "closed"}
    /\ guard' = Nobody
    /\ To(p, CASE pc[p] = "won" -> "held"
               [] pc[p] = "retry" -> "waiting"
               [] OTHER -> "done")
    /\ UNCHANGED <<alive, nonce, file, aged>>
-----------------------------------------------------------------------------
(* acquireStartLockLocked                                                  *)

\* Mutant: OpenFile without O_EXCL.
CreateOver(p) ==
    /\ pc[p] = "create"
    /\ file' = Empty /\ aged' = FALSE /\ To(p, "fill")
    /\ UNCHANGED <<alive, nonce, guard>>

Create(p) ==
    /\ pc[p] = "create"
    /\ \/ file = Absent /\ file' = Empty /\ aged' = FALSE /\ To(p, "fill")
       \/ file # Absent /\ To(p, "inspect") /\ UNCHANGED <<file, aged>>
    /\ UNCHANGED <<alive, nonce, guard>>

\* finishStartLockCreate: the nonce or the write may fail, which removes the
\* file if it can, and so may the final close, which leaves it.
Fill(p) ==
    /\ pc[p] = "fill"
    /\ \/ file' = Metadata(p) /\ To(p, "won")
       \/ file' \in {Metadata(p), Absent, Empty, Garbled} /\ To(p, "failing")
    /\ UNCHANGED <<alive, nonce, aged, guard>>

\* An empty file is reclaimed by age, a filled one when its process is gone.
Reclaimable ==
    CASE file = Empty -> aged
      [] file = Garbled -> FALSE
      [] OTHER -> file.pid \notin alive

Inspect(p) ==
    /\ pc[p] = "inspect"
    /\ To(p, IF Reclaimable THEN "reclaim" ELSE "retry")
    /\ UNCHANGED <<alive, nonce, file, aged, guard>>

Reclaim(p) ==
    /\ pc[p] = "reclaim"
    /\ file' = Absent
    /\ To(p, "recreate")
    /\ UNCHANGED <<alive, nonce, aged, guard>>

\* The second OpenFile: a lock that reappeared is an error, not a retry.
Recreate(p) ==
    /\ pc[p] = "recreate"
    /\ To(p, IF file = Absent THEN "fill" ELSE "failing")
    /\ file' = IF file = Absent THEN Empty ELSE file
    /\ aged' = (aged /\ file # Absent)
    /\ UNCHANGED <<alive, nonce, guard>>

\* A system call on the lock file fails for a reason of its own.
LockFault(p) ==
    /\ \/ pc[p] \in {"create", "inspect", "reclaim", "recreate"} /\ To(p, "failing")
       \/ pc[p] \in {"closing", "erase"} /\ To(p, "closed")
    /\ UNCHANGED <<alive, nonce, file, aged, guard>>
-----------------------------------------------------------------------------
(* Close                                                                   *)

BeginClose(p) == pc[p] = "held" /\ To(p, "close") /\ UNCHANGED <<alive, nonce, file, aged, guard>>

InspectOwn(p) ==
    /\ pc[p] = "closing"
    /\ To(p, IF file = Metadata(p) THEN "erase" ELSE "closed")
    /\ UNCHANGED <<alive, nonce, file, aged, guard>>

Erase(p) ==
    /\ pc[p] = "erase"
    /\ file' = Absent
    /\ To(p, "closed")
    /\ UNCHANGED <<alive, nonce, aged, guard>>
-----------------------------------------------------------------------------
(* The system: death at any step, a new process under a freed id, time.    *)

\* Death drops the guard with the descriptor; the lock file stays.
Die(p) ==
    /\ p \in alive
    /\ alive' = alive \ {p}
    /\ To(p, "done")
    /\ guard' = IF guard = p THEN Nobody ELSE guard
    /\ UNCHANGED <<nonce, file, aged>>

Restart(p) ==
    /\ p \notin alive /\ nonce[p] < MaxRuns
    /\ alive' = alive \cup {p}
    /\ nonce' = [nonce EXCEPT ![p] = @ + 1]
    /\ To(p, "idle")
    /\ UNCHANGED <<file, aged, guard>>

Age == file = Empty /\ aged' = TRUE /\ UNCHANGED <<alive, pc, nonce, file, guard>>

\* Every process that may run has run.
Terminated == alive = {} /\ (\A p \in Procs : nonce[p] = MaxRuns) /\ UNCHANGED lockVars

LockNext ==
    \/ \E p \in alive :
          \/ Begin(p) \/ LockGuard(p) \/ Timeout(p) \/ UnlockGuard(p)
          \/ Create(p) \/ Fill(p) \/ Inspect(p) \/ Reclaim(p) \/ Recreate(p)
          \/ LockFault(p) \/ BeginClose(p) \/ InspectOwn(p) \/ Erase(p)
    \/ \E p \in Procs : Die(p) \/ Restart(p)
    \/ Age
    \/ Terminated

LockSpec == LockInit /\ [][LockNext]_lockVars
-----------------------------------------------------------------------------
(* Safety.                                                                 *)

\* Type invariant.
LockTypeOK ==
    /\ alive \in SUBSET Procs
    /\ pc \in [Procs -> Steps]
    /\ nonce \in [Procs -> 1..MaxRuns]
    /\ file \in Contents
    /\ aged \in BOOLEAN
    /\ guard \in Procs \cup {Nobody}

\* The lock file of a live holder stays its own: no reclaim by age or by pid,
\* no Close of an earlier run and no failed start removes or replaces it,
\* whatever processes die or come back under whichever id.
HolderKeepsFile == \A p \in alive : Holds(p) => file = Metadata(p)

\* The inductive invariant: who is where under the guard.
GuardInv ==
    /\ \A p \in Procs : pc[p] \in Guarded <=> guard = p
    /\ \A p \in Procs \ alive : pc[p] = "done"
    /\ \A p \in Procs : pc[p] = "fill" => file = Empty
    /\ \A p \in Procs : pc[p] = "recreate" => file = Absent
    /\ (\E p \in Procs : pc[p] = "reclaim") => \A q \in alive : ~Holds(q)

LockInv == LockTypeOK /\ HolderKeepsFile /\ GuardInv

\* The lock is the lease its users take it for.
LeaseOf == INSTANCE Lease WITH holders <- {p \in alive : Holds(p)}
ImplementsLease == LeaseOf!LeaseSpec
=============================================================================
