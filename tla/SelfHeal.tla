------------------------------- MODULE SelfHeal -------------------------------
(***************************************************************************)
(* internal/service/autoindex.go: a read that finds the catalog unusable   *)
(* starts one detached full index job.  On the way every process that      *)
(* opens index.db for indexing moves a corrupt file away, under            *)
(* quarantine.lock, and creates a fresh one.  A foreground index           *)
(* (service/app.go) has a quarantine of its own, outside that lock.        *)
(*                                                                         *)
(* Only the file at index.db is kept; what a process knows of the file it   *)
(* opened or was given a job in is whether that file is still the one      *)
(* "here" or is "gone".  The job rows move away with their file.            *)
(***************************************************************************)
EXTENDS Naturals, FiniteSets

CONSTANTS Triggers,       \* slots for the processes whose reads trigger the self-heal
          Children,       \* slots for the detached index jobs
          Foreground,     \* a foreground index may run
          MaxHealFaults   \* bound on crashes, failing jobs and new corruption

VARIABLES dbFile,         \* the file at index.db: none, corrupt, empty or indexed
          jobRow,         \* it holds an unfinished job
          heal,           \* the processes
          qlock,          \* quarantine.lock: present, older than 30 s
          fgSeen,         \* a foreground index has been told of corruption
          backoff,        \* autoindex.last says failed, less than 10 min ago
          breached,        \* two quarantines overlapped, or a process died inside one
          healFaults

healVars == <<dbFile, jobRow, heal, qlock, fgSeen, backoff, breached, healFaults>>

Healers == Triggers \cup Children
IdleHealer == [pc |-> "idle", role |-> "none", db |-> "none", tries |-> 0]

HealInit ==
    /\ dbFile = "corrupt" /\ jobRow = FALSE
    /\ heal = [h \in Healers |-> IdleHealer]
    /\ qlock = [present |-> FALSE, aged |-> FALSE]
    /\ fgSeen = FALSE
    /\ backoff = FALSE
    /\ breached = FALSE
    /\ healFaults = 0

In(h, pc) == heal[h].pc = pc
Step(h, pc) == heal' = [heal EXCEPT ![h].pc = pc]
Quit(h) == heal' = [heal EXCEPT ![h] = IdleHealer]
HealFault == healFaults < MaxHealFaults /\ healFaults' = healFaults + 1
\* writeAutoIndexMarker: any other status lifts the backoff.
Wrote(status) == backoff' = (status = "failed")

\* The catalog cannot answer: no file, a malformed one, or never indexed.
Unusable == dbFile # "indexed"
Readable == dbFile \in {"empty", "indexed"}
\* Another file comes to index.db, or none: the processes' files are gone.
Moved == [h \in Healers |-> [heal[h] EXCEPT !.db = IF @ = "here" THEN "gone" ELSE @]]
Inside == {h \in Healers : heal[h].pc \in {"probe", "rename", "reopen", "release", "giveUp"}}
\* Another process has created the job row of this file, or runs it, and lives.
Live(h) ==
    /\ heal[h].db = "here" /\ jobRow
    /\ \E g \in Healers \ {h} : heal[g].db = "here" /\ (heal[g].role = "job" \/ heal[g].pc \in {"spawn", "mark"})

-----------------------------------------------------------------------------
(* triggerAutoIndex and indexRunJob share openWorkspaceDBForIndex. *)

Trigger(h) ==
    /\ h \in Triggers /\ In(h, "idle") /\ Unusable /\ ~backoff
    /\ heal' = [heal EXCEPT ![h] = [IdleHealer EXCEPT !.pc = "open", !.role = "trigger"]]
    /\ UNCHANGED <<dbFile, jobRow, qlock, fgSeen, backoff, breached, healFaults>>

\* store.Open creates a missing file; a malformed one is an error.
Opens == dbFile # "corrupt"
OpenDb(h, then) ==
    /\ Opens
    /\ dbFile' = IF dbFile = "none" THEN "empty" ELSE dbFile
    /\ heal' = [heal EXCEPT ![h].pc = then,
                            ![h].db = IF heal[h].role = "trigger" THEN "here" ELSE @]
    /\ UNCHANGED jobRow

\* The first open and its confirmations: corruption that persists goes to the lock.
Open(h) ==
    /\ In(h, "open")
    /\ \/ OpenDb(h, "opened")
       \/ ~Opens /\ heal' = [heal EXCEPT ![h].pc = "acquire", ![h].tries = 0] /\ UNCHANGED <<dbFile, jobRow>>
    /\ UNCHANGED <<qlock, fgSeen, backoff, breached, healFaults>>

\* acquireQuarantineLock: O_EXCL, then the age of the file that was in the way.
Acquire(h) ==
    /\ In(h, "acquire") /\ heal[h].tries < 2
    /\ \/ /\ ~qlock.present
          /\ qlock' = [present |-> TRUE, aged |-> FALSE]
          /\ Step(h, "probe")
          /\ breached' = (breached \/ Inside # {})
       \/ qlock.present /\ Step(h, "stat") /\ UNCHANGED <<qlock, breached>>
    /\ UNCHANGED <<dbFile, jobRow, fgSeen, backoff, healFaults>>

\* Mutant: the age of the lock is not looked at.
StatLockPatient(h) ==
    /\ In(h, "stat")
    /\ Step(h, "wait")
    /\ UNCHANGED <<dbFile, jobRow, qlock, fgSeen, backoff, breached, healFaults>>

StatLock(h) ==
    /\ In(h, "stat")
    /\ Step(h, IF qlock.present /\ qlock.aged THEN "takeover" ELSE "wait")
    /\ UNCHANGED <<dbFile, jobRow, qlock, fgSeen, backoff, breached, healFaults>>

\* os.Remove(path), whatever file is there by now.
TakeOver(h) ==
    /\ In(h, "takeover")
    /\ qlock' = [present |-> FALSE, aged |-> FALSE]
    /\ heal' = [heal EXCEPT ![h].tries = @ + 1, ![h].pc = IF heal[h].tries = 0 THEN "acquire" ELSE "wait"]
    /\ UNCHANGED <<dbFile, jobRow, fgSeen, backoff, breached, healFaults>>

\* Not locked: somebody else repairs; a few more opens, then the error, which backs off.
Wait(h) ==
    /\ In(h, "wait")
    /\ \/ OpenDb(h, "opened") /\ UNCHANGED backoff
       \/ /\ ~Opens /\ Quit(h) /\ Wrote("failed")
          /\ UNCHANGED <<dbFile, jobRow>>
    /\ UNCHANGED <<qlock, fgSeen, breached, healFaults>>

\* Mutant: the holder of the lock does not probe the file again.
ProbeNever(h) ==
    /\ In(h, "probe")
    /\ Step(h, "rename")
    /\ UNCHANGED <<dbFile, jobRow, qlock, fgSeen, backoff, breached, healFaults>>

\* Inside the lock: the file is probed again.
Probe(h) ==
    /\ In(h, "probe")
    /\ Step(h, IF Readable THEN "reopen" ELSE "rename")
    /\ UNCHANGED <<dbFile, jobRow, qlock, fgSeen, backoff, breached, healFaults>>

\* quarantineWorkspaceDB: what is at index.db now moves away with its job rows.
Rename(h) ==
    /\ In(h, "rename")
    /\ dbFile' = "none" /\ jobRow' = FALSE
    /\ heal' = [Moved EXCEPT ![h].pc = "reopen"]
    /\ UNCHANGED <<qlock, fgSeen, backoff, breached, healFaults>>

Reopen(h) ==
    /\ In(h, "reopen")
    /\ \/ OpenDb(h, "release")
       \/ ~Opens /\ Step(h, "giveUp") /\ UNCHANGED <<dbFile, jobRow>>
    /\ UNCHANGED <<qlock, fgSeen, backoff, breached, healFaults>>

\* release removes the path, whoever created the file that is there.
Release(h) ==
    /\ heal[h].pc \in {"release", "giveUp"}
    /\ qlock' = [present |-> FALSE, aged |-> FALSE]
    /\ \/ In(h, "release") /\ Step(h, "opened") /\ UNCHANGED backoff
       \/ In(h, "giveUp") /\ Quit(h) /\ Wrote("failed")
    /\ UNCHANGED <<dbFile, jobRow, fgSeen, breached, healFaults>>

-----------------------------------------------------------------------------
(* The trigger, once index.db is open. *)

\* CreateIndexJob is deduplicated by the live job of the same file.
CreateJob(h) ==
    /\ In(h, "opened") /\ heal[h].role = "trigger"
    /\ \/ Live(h) /\ Quit(h) /\ UNCHANGED jobRow
       \/ ~Live(h) /\ jobRow' = (jobRow \/ heal[h].db = "here") /\ Step(h, "spawn")
    /\ UNCHANGED <<dbFile, qlock, fgSeen, backoff, breached, healFaults>>

\* The detached child looks for the job by its id; the trigger goes on to the marker.
SpawnJob(h, c) ==
    /\ In(h, "spawn") /\ c \in Children /\ In(c, "idle")
    /\ heal' = [heal EXCEPT ![h].pc = "mark",
                            ![c] = [IdleHealer EXCEPT !.pc = "open", !.role = "job", !.db = heal[h].db]]
    /\ UNCHANGED <<dbFile, jobRow, qlock, fgSeen, backoff, breached, healFaults>>

MarkStarted(h) ==
    /\ In(h, "mark")
    /\ Wrote("started")
    /\ Quit(h)
    /\ UNCHANGED <<dbFile, jobRow, qlock, fgSeen, breached, healFaults>>

\* runIndexJob and recordAutoIndexResult: a job whose row moved away is not found.
Found(h) == heal[h].db = "here" /\ jobRow /\ Readable
RunJob(h) ==
    /\ In(h, "opened") /\ heal[h].role = "job"
    /\ \/ Found(h) /\ dbFile' = "indexed" /\ Wrote("succeeded") /\ UNCHANGED healFaults
       \/ Found(h) /\ HealFault /\ Wrote("failed") /\ UNCHANGED dbFile
       \/ ~Found(h) /\ Wrote("failed") /\ UNCHANGED <<dbFile, healFaults>>
    /\ jobRow' = (jobRow /\ ~Found(h))
    /\ Quit(h)
    /\ UNCHANGED <<qlock, fgSeen, breached>>

-----------------------------------------------------------------------------
(* A foreground index, and the world. *)

\* indexWorkspace is told of corruption ...
ForegroundReads ==
    /\ Foreground /\ ~fgSeen /\ dbFile = "corrupt"
    /\ fgSeen' = TRUE
    /\ UNCHANGED <<dbFile, jobRow, heal, qlock, backoff, breached, healFaults>>

\* ... and QuarantineCorruptDB moves whatever is there, then a full index creates its own file.
ForegroundRebuilds ==
    /\ fgSeen /\ fgSeen' = FALSE
    /\ dbFile' = "indexed" /\ jobRow' = FALSE /\ heal' = Moved
    /\ breached' = (breached \/ Inside # {})
    /\ UNCHANGED <<qlock, backoff, healFaults>>

HealerCrash(h) ==
    /\ ~In(h, "idle") /\ HealFault
    /\ breached' = (breached \/ h \in Inside)
    /\ Quit(h)
    /\ UNCHANGED <<dbFile, jobRow, qlock, fgSeen, backoff>>

Damage ==
    /\ Readable /\ HealFault
    /\ dbFile' = "corrupt"
    /\ UNCHANGED <<jobRow, heal, qlock, fgSeen, backoff, breached>>

LockAges ==
    /\ qlock.present /\ ~qlock.aged /\ qlock' = [qlock EXCEPT !.aged = TRUE]
    /\ UNCHANGED <<dbFile, jobRow, heal, fgSeen, backoff, breached, healFaults>>

BackoffPasses ==
    /\ backoff /\ backoff' = FALSE
    /\ UNCHANGED <<dbFile, jobRow, heal, qlock, fgSeen, breached, healFaults>>

HealStep(h) ==
    \/ Open(h) \/ Acquire(h) \/ StatLock(h) \/ TakeOver(h) \/ Wait(h)
    \/ Probe(h) \/ Rename(h) \/ Reopen(h) \/ Release(h)
    \/ CreateJob(h) \/ (\E c \in Healers : SpawnJob(h, c)) \/ MarkStarted(h) \/ RunJob(h)

HealNext ==
    \/ \E h \in Healers : Trigger(h) \/ HealStep(h) \/ HealerCrash(h)
    \/ ForegroundReads \/ ForegroundRebuilds \/ Damage \/ LockAges \/ BackoffPasses

HealSpec == HealInit /\ [][HealNext]_healVars

-----------------------------------------------------------------------------
\* openWorkspaceDBForIndex promises that "a process that merely raced a
\* concurrent first-run creation never quarantines the fresh index.db the other
\* process just created" (autoindex.go).  It moves a readable file away only
\* after a quarantine overlapped with the foreground's unlocked one or with a
\* second holder of quarantine.lock, or died leaving no file at index.db for
\* the next one to probe.
HealthyLostOnlyByBreach ==
    [][Readable /\ dbFile' = "none" => breached]_healVars

\* The self-heal heals: whatever crashes, fails or is damaged on the way, reads
\* end up with a readable index on which a full job has succeeded.
IsHealed == dbFile = "indexed"
Healed == <>[]IsHealed
=============================================================================
