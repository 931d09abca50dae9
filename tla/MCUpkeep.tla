------------------------------ MODULE MCUpkeep ------------------------------
(* The upkeep of an installation in use: the update of the executable and  *)
(* the self-heal of a corrupt index.  They share no state: every behaviour *)
(* is one of the two parts', chosen at the start.                          *)
EXTENDS Naturals, FiniteSets

CONSTANTS Procs, MaxVersion, MaxFaults, NoFile, NoProc,  \* SelfUpdate
          Triggers, Children, Foreground, MaxHealFaults  \* SelfHeal

VARIABLES
    part,
    platform, exe, bak, owner, upd, ulock, ucache, ustatus, released, faults,
    dbFile, jobRow, heal, qlock, fgSeen, backoff, breached, healFaults

U == INSTANCE SelfUpdate
H == INSTANCE SelfHeal

suVars == <<platform, exe, bak, owner, upd, ulock, ucache, ustatus, released, faults>>
healVars == <<dbFile, jobRow, heal, qlock, fgSeen, backoff, breached, healFaults>>

Init ==
    /\ part \in {"update", "heal"}
    /\ U!SelfUpdateInit /\ (part = "update" \/ platform = "posix")
    /\ H!HealInit

Next ==
    \/ part = "update" /\ U!SelfUpdateNext /\ UNCHANGED <<part, healVars>>
    \/ part = "heal" /\ H!HealNext /\ UNCHANGED <<part, suVars>>

\* Updating processes are scheduled, the CLI keeps being used, releases come
\* out and windows end; strong fairness of a successful Verify: a cleaner that
\* starts meanwhile does not win the race for the backup in every transaction
\* there will ever be.
Updating == part = "update"
UpdateFairness ==
    /\ \A p \in Procs : /\ WF_suVars(Updating /\ U!UpdaterStep(p))
                         /\ SF_suVars(Updating /\ U!StartCli(p))
                         /\ SF_suVars(Updating /\ U!Verify(p) /\ U!StillOriginal(p))
    /\ WF_suVars(Updating /\ U!Publish) /\ SF_suVars(Updating /\ U!WindowPasses)

\* Processes run, reads keep coming and clocks advance.
Healing == part = "heal"
HealFairness ==
    /\ \A h \in Triggers \cup Children : WF_healVars(Healing /\ H!HealStep(h))
    /\ WF_healVars(Healing /\ \E h \in Triggers : H!Trigger(h))
    /\ WF_healVars(Healing /\ H!LockAges) /\ WF_healVars(Healing /\ H!BackoffPasses)

Spec ==
    /\ Init /\ [][Next]_<<part, suVars, healVars>>
    /\ UpdateFairness /\ HealFairness
-----------------------------------------------------------------------------
\* SelfUpdate: an installation in use gets the newest release.
UpdateArrives == <>(Updating => U!UpToDate)
\* SelfHeal: a readable index is moved away only after a lock breach.
HealthyLostOnlyByBreach == H!HealthyLostOnlyByBreach
\* SelfHeal: reads end up with a readable, complete index.
Healed == <>[](Healing => H!IsHealed)
=============================================================================
