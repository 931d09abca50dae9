------------------------------ MODULE SelfUpdate ------------------------------
(***************************************************************************)
(* internal/selfupdate and internal/cli/update.go: the CLI replaces its    *)
(* own executable.  Any normal start of the CLI removes the backup of an   *)
(* earlier update (CleanupOld, without a lock) and may spawn an update     *)
(* child (MaybeStartAutomatic); `mi-lsp update` starts one by hand.  An    *)
(* updater holds the global flock, asks for the latest release through a   *)
(* cache shared by a 24 h window, and runs the transaction: owner marker,  *)
(* backup (a hard link on POSIX, a move on Windows), promotion by rename,  *)
(* readback of the new image, restore when the readback fails.             *)
(*                                                                         *)
(* An image is the version it reports, 1..MaxVersion.  Nobody but the      *)
(* processes of this program touches the installation directory.  The      *)
(* policy (pinned, disabled) and the version floor are left out; the       *)
(* failures before the transaction begins are one outcome, "offline".      *)
(***************************************************************************)
EXTENDS Naturals, FiniteSets

CONSTANTS Procs,        \* slots for CLI and updater processes
          MaxVersion,   \* newest version ever released
          MaxFaults,    \* bound on the faults of one behaviour
          NoFile,       \* the path does not exist
          NoProc        \* the flock is free

VARIABLES platform,     \* "posix" or "windows", fixed
          exe,          \* image at the executable's path
          bak,          \* image at <exe>.old
          owner,        \* hash in <exe>.old.update-owner
          upd,          \* the processes
          ulock,        \* holder of the update flock
          ucache,       \* the shared metadata cache: error, release, fresh
          ustatus,      \* this installation's saved status
          released,     \* newest published version
          faults        \* kinds of fault that have happened, each at most once

disk == <<exe, bak, owner>>
suVars == <<platform, exe, bak, owner, upd, ulock, ucache, ustatus, released, faults>>

Versions == 1..MaxVersion
Off == [pc |-> "off", img |-> NoFile, auto |-> FALSE, old |-> NoFile,
        rel |-> NoFile, code |-> "none"]
Posix == platform = "posix"

SelfUpdateTypeOK ==
    /\ platform \in {"posix", "windows"}
    /\ {exe, bak, owner} \subseteq Versions \cup {NoFile}
    /\ ulock \in Procs \cup {NoProc}
    /\ released \in Versions
    /\ \A p \in Procs : upd[p].img \in Versions \cup {NoFile}

SelfUpdateInit ==
    /\ platform \in {"posix", "windows"}
    /\ exe = 1 /\ bak = NoFile /\ owner = NoFile
    /\ upd = [p \in Procs |-> Off]
    /\ ulock = NoProc
    /\ ucache = [err |-> FALSE, rel |-> NoFile, fresh |-> FALSE]
    /\ ustatus = [result |-> "none", latest |-> NoFile, installed |-> NoFile, current |-> FALSE]
    /\ released = 1
    /\ faults = {}

At(p, pc) == upd[p].pc = pc
Goto(p, pc) == upd' = [upd EXCEPT ![p].pc = pc]
Exit(p) == /\ upd' = [upd EXCEPT ![p] = Off]
           /\ ulock' = IF ulock = p THEN NoProc ELSE ulock
Happens(kind) == Cardinality(faults) < MaxFaults /\ kind \notin faults /\ faults' = faults \cup {kind}

\* saveStatus: the status carries the LastCheck of the cache it was computed from.
Save(p, result) ==
    ustatus' = [result |-> result, latest |-> upd[p].rel, installed |-> exe, current |-> TRUE]

-----------------------------------------------------------------------------
(* A normal start of the CLI. *)

\* startAutomaticUpdate: the process runs the image at the executable's path.
StartCli(p) ==
    /\ At(p, "off") /\ exe # NoFile
    /\ upd' = [upd EXCEPT ![p] = [Off EXCEPT !.pc = "clean", !.img = exe, !.auto = TRUE]]
    /\ UNCHANGED <<platform, disk, ulock, ucache, ustatus, released, faults>>

\* CleanupOld up to its verdict: the marker is readable, the backup is there and has its hash.
Verified == owner # NoFile /\ bak = owner
CleanRead(p) ==
    /\ At(p, "clean")
    /\ Goto(p, IF Verified THEN "cleanBackup" ELSE "spawn")
    /\ UNCHANGED <<platform, disk, ulock, ucache, ustatus, released, faults>>

\* os.Remove of an image: Windows refuses while a process runs it.
UnlinksAny(image) == image # NoFile
Unlinks(image) == image # NoFile /\ (Posix \/ \A q \in Procs : upd[q].img # image)
CleanBackupAnyway(p) ==
    /\ At(p, "cleanBackup")
    /\ bak' = IF Unlinks(bak) THEN NoFile ELSE bak
    /\ Goto(p, "cleanMarker")
    /\ UNCHANGED <<platform, exe, owner, ulock, ucache, ustatus, released, faults>>
CleanBackup(p) ==
    /\ At(p, "cleanBackup")
    /\ \/ Unlinks(bak) /\ bak' = NoFile /\ Goto(p, "cleanMarker")
       \/ ~Unlinks(bak) /\ bak' = bak /\ Goto(p, "spawn")
    /\ UNCHANGED <<platform, exe, owner, ulock, ucache, ustatus, released, faults>>

CleanMarker(p) ==
    /\ At(p, "cleanMarker")
    /\ owner' = NoFile
    /\ Goto(p, "spawn")
    /\ UNCHANGED <<platform, exe, bak, ulock, ucache, ustatus, released, faults>>

\* The same without looking at the age of the check.
ConsumedForever ==
    /\ ustatus.current /\ ustatus.result \notin {"none", "deferred"}
    /\ IF ucache.err THEN ustatus.result = "unreachable" ELSE ustatus.latest = ucache.rel

\* The window's result was already consumed by this installation.
Consumed ==
    /\ ucache.fresh /\ ustatus.current /\ ustatus.result \notin {"none", "deferred"}
    /\ IF ucache.err THEN ustatus.result = "unreachable" ELSE ustatus.latest = ucache.rel

\* MaybeStartAutomatic: the child, started from the executable's path, takes this slot.
Spawn(p) ==
    /\ At(p, "spawn")
    /\ \/ (Consumed \/ exe = NoFile) /\ Exit(p)
       \/ /\ ~Consumed /\ exe # NoFile
          /\ upd' = [upd EXCEPT ![p].pc = "apply", ![p].img = exe]
          /\ UNCHANGED ulock
    /\ UNCHANGED <<platform, disk, ucache, ustatus, released, faults>>

\* `mi-lsp update`: no cleanup, and the cache is not consulted.
StartUpdate(p) ==
    /\ At(p, "off") /\ exe # NoFile
    /\ upd' = [upd EXCEPT ![p] = [Off EXCEPT !.pc = "apply", !.img = exe]]
    /\ UNCHANGED <<platform, disk, ulock, ucache, ustatus, released, faults>>

-----------------------------------------------------------------------------
(* Updater.Apply. *)

\* A busy flock is UPDATE_LOCKED, which is reported and not saved.
Apply(p) ==
    /\ At(p, "apply")
    /\ \/ (ulock # NoProc \/ exe = NoFile) /\ Exit(p)
       \/ ulock = NoProc /\ exe # NoFile /\ ulock' = p /\ Goto(p, "decide")
    /\ UNCHANGED <<platform, disk, ucache, ustatus, released, faults>>

\* applyLocked: reuse the window's answer, or claim the window before asking.
Decide(p) ==
    /\ At(p, "decide")
    /\ \/ /\ upd[p].auto /\ ucache.fresh
          /\ \/ Consumed /\ ustatus.installed = exe /\ Exit(p) /\ UNCHANGED ustatus
             \/ /\ ucache.err /\ ~(Consumed /\ ustatus.installed = exe)
                /\ Exit(p) /\ Save(p, "unreachable")
             \/ /\ ~ucache.err /\ ~(Consumed /\ ustatus.installed = exe)
                /\ upd' = [upd EXCEPT ![p].pc = "compare", ![p].rel = ucache.rel]
                /\ UNCHANGED <<ulock, ustatus>>
          /\ UNCHANGED ucache
       \/ /\ ~(upd[p].auto /\ ucache.fresh)
          /\ ucache' = [err |-> TRUE, rel |-> NoFile, fresh |-> TRUE]
          /\ ustatus' = [ustatus EXCEPT !.current = FALSE]
          /\ Goto(p, "ask")
          /\ UNCHANGED ulock
    /\ UNCHANGED <<platform, disk, released, faults>>

Ask(p) ==
    /\ At(p, "ask")
    /\ \/ /\ Happens("offline")
          /\ UNCHANGED ucache /\ Exit(p) /\ Save(p, "unreachable")
       \/ /\ ucache' = [ucache EXCEPT !.err = FALSE, !.rel = released]
          /\ upd' = [upd EXCEPT ![p].pc = "compare", ![p].rel = released]
          /\ UNCHANGED <<ulock, ustatus, faults>>
    /\ UNCHANGED <<platform, disk, released>>

\* Version comparison, download and checksum.
Compare(p) ==
    /\ At(p, "compare")
    /\ \/ upd[p].rel < exe /\ Exit(p) /\ Save(p, "failed") /\ UNCHANGED faults
       \/ upd[p].rel = exe /\ Exit(p) /\ Save(p, "up_to_date") /\ UNCHANGED faults
       \/ upd[p].rel > exe /\ Happens("offline") /\ Exit(p) /\ Save(p, "failed")
       \/ upd[p].rel > exe /\ Goto(p, "mark") /\ UNCHANGED <<ulock, ustatus, faults>>
    /\ UNCHANGED <<platform, disk, ucache, released>>

-----------------------------------------------------------------------------
(* ApplyTransaction. *)

\* A backup that is still there defers; a marker that is still there is an error without a code.
Mark(p) ==
    /\ At(p, "mark")
    /\ \/ bak # NoFile /\ UNCHANGED owner /\ Exit(p) /\ Save(p, "deferred")
       \/ bak = NoFile /\ owner # NoFile /\ UNCHANGED <<owner, ustatus>> /\ Exit(p)
       \/ /\ bak = NoFile /\ owner = NoFile
          /\ owner' = exe
          /\ upd' = [upd EXCEPT ![p].pc = "backup", ![p].old = exe]
          /\ UNCHANGED <<ulock, ustatus>>
    /\ UNCHANGED <<platform, exe, bak, ucache, released, faults>>

\* txBackup, os.Link or MoveFile; its failure removes the marker.
Backup(p) ==
    /\ At(p, "backup")
    /\ \/ /\ bak' = exe
          /\ exe' = IF Posix THEN exe ELSE NoFile
          /\ Goto(p, "verify")
          /\ UNCHANGED <<owner, ulock, faults>>
       \/ Happens("io") /\ owner' = NoFile /\ Exit(p) /\ UNCHANGED <<exe, bak>>
    /\ UNCHANGED <<platform, ucache, ustatus, released>>

\* Backup and target are still the image hashed at the start; otherwise everything is left as it is.
StillOriginal(p) == bak = upd[p].old /\ exe = (IF Posix THEN upd[p].old ELSE NoFile)
Verify(p) ==
    /\ At(p, "verify")
    /\ \/ StillOriginal(p) /\ Goto(p, "promote") /\ UNCHANGED ulock
       \/ ~StillOriginal(p) /\ Exit(p)
    /\ UNCHANGED <<platform, disk, ucache, ustatus, released, faults>>

\* The rename of the stage over the target, and what follows its failure.
Promote(p) ==
    /\ At(p, "promote")
    /\ \/ exe' = upd[p].rel /\ Goto(p, "readback") /\ UNCHANGED <<bak, faults>>
       \/ /\ Happens("io") /\ exe' = exe
          /\ bak' = IF Posix THEN NoFile ELSE bak
          /\ \E code \in {"none", "deferred"} :
                upd' = [upd EXCEPT ![p].code = code,
                                   ![p].pc = IF Posix THEN "unmark" ELSE "restore"]
    /\ UNCHANGED <<platform, owner, ulock, ucache, ustatus, released>>

\* The new image is asked its version; on Windows it may have been taken away.
Readback(p) ==
    /\ At(p, "readback")
    /\ \/ Goto(p, "finish") /\ UNCHANGED <<exe, faults>>
       \/ /\ Happens("readback")
          /\ exe' \in IF ~Posix /\ Unlinks(exe) THEN {exe, NoFile} ELSE {exe}
          /\ upd' = [upd EXCEPT ![p].pc = "restore", ![p].code = "failed"]
    /\ UNCHANGED <<platform, bak, owner, ulock, ucache, ustatus, released>>

\* restore: only the unchanged backup, only over the promoted image; Windows removes the target first.
Restorable(p) ==
    /\ bak = upd[p].old /\ exe \in {upd[p].rel, NoFile}
    /\ Posix \/ exe = NoFile \/ Unlinks(exe)
Restore(p) ==
    /\ At(p, "restore")
    /\ \/ /\ Restorable(p)
          /\ exe' = IF Posix THEN exe ELSE NoFile
          /\ Goto(p, "swapBack") /\ UNCHANGED ulock
       \/ ~Restorable(p) /\ exe' = exe /\ Exit(p)
    /\ UNCHANGED <<platform, bak, owner, ucache, ustatus, released, faults>>

SwapBack(p) ==
    /\ At(p, "swapBack")
    /\ \/ bak # NoFile /\ exe' = bak /\ bak' = NoFile /\ Goto(p, "unmark") /\ UNCHANGED ulock
       \/ bak = NoFile /\ UNCHANGED <<exe, bak>> /\ Exit(p)
    /\ UNCHANGED <<platform, owner, ucache, ustatus, released, faults>>

\* The marker goes last; a coded failure is saved, one without a code is not.
Unmark(p) ==
    /\ At(p, "unmark")
    /\ owner' = NoFile
    /\ UNCHANGED <<exe, bak>>
    /\ Exit(p)
    /\ IF upd[p].code = "none" \/ exe # upd[p].old THEN UNCHANGED ustatus ELSE Save(p, upd[p].code)
    /\ UNCHANGED <<platform, ucache, released, faults>>

\* "updated": the backup and its marker stay for a later start.
Finish(p) ==
    /\ At(p, "finish")
    /\ UNCHANGED disk
    /\ Exit(p)
    /\ IF exe = upd[p].rel THEN Save(p, "updated") ELSE UNCHANGED ustatus
    /\ UNCHANGED <<platform, ucache, released, faults>>

-----------------------------------------------------------------------------
(* The environment. *)

Crash(p) ==
    /\ ~At(p, "off") /\ Happens("crash")
    /\ Exit(p)
    /\ UNCHANGED <<platform, disk, ucache, ustatus, released>>

Publish ==
    /\ released < MaxVersion /\ released' = released + 1
    /\ UNCHANGED <<platform, disk, upd, ulock, ucache, ustatus, faults>>

WindowPasses ==
    /\ ucache.fresh /\ ucache' = [ucache EXCEPT !.fresh = FALSE]
    /\ UNCHANGED <<platform, disk, upd, ulock, ustatus, released, faults>>

UpdaterStep(p) ==
    \/ CleanRead(p) \/ CleanBackup(p) \/ CleanMarker(p) \/ Spawn(p)
    \/ Apply(p) \/ Decide(p) \/ Ask(p) \/ Compare(p)
    \/ Mark(p) \/ Backup(p) \/ Verify(p) \/ Promote(p) \/ Readback(p)
    \/ Restore(p) \/ SwapBack(p) \/ Unmark(p) \/ Finish(p)

SelfUpdateNext ==
    \/ \E p \in Procs : StartCli(p) \/ StartUpdate(p) \/ UpdaterStep(p) \/ Crash(p)
    \/ Publish \/ WindowPasses

SelfUpdateSpec == SelfUpdateInit /\ [][SelfUpdateNext]_suVars

-----------------------------------------------------------------------------
(* Properties. *)

\* The installation always has an image: on POSIX the executable never
\* disappears, and on Windows, where it does between the move and the
\* promotion, the original is still at <exe>.old - whoever cleans meanwhile
\* and wherever the updater dies (ApplyTransaction, CleanupOld, txBackupSafe).
ImageSurvives == exe = NoFile => ~Posix /\ bak # NoFile

\* Marker and backup come apart for good - which blocks every later update -
\* only after a crash or a failed rename: with no process running, one is
\* there exactly when the other is, holding the same image.
PairedUnlessFault ==
    (\A p \in Procs : At(p, "off")) /\ faults \cap {"crash", "io"} = {} => bak = owner

\* An installation that is used gets the newest release, however updates,
\* cleanups and deferrals interleave, unless a crash or failed rename came
\* in between.
UpToDate == exe = MaxVersion \/ faults \cap {"crash", "io"} # {}
UpdateArrives == <>UpToDate
=============================================================================
