----------------------------- MODULE RestoreTxn -----------------------------
(***************************************************************************)
(* restore_backup_archive (archive_stream.cpp): an archive is extracted    *)
(* into a staging directory under the root, the parts in place are moved   *)
(* aside into it, the staged parts are moved in, the git manifest follows, *)
(* a failure is rolled back, and the staging directory is removed.         *)
(*                                                                         *)
(* Every file-system operation is a step of its own, may fail, and may be  *)
(* the last thing the process does.                                        *)
(***************************************************************************)
EXTENDS RestoreContent

CONSTANTS
  MaxRestores,   \* bound: how many times a restore is started
  MaxFaults,     \* bound: file-system operations that fail in one restore
  CrossDevice,   \* the parts for which rename(2) answers EXDEV
  MayCrash       \* whether the process may be killed during a restore

ASSUME RestoreAssumption ==
  /\ MaxRestores \in Nat
  /\ MaxFaults \in Nat
  /\ CrossDevice \subseteq Part
  /\ MayCrash \in BOOLEAN

VARIABLES
  disk,       \* disk[place][part]: "root", "stage" (the staging directory),
              \* "old" (.stmanager-restore-old-* inside the staging directory)
  pc,         \* the operation under way, "idle" between restores
  mv,         \* how far a cross-device move has got
  had,        \* had_existing_data, had_existing_extensions
  installed,  \* installed_data, installed_extensions
  status,     \* the Status so far; when idle, the one that was returned
  rbFailed,   \* rollback_restore_targets returned an error
  crashed,    \* the last restore did not return
  faults,     \* failed operations in this restore
  attempt,    \* number of this restore and of its archive
  litter,     \* what abandoned staging directories still hold
  before      \* history: the root as this restore found it

vars == <<disk, pc, mv, had, installed, status, rbFailed, crashed, faults,
          attempt, litter, before>>

Place == {"root", "stage", "old"}

-----------------------------------------------------------------------------
(* The plan.  A move takes a part from one place to another; a removal     *)
(* deletes a part of the root.                                             *)

Moves ==
  LET Move(p, src, dst) == [part |-> p, from |-> src, to |-> dst] IN
  [backup_data        |-> Move("data", "root", "old"),
   backup_extensions  |-> Move("extensions", "root", "old"),
   install_data       |-> Move("data", "stage", "root"),
   install_extensions |-> Move("extensions", "stage", "root"),
   install_manifest   |-> Move("manifest", "stage", "root"),
   undo_data          |-> Move("data", "old", "root"),
   undo_extensions    |-> Move("extensions", "old", "root")]

Removals == [drop_manifest   |-> "manifest",
             drop_data       |-> "data",
             drop_extensions |-> "extensions"]

(* Mutant: each part is replaced before the next one is moved aside.       *)
OnDone_OneAtATime ==
  [backup_data        |-> "install_data",
   install_data       |-> "backup_extensions",
   backup_extensions  |-> "install_extensions",
   install_extensions |-> "drop_manifest",
   drop_manifest      |-> "install_manifest",
   install_manifest   |-> "cleanup",
   drop_data          |-> "drop_extensions",
   drop_extensions    |-> "undo_data",
   undo_data          |-> "undo_extensions",
   undo_extensions    |-> "cleanup"]

OnDone == [backup_data        |-> "backup_extensions",
           backup_extensions  |-> "install_data",
           install_data       |-> "install_extensions",
           install_extensions |-> "drop_manifest",
           drop_manifest      |-> "install_manifest",
           install_manifest   |-> "cleanup",
           drop_data          |-> "drop_extensions",
           drop_extensions    |-> "undo_data",
           undo_data          |-> "undo_extensions",
           undo_extensions    |-> "cleanup"]

RollbackSteps == {"drop_data", "drop_extensions",
                  "undo_data", "undo_extensions"}

(* Mutants: a failed backup of the extensions returns at once, as that of  *)
(* the data does; a rollback does not remove what was installed.           *)
OnFail_NoRollback(step) ==
  IF step \in RollbackSteps THEN OnDone[step]
  ELSE IF step \in {"backup_data", "backup_extensions"} THEN "cleanup"
  ELSE "drop_data"
OnFail_NoDrop(step) ==
  IF step \in RollbackSteps THEN OnDone[step]
  ELSE IF step = "backup_data" THEN "cleanup"
  ELSE "undo_data"

(* A rollback records an error and carries on; a failed first backup has   *)
(* nothing to roll back.                                                   *)
OnFail(step) ==
  IF step \in RollbackSteps THEN OnDone[step]
  ELSE IF step = "backup_data" THEN "cleanup"
  ELSE "drop_data"

MoveSteps   == DOMAIN Moves
RemoveSteps == DOMAIN Removals
PC == {"idle", "extract", "check", "cleanup"} \cup MoveSteps \cup RemoveSteps

In(place, part) == Present(disk[place][part])

Needed(step) ==
  /\ step \in {"backup_data", "undo_data"} => "data" \in had
  /\ step \in {"backup_extensions", "undo_extensions"} => "extensions" \in had
  /\ step = "undo_data"        => In("old", "data")
  /\ step = "undo_extensions"  => In("old", "extensions")
  /\ step = "drop_data"        => "data" \in installed
  /\ step = "drop_extensions"  => "extensions" \in installed
  /\ step = "drop_manifest"    => In("root", "manifest")
  /\ step = "install_manifest" => In("stage", "manifest")

-----------------------------------------------------------------------------
(* How an operation ends.                                                  *)

Proceed ==
  /\ pc' = OnDone[pc]
  /\ mv' = "start"
  /\ installed' = IF pc \in {"install_data", "install_extensions"}
                    THEN installed \cup {Moves[pc].part} ELSE installed
  /\ UNCHANGED <<status, rbFailed>>

(* Mutant: the errors of the rollback are not looked at.                   *)
GiveUp_Silent ==
  /\ pc' = OnFail(pc)
  /\ mv' = "start"
  /\ status' = "error"
  /\ UNCHANGED <<rbFailed, installed>>

GiveUp ==
  /\ pc' = OnFail(pc)
  /\ mv' = "start"
  /\ status' = "error"
  /\ rbFailed' = (rbFailed \/ pc \in RollbackSteps)
  /\ UNCHANGED installed

Fault ==
  /\ faults < MaxFaults
  /\ faults' = faults + 1

Put(place, part, c) == disk' = [disk EXCEPT ![place][part] = c]

NoTree == [p \in Part |-> Absent]

(* remove_path_recursive on its way.  The manifest is one file: it is      *)
(* unlinked or it is not.                                                  *)
HalfRemoved(place, part) ==
  IF part \in Managed THEN Halfway(disk[place][part]) ELSE disk[place][part]

-----------------------------------------------------------------------------
(* Starting a restore.                                                     *)

Open(tree) ==
  /\ attempt < MaxRestores
  /\ attempt' = attempt + 1
  /\ disk' = [disk EXCEPT !["root"] = tree]
  /\ before' = tree
  /\ had' = {}
  /\ installed' = {}
  /\ mv' = "start"
  /\ rbFailed' = FALSE
  /\ crashed' = FALSE
  /\ faults' = 0
  /\ UNCHANGED litter

(* Manager::restore_backup works on a root that locate() accepted, a       *)
(* restore into another destination_root on any directory.  The archive is *)
(* opened and the staging directory made, or the call ends there.          *)
Begin ==
  /\ pc = "idle"
  /\ \/ In("root", "data") /\ Open(Located(disk["root"]))
     \/ Open(disk["root"])
  /\ \/ pc' = "extract" /\ status' = "ok"
     \/ pc' = "idle" /\ status' = "error"

(* A root without data is refused by locate(), which by then has created   *)
(* the extensions directory: no Manager can be created for it any more.    *)
RefuseRoot ==
  /\ pc = "idle"
  /\ ~In("root", "data")
  /\ disk' = [disk EXCEPT !["root"] = Located(@)]
  /\ before' = Located(disk["root"])
  /\ status' = "error"
  /\ rbFailed' = FALSE
  /\ crashed' = FALSE
  /\ UNCHANGED <<pc, mv, had, installed, faults, attempt, litter>>

(* An archive may lack a part, and its manifest entry may be a directory.  *)
Archive(v) ==
  {a \in [Part -> {Absent, Whole(v), [ver |-> v, state |-> "dir"]}] :
     \A p \in Managed : a[p].state # "dir"}

(* An extraction that fails leaves something that nothing reads again.     *)
Unfinished(v) == [Part -> {Absent, Torn(v)}]

Extract ==
  /\ pc = "extract"
  /\ \/ /\ \E a \in Archive(attempt) : disk' = [disk EXCEPT !["stage"] = a]
        /\ pc' = "check"
        /\ UNCHANGED status
     \/ /\ \E a \in Unfinished(attempt) : disk' = [disk EXCEPT !["stage"] = a]
        /\ pc' = "cleanup"
        /\ status' = "error"
  /\ UNCHANGED <<mv, had, installed, rbFailed, crashed, faults, attempt,
                 litter, before>>

(* Mutant: the manifest in place is treated as a managed part.             *)
Check_Manifest ==
  /\ pc = "check"
  /\ IF \A p \in Managed : In("stage", p)
       THEN /\ had' = {p \in Part : In("root", p)}
            /\ pc' = "backup_data"
            /\ UNCHANGED status
       ELSE /\ pc' = "cleanup"
            /\ status' = "error"
            /\ UNCHANGED had
  /\ UNCHANGED <<disk, mv, installed, rbFailed, crashed, faults, attempt,
                 litter, before>>

Check ==
  /\ pc = "check"
  /\ IF \A p \in Managed : In("stage", p)
       THEN /\ had' = {p \in Managed : In("root", p)}
            /\ pc' = "backup_data"
            /\ UNCHANGED status
       ELSE /\ pc' = "cleanup"
            /\ status' = "error"
            /\ UNCHANGED had
  /\ UNCHANGED <<disk, mv, installed, rbFailed, crashed, faults, attempt,
                 litter, before>>

-----------------------------------------------------------------------------
(* Carrying out the plan.                                                  *)

BadManifest ==
  pc = "drop_manifest" /\ disk["stage"]["manifest"].state = "dir"

Skip ==
  /\ pc \in MoveSteps \cup RemoveSteps
  /\ ~Needed(pc)
  /\ ~BadManifest
  /\ Proceed
  /\ UNCHANGED <<disk, had, crashed, faults, attempt, litter, before>>

RejectManifest ==
  /\ BadManifest
  /\ GiveUp
  /\ UNCHANGED <<disk, had, crashed, faults, attempt, litter, before>>

At(step, phase) == pc = step /\ mv = phase /\ Needed(step)

(* move_or_copy_path checks both ends, then renames.                       *)
MoveAllowed(m) == In(m.from, m.part) /\ ~In(m.to, m.part)

MoveRefused(step) ==
  /\ At(step, "start")
  /\ ~MoveAllowed(Moves[step])
  /\ GiveUp
  /\ UNCHANGED <<disk, had, crashed, faults, attempt, litter, before>>

MoveFails(step) ==
  /\ At(step, "start")
  /\ MoveAllowed(Moves[step])
  /\ Fault
  /\ GiveUp
  /\ UNCHANGED <<disk, had, crashed, attempt, litter, before>>

Rename(step) ==
  LET m == Moves[step] IN
  /\ At(step, "start")
  /\ MoveAllowed(m)
  /\ m.part \notin CrossDevice
  /\ disk' = [disk EXCEPT ![m.to][m.part] = disk[m.from][m.part],
                          ![m.from][m.part] = Absent]
  /\ Proceed
  /\ UNCHANGED <<had, crashed, faults, attempt, litter, before>>

(* Mutant: a part is copied whatever rename(2) answers, not for EXDEV only.*)
CopyBegins_Always(step) ==
  LET m == Moves[step] IN
  /\ At(step, "start")
  /\ MoveAllowed(m)
  /\ Put(m.to, m.part, Halfway(disk[m.from][m.part]))
  /\ mv' = "copying"
  /\ UNCHANGED <<pc, had, installed, status, rbFailed, crashed, faults,
                 attempt, litter, before>>

(* EXDEV: copy the tree, remove the source; if the source cannot be        *)
(* removed, remove the copy, whose own outcome is ignored.                 *)
CopyBegins(step) ==
  LET m == Moves[step] IN
  /\ At(step, "start")
  /\ MoveAllowed(m)
  /\ m.part \in CrossDevice
  /\ Put(m.to, m.part, Halfway(disk[m.from][m.part]))
  /\ mv' = "copying"
  /\ UNCHANGED <<pc, had, installed, status, rbFailed, crashed, faults,
                 attempt, litter, before>>

CopyEnds(step) ==
  LET m == Moves[step] IN
  /\ pc = step /\ mv = "copying"
  /\ Put(m.to, m.part, disk[m.from][m.part])
  /\ mv' = "unlinking"
  /\ UNCHANGED <<pc, had, installed, status, rbFailed, crashed, faults,
                 attempt, litter, before>>

(* Mutant: the status of the copy is not checked.                          *)
CopyFails_Ignored(step) ==
  /\ pc = step /\ mv = "copying"
  /\ Fault
  /\ mv' = "unlinking"
  /\ UNCHANGED <<disk, pc, had, installed, status, rbFailed, crashed,
                 attempt, litter, before>>

CopyFails(step) ==
  /\ pc = step /\ mv = "copying"
  /\ Fault
  /\ GiveUp
  /\ UNCHANGED <<disk, had, crashed, attempt, litter, before>>

UnlinkProgress(step) ==
  LET m == Moves[step] IN
  /\ pc = step /\ mv = "unlinking"
  /\ HalfRemoved(m.from, m.part) # disk[m.from][m.part]
  /\ Put(m.from, m.part, HalfRemoved(m.from, m.part))
  /\ UNCHANGED <<pc, mv, had, installed, status, rbFailed, crashed, faults,
                 attempt, litter, before>>

UnlinkEnds(step) ==
  LET m == Moves[step] IN
  /\ pc = step /\ mv = "unlinking"
  /\ Put(m.from, m.part, Absent)
  /\ Proceed
  /\ UNCHANGED <<had, crashed, faults, attempt, litter, before>>

UnlinkFails(step) ==
  /\ pc = step /\ mv = "unlinking"
  /\ Fault
  /\ mv' = "scrapping"
  /\ UNCHANGED <<disk, pc, had, installed, status, rbFailed, crashed,
                 attempt, litter, before>>

ScrapEnds(step) ==
  LET m == Moves[step] IN
  /\ pc = step /\ mv = "scrapping"
  /\ \/ Put(m.to, m.part, Absent) /\ UNCHANGED faults
     \/ /\ \E c \in {disk[m.to][m.part], HalfRemoved(m.to, m.part)} :
             Put(m.to, m.part, c)
        /\ Fault
  /\ GiveUp
  /\ UNCHANGED <<had, crashed, attempt, litter, before>>

Move ==
  \E step \in MoveSteps :
    \/ MoveRefused(step) \/ MoveFails(step) \/ Rename(step)
    \/ CopyBegins(step) \/ CopyEnds(step) \/ CopyFails(step)
    \/ UnlinkProgress(step) \/ UnlinkEnds(step) \/ UnlinkFails(step)
    \/ ScrapEnds(step)

(* remove_path_recursive of a part of the root.                            *)
RemoveProgress(step) ==
  LET p == Removals[step] IN
  /\ At(step, "start")
  /\ HalfRemoved("root", p) # disk["root"][p]
  /\ Put("root", p, HalfRemoved("root", p))
  /\ UNCHANGED <<pc, mv, had, installed, status, rbFailed, crashed, faults,
                 attempt, litter, before>>

RemoveEnds(step) ==
  /\ At(step, "start")
  /\ ~BadManifest
  /\ Put("root", Removals[step], Absent)
  /\ Proceed
  /\ UNCHANGED <<had, crashed, faults, attempt, litter, before>>

RemoveFails(step) ==
  /\ At(step, "start")
  /\ ~BadManifest
  /\ Fault
  /\ GiveUp
  /\ UNCHANGED <<disk, had, crashed, attempt, litter, before>>

Remove ==
  \E step \in RemoveSteps :
    RemoveProgress(step) \/ RemoveEnds(step) \/ RemoveFails(step)

-----------------------------------------------------------------------------
(* Removing the staging directory, which holds the old parts too, whatever *)
(* became of the restore and of its rollback.                              *)

Leftovers ==
  {<<p, disk[pl][p]>> : pl \in {"stage", "old"}, p \in Part}

Return ==
  /\ pc' = "idle"
  /\ mv' = "start"
  /\ disk' = [disk EXCEPT !["stage"] = NoTree, !["old"] = NoTree]

(* Mutant: an old part is deleted as soon as it is aside.                  *)
CleanProgress_AtOnce ==
  /\ pc \in MoveSteps \cup RemoveSteps \cup {"cleanup"}
  /\ \E p \in Part :
       /\ In("old", p)
       /\ Put("old", p, Absent) \/ Put("old", p, HalfRemoved("old", p))
  /\ UNCHANGED <<pc, mv, had, installed, status, rbFailed, crashed, faults,
                 attempt, litter, before>>

CleanProgress ==
  /\ pc = "cleanup"
  /\ \E pl \in {"stage", "old"}, p \in Part :
       /\ In(pl, p)
       /\ Put(pl, p, Absent) \/ Put(pl, p, HalfRemoved(pl, p))
  /\ UNCHANGED <<pc, mv, had, installed, status, rbFailed, crashed, faults,
                 attempt, litter, before>>

CleanEnds ==
  /\ pc = "cleanup"
  /\ Return
  /\ UNCHANGED <<had, installed, status, rbFailed, crashed, faults, attempt,
                 litter, before>>

CleanFails ==
  /\ pc = "cleanup"
  /\ Fault
  /\ Return
  /\ litter' = litter \cup Leftovers
  /\ status' = "error"
  /\ UNCHANGED <<had, installed, rbFailed, crashed, attempt, before>>

(* The process is killed.  Nothing looks for a staging directory later.    *)
Crash ==
  /\ MayCrash
  /\ pc # "idle"
  /\ Return
  /\ litter' = litter \cup Leftovers
  /\ crashed' = TRUE
  /\ UNCHANGED <<had, installed, status, rbFailed, faults, attempt, before>>

-----------------------------------------------------------------------------

Init ==
  /\ \E tree \in [Part -> {Absent, Whole(0)}] :
       /\ disk = [root |-> tree, stage |-> NoTree, old |-> NoTree]
       /\ before = tree
  /\ pc = "idle"
  /\ mv = "start"
  /\ had = {}
  /\ installed = {}
  /\ status = "none"
  /\ rbFailed = FALSE
  /\ crashed = FALSE
  /\ faults = 0
  /\ attempt = 0
  /\ litter = {}

Next ==
  \/ Begin \/ RefuseRoot \/ Extract \/ Check
  \/ Skip \/ RejectManifest \/ Move \/ Remove
  \/ CleanProgress \/ CleanEnds \/ CleanFails
  \/ Crash

Spec == Init /\ [][Next]_vars

-----------------------------------------------------------------------------
(* Type invariant.  Between restores the staging directory of the next     *)
(* restore does not exist.                                                 *)
TypeOK ==
  /\ disk \in [Place -> [Part -> Content]]
  /\ pc \in PC
  /\ mv \in {"start", "copying", "unlinking", "scrapping"}
  /\ had \subseteq Managed
  /\ installed \subseteq Managed
  /\ status \in {"none", "ok", "error"}
  /\ rbFailed \in BOOLEAN
  /\ crashed \in BOOLEAN
  /\ faults \in 0..MaxFaults
  /\ attempt \in 0..MaxRestores
  /\ litter \subseteq (Part \X Content)
  /\ before \in [Part -> Content]
  /\ pc = "idle" => disk["stage"] = NoTree /\ disk["old"] = NoTree

Copies(p) ==
  {disk[pl][p] : pl \in Place} \cup {e[2] : e \in {l \in litter : l[1] = p}}

(* Whatever fails and wherever the process is killed, a part that was      *)
(* complete under the root when a restore began still has a complete copy  *)
(* on disk, of the old version or of the new one, unless the restore says  *)
(* that its rollback failed.  It is stated for the parts that rename(2)    *)
(* can move; the removal of the staging directory, which deletes the old   *)
(* copies unconditionally, is what threatens it.                           *)
LossIsReported ==
  ~rbFailed =>
    \A p \in Managed \ CrossDevice :
      before[p].state = "whole" =>
        \E v \in {before[p].ver, attempt} : Whole(v) \in Copies(p)

Stocked(c) == c.state \in {"whole", "part"}

Mixed(tree) ==
  /\ Stocked(tree["data"]) /\ Stocked(tree["extensions"])
  /\ tree["data"].ver # tree["extensions"].ver

(* No moment of a restore, a crash included, shows a data tree of one      *)
(* archive beside the extensions of another to whoever reads the root (a   *)
(* running server backs it up): both old parts are out of the way before   *)
(* the first new one comes in.  A failed rollback is the exception.        *)
NeverMixed ==
  CrossDevice = {} /\ Mixed(disk["root"]) => rbFailed \/ Mixed(before)

(* A restore that returned success has replaced everything, with or        *)
(* without cross-device moves.                                             *)
OkMeansReplaced ==
  pc = "idle" /\ status = "ok" /\ ~crashed =>
    /\ \A p \in Managed : disk["root"][p] = Whole(attempt)
    /\ disk["root"]["manifest"] \in {Absent, Whole(attempt)}

(* "Restore is full replacement for managed data and third-party           *)
(* extensions" (data.h): once it has returned, each managed part is the    *)
(* archive's, or, after an error that does not say "rollback failed", what *)
(* it was.                                                                 *)
FullReplacement ==
  pc = "idle" /\ ~crashed /\ ~rbFailed =>
    \A p \in Managed :
      disk["root"][p] \in {Whole(attempt), before[p]}

(* The restore implements AtomicRestore.  During a restore the store is    *)
(* what it was at the beginning: it changes when the call returns.         *)
Returned ==
  IF crashed THEN "crashed" ELSE IF rbFailed THEN "rollback_failed" ELSE status

Atomic == INSTANCE AtomicRestore
            WITH store   <- IF pc = "idle" THEN disk["root"] ELSE before,
                 outcome <- IF pc = "idle" THEN Returned ELSE "running",
                 calls   <- attempt

ImplementsAtomicRestore == Atomic!Spec

=============================================================================
