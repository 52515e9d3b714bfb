---------------------------- MODULE BackupExport ----------------------------
(***************************************************************************)
(* Manager::export_backup (sync.cpp) with write_backup_archive             *)
(* (archive_stream.cpp), by one process, beside the restore of RestoreTxn, *)
(* by another, on the same root: no lock keeps them apart.  A server that  *)
(* answers a pull walks the root in the same way.                          *)
(*                                                                         *)
(* The walk looks up every name by its path and finds what the restore has *)
(* put there by then.  The list of the names comes from the directory that *)
(* it has open, wherever that is by then and whatever is left in it.       *)
(***************************************************************************)
EXTENDS RestoreTxn

CONSTANT MaxExports   \* bound: how many exports are started

ASSUME ExportAssumption == MaxExports \in Nat

VARIABLES
  walk,      \* the part being walked, or what comes before or after; "idle"
  got,       \* got[p]: the contents that the archive's entries of p are from,
             \* until the archive is closed or given up
  held,      \* the directory that is open, if it was complete when opened
  short,     \* the versions of the part being walked that were listed
             \* without files that had been deleted
  temp,      \* the temporary archive of this export exists
  out,       \* what the export file holds
  exported,  \* what the last export returned, "none" while it runs
  exports    \* the number of exports so far

exportVars == <<walk, got, held, short, temp, out, exported, exports>>

-----------------------------------------------------------------------------
(* The walk.                                                               *)

(* The git manifest of an archive lists the remotes of the extensions.     *)
Source(p) == IF p = "manifest" THEN "extensions" ELSE p

AfterPart ==
  [manifest |-> "data", data |-> "extensions", extensions |-> "close"]

NothingYet == [p \in Part |-> {}]

(* "at" is where the open directory is, "litter" in an abandoned staging   *)
(* directory, "lost" when files have been deleted from it.                 *)
Closed == [at |-> "closed", ver |-> 0]

(* How a call comes back.  The temporary archive is unlinked on every path.*)
Finish(how) ==
  /\ walk' = "idle"
  /\ got' = NothingYet
  /\ held' = Closed
  /\ short' = {}
  /\ temp' = FALSE
  /\ exported' = how

(* The file is opened, and truncated, before anything is read.             *)
OpenFile ==
  /\ walk = "idle"
  /\ exports < MaxExports
  /\ exports' = exports + 1
  /\ \/ /\ walk' = "temp"
        /\ out' = "empty"
        /\ exported' = "none"
        /\ UNCHANGED <<got, held, short, temp>>
     \/ Finish("error") /\ UNCHANGED out

MakeTemp ==
  /\ walk = "temp"
  /\ temp' = TRUE
  /\ walk' = "manifest"
  /\ UNCHANGED <<got, held, short, out, exported, exports>>

(* lstat and opendir of a directory, or the reading of a file.  What is    *)
(* listed in a directory is visited when it is closed again.  The listing  *)
(* for the git manifest is not followed: an extension that it misses is    *)
(* archived with its files.                                                *)
Visit(p) ==
  LET c == disk["root"][Source(p)] IN
  /\ walk = p
  /\ held = Closed
  /\ Present(c)
  /\ got' = [got EXCEPT ![p] = @ \cup {c}]
  /\ \/ UNCHANGED held
     \/ /\ p \in Managed /\ c.state = "whole"
        /\ held' = [at |-> "root", ver |-> c.ver]
  /\ UNCHANGED <<walk, short, temp, out, exported, exports>>

(* readdir has returned NULL, then closedir.  Nobody asks why it did: at   *)
(* the end, in a directory that has lost files, or for an error.           *)
CloseDirectory ==
  /\ held # Closed
  /\ held' = Closed
  /\ short' = IF held.at = "lost"
                THEN short \cup {held.ver} ELSE short
  /\ UNCHANGED <<walk, got, temp, out, exported, exports>>

(* Every name of every listing was found; only git mode lists remotes.     *)
Leave(p) ==
  /\ walk = p
  /\ held = Closed
  /\ got[p] # {} \/ p = "manifest"
  /\ walk' = AfterPart[p]
  /\ short' = {}
  /\ UNCHANGED <<got, held, temp, out, exported, exports>>

(* A listed name is gone, a file is shorter than its header says, an entry *)
(* is neither file nor directory, the temporary file cannot be made or     *)
(* written: the call returns an error and leaves the export file empty.    *)
Abandon ==
  /\ walk \in {"temp", "close"} \cup Part
  /\ Finish("error")
  /\ UNCHANGED <<out, exports>>

CloseArchive ==
  /\ walk = "close"
  /\ walk' = "copy"
  /\ got' = NothingYet
  /\ UNCHANGED <<held, short, temp, out, exported, exports>>

-----------------------------------------------------------------------------
(* From the temporary archive to the export file.  The last bytes stay in  *)
(* the buffer of the stream until it is flushed.                           *)

CopyOut ==
  /\ walk = "copy"
  /\ out' = "part"
  /\ UNCHANGED <<walk, got, held, short, temp, exported, exports>>

(* Mutant: the temporary archive is unlinked only after a good copy.       *)
CopyOutEnds_Leaks ==
  /\ walk = "copy" /\ out = "part"
  /\ \/ /\ walk' = "flush"
        /\ temp' = FALSE
        /\ UNCHANGED exported
     \/ /\ walk' = "idle"
        /\ exported' = "error"
        /\ UNCHANGED temp
  /\ UNCHANGED <<got, held, short, out, exports>>

CopyOutEnds ==
  /\ walk = "copy" /\ out = "part"
  /\ \/ /\ walk' = "flush"
        /\ temp' = FALSE
        /\ UNCHANGED <<got, held, short, exported>>
     \/ Finish("error")
  /\ UNCHANGED <<out, exports>>

(* Mutant: the stream is not flushed before its state is looked at.        *)
Flush_Unchecked ==
  /\ walk = "flush"
  /\ Finish("ok")
  /\ out' \in {"part", "whole"}
  /\ UNCHANGED exports

Flush ==
  /\ walk = "flush"
  /\ \/ Finish("ok") /\ out' = "whole"
     \/ Finish("error") /\ UNCHANGED out
  /\ UNCHANGED exports

KillExport ==
  /\ walk # "idle"
  /\ walk' = "idle"
  /\ got' = NothingYet
  /\ held' = Closed
  /\ short' = {}
  /\ exported' = "killed"
  /\ UNCHANGED <<temp, out, exports>>

ExportStep ==
  \/ OpenFile \/ MakeTemp \/ Abandon \/ CloseArchive
  \/ \E p \in Part : Visit(p) \/ Leave(p)
  \/ CloseDirectory
  \/ CopyOut \/ CopyOutEnds \/ Flush
  \/ KillExport

-----------------------------------------------------------------------------
(* Any process that creates a Manager for the root, or looks for a root,   *)
(* calls locate(), which creates a missing extensions directory, also in   *)
(* the middle of a restore that has just moved it away.                    *)
CreateManager ==
  /\ ~In("root", "extensions")
  /\ disk' = [disk EXCEPT !["root"] = Located(@)]
  /\ UNCHANGED <<pc, mv, had, installed, status, rbFailed, crashed, faults,
                 attempt, litter, before>>

(* The open directory goes where rename(2) takes it.                       *)
Carried ==
  /\ pc \in MoveSteps
  /\ Moves[pc].part = walk /\ Moves[pc].from = held.at
  /\ Rename(pc)

(* Where a step of a restore leaves it: where it was, with its new path,   *)
(* in a staging directory that is given up, or with files deleted.         *)
Follow ==
  IF held.at \notin Place THEN UNCHANGED held
  ELSE IF Carried THEN held' = [held EXCEPT !.at = Moves[pc].to]
  ELSE IF disk'[held.at][walk] = disk[held.at][walk] THEN UNCHANGED held
  ELSE IF held.at = "old" /\ <<walk, Whole(held.ver)>> \in litter'
    THEN held' = [held EXCEPT !.at = "litter"]
  ELSE held' = [held EXCEPT !.at = "lost"]

ExportInit ==
  /\ Init
  /\ walk = "idle"
  /\ got = NothingYet
  /\ held = Closed
  /\ short = {}
  /\ temp = FALSE
  /\ out = "earlier"
  /\ exported = "none"
  /\ exports = 0

ExportNext ==
  \/ ExportStep /\ UNCHANGED vars
  \/ /\ Next \/ CreateManager
     /\ Follow
     /\ UNCHANGED <<walk, got, short, temp, out, exported, exports>>

ExportSpec == ExportInit /\ [][ExportNext]_<<vars, exportVars>>

-----------------------------------------------------------------------------
(* Type invariant.  A temporary archive is unlinked when the call returns, *)
(* and ok is returned only for an export file that was written to its end. *)
ExportTypeOK ==
  /\ walk \in {"idle", "temp", "close", "copy", "flush"} \cup Part
  /\ got \in [Part -> SUBSET Content]
  /\ held \in [at : {"closed", "root", "old", "litter", "lost"}, ver : Nat]
  /\ short \subseteq Nat
  /\ temp \in BOOLEAN
  /\ out \in {"earlier", "empty", "part", "whole"}
  /\ exported \in {"none", "ok", "error", "killed"}
  /\ exports \in 0..MaxExports
  /\ temp => walk # "idle" \/ exported = "killed"
  /\ exported = "ok" => walk = "idle" /\ out = "whole"

(* An export may return ok and lack files: a listing comes short when they *)
(* are deleted from the directory that is open, and no error tells.  A     *)
(* restore does that to a part that rename(2) can move only after a        *)
(* failure, or, to the old version, when both new parts are in place:      *)
(* nothing that was set aside is deleted before.                           *)
ShortMeansReplaced ==
  \A p \in Managed \ CrossDevice, v \in short :
    walk = p /\ status # "error" =>
      /\ v # attempt
      /\ before[p] = Whole(v) =>
           \A q \in Managed : disk["root"][q] = Whole(attempt)

FromThisRestore(p)  == {c \in got[p] : Stocked(c) /\ c.ver = attempt}
FromEarlier(p)      == {c \in got[p] : Stocked(c) /\ c.ver # attempt}

Order == [manifest |-> 0, data |-> 1, extensions |-> 2]

(* A backup that overlaps a restore may be a mixture, but only one way     *)
(* round: once the walk has met something new, everything it meets later   *)
(* is new, unless the restore has failed.  It rests on both old parts      *)
(* being moved away before the first new one comes in, and on the walk     *)
(* going through them in the order in which they come in.                  *)
NothingOlderLater ==
  \A p, q \in Part :
    Order[p] < Order[q] /\ FromThisRestore(p) # {} /\ FromEarlier(q) # {}
      => status = "error"

(* A part that rename(2) can move is met by a walk as a whole or not at    *)
(* all: half of a new part is seen only while a failed restore removes it. *)
HalfMeansFailure ==
  \A p \in Managed \ CrossDevice :
    Torn(attempt) \in got[p] => status = "error"

=============================================================================
