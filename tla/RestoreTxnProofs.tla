-------------------------- MODULE RestoreTxnProofs --------------------------
(***************************************************************************)
(* Proofs about RestoreTxn, for any number of restores and of failing      *)
(* operations, with and without crashes, and for any set of parts that     *)
(* live on another device.                                                 *)
(***************************************************************************)
EXTENDS RestoreTxn, TLAPS

(* The table of moves, read field by field.                                *)
LEMMA MoveTable ==
  /\ MoveSteps = {"backup_data", "backup_extensions", "install_data",
                  "install_extensions", "install_manifest", "undo_data",
                  "undo_extensions"}
  /\ Moves["backup_data"].part = "data"
  /\ Moves["backup_data"].from = "root"
  /\ Moves["backup_data"].to = "old"
  /\ Moves["backup_extensions"].part = "extensions"
  /\ Moves["backup_extensions"].from = "root"
  /\ Moves["backup_extensions"].to = "old"
  /\ Moves["install_data"].part = "data"
  /\ Moves["install_data"].from = "stage"
  /\ Moves["install_data"].to = "root"
  /\ Moves["install_extensions"].part = "extensions"
  /\ Moves["install_extensions"].from = "stage"
  /\ Moves["install_extensions"].to = "root"
  /\ Moves["install_manifest"].part = "manifest"
  /\ Moves["install_manifest"].from = "stage"
  /\ Moves["install_manifest"].to = "root"
  /\ Moves["undo_data"].part = "data"
  /\ Moves["undo_data"].from = "old"
  /\ Moves["undo_data"].to = "root"
  /\ Moves["undo_extensions"].part = "extensions"
  /\ Moves["undo_extensions"].from = "old"
  /\ Moves["undo_extensions"].to = "root"
  BY DEF MoveSteps, Moves

(* The table of removals.                                                  *)
LEMMA RemovalTable ==
  /\ RemoveSteps = {"drop_manifest", "drop_data", "drop_extensions"}
  /\ Removals["drop_manifest"] = "manifest"
  /\ Removals["drop_data"] = "data"
  /\ Removals["drop_extensions"] = "extensions"
  BY DEF RemoveSteps, Removals

(* The successors of each operation.                                       *)
LEMMA PlanTable ==
  /\ OnDone["backup_data"] = "backup_extensions"
  /\ OnDone["backup_extensions"] = "install_data"
  /\ OnDone["install_data"] = "install_extensions"
  /\ OnDone["install_extensions"] = "drop_manifest"
  /\ OnDone["drop_manifest"] = "install_manifest"
  /\ OnDone["install_manifest"] = "cleanup"
  /\ OnDone["drop_data"] = "drop_extensions"
  /\ OnDone["drop_extensions"] = "undo_data"
  /\ OnDone["undo_data"] = "undo_extensions"
  /\ OnDone["undo_extensions"] = "cleanup"
  /\ OnFail("backup_data") = "cleanup"
  /\ OnFail("backup_extensions") = "drop_data"
  /\ OnFail("install_data") = "drop_data"
  /\ OnFail("install_extensions") = "drop_data"
  /\ OnFail("install_manifest") = "drop_data"
  /\ OnFail("drop_manifest") = "drop_data"
  /\ OnFail("drop_data") = "drop_extensions"
  /\ OnFail("drop_extensions") = "undo_data"
  /\ OnFail("undo_data") = "undo_extensions"
  /\ OnFail("undo_extensions") = "cleanup"
  <1>1. /\ OnDone["backup_data"] = "backup_extensions"
        /\ OnDone["backup_extensions"] = "install_data"
        /\ OnDone["install_data"] = "install_extensions"
        /\ OnDone["install_extensions"] = "drop_manifest"
        /\ OnDone["drop_manifest"] = "install_manifest"
        /\ OnDone["install_manifest"] = "cleanup"
        /\ OnDone["drop_data"] = "drop_extensions"
        /\ OnDone["drop_extensions"] = "undo_data"
        /\ OnDone["undo_data"] = "undo_extensions"
        /\ OnDone["undo_extensions"] = "cleanup"
    BY DEF OnDone
  <1>2. /\ OnFail("backup_data") = "cleanup"
        /\ OnFail("backup_extensions") = "drop_data"
        /\ OnFail("install_data") = "drop_data"
        /\ OnFail("install_extensions") = "drop_data"
        /\ OnFail("install_manifest") = "drop_data"
        /\ OnFail("drop_manifest") = "drop_data"
    BY DEF OnFail, RollbackSteps
  <1>3. /\ OnFail("drop_data") = "drop_extensions"
        /\ OnFail("drop_extensions") = "undo_data"
        /\ OnFail("undo_data") = "undo_extensions"
        /\ OnFail("undo_extensions") = "cleanup"
    BY <1>1 DEF OnFail, RollbackSteps
  <1> QED BY <1>1, <1>2, <1>3

-----------------------------------------------------------------------------
(* Type correctness.                                                       *)

Trees == [Place -> [Part -> Content]]

LEMMA ContentType ==
  /\ Absent \in Content
  /\ Empty \in Content
  /\ \A v \in Nat : Whole(v) \in Content /\ Torn(v) \in Content
  /\ \A c \in Content : Halfway(c) \in Content
  BY DEF Absent, Empty, Whole, Torn, Halfway, Content

LEMMA WholeContent ==
  ASSUME NEW c \in Content, c.state = "whole" PROVE c = Whole(c.ver)
  BY DEF Content, Whole, Absent, Empty

LEMMA NothingPresent ==
  ASSUME NEW c \in Content, ~Present(c) PROVE c = Absent
  BY DEF Present, Content, Empty

LEMMA MoveType ==
  ASSUME NEW step \in MoveSteps
  PROVE  /\ Moves[step].part \in Part
         /\ Moves[step].from \in Place
         /\ Moves[step].to \in Place
  BY MoveTable DEF Part, Managed, Place

LEMMA PutType ==
  ASSUME disk \in Trees, NEW place \in Place, NEW part \in Part,
         NEW c \in Content, Put(place, part, c)
  PROVE  disk' \in Trees
  BY DEF Trees, Put

(* Both ways an operation can end leave the control state well typed and   *)
(* the restore under way.                                                  *)
ControlOK ==
  /\ pc \in PC \ {"idle"}
  /\ mv = "start"
  /\ installed \subseteq Managed
  /\ status \in {"none", "ok", "error"}
  /\ rbFailed \in BOOLEAN

LEMMA EndType ==
  ASSUME TypeOK, pc \in MoveSteps \cup RemoveSteps, Proceed \/ GiveUp
  PROVE  ControlOK'
  <1>1. /\ OnDone[pc] \in PC \ {"idle"}
        /\ OnFail(pc) \in PC \ {"idle"}
    BY PlanTable, MoveTable, RemovalTable DEF PC
  <1>2. CASE Proceed
    BY <1>1, <1>2, MoveTable DEF Proceed, ControlOK, TypeOK, Managed
  <1>3. CASE GiveUp
    <2>1. rbFailed' \in BOOLEAN
      BY <1>3 DEF GiveUp, TypeOK
    <2> QED BY <2>1, <1>1, <1>3 DEF GiveUp, ControlOK, TypeOK
  <1> QED BY <1>2, <1>3

(* The same, together with the other variables.                            *)
LEMMA StepType ==
  ASSUME TypeOK, ControlOK', disk' \in Trees,
         faults' \in 0..MaxFaults,
         UNCHANGED <<had, crashed, attempt, litter, before>>
  PROVE  TypeOK'
  BY DEF TypeOK, ControlOK, Trees, PC

LEMMA FaultType ==
  ASSUME TypeOK, Fault PROVE faults' \in 0..MaxFaults
  BY RestoreAssumption DEF TypeOK, Fault

LEMMA LocatedType ==
  ASSUME NEW tree \in [Part -> Content]
  PROVE  Located(tree) \in [Part -> Content]
  BY ContentType DEF Located

LEMMA ReturnType ==
  ASSUME disk \in Trees, Return
  PROVE  /\ disk' \in Trees
         /\ disk'["stage"] = NoTree
         /\ disk'["old"] = NoTree
         /\ disk'["root"] = disk["root"]
  <1>1. NoTree \in [Part -> Content]
    BY ContentType DEF NoTree
  <1> QED BY <1>1 DEF Return, Trees, Place

LEMMA LitterType ==
  ASSUME TypeOK, litter' = litter \cup Leftovers
  PROVE  litter' \subseteq (Part \X Content)
  <1>1. Leftovers \subseteq (Part \X Content)
    BY DEF TypeOK, Leftovers, Place
  <1> QED BY <1>1 DEF TypeOK

LEMMA HalfRemovedType ==
  ASSUME TypeOK, NEW place \in Place, NEW part \in Part
  PROVE  /\ HalfRemoved(place, part) \in Content
         /\ Halfway(disk[place][part]) \in Content
         /\ disk[place][part] \in Content
  BY ContentType DEF TypeOK, HalfRemoved

LEMMA MoveKeepsType ==
  ASSUME TypeOK, Move PROVE TypeOK'
  <1> PICK step \in MoveSteps :
        \/ MoveRefused(step) \/ MoveFails(step) \/ Rename(step)
        \/ CopyBegins(step) \/ CopyEnds(step) \/ CopyFails(step)
        \/ UnlinkProgress(step) \/ UnlinkEnds(step) \/ UnlinkFails(step)
        \/ ScrapEnds(step)
    BY DEF Move
  <1> DEFINE m == Moves[step]
  <1>1. /\ m.part \in Part /\ m.from \in Place /\ m.to \in Place
        /\ Absent \in Content
        /\ disk \in Trees
        /\ faults \in 0..MaxFaults
    BY MoveType, ContentType DEF TypeOK, Trees
  <1>2. /\ HalfRemoved(m.from, m.part) \in Content
        /\ HalfRemoved(m.to, m.part) \in Content
        /\ Halfway(disk[m.from][m.part]) \in Content
        /\ disk[m.from][m.part] \in Content
        /\ disk[m.to][m.part] \in Content
    BY <1>1, HalfRemovedType
  <1> HIDE DEF m
  <1>3. CASE MoveRefused(step)
    <2>1. ControlOK'
      BY <1>3, EndType DEF MoveRefused, At
    <2> QED BY <2>1, <1>1, <1>3, StepType DEF MoveRefused
  <1>4. CASE MoveFails(step)
    <2>1. ControlOK' /\ faults' \in 0..MaxFaults
      BY <1>4, EndType, FaultType DEF MoveFails, At
    <2> QED BY <2>1, <1>1, <1>4, StepType DEF MoveFails
  <1>5. CASE Rename(step)
    <2>1. ControlOK'
      BY <1>5, EndType DEF Rename, At
    <2>2. disk' \in Trees
      BY <1>5, <1>1, <1>2 DEF Rename, Trees, m
    <2> QED BY <2>1, <2>2, <1>1, <1>5, StepType DEF Rename
  <1>6. CASE CopyBegins(step)
    <2>1. disk' \in Trees
      BY <1>6, <1>1, <1>2, PutType DEF CopyBegins, m
    <2>2. pc = step /\ pc # "idle"
      BY <1>6, MoveTable DEF CopyBegins, At
    <2> QED BY <2>1, <2>2, <1>6 DEF CopyBegins, TypeOK, Trees
  <1>7. CASE CopyEnds(step)
    <2>1. disk' \in Trees
      BY <1>7, <1>1, <1>2, PutType DEF CopyEnds, m
    <2>2. pc # "idle"
      BY <1>7, MoveTable DEF CopyEnds
    <2> QED BY <2>1, <2>2, <1>7 DEF CopyEnds, TypeOK, Trees
  <1>8. CASE CopyFails(step)
    <2>1. ControlOK' /\ faults' \in 0..MaxFaults
      BY <1>8, EndType, FaultType DEF CopyFails
    <2> QED BY <2>1, <1>1, <1>8, StepType DEF CopyFails
  <1>9. CASE UnlinkProgress(step)
    <2>1. disk' \in Trees
      BY <1>9, <1>1, <1>2, PutType DEF UnlinkProgress, m
    <2>2. pc # "idle"
      BY <1>9, MoveTable DEF UnlinkProgress
    <2> QED BY <2>1, <2>2, <1>9 DEF UnlinkProgress, TypeOK, Trees
  <1>10. CASE UnlinkEnds(step)
    <2>1. ControlOK'
      BY <1>10, EndType DEF UnlinkEnds
    <2>2. disk' \in Trees
      BY <1>10, <1>1, PutType DEF UnlinkEnds, m
    <2> QED BY <2>1, <2>2, <1>1, <1>10, StepType DEF UnlinkEnds
  <1>11. CASE UnlinkFails(step)
    <2>1. faults' \in 0..MaxFaults
      BY <1>11, FaultType DEF UnlinkFails
    <2>2. pc # "idle"
      BY <1>11, MoveTable DEF UnlinkFails
    <2> QED BY <2>1, <2>2, <1>11 DEF UnlinkFails, TypeOK
  <1>12. CASE ScrapEnds(step)
    <2>1. ControlOK'
      BY <1>12, EndType DEF ScrapEnds
    <2>2. disk' \in Trees
      BY <1>12, <1>1, <1>2, PutType DEF ScrapEnds, m
    <2>3. faults' \in 0..MaxFaults
      BY <1>12, <1>1, FaultType DEF ScrapEnds
    <2> QED BY <2>1, <2>2, <2>3, <1>12, StepType DEF ScrapEnds
  <1> QED
    BY <1>3, <1>4, <1>5, <1>6, <1>7, <1>8, <1>9, <1>10, <1>11, <1>12

LEMMA RemoveKeepsType ==
  ASSUME TypeOK, Remove PROVE TypeOK'
  <1> PICK step \in RemoveSteps :
        RemoveProgress(step) \/ RemoveEnds(step) \/ RemoveFails(step)
    BY DEF Remove
  <1>1. /\ Removals[step] \in Part /\ "root" \in Place
        /\ Absent \in Content
        /\ disk \in Trees
        /\ faults \in 0..MaxFaults
    BY RemovalTable, ContentType DEF TypeOK, Trees, Part, Managed, Place
  <1>2. HalfRemoved("root", Removals[step]) \in Content
    BY <1>1, HalfRemovedType
  <1>3. CASE RemoveProgress(step)
    <2>1. disk' \in Trees
      BY <1>3, <1>1, <1>2, PutType DEF RemoveProgress
    <2>2. pc # "idle"
      BY <1>3, RemovalTable DEF RemoveProgress, At
    <2> QED BY <2>1, <2>2, <1>3 DEF RemoveProgress, TypeOK, Trees
  <1>4. CASE RemoveEnds(step)
    <2>1. ControlOK'
      BY <1>4, EndType DEF RemoveEnds, At
    <2>2. disk' \in Trees
      BY <1>4, <1>1, PutType DEF RemoveEnds
    <2> QED BY <2>1, <2>2, <1>1, <1>4, StepType DEF RemoveEnds
  <1>5. CASE RemoveFails(step)
    <2>1. ControlOK' /\ faults' \in 0..MaxFaults
      BY <1>5, EndType, FaultType DEF RemoveFails, At
    <2> QED BY <2>1, <1>1, <1>5, StepType DEF RemoveFails
  <1> QED BY <1>3, <1>4, <1>5

LEMMA ArchiveType ==
  ASSUME NEW v \in Nat
  PROVE  /\ Archive(v) \subseteq [Part -> Content]
         /\ Unfinished(v) \subseteq [Part -> Content]
  <1>1. /\ {Absent, Whole(v), [ver |-> v, state |-> "dir"]} \subseteq Content
        /\ {Absent, Torn(v)} \subseteq Content
    BY ContentType DEF Content
  <1> HIDE DEF Content
  <1>2. Archive(v) \subseteq [Part -> Content]
    BY <1>1 DEF Archive
  <1>3. Unfinished(v) \subseteq [Part -> Content]
    BY <1>1 DEF Unfinished
  <1> QED BY <1>2, <1>3

LEMMA InitType == Init => TypeOK
  <1> SUFFICES ASSUME Init PROVE TypeOK
    OBVIOUS
  <1> PICK tree \in [Part -> {Absent, Whole(0)}] :
        /\ disk = [root |-> tree, stage |-> NoTree, old |-> NoTree]
        /\ before = tree
    BY DEF Init
  <1>1. tree \in [Part -> Content] /\ NoTree \in [Part -> Content]
    BY ContentType DEF NoTree
  <1>2. /\ disk \in [Place -> [Part -> Content]]
        /\ disk["stage"] = NoTree
        /\ disk["old"] = NoTree
    BY <1>1 DEF Place
  <1>3. 0 \in 0..MaxRestores /\ 0 \in 0..MaxFaults
    BY RestoreAssumption
  <1> QED BY <1>1, <1>2, <1>3 DEF Init, TypeOK, PC

LEMMA NextType == TypeOK /\ [Next]_vars => TypeOK'
  <1> SUFFICES ASSUME TypeOK, [Next]_vars PROVE TypeOK'
    OBVIOUS
  <1>0. /\ disk \in Trees
        /\ disk["root"] \in [Part -> Content]
        /\ Located(disk["root"]) \in [Part -> Content]
        /\ attempt \in Nat
    BY LocatedType, RestoreAssumption DEF TypeOK, Trees, Place
  <1>1. ASSUME NEW tree \in [Part -> Content], pc = "idle", Open(tree),
               pc' \in {"idle", "extract"}, status' \in {"ok", "error"}
        PROVE  TypeOK'
    <2>1. /\ disk' \in Trees
          /\ disk'["stage"] = disk["stage"]
          /\ disk'["old"] = disk["old"]
      BY <1>0, <1>1 DEF Open, Trees, Place
    <2>2. attempt' \in 0..MaxRestores /\ faults' \in 0..MaxFaults
      BY <1>1, RestoreAssumption DEF Open, TypeOK
    <2> QED BY <2>1, <2>2, <1>1 DEF Open, TypeOK, Trees, PC
  <1>2. CASE Begin
    BY <1>0, <1>1, <1>2 DEF Begin
  <1>3. CASE RefuseRoot
    <2>1. /\ disk' \in Trees
          /\ disk'["stage"] = disk["stage"]
          /\ disk'["old"] = disk["old"]
      BY <1>0, <1>3 DEF RefuseRoot, Trees, Place
    <2> QED BY <2>1, <1>0, <1>3 DEF RefuseRoot, TypeOK, Trees, PC
  <1>4. CASE Extract
    <2>1. disk' \in Trees
      BY <1>0, <1>4, ArchiveType DEF Extract, Trees, Place
    <2> QED BY <2>1, <1>4 DEF Extract, TypeOK, Trees, PC
  <1>5. CASE Check
    BY <1>5, MoveTable DEF Check, TypeOK, PC
  <1>6. CASE Skip
    <2>1. ControlOK'
      BY <1>6, EndType DEF Skip
    <2> QED BY <2>1, <1>0, <1>6, StepType DEF Skip, TypeOK
  <1>7. CASE RejectManifest
    <2>1. ControlOK'
      BY <1>7, EndType, RemovalTable DEF RejectManifest, BadManifest
    <2> QED BY <2>1, <1>0, <1>7, StepType DEF RejectManifest, TypeOK
  <1>8. CASE Move
    BY <1>8, MoveKeepsType
  <1>9. CASE Remove
    BY <1>9, RemoveKeepsType
  <1>10. CASE CleanProgress
    <2>1. disk' \in Trees
      <3>1. PICK pl \in {"stage", "old"}, p \in Part :
              Put(pl, p, Absent) \/ Put(pl, p, HalfRemoved(pl, p))
        BY <1>10 DEF CleanProgress
      <3>2. pl \in Place /\ Absent \in Content
        BY ContentType DEF Place
      <3> QED BY <3>1, <3>2, <1>0, HalfRemovedType, PutType
    <2> QED BY <2>1, <1>10 DEF CleanProgress, TypeOK, Trees
  <1>11. CASE CleanEnds
    BY <1>0, <1>11, ReturnType DEF CleanEnds, Return, TypeOK, Trees, PC
  <1>12. CASE CleanFails
    <2>1. litter' \subseteq (Part \X Content) /\ faults' \in 0..MaxFaults
      BY <1>12, LitterType, FaultType DEF CleanFails
    <2> QED
      BY <2>1, <1>0, <1>12, ReturnType
         DEF CleanFails, Return, TypeOK, Trees, PC
  <1>13. CASE Crash
    <2>1. litter' \subseteq (Part \X Content)
      BY <1>13, LitterType DEF Crash
    <2> QED
      BY <2>1, <1>0, <1>13, ReturnType DEF Crash, Return, TypeOK, Trees, PC
  <1>14. CASE UNCHANGED vars
    BY <1>14 DEF vars, TypeOK
  <1> QED
    BY <1>2, <1>3, <1>4, <1>5, <1>6, <1>7, <1>8, <1>9, <1>10, <1>11, <1>12,
       <1>13, <1>14 DEF Next

(* Every variable of the restore stays in its type, and the staging        *)
(* directory is gone, or abandoned, whenever no restore is running.        *)
THEOREM TypeCorrect == Spec => []TypeOK
  <1> QED BY InitType, NextType, PTL DEF Spec

-----------------------------------------------------------------------------
(* LossIsReported is not inductive: it says that a copy exists, not where. *)
(* What is inductive is where the old part is at each point of the plan.   *)

(* Where the plan stands for part p.                                       *)
InPlace(p) ==
  \/ pc \in {"extract", "check", "backup_data"}
  \/ pc = "backup_extensions" /\ p = "extensions"
Aside(p) ==
  \/ pc = "install_data"
  \/ pc = "backup_extensions" /\ p = "data"
  \/ pc = "install_extensions" /\ p = "extensions"
Replaced(p) ==
  \/ pc \in {"drop_manifest", "install_manifest"}
  \/ pc = "install_extensions" /\ p = "data"
ToDrop(p) ==
  \/ pc = "drop_data"
  \/ pc = "drop_extensions" /\ p = "extensions"
ToUndo(p) ==
  \/ pc = "undo_data"
  \/ pc = "drop_extensions" /\ p = "data"
  \/ pc = "undo_extensions" /\ p = "extensions"
Undone(p) == pc = "undo_extensions" /\ p = "data"

(* A part is complete in the staging directory until it is moved out.      *)
ToInstall(p) ==
  \/ pc \in {"backup_data", "backup_extensions", "install_data"}
  \/ pc = "install_extensions" /\ p = "extensions"
Staged(p) ==
  /\ pc = "check"  => disk["stage"][p] \in {Absent, Whole(attempt)}
  /\ ToInstall(p)  => disk["stage"][p] = Whole(attempt)

Steps == MoveSteps \cup RemoveSteps

(* Only a cross-device move has phases; "installed" follows the plan; no   *)
(* error has been recorded until the rollback begins.                      *)
Forward == {"extract", "check", "backup_data", "backup_extensions",
            "install_data", "install_extensions", "drop_manifest",
            "install_manifest"}

Control ==
  /\ pc \in Forward => status = "ok"
  /\ mv # "start" => pc \in MoveSteps /\ Moves[pc].part \in CrossDevice
  /\ pc \in {"extract", "check", "backup_data", "backup_extensions",
            "install_data"} => installed = {}
  /\ pc = "install_extensions" => installed = {"data"}
  /\ pc \in {"drop_manifest", "install_manifest"} => installed = Managed

InRoot(p) == disk["root"][p] = before[p] /\ ~In("old", p)
InOld(p)  ==
  /\ p \in had    => disk["old"][p] = before[p]
  /\ p \notin had => ~In("old", p)

(* Where the old part is; a part that was not there is nowhere.            *)
WhereOld(p) ==
  /\ pc \in Steps  => (p \in had <=> Present(before[p]))
  /\ InPlace(p)     => InRoot(p)
  /\ Aside(p)       => InOld(p) /\ ~In("root", p)
  /\ Replaced(p)    => InOld(p) /\ disk["root"][p] = Whole(attempt)
  /\ ToDrop(p)      => \/ InOld(p) /\ (In("root", p) => p \in installed)
                       \/ InRoot(p) /\ p \notin installed
  /\ ToUndo(p)      => \/ InOld(p) /\ ~In("root", p)
                       \/ InRoot(p)
  /\ Undone(p)      => disk["root"][p] = before[p]
  /\ pc = "cleanup" => \/ disk["root"][p] = before[p]
                       \/ disk["root"][p] = Whole(attempt) /\ status = "ok"
  /\ pc = "idle" /\ before[p].state = "whole" =>
       \E v \in {before[p].ver, attempt} : Whole(v) \in Copies(p)

Kept(p) == ~rbFailed => WhereOld(p)

(* Nothing is claimed of the plan when every part needs a copying move.    *)
IInv ==
  /\ TypeOK
  /\ \A p \in Managed \ CrossDevice : Control /\ Staged(p) /\ Kept(p)

LEMMA StepsAre ==
  Steps = {"backup_data", "backup_extensions", "install_data",
           "install_extensions", "install_manifest", "undo_data",
           "undo_extensions", "drop_manifest", "drop_data", "drop_extensions"}
  BY MoveTable, RemovalTable DEF Steps

LEMMA ControlKept ==
  ASSUME TypeOK, Control, pc \in Steps, Proceed \/ GiveUp
  PROVE  Control'
  <1>1. CASE Proceed
    BY <1>1, StepsAre, PlanTable, MoveTable
       DEF Proceed, Control, Managed, Forward
  <1>2. CASE GiveUp
    BY <1>2, StepsAre, PlanTable DEF GiveUp, Control, Forward
  <1> QED BY <1>1, <1>2

(* A step of the plan that concerns another part, or none.                 *)
Elsewhere(p) ==
  /\ \A pl \in Place : disk'[pl][p] = disk[pl][p]
  /\ UNCHANGED <<had, attempt, before>>

LEMMA KeptElsewhere ==
  ASSUME IInv, NEW p \in Managed \ CrossDevice, pc \in Steps, Elsewhere(p),
         pc \in MoveSteps => Moves[pc].part # p,
         pc \in RemoveSteps => Removals[pc] # p,
         \/ UNCHANGED <<pc, installed, status, rbFailed>>
         \/ Proceed
         \/ GiveUp
  PROVE  Staged(p)' /\ Kept(p)'
  <1>1. /\ disk'["root"][p] = disk["root"][p]
        /\ disk'["stage"][p] = disk["stage"][p]
        /\ disk'["old"][p] = disk["old"][p]
        /\ had' = had /\ attempt' = attempt /\ before' = before
    BY DEF Elsewhere, Place
  <1>2. Staged(p) /\ Kept(p) /\ Control
    BY DEF IInv
  <1>3. CASE UNCHANGED <<pc, installed, status, rbFailed>>
    <2>1. pc # "idle"
      BY StepsAre
    <2> QED
      BY <1>1, <1>2, <1>3, <2>1, StepsAre
         DEF Staged, Kept, WhereOld, ToInstall, InPlace, Aside, Replaced,
             ToDrop, ToUndo, Undone, InRoot, InOld, In, Control, Forward
  <1>4. CASE Proceed
    <2>1. installed' \cap {p} = installed \cap {p}
      BY <1>4, MoveTable DEF Proceed
    <2>2. Staged(p)'
      BY <1>1, <1>2, <1>4, StepsAre, PlanTable, MoveTable
         DEF Proceed, Staged, ToInstall, Managed
    <2>3. Kept(p)'
      BY <1>1, <1>2, <1>4, <2>1, StepsAre, PlanTable, MoveTable, RemovalTable
         DEF Proceed, Kept, WhereOld, InPlace, Aside, Replaced, ToDrop, ToUndo,
             Undone, InRoot, InOld, In, Managed, Control, Forward
    <2> QED BY <2>2, <2>3
  <1>5. CASE GiveUp
    <2>1. Staged(p)'
      BY <1>5, StepsAre, PlanTable DEF GiveUp, Staged, ToInstall
    <2>2. ~rbFailed' => ~rbFailed /\ pc \notin RollbackSteps
      BY <1>5 DEF GiveUp, IInv, TypeOK
    <2>3. Kept(p)'
      BY <1>1, <1>2, <1>5, <2>2, StepsAre, PlanTable, MoveTable, RemovalTable
         DEF GiveUp, Kept, WhereOld, InPlace, Aside, Replaced, ToDrop, ToUndo,
             Undone, InRoot, InOld, In, Managed, Control, RollbackSteps,
             Forward
    <2> QED BY <2>1, <2>3
  <1> QED BY <1>3, <1>4, <1>5

(* A step of the plan that concerns part p itself.                         *)

LEMMA KeptRename ==
  ASSUME IInv, NEW step \in MoveSteps, Rename(step),
         Moves[step].part \in Managed \ CrossDevice
  PROVE  LET p == Moves[step].part IN Staged(p)' /\ Kept(p)'
  <1> DEFINE p == Moves[step].part
             m == Moves[step]
  <1>1. /\ pc = step
        /\ Proceed
        /\ disk'[m.to][p] = disk[m.from][p]
        /\ disk'[m.from][p] = Absent
        /\ \A pl \in Place \ {m.to, m.from} : disk'[pl][p] = disk[pl][p]
        /\ In(m.from, p) /\ ~In(m.to, p)
        /\ had' = had /\ attempt' = attempt /\ before' = before
    <2>1. m.from \in Place /\ m.to \in Place /\ m.from # m.to /\ p \in Part
      BY MoveTable, MoveType
    <2> QED BY <2>1 DEF Rename, At, MoveAllowed, IInv, TypeOK
  <1>2. Staged(p) /\ Kept(p) /\ Control /\ p \in Managed
    BY DEF IInv
  <1>3. disk[m.from][p] \in Content /\ before[p] \in Content
    BY MoveType DEF IInv, TypeOK
  <1>4. ~Present(Absent)
    BY DEF Present, Absent
  <1>5. Staged(p)'
    BY <1>1, <1>2, MoveTable, PlanTable
       DEF Proceed, Staged, ToInstall, Managed, Place
  <1>6. Kept(p)'
    BY <1>1, <1>2, <1>3, <1>4, MoveTable, PlanTable, StepsAre
       DEF Proceed, Kept, WhereOld, InPlace, Aside, Replaced, ToDrop, ToUndo,
           Undone, InRoot, InOld, In, Managed, Staged, ToInstall, Place,
           Control, Forward
  <1> QED BY <1>5, <1>6

(* A move that fails without a change of the disk.  Where the checks of    *)
(* move_or_copy_path refuse it, the rollback has failed before.            *)
LEMMA KeptMoveFails ==
  ASSUME IInv, NEW step \in MoveSteps, MoveRefused(step) \/ MoveFails(step),
         Moves[step].part \in Managed \ CrossDevice
  PROVE  LET p == Moves[step].part IN Staged(p)' /\ Kept(p)'
  <1> DEFINE p == Moves[step].part
  <1>1. /\ pc = step
        /\ GiveUp
        /\ disk' = disk /\ had' = had /\ attempt' = attempt /\ before' = before
        /\ MoveRefused(step) => ~MoveAllowed(Moves[step])
    BY DEF MoveRefused, MoveFails, At
  <1>2. Staged(p) /\ Kept(p) /\ Control /\ p \in Managed
    BY DEF IInv
  <1>3. ~rbFailed' => ~rbFailed /\ pc \notin RollbackSteps
    BY <1>1 DEF GiveUp, IInv, TypeOK
  <1>4. Staged(p)'
    BY <1>1, MoveTable, PlanTable DEF GiveUp, Staged, ToInstall
  <1>5. Kept(p)'
    BY <1>1, <1>2, <1>3, MoveTable, PlanTable, StepsAre
       DEF GiveUp, Kept, WhereOld, InPlace, Aside, Replaced, ToDrop, ToUndo,
           Undone, InRoot, InOld, In, Managed, Control, RollbackSteps, Forward
  <1> QED BY <1>4, <1>5

(* The step under way is one of part p's.                                  *)
Own(p) ==
  \/ pc \in MoveSteps /\ Moves[pc].part = p
  \/ pc \in RemoveSteps /\ Removals[pc] = p

LEMMA KeptSkip ==
  ASSUME IInv, Skip, NEW p \in Managed \ CrossDevice, Own(p)
  PROVE  Staged(p)' /\ Kept(p)'
  <1>1. /\ pc \in Steps /\ ~Needed(pc) /\ Proceed
        /\ disk' = disk /\ had' = had /\ attempt' = attempt /\ before' = before
    BY DEF Skip, Steps
  <1>2. Staged(p) /\ Kept(p) /\ Control /\ p \in Managed
    BY DEF IInv
  <1>3. Staged(p)'
    BY <1>1, <1>2, StepsAre, MoveTable, RemovalTable, PlanTable
       DEF Proceed, Staged, ToInstall, Own, Needed, Managed
  <1>4. ~In("root", p) /\ ~Present(before[p]) => disk["root"][p] = before[p]
    <2>1. disk["root"][p] \in Content /\ before[p] \in Content
      BY <1>2 DEF IInv, TypeOK, Place, Part
    <2> QED BY <2>1, NothingPresent DEF In
  <1>5. Kept(p)'
    BY <1>1, <1>2, <1>4, StepsAre, MoveTable, RemovalTable, PlanTable
       DEF Proceed, Kept, WhereOld, InPlace, Aside, Replaced, ToDrop, ToUndo,
           Undone, InRoot, InOld, In, Managed, Own, Needed, Control, Forward
  <1> QED BY <1>3, <1>5

LEMMA KeptRemove ==
  ASSUME IInv, Remove, NEW p \in Managed \ CrossDevice, Own(p)
  PROVE  Staged(p)' /\ Kept(p)'
  <1> PICK step \in RemoveSteps :
        RemoveProgress(step) \/ RemoveEnds(step) \/ RemoveFails(step)
    BY DEF Remove
  <1>1. /\ pc = step /\ Needed(pc) /\ Removals[step] = p
        /\ pc \in {"drop_data", "drop_extensions"}
        /\ had' = had /\ attempt' = attempt /\ before' = before
    BY MoveTable, RemovalTable
       DEF RemoveProgress, RemoveEnds, RemoveFails, At, Own, Managed
  <1>2. Staged(p) /\ Kept(p) /\ Control /\ p \in Managed /\ p \in Part
    BY DEF IInv, Part
  <1>3. p \in installed
    BY <1>1, RemovalTable DEF Needed
  <1>4. ASSUME NEW c, Put("root", p, c)
        PROVE  disk'["root"][p] = c /\ disk'["old"][p] = disk["old"][p]
    BY <1>2, <1>4 DEF Put, IInv, TypeOK, Place
  <1>5. CASE RemoveProgress(step)
    <2>1. pc' = pc /\ installed' = installed /\ rbFailed' = rbFailed
      BY <1>5 DEF RemoveProgress
    <2>2. disk'["old"][p] = disk["old"][p]
      BY <1>1, <1>4, <1>5 DEF RemoveProgress
    <2> QED
      BY <1>1, <1>2, <1>3, <2>1, <2>2, RemovalTable, StepsAre
         DEF Staged, ToInstall, Kept, WhereOld, InPlace, Aside, Replaced,
             ToDrop, ToUndo, Undone, InRoot, InOld, In, Managed, Control,
             Forward
  <1>6. CASE RemoveEnds(step)
    <2>1. Proceed
      BY <1>6 DEF RemoveEnds
    <2>2. disk'["old"][p] = disk["old"][p] /\ ~Present(disk'["root"][p])
      BY <1>1, <1>4, <1>6 DEF RemoveEnds, Present, Absent
    <2> QED
      BY <1>1, <1>2, <1>3, <2>1, <2>2, RemovalTable, PlanTable, StepsAre
         DEF Proceed, Staged, ToInstall, Kept, WhereOld, InPlace, Aside,
             Replaced, ToDrop, ToUndo, Undone, InRoot, InOld, In, Managed,
             Control, Forward
  <1>7. CASE RemoveFails(step)
    <2>1. rbFailed' = TRUE /\ pc' \in {"drop_extensions", "undo_data"}
      BY <1>1, <1>7, PlanTable DEF RemoveFails, GiveUp, RollbackSteps
    <2> QED
      BY <2>1 DEF Staged, ToInstall, Kept
  <1> QED BY <1>5, <1>6, <1>7

-----------------------------------------------------------------------------
(* The actions one by one.                                                 *)

LEMMA MoveKeeps ==
  ASSUME IInv, Move, NEW p \in Managed \ CrossDevice
  PROVE  Control' /\ Staged(p)' /\ Kept(p)'
  <1> PICK step \in MoveSteps :
        \/ MoveRefused(step) \/ MoveFails(step) \/ Rename(step)
        \/ CopyBegins(step) \/ CopyEnds(step) \/ CopyFails(step)
        \/ UnlinkProgress(step) \/ UnlinkEnds(step) \/ UnlinkFails(step)
        \/ ScrapEnds(step)
    BY DEF Move
  <1> DEFINE q == Moves[step].part
  <1>0. /\ Moves[step].from \in Place /\ Moves[step].to \in Place
        /\ q \in Part /\ p \in Part /\ Control /\ TypeOK
    BY MoveType DEF IInv, Part
  <1>1. pc = step /\ pc \in Steps /\ pc \notin RemoveSteps
    BY MoveTable, RemovalTable
       DEF MoveRefused, MoveFails, Rename, CopyBegins, CopyEnds, CopyFails,
           UnlinkProgress, UnlinkEnds, UnlinkFails, ScrapEnds, At, Steps
  <1>2. \/ Proceed
        \/ GiveUp
        \/ UNCHANGED <<pc, installed, status, rbFailed>> /\ q \in CrossDevice
    <2>1. CASE MoveRefused(step) \/ MoveFails(step) \/ CopyFails(step)
               \/ ScrapEnds(step)
      BY <2>1 DEF MoveRefused, MoveFails, CopyFails, ScrapEnds
    <2>2. CASE Rename(step) \/ UnlinkEnds(step)
      BY <2>2 DEF Rename, UnlinkEnds
    <2>3. CASE CopyBegins(step)
      BY <2>3 DEF CopyBegins
    <2>4. CASE CopyEnds(step) \/ UnlinkProgress(step) \/ UnlinkFails(step)
      BY <2>4, <1>0, <1>1
         DEF CopyEnds, UnlinkProgress, UnlinkFails, Control, Forward
    <2> QED BY <2>1, <2>2, <2>3, <2>4
  <1>3. Control'
    <2>1. CASE Proceed \/ GiveUp
      BY <1>0, <1>1, <2>1, ControlKept
    <2>2. CASE /\ UNCHANGED <<pc, installed, status, rbFailed>>
               /\ q \in CrossDevice
      BY <1>0, <1>1, <2>2 DEF Control, Forward
    <2> QED BY <1>2, <2>1, <2>2
  <1>4. CASE q # p
    <2>1. \/ disk' = disk
          \/ \E pl \in Place, c \in Content : Put(pl, q, c)
          \/ Rename(step)
      <3>1. /\ HalfRemoved(Moves[step].from, q) \in Content
            /\ HalfRemoved(Moves[step].to, q) \in Content
            /\ Halfway(disk[Moves[step].from][q]) \in Content
            /\ disk[Moves[step].from][q] \in Content
            /\ disk[Moves[step].to][q] \in Content
            /\ Absent \in Content
        BY <1>0, HalfRemovedType, ContentType
      <3> QED
        BY <1>0, <3>1
           DEF MoveRefused, MoveFails, CopyBegins, CopyEnds, CopyFails,
               UnlinkProgress, UnlinkEnds, UnlinkFails, ScrapEnds
    <2>2. \A pl \in Place : disk'[pl][p] = disk[pl][p]
      BY <1>0, <1>4, <2>1 DEF Put, Rename, TypeOK
    <2>3. UNCHANGED <<had, attempt, before>>
      BY DEF MoveRefused, MoveFails, Rename, CopyBegins, CopyEnds, CopyFails,
             UnlinkProgress, UnlinkEnds, UnlinkFails, ScrapEnds
    <2> QED
      BY <1>1, <1>2, <1>3, <1>4, <2>2, <2>3, KeptElsewhere DEF Elsewhere
  <1>5. CASE q = p
    <2>1. Rename(step) \/ MoveRefused(step) \/ MoveFails(step)
      BY <1>0, <1>1, <1>5
         DEF CopyBegins, CopyEnds, CopyFails, UnlinkProgress, UnlinkEnds,
             UnlinkFails, ScrapEnds, Control, Forward
    <2> QED BY <1>3, <1>5, <2>1, KeptRename, KeptMoveFails
  <1> QED BY <1>4, <1>5

LEMMA RemoveKeeps ==
  ASSUME IInv, Remove, NEW p \in Managed \ CrossDevice
  PROVE  Control' /\ Staged(p)' /\ Kept(p)'
  <1> PICK step \in RemoveSteps :
        RemoveProgress(step) \/ RemoveEnds(step) \/ RemoveFails(step)
    BY DEF Remove
  <1>0. p \in Part /\ Removals[step] \in Part /\ "root" \in Place
        /\ Control /\ TypeOK
    BY RemovalTable DEF IInv, Part, Managed, Place
  <1>1. pc = step /\ pc \in Steps /\ pc \notin MoveSteps
    BY MoveTable, RemovalTable
       DEF RemoveProgress, RemoveEnds, RemoveFails, At, Steps
  <1>2. Proceed \/ GiveUp \/ UNCHANGED <<pc, mv, installed, status, rbFailed>>
    BY DEF RemoveProgress, RemoveEnds, RemoveFails
  <1>3. Control'
    <2>1. CASE Proceed \/ GiveUp
      BY <1>0, <1>1, <2>1, ControlKept
    <2>2. CASE UNCHANGED <<pc, mv, installed, status, rbFailed>>
      BY <1>0, <2>2 DEF Control, Forward
    <2> QED BY <1>2, <2>1, <2>2
  <1>4. CASE Removals[step] = p
    BY <1>1, <1>3, <1>4, KeptRemove DEF Own
  <1>5. CASE Removals[step] # p
    <2>1. \A pl \in Place : disk'[pl][p] = disk[pl][p]
      BY <1>0, <1>5 DEF RemoveProgress, RemoveEnds, RemoveFails, Put, TypeOK
    <2>2. UNCHANGED <<had, attempt, before>>
      BY DEF RemoveProgress, RemoveEnds, RemoveFails
    <2> QED
      BY <1>1, <1>2, <1>3, <1>5, <2>1, <2>2, KeptElsewhere DEF Elsewhere
  <1> QED BY <1>4, <1>5

LEMMA PassKeeps ==
  ASSUME IInv, Skip \/ RejectManifest, NEW p \in Managed \ CrossDevice
  PROVE  Control' /\ Staged(p)' /\ Kept(p)'
  <1>1. /\ pc \in Steps
        /\ Proceed \/ GiveUp
        /\ disk' = disk /\ UNCHANGED <<had, attempt, before>>
        /\ Control /\ TypeOK
    BY RemovalTable DEF Skip, RejectManifest, BadManifest, Steps, IInv
  <1>2. Control'
    BY <1>1, ControlKept
  <1>3. CASE Own(p)
    <2>1. Skip
      BY <1>3, MoveTable, RemovalTable
         DEF Own, RejectManifest, BadManifest, Managed
    <2> QED BY <1>2, <1>3, <2>1, KeptSkip
  <1>4. CASE ~Own(p)
    BY <1>1, <1>2, <1>4, KeptElsewhere DEF Elsewhere, Own
  <1> QED BY <1>3, <1>4

(* A complete part of the root is itself the surviving copy.               *)
LEMMA CopyInRoot ==
  ASSUME TypeOK, NEW p \in Part, disk["root"][p] = before[p],
         before[p].state = "whole"
  PROVE  Whole(before[p].ver) \in Copies(p)
  <1>1. before[p] = Whole(before[p].ver)
    BY WholeContent DEF TypeOK
  <1> QED BY <1>1 DEF Copies, Place

LEMMA OpenKeeps ==
  ASSUME IInv, NEW p \in Managed \ CrossDevice,
         pc = "idle", pc' \in {"idle", "extract"}, TypeOK',
         disk'["root"] = before', disk'["old"] = disk["old"],
         pc' = "extract" => status' = "ok",
         \/ mv' = "start" /\ installed' = {}
         \/ pc' = "idle" /\ mv' = mv
  PROVE  Control' /\ Staged(p)' /\ Kept(p)'
  <1>1. disk'["old"] = NoTree /\ p \in Part
    BY DEF IInv, TypeOK, Part
  <1>2. ~Present(disk'["old"][p])
    BY <1>1 DEF NoTree, Present, Absent
  <1>3. Control'
    BY MoveTable DEF Control, IInv, Forward
  <1>4. Staged(p)'
    BY DEF Staged, ToInstall
  <1>5. before[p]'.state = "whole" => Whole(before[p]'.ver) \in Copies(p)'
    <2>1. ASSUME before'[p].state = "whole"
          PROVE  before'[p] = Whole(before'[p].ver)
      BY <1>1, <2>1, WholeContent DEF TypeOK
    <2> QED BY <2>1 DEF Copies, Place
  <1>6. Kept(p)'
    BY <1>2, <1>5, StepsAre
       DEF Kept, WhereOld, InPlace, Aside, Replaced, ToDrop, ToUndo, Undone,
           InRoot, In, Control, Forward
  <1> QED BY <1>3, <1>4, <1>6

LEMMA BeginKeeps ==
  ASSUME IInv, TypeOK', Begin \/ RefuseRoot, NEW p \in Managed \ CrossDevice
  PROVE  Control' /\ Staged(p)' /\ Kept(p)'
  <1>1. /\ pc = "idle" /\ pc' \in {"idle", "extract"}
        /\ disk'["root"] = before' /\ disk'["old"] = disk["old"]
        /\ pc' = "extract" => status' = "ok"
        /\ \/ mv' = "start" /\ installed' = {}
           \/ pc' = "idle" /\ mv' = mv
    BY DEF Begin, Open, RefuseRoot, IInv, TypeOK, Place
  <1> QED BY <1>1, OpenKeeps

LEMMA ExtractKeeps ==
  ASSUME IInv, Extract \/ Check, NEW p \in Managed \ CrossDevice
  PROVE  Control' /\ Staged(p)' /\ Kept(p)'
  <1>1. p \in Part /\ Staged(p) /\ Kept(p) /\ Control /\ TypeOK
    BY DEF IInv, Part
  <1>2. Control'
    BY <1>1, MoveTable DEF Extract, Check, Control, Forward
  <1>3. CASE Extract
    <2>1. /\ disk'["root"] = disk["root"] /\ disk'["old"] = disk["old"]
          /\ pc = "extract" /\ pc' \in {"check", "cleanup"}
          /\ UNCHANGED <<rbFailed, attempt, before>>
      BY <1>1, <1>3 DEF Extract, TypeOK, Place
    <2>2. pc' = "check" => disk'["stage"][p] \in {Absent, Whole(attempt)}
      <3> SUFFICES ASSUME pc' = "check"
                   PROVE  disk'["stage"][p] \in {Absent, Whole(attempt)}
        OBVIOUS
      <3>1. PICK a \in Archive(attempt) : disk' = [disk EXCEPT !["stage"] = a]
        BY <1>3 DEF Extract
      <3>2. a[p] \in {Absent, Whole(attempt)}
        BY <1>1 DEF Archive
      <3> QED BY <1>1, <3>1, <3>2 DEF TypeOK, Place
    <2>3. Staged(p)'
      BY <2>1, <2>2 DEF Staged, ToInstall
    <2>4. Kept(p)'
      BY <1>1, <2>1, StepsAre
         DEF Kept, WhereOld, InPlace, Aside, Replaced, ToDrop, ToUndo, Undone,
             InRoot, In, Control, Forward
    <2> QED BY <1>2, <2>3, <2>4
  <1>4. CASE Check
    <2>1. /\ pc = "check" /\ pc' \in {"backup_data", "cleanup"}
          /\ UNCHANGED <<disk, rbFailed, attempt, before>>
      BY <1>4 DEF Check
    <2>2. pc' = "backup_data" =>
            In("stage", p) /\ (p \in had' <=> In("root", p))
      BY <1>4 DEF Check
    <2>3. Staged(p)'
      BY <1>1, <2>1, <2>2 DEF Staged, ToInstall, In, Present, Absent
    <2>4. Kept(p)'
      BY <1>1, <2>1, <2>2, StepsAre
         DEF Kept, WhereOld, InPlace, Aside, Replaced, ToDrop, ToUndo, Undone,
             InRoot, In, Present, Control, Forward
    <2> QED BY <1>2, <2>3, <2>4
  <1> QED BY <1>3, <1>4

LEMMA CleanKeeps ==
  ASSUME IInv, CleanProgress \/ CleanEnds \/ CleanFails,
         NEW p \in Managed \ CrossDevice
  PROVE  Control' /\ Staged(p)' /\ Kept(p)'
  <1>1. p \in Part /\ Staged(p) /\ Kept(p) /\ Control /\ TypeOK
        /\ attempt \in Nat
    BY RestoreAssumption DEF IInv, TypeOK, Part
  <1>2. /\ disk'["root"] = disk["root"]
        /\ pc = "cleanup" /\ pc' \in {"cleanup", "idle"}
        /\ mv' \in {mv, "start"}
        /\ pc' = "cleanup" => status' = status
        /\ UNCHANGED <<rbFailed, attempt, before, installed>>
    BY <1>1
       DEF CleanProgress, CleanEnds, CleanFails, Return, Put, TypeOK, Place
  <1>3. Control'
    BY <1>1, <1>2, MoveTable DEF Control, Forward
  <1>4. Staged(p)'
    BY <1>2 DEF Staged, ToInstall
  <1>5. ASSUME before[p].state = "whole", ~rbFailed
        PROVE  /\ disk["root"][p] \in {before[p], Whole(attempt)}
               /\ \E v \in {before[p].ver, attempt} :
                    disk["root"][p] = Whole(v)
    <2>1. disk["root"][p] \in {before[p], Whole(attempt)}
      BY <1>1, <1>2, <1>5, StepsAre DEF Kept, WhereOld, Control, Forward
    <2>2. before[p] = Whole(before[p].ver)
      BY <1>1, <1>5, WholeContent DEF TypeOK
    <2> QED BY <2>1, <2>2
  <1>6. Kept(p)'
    BY <1>1, <1>2, <1>5, StepsAre
       DEF Kept, WhereOld, InPlace, Aside, Replaced, ToDrop, ToUndo, Undone,
           Copies, Place
  <1> QED BY <1>3, <1>4, <1>6

(* A crash leaves the root as it is and abandons the staging directory     *)
(* with the old parts in it: one of the two has a complete copy.           *)
LEMMA CrashKeeps ==
  ASSUME IInv, Crash, NEW p \in Managed \ CrossDevice
  PROVE  Control' /\ Staged(p)' /\ Kept(p)'
  <1>1. p \in Part /\ Kept(p) /\ Control /\ TypeOK
    BY DEF IInv, Part
  <1>2. /\ disk'["root"] = disk["root"]
        /\ litter' = litter \cup Leftovers
        /\ pc # "idle" /\ pc' = "idle" /\ mv' = "start"
        /\ UNCHANGED <<rbFailed, attempt, before>>
    BY <1>1 DEF Crash, Return, TypeOK, Place
  <1>3. Control'
    BY <1>2 DEF Control, Forward
  <1>4. Staged(p)'
    BY <1>2 DEF Staged, ToInstall
  <1>5. ASSUME before[p].state = "whole", ~rbFailed
        PROVE  \/ disk["root"][p] \in {before[p], Whole(attempt)}
               \/ disk["old"][p] = before[p]
    BY <1>1, <1>2, <1>5, MoveTable, RemovalTable, StepsAre
       DEF Kept, WhereOld, InPlace, Aside, Replaced, ToDrop, ToUndo, Undone,
           InRoot, InOld, PC, TypeOK, Managed, Present
  <1>6. ASSUME before[p].state = "whole", ~rbFailed
        PROVE  \E v \in {before[p].ver, attempt} : Whole(v) \in Copies(p)'
    <2>1. before[p] = Whole(before[p].ver)
      BY <1>1, <1>6, WholeContent DEF TypeOK
    <2>2. CASE disk["root"][p] \in {before[p], Whole(attempt)}
      <3>1. disk["root"][p] \in Copies(p)'
        BY <1>2 DEF Copies, Place
      <3> QED BY <2>1, <2>2, <3>1
    <2>3. CASE disk["old"][p] = before[p]
      <3>1. <<p, disk["old"][p]>> \in litter'
        BY <1>1, <1>2 DEF Leftovers
      <3>2. disk["old"][p] \in Copies(p)'
        BY <3>1 DEF Copies
      <3> QED BY <2>1, <2>3, <3>2
    <2> QED BY <1>5, <1>6, <2>2, <2>3
  <1>7. Kept(p)'
    BY <1>2, <1>6, StepsAre
       DEF Kept, WhereOld, InPlace, Aside, Replaced, ToDrop, ToUndo, Undone,
           Control, Forward
  <1> QED BY <1>3, <1>4, <1>7

LEMMA InitKeeps == Init => IInv
  <1> SUFFICES ASSUME Init PROVE IInv
    OBVIOUS
  <1>1. TypeOK
    BY InitType
  <1>2. Control
    BY DEF Init, Control, Forward
  <1>3. ASSUME NEW p \in Managed \ CrossDevice
        PROVE  Control /\ Staged(p) /\ Kept(p)
    <2>1. disk["root"] = before /\ p \in Part /\ pc = "idle"
      BY DEF Init, Part
    <2>2. Kept(p)
      BY <1>1, <2>1, CopyInRoot, StepsAre
         DEF Kept, WhereOld, InPlace, Aside, Replaced, ToDrop, ToUndo, Undone,
             Control, Forward
    <2> QED BY <1>2, <2>1, <2>2 DEF Staged, ToInstall
  <1> QED BY <1>1, <1>3 DEF IInv

LEMMA NextKeeps == IInv /\ [Next]_vars => IInv'
  <1> SUFFICES ASSUME IInv, [Next]_vars PROVE IInv'
    OBVIOUS
  <1>1. TypeOK'
    BY NextType DEF IInv
  <1>2. ASSUME NEW p \in Managed \ CrossDevice
        PROVE  Control' /\ Staged(p)' /\ Kept(p)'
    <2>1. CASE UNCHANGED vars
      <3>1. Control /\ Staged(p) /\ Kept(p)
        BY DEF IInv
      <3> QED
        BY <2>1, <3>1, StepsAre
           DEF vars, Control, Staged, ToInstall, Kept, WhereOld, InPlace,
               Aside, Replaced, ToDrop, ToUndo, Undone, InRoot, InOld, In,
               Copies, Forward
    <2> QED
      BY <1>1, <2>1, BeginKeeps, ExtractKeeps, PassKeeps, MoveKeeps,
         RemoveKeeps, CleanKeeps, CrashKeeps DEF Next
  <1> QED BY <1>1, <1>2 DEF IInv

(* Wherever the plan stands, the old part is where Kept says, or the new   *)
(* one is in place.                                                        *)
LEMMA KeptIsACopy ==
  ASSUME IInv, NEW p \in Managed \ CrossDevice,
         before[p].state = "whole", ~rbFailed
  PROVE  \E v \in {before[p].ver, attempt} : Whole(v) \in Copies(p)
  <1>1. p \in Part /\ Kept(p) /\ Control /\ TypeOK
    BY DEF IInv, Part
  <1>2. before[p] = Whole(before[p].ver)
    BY <1>1, WholeContent DEF TypeOK
  <1>3. CASE pc = "idle"
    BY <1>1, <1>3, StepsAre DEF Kept, WhereOld, Control, Forward
  <1>4. CASE pc # "idle"
    <2>1. \/ disk["root"][p] \in {before[p], Whole(attempt)}
          \/ disk["old"][p] = before[p]
      BY <1>1, <1>4, MoveTable, RemovalTable, StepsAre
         DEF Kept, WhereOld, InPlace, Aside, Replaced, ToDrop, ToUndo, Undone,
             InRoot, InOld, PC, TypeOK, Managed, Present
    <2>2. disk["root"][p] \in Copies(p) /\ disk["old"][p] \in Copies(p)
      BY DEF Copies, Place
    <2> QED BY <1>2, <2>1, <2>2
  <1> QED BY <1>3, <1>4

(* Without cross-device moves a move has no phases, and what is installed  *)
(* is known from the plan.                                                 *)
LEMMA OnePhase ==
  ASSUME IInv, CrossDevice = {} PROVE Control /\ mv = "start" /\ TypeOK
  <1>1. Control
    BY DEF IInv, Managed
  <1> QED BY <1>1 DEF Control, IInv

(* In every behaviour, for every number of restores and of failures, with  *)
(* crashes or without: the old or the new version of a part that rename(2) *)
(* can move is complete somewhere on disk, or a rollback failed.           *)
THEOREM LossReported == Spec => []LossIsReported
  <1>1. IInv => LossIsReported
    BY KeptIsACopy DEF LossIsReported
  <1> QED BY <1>1, InitKeeps, NextKeeps, PTL DEF Spec

=============================================================================
