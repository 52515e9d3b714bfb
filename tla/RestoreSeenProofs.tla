------------------------- MODULE RestoreSeenProofs --------------------------
(***************************************************************************)
(* What others see of the root while a restore runs, for any number of     *)
(* restores and failing operations: no moment of a restore, a rollback or  *)
(* a crash shows a data tree of one archive beside the extensions of       *)
(* another, when rename(2) can move every part.                            *)
(***************************************************************************)
EXTENDS RestoreTxnProofs

(* What the root shows of part p: nothing, what this restore found there,  *)
(* or files of this restore's archive.                                     *)
Out(p)      == ~Stocked(disk["root"][p])
Old(p)      == disk["root"][p] = before[p]
OldOrOut(p) == Old(p) \/ Out(p)
New(p)      == Stocked(disk["root"][p]) => disk["root"][p].ver = attempt

(* NeverMixed is not inductive: which of the two is in place at each point *)
(* of the plan is.  The first new part comes in when both old ones are     *)
(* out; the rollback takes both new ones out before an old one comes back. *)
OneVersion ==
  /\ pc \in {"extract", "check", "backup_data"} =>
       OldOrOut("data") /\ OldOrOut("extensions")
  /\ pc = "backup_data" => \A p \in Managed \ had : Out(p)
  /\ pc = "backup_extensions" =>
       /\ Out("data") /\ OldOrOut("extensions")
       /\ \A p \in Managed \ had : Out(p)
  /\ pc = "install_data"       => Out("data") /\ Out("extensions")
  /\ pc = "install_extensions" => New("data") /\ Out("extensions")
  /\ pc \in {"drop_manifest", "install_manifest"} =>
       New("data") /\ New("extensions")
  /\ pc = "drop_data" =>
       /\ "data" \notin installed       => Out("data")
       /\ "data" \in installed          => New("data")
       /\ "extensions" \notin installed => OldOrOut("extensions")
       /\ "extensions" \in installed    => New("extensions")
       /\ installed = {"data"}          => Out("extensions")
  /\ pc = "drop_extensions" =>
       Out("data") /\ ("extensions" \notin installed => OldOrOut("extensions"))
  /\ pc \in {"undo_data", "undo_extensions"} =>
       OldOrOut("data") /\ OldOrOut("extensions")
  /\ pc = "cleanup" =>
       \/ OldOrOut("data") /\ OldOrOut("extensions")
       \/ New("data") /\ New("extensions")
  /\ pc = "idle" => (Mixed(disk["root"]) => Mixed(before))

(* What was moved aside is what the restore found, or nothing to speak of. *)
PutAside ==
  pc \notin {"cleanup", "idle"} =>
    \A p \in Managed :
      Stocked(disk["old"][p]) => disk["old"][p] = before[p]

(* The staging directory holds files of this archive only.                 *)
StageIsNew ==
  \A p \in Managed :
    Stocked(disk["stage"][p]) => disk["stage"][p].ver = attempt

OldOrNew ==
  /\ StageIsNew
  /\ ~rbFailed => PutAside /\ OneVersion

MInv == CrossDevice = {} => OldOrNew

LEMMA AbsentIsOut == ~Stocked(Absent) /\ ~Present(Absent)
  BY DEF Stocked, Absent, Present

(* Half-removed files keep their archive.                                  *)
LEMMA HalfStocked ==
  ASSUME NEW place, NEW part
  PROVE  /\ Stocked(HalfRemoved(place, part)) <=> Stocked(disk[place][part])
         /\ HalfRemoved(place, part).ver = disk[place][part].ver
  BY DEF HalfRemoved, Halfway, Stocked, Torn

(* Without cross-device moves a move has no phases.                        *)
LEMMA NoPhases ==
  ASSUME Control, CrossDevice = {} PROVE mv = "start"
  BY DEF Control

(* A step that fails and leaves the disk alone.                            *)
LEMMA GiveUpMixed ==
  ASSUME TypeOK, Control, OldOrNew, CrossDevice = {}, pc \in Steps, GiveUp,
         disk' = disk, UNCHANGED <<had, attempt, before>>
  PROVE  OldOrNew'
  <1>1. /\ pc' = OnFail(pc) /\ installed' = installed
        /\ had' = had /\ attempt' = attempt /\ before' = before
    BY NoPhases DEF GiveUp
  <1>2. StageIsNew'
    BY <1>1 DEF OldOrNew, StageIsNew
  <1>3. ASSUME ~rbFailed' PROVE PutAside' /\ OneVersion'
    <2>1. ~rbFailed /\ pc \notin RollbackSteps
      BY <1>3 DEF GiveUp, IInv, TypeOK
    <2>2. PutAside /\ OneVersion
      BY <2>1 DEF OldOrNew
    <2>3. PutAside'
      BY <1>1, <2>2, StepsAre DEF PutAside
    <2>4. /\ pc \in {"backup_data", "backup_extensions", "install_data",
                     "install_extensions", "install_manifest",
                     "drop_manifest"}
          /\ pc = "backup_data" => pc' = "cleanup"
          /\ pc # "backup_data" => pc' = "drop_data"
      BY <1>1, <2>1, StepsAre, PlanTable DEF RollbackSteps
    <2>5. OneVersion'
      BY <1>1, <2>2, <2>4
         DEF OneVersion, Control, Out, Old, OldOrOut, New, Managed
    <2> QED BY <2>3, <2>5
  <1> QED BY <1>2, <1>3 DEF OldOrNew

(* A step that has nothing to do.                                          *)
LEMMA SkipMixed ==
  ASSUME TypeOK, Control, OldOrNew, CrossDevice = {}, Skip PROVE OldOrNew'
  <1>1. /\ pc \in Steps /\ ~Needed(pc)
        /\ Proceed /\ pc' = OnDone[pc] /\ rbFailed' = rbFailed
        /\ disk' = disk /\ had' = had
        /\ attempt' = attempt /\ before' = before
    BY NoPhases DEF Skip, Proceed, Steps
  <1>2. StageIsNew'
    BY <1>1 DEF OldOrNew, StageIsNew
  <1>3. ASSUME ~rbFailed' PROVE PutAside' /\ OneVersion'
    <2>1. PutAside /\ OneVersion
      BY <1>1, <1>3 DEF OldOrNew
    <2>2. PutAside'
      BY <1>1, <2>1, StepsAre DEF PutAside
    <2>3. /\ pc \notin {"install_data", "install_extensions"}
          /\ pc = "backup_data" => "data" \notin had
          /\ pc = "backup_extensions" => "extensions" \notin had
          /\ pc = "drop_data" => "data" \notin installed
          /\ pc = "drop_extensions" => "extensions" \notin installed
      BY <1>1 DEF Needed
    <2>4. installed' = installed
      BY <1>1, <2>3 DEF Proceed
    <2>5. OneVersion'
      BY <1>1, <2>1, <2>3, <2>4, StepsAre, PlanTable
         DEF OneVersion, Control, Out, Old, OldOrOut, New, Managed
    <2> QED BY <2>2, <2>5
  <1> QED BY <1>2, <1>3 DEF OldOrNew

(* A move: from the place the plan says, whole, to an empty one.           *)
LEMMA RenameMixed ==
  ASSUME TypeOK, Control, OldOrNew, CrossDevice = {}, NEW step \in MoveSteps,
         Rename(step)
  PROVE  OldOrNew'
  <1> DEFINE m == Moves[step]
             q == Moves[step].part
  <1>1. /\ pc = step
        /\ Proceed /\ pc' = OnDone[pc] /\ rbFailed' = rbFailed
        /\ had' = had /\ attempt' = attempt /\ before' = before
        /\ In(m.from, q) /\ ~In(m.to, q)
    BY NoPhases DEF Rename, Proceed, At, MoveAllowed
  <1>2. /\ q \in Part /\ m.from \in Place /\ m.to \in Place /\ m.from # m.to
        /\ m.from = "stage" => m.to = "root"
        /\ m.from = "old" => m.to = "root"
        /\ m.from = "root" => m.to = "old"
    BY MoveTable, MoveType
  <1>3. /\ disk'[m.to][q] = disk[m.from][q]
        /\ disk'[m.from][q] = Absent
        /\ \A pl \in Place \ {m.from, m.to} : disk'[pl][q] = disk[pl][q]
        /\ \A p \in Part \ {q}, pl \in Place : disk'[pl][p] = disk[pl][p]
    BY <1>1, <1>2 DEF Rename, TypeOK
  <1> HIDE DEF m
  <1>4. StageIsNew'
    <2>1. \A p \in Part : disk'["stage"][p] \in {disk["stage"][p], Absent}
      BY <1>2, <1>3 DEF Place
    <2> QED
      BY <1>1, <2>1, AbsentIsOut DEF OldOrNew, StageIsNew, Part
  <1>5. ASSUME ~rbFailed' PROVE PutAside' /\ OneVersion'
    <2>1. PutAside /\ OneVersion /\ StageIsNew
      BY <1>1, <1>5 DEF OldOrNew
    <2>2. PutAside'
      <3>1. ASSUME NEW p \in Managed, Stocked(disk'["old"][p])
            PROVE  disk'["old"][p] = before[p]
        <4>1. CASE p = q /\ m.from = "root"
          <5>1. OldOrOut(q)
            <6>1. pc \in {"backup_data", "backup_extensions"}
              BY <1>1, <4>1, MoveTable DEF m
            <6>2. /\ pc = "backup_data" => q = "data"
                  /\ pc = "backup_extensions" => q = "extensions"
              BY <1>1, MoveTable DEF m
            <6> QED BY <2>1, <6>1, <6>2 DEF OneVersion
          <5>2. disk'["old"][p] = disk["root"][p]
            BY <1>2, <1>3, <4>1
          <5> QED BY <3>1, <4>1, <5>1, <5>2 DEF OldOrOut, Old, Out
        <4>2. CASE p = q /\ m.from = "old"
          BY <1>3, <3>1, <4>2, AbsentIsOut
        <4>3. CASE p # q \/ m.from = "stage"
          <5>1. disk'["old"][p] = disk["old"][p]
            BY <1>2, <1>3, <4>3 DEF Place, Part
          <5> QED
            BY <1>1, <2>1, <3>1, <5>1, MoveTable DEF PutAside
        <4> QED BY <1>2, <4>1, <4>2, <4>3 DEF Place
      <3> QED BY <1>1, <3>1 DEF PutAside
    <2>3. CASE pc \in {"backup_data", "backup_extensions"}
      <3>1. disk'["root"][q] = Absent /\ q \in Managed
        BY <1>1, <1>3, <2>3, MoveTable DEF m, Managed
      <3>2. installed' = installed
        BY <1>1, <2>3 DEF Proceed
      <3>3. \A p \in Part \ {q} : disk'["root"][p] = disk["root"][p]
        BY <1>3 DEF Place
      <3> QED
        BY <1>1, <2>1, <2>2, <2>3, <3>1, <3>2, <3>3, MoveTable, PlanTable,
           AbsentIsOut
           DEF OneVersion, Out, Old, OldOrOut, Managed, Part
    <2>4. CASE pc \in {"install_data", "install_extensions",
                       "install_manifest"}
      <3>1. disk'["root"][q] = disk["stage"][q]
        BY <1>1, <1>3, <2>4, MoveTable DEF m
      <3>2. \A p \in Part \ {q} : disk'["root"][p] = disk["root"][p]
        BY <1>3 DEF Place
      <3>3. q \in Managed => New(q)'
        BY <1>1, <2>1, <3>1 DEF StageIsNew, New
      <3> QED
        BY <1>1, <2>1, <2>2, <2>4, <3>2, <3>3, MoveTable, PlanTable
           DEF OneVersion, Out, New, Managed, Part
    <2>5. CASE pc \in {"undo_data", "undo_extensions"}
      <3>1. disk'["root"][q] = disk["old"][q] /\ m.from = "old"
            /\ q \in Managed
        BY <1>1, <1>3, <2>5, MoveTable DEF m, Managed
      <3>2. \A p \in Part \ {q} : disk'["root"][p] = disk["root"][p]
        BY <1>3 DEF Place
      <3>3. OldOrOut(q)'
        BY <1>1, <2>1, <2>5, <3>1 DEF PutAside, OldOrOut, Old, Out
      <3> QED
        BY <1>1, <2>1, <2>2, <2>5, <3>2, <3>3, MoveTable, PlanTable
           DEF OneVersion, OldOrOut, Old, Out, Managed, Part
    <2> QED BY <1>1, <2>3, <2>4, <2>5, MoveTable
  <1> QED BY <1>4, <1>5 DEF OldOrNew

LEMMA MoveMixed ==
  ASSUME TypeOK, Control, OldOrNew, CrossDevice = {}, Move PROVE OldOrNew'
  <1> PICK step \in MoveSteps :
        \/ MoveRefused(step) \/ MoveFails(step) \/ Rename(step)
        \/ CopyBegins(step) \/ CopyEnds(step) \/ CopyFails(step)
        \/ UnlinkProgress(step) \/ UnlinkEnds(step) \/ UnlinkFails(step)
        \/ ScrapEnds(step)
    BY DEF Move
  <1>1. MoveRefused(step) \/ MoveFails(step) \/ Rename(step)
    BY NoPhases
       DEF CopyBegins, CopyEnds, CopyFails, UnlinkProgress, UnlinkEnds,
           UnlinkFails, ScrapEnds
  <1>2. CASE MoveRefused(step) \/ MoveFails(step)
    BY <1>2, GiveUpMixed DEF MoveRefused, MoveFails, At, Steps
  <1> QED BY <1>1, <1>2, RenameMixed

(* A removal.                                                              *)
LEMMA RemoveMixed ==
  ASSUME TypeOK, Control, OldOrNew, CrossDevice = {}, Remove PROVE OldOrNew'
  <1> PICK step \in RemoveSteps :
        RemoveProgress(step) \/ RemoveEnds(step) \/ RemoveFails(step)
    BY DEF Remove
  <1> DEFINE q == Removals[step]
  <1>1. /\ pc = step /\ pc \in Steps /\ Needed(pc)
        /\ had' = had /\ attempt' = attempt /\ before' = before
        /\ q \in Part /\ "root" \in Place
    BY NoPhases, RemovalTable
       DEF RemoveProgress, RemoveEnds, RemoveFails, At, Steps, Part, Managed,
           Place
  <1>2. CASE RemoveFails(step)
    BY <1>1, <1>2, GiveUpMixed DEF RemoveFails
  <1>3. CASE RemoveProgress(step) \/ RemoveEnds(step)
    <2>1. /\ \A pl \in Place \ {"root"} : disk'[pl] = disk[pl]
          /\ \A p \in Part \ {q} : disk'["root"][p] = disk["root"][p]
      BY <1>1, <1>3 DEF RemoveProgress, RemoveEnds, Put, TypeOK
    <2>2. /\ rbFailed' = rbFailed /\ installed' = installed
          /\ RemoveProgress(step) => pc' = pc
          /\ RemoveEnds(step) => pc' = OnDone[pc]
      BY <1>1, <1>3, MoveTable, RemovalTable
         DEF RemoveProgress, RemoveEnds, Proceed
    <2>3. StageIsNew'
      BY <1>1, <2>1 DEF OldOrNew, StageIsNew, Place
    <2>4. ASSUME ~rbFailed PROVE PutAside' /\ OneVersion'
      <3>1. PutAside /\ OneVersion
        BY <2>4 DEF OldOrNew
      <3>2. PutAside'
        BY <1>1, <2>1, <2>2, <3>1, RemovalTable, PlanTable
           DEF PutAside, Place
      <3>3. RemoveEnds(step) => disk'["root"][q] = Absent
        BY <1>1 DEF RemoveEnds, Put, TypeOK
      <3>4. RemoveProgress(step) =>
              /\ Stocked(disk["root"][q]) <=> Stocked(disk'["root"][q])
              /\ disk'["root"][q].ver = disk["root"][q].ver
        <4>1. RemoveProgress(step) =>
                disk'["root"][q] = HalfRemoved("root", q)
          BY <1>1 DEF RemoveProgress, Put, TypeOK
        <4> QED
          BY <4>1, HalfStocked
      <3>5. CASE pc = "drop_manifest"
        <4>1. q = "manifest" /\ pc' \in {"drop_manifest", "install_manifest"}
          BY <1>1, <1>3, <2>2, <3>5, RemovalTable, PlanTable
        <4> QED
          BY <1>1, <2>1, <2>2, <3>1, <3>2, <3>5, <4>1
             DEF OneVersion, New, Part, Managed
      <3>6. CASE pc = "drop_data"
        <4>1. /\ q = "data" /\ "data" \in installed
              /\ disk'["root"]["extensions"] = disk["root"]["extensions"]
          BY <1>1, <2>1, <3>6, RemovalTable DEF Needed, Part, Managed
        <4>2. CASE RemoveProgress(step)
          <5>1. New("data")'
            BY <1>1, <3>1, <3>4, <3>6, <4>1, <4>2 DEF OneVersion, New
          <5> QED
            BY <1>1, <2>2, <3>1, <3>2, <3>6, <4>1, <4>2, <5>1
               DEF OneVersion, New, Out, Old, OldOrOut
        <4>3. CASE RemoveEnds(step)
          <5>1. Out("data")'
            BY <3>3, <4>1, <4>3, AbsentIsOut DEF Out
          <5> QED
            BY <1>1, <2>2, <3>1, <3>2, <3>6, <4>1, <4>3, <5>1, PlanTable
               DEF OneVersion, Out, Old, OldOrOut
        <4> QED BY <1>3, <4>2, <4>3
      <3>7. CASE pc = "drop_extensions"
        <4>1. /\ q = "extensions" /\ "extensions" \in installed
              /\ disk'["root"]["data"] = disk["root"]["data"]
          BY <1>1, <2>1, <3>7, RemovalTable DEF Needed, Part, Managed
        <4>2. RemoveEnds(step) => Out("extensions")'
          BY <3>3, <4>1, AbsentIsOut DEF Out
        <4> QED
          BY <1>1, <1>3, <2>2, <3>1, <3>2, <3>7, <4>1, <4>2, PlanTable
             DEF OneVersion, Out, Old, OldOrOut
      <3> QED BY <1>1, <3>5, <3>6, <3>7, RemovalTable
    <2> QED BY <2>2, <2>3, <2>4 DEF OldOrNew
  <1> QED BY <1>2, <1>3

(* At every point of the plan one of the parts is out, or both are old, or *)
(* both are new.                                                           *)
LEMMA NoMix ==
  ASSUME TypeOK, OldOrNew, ~rbFailed
  PROVE  Mixed(disk["root"]) => Mixed(before)
  <1>1. OneVersion
    BY DEF OldOrNew
  <1>2. \/ pc = "idle"
        \/ Out("data") \/ Out("extensions")
        \/ OldOrOut("data") /\ OldOrOut("extensions")
        \/ New("data") /\ New("extensions")
    <2>1. CASE pc = "drop_data"
      <3>1. installed = {} \/ installed = {"data"}
            \/ installed = {"extensions"} \/ installed = Managed
        BY DEF TypeOK, Managed
      <3> QED BY <1>1, <2>1, <3>1 DEF OneVersion, Managed
    <2>2. CASE pc # "drop_data"
      BY <1>1, <2>2, MoveTable, RemovalTable
         DEF OneVersion, OldOrOut, TypeOK, PC
    <2> QED BY <2>1, <2>2
  <1> QED BY <1>1, <1>2 DEF OneVersion, Mixed, Out, Old, OldOrOut, New

LEMMA BeginMixed ==
  ASSUME TypeOK, Begin \/ RefuseRoot PROVE OldOrNew'
  <1>1. /\ pc = "idle" /\ pc' \in {"idle", "extract"}
        /\ disk'["root"] = before'
        /\ disk'["stage"] = NoTree /\ disk'["old"] = NoTree
    BY DEF Begin, Open, RefuseRoot, TypeOK, Place
  <1>2. \A p \in Part : NoTree[p] = Absent
    BY DEF NoTree
  <1>3. StageIsNew' /\ PutAside'
    BY <1>1, <1>2, AbsentIsOut DEF StageIsNew, PutAside, Part
  <1>4. OneVersion'
    BY <1>1 DEF OneVersion, OldOrOut, Old
  <1> QED BY <1>3, <1>4 DEF OldOrNew

LEMMA ExtractMixed ==
  ASSUME TypeOK, OldOrNew, Extract \/ Check PROVE OldOrNew'
  <1>1. /\ disk'["root"] = disk["root"] /\ disk'["old"] = disk["old"]
        /\ attempt' = attempt /\ before' = before /\ rbFailed' = rbFailed
        /\ installed' = installed
        /\ pc \in {"extract", "check"}
        /\ pc' \in {"check", "backup_data", "cleanup"}
    BY DEF Extract, Check, TypeOK, Place
  <1>2. StageIsNew'
    <2>1. CASE Extract
      <3>1. PICK a \in Archive(attempt) \cup Unfinished(attempt) :
              disk' = [disk EXCEPT !["stage"] = a]
        BY <2>1 DEF Extract
      <3>2. disk'["stage"] = a
        BY <3>1 DEF TypeOK, Place
      <3>3. \A p \in Managed :
              a[p] \in {Absent, Whole(attempt), Torn(attempt),
                        [ver |-> attempt, state |-> "dir"]}
        BY DEF Archive, Unfinished, Part
      <3> QED
        BY <1>1, <3>2, <3>3 DEF StageIsNew, Stocked, Absent, Whole, Torn
    <2>2. CASE Check
      BY <2>2 DEF Check, OldOrNew, StageIsNew
    <2> QED BY <2>1, <2>2
  <1>3. ASSUME ~rbFailed PROVE PutAside' /\ OneVersion'
    <2>1. PutAside /\ OldOrOut("data") /\ OldOrOut("extensions")
      BY <1>1, <1>3 DEF OldOrNew, OneVersion
    <2>2. PutAside'
      BY <1>1, <2>1 DEF PutAside
    <2>3. pc' = "backup_data" => \A p \in Managed \ had' : Out(p)'
      BY <1>1 DEF Extract, Check, In, Present, Out, Stocked
    <2> QED
      BY <1>1, <2>1, <2>2, <2>3 DEF OneVersion, Old, OldOrOut, Out
  <1> QED BY <1>1, <1>2, <1>3 DEF OldOrNew

LEMMA ReturnMixed ==
  ASSUME TypeOK, OldOrNew,
         \/ CleanProgress \/ CleanEnds \/ CleanFails \/ Crash
  PROVE  OldOrNew'
  <1>1. /\ disk'["root"] = disk["root"]
        /\ attempt' = attempt /\ before' = before /\ rbFailed' = rbFailed
    BY DEF CleanProgress, CleanEnds, CleanFails, Crash, Return, Put, TypeOK,
           Place
  <1>2. CASE CleanProgress
    <2>1. PICK pl \in {"stage", "old"}, p \in Part :
            Put(pl, p, Absent) \/ Put(pl, p, HalfRemoved(pl, p))
      BY <1>2 DEF CleanProgress
    <2>2. \A q \in Part :
            \/ disk'["stage"][q] = disk["stage"][q]
            \/ disk'["stage"][q] = Absent
            \/ disk'["stage"][q] = HalfRemoved("stage", q)
      BY <2>1 DEF Put, TypeOK, Place
    <2>3. StageIsNew'
      BY <1>1, <2>2, AbsentIsOut, HalfStocked
         DEF OldOrNew, StageIsNew, Part
    <2>4. pc = "cleanup" /\ pc' = "cleanup"
      BY <1>2 DEF CleanProgress
    <2> QED
      BY <1>1, <2>3, <2>4
         DEF OldOrNew, PutAside, OneVersion, Old, OldOrOut, Out, New
  <1>3. CASE CleanEnds \/ CleanFails \/ Crash
    <2>1. pc' = "idle" /\ disk'["stage"] = NoTree
      BY <1>3 DEF CleanEnds, CleanFails, Crash, Return, TypeOK, Place
    <2>2. StageIsNew'
      BY <2>1, AbsentIsOut DEF StageIsNew, NoTree, Part
    <2> QED
      BY <1>1, <2>1, <2>2, NoMix DEF OldOrNew, PutAside, OneVersion
  <1> QED BY <1>2, <1>3

LEMMA InitMixed == Init => OldOrNew
  <1> SUFFICES ASSUME Init PROVE OldOrNew
    OBVIOUS
  <1>1. disk["stage"] = NoTree /\ disk["root"] = before /\ pc = "idle"
    BY DEF Init
  <1> QED
    BY <1>1, AbsentIsOut
       DEF OldOrNew, StageIsNew, PutAside, OneVersion, NoTree, Part

(* Every step of the restore, and none.                                    *)
LEMMA StepMixed ==
  ASSUME TypeOK, Control, OldOrNew, CrossDevice = {}, [Next]_vars
  PROVE  OldOrNew'
  <1>1. CASE RejectManifest
    <2>1. pc \in Steps /\ GiveUp /\ disk' = disk
          /\ UNCHANGED <<had, attempt, before>>
      BY <1>1, RemovalTable DEF RejectManifest, BadManifest, Steps
    <2> QED BY <2>1, GiveUpMixed
  <1>2. CASE UNCHANGED vars
    BY <1>2
       DEF vars, OldOrNew, StageIsNew, PutAside, OneVersion, Out, Old,
           OldOrOut, New
  <1> QED
    BY <1>1, <1>2, BeginMixed, ExtractMixed, SkipMixed, MoveMixed,
       RemoveMixed, ReturnMixed DEF Next

LEMMA NextMixed == IInv /\ MInv /\ [Next]_vars => MInv'
  <1> SUFFICES ASSUME IInv, MInv, [Next]_vars, CrossDevice = {}
               PROVE  OldOrNew'
    BY DEF MInv
  <1> QED BY StepMixed, OnePhase DEF MInv

(* In every behaviour, for every number of restores and of failures, with  *)
(* crashes or without: when rename(2) can move every part, whoever reads   *)
(* the root never finds a data tree and extensions of different archives,  *)
(* unless they were so before or a rollback failed.                        *)
THEOREM OneArchiveShown == Spec => []NeverMixed
  <1>1. Init => MInv
    BY InitMixed DEF MInv
  <1>2. IInv /\ MInv => NeverMixed
    BY NoMix DEF IInv, MInv, NeverMixed
  <1> QED BY <1>1, <1>2, InitKeeps, NextKeeps, NextMixed, PTL DEF Spec

=============================================================================
