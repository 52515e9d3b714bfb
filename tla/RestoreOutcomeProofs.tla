------------------------ MODULE RestoreOutcomeProofs ------------------------
(***************************************************************************)
(* Proofs about what a restore has done when it returns, for any number of *)
(* restores and of failing operations, with and without crashes.  Success  *)
(* means that everything was replaced, whichever parts rename(2) cannot    *)
(* move; and when it can move all of them, restores are atomic calls.      *)
(***************************************************************************)
EXTENDS RestoreTxnProofs

(* OkMeansReplaced speaks of the moment of the return.  What is inductive  *)
(* follows the archive's content of each part through the plan, as long as *)
(* no error has been recorded.                                             *)

(* The step that puts part p in place, and the steps before and after it.  *)
Install == [data       |-> "install_data",
            extensions |-> "install_extensions",
            manifest   |-> "install_manifest"]

Waiting(p) ==
  \/ pc \in {"backup_data", "backup_extensions"}
  \/ pc = "install_data" /\ p # "data"
  \/ pc \in {"install_extensions", "drop_manifest"} /\ p = "manifest"

NewInPlace(p) ==
  \/ pc = "install_extensions" /\ p = "data"
  \/ pc \in {"drop_manifest", "install_manifest"} /\ p # "manifest"
  \/ pc = "cleanup"
  \/ pc = "idle" /\ ~crashed

(* An archive need not have a manifest; one that is a directory gets as    *)
(* far as drop_manifest.                                                   *)
FromArchive(p, c) ==
  \/ c = Whole(attempt)
  \/ p = "manifest" /\ c = Absent
Extracted(p, c) ==
  \/ FromArchive(p, c)
  \/ p = "manifest" /\ c.state = "dir"

(* While part p is moved in: it is complete at the source until it is      *)
(* complete at the target.  The manifest's absence from the archive is     *)
(* seen only before its move has begun, when the old one is gone.          *)
Installing(p) ==
  /\ mv \in {"start", "copying"} => FromArchive(p, disk["stage"][p])
  /\ mv = "unlinking"            => disk["root"][p] = Whole(attempt)
  /\ p = "manifest" /\ mv = "start"  => disk["root"][p] = Absent
  /\ p = "manifest" /\ mv # "start"  => disk["stage"][p] = Whole(attempt)

NewOf(p) ==
  status = "ok" =>
    /\ pc = "check"     => \/ disk["stage"][p] = Absent
                           \/ Extracted(p, disk["stage"][p])
    /\ Waiting(p)       => Extracted(p, disk["stage"][p])
    /\ pc = Install[p]  => Installing(p)
    /\ NewInPlace(p)    => FromArchive(p, disk["root"][p])

OInv ==
  /\ TypeOK
  /\ pc \in RollbackSteps => status # "ok"
  /\ \A p \in Part : NewOf(p)

LEMMA InstallTable ==
  /\ Install["data"] = "install_data"
  /\ Install["extensions"] = "install_extensions"
  /\ Install["manifest"] = "install_manifest"
  BY DEF Install

-----------------------------------------------------------------------------
(* An error claims nothing, and ends any claim.                            *)
LEMMA ErrorKeeps ==
  ASSUME TypeOK', status' # "ok" PROVE OInv'
  BY DEF OInv, NewOf

(* A step that leaves part p alone.                                        *)
Same(p) == \A pl \in Place : disk'[pl][p] = disk[pl][p]

LEMMA SameKeeps ==
  ASSUME OInv, NEW p \in Part, Same(p), pc \in Steps, Proceed,
         attempt' = attempt, pc # Install[p],
         p = "manifest" /\ pc = "drop_manifest" =>
           /\ disk["root"][p] = Absent
           /\ disk["stage"][p].state # "dir"
  PROVE  NewOf(p)'
  <1>1. /\ disk'["root"][p] = disk["root"][p]
        /\ disk'["stage"][p] = disk["stage"][p]
    BY DEF Same, Place
  <1>2. NewOf(p) /\ status' = status /\ mv' = "start" /\ pc' = OnDone[pc]
    BY DEF OInv, Proceed
  <1>3. CASE status # "ok"
    BY <1>2, <1>3 DEF NewOf
  <1>4. CASE status = "ok"
    <2>1. pc \notin RollbackSteps
      BY <1>4 DEF OInv
    <2> QED
      BY <1>1, <1>2, <1>4, <2>1, StepsAre, PlanTable, InstallTable
         DEF NewOf, Waiting, NewInPlace, Installing, FromArchive, Extracted,
             RollbackSteps, Part, Managed
  <1> QED BY <1>3, <1>4

LEMMA SkipReplaced ==
  ASSUME OInv, TypeOK', Skip PROVE OInv'
  <1>1. /\ pc \in Steps /\ Proceed /\ ~Needed(pc) /\ ~BadManifest
        /\ disk' = disk /\ attempt' = attempt /\ status' = status
        /\ pc' = OnDone[pc] /\ TypeOK
    BY DEF Skip, Steps, Proceed, OInv
  <1>2. pc' \in RollbackSteps => status' # "ok"
    BY <1>1, StepsAre, PlanTable DEF OInv, RollbackSteps
  <1>3. ASSUME NEW p \in Part PROVE NewOf(p)'
    <2>1. CASE pc # Install[p]
      <3>1. p = "manifest" /\ pc = "drop_manifest" =>
              disk["root"][p] = Absent /\ disk["stage"][p].state # "dir"
        <4>1. pc = "drop_manifest" => ~In("root", "manifest")
          BY <1>1 DEF Needed
        <4> QED
          BY <1>1, <4>1, NothingPresent DEF BadManifest, TypeOK, In, Place
      <3> QED BY <1>1, <2>1, <3>1, SameKeeps DEF Same
    <2>2. CASE pc = Install[p]
      <3>1. p = "manifest" /\ pc = "install_manifest" /\ ~In("stage", p)
        BY <1>1, <2>2, InstallTable DEF Needed, Part, Managed
      <3>2. ASSUME status = "ok" PROVE disk["root"][p] = Absent
        <4>1. Installing(p)
          BY <2>2, <3>2 DEF OInv, NewOf
        <4>2. disk["stage"][p] # Whole(attempt)
          BY <3>1 DEF In, Present, Whole
        <4> QED BY <3>1, <4>1, <4>2 DEF Installing
      <3>3. pc' = "cleanup"
        BY <1>1, <3>1, PlanTable
      <3> QED
        BY <1>1, <3>1, <3>2, <3>3, InstallTable
           DEF NewOf, Waiting, NewInPlace, FromArchive
    <2> QED BY <2>1, <2>2
  <1> QED BY <1>2, <1>3 DEF OInv

LEMMA RemoveReplaced ==
  ASSUME OInv, TypeOK', Remove PROVE OInv'
  <1> PICK step \in RemoveSteps :
        RemoveProgress(step) \/ RemoveEnds(step) \/ RemoveFails(step)
    BY DEF Remove
  <1>0. /\ pc = step /\ pc \in Steps /\ attempt' = attempt /\ TypeOK
        /\ pc \in {"drop_manifest", "drop_data", "drop_extensions"}
        /\ "root" \in Place /\ Removals[step] \in Part
    BY RemovalTable
       DEF RemoveProgress, RemoveEnds, RemoveFails, At, Steps, OInv, Place,
           Part, Managed
  <1>1. CASE RemoveFails(step)
    BY <1>1, ErrorKeeps DEF RemoveFails, GiveUp
  <1>2. CASE pc # "drop_manifest" /\ ~RemoveFails(step)
    <2>1. status' = status /\ status # "ok"
      BY <1>0, <1>2
         DEF RemoveProgress, RemoveEnds, Proceed, OInv, RollbackSteps
    <2> QED BY <2>1, ErrorKeeps
  <1>3. CASE pc = "drop_manifest" /\ RemoveProgress(step)
    BY <1>0, <1>3, RemovalTable DEF RemoveProgress, HalfRemoved, Managed
  <1>4. CASE pc = "drop_manifest" /\ RemoveEnds(step)
    <2>1. /\ Proceed /\ status' = status /\ ~BadManifest
          /\ Put("root", "manifest", Absent)
          /\ pc' = "install_manifest" /\ mv' = "start"
      BY <1>0, <1>4, RemovalTable, PlanTable DEF RemoveEnds, Proceed
    <2>2. /\ disk'["root"]["manifest"] = Absent
          /\ disk'["stage"]["manifest"] = disk["stage"]["manifest"]
          /\ \A p \in Managed : Same(p)
      BY <2>1, <1>0 DEF Put, TypeOK, Place, Part, Managed, Same
    <2>3. ASSUME NEW p \in Managed PROVE NewOf(p)'
      BY <1>0, <1>4, <2>1, <2>2, <2>3, SameKeeps, InstallTable
         DEF Part, Managed
    <2>4. NewOf("manifest")'
      <3>1. status = "ok" => FromArchive("manifest", disk["stage"]["manifest"])
        BY <1>0, <1>4, <2>1
           DEF OInv, NewOf, Waiting, Extracted, BadManifest, Part
      <3> QED
        BY <1>0, <2>1, <2>2, <3>1, InstallTable
           DEF NewOf, Waiting, NewInPlace, Installing, FromArchive
    <2> QED BY <2>1, <2>3, <2>4 DEF OInv, Part, RollbackSteps
  <1> QED BY <1>0, <1>1, <1>2, <1>3, <1>4

(* The moves.  A backup leaves the staging directory alone; the parts that *)
(* a step does not move are covered by SameKeeps.                          *)
Untouched(q) == \A p \in Part \ {q} : Same(p)

LEMMA MoveEnds ==
  ASSUME OInv, TypeOK', NEW step \in MoveSteps,
         Rename(step) \/ UnlinkEnds(step)
  PROVE  OInv'
  <1> DEFINE m == Moves[step]
             q == Moves[step].part
  <1>1. /\ pc = step /\ pc \in Steps /\ Proceed /\ status' = status
        /\ attempt' = attempt /\ pc' = OnDone[step] /\ mv' = "start"
        /\ TypeOK
        /\ q \in Part /\ m.from \in Place /\ m.to \in Place /\ m.from # m.to
    BY MoveTable, MoveType
       DEF Rename, UnlinkEnds, At, Proceed, Steps, OInv
  <1>2. CASE status # "ok"
    BY <1>1, <1>2, ErrorKeeps
  <1>3. CASE status = "ok"
    <2>1. Untouched(q)
      <3>1. CASE Rename(step)
        BY <1>1, <3>1 DEF Rename, Untouched, Same, TypeOK
      <3>2. CASE UnlinkEnds(step)
        BY <1>1, <3>2 DEF UnlinkEnds, Put, Untouched, Same, TypeOK
      <3> QED BY <3>1, <3>2
    <2>2. \A pl \in Place \ {m.from, m.to} : disk'[pl][q] = disk[pl][q]
      BY <1>1 DEF Rename, UnlinkEnds, Put, TypeOK
    <2>3. /\ Rename(step) => disk'[m.to][q] = disk[m.from][q]
          /\ UnlinkEnds(step) => disk'[m.to][q] = disk[m.to][q]
      BY <1>1 DEF Rename, UnlinkEnds, Put, TypeOK
    <2>4. /\ Rename(step) => mv = "start" /\ In(m.from, q)
          /\ UnlinkEnds(step) => mv = "unlinking"
      BY DEF Rename, UnlinkEnds, At, MoveAllowed
    <2>5. pc \notin RollbackSteps
      BY <1>3 DEF OInv
    <2> HIDE DEF m
    <2>6. pc' \notin RollbackSteps
      BY <1>1, <2>5, MoveTable, PlanTable DEF RollbackSteps
    <2>7. ASSUME NEW p \in Part \ {q} PROVE NewOf(p)'
      <3>1. pc # Install[p] /\ pc # "drop_manifest" /\ Same(p)
        BY <1>1, <2>1, MoveTable, InstallTable
           DEF Part, Managed, Untouched
      <3> QED BY <1>1, <3>1, SameKeeps
    <2>8. NewOf(q)'
      <3>1. CASE pc \in {"backup_data", "backup_extensions"}
        <4>1. q # "manifest" /\ disk'["stage"][q] = disk["stage"][q]
          BY <1>1, <2>2, <3>1, MoveTable DEF Place, m
        <4>2. Extracted(q, disk["stage"][q])
          BY <1>1, <1>3, <3>1 DEF OInv, NewOf, Waiting
        <4> QED
          BY <1>1, <3>1, <4>1, <4>2, PlanTable, InstallTable
             DEF NewOf, Waiting, NewInPlace, Installing, FromArchive,
                 Extracted, Part, Managed
      <3>2. CASE pc \in {"install_data", "install_extensions",
                         "install_manifest"}
        <4>1. pc = Install[q] /\ m.from = "stage" /\ m.to = "root"
          BY <1>1, <3>2, MoveTable, InstallTable DEF m
        <4>2. Installing(q)
          BY <1>1, <1>3, <4>1 DEF OInv, NewOf
        <4>3. disk'["root"][q] = Whole(attempt)
          BY <2>3, <2>4, <4>1, <4>2
             DEF Installing, FromArchive, In, Present, Absent
        <4> QED
          BY <1>1, <3>2, <4>3, MoveTable, PlanTable, InstallTable
             DEF NewOf, Waiting, NewInPlace, Installing, FromArchive
      <3> QED
        BY <1>1, <2>5, <3>1, <3>2, MoveTable DEF RollbackSteps
    <2> QED BY <1>1, <2>6, <2>7, <2>8 DEF OInv
  <1> QED BY <1>2, <1>3

(* The steps inside a cross-device move.                                   *)
LEMMA MoveContinues ==
  ASSUME OInv, TypeOK', NEW step \in MoveSteps,
         \/ CopyBegins(step) \/ CopyEnds(step)
         \/ UnlinkProgress(step) \/ UnlinkFails(step)
  PROVE  OInv'
  <1> DEFINE m == Moves[step]
             q == Moves[step].part
  <1>1. /\ pc = step /\ pc' = pc /\ status' = status /\ crashed' = crashed
        /\ attempt' = attempt /\ TypeOK
        /\ q \in Part /\ m.from \in Place /\ m.to \in Place /\ m.from # m.to
    BY MoveTable, MoveType
       DEF CopyBegins, CopyEnds, UnlinkProgress, UnlinkFails, At, OInv
  <1>2. CASE status # "ok"
    BY <1>1, <1>2, ErrorKeeps
  <1>3. CASE status = "ok"
    <2>1. Untouched(q)
      BY <1>1
         DEF CopyBegins, CopyEnds, UnlinkProgress, UnlinkFails, Put,
             Untouched, Same, TypeOK
    <2>2. \A pl \in Place \ {m.from, m.to} : disk'[pl][q] = disk[pl][q]
      BY <1>1
         DEF CopyBegins, CopyEnds, UnlinkProgress, UnlinkFails, Put, TypeOK
    <2>3. CopyBegins(step) =>
            /\ mv = "start" /\ mv' = "copying" /\ In(m.from, q)
            /\ disk'[m.from][q] = disk[m.from][q]
      BY <1>1 DEF CopyBegins, At, MoveAllowed, Put, TypeOK
    <2>4. CopyEnds(step) =>
            /\ mv = "copying" /\ mv' = "unlinking"
            /\ disk'[m.from][q] = disk[m.from][q]
            /\ disk'[m.to][q] = disk[m.from][q]
      BY <1>1 DEF CopyEnds, Put, TypeOK
    <2>5. UnlinkProgress(step) =>
            /\ mv = "unlinking" /\ mv' = mv
            /\ disk'[m.to][q] = disk[m.to][q]
            /\ q # "manifest"
      BY <1>1 DEF UnlinkProgress, Put, TypeOK, HalfRemoved, Managed
    <2>6. UnlinkFails(step) =>
            mv = "unlinking" /\ mv' = "scrapping" /\ disk' = disk
      BY DEF UnlinkFails
    <2> HIDE DEF m
    <2>7. ASSUME NEW p \in Part \ {q} PROVE NewOf(p)'
      <3>1. pc # Install[p] /\ disk'["root"][p] = disk["root"][p]
            /\ disk'["stage"][p] = disk["stage"][p]
        BY <1>1, <2>1, MoveTable, InstallTable
           DEF Part, Managed, Untouched, Same, Place
      <3>2. NewOf(p)
        BY DEF OInv
      <3> QED
        BY <1>1, <3>1, <3>2
           DEF NewOf, Waiting, NewInPlace, FromArchive, Extracted
    <2>8. NewOf(q)'
      <3>1. CASE pc \in {"backup_data", "backup_extensions"}
        <4>1. disk'["stage"][q] = disk["stage"][q]
          BY <1>1, <2>2, <3>1, MoveTable DEF Place, m
        <4>2. Extracted(q, disk["stage"][q])
          BY <1>1, <1>3, <3>1 DEF OInv, NewOf, Waiting
        <4> QED
          BY <1>1, <3>1, <4>1, <4>2, InstallTable
             DEF NewOf, Waiting, NewInPlace, FromArchive, Extracted, Part,
                 Managed
      <3>2. CASE pc \in {"install_data", "install_extensions",
                         "install_manifest"}
        <4>1. pc = Install[q] /\ m.from = "stage" /\ m.to = "root"
          BY <1>1, <3>2, MoveTable, InstallTable DEF m
        <4>2. Installing(q)
          BY <1>1, <1>3, <4>1 DEF OInv, NewOf
        <4>3. Installing(q)'
          <5>1. CASE CopyBegins(step)
            <6>1. disk["stage"][q] # Absent
              BY <2>3, <4>1, <5>1 DEF In, Present, Absent
            <6>2. disk'["stage"][q] = Whole(attempt)
              BY <2>3, <4>1, <4>2, <5>1, <6>1 DEF Installing, FromArchive
            <6> QED
              BY <1>1, <2>3, <5>1, <6>2 DEF Installing, FromArchive
          <5>2. CASE CopyEnds(step)
            BY <1>1, <2>4, <4>1, <4>2, <5>2 DEF Installing, FromArchive
          <5>3. CASE UnlinkProgress(step)
            BY <1>1, <2>5, <4>1, <4>2, <5>3 DEF Installing
          <5>4. CASE UnlinkFails(step)
            BY <1>1, <2>6, <4>1, <4>2, <5>4 DEF Installing
          <5> QED BY <5>1, <5>2, <5>3, <5>4
        <4> QED
          BY <1>1, <3>2, <4>3, MoveTable DEF NewOf, Waiting, NewInPlace
      <3>3. pc \notin RollbackSteps
        BY <1>3 DEF OInv
      <3> QED
        BY <1>1, <3>1, <3>2, <3>3, MoveTable DEF RollbackSteps
    <2> QED BY <1>1, <2>7, <2>8 DEF OInv
  <1> QED BY <1>2, <1>3

LEMMA MoveReplaced ==
  ASSUME OInv, TypeOK', Move PROVE OInv'
  <1> PICK step \in MoveSteps :
        \/ MoveRefused(step) \/ MoveFails(step) \/ Rename(step)
        \/ CopyBegins(step) \/ CopyEnds(step) \/ CopyFails(step)
        \/ UnlinkProgress(step) \/ UnlinkEnds(step) \/ UnlinkFails(step)
        \/ ScrapEnds(step)
    BY DEF Move
  <1>1. CASE \/ MoveRefused(step) \/ MoveFails(step)
             \/ CopyFails(step) \/ ScrapEnds(step)
    BY <1>1, ErrorKeeps
       DEF MoveRefused, MoveFails, CopyFails, ScrapEnds, GiveUp
  <1> QED BY <1>1, MoveEnds, MoveContinues

(* Outside the plan.                                                       *)

LEMMA ExtractReplaced ==
  ASSUME OInv, TypeOK', Extract \/ Check PROVE OInv'
  <1>1. TypeOK /\ attempt' = attempt /\ "stage" \in Place
    BY DEF Extract, Check, OInv, Place
  <1>2. CASE Extract /\ status' = "ok" /\ pc' = "check"
    <2>1. PICK a \in Archive(attempt) : disk' = [disk EXCEPT !["stage"] = a]
      BY <1>2 DEF Extract
    <2>2. \A p \in Part : disk'["stage"][p] = a[p]
      BY <1>1, <2>1 DEF TypeOK
    <2>3. \A p \in Part : a[p] = Absent \/ Extracted(p, a[p])'
      <3>1. \A p \in Part :
              a[p] \in {Absent, Whole(attempt),
                        [ver |-> attempt, state |-> "dir"]}
        BY DEF Archive
      <3>2. \A p \in Managed : a[p].state # "dir"
        BY DEF Archive
      <3> QED
        BY <1>1, <3>1, <3>2 DEF Extracted, FromArchive, Part, Managed
    <2> QED
      BY <1>2, <2>2, <2>3, InstallTable
         DEF OInv, NewOf, Waiting, NewInPlace, RollbackSteps, Part, Managed
  <1>3. CASE Check /\ status' = "ok" /\ pc' = "backup_data"
    <2>1. /\ disk' = disk /\ status = "ok" /\ pc = "check"
          /\ \A p \in Managed : In("stage", p)
      BY <1>3 DEF Check
    <2>2. ASSUME NEW p \in Part PROVE NewOf(p)'
      <3>1. disk["stage"][p] = Absent \/ Extracted(p, disk["stage"][p])
        BY <2>1 DEF OInv, NewOf
      <3>2. p # "manifest" => disk["stage"][p] # Absent
        BY <2>1 DEF In, Present, Absent, Part
      <3>3. Extracted(p, disk["stage"][p])
        BY <3>1, <3>2 DEF Extracted, FromArchive
      <3> QED
        BY <1>1, <1>3, <2>1, <3>3, InstallTable
           DEF NewOf, Waiting, NewInPlace, Extracted, FromArchive, Part,
               Managed
    <2> QED BY <1>3, <2>2 DEF OInv, RollbackSteps
  <1>4. \/ status' # "ok"
        \/ Extract /\ status' = "ok" /\ pc' = "check"
        \/ Check /\ status' = "ok" /\ pc' = "backup_data"
    BY DEF Extract, Check
  <1> QED BY <1>2, <1>3, <1>4, ErrorKeeps

LEMMA ReturnReplaced ==
  ASSUME OInv, TypeOK',
         \/ CleanProgress \/ CleanEnds \/ CleanFails \/ Crash
  PROVE  OInv'
  <1>1. /\ attempt' = attempt /\ disk'["root"] = disk["root"]
        /\ status' \in {status, "error"} /\ TypeOK
    BY DEF CleanProgress, CleanEnds, CleanFails, Crash, Return, Put, OInv,
           TypeOK, Place
  <1>2. CASE status' # "ok"
    BY <1>2, ErrorKeeps
  <1>3. CASE status' = "ok"
    <2>1. \/ pc = "cleanup" /\ pc' \in {"cleanup", "idle"}
          \/ pc' = "idle" /\ crashed'
      BY DEF CleanProgress, CleanEnds, CleanFails, Crash, Return
    <2>2. ASSUME NEW p \in Part PROVE NewOf(p)'
      <3>1. pc = "cleanup" => FromArchive(p, disk["root"][p])
        BY <1>1, <1>3 DEF OInv, NewOf, NewInPlace
      <3> QED
        BY <1>1, <2>1, <3>1, InstallTable
           DEF NewOf, Waiting, NewInPlace, FromArchive, Part, Managed
    <2> QED BY <2>1, <2>2 DEF OInv, RollbackSteps
  <1> QED BY <1>2, <1>3

LEMMA BeginReplaced ==
  ASSUME OInv, TypeOK', Begin \/ RefuseRoot PROVE OInv'
  <1>1. \/ status' # "ok"
        \/ pc' = "extract"
    BY DEF Begin, RefuseRoot
  <1>2. CASE pc' = "extract"
    <2>1. \A p \in Part : NewOf(p)'
      BY <1>2, InstallTable DEF NewOf, Waiting, NewInPlace, Part, Managed
    <2> QED BY <1>2, <2>1 DEF OInv, RollbackSteps
  <1> QED BY <1>1, <1>2, ErrorKeeps

LEMMA InitReplaced == Init => OInv
  BY InitType DEF Init, OInv, NewOf

LEMMA NextReplaced == OInv /\ [Next]_vars => OInv'
  <1> SUFFICES ASSUME OInv, [Next]_vars PROVE OInv'
    OBVIOUS
  <1>1. TypeOK'
    BY NextType DEF OInv
  <1>2. CASE RejectManifest
    BY <1>1, <1>2, ErrorKeeps DEF RejectManifest, GiveUp
  <1>3. CASE UNCHANGED vars
    BY <1>1, <1>3
       DEF vars, OInv, NewOf, Waiting, NewInPlace, Installing, FromArchive,
           Extracted
  <1> QED
    BY <1>1, <1>2, <1>3, BeginReplaced, ExtractReplaced, SkipReplaced,
       MoveReplaced, RemoveReplaced, ReturnReplaced DEF Next

LEMMA ReplacedAtTheEnd == OInv => OkMeansReplaced
  <1> SUFFICES ASSUME OInv, pc = "idle", status = "ok", ~crashed
               PROVE  OkMeansReplaced
    BY DEF OkMeansReplaced
  <1>1. \A p \in Part : FromArchive(p, disk["root"][p])
    BY DEF OInv, NewOf, NewInPlace
  <1> QED BY <1>1 DEF OkMeansReplaced, FromArchive, Part, Managed

(* In every behaviour, whatever failed and was rolled back in an earlier   *)
(* restore and whichever parts are copied across devices: when             *)
(* restore_backup_archive returns success, both managed parts are the      *)
(* complete ones of this archive and no older git manifest is left.        *)
THEOREM OkIsReplaced == Spec => []OkMeansReplaced
  <1> QED BY ReplacedAtTheEnd, InitReplaced, NextReplaced, PTL DEF Spec

-----------------------------------------------------------------------------
(* The refinement of AtomicRestore, when rename(2) can move every part.    *)
(* IInv says where the managed parts are; the git manifest, which the      *)
(* rollback does not cover, and the outcome need a little more.            *)

ManifestKept ==
  /\ pc \in Forward \ {"install_manifest"} =>
       disk["root"]["manifest"] = before["manifest"]
  /\ pc = "install_manifest" => disk["root"]["manifest"] = Absent
  /\ pc \in RollbackSteps \/ (pc = "cleanup" /\ status # "ok") =>
       disk["root"]["manifest"] \in {before["manifest"], Absent}
  /\ pc # "idle" => ~crashed /\ status # "none"

AInv == CrossDevice = {} => ManifestKept

(* What the operations of the plan do to the manifest.                     *)
LEMMA PlanManifest ==
  ASSUME IInv, CrossDevice = {}, Skip \/ RejectManifest \/ Move \/ Remove
  PROVE  /\ pc \in Steps /\ UNCHANGED <<attempt, before, crashed>>
         /\ \/ Proceed /\ status' = status
            \/ GiveUp
            \/ UNCHANGED <<pc, status>>
         /\ \/ disk'["root"]["manifest"] = disk["root"]["manifest"]
            \/ pc = "install_manifest" /\ Proceed
            \/ /\ pc = "drop_manifest" /\ Proceed
               /\ disk'["root"]["manifest"] = Absent
         /\ pc = "drop_manifest" /\ Proceed /\ ~In("root", "manifest") =>
              disk'["root"]["manifest"] = disk["root"]["manifest"]
         /\ pc = "drop_manifest" /\ Proceed /\ In("root", "manifest") =>
              disk'["root"]["manifest"] = Absent
  <1>0. Control /\ TypeOK /\ mv = "start"
    BY OnePhase
  <1>1. CASE Skip
    BY <1>1 DEF Skip, Steps, Proceed, Needed
  <1>2. CASE RejectManifest
    BY <1>2, RemovalTable, PlanTable
       DEF RejectManifest, BadManifest, Steps, GiveUp, Proceed
  <1>3. CASE Move
    <2>1. PICK step \in MoveSteps :
            MoveRefused(step) \/ MoveFails(step) \/ Rename(step)
      BY <1>0, <1>3
         DEF Move, CopyBegins, CopyEnds, CopyFails, UnlinkProgress,
             UnlinkEnds, UnlinkFails, ScrapEnds
    <2>2. /\ pc = step /\ pc # "drop_manifest" /\ pc \in Steps
          /\ UNCHANGED <<attempt, before, crashed>>
      BY <2>1, MoveTable DEF MoveRefused, MoveFails, Rename, At, Steps
    <2>3. CASE MoveRefused(step) \/ MoveFails(step)
      BY <2>2, <2>3 DEF MoveRefused, MoveFails
    <2>4. CASE Rename(step)
      <3>1. Proceed /\ status' = status
        BY <2>4 DEF Rename, Proceed
      <3>2. step # "install_manifest" =>
              disk'["root"]["manifest"] = disk["root"]["manifest"]
        <4>1. step # "install_manifest" => Moves[step].part # "manifest"
          BY MoveTable
        <4>2. "manifest" \in Part /\ "root" \in Place
          BY DEF Part, Place
        <4> QED
          BY <1>0, <2>4, <4>1, <4>2, MoveType DEF Rename, TypeOK
      <3> QED BY <2>2, <3>1, <3>2
    <2> QED BY <2>1, <2>3, <2>4
  <1>4. CASE Remove
    <2> PICK step \in RemoveSteps :
          RemoveProgress(step) \/ RemoveEnds(step) \/ RemoveFails(step)
      BY <1>4 DEF Remove
    <2>1. /\ pc = step /\ pc \in Steps /\ Needed(pc)
          /\ UNCHANGED <<attempt, before, crashed>>
          /\ "manifest" \in Part /\ "root" \in Place
          /\ Removals[step] \in Part
      BY RemovalTable
         DEF RemoveProgress, RemoveEnds, RemoveFails, At, Steps, Part, Place,
             Managed
    <2>2. CASE RemoveFails(step)
      <3>1. /\ GiveUp /\ disk' = disk
            /\ pc = "drop_manifest" => ~Proceed
        BY <2>1, <2>2, PlanTable DEF RemoveFails, GiveUp, Proceed
      <3> QED BY <2>1, <3>1
    <2>3. CASE RemoveProgress(step)
      <3>1. /\ UNCHANGED <<pc, status>>
            /\ pc # "drop_manifest"
            /\ Put("root", Removals[step], HalfRemoved("root", Removals[step]))
        BY <2>1, <2>3, RemovalTable
           DEF RemoveProgress, HalfRemoved, Managed
      <3>2. disk'["root"]["manifest"] = disk["root"]["manifest"]
        BY <1>0, <2>1, <3>1, RemovalTable DEF Put, TypeOK
      <3> QED BY <2>1, <3>1, <3>2
    <2>4. CASE RemoveEnds(step)
      <3>1. /\ Proceed /\ status' = status
            /\ Put("root", Removals[step], Absent)
        BY <2>4 DEF RemoveEnds, Proceed
      <3>2. IF step = "drop_manifest"
              THEN disk'["root"]["manifest"] = Absent
              ELSE disk'["root"]["manifest"] = disk["root"]["manifest"]
        BY <1>0, <2>1, <3>1, RemovalTable DEF Put, TypeOK
      <3>3. step = "drop_manifest" => In("root", "manifest")
        BY <2>1 DEF Needed
      <3> QED BY <2>1, <3>1, <3>2, <3>3
    <2> QED BY <2>2, <2>3, <2>4
  <1> QED BY <1>1, <1>2, <1>3, <1>4

LEMMA PlanKeepsManifest ==
  ASSUME IInv, ManifestKept, CrossDevice = {},
         Skip \/ RejectManifest \/ Move \/ Remove
  PROVE  ManifestKept'
  <1>1. Control /\ TypeOK
    BY OnePhase
  <1>2. /\ pc \in Steps /\ pc # "idle"
        /\ before' = before /\ crashed' = crashed
    BY PlanManifest, StepsAre
  <1>3. ~In("root", "manifest") => disk["root"]["manifest"] = Absent
    BY <1>1, NothingPresent DEF TypeOK, Part, Place, In
  <1>4. CASE Proceed /\ status' = status
    <2>1. pc' = OnDone[pc]
      BY <1>4 DEF Proceed
    <2> QED
      BY <1>1, <1>2, <1>3, <1>4, <2>1, PlanManifest, StepsAre, PlanTable
         DEF ManifestKept, Forward, RollbackSteps, Control
  <1>5. CASE GiveUp
    <2>1. /\ pc' = OnFail(pc) /\ status' = "error"
          /\ pc \in {"install_manifest", "drop_manifest"} => ~Proceed
      BY <1>5, PlanTable DEF GiveUp, Proceed
    <2>2. disk'["root"]["manifest"] = disk["root"]["manifest"]
      BY <2>1, PlanManifest
    <2> QED
      BY <1>2, <2>1, <2>2, StepsAre, PlanTable
         DEF ManifestKept, Forward, RollbackSteps
  <1>6. CASE UNCHANGED <<pc, status>>
    <2>1. ~Proceed
      BY <1>2, <1>6, StepsAre, PlanTable DEF Proceed
    <2> QED
      BY <1>2, <1>6, <2>1, PlanManifest DEF ManifestKept
  <1> QED BY <1>4, <1>5, <1>6, PlanManifest

LEMMA NextManifest == IInv /\ AInv /\ [Next]_vars => AInv'
  <1> SUFFICES ASSUME IInv, ManifestKept, [Next]_vars, CrossDevice = {}
               PROVE  ManifestKept'
    BY DEF AInv
  <1>1. TypeOK
    BY DEF IInv
  <1>2. CASE Begin \/ RefuseRoot
    BY <1>1, <1>2
       DEF Begin, Open, RefuseRoot, ManifestKept, TypeOK, Place, Forward,
           RollbackSteps
  <1>3. CASE Extract \/ Check
    <2>1. /\ disk'["root"] = disk["root"]
          /\ UNCHANGED <<before, crashed>>
          /\ pc \in {"extract", "check"}
          /\ pc' \in {"check", "backup_data", "cleanup"}
          /\ status' \in {status, "error"}
      BY <1>1, <1>3 DEF Extract, Check, TypeOK, Place
    <2> QED BY <2>1 DEF ManifestKept, Forward, RollbackSteps
  <1>4. CASE CleanProgress
    <2>1. /\ disk'["root"] = disk["root"]
          /\ pc = "cleanup" /\ pc' = "cleanup"
          /\ UNCHANGED <<before, crashed, status>>
      BY <1>1, <1>4 DEF CleanProgress, Put, TypeOK, Place
    <2> QED BY <2>1 DEF ManifestKept, Forward, RollbackSteps
  <1>5. CASE CleanEnds \/ CleanFails \/ Crash
    BY <1>5
       DEF CleanEnds, CleanFails, Crash, Return, ManifestKept, Forward,
           RollbackSteps
  <1>6. CASE UNCHANGED vars
    BY <1>6 DEF vars, ManifestKept
  <1> QED
    BY <1>2, <1>3, <1>4, <1>5, <1>6, PlanKeepsManifest DEF Next

(* A step inside a restore is not seen by the caller.                      *)
LEMMA InsideStays ==
  ASSUME TypeOK,
         \/ Extract \/ Check \/ Skip \/ RejectManifest \/ Move \/ Remove
         \/ CleanProgress
  PROVE  pc # "idle" /\ pc' # "idle" /\ UNCHANGED <<attempt, before>>
  <1>1. CASE Extract \/ Check \/ CleanProgress
    BY <1>1 DEF Extract, Check, CleanProgress
  <1>2. CASE Skip \/ RejectManifest \/ Move \/ Remove
    <2>1. pc \in Steps /\ UNCHANGED <<attempt, before>>
      BY <1>2, RemovalTable
         DEF Skip, RejectManifest, BadManifest, Move, MoveRefused, MoveFails,
             Rename, CopyBegins, CopyEnds, CopyFails, UnlinkProgress,
             UnlinkEnds, UnlinkFails, ScrapEnds, Remove, RemoveProgress,
             RemoveEnds, RemoveFails, At, Steps
    <2>2. pc' \in {pc, OnDone[pc], OnFail(pc)}
      BY <1>2
         DEF Skip, RejectManifest, Move, MoveRefused, MoveFails, Rename,
             CopyBegins, CopyEnds, CopyFails, UnlinkProgress, UnlinkEnds,
             UnlinkFails, ScrapEnds, Remove, RemoveProgress, RemoveEnds,
             RemoveFails, Proceed, GiveUp
    <2> QED BY <2>1, <2>2, StepsAre, PlanTable
  <1> QED BY <1>1, <1>2

LEMMA InsideIsHidden ==
  ASSUME IInv, CrossDevice = {},
         \/ Extract \/ Check \/ Skip \/ RejectManifest \/ Move \/ Remove
         \/ CleanProgress
  PROVE  UNCHANGED Atomic!vars
  BY InsideStays DEF Atomic!vars, IInv

(* The abstract specification speaks of the same contents.                 *)
LEMMA SameContent ==
  /\ Atomic!Part = Part /\ Atomic!Managed = Managed
  /\ Atomic!Content = Content /\ Atomic!Absent = Absent
  /\ \A tree : Atomic!Located(tree) = Located(tree)
  /\ \A v : Atomic!Whole(v) = Whole(v)
  BY DEF Atomic!Part, Part, Atomic!Managed, Managed, Atomic!Content, Content,
         Atomic!Absent, Absent, Atomic!Empty, Empty, Atomic!Located, Located,
         Atomic!Present, Present, Atomic!Whole, Whole

LEMMA BeginIsStart ==
  ASSUME TypeOK, Begin \/ RefuseRoot PROVE Atomic!Start \/ Atomic!Refuse
  <1>1. Returned # "running" /\ pc = "idle"
    BY DEF Returned, TypeOK, Begin, RefuseRoot
  <1>2. CASE Begin
    <2>1. /\ disk'["root"] \in {disk["root"], Located(disk["root"])}
          /\ before' = disk'["root"]
          /\ attempt' = attempt + 1
          /\ rbFailed' = FALSE /\ crashed' = FALSE
          /\ \/ pc' = "extract"
             \/ pc' = "idle" /\ status' = "error"
      BY <1>2 DEF Begin, Open, TypeOK, Place
    <2> QED
      BY <1>1, <2>1, SameContent DEF Atomic!Start, Atomic!Refuse, Returned
  <1>3. CASE RefuseRoot
    <2>1. /\ disk'["root"] = Located(disk["root"]) /\ attempt' = attempt
          /\ rbFailed' = FALSE /\ crashed' = FALSE
          /\ pc' = "idle" /\ status' = "error"
      BY <1>1, <1>3 DEF RefuseRoot, TypeOK, Place
    <2> QED
      BY <1>1, <2>1, SameContent DEF Atomic!Refuse, Returned
  <1> QED BY <1>2, <1>3

(* What the root holds when a rollback has not failed: what it held before *)
(* but for the manifest, or what the archive had.                          *)
LEMMA AtTheEnd ==
  ASSUME IInv, OInv, ManifestKept, CrossDevice = {}, pc = "cleanup",
         ~rbFailed
  PROVE  /\ status # "ok" =>
              disk["root"] \in
                {before, [before EXCEPT !["manifest"] = Absent]}
         /\ status = "ok" =>
              /\ \A p \in Managed : disk["root"][p] = Whole(attempt)
              /\ disk["root"]["manifest"] \in {Whole(attempt), Absent}
  <1>1. /\ disk["root"] \in [Part -> Content]
        /\ before \in [Part -> Content]
    BY DEF IInv, TypeOK, Place
  <1>2. ASSUME status # "ok"
        PROVE  disk["root"] \in
                 {before, [before EXCEPT !["manifest"] = Absent]}
    <2>1. \A p \in Managed : disk["root"][p] = before[p]
      BY <1>2 DEF IInv, Kept, WhereOld
    <2>2. disk["root"]["manifest"] \in {before["manifest"], Absent}
      BY <1>2 DEF ManifestKept
    <2> QED BY <1>1, <2>1, <2>2 DEF Part
  <1>3. ASSUME status = "ok"
        PROVE  /\ \A p \in Managed : disk["root"][p] = Whole(attempt)
               /\ disk["root"]["manifest"] \in {Whole(attempt), Absent}
    <2>1. \A p \in Part : FromArchive(p, disk["root"][p])
      BY <1>3 DEF OInv, NewOf, NewInPlace
    <2> QED BY <2>1 DEF FromArchive, Part, Managed
  <1> QED BY <1>2, <1>3

LEMMA ReturnIsAtomic ==
  ASSUME IInv, IInv', OInv, ManifestKept, CrossDevice = {},
         CleanEnds \/ CleanFails \/ Crash
  PROVE  Atomic!Replace \/ Atomic!Abort \/ Atomic!Break
  <1>1. /\ pc # "idle" /\ pc' = "idle" /\ attempt' = attempt
        /\ rbFailed' = rbFailed
        /\ disk'["root"] = disk["root"] /\ ~crashed /\ status # "none"
        /\ disk'["root"] \in [Part -> Content]
        /\ TypeOK
    BY DEF CleanEnds, CleanFails, Crash, Return, ManifestKept, IInv, TypeOK,
           Place
  <1>2. CASE Crash \/ rbFailed
    <2>1. Returned' \in {"crashed", "rollback_failed"}
      BY <1>1, <1>2 DEF Crash, Returned
    <2> QED BY <1>1, <2>1, SameContent DEF Atomic!Break
  <1>3. CASE ~Crash /\ ~rbFailed
    <2>1. /\ pc = "cleanup" /\ crashed' = FALSE
          /\ status' \in {status, "error"}
      BY <1>1, <1>3 DEF CleanEnds, CleanFails, TypeOK
    <2>2. Returned' = status'
      BY <1>1, <1>3, <2>1 DEF Returned
    <2>3. CASE status = "ok"
      BY <1>1, <1>3, <2>1, <2>2, <2>3, AtTheEnd, SameContent
         DEF Atomic!Replace
    <2>4. CASE status # "ok"
      <3>1. status' = "error"
        BY <1>1, <2>1, <2>4 DEF TypeOK
      <3> QED
        BY <1>1, <1>3, <2>1, <2>2, <2>4, <3>1, AtTheEnd, SameContent
           DEF Atomic!Abort
    <2> QED BY <2>3, <2>4
  <1> QED BY <1>2, <1>3

LEMMA InitIsAtomic == Init => Atomic!Init
  <1> SUFFICES ASSUME Init PROVE Atomic!Init
    OBVIOUS
  <1>1. disk["root"] \in [Part -> Content] /\ pc = "idle"
    BY InitType DEF TypeOK, Place, Init
  <1> QED BY <1>1, SameContent DEF Init, Atomic!Init, Returned

LEMMA NextIsAtomic ==
  ASSUME IInv, IInv', OInv, ManifestKept, CrossDevice = {}, [Next]_vars
  PROVE  [Atomic!Next]_(Atomic!vars)
  <1>1. CASE UNCHANGED vars
    BY <1>1 DEF vars, Atomic!vars, Returned
  <1>2. TypeOK
    BY DEF IInv
  <1> QED
    BY <1>1, <1>2, InsideIsHidden, BeginIsStart, ReturnIsAtomic
       DEF Next, Atomic!Next

(* When rename(2) can move every part, each behaviour of the restore, with *)
(* any operations failing and any crashes, is one of AtomicRestore: a call *)
(* replaces both managed parts by those of its own archive or leaves the   *)
(* root as it was (but for the git manifest), and says which; only a       *)
(* crash, or an error that reports a failed rollback, promises nothing.    *)
THEOREM RestoreIsAtomic == CrossDevice = {} /\ Spec => ImplementsAtomicRestore
  <1> SUFFICES ASSUME CrossDevice = {} PROVE Spec => ImplementsAtomicRestore
    OBVIOUS
  <1>1. Init => AInv
    BY DEF Init, AInv, ManifestKept, Forward, RollbackSteps
  <1>2. /\ IInv /\ IInv' /\ OInv /\ AInv /\ [Next]_vars
        => [Atomic!Next]_(Atomic!vars)
    BY NextIsAtomic DEF AInv
  <1> QED
    BY <1>1, <1>2, InitIsAtomic, InitKeeps, NextKeeps, InitReplaced,
       NextReplaced, NextManifest, PTL
       DEF Spec, ImplementsAtomicRestore, Atomic!Spec

-----------------------------------------------------------------------------
(* What the documentation promises.                                        *)

(* FullReplacement of one part: once a call has returned, the part is the  *)
(* archive's or what it was, unless a rollback has failed.                 *)
ReplacedOrKept(p) ==
  pc = "idle" /\ ~crashed /\ ~rbFailed =>
    disk["root"][p] \in {Whole(attempt), before[p]}

LEMMA ReplacementKept ==
  ASSUME IInv, [Next]_vars, NEW p \in Managed \ CrossDevice,
         ReplacedOrKept(p)
  PROVE  ReplacedOrKept(p)'
  <1>0. TypeOK
    BY DEF IInv
  <1>1. CASE Begin \/ RefuseRoot
    <2>1. before' = disk'["root"]
      BY <1>0, <1>1 DEF Begin, Open, RefuseRoot, TypeOK, Place
    <2> QED BY <2>1 DEF ReplacedOrKept
  <1>2. CASE CleanEnds \/ CleanFails
    <2>1. /\ pc = "cleanup" /\ disk'["root"] = disk["root"]
          /\ UNCHANGED <<attempt, before, rbFailed>>
      BY <1>0, <1>2 DEF CleanEnds, CleanFails, Return, TypeOK, Place
    <2>2. ~rbFailed => disk["root"][p] \in {Whole(attempt), before[p]}
      BY <2>1 DEF IInv, Kept, WhereOld
    <2> QED BY <2>1, <2>2 DEF ReplacedOrKept, Whole
  <1>3. CASE Crash
    BY <1>3 DEF Crash, ReplacedOrKept
  <1>4. CASE UNCHANGED vars
    BY <1>4 DEF vars, ReplacedOrKept, Whole
  <1>5. CASE \/ Extract \/ Check \/ Skip \/ RejectManifest \/ Move \/ Remove
             \/ CleanProgress
    BY <1>0, <1>5, InsideStays DEF ReplacedOrKept
  <1> QED BY <1>1, <1>2, <1>3, <1>4, <1>5 DEF Next

(* A part that rename(2) can move is replaced as a whole or back as it was *)
(* when a call returns that reports no failed rollback, whatever becomes   *)
(* of the other part, which may be copied across devices.                  *)
THEOREM EachReplacedOrKept ==
  Spec => [](\A p \in Managed \ CrossDevice : ReplacedOrKept(p))
  <1> DEFINE EachInv == \A p \in Managed \ CrossDevice : ReplacedOrKept(p)
  <1>1. Init => EachInv
    BY DEF Init, ReplacedOrKept
  <1>2. IInv /\ EachInv /\ [Next]_vars => EachInv'
    BY ReplacementKept
  <1> HIDE DEF EachInv
  <1>3. Spec => []EachInv
    BY <1>1, <1>2, InitKeeps, NextKeeps, PTL DEF Spec
  <1> QED BY <1>3 DEF EachInv

(* "Restore is full replacement for managed data and third-party           *)
(* extensions" (data.h) holds where rename(2) can move both parts: a call  *)
(* that returns has replaced each of them or put it back, unless it says   *)
(* that its rollback failed.  With a copying move it does not hold.        *)
THEOREM ReplacesOrRestores == CrossDevice = {} /\ Spec => []FullReplacement
  <1> SUFFICES ASSUME CrossDevice = {} PROVE Spec => []FullReplacement
    OBVIOUS
  <1>1. (\A p \in Managed \ CrossDevice : ReplacedOrKept(p))
          => FullReplacement
    BY DEF ReplacedOrKept, FullReplacement
  <1> QED BY <1>1, EachReplacedOrKept, PTL

=============================================================================
