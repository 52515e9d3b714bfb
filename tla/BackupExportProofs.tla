------------------------- MODULE BackupExportProofs -------------------------
(***************************************************************************)
(* Proofs about an export beside restores of the same root and beside any  *)
(* locate() in the middle of them, for any number of restores, exports and *)
(* failing operations, with crashes or without, and for any set of parts   *)
(* that live on another device: what the export has read, and what the     *)
(* restore keeps to although others create directories under its feet.     *)
(***************************************************************************)
EXTENDS BackupExport, RestoreOutcomeProofs, RestoreSeenProofs

-----------------------------------------------------------------------------
(* The export.                                                             *)

XInv == TypeOK /\ ExportTypeOK

(* What a step of a restore, or a locate(), does not touch of the export.  *)
exportOwn == <<walk, got, short, temp, out, exported, exports>>

LEMMA NothingYetType ==
  /\ NothingYet \in [Part -> SUBSET Content]
  /\ \A p \in Managed : NothingYet[p] = {}
  BY DEF NothingYet, Part

LEMMA SourceType ==
  /\ \A p \in Part : Source(p) \in Part
  /\ \A p \in Managed : Source(p) = p
  BY DEF Source, Part, Managed

Handles == [at : {"closed", "root", "old", "litter", "lost"}, ver : Nat]

LEMMA HandleType ==
  /\ Closed \in Handles
  /\ ExportTypeOK => held \in Handles
  BY DEF Handles, Closed, ExportTypeOK

(* The ways on that add to the archive, or read a listing to its end.      *)
LEMMA WalkKept ==
  ASSUME XInv, \/ CloseDirectory
               \/ \E p \in Part : Visit(p) \/ Leave(p)
  PROVE  ExportTypeOK'
  <1>1. ASSUME NEW p \in Part, Visit(p) PROVE ExportTypeOK'
    <2> DEFINE c == disk["root"][Source(p)]
    <2>1. c \in Content
      BY SourceType DEF XInv, TypeOK, Place
    <2>2. c.state = "whole" => c.ver \in Nat
      BY <2>1 DEF Content, Absent, Empty
    <2>3. /\ got' = [got EXCEPT ![p] = @ \cup {c}]
          /\ UNCHANGED <<walk, short, temp, out, exported, exports>>
          /\ \/ held' = held
             \/ c.state = "whole" /\ held' = [at |-> "root", ver |-> c.ver]
      BY <1>1 DEF Visit
    <2> HIDE DEF c
    <2>4. held' \in Handles
      BY <2>2, <2>3, HandleType DEF XInv, Handles
    <2> QED
      BY <2>1, <2>3, <2>4 DEF XInv, ExportTypeOK, Handles
  <1>2. ASSUME NEW p \in Part, Leave(p) PROVE ExportTypeOK'
    BY <1>2 DEF Leave, XInv, ExportTypeOK, Part, Managed, AfterPart
  <1>3. CASE CloseDirectory
    BY <1>3, HandleType
       DEF CloseDirectory, XInv, ExportTypeOK, Handles
  <1> QED BY <1>1, <1>2, <1>3

(* All others leave the archive as it is, or drop it.                      *)
LEMMA ExportKept ==
  ASSUME XInv, ExportStep PROVE ExportTypeOK'
  <1> USE NothingYetType, HandleType, ExportAssumption
      DEF XInv, ExportTypeOK, Handles, Finish
  <1>1. CASE OpenFile
    <2>1. exports' \in 0..MaxExports
      BY <1>1 DEF OpenFile
    <2>2. CASE walk' = "temp" /\ out' = "empty" /\ exported' = "none"
               /\ UNCHANGED <<got, held, short, temp>>
      BY <1>1, <2>1, <2>2 DEF OpenFile
    <2>3. CASE Finish("error") /\ UNCHANGED out
      BY <2>1, <2>3
    <2> QED BY <1>1, <2>2, <2>3 DEF OpenFile
  <1>2. CASE MakeTemp
    BY <1>2 DEF MakeTemp, Part, Managed
  <1>3. CASE Abandon
    BY <1>3 DEF Abandon, Part, Managed
  <1>4. CASE CloseArchive
    BY <1>4 DEF CloseArchive
  <1>5. CASE CopyOut \/ CopyOutEnds \/ Flush
    BY <1>5 DEF CopyOut, CopyOutEnds, Flush
  <1>6. CASE KillExport
    BY <1>6 DEF KillExport
  <1>7. CASE CloseDirectory \/ \E p \in Part : Visit(p) \/ Leave(p)
    BY <1>7, WalkKept
  <1> QED
    BY <1>1, <1>2, <1>3, <1>4, <1>5, <1>6, <1>7 DEF ExportStep

(* A restore takes the open directory from one known place to another, or  *)
(* out of reach.                                                           *)
LEMMA FollowKept ==
  ASSUME XInv, Follow, UNCHANGED exportOwn PROVE ExportTypeOK'
  <1>1. held' \in Handles
    <2>1. CASE held' = held
      BY <2>1, HandleType DEF XInv
    <2>2. CASE Carried /\ held' = [held EXCEPT !.at = Moves[pc].to]
      <3>1. Moves[pc].from \in {"root", "old"}
        BY <2>2, MoveTable, HandleType DEF XInv, Carried, Handles
      <3>2. Moves[pc].to \in {"root", "old"}
        BY <2>2, <3>1, MoveTable DEF Carried
      <3> QED BY <2>2, <3>2, HandleType DEF XInv, Handles
    <2>3. CASE \E at \in {"litter", "lost"} : held' = [held EXCEPT !.at = at]
      BY <2>3, HandleType DEF XInv, Handles
    <2> QED BY <2>1, <2>2, <2>3 DEF Follow
  <1> QED BY <1>1 DEF XInv, ExportTypeOK, exportOwn, Handles

LEMMA CreateKept ==
  ASSUME TypeOK, CreateManager PROVE TypeOK'
  <1>1. Located(disk["root"]) \in [Part -> Content]
    BY LocatedType DEF TypeOK, Place
  <1> QED BY <1>1 DEF TypeOK, CreateManager, Place

LEMMA ExportInitInv == ExportInit => XInv
  <1> SUFFICES ASSUME ExportInit PROVE XInv
    OBVIOUS
  <1>1. TypeOK
    BY InitType DEF ExportInit
  <1>2. /\ walk = "idle" /\ got = NothingYet /\ held = Closed /\ short = {}
        /\ temp = FALSE /\ out = "earlier" /\ exported = "none"
        /\ exports = 0
    BY DEF ExportInit
  <1>3. exports \in 0..MaxExports
    BY <1>2, ExportAssumption
  <1>4. temp \in BOOLEAN /\ (temp => walk # "idle" \/ exported = "killed")
    BY <1>2
  <1>5. held \in Handles /\ short \subseteq Nat
    BY <1>2, HandleType
  <1>6. ExportTypeOK
    BY <1>2, <1>3, <1>4, <1>5, NothingYetType DEF ExportTypeOK, Handles
  <1> QED BY <1>1, <1>6 DEF XInv

(* A step is one of the export, or one beside it.                          *)
LEMMA ExportCases ==
  ASSUME [ExportNext]_<<vars, exportVars>>
  PROVE  \/ UNCHANGED vars /\ (ExportStep \/ UNCHANGED exportVars)
         \/ (Next \/ CreateManager) /\ Follow /\ UNCHANGED exportOwn
  BY DEF ExportNext, exportOwn

LEMMA ExportNextInv == XInv /\ [ExportNext]_<<vars, exportVars>> => XInv'
  <1> SUFFICES ASSUME XInv, [ExportNext]_<<vars, exportVars>> PROVE XInv'
    OBVIOUS
  <1>1. TypeOK'
    BY ExportCases, NextType, CreateKept DEF XInv
  <1>2. ExportTypeOK'
    <2>1. CASE UNCHANGED exportVars
      BY <2>1 DEF XInv, exportVars, ExportTypeOK
    <2> QED BY <2>1, ExportCases, ExportKept, FollowKept
  <1> QED BY <1>1, <1>2 DEF XInv

LEMMA ExportInvariant == ExportSpec => []XInv
  BY ExportInitInv, ExportNextInv, PTL DEF ExportSpec

(* Beside any restore, and any locate() in the middle of it, the state of  *)
(* an export is well typed, its temporary archive goes with the call,      *)
(* unless that is killed, and it returns ok only for a file that it has    *)
(* written to its end.                                                     *)
THEOREM ExportTypeCorrect == ExportSpec => []ExportTypeOK
  <1>1. XInv => ExportTypeOK
    BY DEF XInv
  <1> QED BY <1>1, ExportInvariant, PTL

-----------------------------------------------------------------------------
(* What one step of a restore does to the disk, whichever parts are copied *)
(* across devices.                                                         *)

PlanStep == Skip \/ RejectManifest \/ Move \/ Remove

(* The part that the operation under way is about.                         *)
Subject == IF pc \in MoveSteps THEN Moves[pc].part ELSE Removals[pc]

MoveStep(step) ==
  \/ MoveRefused(step) \/ MoveFails(step) \/ Rename(step)
  \/ CopyBegins(step) \/ CopyEnds(step) \/ CopyFails(step)
  \/ UnlinkProgress(step) \/ UnlinkEnds(step) \/ UnlinkFails(step)
  \/ ScrapEnds(step)

LEMMA SubjectTable ==
  /\ MoveSteps \cap RemoveSteps = {}
  /\ \A step \in MoveSteps : Moves[step].from # Moves[step].to
  /\ \A step \in RemoveSteps : Removals[step] \in Part
  /\ pc \in Steps => Subject \in Part
  BY MoveTable, RemovalTable, StepsAre
     DEF Subject, Part, Managed

(* How an operation of the plan may leave the control state, and that it   *)
(* touches its own part only.                                              *)
OwnPartOnly ==
  \A p \in Part \ {Subject}, pl \in Place : disk'[pl][p] = disk[pl][p]

LEMMA MoveFootprint ==
  ASSUME TypeOK, Control, NEW step \in MoveSteps, MoveStep(step)
  PROVE  /\ pc = step /\ OwnPartOnly
         /\ UNCHANGED <<had, crashed, attempt, litter, before>>
         /\ \/ Proceed
            \/ GiveUp
            \/ /\ UNCHANGED <<pc, installed, status, rbFailed>>
               /\ Subject \in CrossDevice
  <1> DEFINE m == Moves[step]
  <1>1. /\ m.part \in Part /\ m.from \in Place /\ m.to \in Place
        /\ pc = step /\ Subject = m.part
    BY MoveType
       DEF MoveStep, MoveRefused, MoveFails, Rename, CopyBegins, CopyEnds,
           CopyFails, UnlinkProgress, UnlinkEnds, UnlinkFails, ScrapEnds, At,
           Subject
  <1>2. UNCHANGED <<had, crashed, attempt, litter, before>>
    BY DEF MoveStep, MoveRefused, MoveFails, Rename, CopyBegins, CopyEnds,
           CopyFails, UnlinkProgress, UnlinkEnds, UnlinkFails, ScrapEnds
  <1>3. OwnPartOnly
    <2>1. CASE \/ MoveRefused(step) \/ MoveFails(step)
               \/ CopyFails(step) \/ UnlinkFails(step)
      BY <2>1
         DEF MoveRefused, MoveFails, CopyFails, UnlinkFails, OwnPartOnly
    <2>2. CASE Rename(step)
      BY <1>1, <2>2 DEF Rename, OwnPartOnly, TypeOK
    <2>3. CASE \/ CopyBegins(step) \/ CopyEnds(step)
               \/ UnlinkProgress(step) \/ UnlinkEnds(step)
               \/ ScrapEnds(step)
      <3>1. PICK pl \in {m.from, m.to} : \E c : Put(pl, m.part, c)
        BY <2>3
           DEF CopyBegins, CopyEnds, UnlinkProgress, UnlinkEnds, ScrapEnds
      <3> QED BY <1>1, <3>1 DEF Put, OwnPartOnly, TypeOK
    <2> QED BY <2>1, <2>2, <2>3 DEF MoveStep
  <1>4. \/ Proceed
        \/ GiveUp
        \/ /\ UNCHANGED <<pc, installed, status, rbFailed>>
           /\ Subject \in CrossDevice
    <2>1. CASE \/ MoveRefused(step) \/ MoveFails(step)
               \/ CopyFails(step) \/ ScrapEnds(step)
      BY <2>1 DEF MoveRefused, MoveFails, CopyFails, ScrapEnds
    <2>2. CASE Rename(step) \/ UnlinkEnds(step)
      BY <2>2 DEF Rename, UnlinkEnds
    <2>3. CASE CopyBegins(step)
      BY <1>1, <2>3 DEF CopyBegins
    <2>4. CASE CopyEnds(step) \/ UnlinkProgress(step) \/ UnlinkFails(step)
      BY <1>1, <2>4 DEF CopyEnds, UnlinkProgress, UnlinkFails, Control
    <2> QED BY <2>1, <2>2, <2>3, <2>4 DEF MoveStep
  <1> QED BY <1>1, <1>2, <1>3, <1>4

LEMMA PlanFootprint ==
  ASSUME TypeOK, Control, PlanStep
  PROVE  /\ pc \in Steps /\ OwnPartOnly
         /\ UNCHANGED <<had, crashed, attempt, litter, before>>
         /\ \/ Proceed \/ GiveUp
            \/ UNCHANGED <<pc, installed, status, rbFailed>>
         /\ Control'
  <1>1. CASE Skip \/ RejectManifest
    <2>1. /\ pc \in Steps
          /\ Proceed \/ GiveUp
          /\ UNCHANGED <<disk, had, crashed, attempt, litter, before>>
      BY <1>1, RemovalTable DEF Skip, RejectManifest, BadManifest, Steps
    <2>2. Control' /\ OwnPartOnly
      BY <2>1, ControlKept DEF OwnPartOnly
    <2> QED BY <2>1, <2>2
  <1>2. CASE Move
    <2>1. PICK step \in MoveSteps : MoveStep(step)
      BY <1>2 DEF Move, MoveStep
    <2>2. pc = step /\ pc \in Steps
      BY <2>1, MoveFootprint DEF Steps
    <2>3. Control'
      <3>1. CASE Proceed \/ GiveUp
        BY <2>2, <3>1, ControlKept
      <3>2. CASE /\ UNCHANGED <<pc, installed, status, rbFailed>>
                 /\ Subject \in CrossDevice
        BY <2>2, <3>2 DEF Control, Subject
      <3> QED BY <2>1, <3>1, <3>2, MoveFootprint
    <2> QED BY <2>1, <2>2, <2>3, MoveFootprint
  <1>3. CASE Remove
    <2>1. PICK step \in RemoveSteps :
            RemoveProgress(step) \/ RemoveEnds(step) \/ RemoveFails(step)
      BY <1>3 DEF Remove
    <2>2. /\ pc = step /\ pc \in Steps /\ Subject = Removals[step]
          /\ Subject \in Part /\ "root" \in Place
      BY <2>1, SubjectTable
         DEF RemoveProgress, RemoveEnds, RemoveFails, At, Steps, Subject,
             Place
    <2>3. /\ UNCHANGED <<had, crashed, attempt, litter, before>>
          /\ \/ Proceed \/ GiveUp
             \/ UNCHANGED <<pc, mv, installed, status, rbFailed>>
      BY <2>1 DEF RemoveProgress, RemoveEnds, RemoveFails
    <2>4. OwnPartOnly
      <3>1. disk' = disk \/ \E c : Put("root", Subject, c)
        BY <2>1, <2>2 DEF RemoveProgress, RemoveEnds, RemoveFails
      <3> QED BY <2>2, <3>1 DEF Put, OwnPartOnly, TypeOK
    <2>5. Control'
      <3>1. CASE Proceed \/ GiveUp
        BY <2>2, <3>1, ControlKept
      <3>2. CASE UNCHANGED <<pc, mv, installed, status, rbFailed>>
        BY <3>2 DEF Control
      <3> QED BY <2>3, <3>1, <3>2
    <2> QED BY <2>2, <2>3, <2>4, <2>5
  <1> QED BY <1>1, <1>2, <1>3 DEF PlanStep

(* A part that rename(2) can move is moved at once, or not at all.         *)
LEMMA SubjectFootprint ==
  ASSUME TypeOK, Control, PlanStep, Subject \notin CrossDevice
  PROVE  \/ Skip
         \/ GiveUp /\ disk' = disk
         \/ pc \in MoveSteps /\ Rename(pc)
         \/ /\ pc \in RemoveSteps /\ Needed(pc)
            /\ \/ RemoveProgress(pc)
               \/ RemoveEnds(pc)
  <1>1. CASE Move
    <2>1. PICK step \in MoveSteps : MoveStep(step)
      BY <1>1 DEF Move, MoveStep
    <2>2. pc = step /\ mv = "start"
      BY <2>1, MoveFootprint DEF Control, Subject
    <2>3. MoveRefused(step) \/ MoveFails(step) \/ Rename(step)
      BY <2>1, <2>2
         DEF MoveStep, CopyBegins, CopyEnds, CopyFails, UnlinkProgress,
             UnlinkEnds, UnlinkFails, ScrapEnds, Subject
    <2> QED BY <2>2, <2>3 DEF MoveRefused, MoveFails
  <1>2. CASE Remove
    BY <1>2
       DEF Remove, RemoveProgress, RemoveEnds, RemoveFails, At
  <1> QED BY <1>1, <1>2 DEF PlanStep, RejectManifest

-----------------------------------------------------------------------------
(* Which archive the files at each place are from.                         *)

(* What is found at c are files that were found at d, all or some of them. *)
From(c, d) == Stocked(c) => Stocked(d) /\ c.ver = d.ver

LEMMA FromFacts ==
  /\ \A c : From(c, c) /\ From(Halfway(c), c)
  /\ \A d : From(Absent, d) /\ From(Empty, d)
  /\ \A c, d, e : From(c, d) /\ From(d, e) => From(c, e)
  /\ \A pl, p : From(HalfRemoved(pl, p), disk[pl][p])
  BY DEF From, Halfway, HalfRemoved, Stocked, Torn, Absent, Empty

(* An operation of the plan leaves at a place what was there, or brings    *)
(* there what its move takes from elsewhere.                               *)
Moved(pl, p) ==
  /\ pc \in MoveSteps /\ p = Subject /\ pl = Moves[pc].to
  /\ From(disk'[pl][p], disk[Moves[pc].from][p])

LEMMA PlanVersions ==
  ASSUME TypeOK, Control, PlanStep, NEW p \in Part, NEW pl \in Place
  PROVE  From(disk'[pl][p], disk[pl][p]) \/ Moved(pl, p)
  <1>1. CASE p # Subject
    BY <1>1, PlanFootprint, FromFacts DEF OwnPartOnly
  <1>2. CASE Skip \/ RejectManifest
    BY <1>2, FromFacts DEF Skip, RejectManifest
  <1>3. CASE Move /\ p = Subject
    <2>1. PICK step \in MoveSteps : MoveStep(step)
      BY <1>3 DEF Move, MoveStep
    <2> DEFINE m == Moves[step]
    <2>2. /\ pc = step /\ m.part = p
          /\ m.from \in Place /\ m.to \in Place /\ m.from # m.to
      BY <1>3, <2>1, MoveFootprint, MoveType, SubjectTable DEF Subject
    <2>3. CASE \/ MoveRefused(step) \/ MoveFails(step)
               \/ CopyFails(step) \/ UnlinkFails(step)
      BY <2>3, FromFacts
         DEF MoveRefused, MoveFails, CopyFails, UnlinkFails
    <2>4. CASE Rename(step)
      BY <1>3, <2>2, <2>4, FromFacts DEF Rename, TypeOK, Moved
    <2>5. CASE CopyBegins(step) \/ CopyEnds(step)
      <3>1. PICK c : /\ Put(m.to, p, c)
                     /\ c \in {disk[m.from][p], Halfway(disk[m.from][p])}
        BY <2>2, <2>5 DEF CopyBegins, CopyEnds
      <3>2. From(c, disk[m.from][p])
        BY <3>1, FromFacts
      <3> QED
        BY <1>3, <2>2, <3>1, <3>2, FromFacts DEF Put, TypeOK, Moved
    <2>6. CASE UnlinkProgress(step) \/ UnlinkEnds(step) \/ ScrapEnds(step)
      <3>1. PICK at \in {m.from, m.to} :
              \E c \in {Absent, disk[at][p], HalfRemoved(at, p)} :
                Put(at, p, c)
        BY <2>2, <2>6 DEF UnlinkProgress, UnlinkEnds, ScrapEnds
      <3>2. PICK c : Put(at, p, c) /\ From(c, disk[at][p])
        BY <3>1, FromFacts
      <3> QED BY <2>2, <3>2, FromFacts DEF Put, TypeOK
    <2> QED BY <2>1, <2>3, <2>4, <2>5, <2>6 DEF MoveStep
  <1>4. CASE Remove /\ p = Subject
    <2>1. PICK step \in RemoveSteps :
            RemoveProgress(step) \/ RemoveEnds(step) \/ RemoveFails(step)
      BY <1>4 DEF Remove
    <2>2. "root" \in Place /\ pc = step /\ Removals[step] = p
      BY <1>4, <2>1, SubjectTable
         DEF RemoveProgress, RemoveEnds, RemoveFails, At, Subject, Place
    <2>3. disk' = disk \/ \E c \in {Absent, HalfRemoved("root", p)} :
                            Put("root", p, c)
      BY <2>1, <2>2 DEF RemoveProgress, RemoveEnds, RemoveFails
    <2> QED BY <2>2, <2>3, FromFacts DEF Put, TypeOK
  <1> QED BY <1>1, <1>2, <1>3, <1>4 DEF PlanStep

(* A move that has been carried out leaves nothing where it came from.     *)
LEMMA MoveLeavesNothing ==
  ASSUME TypeOK, Control, PlanStep, pc \in MoveSteps, status' # "error"
  PROVE  \/ UNCHANGED <<pc, status>>
         \/ /\ Skip
         \/ /\ pc' = OnDone[pc] /\ status' = status
            /\ disk'[Moves[pc].from][Subject] = Absent
  <1>1. CASE Skip \/ RejectManifest
    BY <1>1 DEF RejectManifest, GiveUp
  <1>2. CASE Move
    <2>1. PICK step \in MoveSteps : MoveStep(step)
      BY <1>2 DEF Move, MoveStep
    <2>2. /\ pc = step /\ Moves[step].part = Subject /\ Subject \in Part
          /\ Moves[step].from \in Place /\ Moves[step].to \in Place
          /\ Moves[step].from # Moves[step].to
      BY <2>1, MoveFootprint, MoveType, SubjectTable DEF Subject
    <2>3. CASE Rename(step) \/ UnlinkEnds(step)
      BY <2>2, <2>3 DEF Rename, UnlinkEnds, Put, Proceed, TypeOK
    <2>4. CASE ~(Rename(step) \/ UnlinkEnds(step))
      BY <2>1, <2>4
         DEF MoveStep, MoveRefused, MoveFails, CopyBegins, CopyEnds,
             CopyFails, UnlinkProgress, UnlinkFails, ScrapEnds, GiveUp
    <2> QED BY <2>3, <2>4
  <1>3. CASE Remove
    BY <1>3, SubjectTable
       DEF Remove, RemoveProgress, RemoveEnds, RemoveFails, At
  <1> QED BY <1>1, <1>2, <1>3 DEF PlanStep

(* The removal of the staging directory, and a kill, keep the root.        *)
ReturnStep == CleanProgress \/ CleanEnds \/ CleanFails \/ Crash

LEMMA ReturnVersions ==
  ASSUME TypeOK, ReturnStep
  PROVE  /\ disk'["root"] = disk["root"]
         /\ \A p \in Part, pl \in Place : From(disk'[pl][p], disk[pl][p])
         /\ UNCHANGED <<attempt, before, rbFailed, installed, had>>
         /\ pc # "idle" /\ status' \in {status, "error"}
         /\ mv' \in {mv, "start"}
         /\ \/ pc = "cleanup" /\ pc' = pc
            \/ pc' = "idle" /\ mv' = "start" /\ (pc = "cleanup" \/ Crash)
  <1>1. CASE CleanProgress
    <2>1. PICK at \in {"stage", "old"}, q \in Part :
            Put(at, q, Absent) \/ Put(at, q, HalfRemoved(at, q))
      BY <1>1 DEF CleanProgress
    <2>2. PICK c : Put(at, q, c) /\ From(c, disk[at][q])
      BY <2>1, FromFacts
    <2>3. /\ disk'["root"] = disk["root"]
          /\ \A p \in Part, pl \in Place : From(disk'[pl][p], disk[pl][p])
      BY <2>2, FromFacts DEF Put, TypeOK, Place
    <2> QED BY <1>1, <2>3 DEF CleanProgress
  <1>2. CASE CleanEnds \/ CleanFails \/ Crash
    <2>1. disk' = [disk EXCEPT !["stage"] = NoTree, !["old"] = NoTree]
      BY <1>2 DEF CleanEnds, CleanFails, Crash, Return
    <2>2. \A p \in Part : NoTree[p] = Absent
      BY DEF NoTree
    <2>3. /\ disk'["root"] = disk["root"]
          /\ \A p \in Part, pl \in Place : From(disk'[pl][p], disk[pl][p])
      BY <2>1, <2>2, FromFacts DEF TypeOK, Place
    <2> QED
      BY <1>2, <2>3 DEF CleanEnds, CleanFails, Crash, Return
  <1> QED BY <1>1, <1>2 DEF ReturnStep

(* Nothing is from an archive that was not yet restored, and the staging   *)
(* directory holds files of this restore's archive only.                   *)
UpTo(c) == Stocked(c) => c.ver <= attempt

VersionInv ==
  /\ StageIsNew
  /\ \A p \in Part, pl \in Place : UpTo(disk[pl][p])

LEMMA NothingThere == \A p \in Part : NoTree[p] = Absent
  BY DEF NoTree

LEMMA FromUpTo ==
  ASSUME NEW c, NEW d, From(c, d), UpTo(d) PROVE UpTo(c)
  BY DEF From, UpTo

LEMMA PlanKeepsVersions ==
  ASSUME TypeOK, Control, VersionInv, PlanStep \/ ReturnStep
  PROVE  VersionInv'
  <1>1. attempt' = attempt
    BY PlanFootprint, ReturnVersions
  <1>2. /\ \A p \in Part, pl \in Place :
             \/ From(disk'[pl][p], disk[pl][p])
             \/ PlanStep /\ Moved(pl, p)
    BY PlanVersions, ReturnVersions
  <1>3. ASSUME NEW p \in Part, NEW pl \in Place
        PROVE  UpTo(disk[pl][p])'
    <2>1. CASE From(disk'[pl][p], disk[pl][p])
      BY <1>1, <2>1 DEF VersionInv, From, UpTo
    <2>2. CASE Moved(pl, p)
      <3>1. Moves[pc].from \in Place
        BY <2>2, MoveType DEF Moved
      <3> QED BY <1>1, <2>2, <3>1 DEF VersionInv, Moved, From, UpTo
    <2> QED BY <1>2, <2>1, <2>2
  <1>4. StageIsNew'
    <2>1. \A p \in Part : ~Moved("stage", p)
      BY MoveTable DEF Moved
    <2>2. \A p \in Managed : From(disk'["stage"][p], disk["stage"][p])
      BY <1>2, <2>1 DEF Place, Part
    <2> QED BY <1>1, <2>2 DEF VersionInv, StageIsNew, From
  <1> QED BY <1>3, <1>4 DEF VersionInv

LEMMA RootKeepsVersions ==
  ASSUME TypeOK, VersionInv, Begin \/ RefuseRoot \/ CreateManager
  PROVE  /\ VersionInv' /\ attempt' \in Nat
         /\ attempt' \in {attempt, attempt + 1}
         /\ \A p \in Part : \/ disk'["root"][p] = disk["root"][p]
                            \/ ~Stocked(disk'["root"][p])
         /\ disk'["stage"] = disk["stage"]
  <1>1. attempt \in Nat
    BY RestoreAssumption DEF TypeOK
  <1>2. \A tree \in [Part -> Content], p \in Part :
          Located(tree)[p] \in {tree[p], Empty}
    BY DEF Located
  <1>3. ~Stocked(Empty)
    BY DEF Stocked, Empty
  <1>4. /\ attempt' \in {attempt, attempt + 1}
        /\ \/ disk' = [disk EXCEPT !["root"] = disk["root"]]
           \/ disk' = [disk EXCEPT !["root"] = Located(disk["root"])]
    BY DEF Begin, Open, RefuseRoot, CreateManager
  <1>5. /\ \A p \in Part : disk'["root"][p] \in {disk["root"][p], Empty}
        /\ \A pl \in Place \ {"root"} : disk'[pl] = disk[pl]
    BY <1>2, <1>4 DEF TypeOK, Place
  <1>6. ASSUME NEW p \in Part, NEW pl \in Place
        PROVE  UpTo(disk[pl][p])'
    <2>1. From(disk'[pl][p], disk[pl][p])
      BY <1>5, FromFacts
    <2>2. disk[pl][p].ver \in Nat
      BY DEF TypeOK, Content, Absent, Empty
    <2> QED BY <1>1, <1>4, <2>1, <2>2 DEF VersionInv, From, UpTo
  <1>7. StageIsNew'
    <2>1. CASE CreateManager
      BY <1>5, <2>1 DEF CreateManager, VersionInv, StageIsNew, Place
    <2>2. CASE Begin \/ RefuseRoot
      <3>1. disk'["stage"] = NoTree
        BY <1>5, <2>2 DEF Begin, RefuseRoot, TypeOK, Place
      <3> QED BY <3>1, NothingThere, AbsentIsOut DEF StageIsNew, Part
    <2> QED BY <2>1, <2>2
  <1> QED
    BY <1>1, <1>3, <1>4, <1>5, <1>6, <1>7 DEF VersionInv, Place

LEMMA ExtractKeepsVersions ==
  ASSUME TypeOK, VersionInv, Extract \/ Check
  PROVE  /\ VersionInv' /\ disk'["root"] = disk["root"]
         /\ attempt' = attempt
         /\ pc' = "check" => \A p \in Managed :
              disk'["stage"][p] \in {Absent, Whole(attempt)}
  <1>1. attempt \in Nat /\ attempt' = attempt
    BY RestoreAssumption DEF TypeOK, Extract, Check
  <1>2. CASE Extract
    <2>1. PICK a \in Archive(attempt) \cup Unfinished(attempt) :
            /\ disk' = [disk EXCEPT !["stage"] = a]
            /\ pc' = "check" => a \in Archive(attempt)
      BY <1>2 DEF Extract
    <2>2. /\ disk'["stage"] = a
          /\ \A pl \in Place \ {"stage"} : disk'[pl] = disk[pl]
      BY <2>1 DEF TypeOK, Place
    <2>3. \A p \in Part : a[p] \in {Absent, Whole(attempt), Torn(attempt),
                                    [ver |-> attempt, state |-> "dir"]}
      BY DEF Archive, Unfinished
    <2>4. \A p \in Part : Stocked(a[p]) => a[p].ver = attempt
      BY <2>3 DEF Stocked, Absent, Whole, Torn
    <2>5. ASSUME a \in Archive(attempt), NEW p \in Managed
          PROVE  a[p] \in {Absent, Whole(attempt)}
      BY <2>3, <2>5 DEF Archive, Part
    <2> QED
      BY <1>1, <2>1, <2>2, <2>4, <2>5
         DEF VersionInv, StageIsNew, UpTo, Part, Place
  <1>3. CASE Check
    <2>1. disk' = disk /\ pc' # "check"
      BY <1>3 DEF Check
    <2> QED BY <1>1, <2>1 DEF VersionInv, StageIsNew, UpTo
  <1> QED BY <1>2, <1>3

(* The steps of the restore, and of the processes that call locate().      *)
LEMMA RootSteps ==
  Next \/ CreateManager <=>
    \/ PlanStep \/ ReturnStep \/ Extract \/ Check
    \/ Begin \/ RefuseRoot \/ CreateManager
  BY DEF Next, PlanStep, ReturnStep

LEMMA ControlHolds ==
  ASSUME TypeOK, Control, Next \/ CreateManager PROVE Control'
  <1>1. CASE PlanStep
    BY <1>1, PlanFootprint
  <1>2. CASE ReturnStep
    BY <1>2, ReturnVersions, MoveTable DEF Control, Forward
  <1>3. CASE Extract \/ Check
    BY <1>3, MoveTable DEF Extract, Check, Control, Forward
  <1>4. CASE Begin \/ RefuseRoot
    BY <1>4, MoveTable
       DEF Begin, Open, RefuseRoot, Control, Forward
  <1>5. CASE CreateManager
    BY <1>5 DEF CreateManager, Control
  <1> QED BY <1>1, <1>2, <1>3, <1>4, <1>5, RootSteps

LEMMA VersionsHold ==
  ASSUME TypeOK, Control, VersionInv, Next \/ CreateManager
  PROVE  VersionInv'
  BY RootSteps, PlanKeepsVersions, RootKeepsVersions, ExtractKeepsVersions

-----------------------------------------------------------------------------
(* NothingOlderLater is about what a walk has met.  It rests on what the   *)
(* root shows at each point of the plan, as long as no error is recorded:  *)
(* only files of earlier archives, and from the moment at which both old   *)
(* parts are out of the way, only files of this one.                       *)

OldOnly ==
  \A p \in Managed : Stocked(disk["root"][p]) => disk["root"][p].ver # attempt
NewOnly == \A p \in Managed : New(p)

Earlier == {"extract", "check", "backup_data", "backup_extensions"}
Later   == {"install_data", "install_extensions", "drop_manifest",
            "install_manifest", "cleanup"}

ShownInv ==
  status # "error" =>
    /\ pc \notin RollbackSteps
    /\ pc \in Earlier => OldOnly
    /\ pc \in {"backup_data", "backup_extensions"} =>
         \A p \in Managed \ had : Out(p)
    /\ pc = "backup_extensions" => Out("data")
    /\ pc \in Later => NewOnly
    /\ pc = "idle" => OldOnly \/ NewOnly

LEMMA PlanKeepsShown ==
  ASSUME TypeOK, Control, VersionInv, ShownInv, PlanStep PROVE ShownInv'
  <1> SUFFICES ASSUME status' # "error" PROVE ShownInv'
    BY DEF ShownInv
  <1>1. /\ pc \in Steps /\ attempt' = attempt /\ had' = had
        /\ status # "error" /\ pc' \in {pc, OnDone[pc]}
    BY PlanFootprint DEF Proceed, GiveUp
  <1>2. pc \notin RollbackSteps
    BY <1>1 DEF ShownInv
  <1>3. CASE pc \in {"backup_data", "backup_extensions"}
    <2>1. OldOnly /\ \A p \in Managed \ had : Out(p)
      BY <1>1, <1>3 DEF ShownInv, Earlier
    <2>2. \A p \in Managed : From(disk'["root"][p], disk["root"][p])
      <3>1. \A p \in Part : ~Moved("root", p)
        BY <1>3, MoveTable DEF Moved
      <3> QED BY <3>1, PlanVersions DEF Place, Part
    <2>3. OldOnly' /\ \A p \in Managed : Out(p) => Out(p)'
      BY <1>1, <2>1, <2>2 DEF OldOnly, From, Out
    <2>4. pc' = OnDone[pc] => ~Stocked(disk'["root"][Subject])
      <3>1. Subject \in Managed /\ Moves[pc].from = "root" /\ pc \in MoveSteps
        BY <1>3, MoveTable DEF Subject, Managed
      <3>2. pc # OnDone[pc]
        BY <1>3, PlanTable
      <3>3. CASE Skip
        <4>1. Subject \notin had
          BY <1>3, <3>3, MoveTable DEF Skip, Needed, Subject
        <4> QED BY <2>1, <2>3, <3>1, <4>1 DEF Out
      <3>4. CASE ~Skip
        BY <3>1, <3>2, <3>4, MoveLeavesNothing, AbsentIsOut DEF Out
      <3> QED BY <3>3, <3>4
    <2>5. /\ pc = "backup_data" => Subject = "data"
          /\ pc = "backup_extensions" => Subject = "extensions"
      BY MoveTable DEF Subject
    <2>6. pc = "backup_extensions" => Out("data")
      BY <1>1 DEF ShownInv
    <2>7. CASE pc' = pc
      BY <1>1, <1>3, <2>1, <2>3, <2>6, <2>7
         DEF ShownInv, Earlier, Later, RollbackSteps, Managed
    <2>8. CASE pc' = OnDone[pc] /\ pc = "backup_data"
      BY <1>1, <2>1, <2>3, <2>4, <2>5, <2>8, PlanTable
         DEF ShownInv, Out, Earlier, Later, RollbackSteps, Managed
    <2>9. CASE pc' = OnDone[pc] /\ pc = "backup_extensions"
      <3>1. pc' = "install_data" /\ Out("data")' /\ Out("extensions")'
        BY <2>3, <2>4, <2>5, <2>6, <2>9, PlanTable DEF Managed, Out
      <3>2. NewOnly'
        BY <3>1 DEF NewOnly, New, Out, Managed
      <3> QED
        BY <3>1, <3>2 DEF ShownInv, Earlier, Later, RollbackSteps
    <2> QED BY <1>1, <1>3, <2>7, <2>8, <2>9
  <1>4. CASE pc \in Later \ {"cleanup"}
    <2>1. NewOnly
      BY <1>1, <1>4 DEF ShownInv
    <2>2. ASSUME NEW p \in Managed PROVE New(p)'
      <3>1. CASE From(disk'["root"][p], disk["root"][p])
        BY <1>1, <2>1, <3>1 DEF NewOnly, New, From
      <3>2. CASE Moved("root", p)
        <4>1. From(disk'["root"][p], disk["stage"][p])
          BY <1>4, <3>2, MoveTable DEF Moved, Later
        <4> QED
          BY <1>1, <4>1 DEF VersionInv, StageIsNew, New, From
      <3> QED BY <3>1, <3>2, PlanVersions DEF Place, Part
    <2>3. pc' \in Later
      BY <1>1, <1>4, PlanTable DEF Later
    <2> QED
      BY <2>2, <2>3
         DEF ShownInv, Earlier, Later, RollbackSteps, NewOnly
  <1> QED BY <1>1, <1>2, <1>3, <1>4, StepsAre DEF Later, RollbackSteps

LEMMA ShownHolds ==
  ASSUME TypeOK, Control, VersionInv, ShownInv, Next \/ CreateManager
  PROVE  ShownInv'
  <1> SUFFICES ASSUME status' # "error" PROVE ShownInv'
    BY DEF ShownInv
  <1>1. CASE ReturnStep
    <2>1. /\ disk'["root"] = disk["root"] /\ attempt' = attempt
          /\ status # "error"
          /\ pc # "idle" /\ pc' \in {pc, "idle"}
          /\ pc' # "idle" => pc = "cleanup"
      BY <1>1, ReturnVersions
    <2>2. OldOnly \/ NewOnly
      BY <2>1, MoveTable, RemovalTable
         DEF ShownInv, TypeOK, PC, Earlier, Later, RollbackSteps
    <2> QED
      BY <2>1, <2>2
         DEF ShownInv, OldOnly, NewOnly, New, Earlier, Later, RollbackSteps
  <1>2. CASE Extract \/ Check
    <2>1. /\ disk'["root"] = disk["root"] /\ attempt' = attempt
          /\ status # "error" /\ pc \in {"extract", "check"}
          /\ pc' \in {"check", "backup_data"}
      BY <1>2, ExtractKeepsVersions DEF Extract, Check
    <2>2. OldOnly'
      BY <2>1 DEF ShownInv, OldOnly, Earlier
    <2>3. pc' = "backup_data" => \A p \in Managed \ had' : Out(p)'
      BY <1>2, <2>1 DEF Extract, Check, In, Present, Out, Stocked
    <2> QED
      BY <2>1, <2>2, <2>3
         DEF ShownInv, Earlier, Later, RollbackSteps
  <1>3. CASE Begin \/ RefuseRoot
    <2>1. /\ attempt' = attempt + 1 /\ attempt \in Nat /\ pc' = "extract"
      BY <1>3, RestoreAssumption DEF Begin, Open, RefuseRoot, TypeOK
    <2>2. ASSUME NEW p \in Managed, Stocked(disk'["root"][p])
          PROVE  disk'["root"][p].ver # attempt'
      <3>1. p \in Part /\ "root" \in Place
        BY DEF Part, Place
      <3>2. disk'["root"][p] = disk["root"][p] /\ UpTo(disk["root"][p])
        BY <1>3, <2>2, <3>1, RootKeepsVersions DEF VersionInv
      <3>3. disk["root"][p].ver \in Nat
        BY <3>1 DEF TypeOK, Content, Absent, Empty
      <3> QED BY <2>1, <2>2, <3>2, <3>3 DEF UpTo
    <2> QED
      BY <2>1, <2>2
         DEF ShownInv, OldOnly, Earlier, Later, RollbackSteps
  <1>4. CASE CreateManager
    <2>1. /\ pc' = pc /\ status' = status /\ attempt' = attempt /\ had' = had
          /\ \A p \in Managed : \/ disk'["root"][p] = disk["root"][p]
                                \/ ~Stocked(disk'["root"][p])
      BY <1>4, RootKeepsVersions DEF CreateManager, Part
    <2> QED
      BY <2>1 DEF ShownInv, OldOnly, NewOnly, New, Out, Managed
  <1> QED BY <1>1, <1>2, <1>3, <1>4, PlanKeepsShown, RootSteps

(* A walk has met nothing of the parts that it comes to later, and nothing *)
(* from an archive not yet restored; once it has met something of this     *)
(* restore's, the root shows nothing else any more.                        *)
WalkOrder ==
  /\ walk \in {"idle", "temp"} => got = NothingYet
  /\ \A p, q \in Part : walk = p /\ Order[p] < Order[q] => got[q] = {}

GotUpTo == \A p \in Part : \A c \in got[p] : UpTo(c)

SeenNew == \E p \in Part : FromThisRestore(p) # {}

MetInv ==
  /\ WalkOrder /\ GotUpTo
  /\ status # "error" /\ SeenNew => NewOnly /\ pc \in Later \cup {"idle"}
  /\ NothingOlderLater

BInv == XInv /\ Control /\ VersionInv /\ ShownInv /\ MetInv

LEMMA PartOrder ==
  /\ Part = {"manifest", "data", "extensions"}
  /\ \A p \in Part : Order[p] \in 0..2
  /\ \A p, q \in Part : Order[p] < Order[q] =>
       \/ p = "manifest" /\ q # "manifest"
       \/ p = "data" /\ q = "extensions"
  BY DEF Part, Managed, Order

(* What has been met is met no more, or nothing else has.                  *)
LEMMA ForgetKeepsMet ==
  ASSUME BInv, UNCHANGED vars, got' \in {got, NothingYet},
         \/ got' = NothingYet
         \/ walk' = walk
         \/ walk' \notin {"idle", "temp"} \cup Part
         \/ \E p \in Part : walk = p /\ walk' = AfterPart[p]
  PROVE  MetInv'
  <1>1. \A p \in Part : got'[p] \in {{}, got[p]}
    BY DEF NothingYet
  <1>2. \A p \in Part : /\ FromThisRestore(p)' \in {{}, FromThisRestore(p)}
                        /\ FromEarlier(p)' \in {{}, FromEarlier(p)}
    BY <1>1 DEF FromThisRestore, FromEarlier, vars
  <1>3. GotUpTo'
    BY <1>1 DEF BInv, MetInv, GotUpTo, UpTo, vars
  <1>4. WalkOrder'
    <2>1. CASE got' = NothingYet
      BY <2>1 DEF WalkOrder, NothingYet
    <2>2. CASE /\ got' = got
               /\ walk' = walk \/ walk' \notin {"idle", "temp"} \cup Part
      BY <2>2 DEF BInv, MetInv, WalkOrder
    <2>3. ASSUME got' = got, NEW p \in Part, walk = p, walk' = AfterPart[p]
          PROVE  WalkOrder'
      BY <2>3, PartOrder DEF BInv, MetInv, WalkOrder, AfterPart, Order
    <2> QED BY <2>1, <2>2, <2>3
  <1>5. (status # "error" /\ SeenNew => NewOnly /\ pc \in Later \cup {"idle"})'
    BY <1>2 DEF BInv, MetInv, SeenNew, NewOnly, New, vars
  <1>6. NothingOlderLater'
    BY <1>2 DEF BInv, MetInv, NothingOlderLater, vars
  <1> QED BY <1>3, <1>4, <1>5, <1>6 DEF MetInv

LEMMA VisitKeepsMet ==
  ASSUME BInv, UNCHANGED vars, NEW p \in Part, Visit(p) PROVE MetInv'
  <1> DEFINE c == disk["root"][Source(p)]
  <1>1. /\ Source(p) \in Managed /\ Source(p) \in Part
        /\ got \in [Part -> SUBSET Content] /\ attempt' = attempt
        /\ walk = p /\ walk' = walk /\ got' = [got EXCEPT ![p] = @ \cup {c}]
        /\ UNCHANGED <<disk, pc, status>>
    BY DEF Source, Part, Managed, BInv, XInv, ExportTypeOK, Visit, vars
  <1>2. UpTo(c) /\ (NewOnly /\ Stocked(c) => c.ver = attempt)
    BY <1>1 DEF BInv, VersionInv, Place, NewOnly, New
  <1>3. Stocked(c) /\ c.ver = attempt => ~OldOnly
    BY <1>1 DEF OldOnly
  <1> HIDE DEF c
  <1>4. \A q \in Part \ {p} : got'[q] = got[q]
    BY <1>1
  <1>5. got'[p] = got[p] \cup {c}
    BY <1>1
  <1>6. WalkOrder'
    BY <1>1, <1>4, PartOrder DEF BInv, MetInv, WalkOrder
  <1>7. GotUpTo'
    BY <1>1, <1>2, <1>4, <1>5 DEF BInv, MetInv, GotUpTo, UpTo
  <1>8. ASSUME status # "error", SeenNew'
        PROVE  NewOnly /\ pc \in Later \cup {"idle"}
    <2>1. CASE SeenNew
      BY <1>8, <2>1 DEF BInv, MetInv
    <2>2. CASE Stocked(c) /\ c.ver = attempt
      BY <1>3, <1>8, <2>2, MoveTable, RemovalTable
         DEF BInv, XInv, TypeOK, ShownInv, PC, Earlier, Later, RollbackSteps
    <2>3. SeenNew \/ (Stocked(c) /\ c.ver = attempt)
      <3>1. PICK q \in Part :
              \E e \in got'[q] : Stocked(e) /\ e.ver = attempt
        BY <1>1, <1>8 DEF SeenNew, FromThisRestore
      <3>2. PICK e \in got'[q] : Stocked(e) /\ e.ver = attempt
        BY <3>1
      <3>3. e \in got[q] \/ e = c
        BY <1>4, <1>5, <3>2
      <3>4. CASE e \in got[q]
        BY <3>1, <3>2, <3>4 DEF SeenNew, FromThisRestore
      <3> QED BY <3>2, <3>3, <3>4
    <2> QED BY <2>1, <2>2, <2>3
  <1>9. NothingOlderLater'
    <2> SUFFICES ASSUME NEW a \in Part, NEW b \in Part, status # "error",
                        Order[a] < Order[b], FromThisRestore(a)' # {},
                        FromEarlier(b)' # {}
                 PROVE  FALSE
      BY <1>1 DEF NothingOlderLater
    <2>1. a # p
      <3>1. SUFFICES ASSUME a = p PROVE FALSE
        OBVIOUS
      <3>2. b # p /\ got[b] = {}
        BY <1>1, <3>1, PartOrder DEF BInv, MetInv, WalkOrder
      <3> QED BY <1>4, <3>2 DEF FromEarlier
    <2>2. FromThisRestore(a) # {}
      BY <1>1, <1>4, <2>1 DEF FromThisRestore
    <2>3. FromEarlier(b) = {}
      BY <2>2 DEF BInv, MetInv, NothingOlderLater
    <2>4. b = p /\ Stocked(c) /\ c.ver # attempt
      BY <1>1, <1>4, <1>5, <2>3 DEF FromEarlier
    <2>5. NewOnly
      BY <2>2 DEF BInv, MetInv, SeenNew
    <2> QED BY <1>2, <2>4, <2>5
  <1> QED
    BY <1>1, <1>6, <1>7, <1>8, <1>9 DEF MetInv, NewOnly, New

LEMMA ExportKeepsMet ==
  ASSUME BInv, UNCHANGED vars, ExportStep PROVE MetInv'
  <1>1. CASE \E p \in Part : Visit(p)
    BY <1>1, VisitKeepsMet
  <1>2. CASE \E p \in Part : Leave(p)
    BY <1>2, ForgetKeepsMet DEF Leave
  <1>3. CASE OpenFile \/ MakeTemp
    <2>1. got = NothingYet /\ got' = NothingYet
      BY <1>3
         DEF OpenFile, MakeTemp, Finish, BInv, MetInv, WalkOrder
    <2> QED BY <2>1, ForgetKeepsMet
  <1>4. CASE Abandon \/ CloseArchive \/ KillExport
    BY <1>4, ForgetKeepsMet DEF Abandon, CloseArchive, KillExport, Finish
  <1>5. CASE CloseDirectory \/ CopyOut
    BY <1>5, ForgetKeepsMet DEF CloseDirectory, CopyOut
  <1>6. CASE CopyOutEnds \/ Flush
    <2>1. got' = NothingYet \/ (got' = got /\ walk' = "flush")
      BY <1>6 DEF CopyOutEnds, Flush, Finish
    <2> QED BY <2>1, ForgetKeepsMet DEF Part, Managed
  <1> QED
    BY <1>1, <1>2, <1>3, <1>4, <1>5, <1>6 DEF ExportStep

(* What a step of the restore changes for the walk: the number of the      *)
(* restore, when another one begins, or else at most what the root shows.  *)
LEMMA RestoreKeepsMet ==
  ASSUME BInv, Next \/ CreateManager, UNCHANGED exportOwn, ShownInv'
  PROVE  MetInv'
  <1>1. UNCHANGED <<walk, got>> /\ got \in [Part -> SUBSET Content]
    BY DEF exportOwn, BInv, XInv, ExportTypeOK
  <1>2. WalkOrder'
    BY <1>1 DEF BInv, MetInv, WalkOrder
  <1>3. CASE Begin
    <2>1. attempt' = attempt + 1 /\ attempt \in Nat
      BY <1>3, RestoreAssumption DEF Begin, Open, BInv, XInv, TypeOK
    <2>2. ASSUME NEW p \in Part, NEW c \in got[p], Stocked(c)
          PROVE  c.ver \in Nat /\ c.ver <= attempt
      <3>1. c \in Content
        BY <1>1
      <3> QED
        BY <2>2, <3>1
           DEF BInv, MetInv, GotUpTo, UpTo, Content, Absent, Empty
    <2>3. GotUpTo'
      BY <1>1, <2>1, <2>2 DEF GotUpTo, UpTo
    <2>4. \A p \in Part : FromThisRestore(p)' = {}
      BY <1>1, <2>1, <2>2 DEF FromThisRestore
    <2> QED
      BY <1>2, <2>3, <2>4 DEF MetInv, SeenNew, NothingOlderLater
  <1>4. CASE ~Begin
    <2>1. /\ attempt' = attempt /\ status' \in {status, "error"}
          /\ \/ pc \notin Later \cup {"idle"}
             \/ pc' \in Later \cup {"idle"} \/ status' = "error"
      <3>1. CASE PlanStep
        BY <3>1, PlanFootprint, PlanTable, StepsAre
           DEF BInv, XInv, Proceed, GiveUp, Later
      <3>2. CASE ReturnStep
        BY <3>2, ReturnVersions DEF BInv, XInv, Later
      <3>3. CASE Extract \/ Check \/ RefuseRoot \/ CreateManager
        BY <3>3 DEF Extract, Check, RefuseRoot, CreateManager, Later
      <3> QED BY <1>4, <3>1, <3>2, <3>3, RootSteps
    <2>2. status' # "error" /\ pc \in Later \cup {"idle"} /\ NewOnly
            => NewOnly'
      <3>1. CASE CreateManager
        BY <2>1, <3>1, RootKeepsVersions
           DEF BInv, XInv, NewOnly, New, Part
      <3>2. CASE ReturnStep
        BY <2>1, <3>2, ReturnVersions DEF BInv, XInv, NewOnly, New
      <3>3. CASE PlanStep
        <4>1. status' # "error" /\ pc \in Later => pc' \in Later
          BY <3>3, PlanFootprint, PlanTable, StepsAre
             DEF BInv, XInv, Proceed, GiveUp, Later
        <4>2. pc # "idle"
          BY <3>3, PlanFootprint, StepsAre DEF BInv, XInv
        <4> QED BY <4>1, <4>2 DEF ShownInv
      <3>4. CASE Extract \/ Check \/ RefuseRoot
        BY <3>4 DEF Extract, Check, RefuseRoot, Later
      <3> QED BY <1>4, <3>1, <3>2, <3>3, <3>4, RootSteps
    <2>3. \A p \in Part : /\ FromThisRestore(p)' = FromThisRestore(p)
                          /\ FromEarlier(p)' = FromEarlier(p)
      BY <1>1, <2>1 DEF FromThisRestore, FromEarlier
    <2>4. GotUpTo'
      BY <1>1, <2>1 DEF BInv, MetInv, GotUpTo, UpTo
    <2>5. (status # "error" /\ SeenNew
             => NewOnly /\ pc \in Later \cup {"idle"})'
      BY <2>1, <2>2, <2>3 DEF BInv, MetInv, SeenNew, Later
    <2>6. NothingOlderLater'
      BY <2>1, <2>3 DEF BInv, MetInv, NothingOlderLater
    <2> QED BY <1>2, <2>4, <2>5, <2>6 DEF MetInv
  <1> QED BY <1>3, <1>4

LEMMA SeenInit == ExportInit => BInv
  <1> SUFFICES ASSUME ExportInit PROVE BInv
    OBVIOUS
  <1>1. PICK tree \in [Part -> {Absent, Whole(0)}] :
          disk = [root |-> tree, stage |-> NoTree, old |-> NoTree]
    BY DEF ExportInit, Init
  <1>2. /\ pc = "idle" /\ mv = "start" /\ status = "none" /\ attempt = 0
        /\ had = {} /\ installed = {} /\ rbFailed = FALSE
        /\ walk = "idle" /\ got = NothingYet
    BY DEF ExportInit, Init
  <1>3. Control
    BY <1>2, MoveTable DEF Control, Forward
  <1>4. \A p \in Part, pl \in Place :
          Stocked(disk[pl][p]) => pl = "root" /\ disk[pl][p].ver = 0
    BY <1>1, NothingThere, AbsentIsOut DEF Place, Whole
  <1>5. VersionInv
    BY <1>2, <1>4 DEF VersionInv, StageIsNew, UpTo, Part, Place
  <1>6. ShownInv
    <2>1. NewOnly
      BY <1>2, <1>4 DEF NewOnly, New, Part, Place
    <2> QED
      BY <1>2, <2>1 DEF ShownInv, RollbackSteps, Earlier, Later
  <1>7. MetInv
    BY <1>2
       DEF MetInv, WalkOrder, GotUpTo, SeenNew, NothingOlderLater,
           NothingYet, FromThisRestore, FromEarlier, Part, Managed
  <1> QED BY <1>3, <1>5, <1>6, <1>7, ExportInitInv DEF BInv

LEMMA SeenNext == BInv /\ [ExportNext]_<<vars, exportVars>> => BInv'
  <1> SUFFICES ASSUME BInv, [ExportNext]_<<vars, exportVars>> PROVE BInv'
    OBVIOUS
  <1>1. XInv'
    BY ExportNextInv DEF BInv
  <1>2. CASE (Next \/ CreateManager) /\ UNCHANGED exportOwn
    <2>1. (Control /\ VersionInv /\ ShownInv)'
      BY <1>2, ControlHolds, VersionsHold, ShownHolds DEF BInv, XInv
    <2> QED BY <1>1, <1>2, <2>1, RestoreKeepsMet DEF BInv
  <1>3. CASE UNCHANGED vars /\ (ExportStep \/ UNCHANGED exportVars)
    <2>1. (Control /\ VersionInv /\ ShownInv)'
      BY <1>3
         DEF vars, BInv, Control, VersionInv, StageIsNew, UpTo, ShownInv,
             OldOnly, NewOnly, New, Out
    <2>2. MetInv'
      BY <1>3, ExportKeepsMet, ForgetKeepsMet DEF exportVars
    <2> QED BY <1>1, <2>1, <2>2 DEF BInv
  <1> QED BY <1>2, <1>3, ExportCases

(* Whatever an export and a restore of one root do beside each other, and  *)
(* whoever calls locate() meanwhile: once the walk has met something of    *)
(* this restore's archive, nothing that it meets later is older, unless    *)
(* the restore has failed.                                                 *)
THEOREM SeenInOrder == ExportSpec => []NothingOlderLater
  <1>1. BInv => NothingOlderLater
    BY DEF BInv, MetInv
  <1> QED BY <1>1, SeenInit, SeenNext, PTL DEF ExportSpec

-----------------------------------------------------------------------------
(* HalfMeansFailure rests on what becomes of the trees of this restore as  *)
(* long as no error is recorded: they come out of the extraction complete, *)
(* and rename(2) takes them to the root as they are.                       *)

HalfInv ==
  status # "error" => \A p \in Managed \ CrossDevice :
    /\ disk["root"][p] # Torn(attempt)
    /\ Torn(attempt) \notin got[p]
    /\ pc \notin {"extract", "cleanup", "idle"} =>
         disk["stage"][p] # Torn(attempt)

LEMMA TornFacts ==
  /\ \A v : Stocked(Torn(v)) /\ Torn(v).ver = v
  /\ \A v, w : Torn(v) # Whole(w)
  /\ \A v : Torn(v) # Absent /\ Torn(v) # Empty
  BY DEF Torn, Whole, Absent, Empty, Stocked

(* The part that the operation under way is about.                         *)
LEMMA SubjectKeepsHalf ==
  ASSUME BInv, HalfInv, PlanStep, status' # "error",
         Subject \in Managed \ CrossDevice
  PROVE  /\ disk'["root"][Subject] # Torn(attempt)
         /\ disk'["stage"][Subject] # Torn(attempt)
  <1>1. /\ pc \in Steps /\ status # "error" /\ pc \notin RollbackSteps
        /\ disk["root"][Subject] # Torn(attempt)
        /\ disk["stage"][Subject] # Torn(attempt)
    <2>1. pc \in Steps /\ status # "error"
      BY PlanFootprint DEF BInv, XInv, Proceed, GiveUp
    <2>2. pc \notin {"extract", "cleanup", "idle"}
      BY <2>1, StepsAre
    <2> QED BY <2>1, <2>2 DEF BInv, ShownInv, HalfInv
  <1>2. CASE Skip
    BY <1>1, <1>2 DEF Skip
  <1>3. CASE pc \in MoveSteps /\ Rename(pc)
    <2>1. /\ Moves[pc].part = Subject /\ Subject \in Part
          /\ Moves[pc].from \in Place /\ Moves[pc].to \in Place
          /\ Moves[pc].from # Moves[pc].to
      BY <1>3, MoveType, SubjectTable DEF Subject
    <2>2. /\ disk'[Moves[pc].from][Subject] = Absent
          /\ disk'[Moves[pc].to][Subject] = disk[Moves[pc].from][Subject]
          /\ \A pl \in Place \ {Moves[pc].from, Moves[pc].to} :
               disk'[pl][Subject] = disk[pl][Subject]
      BY <1>3, <2>1 DEF Rename, BInv, XInv, TypeOK
    <2>3. Moves[pc].from \in {"root", "stage"}
      BY <1>1, <1>3, MoveTable DEF RollbackSteps
    <2> QED BY <1>1, <2>2, <2>3, TornFacts DEF Place
  <1>4. pc \notin RemoveSteps
    BY <1>1, RemovalTable, SubjectTable
       DEF RollbackSteps, Subject, Managed
  <1> QED
    BY <1>2, <1>3, <1>4, SubjectFootprint DEF BInv, XInv, GiveUp

LEMMA RestoreKeepsHalf ==
  ASSUME BInv, HalfInv, Next \/ CreateManager, UNCHANGED exportOwn
  PROVE  HalfInv'
  <1> SUFFICES ASSUME status' # "error", NEW p \in Managed \ CrossDevice
               PROVE  (/\ disk["root"][p] # Torn(attempt)
                       /\ Torn(attempt) \notin got[p]
                       /\ pc \notin {"extract", "cleanup", "idle"} =>
                            disk["stage"][p] # Torn(attempt))'
    BY DEF HalfInv
  <1>1. got' = got /\ p \in Part /\ {"root", "stage"} \subseteq Place
    BY DEF exportOwn, Part, Place
  <1>2. CASE Begin
    <2>1. /\ attempt' = attempt + 1 /\ attempt \in Nat
          /\ pc' \in {"extract", "idle"}
      BY <1>2, RestoreAssumption DEF Begin, Open, BInv, XInv, TypeOK
    <2>2. ~UpTo(Torn(attempt'))
      BY <2>1, TornFacts DEF UpTo
    <2>3. UpTo(disk["root"][p]) /\ \A c \in got[p] : UpTo(c)
      BY <1>1 DEF BInv, VersionInv, MetInv, GotUpTo
    <2>4. \/ disk'["root"][p] = disk["root"][p]
          \/ ~Stocked(disk'["root"][p])
      BY <1>1, <1>2, RootKeepsVersions DEF BInv, XInv
    <2> QED BY <1>1, <2>1, <2>2, <2>3, <2>4, TornFacts
  <1>3. CASE PlanStep
    <2>1. /\ status # "error" /\ attempt' = attempt /\ pc \in Steps
          /\ p # Subject => /\ disk'["root"][p] = disk["root"][p]
                            /\ disk'["stage"][p] = disk["stage"][p]
      BY <1>1, <1>3, PlanFootprint
         DEF BInv, XInv, Proceed, GiveUp, OwnPartOnly
    <2>2. pc \notin {"extract", "cleanup", "idle"}
      BY <2>1, StepsAre
    <2> QED
      BY <1>1, <1>3, <2>1, <2>2, SubjectKeepsHalf DEF HalfInv
  <1>4. CASE ReturnStep
    <2>1. /\ status # "error" /\ attempt' = attempt
          /\ disk'["root"] = disk["root"] /\ pc' \in {"cleanup", "idle"}
      BY <1>4, ReturnVersions DEF BInv, XInv
    <2> QED BY <1>1, <2>1 DEF HalfInv
  <1>5. CASE Extract \/ Check
    <2>1. /\ status # "error" /\ attempt' = attempt
          /\ disk'["root"] = disk["root"]
          /\ \/ pc' = "check"
             \/ pc = "check" /\ disk' = disk
      BY <1>5, ExtractKeepsVersions DEF Extract, Check, BInv, XInv
    <2>2. disk'["stage"][p] # Torn(attempt)
      BY <1>5, <2>1, ExtractKeepsVersions, TornFacts
         DEF BInv, XInv, HalfInv
    <2> QED BY <1>1, <2>1, <2>2 DEF HalfInv
  <1>6. CASE CreateManager
    <2>1. /\ UNCHANGED <<pc, status, attempt>>
          /\ disk'["stage"] = disk["stage"]
          /\ \/ disk'["root"][p] = disk["root"][p]
             \/ ~Stocked(disk'["root"][p])
      BY <1>1, <1>6, RootKeepsVersions DEF CreateManager, BInv, XInv
    <2> QED BY <1>1, <2>1, TornFacts DEF HalfInv
  <1> QED
    BY <1>2, <1>3, <1>4, <1>5, <1>6, RootSteps DEF RefuseRoot

(* A walk meets what is in the root.                                       *)
LEMMA ExportMeetsRoot ==
  ASSUME ExportTypeOK, ExportStep, NEW p \in Managed, NEW c \in got'[p]
  PROVE  c \in got[p] \/ c = disk["root"][p]
  <1>1. p \in Part
    BY DEF Part
  <1>2. CASE \E q \in Part : Visit(q)
    <2>1. PICK q \in Part : Visit(q)
      BY <1>2
    <2>2. q = p => Source(q) = p
      BY SourceType
    <2> QED BY <1>1, <2>1, <2>2 DEF Visit, ExportTypeOK
  <1>3. CASE got' = got \/ got' = NothingYet
    BY <1>3, NothingYetType
  <1> QED
    BY <1>2, <1>3
       DEF ExportStep, OpenFile, MakeTemp, Abandon, CloseArchive, Leave,
           CloseDirectory, CopyOut, CopyOutEnds, Flush, KillExport, Finish

LEMMA HalfNext ==
  BInv /\ HalfInv /\ [ExportNext]_<<vars, exportVars>> => HalfInv'
  <1> SUFFICES ASSUME BInv, HalfInv, [ExportNext]_<<vars, exportVars>>
               PROVE  HalfInv'
    OBVIOUS
  <1>1. CASE (Next \/ CreateManager) /\ UNCHANGED exportOwn
    BY <1>1, RestoreKeepsHalf
  <1>2. CASE UNCHANGED vars /\ (ExportStep \/ UNCHANGED exportVars)
    <2>1. \A p \in Managed : \A c \in got'[p] :
            c \in got[p] \/ c = disk["root"][p]
      BY <1>2, ExportMeetsRoot DEF BInv, XInv, exportVars
    <2> QED BY <1>2, <2>1 DEF HalfInv, vars
  <1> QED BY <1>1, <1>2, ExportCases

(* Half of a new part is met only while a failed restore takes it away     *)
(* again: as long as no error is recorded, a part that rename(2) can move  *)
(* is met as a whole or not at all.                                        *)
THEOREM HalfIsFailure == ExportSpec => []HalfMeansFailure
  <1>1. ExportInit => HalfInv
    <2>1. ASSUME ExportInit, NEW p \in Managed
          PROVE  disk["root"][p] # Torn(attempt) /\ got[p] = {}
      <3>1. disk["root"][p] \in {Absent, Whole(0)}
        BY <2>1 DEF ExportInit, Init, Part
      <3>2. got[p] = {}
        BY <2>1, NothingYetType DEF ExportInit
      <3> QED BY <3>1, <3>2, TornFacts
    <2>2. ExportInit => pc = "idle"
      BY DEF ExportInit, Init
    <2> QED BY <2>1, <2>2 DEF HalfInv
  <1>2. HalfInv => HalfMeansFailure
    BY DEF HalfInv, HalfMeansFailure
  <1> QED
    BY <1>1, <1>2, HalfNext, SeenInit, SeenNext, PTL DEF ExportSpec

-----------------------------------------------------------------------------
(* What a restore promises its caller holds although others call locate()  *)
(* in the middle of it: a directory is created only where nothing is, and  *)
(* that is never where the new part already has its place.                 *)

LEMMA CreateManagerDoes ==
  ASSUME TypeOK, CreateManager
  PROVE  /\ disk["root"]["extensions"] = Absent
         /\ disk'["root"]["extensions"] = Empty
         /\ \A p \in Part, pl \in Place :
              \/ p = "extensions" /\ pl = "root"
              \/ disk'[pl][p] = disk[pl][p]
         /\ UNCHANGED <<pc, mv, had, installed, status, rbFailed, crashed,
                        faults, attempt, litter, before>>
  <1>1. disk["root"]["extensions"] = Absent
    BY NothingPresent DEF TypeOK, CreateManager, In, Part, Managed, Place
  <1>2. Located(disk["root"]) = [disk["root"] EXCEPT !["extensions"] = Empty]
    BY <1>1, AbsentIsOut DEF Located
  <1>3. disk' = [disk EXCEPT !["root"] =
                   [disk["root"] EXCEPT !["extensions"] = Empty]]
    BY <1>2 DEF CreateManager
  <1> QED
    BY <1>1, <1>3 DEF TypeOK, CreateManager, Part, Managed, Place

LEMMA CreateReplaced ==
  ASSUME OInv, CreateManager PROVE OInv'
  <1>1. TypeOK'
    BY CreateKept DEF OInv
  <1>2. UNCHANGED <<pc, mv, status, crashed, attempt>>
    BY DEF CreateManager
  <1>3. ASSUME NEW p \in Part, NewOf(p) PROVE NewOf(p)'
    <2>1. /\ disk'["stage"][p] = disk["stage"][p]
          /\ \/ disk'["root"][p] = disk["root"][p]
             \/ p = "extensions" /\ disk["root"][p] = Absent
      BY CreateManagerDoes DEF OInv, Place
    <2>2. Absent # Whole(attempt)
      BY DEF Absent, Whole
    <2> QED
      BY <1>2, <1>3, <2>1, <2>2
         DEF NewOf, Waiting, NewInPlace, Installing, FromArchive, Extracted
  <1> QED BY <1>1, <1>2, <1>3 DEF OInv

LEMMA ReplacedNext == OInv /\ [ExportNext]_<<vars, exportVars>> => OInv'
  <1>1. CASE [Next]_vars
    BY <1>1, NextReplaced
  <1> QED BY <1>1, CreateReplaced DEF ExportNext

(* Exports of the same root and directories that locate() creates in it do *)
(* not make a successful restore untrue: when it returns success, both     *)
(* managed parts are the complete ones of its archive.                     *)
THEOREM OkIsReplacedBeside == ExportSpec => []OkMeansReplaced
  <1>1. ExportInit => OInv
    BY InitReplaced DEF ExportInit
  <1> QED BY <1>1, ReplacedAtTheEnd, ReplacedNext, PTL DEF ExportSpec

-----------------------------------------------------------------------------
(* NeverMixed beside locate().  An empty extensions directory belongs to   *)
(* no archive, so that OldOrNew, which speaks of what is in the parts,     *)
(* stands when one is created.                                             *)

LEMMA CreateMixed ==
  ASSUME TypeOK, OldOrNew, CreateManager PROVE OldOrNew'
  <1>1. /\ UNCHANGED <<pc, had, installed, rbFailed, attempt, before>>
        /\ ~Stocked(disk["root"]["extensions"])
        /\ ~Stocked(disk'["root"]["extensions"])
        /\ disk'["root"]["data"] = disk["root"]["data"]
        /\ \A p \in Managed, pl \in {"stage", "old"} :
             disk'[pl][p] = disk[pl][p]
    BY CreateManagerDoes
       DEF Stocked, Absent, Empty, Part, Managed, Place
  <1>2. StageIsNew' /\ (PutAside => PutAside')
    BY <1>1 DEF OldOrNew, StageIsNew, PutAside
  <1>3. OneVersion => OneVersion'
    BY <1>1 DEF OneVersion, OldOrOut, Old, Out, New, Mixed, Managed
  <1> QED BY <1>1, <1>2, <1>3 DEF OldOrNew

LEMMA MixedNext ==
  ASSUME TypeOK, Control, MInv, [ExportNext]_<<vars, exportVars>>
  PROVE  TypeOK' /\ Control' /\ MInv'
  <1>1. CASE Next \/ CreateManager
    BY <1>1, NextType, CreateKept, ControlHolds, StepMixed, CreateMixed
       DEF MInv
  <1>2. CASE UNCHANGED vars
    <2>1. TypeOK' /\ Control'
      BY <1>2, NextType DEF vars, Control
    <2> QED BY <1>2, <2>1, StepMixed DEF MInv
  <1> QED BY <1>1, <1>2 DEF ExportNext

(* Nor does anybody who reads the root find a data tree and extensions of  *)
(* different archives, however many exports and locate() calls there are,  *)
(* unless they were so before or a rollback failed.                        *)
THEOREM OneArchiveBeside == ExportSpec => []NeverMixed
  <1>1. ExportInit => TypeOK /\ Control /\ MInv
    BY SeenInit, InitMixed DEF ExportInit, BInv, XInv, MInv
  <1>2. TypeOK /\ Control /\ MInv => NeverMixed
    BY NoMix DEF MInv, NeverMixed
  <1> QED BY <1>1, <1>2, MixedNext, PTL DEF ExportSpec

-----------------------------------------------------------------------------
(* LossIsReported beside locate().  A directory that locate() creates in   *)
(* the place of an extensions directory that was moved aside makes the     *)
(* rollback fail, and a part need not be absent from where it was taken:   *)
(* what is left of Kept is where the old part is, if it was complete.      *)

WhereBeside(p) ==
  /\ pc \in Steps   => p \in had
  /\ InPlace(p)     => disk["root"][p] = before[p]
  /\ Aside(p)       => disk["old"][p] = before[p]
  /\ Replaced(p)    => /\ disk["old"][p] = before[p]
                       /\ disk["root"][p] = Whole(attempt)
  /\ ToDrop(p)      => \/ disk["old"][p] = before[p]
                       \/ disk["root"][p] = before[p] /\ p \notin installed
  /\ ToUndo(p)      => \/ disk["old"][p] = before[p]
                       \/ disk["root"][p] = before[p]
  /\ Undone(p)      => disk["root"][p] = before[p]
  /\ pc = "cleanup" => disk["root"][p] \in {before[p], Whole(attempt)}
  /\ pc = "idle"    => \E v \in {before[p].ver, attempt} :
                         Whole(v) \in Copies(p)

Beside(p) ==
  /\ Staged(p)
  /\ before[p].state = "whole" /\ ~rbFailed => WhereBeside(p)

LossInv ==
  /\ TypeOK /\ Control /\ VersionInv
  /\ \A p \in Managed \ CrossDevice : Beside(p)

LEMMA SubjectIs ==
  /\ pc \in {"backup_data", "install_data", "undo_data", "drop_data"}
       => Subject = "data"
  /\ pc \in {"backup_extensions", "install_extensions", "undo_extensions",
             "drop_extensions"} => Subject = "extensions"
  /\ pc \in {"drop_manifest", "install_manifest"} => Subject = "manifest"
  BY MoveTable, RemovalTable DEF Subject

(* A step of the plan that concerns another part, or none.                 *)
LEMMA BesideElsewhere ==
  ASSUME LossInv, PlanStep, NEW p \in Managed \ CrossDevice, p # Subject
  PROVE  Beside(p)'
  <1>1. /\ pc \in Steps /\ p \in Part
        /\ UNCHANGED <<had, attempt, before>>
        /\ \A pl \in Place : disk'[pl][p] = disk[pl][p]
        /\ \/ Proceed \/ GiveUp
           \/ UNCHANGED <<pc, installed, status, rbFailed>>
    BY PlanFootprint DEF LossInv, OwnPartOnly, Part
  <1>2. /\ disk'["root"][p] = disk["root"][p]
        /\ disk'["stage"][p] = disk["stage"][p]
        /\ disk'["old"][p] = disk["old"][p]
    BY <1>1 DEF Place
  <1>3. Beside(p)
    BY DEF LossInv
  <1>4. CASE UNCHANGED <<pc, installed, status, rbFailed>>
    <2>1. pc # "idle"
      BY <1>1, StepsAre
    <2> QED
      BY <1>1, <1>2, <1>3, <1>4, <2>1
         DEF Beside, WhereBeside, Staged, ToInstall, InPlace, Aside,
             Replaced, ToDrop, ToUndo, Undone
  <1>5. CASE Proceed
    <2>1. /\ pc' = OnDone[pc] /\ rbFailed' = rbFailed
          /\ pc \notin {"install_data", "install_extensions"} =>
               installed' = installed
      BY <1>5 DEF Proceed
    <2>2. Staged(p)'
      BY <1>1, <1>2, <1>3, <2>1, StepsAre, PlanTable
         DEF Beside, Staged, ToInstall
    <2>3. (before[p].state = "whole" /\ ~rbFailed => WhereBeside(p))'
      BY <1>1, <1>2, <1>3, <2>1, StepsAre, PlanTable, SubjectIs
         DEF Beside, WhereBeside, InPlace, Aside, Replaced, ToDrop, ToUndo,
             Undone, Managed
    <2> QED BY <2>2, <2>3 DEF Beside
  <1>6. CASE GiveUp
    <2>1. /\ pc' = OnFail(pc) /\ installed' = installed
          /\ rbFailed' = (rbFailed \/ pc \in RollbackSteps)
      BY <1>6 DEF GiveUp
    <2>2. Staged(p)'
      BY <1>1, <2>1, StepsAre, PlanTable DEF Staged, ToInstall
    <2>3. (before[p].state = "whole" /\ ~rbFailed => WhereBeside(p))'
      BY <1>1, <1>2, <1>3, <2>1, StepsAre, PlanTable, SubjectIs
         DEF Beside, WhereBeside, InPlace, Aside, Replaced, ToDrop, ToUndo,
             Undone, Managed, LossInv, Control
    <2> QED BY <2>2, <2>3 DEF Beside
  <1> QED BY <1>1, <1>4, <1>5, <1>6

(* The part that the operation under way is about.                         *)
LEMMA BesideSkip ==
  ASSUME LossInv, Skip, NEW p \in Managed \ CrossDevice, p = Subject
  PROVE  Beside(p)'
  <1>1. /\ pc \in Steps /\ ~Needed(pc) /\ pc' = OnDone[pc]
        /\ UNCHANGED <<disk, had, attempt, before, status, rbFailed>>
    BY DEF Skip, Proceed, Steps
  <1>2. /\ Beside(p) /\ p \in Managed
        /\ p \in had => pc \notin {"backup_data", "backup_extensions"}
        /\ p \in had /\ pc \in {"undo_data", "undo_extensions"} =>
             ~Present(disk["old"][p])
        /\ pc \in {"drop_data", "drop_extensions"} => p \notin installed
        /\ pc \notin {"install_data", "install_extensions"}
    BY <1>1, SubjectIs DEF LossInv, Needed, In
  <1>3. pc \notin {"install_data", "install_extensions"} =>
          installed' = installed
    BY DEF Skip, Proceed
  <1>4. Staged(p)'
    BY <1>1, <1>2, StepsAre, PlanTable
       DEF Beside, Staged, ToInstall
  <1>5. (before[p].state = "whole" /\ ~rbFailed => WhereBeside(p))'
    <2> SUFFICES ASSUME before[p].state = "whole", ~rbFailed
                 PROVE  WhereBeside(p)'
      BY <1>1
    <2>1. WhereBeside(p) /\ Present(before[p]) /\ p \in had
      BY <1>1, <1>2 DEF Beside, WhereBeside, Present
    <2> QED
      BY <1>1, <1>2, <1>3, <2>1, StepsAre, PlanTable, SubjectIs
         DEF WhereBeside, InPlace, Aside, Replaced, ToDrop, ToUndo, Undone,
             Managed
  <1> QED BY <1>4, <1>5 DEF Beside

LEMMA BesideGiveUp ==
  ASSUME LossInv, PlanStep, GiveUp, disk' = disk,
         NEW p \in Managed \ CrossDevice, p = Subject
  PROVE  Beside(p)'
  <1>1. /\ pc \in Steps /\ Beside(p) /\ pc' = OnFail(pc)
        /\ UNCHANGED <<disk, had, attempt, before, installed>>
        /\ rbFailed' = (rbFailed \/ pc \in RollbackSteps)
    BY PlanFootprint DEF LossInv, GiveUp
  <1>2. Staged(p)'
    BY <1>1, StepsAre, PlanTable DEF Staged, ToInstall
  <1>3. (before[p].state = "whole" /\ ~rbFailed => WhereBeside(p))'
    BY <1>1, StepsAre, PlanTable, SubjectIs
       DEF Beside, WhereBeside, InPlace, Aside, Replaced, ToDrop, ToUndo,
           Undone, LossInv, Control, Managed, RollbackSteps
  <1> QED BY <1>2, <1>3 DEF Beside

LEMMA BesideRename ==
  ASSUME LossInv, pc \in MoveSteps, Rename(pc),
         NEW p \in Managed \ CrossDevice, p = Subject
  PROVE  Beside(p)'
  <1> DEFINE m == Moves[pc]
  <1>1. /\ pc \in Steps /\ p \in Part /\ m.part = p
        /\ m.from \in Place /\ m.to \in Place /\ m.from # m.to
        /\ pc' = OnDone[pc] /\ ~Present(disk[m.to][p])
        /\ UNCHANGED <<had, attempt, before, rbFailed>>
    BY MoveType, SubjectTable
       DEF Rename, Proceed, Steps, Part, Subject, MoveAllowed, In
  <1>2. /\ disk'[m.from][p] = Absent
        /\ disk'[m.to][p] = disk[m.from][p]
        /\ \A pl \in Place \ {m.from, m.to} : disk'[pl][p] = disk[pl][p]
    BY <1>1 DEF Rename, LossInv, TypeOK
  <1>3. Beside(p) /\ p \in Managed
    BY DEF LossInv
  <1>4. Staged(p)'
    BY <1>1, <1>2, <1>3, MoveTable, PlanTable, SubjectIs
       DEF Beside, Staged, ToInstall, Place, Managed
  <1>5. (before[p].state = "whole" /\ ~rbFailed => WhereBeside(p))'
    <2> SUFFICES ASSUME before[p].state = "whole", ~rbFailed
                 PROVE  WhereBeside(p)'
      BY <1>1
    <2>1. WhereBeside(p) /\ Present(before[p]) /\ p \in had
      BY <1>1, <1>3 DEF Beside, WhereBeside, Present
    <2>2. CASE pc \in {"backup_data", "backup_extensions"}
      <3>1. disk'["old"][p] = before[p]
        BY <1>2, <2>1, <2>2, MoveTable, SubjectIs
           DEF WhereBeside, InPlace
      <3> QED
        BY <1>1, <2>1, <2>2, <3>1, PlanTable, SubjectIs, StepsAre
           DEF WhereBeside, InPlace, Aside, Replaced, ToDrop, ToUndo, Undone
    <2>3. CASE pc \in {"install_data", "install_extensions"}
      <3>1. /\ disk'["old"][p] = before[p]
            /\ disk'["root"][p] = Whole(attempt)
        BY <1>2, <1>3, <2>1, <2>3, MoveTable, SubjectIs
           DEF Beside, Staged, ToInstall, WhereBeside, Aside, Place
      <3> QED
        BY <1>1, <2>1, <2>3, <3>1, PlanTable, SubjectIs, StepsAre
           DEF WhereBeside, InPlace, Aside, Replaced, ToDrop, ToUndo, Undone
    <2>4. CASE pc \in {"undo_data", "undo_extensions"}
      <3>1. disk'["root"][p] = before[p]
        BY <1>1, <1>2, <2>1, <2>4, MoveTable, SubjectIs
           DEF WhereBeside, ToUndo
      <3> QED
        BY <1>1, <2>1, <2>4, <3>1, PlanTable, SubjectIs, StepsAre
           DEF WhereBeside, InPlace, Aside, Replaced, ToDrop, ToUndo, Undone
    <2> QED
      BY <1>3, <2>2, <2>3, <2>4, MoveTable, SubjectIs DEF Managed
  <1> QED BY <1>4, <1>5 DEF Beside

LEMMA BesideRemove ==
  ASSUME LossInv, PlanStep, pc \in RemoveSteps, Needed(pc),
         RemoveProgress(pc) \/ RemoveEnds(pc),
         NEW p \in Managed \ CrossDevice, p = Subject
  PROVE  Beside(p)'
  <1>1. /\ pc \in {"drop_data", "drop_extensions"}
        /\ p \in installed /\ p \in Part /\ Beside(p)
    BY RemovalTable, SubjectIs DEF LossInv, Needed, Managed, Part
  <1>2. /\ UNCHANGED <<had, attempt, before, installed, rbFailed>>
        /\ pc' \in {pc, OnDone[pc]}
    BY <1>1 DEF RemoveProgress, RemoveEnds, Proceed
  <1>3. \A pl \in Place \ {"root"} : disk'[pl][p] = disk[pl][p]
    BY DEF RemoveProgress, RemoveEnds, Put, LossInv, TypeOK
  <1>4. Staged(p)'
    BY <1>1, <1>2, PlanTable DEF Staged, ToInstall
  <1>5. (before[p].state = "whole" /\ ~rbFailed => WhereBeside(p))'
    BY <1>1, <1>2, <1>3, PlanTable, SubjectIs, StepsAre
       DEF Beside, WhereBeside, InPlace, Aside, Replaced, ToDrop, ToUndo,
           Undone, Place
  <1> QED BY <1>4, <1>5 DEF Beside

LEMMA PlanKeepsBeside ==
  ASSUME LossInv, PlanStep, NEW p \in Managed \ CrossDevice
  PROVE  Beside(p)'
  BY SubjectFootprint, BesideElsewhere, BesideSkip, BesideGiveUp,
     BesideRename, BesideRemove DEF LossInv

(* The beginning and the end of a restore, and what comes from outside.    *)
LEMMA CopyInPlace ==
  ASSUME NEW p, before[p] = Whole(before[p].ver), disk["root"][p] = before[p]
  PROVE  \E v \in {before[p].ver, attempt} : Whole(v) \in Copies(p)
  BY DEF Copies, Place

LEMMA BeginBeside ==
  ASSUME LossInv, TypeOK', Begin \/ RefuseRoot,
         NEW p \in Managed \ CrossDevice
  PROVE  Beside(p)'
  <1>1. /\ pc' \in {"idle", "extract"} /\ disk'["root"] = before'
        /\ p \in Part
    BY DEF Begin, Open, RefuseRoot, LossInv, TypeOK, Place, Part
  <1>2. before'[p].state = "whole" =>
          \E v \in {before[p].ver, attempt}' : Whole(v) \in Copies(p)'
    <2>1. before'[p].state = "whole" => before'[p] = Whole(before'[p].ver)
      BY <1>1, WholeContent DEF TypeOK
    <2> QED BY <1>1, <2>1 DEF Copies, Place
  <1> QED
    BY <1>1, <1>2, StepsAre
       DEF Beside, WhereBeside, Staged, ToInstall, InPlace, Aside, Replaced,
           ToDrop, ToUndo, Undone

LEMMA ExtractBeside ==
  ASSUME LossInv, Extract \/ Check, NEW p \in Managed \ CrossDevice
  PROVE  Beside(p)'
  <1>1. /\ disk'["root"] = disk["root"] /\ p \in Managed /\ Beside(p)
        /\ UNCHANGED <<attempt, before, rbFailed>>
        /\ pc \in {"extract", "check"}
        /\ pc' \in {"check", "backup_data", "cleanup"}
        /\ pc' = "check" => disk'["stage"][p] \in {Absent, Whole(attempt)}
    BY ExtractKeepsVersions DEF LossInv, Extract, Check
  <1>2. pc' = "backup_data" =>
          /\ disk'["stage"][p] = Whole(attempt)
          /\ Present(disk["root"][p]) => p \in had'
    BY <1>1, AbsentIsOut DEF Extract, Check, In, Beside, Staged
  <1>3. Staged(p)'
    BY <1>1, <1>2 DEF Staged, ToInstall
  <1>4. (before[p].state = "whole" /\ ~rbFailed => WhereBeside(p))'
    BY <1>1, <1>2, StepsAre
       DEF Beside, WhereBeside, InPlace, Aside, Replaced, ToDrop, ToUndo,
           Undone, Present
  <1> QED BY <1>3, <1>4 DEF Beside

(* At every point of a restore the old part is in the root or aside, or    *)
(* the new one is in the root.                                             *)
LEMMA BesideIsACopy ==
  ASSUME LossInv, NEW p \in Managed \ CrossDevice,
         before[p].state = "whole", ~rbFailed, pc # "idle"
  PROVE  \/ disk["root"][p] \in {before[p], Whole(attempt)}
         \/ disk["old"][p] = before[p]
  BY MoveTable, RemovalTable, StepsAre
     DEF LossInv, Beside, WhereBeside, InPlace, Aside, Replaced, ToDrop,
         ToUndo, Undone, PC, TypeOK, Managed

LEMMA ReturnBeside ==
  ASSUME LossInv, ReturnStep, NEW p \in Managed \ CrossDevice
  PROVE  Beside(p)'
  <1>1. /\ disk'["root"] = disk["root"] /\ p \in Part /\ Beside(p)
        /\ UNCHANGED <<attempt, before, rbFailed>> /\ pc # "idle"
        /\ \/ pc = "cleanup" /\ pc' = pc
           \/ pc' = "idle" /\ (pc = "cleanup" \/ Crash)
    BY ReturnVersions DEF LossInv, Part
  <1>2. Staged(p)'
    BY <1>1 DEF Staged, ToInstall
  <1>3. ASSUME before[p].state = "whole", ~rbFailed PROVE WhereBeside(p)'
    <2>1. before[p] = Whole(before[p].ver)
      BY <1>1, <1>3, WholeContent DEF LossInv, TypeOK
    <2>2. CASE pc' = "idle"
      <3>1. \E v \in {before[p].ver, attempt} : Whole(v) \in Copies(p)'
        <4>1. CASE disk["root"][p] \in {before[p], Whole(attempt)}
          BY <1>1, <2>1, <4>1 DEF Copies, Place
        <4>2. CASE Crash /\ disk["old"][p] = before[p]
          <5>1. <<p, before[p]>> \in litter'
            BY <1>1, <4>2 DEF Crash, Leftovers
          <5> QED BY <2>1, <5>1 DEF Copies
        <4>3. pc = "cleanup" =>
                disk["root"][p] \in {before[p], Whole(attempt)}
          BY <1>1, <1>3 DEF Beside, WhereBeside
        <4> QED BY <1>1, <1>3, <2>2, <4>1, <4>2, <4>3, BesideIsACopy
      <3> QED
        BY <1>1, <2>2, <3>1, StepsAre
           DEF WhereBeside, InPlace, Aside, Replaced, ToDrop, ToUndo, Undone
    <2>3. CASE pc = "cleanup" /\ pc' = pc
      BY <1>1, <1>3, <2>3, StepsAre
         DEF Beside, WhereBeside, InPlace, Aside, Replaced, ToDrop, ToUndo,
             Undone
    <2> QED BY <1>1, <2>2, <2>3
  <1> QED BY <1>1, <1>2, <1>3 DEF Beside

LEMMA CreateBeside ==
  ASSUME LossInv, CreateManager, NEW p \in Managed \ CrossDevice
  PROVE  Beside(p)'
  <1>1. /\ UNCHANGED <<pc, had, installed, rbFailed, attempt, litter, before>>
        /\ p \in Part /\ Beside(p)
        /\ disk'["stage"][p] = disk["stage"][p]
        /\ disk'["old"][p] = disk["old"][p]
        /\ \/ disk'["root"][p] = disk["root"][p]
           \/ disk["root"][p] = Absent
    BY CreateManagerDoes DEF LossInv, Part, Place
  <1>2. Staged(p)'
    BY <1>1 DEF Beside, Staged, ToInstall
  <1>3. ASSUME before[p].state = "whole", ~rbFailed PROVE WhereBeside(p)'
    <2>1. /\ WhereBeside(p) /\ before[p] # Absent
          /\ \A v : Whole(v) # Absent
      BY <1>1, <1>3 DEF Beside, Absent, Whole
    <2>2. \A v : Whole(v) \in Copies(p) => Whole(v) \in Copies(p)'
      BY <1>1, <2>1 DEF Copies, Place
    <2> QED
      BY <1>1, <2>1, <2>2
         DEF WhereBeside, InPlace, Aside, Replaced, ToDrop, ToUndo, Undone
  <1> QED BY <1>1, <1>2, <1>3 DEF Beside

LEMMA LossNext == LossInv /\ [ExportNext]_<<vars, exportVars>> => LossInv'
  <1> SUFFICES ASSUME LossInv, [ExportNext]_<<vars, exportVars>>
               PROVE  LossInv'
    OBVIOUS
  <1>1. TypeOK'
    BY NextType, CreateKept DEF LossInv, ExportNext
  <1>2. CASE Next \/ CreateManager
    <2>1. (Control /\ VersionInv)'
      BY <1>2, ControlHolds, VersionsHold DEF LossInv
    <2>2. \A p \in Managed \ CrossDevice : Beside(p)'
      BY <1>1, <1>2, RootSteps, PlanKeepsBeside, ReturnBeside,
         ExtractBeside, BeginBeside, CreateBeside
    <2> QED BY <1>1, <2>1, <2>2 DEF LossInv
  <1>3. CASE UNCHANGED vars
    BY <1>3
       DEF vars, LossInv, TypeOK, Control, VersionInv, StageIsNew, UpTo,
           Beside, Staged, ToInstall, WhereBeside, InPlace, Aside, Replaced,
           ToDrop, ToUndo, Undone, Copies
  <1> QED BY <1>2, <1>3 DEF ExportNext

LEMMA LossInit == ExportInit => LossInv
  <1> SUFFICES ASSUME ExportInit PROVE LossInv
    OBVIOUS
  <1>1. TypeOK /\ Control /\ VersionInv
    BY SeenInit DEF BInv, XInv
  <1>2. pc = "idle" /\ disk["root"] = before
    BY DEF ExportInit, Init
  <1>3. ASSUME NEW p \in Managed PROVE Beside(p)
    <2>1. before[p].state = "whole" => before[p] = Whole(before[p].ver)
      BY <1>1, WholeContent DEF TypeOK, Part
    <2> QED
      BY <1>2, <2>1, CopyInPlace, StepsAre
         DEF Beside, WhereBeside, Staged, ToInstall, InPlace, Aside,
             Replaced, ToDrop, ToUndo, Undone
  <1> QED BY <1>1, <1>3 DEF LossInv

(* Whatever fails, wherever the process is killed and whoever calls        *)
(* locate() in the middle: the old or the new version of a part that       *)
(* rename(2) can move is complete somewhere on disk, or the restore says   *)
(* that its rollback failed.                                               *)
THEOREM LossReportedBeside == ExportSpec => []LossIsReported
  <1>1. LossInv => LossIsReported
    <2> SUFFICES ASSUME LossInv, ~rbFailed, NEW p \in Managed \ CrossDevice,
                        before[p].state = "whole"
                 PROVE  \E v \in {before[p].ver, attempt} :
                          Whole(v) \in Copies(p)
      BY DEF LossIsReported
    <2>1. before[p] = Whole(before[p].ver)
      BY WholeContent DEF LossInv, TypeOK, Part
    <2>2. CASE pc = "idle"
      BY <2>2 DEF LossInv, Beside, WhereBeside
    <2>3. CASE pc # "idle"
      BY <2>1, <2>3, BesideIsACopy DEF Copies, Place
    <2> QED BY <2>2, <2>3
  <1> QED BY <1>1, LossInit, LossNext, PTL DEF ExportSpec

-----------------------------------------------------------------------------
(* ShortMeansReplaced.  A directory that rename(2) can move is in one      *)
(* place at a time, so that files deleted from it are nowhere any more,    *)
(* and the version listed without them does not come back.                 *)

(* Of the part that is walked, what was listed, or will be, without files. *)
LostOf(p) ==
  IF walk # p THEN {}
  ELSE short \cup (IF held.at = "lost" THEN {held.ver} ELSE {})

HandleInv ==
  held.at \in {"root", "old"} =>
    walk \in Managed /\ disk[held.at][walk] = Whole(held.ver)

Apart(p) ==
  \A a, b \in Place :
    a # b /\ Stocked(disk[a][p]) /\ Stocked(disk[b][p]) =>
      disk[a][p].ver # disk[b][p].ver

OldIsEarlier(p) ==
  status # "error" /\ Stocked(disk["old"][p]) => disk["old"][p].ver # attempt

Gone(p) ==
  \A v \in LostOf(p) :
    v <= attempt /\ \A pl \in Place : disk[pl][p] # Whole(v)

Promised(p) ==
  status # "error" =>
    \A v \in LostOf(p) :
      /\ v # attempt
      /\ before[p] = Whole(v) =>
           /\ pc \in {"cleanup", "idle"}
           /\ \A q \in Managed : disk["root"][q] = Whole(attempt)

SInv ==
  /\ BInv /\ OInv /\ HandleInv
  /\ status = "none" => pc = "idle"
  /\ \A p \in Managed \ CrossDevice :
       Apart(p) /\ OldIsEarlier(p) /\ Gone(p) /\ Promised(p)

(* What is found at c was at d, or is a part of it, or nothing.            *)
Less(c, d) == c = d \/ (c.state # "whole" /\ From(c, d))
Shrunk(p)  == \A pl \in Place : Less(disk'[pl][p], disk[pl][p])
Taken(p)   == pc \in MoveSteps /\ Rename(pc) /\ Subject = p

LEMMA LessFacts ==
  /\ \A c : Less(c, c)
  /\ \A d : Less(Absent, d) /\ Less(Empty, d)
  /\ \A pl : \A p \in Managed : Less(HalfRemoved(pl, p), disk[pl][p])
  /\ \A c, d, v : Less(c, d) /\ c = Whole(v) => d = Whole(v)
  BY FromFacts
     DEF Less, HalfRemoved, Halfway, Torn, Whole, Absent, Empty

(* What a step beside an export does to a part that rename(2) can move.    *)
LEMMA PartSteps ==
  ASSUME BInv, Next \/ CreateManager, NEW p \in Managed \ CrossDevice
  PROVE  Taken(p) \/ Extract \/ Shrunk(p)
  <1>1. TypeOK /\ Control /\ p \in Part /\ {"root", "stage", "old"} = Place
    BY DEF BInv, XInv, Part, Place
  <1>2. CASE PlanStep
    <2>1. CASE Subject # p
      BY <1>1, <1>2, <2>1, PlanFootprint, LessFacts DEF OwnPartOnly, Shrunk
    <2>2. CASE disk' = disk
      BY <2>2, LessFacts DEF Shrunk
    <2>3. CASE Subject = p /\ pc \in RemoveSteps
               /\ (RemoveProgress(pc) \/ RemoveEnds(pc))
      <3>1. Removals[pc] = p
        BY <2>3, MoveTable, RemovalTable DEF Subject
      <3>2. PICK c \in {Absent, HalfRemoved("root", p)} : Put("root", p, c)
        BY <2>3, <3>1 DEF RemoveProgress, RemoveEnds
      <3>3. Less(c, disk["root"][p])
        BY <3>2, LessFacts
      <3> QED BY <1>1, <3>2, <3>3, LessFacts DEF Put, TypeOK, Shrunk
    <2> QED
      BY <1>1, <1>2, <2>1, <2>2, <2>3, SubjectFootprint DEF Skip, Taken
  <1>3. CASE CleanProgress
    <2>1. PICK at \in {"stage", "old"}, q \in Part :
            Put(at, q, Absent) \/ Put(at, q, HalfRemoved(at, q))
      BY <1>3 DEF CleanProgress
    <2>2. PICK c \in {Absent, HalfRemoved(at, q)} : Put(at, q, c)
      BY <2>1
    <2>3. q = p => Less(c, disk[at][p])
      BY <2>2, LessFacts
    <2> QED BY <1>1, <2>2, <2>3, LessFacts DEF Put, TypeOK, Shrunk
  <1>4. CASE CleanEnds \/ CleanFails \/ Crash
    <2>1. disk' = [disk EXCEPT !["stage"] = NoTree, !["old"] = NoTree]
      BY <1>4 DEF CleanEnds, CleanFails, Crash, Return
    <2> QED
      BY <1>1, <2>1, NothingThere, LessFacts DEF TypeOK, Shrunk
  <1>5. CASE Begin \/ RefuseRoot \/ CreateManager
    <2>1. \/ disk' = [disk EXCEPT !["root"] = disk["root"]]
          \/ disk' = [disk EXCEPT !["root"] = Located(disk["root"])]
      BY <1>5 DEF Begin, Open, RefuseRoot, CreateManager
    <2>2. Located(disk["root"])[p] \in {disk["root"][p], Empty}
      BY <1>1 DEF Located, TypeOK
    <2> QED BY <1>1, <2>1, <2>2, LessFacts DEF TypeOK, Shrunk
  <1>6. CASE Check
    BY <1>6, LessFacts DEF Check, Shrunk
  <1> QED
    BY <1>2, <1>3, <1>4, <1>5, <1>6, RootSteps DEF ReturnStep

LEMMA TakenFacts ==
  ASSUME TypeOK, NEW p, Taken(p)
  PROVE  LET m == Moves[pc] IN
         /\ m.part = p /\ m.from \in Place /\ m.to \in Place
         /\ m.from # m.to /\ disk[m.to][p] = Absent
         /\ disk'[m.from][p] = Absent /\ disk'[m.to][p] = disk[m.from][p]
         /\ \A pl \in Place \ {m.from, m.to} : disk'[pl][p] = disk[pl][p]
  <1> DEFINE m == Moves[pc]
  <1>1. /\ m.part = p /\ p \in Part /\ m.from \in Place /\ m.to \in Place
        /\ m.from # m.to
    BY MoveType, SubjectTable DEF Taken, Subject
  <1>2. disk[m.to][p] = Absent
    BY <1>1, NothingPresent DEF Taken, Rename, MoveAllowed, In, TypeOK
  <1> QED BY <1>1, <1>2 DEF Taken, Rename, TypeOK

(* An extraction fills the stage with a version that is nowhere else.      *)
LEMMA ExtractFacts ==
  ASSUME SInv, Extract, NEW p \in Managed \ CrossDevice
  PROVE  /\ disk'["root"] = disk["root"] /\ disk'["old"] = disk["old"]
         /\ disk'["stage"][p] \in {Absent, Whole(attempt), Torn(attempt)}
         /\ \A pl \in {"root", "old"} :
              Stocked(disk[pl][p]) => disk[pl][p].ver # attempt
         /\ \A v \in LostOf(p) : v # attempt
  <1>1. PICK a \in Archive(attempt) \cup Unfinished(attempt) :
          disk' = [disk EXCEPT !["stage"] = a]
    BY DEF Extract
  <1>2. a[p] \in {Absent, Whole(attempt), Torn(attempt)}
    BY DEF Archive, Unfinished, Part
  <1>3. status = "ok" /\ pc = "extract"
    BY DEF Extract, SInv, BInv, Control, Forward
  <1>4. OldOnly
    BY <1>3 DEF SInv, BInv, ShownInv, Earlier
  <1> QED
    BY <1>1, <1>2, <1>3, <1>4
       DEF SInv, BInv, XInv, TypeOK, Place, OldOnly, OldIsEarlier, Promised

LEMMA ApartKept ==
  ASSUME SInv, Next \/ CreateManager, NEW p \in Managed \ CrossDevice
  PROVE  Apart(p)'
  <1>1. Apart(p) /\ TypeOK
    BY DEF SInv, BInv, XInv
  <1>2. CASE Taken(p)
    BY <1>1, <1>2, TakenFacts, AbsentIsOut DEF Apart
  <1>3. CASE Extract
    <2>1. Stocked(disk'["stage"][p]) => disk'["stage"][p].ver = attempt
      BY <1>3, ExtractFacts, AbsentIsOut, TornFacts DEF Whole
    <2> QED
      BY <1>1, <1>3, <2>1, ExtractFacts DEF Apart, Place
  <1>4. CASE Shrunk(p)
    <2>1. \A pl \in Place : From(disk'[pl][p], disk[pl][p])
      BY <1>4, FromFacts DEF Shrunk, Less
    <2> QED BY <1>1, <2>1 DEF Apart, From
  <1> QED BY <1>2, <1>3, <1>4, PartSteps DEF SInv

LEMMA EarlierKept ==
  ASSUME SInv, Next \/ CreateManager, NEW p \in Managed \ CrossDevice
  PROVE  OldIsEarlier(p)'
  <1> SUFFICES ASSUME status' # "error", Stocked(disk'["old"][p])
               PROVE  disk'["old"][p].ver # attempt'
    BY DEF OldIsEarlier
  <1>1. /\ TypeOK /\ Control /\ p \in Part /\ "old" \in Place
        /\ "root" \in Place /\ OldIsEarlier(p)
    BY DEF SInv, BInv, XInv, Part, Place
  <1>2. CASE PlanStep
    <2>1. attempt' = attempt /\ status # "error"
      BY <1>1, <1>2, PlanFootprint DEF Proceed, GiveUp
    <2>2. CASE From(disk'["old"][p], disk["old"][p])
      BY <1>1, <2>1, <2>2 DEF OldIsEarlier, From
    <2>3. CASE Moved("old", p)
      <3>1. From(disk'["old"][p], disk["root"][p]) /\ pc \in Earlier
        BY <2>3, MoveTable DEF Moved, Earlier
      <3> QED
        BY <2>1, <3>1 DEF SInv, BInv, ShownInv, OldOnly, From
    <2> QED BY <1>1, <1>2, <2>2, <2>3, PlanVersions
  <1>3. CASE ReturnStep
    BY <1>1, <1>3, ReturnVersions DEF OldIsEarlier, From
  <1>4. CASE Extract \/ Check \/ CreateManager
    <2>1. /\ UNCHANGED <<attempt>> /\ status # "error"
          /\ disk'["old"] = disk["old"]
      BY <1>1, <1>4 DEF Extract, Check, CreateManager, TypeOK, Place
    <2> QED BY <1>1, <2>1 DEF OldIsEarlier
  <1>5. CASE Begin \/ RefuseRoot
    <2>1. disk'["old"] = NoTree
      BY <1>1, <1>5 DEF Begin, Open, RefuseRoot, TypeOK, Place
    <2> QED BY <1>1, <2>1, NothingThere, AbsentIsOut
  <1> QED BY <1>2, <1>3, <1>4, <1>5, RootSteps

(* What is open is followed to where it goes.                              *)
LEMMA HandleKept ==
  ASSUME SInv, Next \/ CreateManager, Follow, UNCHANGED exportOwn
  PROVE  HandleInv'
  <1>1. HandleInv /\ TypeOK /\ held \in Handles /\ walk' = walk
    BY HandleType DEF SInv, BInv, XInv, exportOwn
  <1>2. CASE held.at \in Place /\ Carried
    <2>1. /\ held' = [held EXCEPT !.at = Moves[pc].to]
          /\ walk \in Managed /\ disk[held.at][walk] = Whole(held.ver)
      BY <1>1, <1>2 DEF Follow, HandleInv, Handles, Place
    <2>2. Taken(walk)
      BY <1>2 DEF Carried, Taken, Subject
    <2>3. disk'[Moves[pc].to][walk] = Whole(held.ver)
      BY <1>1, <1>2, <2>1, <2>2, TakenFacts DEF Carried
    <2>4. held'.at = Moves[pc].to /\ held'.ver = held.ver
      BY <1>1, <2>1 DEF Handles
    <2> QED BY <1>1, <2>1, <2>3, <2>4 DEF HandleInv
  <1>3. CASE held' = held
             /\ (held.at \in Place =>
                   disk'[held.at][walk] = disk[held.at][walk])
    BY <1>1, <1>3 DEF HandleInv, Place
  <1>4. CASE held'.at \in {"litter", "lost"}
    BY <1>4 DEF HandleInv
  <1> QED
    BY <1>1, <1>2, <1>3, <1>4 DEF Follow, Handles

(* How files are lost from the directory that is open.                     *)
Losing ==
  /\ held.at \in {"root", "old"} /\ held'.at = "lost"
  /\ walk \in Managed /\ disk[held.at][walk] = Whole(held.ver)
  /\ ~Carried
  /\ disk'[held.at][walk] # disk[held.at][walk]
  /\ held.at = "old" => <<walk, Whole(held.ver)>> \notin litter'

LEMMA LostGrows ==
  ASSUME SInv, Follow, UNCHANGED exportOwn, NEW p, NEW v \in LostOf(p)'
  PROVE  v \in LostOf(p) \/ (Losing /\ walk = p /\ v = held.ver)
  <1>1. /\ HandleInv /\ held \in Handles /\ walk' = walk /\ short' = short
        /\ \A at \in {"litter", "lost"} :
             held' = [held EXCEPT !.at = at] =>
               held'.at = at /\ held'.ver = held.ver
    BY HandleType DEF SInv, BInv, XInv, exportOwn, Handles
  <1>2. walk = p /\ (v \in short \/ (held'.at = "lost" /\ v = held'.ver))
    BY <1>1 DEF LostOf
  <1>3. CASE held' = held \/ v \in short
    BY <1>1, <1>2, <1>3 DEF LostOf
  <1>4. CASE held' # held /\ held'.at = "lost" /\ v = held'.ver
    <2>1. held.at \in {"root", "old"} /\ ~Carried
      <3>1. Carried => Moves[pc].to # "lost"
        BY MoveTable DEF Carried
      <3>2. held.at \in Place
        BY <1>4 DEF Follow
      <3>3. Carried => held'.at = Moves[pc].to
        BY <1>1, <3>2 DEF Follow, Handles
      <3> QED BY <1>1, <1>4, <3>1, <3>2, <3>3 DEF Handles, Place
    <2>2. Losing /\ held'.ver = held.ver
      BY <1>1, <1>4, <2>1 DEF Follow, Losing, HandleInv, Place
    <2> QED BY <1>2, <1>4, <2>2
  <1> QED BY <1>2, <1>3, <1>4

(* A rename takes it along, an extraction is elsewhere: it is a deletion.  *)
LEMMA LosingIsShrinking ==
  ASSUME SInv, Next \/ CreateManager, Losing, walk \notin CrossDevice
  PROVE  Shrunk(walk) /\ ~Taken(walk) /\ ~Extract
  <1>1. /\ TypeOK /\ BInv /\ walk \in Managed \ CrossDevice
        /\ held.at \in {"root", "old"} /\ held.at \in Place
    BY DEF SInv, BInv, XInv, Losing, Place
  <1>2. ~Taken(walk)
    <2> SUFFICES ASSUME Taken(walk) PROVE FALSE
      OBVIOUS
    <2>1. Moves[pc].from # held.at
      BY TakenFacts, <1>1 DEF Losing, Carried, Taken
    <2>2. Moves[pc].to # held.at
      BY TakenFacts, <1>1 DEF Losing, Whole, Absent
    <2> QED BY <1>1, <2>1, <2>2, TakenFacts DEF Losing
  <1>3. ~Extract
    BY <1>1, ExtractFacts DEF Losing
  <1> QED BY <1>1, <1>2, <1>3, PartSteps

LEMMA AttemptGrows ==
  ASSUME BInv, Next \/ CreateManager
  PROVE  /\ attempt \in Nat /\ attempt' \in {attempt, attempt + 1}
         /\ attempt' # attempt => Begin
         /\ ~(Begin \/ RefuseRoot) => UNCHANGED <<attempt, before>>
  <1>1. attempt \in Nat
    BY RestoreAssumption DEF BInv, XInv, TypeOK
  <1>2. CASE PlanStep \/ ReturnStep
    BY <1>1, <1>2, PlanFootprint, ReturnVersions DEF BInv, XInv
  <1>3. CASE Extract \/ Check \/ Begin \/ RefuseRoot \/ CreateManager
    BY <1>1, <1>3
       DEF Extract, Check, Begin, Open, RefuseRoot, CreateManager
  <1> QED BY <1>2, <1>3, RootSteps

LEMMA GoneKept ==
  ASSUME SInv, Next \/ CreateManager, Follow, UNCHANGED exportOwn,
         NEW p \in Managed \ CrossDevice
  PROVE  Gone(p)'
  <1> SUFFICES ASSUME NEW v \in LostOf(p)'
               PROVE  v <= attempt'
                      /\ \A pl \in Place : disk'[pl][p] # Whole(v)
    BY DEF Gone
  <1>1. /\ TypeOK /\ BInv /\ p \in Part /\ held \in Handles
        /\ Apart(p) /\ Gone(p)
    BY HandleType DEF SInv, BInv, XInv, Part
  <1>2. CASE v \in LostOf(p)
    <2>1. v \in Nat
      BY <1>1, <1>2 DEF LostOf, BInv, XInv, ExportTypeOK, Handles
    <2>2. v <= attempt'
      BY <1>1, <1>2, <2>1, AttemptGrows DEF Gone
    <2>3. \A pl \in Place : disk[pl][p] # Whole(v)
      BY <1>1, <1>2 DEF Gone
    <2>4. CASE Taken(p)
      BY <1>1, <2>2, <2>3, <2>4, TakenFacts DEF Whole, Absent
    <2>5. CASE Extract
      <3>1. v # attempt
        BY <1>2, <2>5, ExtractFacts
      <3>2. disk'["stage"][p] # Whole(v)
        BY <2>5, <3>1, ExtractFacts DEF Whole, Torn, Absent
      <3> QED BY <2>2, <2>3, <2>5, <3>2, ExtractFacts DEF Place
    <2>6. CASE Shrunk(p)
      BY <2>2, <2>3, <2>6, LessFacts DEF Shrunk
    <2> QED BY <1>1, <2>4, <2>5, <2>6, PartSteps
  <1>3. CASE Losing /\ walk = p /\ v = held.ver
    <2>1. /\ held.at \in Place /\ disk[held.at][p] = Whole(v)
          /\ disk'[held.at][p] # Whole(v) /\ v \in Nat
      BY <1>1, <1>3 DEF Losing, Place, Handles
    <2>2. v <= attempt'
      <3>1. UpTo(Whole(v))
        BY <1>1, <2>1 DEF BInv, VersionInv
      <3>2. v <= attempt
        BY <3>1 DEF UpTo, Stocked, Whole
      <3> QED BY <1>1, <2>1, <3>2, AttemptGrows
    <2>3. \A pl \in Place : disk'[pl][p] = Whole(v) => disk[pl][p] = Whole(v)
      BY <1>3, LosingIsShrinking, LessFacts DEF Shrunk
    <2>4. \A pl \in Place : disk[pl][p] = Whole(v) => pl = held.at
      BY <1>1, <2>1 DEF Apart, Stocked, Whole
    <2> QED BY <2>1, <2>2, <2>3, <2>4
  <1> QED BY <1>2, <1>3, LostGrows

(* Without an error it is the old version, in the last act of a restore.   *)
LEMMA LosingIsCleaning ==
  ASSUME SInv, Next \/ CreateManager, Losing, walk \notin CrossDevice,
         status' # "error"
  PROVE  /\ held.at = "old" /\ pc = "cleanup" /\ status = "ok"
         /\ ReturnStep
  <1>1. /\ TypeOK /\ Control /\ BInv /\ walk \in Managed \ CrossDevice
        /\ walk \in Part /\ walk # "manifest"
        /\ held.at \in {"root", "old"} /\ held.at \in Place
        /\ ~Taken(walk) /\ ~Extract
    BY LosingIsShrinking DEF SInv, BInv, XInv, Losing, Place, Part, Managed
  <1>2. disk'[held.at][walk] # disk[held.at][walk]
    BY DEF Losing
  <1>3. ~PlanStep
    <2> SUFFICES ASSUME PlanStep PROVE FALSE
      OBVIOUS
    <2>1. Subject = walk
      BY <1>1, <1>2, PlanFootprint DEF OwnPartOnly
    <2>2. pc \in RemoveSteps
      BY <1>1, <1>2, <2>1, SubjectFootprint DEF Skip, Taken
    <2>3. status # "error"
      BY <1>1, PlanFootprint DEF Proceed, GiveUp
    <2>4. pc \notin RollbackSteps
      BY <1>1, <2>3 DEF BInv, ShownInv
    <2> QED
      BY <1>1, <2>1, <2>2, <2>4, RemovalTable, SubjectIs DEF RollbackSteps
  <1>4. ~(Check \/ Begin \/ RefuseRoot)
    <2>1. ~Check
      BY <1>2 DEF Check
    <2>2. ASSUME Begin \/ RefuseRoot PROVE FALSE
      <3>1. disk["old"] = NoTree
        BY <1>1, <2>2 DEF Begin, RefuseRoot, TypeOK
      <3>2. held.at = "root"
        BY <1>1, <3>1, NothingThere DEF Losing, Whole, Absent
      <3>3. Present(disk["root"][walk])
        BY <3>2 DEF Losing, Whole, Present
      <3>4. Located(disk["root"])[walk] = disk["root"][walk]
        BY <1>1, <3>3 DEF Located, TypeOK, Place
      <3> QED
        BY <1>1, <1>2, <2>2, <3>2, <3>4
           DEF Begin, Open, RefuseRoot, TypeOK, Place
    <2> QED BY <2>1, <2>2
  <1>5. ~CreateManager
    <2> SUFFICES ASSUME CreateManager PROVE FALSE
      OBVIOUS
    <2>1. walk = "extensions" /\ held.at = "root"
      BY <1>1, <1>2, CreateManagerDoes
    <2> QED BY <1>1, <2>1, CreateManagerDoes DEF Losing, Whole, Absent
  <1>6. ReturnStep
    BY <1>1, <1>3, <1>4, <1>5, RootSteps
  <1>7. held.at = "old"
    BY <1>1, <1>2, <1>6, ReturnVersions
  <1>8. ~Crash
    <2>1. Crash => <<walk, disk["old"][walk]>> \in litter'
      BY <1>1 DEF Crash, Leftovers
    <2> QED BY <1>7, <2>1 DEF Losing
  <1>9. /\ pc = "cleanup" /\ status # "error"
        /\ status \in {"none", "ok", "error"}
    BY <1>1, <1>6, <1>8, ReturnVersions DEF TypeOK
  <1> QED BY <1>6, <1>7, <1>9 DEF SInv

LEMMA PromiseKept ==
  ASSUME SInv, Next \/ CreateManager, Follow, UNCHANGED exportOwn,
         NEW p \in Managed \ CrossDevice
  PROVE  Promised(p)'
  <1> SUFFICES ASSUME status' # "error", NEW v \in LostOf(p)'
               PROVE  /\ v # attempt'
                      /\ before'[p] = Whole(v) =>
                           /\ pc' \in {"cleanup", "idle"}
                           /\ \A q \in Managed :
                                disk'["root"][q] = Whole(attempt')
    BY DEF Promised
  <1>1. /\ TypeOK /\ Control /\ BInv /\ p \in Part /\ held \in Handles
        /\ Gone(p) /\ Promised(p) /\ OldIsEarlier(p)
    BY HandleType DEF SInv, BInv, XInv, Part
  <1>2. CASE Losing /\ walk = p /\ v = held.ver
    <2>1. /\ held.at = "old" /\ pc = "cleanup" /\ status = "ok"
          /\ ReturnStep /\ disk["old"][p] = Whole(v)
      BY <1>2, LosingIsCleaning DEF Losing
    <2>2. v # attempt
      BY <1>1, <2>1 DEF OldIsEarlier, Stocked, Whole
    <2>3. /\ attempt' = attempt /\ disk'["root"] = disk["root"]
          /\ pc' \in {"cleanup", "idle"}
      BY <1>1, <2>1, ReturnVersions
    <2>4. \A q \in Managed : disk["root"][q] = Whole(attempt)
      BY <2>1
         DEF SInv, OInv, NewOf, NewInPlace, FromArchive, Part, Managed
    <2> QED BY <2>2, <2>3, <2>4
  <1>3. CASE v \in LostOf(p) /\ Begin
    <2>1. attempt' = attempt + 1 /\ before' = disk'["root"]
      BY <1>1, <1>3 DEF Begin, Open, TypeOK, Place
    <2>2. v <= attempt /\ v \in Nat
      BY <1>1, <1>3 DEF Gone, LostOf, BInv, XInv, ExportTypeOK, Handles
    <2>3. disk'["root"][p] # Whole(v)
      <3>1. v \in LostOf(p)'
        OBVIOUS
      <3>2. Gone(p)'
        BY GoneKept
      <3> QED BY <3>1, <3>2 DEF Gone, Place
    <2> QED BY <1>1, <2>1, <2>2, <2>3, AttemptGrows
  <1>4. CASE v \in LostOf(p) /\ ~Begin
    <2>1. ~RefuseRoot
      BY DEF RefuseRoot
    <2>2. attempt' = attempt /\ before' = before
      BY <1>1, <1>4, <2>1, AttemptGrows
    <2>3. status # "error"
      BY <1>1, <1>4, <2>1, RootSteps, PlanFootprint, ReturnVersions
         DEF Proceed, GiveUp, Extract, Check, CreateManager
    <2>4. /\ v # attempt
          /\ before[p] = Whole(v) =>
               /\ pc \in {"cleanup", "idle"}
               /\ \A q \in Managed : disk["root"][q] = Whole(attempt)
      BY <1>1, <1>4, <2>3 DEF Promised
    <2>5. ASSUME before[p] = Whole(v)
          PROVE  /\ pc' \in {"cleanup", "idle"}
                 /\ disk'["root"] = disk["root"]
      <3>1. ~(PlanStep \/ Extract \/ Check)
        BY <1>1, <2>4, <2>5, PlanFootprint, StepsAre DEF Extract, Check
      <3>2. ~CreateManager
        BY <1>1, <2>4, <2>5, CreateManagerDoes
           DEF Managed, Whole, Absent
      <3>3. ReturnStep
        BY <1>4, <2>1, <3>1, <3>2, RootSteps
      <3> QED BY <1>1, <3>3, ReturnVersions
    <2> QED BY <2>2, <2>4, <2>5
  <1> QED BY <1>2, <1>3, <1>4, LostGrows

(* The export opens what is there, and forgets what it has left.           *)
LEMMA WalkKeepsHandle ==
  ASSUME SInv, ExportStep, UNCHANGED vars
  PROVE  HandleInv' /\ \A p \in Managed : LostOf(p)' \subseteq LostOf(p)
  <1>1. /\ HandleInv /\ held \in Handles /\ TypeOK
        /\ Closed.at = "closed" /\ disk' = disk
        /\ Managed = {"data", "extensions"}
    BY HandleType DEF SInv, BInv, XInv, Closed, vars, Managed
  <1>2. CASE held' = Closed /\ walk' \notin Managed
    BY <1>1, <1>2 DEF HandleInv, LostOf
  <1>3. CASE \E how : Finish(how)
    BY <1>1, <1>2, <1>3 DEF Finish
  <1>4. CASE UNCHANGED held /\ walk \notin Managed /\ walk' \notin Managed
    BY <1>1, <1>4 DEF HandleInv, LostOf
  <1>5. CASE OpenFile \/ MakeTemp \/ CloseArchive
    BY <1>1, <1>3, <1>4, <1>5 DEF OpenFile, MakeTemp, CloseArchive
  <1>6. CASE CopyOut \/ CopyOutEnds \/ Flush \/ KillExport \/ Abandon
    BY <1>1, <1>2, <1>3, <1>4, <1>6
       DEF CopyOut, CopyOutEnds, Flush, KillExport, Abandon
  <1>7. CASE CloseDirectory
    BY <1>1, <1>7 DEF CloseDirectory, HandleInv, LostOf
  <1>8. ASSUME NEW p \in Part, Visit(p)
        PROVE  HandleInv' /\ \A q \in Managed : LostOf(q)' \subseteq LostOf(q)
    <2>1. walk = p /\ held = Closed /\ UNCHANGED <<walk, short>>
      BY <1>8 DEF Visit
    <2>2. CASE held' = held
      BY <1>1, <2>1, <2>2 DEF HandleInv, LostOf
    <2>3. CASE held' # held
      <3>1. /\ p \in Managed /\ disk["root"][p].state = "whole"
            /\ held' = [at |-> "root", ver |-> disk["root"][p].ver]
        BY <1>8, <2>3, SourceType DEF Visit
      <3>2. disk["root"][p] = Whole(disk["root"][p].ver)
        BY <1>1, <1>8, <3>1, WholeContent DEF TypeOK, Place
      <3> QED BY <1>1, <2>1, <3>1, <3>2 DEF HandleInv, LostOf
    <2> QED BY <2>2, <2>3
  <1>9. ASSUME NEW p \in Part, Leave(p)
        PROVE  HandleInv' /\ \A q \in Managed : LostOf(q)' \subseteq LostOf(q)
    <2>1. held' = Closed /\ short' = {}
      BY <1>9 DEF Leave
    <2> QED BY <1>1, <2>1 DEF HandleInv, LostOf
  <1> QED
    BY <1>5, <1>6, <1>7, <1>8, <1>9 DEF ExportStep

LEMMA ShortNext == SInv /\ [ExportNext]_<<vars, exportVars>> => SInv'
  <1> SUFFICES ASSUME SInv, [ExportNext]_<<vars, exportVars>> PROVE SInv'
    OBVIOUS
  <1>1. BInv' /\ OInv'
    BY SeenNext, ReplacedNext DEF SInv
  <1>2. CASE (Next \/ CreateManager) /\ Follow /\ UNCHANGED exportOwn
    <2>1. status' = "none" => pc' = "idle"
      <3>1. CASE PlanStep
        BY <3>1, PlanFootprint, StepsAre
           DEF SInv, BInv, XInv, Proceed, GiveUp
      <3>2. CASE ReturnStep
        BY <3>2, ReturnVersions DEF SInv, BInv, XInv
      <3>3. CASE Extract \/ Check \/ Begin \/ RefuseRoot \/ CreateManager
        BY <3>3
           DEF SInv, Extract, Check, Begin, RefuseRoot, CreateManager
      <3> QED BY <1>2, <3>1, <3>2, <3>3, RootSteps
    <2> QED
      BY <1>1, <1>2, <2>1, HandleKept, ApartKept, EarlierKept, GoneKept,
         PromiseKept DEF SInv
  <1>3. CASE UNCHANGED vars /\ (ExportStep \/ UNCHANGED exportVars)
    <2>1. HandleInv' /\ \A p \in Managed : LostOf(p)' \subseteq LostOf(p)
      <3>1. CASE UNCHANGED exportVars
        BY <1>3, <3>1 DEF SInv, HandleInv, LostOf, vars, exportVars
      <3> QED BY <1>3, <3>1, WalkKeepsHandle
    <2>2. ASSUME NEW p \in Managed \ CrossDevice
          PROVE  (Apart(p) /\ OldIsEarlier(p) /\ Gone(p) /\ Promised(p))'
      <3>1. Apart(p) /\ OldIsEarlier(p) /\ Gone(p) /\ Promised(p)
        BY DEF SInv
      <3>2. (Apart(p) /\ OldIsEarlier(p))'
        BY <1>3, <3>1 DEF Apart, OldIsEarlier, vars
      <3>3. Gone(p)' /\ Promised(p)'
        BY <1>3, <2>1, <3>1 DEF Gone, Promised, vars
      <3> QED BY <3>2, <3>3
    <2> QED BY <1>1, <1>3, <2>1, <2>2 DEF SInv, vars
  <1> QED BY <1>2, <1>3, ExportCases

LEMMA ShortInit == ExportInit => SInv
  <1> SUFFICES ASSUME ExportInit PROVE SInv
    OBVIOUS
  <1>1. BInv /\ OInv
    BY SeenInit, InitReplaced DEF ExportInit
  <1>2. /\ pc = "idle" /\ walk = "idle" /\ held = Closed
        /\ disk["stage"] = NoTree /\ disk["old"] = NoTree
    BY DEF ExportInit, Init
  <1>3. HandleInv /\ \A p \in Managed : LostOf(p) = {}
    BY <1>2 DEF HandleInv, Closed, LostOf, Managed
  <1>4. \A p \in Managed : Apart(p) /\ OldIsEarlier(p)
    BY <1>2, NothingThere, AbsentIsOut
       DEF Apart, OldIsEarlier, Place, Part
  <1> QED BY <1>1, <1>2, <1>3, <1>4 DEF SInv, Gone, Promised

(* Files that are missing from an archive without an error are, as long as *)
(* no restore has failed, of a version that is neither the one being       *)
(* restored nor, before both new parts are in place, the one that was      *)
(* found: for any number of restores, exports and failing operations, with *)
(* kills and with directories that locate() creates in between.            *)
THEOREM ShortIsReplaced == ExportSpec => []ShortMeansReplaced
  <1>1. SInv => ShortMeansReplaced
    <2> SUFFICES ASSUME SInv, NEW p \in Managed \ CrossDevice,
                        NEW v \in short, walk = p, status # "error"
                 PROVE  /\ v # attempt
                        /\ before[p] = Whole(v) =>
                             \A q \in Managed :
                               disk["root"][q] = Whole(attempt)
      BY DEF ShortMeansReplaced
    <2>1. v \in LostOf(p) /\ Promised(p)
      BY DEF SInv, LostOf
    <2> QED BY <2>1 DEF Promised
  <1> QED BY <1>1, ShortInit, ShortNext, PTL DEF ExportSpec

=============================================================================
