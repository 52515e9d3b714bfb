-------------------------- MODULE RazeUpdateProofs --------------------------
(***************************************************************************)
(* Proofs about RazeUpdate, for any packages, any number of releases and   *)
(* any number of faults.                                                   *)
(***************************************************************************)
EXTENDS RazeUpdate, TLAPS

(* What a run has under way: a package that its release lists, and from    *)
(* the verification on the very build the release names.                   *)
RunInv ==
  /\ pc = "write" => todo = {}
  /\ pc \in {"next", "verify", "extract", "extracting", "write"} =>
       \A p \in todo : Lists(remote, p)
  /\ pc \in {"verify", "extract", "extracting"} => pkg \in todo
  /\ pc \in {"extract", "extracting"} => fetched = Manifest[remote][pkg]
  /\ pc = "extracting" => root[pkg].build = fetched

LEMMA ManifestType ==
  ASSUME NEW r \in 1..Releases, NEW p \in Packages
  PROVE  Manifest[r][p] \in Nat
  BY RazeAssumption

PackageState == [build : Nat, state : {"none", "part", "whole"}]

LEMMA ContentType ==
  /\ None \in PackageState
  /\ \A b \in Nat : /\ Whole(b) \in PackageState
                   /\ Torn(b) \in PackageState
  BY DEF None, Whole, Torn, PackageState

LEMMA InitTyped == Init => TypeOK /\ RunInv
  <1> SUFFICES ASSUME Init PROVE TypeOK /\ RunInv
    OBVIOUS
  <1>1. Releases \in Nat /\ 1 \in 1..Releases
    BY RazeAssumption
  <1>2. root \in [Packages -> PackageState]
    <2>1. \A p \in Packages : Manifest[1][p] \in Nat
      BY <1>1, ManifestType
    <2>2. CASE root = [p \in Packages |-> None]
      BY <2>2, ContentType
    <2>3. CASE root = [p \in Packages |-> IF Lists(1, p)
                         THEN Whole(Manifest[1][p]) ELSE None]
      BY <2>1, <2>3, ContentType
    <2> QED BY <2>2, <2>3 DEF Init
  <1>3. vjson \in {Missing, Garbled} \cup {Of(r) : r \in 1..Releases}
    BY <1>1 DEF Init
  <1>4. TypeOK
    BY <1>1, <1>2, <1>3, RazeAssumption DEF Init, TypeOK, PackageState
  <1>5. RunInv
    BY DEF Init, RunInv
  <1> QED BY <1>4, <1>5

LEMMA NextTyped == TypeOK /\ RunInv /\ [Next]_vars => TypeOK' /\ RunInv'
  <1> SUFFICES ASSUME TypeOK, RunInv, [Next]_vars PROVE TypeOK' /\ RunInv'
    OBVIOUS
  <1> USE RazeAssumption
  <1>1. CASE Fetch
    BY <1>1 DEF Fetch, TypeOK, RunInv
  <1>2. CASE FetchFails
    BY <1>2 DEF FetchFails, Fault, End, TypeOK, RunInv
  <1>3. CASE Plan
    BY <1>3 DEF Plan, End, Needs, TypeOK, RunInv, Lists
  <1>4. ASSUME NEW p \in Packages, Download(p) PROVE TypeOK' /\ RunInv'
    <2>1. Manifest[remote][p] \in Nat
      BY ManifestType DEF TypeOK
    <2>2. faults' \in 0..MaxFaults /\ fetched' \in Nat
      BY <1>4, <2>1 DEF Download, Fault, TypeOK
    <2>3. TypeOK'
      BY <1>4, <2>2 DEF Download, TypeOK
    <2>4. RunInv'
      BY <1>4 DEF Download, RunInv, Lists
    <2> QED BY <2>3, <2>4
  <1>5. CASE DownloadFails
    BY <1>5 DEF DownloadFails, Fault, End, TypeOK, RunInv
  <1>6. CASE Verify
    BY <1>6 DEF Verify, End, TypeOK, RunInv, Lists
  <1>7. CASE ExtractBegins
    BY <1>7 DEF ExtractBegins, Torn, TypeOK, RunInv, Lists
  <1>8. CASE ExtractEnds
    <2>1. faults' \in 0..MaxFaults
      BY <1>8 DEF ExtractEnds, Fault, TypeOK
    <2>2. root' \in [Packages -> PackageState]
      <3>1. fetched \in Nat /\ root \in [Packages -> PackageState]
        BY DEF TypeOK, PackageState
      <3>2. Whole(fetched) \in PackageState
        BY <3>1, ContentType
      <3> QED BY <1>8, <3>1, <3>2 DEF ExtractEnds
    <2>3. TypeOK'
      BY <1>8, <2>1, <2>2 DEF ExtractEnds, TypeOK, PackageState
    <2>4. RunInv'
      BY <1>8 DEF ExtractEnds, RunInv, Lists
    <2> QED BY <2>3, <2>4
  <1>9. CASE ExtractFails
    BY <1>9 DEF ExtractFails, Fault, End, TypeOK, RunInv
  <1>10. CASE WriteBegins
    BY <1>10 DEF WriteBegins, TypeOK, RunInv, Lists
  <1>11. CASE OpenFails
    BY <1>11 DEF OpenFails, Fault, End, TypeOK, RunInv
  <1>12. CASE WriteEnds
    BY <1>12 DEF WriteEnds, End, TypeOK, RunInv
  <1>13. CASE WriteFails
    BY <1>13 DEF WriteFails, Fault, End, TypeOK, RunInv
  <1>14. CASE Kill
    BY <1>14 DEF Kill, Fault, End, TypeOK, RunInv
  <1>15. CASE Publish
    BY <1>15 DEF Publish, TypeOK, RunInv, Lists
  <1>16. CASE UNCHANGED vars
    BY <1>16 DEF vars, TypeOK, RunInv, Lists
  <1> QED
    BY <1>1, <1>2, <1>3, <1>4, <1>5, <1>6, <1>7, <1>8, <1>9, <1>10, <1>11,
       <1>12, <1>13, <1>14, <1>15, <1>16 DEF Next, Step

(* Every reachable state of update_sillytavern_command is well typed.      *)
THEOREM TypeCorrect == Spec => []TypeOK
  BY InitTyped, NextTyped, PTL DEF Spec

-----------------------------------------------------------------------------
(* Verification comes before extraction, whatever is interrupted.          *)

LEMMA NextVerified ==
  TypeOK /\ RunInv /\ OnlyVerified /\ [Next]_vars => OnlyVerified'
  <1> SUFFICES ASSUME TypeOK, RunInv, OnlyVerified, [Next]_vars,
                      NEW p \in Packages
               PROVE  (root[p].state \in {"part", "whole"} =>
                         \E r \in 1..current : /\ Lists(r, p)
                           /\ root[p].build = Manifest[r][p])'
    BY DEF OnlyVerified
  <1> USE RazeAssumption
  <1>1. 1..current \subseteq 1..current'
    BY DEF TypeOK, Next, Step, vars, Fetch, FetchFails, Plan, Download,
           DownloadFails, Verify, ExtractBegins, ExtractEnds, ExtractFails,
           WriteBegins, OpenFails, WriteEnds, WriteFails, Kill, Publish
  <1>2. CASE root'[p] = root[p]
    BY <1>1, <1>2 DEF OnlyVerified, Lists
  <1>3. CASE root'[p] # root[p]
    <2>1. ExtractBegins \/ ExtractEnds
      BY <1>3 DEF Next, Step, vars, Fetch, FetchFails, Plan, Download,
           DownloadFails, Verify, ExtractFails, WriteBegins, OpenFails,
           WriteEnds, WriteFails, Kill, Publish
    <2>2. p = pkg /\ root'[p].build = fetched
      BY <1>3, <2>1 DEF ExtractBegins, ExtractEnds, Torn, Whole, TypeOK
    <2>3. fetched = Manifest[remote][pkg] /\ Lists(remote, pkg)
      BY <2>1 DEF ExtractBegins, ExtractEnds, RunInv
    <2> QED BY <1>1, <2>2, <2>3 DEF TypeOK, Lists
  <1> QED BY <1>2, <1>3

(* What lies under the root was verified against the manifest of a release *)
(* first, in part and as a whole.                                          *)
THEOREM Verified == Spec => []OnlyVerified
  <1>1. Init => OnlyVerified
    <2> SUFFICES ASSUME Init, NEW p \in Packages
                 PROVE  root[p].state \in {"part", "whole"} =>
                          \E r \in 1..current :
                            Lists(r, p) /\ root[p].build = Manifest[r][p]
      BY DEF OnlyVerified
    <2>1. 1 \in 1..current
      BY DEF Init
    <2> QED BY <2>1 DEF Init, Whole, None
  <1> QED BY <1>1, InitTyped, NextTyped, NextVerified, PTL DEF Spec

-----------------------------------------------------------------------------
(* What version.json says, against what is there.                          *)

Running == {"next", "verify", "extract", "extracting", "write"}

(* A package that is not what version.json says was given another build by *)
(* a release that some run has tried to install since.                     *)
TraceInv ==
  vjson.state = "whole" =>
    /\ vjson.rel <= remote
    /\ \A p \in Packages :
         Lists(vjson.rel, p) /\ root[p] # Whole(Manifest[vjson.rel][p]) =>
           \E r \in 1..remote :
             r > vjson.rel /\ Manifest[r][p] \notin {0, Manifest[vjson.rel][p]}

(* Of a run: what it does not have to do, or has done, is in place, and    *)
(* what it still has to do differs from version.json.                      *)
PlanInv ==
  pc \in Running =>
    /\ \A p \in Packages \ todo :
         Lists(remote, p) => root[p] = Whole(Manifest[remote][p])
    /\ \A p \in todo :
         vjson.state = "whole" =>
           Manifest[vjson.rel][p] # Manifest[remote][p]

IInv == TypeOK /\ RunInv /\ TraceInv /\ PlanInv /\ UpdatedMeansInstalled

LEMMA VjsonType ==
  ASSUME TypeOK, vjson.state = "whole"
  PROVE  vjson = Of(vjson.rel) /\ vjson.rel \in 1..Releases
  BY DEF TypeOK, Missing, Garbled, Of

LEMMA InitInstalled == Init => IInv
  <1> SUFFICES ASSUME Init PROVE IInv
    OBVIOUS
  <1>1. TypeOK /\ RunInv
    BY InitTyped
  <1>2. TraceInv
    BY DEF Init, TraceInv, Lists, Missing, Of
  <1>3. PlanInv /\ UpdatedMeansInstalled
    BY DEF Init, PlanInv, Running, UpdatedMeansInstalled
  <1> QED BY <1>1, <1>2, <1>3 DEF IInv

(* The plan is right: what version.json lets it skip is in place.          *)
LEMMA SkippedIsInPlace ==
  ASSUME NeverReverts, TypeOK, TraceInv, NEW p \in Packages,
         Lists(remote, p), ~Needs(remote, p)
  PROVE  root[p] = Whole(Manifest[remote][p])
  <1> DEFINE v == vjson.rel
  <1>1. vjson.state = "whole" /\ Manifest[v][p] = Manifest[remote][p]
    BY DEF Needs
  <1>2. v \in 1..Releases /\ remote \in 1..Releases
    BY <1>1, VjsonType, RazeAssumption DEF TypeOK
  <1>3. SUFFICES ASSUME root[p] # Whole(Manifest[v][p]) PROVE FALSE
    BY <1>1
  <1>4. PICK r \in 1..remote :
           r > v /\ Manifest[r][p] \notin {0, Manifest[v][p]}
    BY <1>1, <1>3 DEF TraceInv, Lists
  <1>5. r # remote
    BY <1>1, <1>4
  <1>6. r \in 1..Releases /\ v < r /\ r < remote
    BY <1>2, <1>4, <1>5, RazeAssumption
  <1> QED BY <1>1, <1>2, <1>4, <1>6 DEF NeverReverts, Lists

(* Extraction touches a package that version.json and this release do not  *)
(* agree on.                                                               *)
LEMMA ExtractKeepsTrace ==
  ASSUME TypeOK, RunInv, TraceInv, PlanInv, pc \in Running, pkg \in todo,
         UNCHANGED <<vjson, remote>>,
         \A p \in Packages \ {pkg} : root'[p] = root[p]
  PROVE  TraceInv'
  <1> SUFFICES ASSUME vjson.state = "whole"
               PROVE  /\ vjson.rel <= remote
                      /\ \A p \in Packages :
                           /\ Lists(vjson.rel, p)
                           /\ root'[p] # Whole(Manifest[vjson.rel][p])
                           => \E r \in 1..remote :
                                /\ r > vjson.rel
                                /\ Manifest[r][p] \notin
                                      {0, Manifest[vjson.rel][p]}
    BY DEF TraceInv, Lists
  <1>1. vjson.rel \in 1..Releases /\ vjson.rel <= remote
    BY VjsonType DEF TraceInv
  <1>2. remote \in 1..remote /\ remote \in Nat
    BY DEF TypeOK
  <1>3. /\ Manifest[remote][pkg] \notin {0, Manifest[vjson.rel][pkg]}
        /\ remote # vjson.rel
    BY DEF PlanInv, RunInv, Running, Lists
  <1>4. remote > vjson.rel
    BY <1>1, <1>2, <1>3
  <1> QED BY <1>1, <1>2, <1>3, <1>4 DEF TraceInv

LEMMA NextInstalled ==
  ASSUME NeverReverts, ~Lossy
  PROVE  IInv /\ [Next]_vars => IInv'
  <1> SUFFICES ASSUME IInv, [Next]_vars PROVE IInv'
    OBVIOUS
  <1> USE DEF IInv
  <1>1. TypeOK' /\ RunInv'
    BY NextTyped
  <1> SUFFICES TraceInv' /\ PlanInv' /\ UpdatedMeansInstalled'
    BY <1>1
  <1>2. CASE Fetch
    <2>1. remote' >= remote /\ remote' \in Nat /\ remote \in Nat
      BY <1>2 DEF Fetch, TypeOK
    <2>2. TraceInv'
      <3> SUFFICES ASSUME vjson.state = "whole"
                   PROVE  TraceInv'
        BY <1>2 DEF Fetch, TraceInv
      <3>1. vjson.rel \in Nat
        BY VjsonType
      <3> QED BY <1>2, <2>1, <3>1 DEF Fetch, TraceInv, Lists
    <2> QED BY <1>2, <2>2 DEF Fetch, PlanInv, Running, UpdatedMeansInstalled
  <1>3. CASE Plan
    <2>1. TraceInv' /\ UpdatedMeansInstalled'
      BY <1>3 DEF Plan, End, TraceInv, UpdatedMeansInstalled, Lists
    <2>2. PlanInv'
      <3>1. CASE pc' = "next"
        <4>1. todo' = {p \in Packages : Needs(remote, p)}
          BY <1>3, <3>1 DEF Plan, End
        <4>2. UNCHANGED <<root, vjson, remote>>
          BY <1>3 DEF Plan
        <4>3. ASSUME NEW p \in Packages \ todo', Lists(remote, p)
              PROVE  root[p] = Whole(Manifest[remote][p])
          BY <4>1, <4>3, SkippedIsInPlace
        <4>4. ASSUME NEW p \in todo', vjson.state = "whole"
              PROVE  Manifest[vjson.rel][p] # Manifest[remote][p]
          BY <4>1, <4>4 DEF Needs
        <4> QED BY <4>2, <4>3, <4>4 DEF PlanInv, Lists
      <3>2. CASE pc' # "next"
        BY <1>3, <3>2 DEF Plan, End, PlanInv, Running
      <3> QED BY <3>1, <3>2
    <2> QED BY <2>1, <2>2
  <1>4. CASE ExtractBegins
    <2>1. pkg \in todo /\ pc \in Running /\ pc' \in Running
      BY <1>4 DEF ExtractBegins, RunInv, Running
    <2>2. \A p \in Packages \ {pkg} : root'[p] = root[p]
      BY <1>4 DEF ExtractBegins, TypeOK
    <2>3. TraceInv'
      BY <1>4, <2>1, <2>2, ExtractKeepsTrace DEF ExtractBegins
    <2>4. PlanInv'
      BY <1>4, <2>1, <2>2 DEF ExtractBegins, PlanInv, Lists
    <2>5. UpdatedMeansInstalled'
      BY <1>4 DEF ExtractBegins, UpdatedMeansInstalled
    <2> QED BY <2>3, <2>4, <2>5
  <1>5. CASE ExtractEnds
    <2>1. pkg \in todo /\ pc \in Running /\ pc' \in Running
      BY <1>5 DEF ExtractEnds, RunInv, Running
    <2>2. /\ root' = [root EXCEPT ![pkg] = Whole(fetched)]
          /\ fetched = Manifest[remote][pkg]
      BY <1>5 DEF ExtractEnds, RunInv
    <2>3. /\ root'[pkg] = Whole(Manifest[remote][pkg])
          /\ \A p \in Packages \ {pkg} : root'[p] = root[p]
      BY <2>2 DEF TypeOK
    <2>4. TraceInv'
      BY <1>5, <2>1, <2>3, ExtractKeepsTrace DEF ExtractEnds
    <2>5. PlanInv'
      BY <1>5, <2>1, <2>3 DEF ExtractEnds, PlanInv, Lists
    <2>6. UpdatedMeansInstalled'
      BY <1>5 DEF ExtractEnds, UpdatedMeansInstalled
    <2> QED BY <2>4, <2>5, <2>6
  <1>6. CASE WriteBegins
    BY <1>6 DEF WriteBegins, Garbled, TraceInv, PlanInv, Running,
                UpdatedMeansInstalled, Lists
  <1>7. CASE WriteEnds
    <2>1. Installed(remote)
      BY <1>7 DEF WriteEnds, RunInv, PlanInv, Running, Installed
    <2>2. vjson' = Of(remote) /\ UNCHANGED <<root, remote>> /\ pc' = "idle"
      BY <1>7 DEF WriteEnds, End
    <2>3. TraceInv'
      BY <2>1, <2>2 DEF TraceInv, Installed, Of, TypeOK, Lists
    <2>4. PlanInv' /\ UpdatedMeansInstalled'
      BY <2>1, <2>2 DEF PlanInv, Running, UpdatedMeansInstalled, Installed,
                        Lists
    <2> QED BY <2>3, <2>4
  <1>8. ASSUME NEW p \in Packages, Download(p)
        PROVE  TraceInv' /\ PlanInv' /\ UpdatedMeansInstalled'
    BY <1>8 DEF Download, TraceInv, PlanInv, Running, UpdatedMeansInstalled,
                Lists
  <1>9. CASE FetchFails \/ DownloadFails \/ ExtractFails \/ OpenFails
               \/ WriteFails \/ Kill
    BY <1>9 DEF FetchFails, DownloadFails, ExtractFails, OpenFails,
                WriteFails, Kill, End, TraceInv, PlanInv, Running,
                UpdatedMeansInstalled, Lists
  <1>10. CASE Verify
    BY <1>10 DEF Verify, End, TraceInv, PlanInv, Running,
                 UpdatedMeansInstalled, Lists
  <1>11. CASE Publish \/ UNCHANGED vars
    BY <1>11 DEF Publish, vars, TraceInv, PlanInv, Running,
                 UpdatedMeansInstalled, Installed, Lists
  <1> QED
    BY <1>2, <1>3, <1>4, <1>5, <1>6, <1>7, <1>8, <1>9, <1>10, <1>11
       DEF Next, Step

(* When no release goes back to an earlier build of a package and no write *)
(* is lost on close, a run that reports success has installed its release, *)
(* with what it skipped and whatever was interrupted before.               *)
THEOREM SuccessMeansInstalled ==
  ASSUME NeverReverts, ~Lossy
  PROVE  Spec => []UpdatedMeansInstalled
  <1>1. IInv => UpdatedMeansInstalled
    BY DEF IInv
  <1> QED BY <1>1, InitInstalled, NextInstalled, PTL DEF Spec

(* Under the same conditions, what an interrupted run left half done is    *)
(* not skipped by the next one.                                            *)
THEOREM BrokenReplaced ==
  ASSUME NeverReverts, ~Lossy
  PROVE  Spec => []BrokenIsReplaced
  <1>1. IInv => BrokenIsReplaced
    <2> SUFFICES ASSUME IInv, vjson.state = "whole", NEW p \in Packages,
                        Lists(vjson.rel, p),
                        root[p] # Whole(Manifest[vjson.rel][p]),
                        Manifest[current][p] = Manifest[vjson.rel][p]
                 PROVE  FALSE
      BY DEF BrokenIsReplaced
    <2>1. /\ vjson.rel \in 1..Releases
          /\ current \in 1..Releases
          /\ remote \in 1..current
      BY VjsonType DEF IInv, TypeOK
    <2>2. PICK r \in 1..remote :
             /\ r > vjson.rel
             /\ Manifest[r][p] \notin {0, Manifest[vjson.rel][p]}
      BY DEF IInv, TraceInv
    <2>3. r \in 1..Releases /\ vjson.rel < r /\ r < current
      BY <2>1, <2>2, RazeAssumption
    <2> QED BY <2>1, <2>2, <2>3 DEF NeverReverts, Lists
  <1> QED BY <1>1, InitInstalled, NextInstalled, PTL DEF Spec

=============================================================================
