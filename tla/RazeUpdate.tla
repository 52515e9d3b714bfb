----------------------------- MODULE RazeUpdate -----------------------------
(***************************************************************************)
(* update_sillytavern_command (cli/main.cpp) with the helpers of           *)
(* raze_update.cpp: fetch the latest release, compare its manifest with    *)
(* <root>/version.json, download, verify and extract the packages that     *)
(* differ, and write the new version.json last.  The command may fail or   *)
(* be killed at any point and is run again; releases appear meanwhile.     *)
(*                                                                         *)
(* A package is abstracted to the build its hash stands for.               *)
(***************************************************************************)
EXTENDS Naturals

CONSTANTS
  Packages,
  Releases,    \* the releases are numbered 1..Releases
  Manifest,    \* Manifest[r][p]: the build of p in release r, 0 if it has none
  Assets,      \* Assets[r]: the packages whose files release r offers
  MaxFaults,   \* bound: failed operations, wrong downloads, kills
  Lossy        \* whether data of an extracted file is lost on closing it

ASSUME RazeAssumption ==
  /\ Releases \in Nat \ {0}
  /\ Manifest \in [1..Releases -> [Packages -> Nat]]
  /\ Assets \in [1..Releases -> SUBSET Packages]
  /\ MaxFaults \in Nat
  /\ Lossy \in BOOLEAN

VARIABLES
  current,   \* the newest release that is not a draft
  root,      \* root[p]: the build whose files were extracted last, if any,
             \* and whether all of them were
  vjson,     \* <root>/version.json: missing, truncated, or that of a release
  pc,        \* "idle" between two runs of the command
  remote,    \* the release this run installs
  todo,      \* the package updates not done yet, those to skip left out
  pkg,       \* the package under way
  fetched,   \* the build in the file that was downloaded for it
  outcome,   \* what the last run ended with
  faults

vars == <<current, root, vjson, pc, remote, todo, pkg, fetched, outcome,
          faults>>

None     == [build |-> 0, state |-> "none"]
Whole(b) == [build |-> b, state |-> "whole"]
Torn(b)  == [build |-> b, state |-> "part"]

Missing  == [state |-> "missing", rel |-> 0]
Garbled  == [state |-> "garbled", rel |-> 0]
Of(r)    == [state |-> "whole", rel |-> r]

Fault == faults < MaxFaults /\ faults' = faults + 1

End(how) == pc' = "idle" /\ outcome' = how

-----------------------------------------------------------------------------
(* Finding out what to do.                                                 *)

Fetch ==
  /\ pc = "idle"
  /\ remote' = current
  /\ pc' = "plan"
  /\ UNCHANGED <<current, root, vjson, todo, pkg, fetched, outcome, faults>>

FetchFails ==
  /\ pc = "idle"
  /\ Fault
  /\ End("error")
  /\ UNCHANGED <<current, root, vjson, remote, todo, pkg, fetched>>

Lists(r, p) == Manifest[r][p] # 0

(* needs_download, decided by version.json alone: what is under the root   *)
(* is not looked at.                                                       *)
Needs(r, p) ==
  /\ Lists(r, p)
  /\ vjson.state = "whole" => Manifest[vjson.rel][p] # Manifest[r][p]

(* Mutant: a package that is skipped must have an asset too.               *)
Available_All(r) == \A p \in Packages : Lists(r, p) => p \in Assets[r]

Available(r) == \A p \in Packages : Needs(r, p) => p \in Assets[r]

Plan ==
  /\ pc = "plan"
  /\ IF vjson.state = "garbled" \/ ~Available(remote)
       THEN End("error") /\ UNCHANGED todo
       ELSE /\ todo' = {p \in Packages : Needs(remote, p)}
            /\ pc' = "next"
            /\ UNCHANGED outcome
  /\ UNCHANGED <<current, root, vjson, remote, pkg, fetched, faults>>

-----------------------------------------------------------------------------
(* One package after the other.                                            *)

(* An asset may have been replaced since the manifest was written: 0 is a  *)
(* build that no release names.                                            *)
Download(p) ==
  /\ pc = "next" /\ p \in todo
  /\ pkg' = p
  /\ \/ fetched' = Manifest[remote][p] /\ UNCHANGED faults
     \/ fetched' = 0 /\ Fault
  /\ pc' = "verify"
  /\ UNCHANGED <<current, root, vjson, remote, todo, outcome>>

DownloadFails ==
  /\ pc = "next" /\ todo # {}
  /\ Fault
  /\ End("error")
  /\ UNCHANGED <<current, root, vjson, remote, todo, pkg, fetched>>

(* Mutant: the file is known to be there, and is not hashed.               *)
Verify_Exists ==
  /\ pc = "verify"
  /\ pc' = "extract"
  /\ UNCHANGED <<current, root, vjson, remote, todo, pkg, fetched, faults,
                 outcome>>

Verify ==
  /\ pc = "verify"
  /\ IF fetched = Manifest[remote][pkg]
       THEN pc' = "extract" /\ UNCHANGED outcome
       ELSE End("error")
  /\ UNCHANGED <<current, root, vjson, remote, todo, pkg, fetched, faults>>

(* Files are overwritten in place, one by one.                             *)
ExtractBegins ==
  /\ pc = "extract"
  /\ root' = [root EXCEPT ![pkg] = Torn(fetched)]
  /\ pc' = "extracting"
  /\ UNCHANGED <<current, vjson, remote, todo, pkg, fetched, outcome, faults>>

(* extract_regular_file does not look at the stream after closing it.      *)
ExtractEnds ==
  /\ pc = "extracting"
  /\ \/ root' = [root EXCEPT ![pkg] = Whole(fetched)] /\ UNCHANGED faults
     \/ Lossy /\ Fault /\ UNCHANGED root
  /\ todo' = todo \ {pkg}
  /\ pc' = "next"
  /\ UNCHANGED <<current, vjson, remote, pkg, fetched, outcome>>

(* Mutant: the status is not looked at.                                    *)
ExtractFails_Ignored ==
  /\ pc = "extracting"
  /\ Fault
  /\ todo' = todo \ {pkg}
  /\ pc' = "next"
  /\ UNCHANGED <<current, root, vjson, remote, pkg, fetched, outcome>>

ExtractFails ==
  /\ pc = "extracting"
  /\ Fault
  /\ End("error")
  /\ UNCHANGED <<current, root, vjson, remote, todo, pkg, fetched>>

-----------------------------------------------------------------------------
(* Writing version.json: truncated, then written; even if nothing changed. *)

(* Mutant: it is written before the packages are extracted.                *)
WriteBegins_Early ==
  /\ pc = "next"
  /\ vjson' = Garbled
  /\ pc' = "write"
  /\ UNCHANGED <<current, root, remote, todo, pkg, fetched, outcome, faults>>

WriteBegins ==
  /\ pc = "next" /\ todo = {}
  /\ vjson' = Garbled
  /\ pc' = "write"
  /\ UNCHANGED <<current, root, remote, todo, pkg, fetched, outcome, faults>>

OpenFails ==
  /\ pc = "next" /\ todo = {}
  /\ Fault
  /\ End("error")
  /\ UNCHANGED <<current, root, vjson, remote, todo, pkg, fetched>>

(* Mutant: what is written is not the manifest that was fetched.           *)
WriteEnds_Previous ==
  /\ pc = "write"
  /\ vjson' = Of(remote - 1)
  /\ End("ok")
  /\ UNCHANGED <<current, root, remote, todo, pkg, fetched, faults>>

WriteEnds ==
  /\ pc = "write"
  /\ vjson' = Of(remote)
  /\ End("ok")
  /\ UNCHANGED <<current, root, remote, todo, pkg, fetched, faults>>

WriteFails ==
  /\ pc = "write"
  /\ Fault
  /\ End("error")
  /\ UNCHANGED <<current, root, vjson, remote, todo, pkg, fetched>>

-----------------------------------------------------------------------------

Kill ==
  /\ pc # "idle"
  /\ Fault
  /\ End("killed")
  /\ UNCHANGED <<current, root, vjson, remote, todo, pkg, fetched>>

Publish ==
  /\ current < Releases
  /\ current' = current + 1
  /\ UNCHANGED <<root, vjson, pc, remote, todo, pkg, fetched, outcome, faults>>

(* A new root, or one with the first release installed.                    *)
Init ==
  /\ current = 1
  /\ \/ /\ root = [p \in Packages |-> None]
        /\ vjson = Missing
     \/ /\ root = [p \in Packages |->
                     IF Lists(1, p) THEN Whole(Manifest[1][p]) ELSE None]
        /\ vjson = Of(1)
  /\ pc = "idle"
  /\ remote = 1
  /\ todo = {}
  /\ pkg \in Packages
  /\ fetched = 0
  /\ outcome = "none"
  /\ faults = 0

Step ==
  \/ Fetch \/ FetchFails \/ Plan
  \/ \E p \in Packages : Download(p)
  \/ DownloadFails \/ Verify
  \/ ExtractBegins \/ ExtractEnds \/ ExtractFails
  \/ WriteBegins \/ OpenFails \/ WriteEnds \/ WriteFails

Next == Step \/ Kill \/ Publish

Spec == Init /\ [][Next]_vars

(* The user runs the command again after a failure.                        *)
FairSpec == Spec /\ WF_vars(Step)

-----------------------------------------------------------------------------
(* Type invariant.                                                         *)
TypeOK ==
  /\ current \in 1..Releases
  /\ root \in [Packages -> [build : Nat, state : {"none", "part", "whole"}]]
  /\ vjson \in {Missing, Garbled} \cup {Of(r) : r \in 1..Releases}
  /\ pc \in {"idle", "plan", "next", "verify", "extract", "extracting",
             "write"}
  /\ remote \in 1..current
  /\ todo \subseteq Packages
  /\ pkg \in Packages
  /\ fetched \in Nat
  /\ outcome \in {"none", "ok", "error", "killed"}
  /\ faults \in 0..MaxFaults

(* Nothing that failed verification is extracted, not even in part: what   *)
(* lies under the root, whole or half overwritten, is of builds that       *)
(* releases up to now have named.                                          *)
OnlyVerified ==
  \A p \in Packages :
    root[p].state \in {"part", "whole"} =>
      \E r \in 1..current : Lists(r, p) /\ root[p].build = Manifest[r][p]

Installed(r) ==
  \A p \in Packages : Lists(r, p) => root[p] = Whole(Manifest[r][p])

(* A run that reports success has installed its release as a whole, with   *)
(* the packages it skipped, whatever earlier runs left half done.          *)
UpdatedMeansInstalled ==
  pc = "idle" /\ outcome = "ok" => vjson = Of(remote) /\ Installed(remote)

(* version.json keeps naming the old builds when an update stops half way. *)
(* Such a package is not skipped by the next run: the release that is      *)
(* current then has another build of it, or has it no longer.              *)
BrokenIsReplaced ==
  vjson.state = "whole" =>
    \A p \in Packages :
      Lists(vjson.rel, p) /\ root[p] # Whole(Manifest[vjson.rel][p]) =>
        Manifest[current][p] # Manifest[vjson.rel][p]

(* Running the command again is enough to get the current release, unless  *)
(* version.json was lost half-written or the release lacks an asset.       *)
RetriesSucceed ==
  []<>\/ vjson = Of(current) /\ Installed(current)
      \/ pc = "idle" /\ vjson = Garbled /\ faults > 0
      \/ \E p \in Packages : Needs(current, p) /\ p \notin Assets[current]

(* What UpdatedMeansInstalled and BrokenIsReplaced rest on: no release     *)
(* goes back to a build that a later one had replaced.                     *)
NeverReverts ==
  \A p \in Packages : \A q, r, s \in 1..Releases :
    q < r /\ r < s /\ Manifest[q][p] # 0 /\ Manifest[q][p] = Manifest[s][p] =>
      Manifest[r][p] \in {0, Manifest[q][p]}

=============================================================================
