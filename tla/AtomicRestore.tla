---------------------------- MODULE AtomicRestore ----------------------------
(***************************************************************************)
(* What a caller of DataManager::restore may rely on: the managed parts    *)
(* are replaced together by the archive of this very call, or stay what    *)
(* they were.  The exceptions the code admits are outcomes of their own: a *)
(* rollback that failed is reported as such, and a crash reports nothing.  *)
(***************************************************************************)
EXTENDS RestoreContent

VARIABLES
  store,     \* what is under the root: a Content for each part
  outcome,   \* what the last call returned, "running" during a call
  calls      \* the number of calls so far; archive number n is call n's

vars == <<store, outcome, calls>>

Outcome == {"none", "running", "ok", "error", "rollback_failed", "crashed"}

Init ==
  /\ store \in [Part -> Content]
  /\ outcome = "none"
  /\ calls = 0

(* A call opens the root.  Opening may create the extensions directory.    *)
Start ==
  /\ outcome # "running"
  /\ outcome' = "running"
  /\ store' \in {store, Located(store)}
  /\ calls' = calls + 1

(* A call that is turned down before it touches a managed part.            *)
Refuse ==
  /\ outcome # "running"
  /\ outcome' = "error"
  /\ store' \in {store, Located(store)}
  /\ calls' \in {calls, calls + 1}

(* Both managed parts come from the archive of this call, and so does the  *)
(* manifest, which an archive need not have.  "error" is possible: removal *)
(* of the staging directory may fail after everything was installed.       *)
Replace ==
  /\ outcome = "running"
  /\ outcome' \in {"ok", "error"}
  /\ store' \in [Part -> Content]
  /\ \A p \in Managed : store'[p] = Whole(calls)
  /\ store'["manifest"] \in {Whole(calls), Absent}
  /\ UNCHANGED calls

(* Nothing was replaced.  The manifest is not covered by the rollback: a   *)
(* restore that fails after dropping the old one leaves none.              *)
Abort ==
  /\ outcome = "running"
  /\ outcome' = "error"
  /\ store' \in {store, [store EXCEPT !["manifest"] = Absent]}
  /\ UNCHANGED calls

(* The caller learns that the rollback failed, or learns nothing at all.   *)
Break ==
  /\ outcome = "running"
  /\ outcome' \in {"rollback_failed", "crashed"}
  /\ store' \in [Part -> Content]
  /\ UNCHANGED calls

Next == Start \/ Refuse \/ Replace \/ Abort \/ Break

Spec == Init /\ [][Next]_vars

=============================================================================
