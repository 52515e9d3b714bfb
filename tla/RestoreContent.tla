--------------------------- MODULE RestoreContent ---------------------------
(***************************************************************************)
(* What can be found at a path that a restore handles.  The files          *)
(* themselves are abstracted to the archive they came from and to whether  *)
(* they are all there: that is what a failed, rolled back or interrupted   *)
(* restore can change.                                                     *)
(***************************************************************************)
EXTENDS Naturals

(* The three things an archive replaces: <root>/data,                      *)
(* <root>/public/scripts/extensions/third-party and the git manifest       *)
(* <root>/.stmanager/extensions_git_manifest.json.  Only the first two are *)
(* user content that the rollback of the restore is about.                 *)
Managed == {"data", "extensions"}
Part    == Managed \cup {"manifest"}

(* "ver" is the restore whose archive the files came from, 0 for what was  *)
(* there before the first one.  "part" is a copy or a deletion that        *)
(* stopped half-way, "empty" the directory that locate() creates, "dir" a  *)
(* directory where the manifest file should be.                            *)
Absent   == [ver |-> 0, state |-> "absent"]
Empty    == [ver |-> 0, state |-> "empty"]
Whole(v) == [ver |-> v, state |-> "whole"]
Torn(v)  == [ver |-> v, state |-> "part"]

Content ==
  {Absent, Empty} \cup [ver : Nat, state : {"part", "whole", "dir"}]

Present(c) == c.state # "absent"

(* A tree in the middle of being copied or removed: what is complete is    *)
(* complete no longer, an empty directory has nothing to lose.             *)
Halfway(c) == IF c.state = "whole" THEN Torn(c.ver) ELSE c

(* locate_silly_tavern_paths (locate.cpp) creates third-party when it is   *)
(* missing, before it looks at data.                                       *)
Located(tree) ==
  [tree EXCEPT !["extensions"] = IF Present(@) THEN @ ELSE Empty]

=============================================================================
