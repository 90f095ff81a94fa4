-------------------------- MODULE MCApplyResources --------------------------
(* Instances of ApplyResources for TLC. *)
EXTENDS ApplyResources

(* Two directories that share a resource, one with a template that needs a  *)
(* variable not all triggers pass, one outside, one with nothing in it.     *)
MCGlob == [d \in Dirs |->
  [x \in Suffixes |->
     CASE d = "push" /\ x = "yaml" -> <<"task", "run">>
       [] d = "push" /\ x = "yml" -> <<"odd">>
       [] d = "pull" /\ x = "yaml" -> <<"run">>
       [] d = "pull" /\ x = "yml" -> <<"task">>
       [] d = ".." /\ x = "yaml" -> <<"task">>
       [] OTHER -> <<>>]]

MCBecome == [t \in Templates |->
  [v \in Variables |->
     CASE t = "odd" -> IF v = "build" THEN "extra" ELSE Invalid
       [] t = "run" -> IF v = "none" THEN Broken ELSE "run"
       [] OTHER -> "task"]]
=============================================================================
