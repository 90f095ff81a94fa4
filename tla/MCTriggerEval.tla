---------------------------- MODULE MCTriggerEval ----------------------------
(* Instances of TriggerEval for TLC. *)
EXTENDS TriggerEval

MCFields == {"f"}
MCInput == [fn \in Functions |-> "event"]
MCOutput == [fn \in Functions |-> "x"]
MCEventVar == [k \in 1 .. Triggers |-> "event"]

(* A message with an object in it: {"f": {"f": "..."}}. *)
MCReceived == <<[f \in MCFields |-> Val("map", 2)], [f \in MCFields |-> Val("string", 0)]>>
=============================================================================
