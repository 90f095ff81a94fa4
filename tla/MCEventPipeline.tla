-------------------------- MODULE MCEventPipeline --------------------------
(* Instances of EventPipeline for TLC. *)
EXTENDS EventPipeline

(* Two sources sharing a topic and a connection, a REST destination, an unknown name. *)
MCNames == {"github", "build", "mail", "ghost"}
MCDefined == {"github", "build", "mail"}
MCProviderOf == [n \in MCDefined |-> IF n = "mail" THEN "rest" ELSE "nats"]
MCTopic == [n \in MCDefined |-> IF n = "mail" THEN "mail" ELSE "events"]
MCKind == [p \in {"nats", "rest"} |-> p]
MCUrl == [p \in {"nats", "rest"} |-> p]
MCSources == {"github", "build"}
MCNumTriggers == [s \in MCSources |-> IF s = "github" THEN 2 ELSE 1]

(* One source. *)
OneSource == {"github"}
OneNumTriggers == [s \in OneSource |-> 1]
=============================================================================
