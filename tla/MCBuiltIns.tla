----------------------------- MODULE MCBuiltIns -----------------------------
(* Instances of BuiltIns for TLC. *)
EXTENDS BuiltIns

CONSTANT MaxInput   \* bound: the length of the strings

MCInputs == UNION {[1 .. n -> Chars \ {"0"}] : n \in 0 .. MaxInput}

M(k, c) == [kind |-> k, commit |-> c, refused |-> FALSE, header |-> TRUE]
MCMessages ==
  {M(k, c) : k \in Kinds, c \in {"old", "new"}}
    \cup {[M("push", "old") EXCEPT !.refused = TRUE],
          [M("push", "old") EXCEPT !.header = FALSE]}

MCFileAt == [c \in Commits |->
  CASE c = "old" -> "yaml" [] c = "new" -> "yaml" [] c = "broken" -> "notyaml"
    [] c = "empty" -> "unreadable" [] c = "dir" -> "nofile" [] c = "gone" -> "missing"]

S(annotations) == [annotations |-> annotations, complete |-> TRUE]
MCSecretLists ==
  {<<>>, <<[S({"t"}) EXCEPT !.complete = FALSE]>>,
   <<S({"t"}), S({}), S({"t", "u"})>>,
   <<S({"t", "k"}), S({"t", "l"})>>,
   <<S({}), S({"u"}), S({"l"}), S({"k"})>>}
=============================================================================
