----------------------------- MODULE MCStartup -----------------------------
(* Instances of Startup for TLC. *)
EXTENDS Startup

(* The texts: a file of triggers and functions, others that continue it,    *)
(* declare its function again, or have an entry that is refused or passed   *)
(* over; event definitions with names that occur twice; and the mixture     *)
(* that remains when "again", which is shorter than the others, is written  *)
(* over one of them.                                                        *)
Unstated(triggerList, functionList) ==
  [dryrun |-> "unstated", triggers |-> triggerList, functions |-> functionList,
   providers |-> <<>>, destinations |-> <<>>]
Defined(providerList, destinationList) ==
  [Unstated(<<>>, <<>>) EXCEPT !.providers = providerList,
                               !.destinations = destinationList]
T(s, b) == [source |-> s, body |-> b, ok |-> TRUE]
F(f) == [name |-> f, ok |-> TRUE]
P(n, t) == [name |-> n, type |-> t, timeout |-> 1000]
D(n, p) == [name |-> n, provider |-> p]

MCDoc == [t \in Texts \ NoYaml |->
  CASE t = "first" ->
         [Unstated(<<T("github", 1), T("build", 2), T("github", 3)>>, <<F("f")>>)
            EXCEPT !.dryrun = "false"]
    [] t = "second" ->
         [Unstated(<<T("github", 2), T("github", 1)>>, <<F("g")>>)
            EXCEPT !.dryrun = "true"]
    [] t = "again" -> Unstated(<<>>, <<F("f"), F(None)>>)
    [] t = "odd" ->
         Unstated(<<T(None, 1), T("build", 3)>>, <<[name |-> None, ok |-> FALSE]>>)
    [] t = "refused" -> Unstated(<<[T("github", 1) EXCEPT !.ok = FALSE]>>, <<>>)
    [] t = "mixture" -> Unstated(<<T("github", 2)>>, <<>>)
    [] t = "defs" ->
         Defined(<<P("n", "rest"), P("r", "rest"), P("n", "nats")>>,
                 <<D("github", "n"), D("build", "n"), D("github", "r")>>)
    [] t = "restdefs" ->
         Defined(<<P("n", "nats"), P("r", "rest")>>,
                 <<D("github", "r"), D("build", "n"), D("github", "n")>>)
    [] t = "lastrest" ->
         Defined(<<P("n", "nats"), P("n", "rest")>>,
                 <<D("github", "n"), D("build", "n")>>)
    [] t = "partly" -> Defined(<<P("n", "nats")>>, <<D("github", "n")>>)
    [] t = "unknown" -> Defined(<<P("n", "other")>>, <<>>)]

MCOver == [old \in Texts |-> [new \in Texts |->
  IF old # "again" /\ new = "again" THEN "mixture" ELSE new]]

File(p, t) == [kind |-> "file", path |-> p, text |-> t]
Dir(p) == [kind |-> "dir", path |-> p, text |-> "odd"]
Bad == [kind |-> "bad", path |-> "b.yaml", text |-> "odd"]
Definitions == File("eventDefinitions.yaml", "defs")
MCEntries == [a \in Archives |->
  CASE a = "good" -> <<Dir("sub"), File("a.yaml", "first"), Definitions,
                       File("c.yml", "second"), File("sub/a.yaml", "again")>>
    [] a = "new" -> <<File("a.yaml", "second"), Definitions>>
    [] a = "twice" -> <<File("a.yaml", "first"), Definitions, File("a.yaml", "again")>>
    [] a = "longer" -> <<File("a.yaml", "again"), Definitions, File("a.yaml", "first")>>
    [] a = "early" -> <<File("sub/a.yaml", "odd"), Dir("sub"), Definitions>>
    [] a = "cut" -> <<Definitions, Bad, File("a.yaml", "first")>>
    [] OTHER -> <<>>]

MCAbove == [p \in Paths |-> IF p = "sub/a.yaml" THEN {"sub"} ELSE {}]

Given(u, a) == [url |-> u, sha |-> a]
MCSpecLists == {
  <<>>,
  <<Given("", "new"), Given(Remote, "good"), Given(Remote, "new")>>,
  <<Given(Remote, "new")>>, <<Given(Remote, "twice")>>, <<Given(Remote, "longer")>>,
  <<Given(Remote, "early")>>, <<Given(Remote, "cut")>>,
  <<Given("file", "good"), Given(Remote, "good")>>, <<Given("malformed", "good")>>}

MCDirectories ==
  {[p \in Paths |-> CASE p = "a.yaml" -> x [] p = "b.yaml" -> y [] p = "c.yml" -> z
                      [] p = "eventDefinitions.yaml" -> d [] OTHER -> Absent] :
     x \in {Absent, "first", "odd", "refused"},
     y \in {Absent, Directory, "second"},
     z \in {Absent, "again", "second", "garbage"},
     d \in {Absent, "defs", "restdefs", "lastrest", "partly", "unknown", "garbage"}}

MCYaml == <<"a.yaml", "b.yaml", "eventDefinitions.yaml">>
MCYml == <<"c.yml">>
=============================================================================
