\* A REST provider with a timeout of ten seconds (1000 hundredths).
SPECIFICATION Spec
CONSTANTS
  Archives = {"good", "new", "twice", "longer", "early", "cut", "page"}
  Entries <- MCEntries
  Pages = {"page"}
  Paths = {"a.yaml", "b.yaml", "c.yml", "eventDefinitions.yaml", "sub", "sub/a.yaml"}
  Above <- MCAbove
  Texts = {"first", "second", "again", "odd", "refused", "mixture", "garbage",
           "defs", "restdefs", "lastrest", "partly", "unknown"}
  Over <- MCOver
  SpecLists <- MCSpecLists
  Directories <- MCDirectories
  MaxChanges = 0
  Yaml <- MCYaml
  Yml <- MCYml
  NoYaml = {"garbage"}
  Doc <- MCDoc
  Sources = {"github", "build"}
  Functions = {"f", "g"}
  Triggers = {1, 2, 3}
  DefinitionFile = "eventDefinitions.yaml"
  NoDefinitions = {"garbage"}
  Providers = {"n", "r"}
  Destinations = {"github", "build"}
  Timeouts = {1000}
  Second = 100
  Width = 16
INVARIANT WaitsAsConfigured
CHECK_DEADLOCK FALSE
