\* Two listeners, directories that share resources, any resources left over.
SPECIFICATION Spec
CONSTANTS
  Callers = {"github", "build"}
  Dirs = {"push", "pull", "..", "empty"}
  Inside = {"push", "pull", "empty"}
  Templates = {"task", "run", "odd"}
  Glob <- MCGlob
  Variables = {"build", "part", "none"}
  Resources = {"task", "run", "extra"}
  Become <- MCBecome
  MaxCalls = 3
INVARIANTS IInv AllSubstituteFirst AppliesInOrder OkMeansApplied OneCreator
