\* All short strings; secrets and branches that change during a download.
SPECIFICATION Spec
CONSTANTS
  MaxName = 5
  MaxLabel = 4
  MaxInput = 6
  Inputs <- MCInputs
  Messages <- MCMessages
  Commits = {"old", "new", "broken", "empty", "dir", "gone"}
  FileAt <- MCFileAt
  Annotations = {"k", "l", "t", "u"}
  Preferred = {"k", "l"}
  SecretLists <- MCSecretLists
  MaxChanges = 2
INVARIANTS DownloadIInv DomainIsLegal LabelIsLegal KeepsTheLegal SecretIsPreferred ContentOfTheCommit
CHECK_DEADLOCK FALSE
