\* The same two sources while StartListeners still runs.
SPECIFICATION Spec
CONSTANTS
  Names <- MCNames
  Defined <- MCDefined
  ProviderOf <- MCProviderOf
  Topic <- MCTopic
  Providers = {"nats", "rest"}
  Kind <- MCKind
  Url <- MCUrl
  Sources <- MCSources
  NumTriggers <- MCNumTriggers
  Webhook = "github"
  Requests = {"r1"}
  MaxMsgs = 2
  MaxPending = 1
  MaxBounces = 1
  TimesOut = TRUE
INVARIANT NeverThrows
\* The process ends on a fatal error, a signal or a crash.
CHECK_DEADLOCK FALSE
