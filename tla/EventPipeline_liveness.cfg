\* One source whose timeout never expires: what is acknowledged is handled.
SPECIFICATION FairSpec
CONSTANTS
  Names <- MCNames
  Defined <- MCDefined
  ProviderOf <- MCProviderOf
  Topic <- MCTopic
  Providers = {"nats", "rest"}
  Kind <- MCKind
  Url <- MCUrl
  Sources <- OneSource
  NumTriggers <- OneNumTriggers
  Webhook = "github"
  Requests = {"r1"}
  MaxMsgs = 3
  MaxPending = 1
  MaxBounces = 1
  TimesOut = FALSE
PROPERTY AckedIsHandled
\* The process ends on a fatal error, a signal or a crash.
CHECK_DEADLOCK FALSE
