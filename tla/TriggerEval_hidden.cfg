\* What a body has assigned, and can not read.
\* Two triggers, bodies two deep, one function call deep.
SPECIFICATION Spec
CONSTANTS
  Names = {"event", "x"}
  Fields <- MCFields
  Scalars = {"string"}
  Functions = {"fn"}
  Input <- MCInput
  Output <- MCOutput
  Triggers = 2
  EventVar <- MCEventVar
  Received <- MCReceived
  MaxMaps = 3
  MaxFrames = 4
  MaxCalls = 1
  MaxSteps = 5
INVARIANT OwnIsReadable
\* The evaluation of a message ends.
CHECK_DEADLOCK FALSE
