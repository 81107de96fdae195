SPECIFICATION Spec
CONSTANTS
  Files = {a, b}
  MaxRounds = 3
  Weights = {2, 10}
  ReminderTokens = 1
  HeadTokens = 3
  SummaryTokens = 1
  SoftLimit = 12
  WarnLimit = 16
  CallsPerReply = 2
INVARIANT IsolatedContext
