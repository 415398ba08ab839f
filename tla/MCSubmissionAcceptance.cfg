SPECIFICATION FairSpec
CONSTANTS
  Requests = {r1, r2}
  Contexts <- MCContexts
  ExamContext = "exam"
  Cooldown <- MCCooldown
  DailyLimit <- MCDailyLimit
  Day = 2
  Reset = 1
  EndsAt = 2
  Timeout = 1
  MaxTime = 2
INVARIANTS CooldownKept DailyLimitKept SweptIsNotJudged
PROPERTIES NothingAfterClose VerdictIsKept PendingIsResolved
CHECK_DEADLOCK FALSE
