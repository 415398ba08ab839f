\* Four callers for up to three slots, two kinds of signal.
SPECIFICATION FairSpec
CONSTANTS
  c1 = c1
  c2 = c2
  c3 = c3
  c4 = c4
  wallClockTimeout = wallClockTimeout
  unschedulable = unschedulable
  Callers = {c1, c2, c3, c4}
  Min = 1
  Max = 3
  Cooldown = 2
  Kinds = {wallClockTimeout, unschedulable}
  Pause <- Pauses
INVARIANTS SlotsAreCounted NoIdleSlot
PROPERTIES WithinBudget NoOvertaking PauseIsKept EveryReservationIsAnswered
