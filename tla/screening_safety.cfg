SPECIFICATION Spec
CONSTANTS
  Alpha = 20
  Hours <- MCHours
  MinActiveDays = 1
  MinDaysForHours = 1
  MinDaysForIndicators = 1
  LookbackDays = 30
  HistoricalLookbackDays = 365
  MaxDays = 4
  WindowDays = 2
  HistoryDays = 1
  BaselineDays = 2
  MinBaselineDays = 1
  Verdict <- MCVerdict
  Deeds <- MCDeeds
  DayChoices <- MCDayChoices
  FirstOrg <- MCPlain
  Orgs <- MCOrgs
  CaseSeverities = {80}
  MaxChanges = 1
  NoScore = NoScore
INVARIANTS
  WindowMatchesReplay
  OpenAlertCurrent
  CauseRaisesAlert
PROPERTIES
  OnlyCausesChangeScores
CHECK_DEADLOCK FALSE
