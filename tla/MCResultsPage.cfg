SPECIFICATION FairPageSpec
CONSTANTS
    Jobs <- MCJobs
    Effects <- MCEffects
    Clicks <- MCClicks
    Readers = {"dashboard"}
    MaxRev = 3
    Budgets <- Happenings
PROPERTY ShownOnlyGrows
PROPERTY FinalIsShown
CHECK_DEADLOCK FALSE
