CONSTANT Limits <- MCLimits
CONSTANT Cases <- MCCases
SPECIFICATION Spec
INVARIANT VerdictsCurrent
INVARIANT UnflaggedIsComplete
INVARIANT LeftOutOnlyWithErrors
INVARIANT PlanIsTree
INVARIANT TextKeptOnce
INVARIANT ChargedAsRun
