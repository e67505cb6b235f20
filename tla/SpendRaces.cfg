\* Two members: an unlock of one theme by each; and by Alice a timeline, storage and an adjustment, all overlapping.
SPECIFICATION Spec
CONSTANTS
    User = {"alice", "bob"}
    Unlock = {2, 1}
    NewTimeline = {4}
    Storage = {6}
    Adjustment = {8}
    By <- TwoMembers
    Wanted = {0}
    Wants <- SameTheme
    Price = 2
    Free = 1
    Initial = 3
    TopUpAmount = 4
    Amounts <- SomeAmounts
    MaxTopUps = 1
    MaxFailures = 1
INVARIANTS
    TypeOK
    CreditsWereGranted
PROPERTIES
    ImplementsLedger
\* Every request ends.
CHECK_DEADLOCK FALSE
