CONSTANTS
    Requests = {r1, r2}
    Sessions = {s1}
    Accounts = {a1, a2}
    NoAccount = none
    Start = a1
    Pro = {a2}
    Answers <- MCAnswers
    SwitchBudget = 2
    MaxEdits = 1
    MaxSwitches = 1
SPECIFICATION FairSpec
INVARIANTS TypeOK EmptyMeansEmpty NamedAccountServes
PROPERTIES InboundEnds
CHECK_DEADLOCK FALSE
