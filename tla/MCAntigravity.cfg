CONSTANTS
    Accounts = {g1, g2}
    NoAccount = none
    Free = free
    Requests = {r1}
    Loops = {q1}
    Born = {g1}
    Flagged = {}
    MaxEvents = 2
SPECIFICATION Spec
INVARIANTS TypeOK SecretsKept
PROPERTY ChoiceKept
