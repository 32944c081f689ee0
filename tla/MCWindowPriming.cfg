CONSTANTS
    None = none
    Answers <- MCAnswers
    MaxTime = 2
    MaxEvents = 3
SPECIFICATION Spec
INVARIANTS TypeOK AtMostOnce
PROPERTIES WatermarksAdvance
