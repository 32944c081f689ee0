-------------------------- MODULE MCWindowPriming --------------------------
EXTENDS WindowPriming
Answer(k1, k2, in1, in2, used, left) ==
    [kind |-> [s \in Slots |-> IF s = "primary" THEN k1 ELSE k2],
     in |-> [s \in Slots |-> IF s = "primary" THEN in1 ELSE in2], used |-> used, left |-> left]
MCAnswers == {Answer("five", "weekly", 1, 2, TRUE, TRUE),
              Answer("weekly", None, 1, 0, FALSE, FALSE)}
=============================================================================
