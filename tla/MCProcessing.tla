----------------------------- MODULE MCProcessing -----------------------------
EXTENDS Processing
AllCompleted == [v \in Version |-> "completed"]
FirstRejected == [v \in Version |-> IF v = 1 THEN "rejected" ELSE "completed"]
==============================================================================
