------------------------------ MODULE MCPipeline -------------------------------
EXTENDS WorkerPipeline

Match(k, value) == [key |-> k, value |-> value]

\* Nothing found, one field with a value, and one that is all blanks.
MCTexts == {<<>>, <<Match("issuer", "text")>>, <<Match("issuer", "blank")>>}

\* One for a field the worker looks for; two for one other field.
MCSuggestions ==
  {<<Match("issuer", "text")>>,
   <<Match("buyer", "blank"), Match(" ", "text"), Match("buyer", "text")>>}

AllCompleted == [v \in Version |-> "completed"]
==============================================================================
