\* Five requests one after another, or four of which three are open at once;
\* an LLM agent that may remove items.
SPECIFICATION MCSpec
CONSTANTS
  Requests = {1, 2, 3, 4, 5}
  RACING = 4
  Activities = {a1}
  None = None
  MaxInFlight = 3
  PatchExposed = TRUE
  AgentEdits = TRUE
INVARIANTS CurrentInPlan ParentNumberedBelow CurrentIsLeaf RevertRecorded
PROPERTIES ImplementsLinearHistory WaitingFinishedNotOfferedAgain
CHECK_DEADLOCK FALSE
