SPECIFICATION Spec
CONSTANTS
  MaxFlows = 3
  MaxMishaps = 1
CHECK_DEADLOCK FALSE
INVARIANTS TypeOK ViewMatchesTable TableIsDialogue AnswersStayInTheirRow
PROPERTIES InputComesBack
