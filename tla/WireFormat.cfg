SPECIFICATION Spec
CONSTANTS
  Subjects <- MCSubjects
  MaxSteps = 2
  MaxCalls = 2
  Texts <- MCTexts
  Numbers <- MCNumbers
  Doubles <- MCDoubles
  Room = 200
  AddInt <- MCAddInt
  PlayerMove <- MCPlayerMove
  AddString <- MCAddString
  Move <- MCMove
  Page <- MCPage
  Outcomes <- MCOutcomes
INVARIANT TypeOK BehavesAsRecord AbsentIsDefault SizeAgrees ParseInverts EndToEnd
\* The application makes its steps and calls, and is done.
CHECK_DEADLOCK FALSE
