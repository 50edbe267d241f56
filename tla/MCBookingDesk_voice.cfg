CONSTANTS
  Months = {april}
  Days = {9, 10}
  DeskHours = {9, 10}
  Ranges <- NineToTen
  None = None
  AllDay = AllDay
  Any = Any
  YouPick = YouPick
  Unclear = Unclear
  CustomerCalls <- PlainLines
  OperatorCalls <- PlainTurns
  FormSlots <- None0
  InitialBookings <- NineOf
SPECIFICATION Spec
INVARIANTS
  QuestionsStayTrue
  NoClash
  CollectingAsks
  CustomerOverrules
  RepeatIsNull
