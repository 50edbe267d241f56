CONSTANTS
  Months = {april}
  Days = {9, 10}
  DeskHours = {9, 10}
  Ranges <- NineToTen
  None = None
  AllDay = AllDay
  Any = Any
  YouPick = YouPick
  Unclear = Unclear
  CustomerCalls <- ChoiceLines
  OperatorCalls <- FewTurns
  FormSlots <- FormTwo
  InitialBookings <- NineOf
SPECIFICATION Spec
INVARIANTS
  OnlyYesWrites
  
PROPERTY KeepsContract
