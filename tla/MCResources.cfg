SPECIFICATION Spec
CONSTANTS
  Word = 64
  Kb = 2
  MaxCount = 3
  Missing = Missing
  Ifaces = {eth, usb, lo}
  Physical = {eth, usb}
  MaxMoves = 3
  MaxErrors = 1
  MaxTicks = 2
  MaxRestarts = 1
SYMMETRY Symmetry
INVARIANTS
  PercentExact
  RateExact
  AbsentForAReason
  
