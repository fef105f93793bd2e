\* The console and the UART.
CONSTANTS
  Procs = {p1, p2}
  Plain = {x}
  Newline = nl
  Eof = eof
  Backspace = bs
  KillLine = ku
  INPUT_BUF_SIZE = 2
  WRAP = 4
  FIFO = 3
  MaxN = 2
  None = None
SYMMETRY Symmetry
SPECIFICATION Spec
INVARIANTS NoMissedWakeup NoOverrun
PROPERTY ImplementsTtyLines
