SPECIFICATION Spec
CONSTANTS
  UART_BUF_LEN = 3
  FIFO_LEN = 3
  RX_TRIGGER = 2
  MaxChars = 4
  None = None
  IRQ_USB = 9
  IRQ_UART = 57
INVARIANTS
  TypeOK
  InOrder
  LossOnlyByOverflow
  
  NoStuckFifo
PROPERTIES
  InterruptsServed
  CallsReturn
