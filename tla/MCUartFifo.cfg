SPECIFICATION Spec
CONSTANTS
  UART_BUF_LEN = 3
  FIFO_LEN = 3
  RX_TRIGGER = 2
  MaxChars = 2
  None = None
  IRQ_USB = 9
  IRQ_UART = 57
PROPERTY
  CharactersTaken
