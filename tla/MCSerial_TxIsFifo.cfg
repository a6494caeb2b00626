CONSTANTS
  CDC_RX_BUF_SIZE = 3
  CDC_TX_BUF_SIZE = 4
  EP1_SIZE = 2
  AT_LINE_MAX = 2
  MaxPackets = 2
  MaxUart = 0
SPECIFICATION Spec
PROPERTY TxIsFifo
