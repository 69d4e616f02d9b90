SPECIFICATION Spec
CONSTANTS
  a = a  b = b
  Task = {a, b}
  snd_bufsz = 2
  rcv_bufsz = 4
  TxFifo = 2
  MaxLen = 2
  Ioctl <- MCIoctl
SYMMETRY Symmetric
INVARIANTS CallbackWhileToSend
