CONSTANTS
  TamPage = 12
  Cabecera = 1
  Pedidos = {1, 2, 4, 10, 11}
  Marcos = 2
  Byte = 16
  Basura = {0, 1}
SPECIFICATION Spec
CHECK_DEADLOCK FALSE
INVARIANT Tesela
