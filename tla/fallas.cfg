CONSTANTS
  c1 = c1
  c2 = c2
  MaxPid = 2
  Cpu <- UnaCpu
  Semaforo = {"m"}
  Nombre = {"m", "x"}
  Eventos = {"error_es", "alocar", "cursor", "teclado"}
  Uso = {"WAIT", "SIGNAL", "ALOCAR", "LIBERAR", "PIDIO_ARCHIVO", "FINALIZO_QUANTUM",
         "FINALIZO_EJECUCION", "FINALIZO_CON_ERROR", "FINALIZO_STACKOVERFLOW"}
  SemInit <- Mutex
  Grado = 2
  Modulo = 8
  Quantum = 2
  MaxValor = 2
SPECIFICATION Spec
CHECK_DEADLOCK FALSE
INVARIANT TipoCorrecto
INVARIANT ListoSinMarca
PROPERTY CumpleCiclo
