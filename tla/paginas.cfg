CONSTANTS
  c1 = c1
  c2 = c2
  MaxPid = 2
  Cpu <- UnaCpu
  Semaforo = {"m"}
  Nombre = {"m"}
  Eventos = {"matar"}
  Uso = {"WAIT", "SIGNAL", "ALOCAR", "PIDIO_ARCHIVO", "FINALIZO_EJECUCION"}
  SemInit <- Mutex
  Grado = 2
  Modulo = 8
  Quantum = 1
  MaxValor = 2
SPECIFICATION Spec
CHECK_DEADLOCK FALSE
INVARIANT PaginasDeVivos
