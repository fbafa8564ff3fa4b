CONSTANTS
  c1 = c1
  c2 = c2
  MaxPid = 2
  Cpu <- UnaCpu
  Semaforo = {"m"}
  Nombre = {"m"}
  Eventos = {"matar", "matar_new"}
  Uso = {"WAIT", "SIGNAL", "FINALIZO_QUANTUM", "FINALIZO_EJECUCION"}
  SemInit <- Mutex
  Grado = 2
  Modulo = 8
  Quantum = 1
  MaxValor = 2
SPECIFICATION SpecJusta
CHECK_DEADLOCK FALSE
PROPERTY PedidoTermina
PROPERTY ListoEjecuta
PROPERTY DespiertoSigue
