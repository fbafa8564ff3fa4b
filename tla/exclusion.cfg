CONSTANTS
  c1 = c1
  c2 = c2
  MaxPid = 3
  Cpu <- DosCpus
  Semaforo = {"m"}
  Nombre = {"m"}
  Eventos = {}
  Uso = {"WAIT", "SIGNAL", "FINALIZO_QUANTUM", "FINALIZO_EJECUCION"}
  SemInit <- Mutex
  Grado = 3
  Modulo = 8
  Quantum = 1
  MaxValor = 2
SPECIFICATION SpecExclusionJusta
CHECK_DEADLOCK FALSE
INVARIANT ExclusionMutua
INVARIANT SinUnidadOciosa
PROPERTY SinInanicion
