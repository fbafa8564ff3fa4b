CONSTANTS
  c1 = c1
  c2 = c2
  MaxPid = 2
  Cpu <- DosCpus
  Semaforo = {"m"}
  Nombre = {"m"}
  Eventos = {"sigusr1", "cae_cpu"}
  Uso = {"WAIT", "SIGNAL", "ALOCAR", "FINALIZO_QUANTUM", "FINALIZO_EJECUCION"}
  SemInit <- Mutex
  Grado = 2
  Modulo = 8
  Quantum = 1
  MaxValor = 2
SPECIFICATION Spec
CHECK_DEADLOCK FALSE
SYMMETRY Simetria
INVARIANT UnaSolaCpu
INVARIANT FueraDeExecSinCpu
INVARIANT PaginasDeVivos
