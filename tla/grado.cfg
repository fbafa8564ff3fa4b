CONSTANTS
  c1 = c1
  c2 = c2
  MaxPid = 4
  Cpu <- UnaCpu
  Semaforo = {"m"}
  Nombre = {"m"}
  Eventos = {"matar", "matar_new"}
  Uso = {"FINALIZO_QUANTUM", "FINALIZO_EJECUCION"}
  SemInit <- Mutex
  Grado = 1
  Modulo = 8
  Quantum = 1
  MaxValor = 2
SPECIFICATION Spec
CHECK_DEADLOCK FALSE
INVARIANT GradoRespetado
