CONSTANTS
  c1 = c1
  c2 = c2
  MaxPid = 3
  Cpu <- DosCpus
  Semaforo = {"m", "b"}
  Nombre = {"m", "b"}
  Eventos = {}
  Uso = {"WAIT", "SIGNAL", "FINALIZO_EJECUCION"}
  SemInit <- Inicial
  Grado = 2
  Modulo = 8
  Quantum = 1
  MaxValor = 1
SPECIFICATION Spec
SYMMETRY Simetria
CHECK_DEADLOCK FALSE
INVARIANT UnicaLista
INVARIANT DormidoEnCola
INVARIANT ColaDeDormidos
INVARIANT OciosaAvisada
INVARIANT ExecEnCpu
INVARIANT GradoRespetado
