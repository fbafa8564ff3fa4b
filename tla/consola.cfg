CONSTANTS
  c1 = c1
  c2 = c2
  MaxPid = 2
  Cpu <- UnaCpu
  Semaforo = {"m"}
  Nombre = {"m", "x"}
  Eventos = {"error_es"}
  Comandos = {"stop", "grado", "fin"}
  Uso = {"WAIT", "SIGNAL", "PIDIO_ARCHIVO", "FINALIZO_EJECUCION"}
  SemInit <- Mutex
  Grado = 2
  Modulo = 8
  Quantum = 1
  MaxValor = 2
SPECIFICATION SpecC
CHECK_DEADLOCK FALSE
INVARIANT PausaDetiene
INVARIANT EsperaLaReanudacion
INVARIANT CuentaSistema
INVARIANT ColaDeDormidosOMuertos
