CONSTANTS
  c1 = c1
  c2 = c2
  Nadie = Nadie
  Pid = {1, 2}
  Cpu <- DosCpus
  marcos = 3
  bloquesAdm = 1
  entradas_cache = 2
  entradas_x_proc = 1
  MaxPags <- DosYUna
  MaxUso = 1
  Eventos = {"matar", "flush"}
  Operaciones = {"leerInt", "guardarInt", "guardarString"}
SPECIFICATION Spec
CHECK_DEADLOCK FALSE
SYMMETRY Simetria
INVARIANT TipoMemoria
INVARIANT TablaFiel
INVARIANT CuentasExactas
INVARIANT CacheConcuerda
INVARIANT CuotaRespetada
INVARIANT AccesoPropio
INVARIANT RespuestaCierta
