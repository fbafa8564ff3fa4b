CONSTANTS
  Nadie = Nadie
  f1 = f1
  f2 = f2
  p1 = p1
  p2 = p2
  Archivo <- DosArchivos
  Pid <- DosProgramas
  tamBloque = 2
  cantBloques = 3
  cantBits = 4
  Tamanio = {3, 5}
  MaxAbiertos = 2
  MaxReinicios = 1
SPECIFICATION Spec
CHECK_DEADLOCK FALSE
SYMMETRY Simetria
INVARIANT BloquesPropios
INVARIANT TamanioFiel
INVARIANT BitmapFiel
INVARIANT CreceDentro
INVARIANT AperturasContadas
INVARIANT BorradoExclusivo
PROPERTY CumpleParticion
