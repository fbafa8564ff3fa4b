----------------------------- MODULE FileSystem -------------------------------
(* The file system process (file_system/file_system.c): the metadata file of  *)
(* each file, which is on disk, and the bitmap of the blocks, of which only   *)
(* the copy in memory counts: Bitmap.bin is emptied when it is opened, and    *)
(* its updates go to another name. It serves one request at a time; a request *)
(* takes several steps, and the process may die between any two of them.      *)
EXTENDS Integers, Sequences, FiniteSets

CONSTANTS
  Archivo,      \* paths
  tamBloque,    \* bytes of a block
  cantBloques,  \* blocks of the partition
  cantBits,     \* bits of the bitmap: cantBloques, completed to whole bytes
  Nadie         \* no file, no process

Bloque == 0..(cantBits - 1)

ASSUME ConstantesFS ==
  /\ tamBloque \in Nat \ {0} /\ cantBloques \in Nat \ {0}
  /\ cantBits \in Nat /\ cantBits >= cantBloques
  /\ Nadie \notin Archivo

VARIABLES
  archivos,     \* the metadata file of each path: TAMANIO and BLOQUES
  vaciados,     \* the paths whose metadata file is there, with nothing in it
  bitmap,       \* the blocks whose bit is set, in memory
  basura,       \* history: those that were set when it started without files
  heredados,    \* history: the files that were there when it started
  fs            \* the step of the request in course

inicioVars == <<basura, heredados>>
fsVars == <<archivos, vaciados, bitmap, inicioVars, fs>>

SinMetadata == [tam |-> 0, bloques |-> <<>>]
Espera == [paso |-> "espera", archivo |-> Nadie, bloque |-> 0, quedan |-> 0,
           nuevo |-> SinMetadata]

TieneMetadata(f) == archivos[f] # SinMetadata
existeArchivo(f) == TieneMetadata(f) \/ f \in vaciados

(* bitarray is malloc'ed and filled from a file that fopen(..., "w+b") has    *)
(* just emptied: it holds whatever was in that memory.                        *)
ArrancarFS ==
  /\ bitmap' \in SUBSET Bloque
  /\ heredados' = {f \in Archivo : existeArchivo(f)}
  /\ basura' = IF heredados' = {} THEN bitmap' ELSE {}
  /\ fs' = Espera

InitFS ==
  /\ archivos = [f \in Archivo |-> SinMetadata] /\ vaciados = {}
  /\ bitmap \in SUBSET Bloque
  /\ basura = bitmap
  /\ heredados = {}
  /\ fs = Espera

redondearArribaDivision(a, b) == (a + b - 1) \div b
cantBloquesLibres == Cardinality((0..(cantBloques - 1)) \ bitmap)

(* The first free bit, of any in the bitmap: nothing stops the search at      *)
(* cantBloques. With no bit free it leaves the bitmap, and is not followed.   *)
EsLibre(b) == b \notin bitmap /\ \A c \in Bloque : c < b => c \in bitmap

(* (variant: the last bit is tried first, and not looked at) *)
EsElUltimo(b) == b = cantBits - 1

buscarLibreEnBitmap(b) == EsLibre(b)

(* agregarBloqueAListaYActualizarTamanio. fopen(..., "w") empties the metadata *)
(* file, or creates it; what fputs leaves in the buffer is in the file with    *)
(* fclose; the bit is set after.                                               *)
agregarBloque(f, nuevoTamanio) ==
  \E b \in Bloque :
    /\ buscarLibreEnBitmap(b)
    /\ archivos' = [archivos EXCEPT ![f] = SinMetadata]
    /\ vaciados' = vaciados \cup {f}
    /\ fs' = [Espera EXCEPT !.paso = "escribir", !.archivo = f, !.bloque = b, !.nuevo =
                [tam |-> nuevoTamanio, bloques |-> Append(archivos[f].bloques, b)]]
    /\ UNCHANGED <<bitmap, inicioVars>>

escribirMetadata ==
  /\ fs.paso = "escribir"
  /\ archivos' = [archivos EXCEPT ![fs.archivo] = fs.nuevo]
  /\ vaciados' = vaciados \ {fs.archivo}
  /\ fs' = [fs EXCEPT !.paso = "ocupar"]
  /\ UNCHANGED <<bitmap, inicioVars>>

(* (variant: the bit is set in the file and not in memory) *)
ocuparEnDisco ==
  /\ fs.paso = "ocupar"
  /\ fs' = [fs EXCEPT !.paso = "responder"]
  /\ UNCHANGED <<archivos, vaciados, bitmap, inicioVars>>

ocuparPosicion ==
  /\ fs.paso = "ocupar"
  /\ bitmap' = bitmap \cup {fs.bloque}
  /\ fs' = [fs EXCEPT !.paso = "responder"]
  /\ UNCHANGED <<archivos, vaciados, inicioVars>>

abrirArchivo(f) == ~existeArchivo(f) /\ agregarBloque(f, tamBloque)

(* escribirArchivo. The blocks that a write goes through: it advances one     *)
(* each time that more than a block is left.                                  *)
BloqueInicial(offset) == offset \div tamBloque
PrimerTramo(offset) == tamBloque - (offset % tamBloque)
Vueltas(offset, size) ==
  IF (offset % tamBloque) + size <= tamBloque \/ size <= tamBloque THEN 0
  ELSE LET resto == size - PrimerTramo(offset) IN
         1 + (IF resto <= tamBloque THEN 0
              ELSE redondearArribaDivision(resto - tamBloque, tamBloque))
BloqueFinal(offset, size) == BloqueInicial(offset) + Vueltas(offset, size)

(* Only one block is added in a call, when the write first reaches the end of *)
(* the list: cantBloques, the local variable, is not updated.                 *)
Tiene(f) == redondearArribaDivision(archivos[f].tam, tamBloque)

(* (variant: the room is not looked at) *)
HaySiempre(size) == TRUE
HayLugar(size) == cantBloquesLibres >= redondearArribaDivision(size, tamBloque)
Agrega(f, offset, size) ==
  BloqueInicial(offset) < Tiene(f) /\ BloqueFinal(offset, size) >= Tiene(f)

(* Beyond that block it follows pointers outside the list.                    *)
SaleDeLaLista(f, offset, size) ==
  BloqueInicial(offset) >= Tiene(f) \/ BloqueFinal(offset, size) > Tiene(f)

(* (variant: the size of what was added is all the size) *)
TamanioNuevo(f) == tamBloque
TamanioCrecido(f) == tamBloque + archivos[f].tam

escribirArchivo(f, offset, size) ==
  /\ HayLugar(size) /\ Agrega(f, offset, size)
  /\ agregarBloque(f, TamanioCrecido(f))

(* borrarArchivo: the bits of the blocks from the last to the first, as many  *)
(* as TAMANIO says, and then the metadata file.                               *)
borrarArchivo(f) ==
  /\ fs' = [Espera EXCEPT !.paso = "liberar", !.archivo = f, !.quedan = Tiene(f)]
  /\ UNCHANGED <<archivos, vaciados, bitmap, inicioVars>>

(* (variant: the bits are not cleaned) *)
saltarPosicion ==
  /\ fs.paso = "liberar" /\ fs.quedan > 0
  /\ fs' = [fs EXCEPT !.quedan = @ - 1]
  /\ UNCHANGED <<archivos, vaciados, bitmap, inicioVars>>

liberarPosicion ==
  /\ fs.paso = "liberar" /\ fs.quedan > 0
  /\ bitmap' = bitmap \ {archivos[fs.archivo].bloques[fs.quedan]}
  /\ fs' = [fs EXCEPT !.quedan = @ - 1]
  /\ UNCHANGED <<archivos, vaciados, inicioVars>>

quitarMetadata ==
  /\ fs.paso = "liberar" /\ fs.quedan = 0
  /\ archivos' = [archivos EXCEPT ![fs.archivo] = SinMetadata]
  /\ fs' = [fs EXCEPT !.paso = "responder"]
  /\ UNCHANGED <<vaciados, bitmap, inicioVars>>

PasoDeFS == escribirMetadata \/ ocuparPosicion \/ liberarPosicion \/ quitarMetadata
-------------------------------------------------------------------------------
(* Properties. *)

(* The metadata of a file: that which is about to be written, of the one that *)
(* is being written again.                                                    *)
Reescribe(f) == fs.paso = "escribir" /\ fs.archivo = f
contenido == [f \in Archivo |-> IF Reescribe(f) THEN fs.nuevo ELSE archivos[f]]
BloquesDe(f) == {contenido[f].bloques[i] : i \in DOMAIN contenido[f].bloques}

Metadata == [tam : Nat, bloques : Seq(Bloque)]
EstadoFS == [paso : {"espera", "escribir", "ocupar", "liberar", "responder"},
             archivo : Archivo \cup {Nadie}, bloque : Bloque \cup {0}, quedan : Nat,
             nuevo : Metadata]

TipoFS ==
  /\ archivos \in [Archivo -> Metadata] /\ vaciados \subseteq Archivo
  /\ bitmap \subseteq Bloque /\ basura \subseteq Bloque
  /\ heredados \subseteq Archivo
  /\ fs \in EstadoFS

(* In a life that starts without files: after a restart with files the bitmap *)
(* knows nothing of their blocks and they are given again.                    *)
Limpio == heredados = {}

(* Two files never share a block, and no file has the same one twice: what is *)
(* written in a file is never read in another (file_system.c:352, 275).       *)
SinCompartir ==
  /\ \A f, g \in Archivo : f # g => BloquesDe(f) \cap BloquesDe(g) = {}
  /\ \A f \in Archivo : \A i, j \in DOMAIN contenido[f].bloques :
       contenido[f].bloques[i] = contenido[f].bloques[j] => i = j
BloquesPropios == Limpio => SinCompartir

(* TAMANIO counts the blocks of the list, so that deleting the file frees     *)
(* them all (file_system.c:318). The one exception is a file with neither:    *)
(* the one that is being written again, or one that the process left so when  *)
(* it died between the fopen and the fclose of file_system.c:302-307.         *)
TamanioFiel ==
  \A f \in Archivo :
    IF f \in vaciados THEN Reescribe(f) \/ f \in heredados
    ELSE archivos[f].tam = tamBloque * Len(archivos[f].bloques)

(* The bitmap has the blocks of the files, save the one that is being added   *)
(* or those that were already released of the file that is being deleted, and *)
(* no other than those it was started with: no block is lost in such a life.  *)
Pendientes ==
  CASE fs.paso \in {"escribir", "ocupar"} -> {fs.bloque}
    [] fs.paso = "liberar" ->
         {archivos[fs.archivo].bloques[i] :
            i \in (fs.quedan + 1)..Len(archivos[fs.archivo].bloques)}
    [] OTHER -> {}
EnUso == UNION {BloquesDe(f) : f \in Archivo}
BitmapFiel == Limpio => bitmap = (basura \cup EnUso) \ Pendientes

(* The check for room of escribirArchivo keeps every block but the first of a *)
(* file inside the partition; abrirArchivo has no such check.                 *)
CreceDentro ==
  \A f \in Archivo : \A i \in DOMAIN contenido[f].bloques :
    i > 1 => contenido[f].bloques[i] < cantBloques

(* The owner of each block, for the abstract partition, which such a life     *)
(* implements.                                                                *)
duenoDe == [b \in Bloque |->
              IF \E f \in Archivo : b \in BloquesDe(f)
              THEN CHOOSE f \in Archivo : b \in BloquesDe(f) ELSE Nadie]
Particion == INSTANCE Particion WITH dueno <- duenoDe
CumpleParticion == Particion!Init /\ [][Limpio' => Particion!Next]_duenoDe
===============================================================================
