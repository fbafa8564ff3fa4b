------------------------------- MODULE Archivos -------------------------------
(* The open files: the kernel's tables (atenderES, kernel.c:1594) and the     *)
(* file system, which it asks and waits for. The kernel has one thread here:  *)
(* nothing else happens while the file system works, unless it dies, and then *)
(* the kernel dies with it (both use the answer without looking at it).       *)
EXTENDS FileSystem

CONSTANTS
  Pid,          \* programs
  Tamanio,      \* the sizes that programs write
  MaxAbiertos,  \* bound: files that a program opens
  MaxReinicios  \* bound: times the system is started again

ASSUME ConstantesArchivos == Tamanio \subseteq Nat /\ MaxAbiertos \in Nat /\ MaxReinicios \in Nat

VARIABLES
  archivosGlobal,  \* the paths that have an entry; it is never removed
  countOpen,
  tablaArchivos,   \* of each program
  descriptorNext,
  vivo,            \* the programs that have not ended
  pedido,          \* the operation that waits for the file system
  enPie,           \* the two processes run
  reinicios

tablasVars == <<archivosGlobal, countOpen, tablaArchivos, descriptorNext, vivo>>
sistemaVars == <<enPie, reinicios>>
vars == <<fsVars, tablasVars, pedido, sistemaVars>>

PrimerDescriptor == 3
offsetArch == 0
SinPedido == [op |-> "nada", pid |-> Nadie, archivo |-> Nadie, cae |-> FALSE]

Descriptor == [fd : PrimerDescriptor..(PrimerDescriptor + MaxAbiertos - 1), file : Archivo]

TablasVacias ==
  [global |-> {}, count |-> [f \in Archivo |-> 0], tabla |-> [p \in Pid |-> {}],
   next |-> [p \in Pid |-> PrimerDescriptor], vivo |-> [p \in Pid |-> TRUE]]

Init ==
  /\ InitFS
  /\ archivosGlobal = TablasVacias.global /\ countOpen = TablasVacias.count
  /\ tablaArchivos = TablasVacias.tabla /\ descriptorNext = TablasVacias.next
  /\ vivo = TablasVacias.vivo
  /\ pedido = SinPedido
  /\ enPie = TRUE /\ reinicios = 0
-------------------------------------------------------------------------------
(* The two processes die, at any point: only the metadata files remain. *)
Morir ==
  /\ enPie /\ enPie' = FALSE
  /\ archivosGlobal' = TablasVacias.global /\ countOpen' = TablasVacias.count
  /\ tablaArchivos' = TablasVacias.tabla /\ descriptorNext' = TablasVacias.next
  /\ vivo' = TablasVacias.vivo
  /\ pedido' = SinPedido
  /\ bitmap' = {} /\ basura' = {} /\ heredados' = {f \in Archivo : existeArchivo(f)}
  /\ fs' = Espera
  /\ UNCHANGED <<archivos, vaciados, reinicios>>

Caer == reinicios < MaxReinicios /\ Morir

(* A program is attended when the kernel waits for nobody. *)
Atiende(p) == enPie /\ pedido = SinPedido /\ vivo[p]

(* The program ends, by itself or by an error; its files are not closed. *)
Terminar(p) ==
  /\ vivo' = [vivo EXCEPT ![p] = FALSE]
  /\ UNCHANGED <<fsVars, archivosGlobal, countOpen, tablaArchivos, descriptorNext, pedido,
                 sistemaVars>>

Finalizar(p) == Atiende(p) /\ Terminar(p)

(* The entries of an opened file. The permissions of the descriptor are what  *)
(* malloc left there: the flags of the program are set to 0 and not copied.   *)
(* They are chosen when they are looked at: EscribirAgregando is the outcome  *)
(* of one that permits the write, UsarSinPermiso of one that does not.        *)
CuentaCon(f) == IF f \in archivosGlobal THEN countOpen[f] + 1 ELSE 1

Registrar(p, f) ==
  /\ archivosGlobal' = archivosGlobal \cup {f}
  /\ countOpen' = [countOpen EXCEPT ![f] = CuentaCon(f)]
  /\ tablaArchivos' = [tablaArchivos EXCEPT ![p] = @ \cup {[fd |-> descriptorNext[p], file |-> f]}]
  /\ descriptorNext' = [descriptorNext EXCEPT ![p] = @ + 1]
  /\ UNCHANGED vivo

PuedeAbrir(p) == Atiende(p) /\ descriptorNext[p] < PrimerDescriptor + MaxAbiertos

AbrirExistente(p, f) ==
  /\ PuedeAbrir(p) /\ existeArchivo(f)
  /\ Registrar(p, f)
  /\ UNCHANGED <<fsVars, pedido, sistemaVars>>

AbrirCreando(p, f) ==
  /\ PuedeAbrir(p)
  /\ abrirArchivo(f)
  /\ pedido' = [SinPedido EXCEPT !.op = "abrir", !.pid = p, !.archivo = f]
  /\ UNCHANGED <<tablasVars, sistemaVars>>

AbrirSinCreacion(p, f) ==
  PuedeAbrir(p) /\ ~existeArchivo(f) /\ Terminar(p)

(* CERRAR. The entry that reaches 0 is searched by the path of the PCB, which *)
(* is "-" in every operation but ABRIR: it stays.                             *)
(* (variant: the entry is not told) *)
CerrarSinContar(p, a) ==
  /\ Atiende(p)
  /\ tablaArchivos' = [tablaArchivos EXCEPT ![p] = @ \ {a}]
  /\ UNCHANGED <<fsVars, archivosGlobal, countOpen, descriptorNext, vivo, pedido, sistemaVars>>

Cerrar(p, a) ==
  /\ Atiende(p)
  /\ countOpen' = [countOpen EXCEPT ![a.file] = @ - 1]
  /\ tablaArchivos' = [tablaArchivos EXCEPT ![p] = @ \ {a}]
  /\ UNCHANGED <<fsVars, archivosGlobal, descriptorNext, vivo, pedido, sistemaVars>>

(* BORRAR: only for a single opener. Neither the descriptor nor the entry is  *)
(* removed: the file system answers 0 when it could, and 0 is taken as error. *)
(* (variant: it is enough that the file is open) *)
AlgunoLoAbrio(f) == countOpen[f] >= 1
UnicaApertura(f) == countOpen[f] = 1

Borrar(p, a) ==
  /\ Atiende(p) /\ TieneMetadata(a.file) /\ UnicaApertura(a.file)
  /\ borrarArchivo(a.file)
  /\ pedido' = [SinPedido EXCEPT !.op = "borrar", !.pid = p, !.archivo = a.file]
  /\ UNCHANGED <<tablasVars, sistemaVars>>

BorrarBorrado(p, a) == Atiende(p) /\ ~existeArchivo(a.file) /\ Terminar(p)

(* ESCRIBIR, when the file gets a block; the other writes change nothing here. *)
EscribirAgregando(p, a, size) ==
  /\ Atiende(p) /\ TieneMetadata(a.file)
  /\ escribirArchivo(a.file, offsetArch, size)
  /\ pedido' = [op |-> "escribir", pid |-> p, archivo |-> a.file,
                cae |-> SaleDeLaLista(a.file, offsetArch, size)]
  /\ UNCHANGED <<tablasVars, sistemaVars>>

(* LEER and ESCRIBIR of a file that was deleted: config_create returns NULL.  *)
(* Of one that is empty, BORRAR too: it has no TAMANIO, and atoi takes NULL.  *)
UsarSinMetadata(p, a) ==
  /\ Atiende(p) /\ ~TieneMetadata(a.file)
  /\ Morir

(* LEER or ESCRIBIR without the permission, or any operation on a descriptor  *)
(* that the program has not, ends it.                                         *)
UsarSinPermiso(p) == Atiende(p) /\ Terminar(p)

(* A write that leaves the list of blocks ends the file system.              *)
EscribirDeMas == fs.paso = "responder" /\ pedido.cae /\ Morir

(* The answer of the file system arrives. *)
Responder ==
  /\ enPie /\ fs.paso = "responder" /\ ~pedido.cae
  /\ IF pedido.op = "abrir" THEN Registrar(pedido.pid, pedido.archivo) ELSE UNCHANGED tablasVars
  /\ pedido' = SinPedido
  /\ fs' = Espera
  /\ UNCHANGED <<archivos, vaciados, bitmap, inicioVars, sistemaVars>>
-------------------------------------------------------------------------------
(* Restart, of both. *)
Reiniciar ==
  /\ ~enPie /\ reinicios < MaxReinicios
  /\ ArrancarFS
  /\ enPie' = TRUE /\ reinicios' = reinicios + 1
  /\ UNCHANGED <<archivos, vaciados, tablasVars, pedido>>

Operar(p) ==
  \/ Finalizar(p) \/ UsarSinPermiso(p)
  \/ \E f \in Archivo : AbrirExistente(p, f) \/ AbrirCreando(p, f) \/ AbrirSinCreacion(p, f)
  \/ \E a \in tablaArchivos[p] :
       \/ Cerrar(p, a) \/ Borrar(p, a) \/ BorrarBorrado(p, a)
       \/ UsarSinMetadata(p, a)
       \/ \E size \in Tamanio : EscribirAgregando(p, a, size)

Trabajar == enPie /\ PasoDeFS /\ UNCHANGED <<tablasVars, pedido, sistemaVars>>

Next == (\E p \in Pid : Operar(p)) \/ Trabajar \/ Responder \/ EscribirDeMas \/ Caer \/ Reiniciar
Spec == Init /\ [][Next]_vars
-------------------------------------------------------------------------------
(* Properties. *)

(* Types. *)
TipoArchivos ==
  /\ TipoFS
  /\ archivosGlobal \subseteq Archivo
  /\ countOpen \in [Archivo -> Nat]
  /\ tablaArchivos \in [Pid -> SUBSET Descriptor]
  /\ descriptorNext \in [Pid -> PrimerDescriptor..(PrimerDescriptor + MaxAbiertos)]
  /\ vivo \in [Pid -> BOOLEAN]
  /\ pedido \in [op : {"nada", "abrir", "borrar", "escribir"}, pid : Pid \cup {Nadie},
                 archivo : Archivo \cup {Nadie}, cae : BOOLEAN]
  /\ enPie \in BOOLEAN /\ reinicios \in 0..MaxReinicios

(* countOpen is the number of descriptors of a file, whoever has them and     *)
(* however they were opened, closed, or left open by a program that ended     *)
(* (kernel.c:1624-1632, 1674).                                                *)
Abiertos(f) == {pa \in Pid \X Descriptor : pa[2] \in tablaArchivos[pa[1]] /\ pa[2].file = f}
AperturasContadas == \A f \in Archivo : countOpen[f] = Cardinality(Abiertos(f))

(* While a file is deleted nobody else has it open (kernel.c:1657).           *)
TieneAbierto(p, f) == \E a \in tablaArchivos[p] : a.file = f
BorradoExclusivo ==
  pedido.op = "borrar" =>
    \A q \in Pid \ {pedido.pid} : ~TieneAbierto(q, pedido.archivo)
===============================================================================
