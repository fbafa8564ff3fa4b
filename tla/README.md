# Verification of the AnSISOP system

TLA+ models, TLC runs and TLAPS proofs for `src/`, a small operating system made
of processes that talk over TCP: a **kernel** that schedules AnSISOP programs,
**CPU** processes that run them, **consoles** that start and stop them, a
**memory** process and a **file system** process.

The names of the definitions are those of the source (in Spanish) where TLA+
allows it. Paths below are relative to `src/src/`.

## 1. Inventory

| component | state | operations | talks to |
|---|---|---|---|
| kernel, main thread (`kernel/kernel.c` `main`, `actualizarEstadoSistema`, `atenderES`, `finalizarPrograma`, `mover*`) | five lists of PCBs, `listas->programas`, `listas->cpus`, semaphores and shared variables, `procesosEnSistema`, `numeroPid` | accept a CPU or a program; end a program; the messages of a CPU; serve BLOCKED, admit NEW, dispatch READY | everybody: messages with CPUs and consoles, blocking RPC with memory and file system |
| kernel, console thread (`consolaKernel` ... `imprimirVariables`) | `gradoMultiprogramacion`, `sistemaPausado` and a mutex, the lists | list, inspect and end processes, change the degree, pause | the main thread (shared variables, no lock), memory |
| kernel, heap (`kernel/heapmemo.c`) | `primerPaginaHeap` and `cantPaginasHeap` of each PCB, the bytes of the heap pages | ALOCAR, LIBERAR, compaction | memory, CPU |
| kernel, files (`atenderES`, `abrir/leer/...`) | table of each process, global table | open, read, write, close, delete | file system |
| CPU (`cpu/cpu.c`) | `pcbActivo`, `sigusr1` | run a burst, system calls, give the context back | kernel, memory |
| memory (`memoria/memoria.c`) | frame table, hash overflow lists, cache | reserve, read, write, end of process; console | kernel and CPUs, a thread for each |
| file system (`file_system/file_system.c`) | bitmap, metadata and blocks on disk | create, read, write, delete, exists | kernel |
| program console (`consola/consola.c`) | list of its programs | INICIAR, FINALIZAR, DESCONECTAR, a thread per program | kernel |
| communication (`comunicacion/comunicacion.c`) | none | send and receive `t_mensaje`, handshakes | library of all |
| minifier (`kernel/minify.c`), manual test programs, stubs | none | text | - |

**What is hard here.** The kernel has one thread that never sees two events at
once, but it acts on lists while it walks them (`list_remove(l, i)` with `++i`),
ends processes that a CPU is still running, and keeps a PCB in several
structures (a state list, a semaphore's queue, a CPU's memory) that different
functions update. Messages are in flight while it decides. A signalled waiter
needs two passes of `actualizarEstadoSistema` to move. A CPU may leave, die,
or get out of step with its kernel. The kernel's console thread and the memory's
threads share data with no lock. `PROJECT.json` lists each hazard at its line.

**What makes each component correct.**

- Scheduler: every program is in one list; a process is on one CPU; the degree
  of multiprogramming bounds the admitted; `procesosEnSistema` counts them; the
  semaphores lose neither units nor wake-ups and serve in order; a process ends
  once and its console is told why; pages belong to live processes.
- CPU: every burst ends with exactly one message that gives the process back.
- Heap: blocks tile the page, no two free neighbours after a release, live
  allocations are disjoint.
- Memory: a frame has one owner, the cache agrees with the frames, nothing that a
  process had when its end was asked for is kept, and a CPU is told the truth.
- File system: a block has one owner; bitmap, list of blocks and size agree.
- Files of the kernel: the global count of a file is the number of descriptors.

## 2. Modules

```
Canales ------+--> Planificador --+
(sockets)     |    (kernel)       |
              +--> Procesador ----+--> Sistema --+--> Exclusion
              |    (CPUs)         |    (composed,|    (lock discipline
              +--> Consolas ------+    properties)|    of the scripts)
                                         |       +--> ConsolaKernel
                   CicloDeVida <---------+            (second thread, pause)
                   refinement (INSTANCE ... WITH)
                   SistemaPruebas                     types, lists, units
                   VuelosPruebas                      messages and lists together
                   ColasPruebas                       queues, life cycle, counts
                   ProtocoloPruebas                   turns of kernel and CPU
                   ComposicionPruebas                 locks, and the pause
                   MCSistema, MCExclusion, MCConsola  instances for TLC

HeapPagina (heapmemo.c) --> Asignador        refinement (INSTANCE ... WITH)
                   HeapPruebas               theorems about HeapPagina

Memoria (memoria.c)                          threads, table and cache
                   MemoriaPruebas            theorems about table, cache, threads
                                             and what is counted
                   MCMemoria                 instance for TLC

FileSystem --> Archivos                      file system, and the kernel's
     |             (composed)                tables of open files over it
     +--> Particion                          refinement (INSTANCE ... WITH)
                   ArchivosPruebas           theorems about blocks, bitmap
                                             and the tables
                   MCArchivos                instance for TLC
```

**Canales** keeps, for each CPU, the state of its TCP connection (`enlace`) and
a FIFO queue of messages each way; for the consoles, how many connections wait
for `accept` and what each has sent. A message is its type, pid and semaphore.
It also declares the bounds and what the environment may do (`Eventos`).

**Planificador** is the kernel's main thread. One iteration of its loop is a
series of small steps selected by `fase`: `select` reports the readable
descriptors (`Legibles` -> `readfds`, which is then *stale* while they are served),
`eventos` serves the listeners, the programs in order and the CPUs by position,
and `bloqueados`, `nuevos`, `despacho` are the three loops of
`actualizarEstadoSistema`. `indice` is the C loop variable counted from 1, so an
element removed while walking makes the loop skip the next, as in the code. Each
message handler is an action (`FinalizoEjecucion`, `FinalizoQuantum`, `Wait`,
`Signal`, `AlocarBien`, `AlocarMal`, ...) with everything it calls: moving the
PCB, freeing memory, telling the console, counting, answering, and the
`actPCB` epilogue (`DevolverCpu`). Steps of other processes interleave between
any two steps.

**Procesador** is the CPU: it waits for a context, runs a burst that makes
requests (`Pedir`, then blocked until the answer) and ends with one message
(`FinDeRafaga`), unless `MoverCursor` ends it with none. `Sigusr1` sets the flag
that is tested only between bursts; `CaerCpu` is the death of the process.
`RecibirOtraCosa` and `RecibirRespuestaInesperada` are what the code does with a
message of another type; `signalUP` and `asignarValorCompartida` also look at its
result (`MiranResultado`), which may end the burst with a second report.

**Consolas** starts programs, asks for their end, or goes away.

**CicloDeVida** is the abstract promise about each process: the five-state
diagram, one end, one code told at that moment. `Sistema` implements it
(`CumpleCiclo`), with `estado` mapped to the list that holds the PCB and
`informado` to the code sent.

**Sistema** composes all and states the properties. **Exclusion** constrains the
scripts to take a unit with WAIT before returning it with SIGNAL, and keeps in
`dentro` who is between the two, to say what a user of the semaphores relies on.

**HeapPagina** is the heap of one process. A page is the set of the blocks of its
chain; `Siguiente` is the place of the next header, so walking the chain is
looking at the blocks in the order of `ini`. `AlocarEnPagina`,
`AlocarEnPaginaNueva`, `AlocarDemasiado` and `AlocarSinMemoria` are the ways in
which `reservarMemoriaHeap` ends, `Liberar` is `liberarMemoriaHeap` with its
compaction (`Rachas`, the runs of free blocks that one pass of `_compactar`
fuses). The kernel's only thread serves a request from end to end, so each is one
step; between requests other processes take and return frames (`OtrosProcesos`).
`TamEscrito` is what the copy of a fused header really writes: its low byte and
three bytes of whatever `malloc` returned (`Basura`). `vivas` is the view of the
script: what it was given and has not released. In `Planificador` the same two
system calls only succeed or fail (`AlocarBien`, `AlocarMal`); when the first page
cannot be had the CPU is not answered, and that is modelled there.

**Asignador** is what a script expects of ALOCAR and LIBERAR: places inside a page
that overlap none of those it holds. `HeapPagina` implements it
(`CumpleAsignador`) with `ocupado` mapped to `vivas`.

**ConsolaKernel** adds the kernel's second thread to `Sistema`. The main thread
tests `sistemaPausado` after `select` and only then locks (`SelectPausable`,
`TomarMutex`): a pause can fall between the two. `Detener`, `Reanudar` and
`SoltarMutex` are `stopPlani`, whose mutex is locked by one thread and unlocked
by the other. `FinalizarProceso` is `finalizarProceso`: any pid may be entered; one
that is in no list or already in EXIT changes nothing. Ending one that is in NEW
is a command of its own (`"fin_new"`), which the run `consola` leaves out because
it breaks the count of processes (run `grado`).
`ModificarGradoMult` runs `actualizarEstadoSistema` from that thread: `Hilo` is a
second instance of `Planificador` with its own loop variables (`faseC`,
`indiceC`), so that its passes interleave with those of the main thread.

**Memoria** is the memory process: the inverted table (`tabla`), the list of
active processes, the cache and its mutex, the kernel's thread and one thread per
CPU. The lookup of a CPU is one action per access to the cache, because nothing
locks it: `CompararPid`, `CompararPagina` and `LeerBloque` are the three reads of
an entry that other threads may change in between; `BuscarEnTabla`,
`cantVecesPidEnCache`, the choice of a victim and the two writes of
`actualizarCache` (`EscribirClave`, `EscribirBloque`, which hold the mutex) are
the path of a miss. The four operations share that lookup, which is the same text in
each, and differ afterwards (`Acceder`: `leerDatoInt`, `guardarDatoInt`,
`StringEnUnaPagina`, and `PrimeraParte`, `SegundaPagina`, `SegundaParte` for a text
that reaches the end of its page). `acceso` says which operation it is and where
it ends: inside the page, with it, in the next, or it is longer than any page
(`Tramo`); `respuesta` is what the CPU is told. Integers do as the code says: a
read may be answered as a failure because the value is -1, and one that reaches the
end of its page is never copied, so its answer is any; a write is done wherever it
ends. The result of a string that
was stored in two pages is never assigned: any, too. The end of a process is
`eliminarProcesoEnCache` and then a `liberarPagina` per page. `reservarPagina` does
not look at whether the process was ended, as the code does not: one that was
killed while it runs still gets pages (kernel.c:311), which nobody releases.
`paginas`, `muertos` and `ejecuta` are what the kernel and the CPUs know of the
processes: what they may ask follows from it. `pisada` and `alFin` are history
variables: the entry of a hit had changed when its frame was read, and the pages
that a process had when its end was asked for.

**FileSystem** is the file system process: `archivos` are the metadata files,
which are what stays on disk, and `bitmap` the copy in memory, which is all that
counts (`Bitmap.bin` is opened with `"w+b"`, which empties it, and its updates go
to a path without the dot; `ArrancarFS`). Adding a block takes three steps:
`fopen(..., "w")` empties the metadata file, or creates it empty (`agregarBloque`);
`fclose` writes what `fputs` left in the buffer (`escribirMetadata`); the bit is set
after (`ocuparPosicion`). Deleting cleans the bits from the last block to the first
and removes the metadata at the end. The process may die between any two of them.
`vaciados` are the metadata files that are there with nothing in them: for
`existeArchivo` such a file exists, and opening it succeeds.

**Archivos** is `atenderES` over it: the table of each program, the global one
with its counts, and the request that waits for the file system. `Morir` is the
death of both processes, by itself (`Caer`) or because of what they did
(`UsarSinMetadata`, `EscribirDeMas`); `Reiniciar` starts them again.
`UsarSinMetadata` is a read or a write of a file that was deleted, or these and a
deletion of an emptied one, which has no TAMANIO to read.

**Particion** is what a partition promises: a block is taken when free, by one
file, and a deletion gives back all the blocks of a file. `FileSystem` implements
it (`CumpleParticion`) with `dueno` mapped to the file whose metadata has the
block.

Operators commented "(variant: ...)" are wrong versions of the definition that
follows them, used to show that the properties notice.

### Abstractions

- RPC to memory and file system is atomic: the only thread of the kernel blocks
  on the answer. Memory always has room for an admitted program (in the code the
  loop of `reservarMemoriaParaProceso` repeats for ever otherwise).
- `ERROR_ES` stands for the four codes with which `atenderES` ends a process.
- `procesosEnSistema` is unsigned: it counts modulo `Modulo`, which stands for 2^32.
- A descriptor stands for one connection for ever. Handshakes do not fail. A
  write to a closed peer is lost (in the code it may also raise SIGPIPE).
- SIGNAL is used with configured semaphores only; with an unknown one the code
  answers through a pointer that is never set (kernel.c:370). WAIT may use any
  name.
- A process that returns from WAIT executes the instruction again as a no-op; that
  second execution sends nothing and is part of the silent instructions.
- A CPU that loads as a context a message that is none is left in `desfasado`
  for ever: what it would compute is undefined. The branch for a PCB that is not
  found (kernel.c:454-461) can only follow from that.
- Scripts ask for no negative sizes and release only what they hold. Pages go to
  the memory and back unchanged.
- The console thread is in `ConsolaKernel` only. Each command's body and each pass
  of a loop is one step there: two threads that change one list at the same
  instant, with no lock (the mutex of `structkernel.h:97` is commented out), is
  undefined behaviour and not modelled. The degree that is entered is the one
  there was, so `Grado` stays constant; the commands that print change nothing.
- Memory: the contents of pages, the delay and the dumps are left out.
  `Operaciones` says which operations a run's scripts use. What is stored where
  within a frame is contents too: the bytes of an integer past the end of its page
  (memoria.c:779), or the first part of a string stored at offset 0
  (memoria.c:839). `funcionHash`
  sends every page to the first frame, hence `verificarPosHash` is a search from
  there. Sections that hold a mutex from end to end are one step, except
  `actualizarCache`, whose two halves unlocked readers can tell apart; a read of
  one field is never torn. `KM_LIBERAR_PAGINA` is served by the code and sent by
  nobody.
- The kernel asks memory for the end of a process that does not run, or that is
  killed while it runs (`"matar"`). The table is larger than what the instances
  ask, or `reservarPagina` waits: the answer "full" is handled by the kernel.
- File system: the bytes of the blocks are not modelled, nor are failures of the
  disk. Properties about the bitmap are stated for a life of the process that
  starts without files (`Limpio`): after a restart with files the bitmap is
  whatever memory holds, and the code promises nothing.
- The permissions of a descriptor are read from memory that nobody wrote
  (`Registrar`): both values are considered each time they are looked at
  (`EscribirAgregando`, `UsarSinPermiso`).
- A metadata file is written by `fclose` whole or not at all: its two lines are far
  shorter than the buffer, and the failure of the disk is left out.

## 3. Runs

The runs use small instances from the `MC` modules; those of the heap are
instances of `HeapPagina` itself. `CHECK_DEADLOCK FALSE` everywhere: the system
does stop when every program has ended and nobody sends anything (the kernel
blocks in `select`), and so do a heap whose process was ended, a memory whose
processes have ended, and a file system that died for the last time.

| run | instance | checks |
|---|---|---|
| `semaforos` | 3 programs, degree 2, 2 CPUs (symmetric), semaphores that start at 1 and 0 | `UnicaLista`, `DormidoEnCola`, `ColaDeDormidos`, `OciosaAvisada`, `ExecEnCpu`, `GradoRespetado` |
| `fallas` | 2 programs, 1 CPU, all system calls, an unknown semaphore name, I/O errors, refused heap, cursor, keyboard | `TipoCorrecto`, `ListoSinMarca`, `CumpleCiclo` |
| `partidas` | 2 programs, 2 CPUs that leave or die | `UnaSolaCpu`, `FueraDeExecSinCpu`, `PaginasDeVivos` |
| `exclusion` | 3 scripts with one lock, 2 CPUs, fair | `ExclusionMutua`, `SinUnidadOciosa`, `SinInanicion` |
| `progreso` | 2 programs, 1 CPU, consoles end them in any list, fair | `PedidoTermina`, `ListoEjecuta`, `DespiertoSigue` |
| `heap` | 2 frames of 12 bytes, headers of 1, requests of 1, 2, 4, 10 (the accepted maximum) and 11 bytes, clean memory | `Tesela`, `SinLibresContiguos`, `UsadosSonVivas`, `CumpleAsignador` |
| `consola` | 2 programs, 1 CPU; the keyboard pauses, resumes, ends processes and runs `actualizarEstadoSistema` | `PausaDetiene`, `EsperaLaReanudacion`, `CuentaSistema`, `ColaDeDormidosOMuertos` |
| `memoria` | 2 processes of 2 and 1 pages, 2 frames, 2 CPUs (symmetric), a cache of 2 entries with 1 per process, killed processes and the flush, integers read and stored and texts stored | `TipoMemoria`, `TablaFiel`, `CuentasExactas`, `CacheConcuerda`, `CuotaRespetada`, `AccesoPropio`, `RespuestaCierta` |
| `archivos` | 2 programs, 2 files, blocks of 2 bytes, a partition of 3 blocks with a bitmap of 4, writes of 3 and 5 bytes, a death between any two writes and a restart | `BloquesPropios`, `TamanioFiel`, `BitmapFiel`, `CreceDentro`, `AperturasContadas`, `BorradoExclusivo`, `CumpleParticion` |

What they show, beside that the properties hold: the semaphores lose no wake-up
whatever the order in which the lists are walked; a process is never on two CPUs
though the kernel ends processes that run; a pause lets at most one more
iteration of the loop begin and a resume never leaves it stopped; lookups of the
cache with no lock may be *stale* (`pisada`), and that is the only way in which
a live process is given another's frame; a file's count and its descriptors agree
even for programs that ended without closing; the bitmap and the metadata agree
through deaths until the first restart with files.

**Bounds.** `MaxPid` programs connect in all; `Quantum` is the number of requests
in one burst (its silent instructions are not counted, a burst may end at any
time); `MaxValor` is how high scripts raise a semaphore by SIGNAL without WAIT.
Two programs suffice for every pair of positions in which one acts on the other;
three are used where an order matters (a queue with a running process beside it,
a skipped element of a list, admission with one place). Two CPUs are used where
they compete; a third would be used only by a fourth process.

A page of 12 bytes holds up to five blocks, enough to fuse two and three free
neighbours with used blocks on both sides; two pages are enough for a request
that passes over a full one. `Byte` is 16 in the runs and 256 in the code
(the configuration of the memory process gives pages of 256): above every size of
the page in both, so what is lost of a size is only what was never written.

Memory: two entries are the least with which there is a victim to choose and
another thread may take the one that was chosen; a quota of one entry makes a
process of two pages replace its own. Two frames are fewer than the pages of both
processes, so what one leaves the other takes at once. `MaxUso` bounds the uses
counted for an entry before a new request: the victim depends on their order only.
`MaxPags` and `paginas` bound the pages. Reading a
text takes the same steps as storing one and only its answer is different (a
blank), so the run leaves it out; the theorems do not.
Files: three blocks are enough for both
files to grow and for one to find no room, and the fourth bit is the one past the
partition. A write of 5 bytes goes through three blocks and leaves the list.
`MaxAbiertos` files are opened by a program and `MaxReinicios` is one: the state
after a restart with files no longer promises anything about the bitmap, and what
does not depend on it (`TamanioFiel`, `AperturasContadas`, `BorradoExclusivo`) is
proved for any number.

**Fairness** (`SpecJusta`). Weak fairness of the kernel's thread, enabled
whenever it is not blocked in `select`, and of each CPU's own work, enabled
whenever it does not wait for a message: both are plain sequential processes of
the operating system. A burst is bounded by the quantum, hence it ends. Nothing
forces consoles to act, CPUs to connect or anything to fail. `SpecExclusionJusta`
adds that a script inside its critical section reaches its SIGNAL (strong
fairness: between its bursts it is not enabled), which is what its author
ensures.

### Where the code departs from what it says

| run | shows |
|---|---|
| `grado` | Ending a program that is still NEW decrements `procesosEnSistema`, that never counted it (kernel.c:635): more processes are admitted than the degree allows. With no admitted process the unsigned counter wraps. |
| `paginas` | A process killed in EXEC that then executes ALOCAR gets pages that nobody releases (kernel.c:311). |
| `compactacion` | The header of a fused block is copied with 5 bytes of a struct whose size begins at byte 4 (heapmemo.c:77): unless `malloc` returned zeros the size is wrong and the chain of the page is broken. |

Also met while modelling, described here and not a run.

Kernel and CPU:

- `moverCursor` (cpu.c:1177) ends the burst with no message, although the comment
  of cpu.c:120 says that it was sent already; the CPU and the kernel wait for each
  other. The run `fallas` takes that path, and `OciosaAvisada` is false there.
- A disconnected console is recorded with the code of the FINALIZAR command
  (kernel.c:191), although consola.c:204 has a text for the code of a
  disconnection, which nobody uses.
- A killed waiter stays in `pilaEspera`, so a SIGNAL may be spent on it
  (`ColaDeDormidosOMuertos` is what still holds).
- File operations may be delayed until the next event, by the skip at kernel.c:500.
- "Planificacion detenida" (kernel.c:2104) is printed when one more iteration may
  still begin (`PausaDetiene` says at most one). INFO_PROCESO of a pid that is not
  there follows a null pointer.
- With no lock on the lists, two threads could take one process for two CPUs. The
  steps of `ConsolaKernel` are whole bodies, so it is not shown.

Files:

- A deletion that worked is answered with 0, and `borrarArchivo` reads 0 as an
  error (kernel.c:1661): neither the descriptor nor the entry is removed, and the
  program is told that it was deleted also when it was refused (kernel.c:1658).
- The entry of a file in the global table is never removed: it is searched by the
  path of the PCB, which is "-" in every operation but ABRIR (cpu.c:667-671). A
  file left open by a program that ended can never be deleted.
- Reading or writing a deleted file ends the file system, and with it the kernel;
  so does any use but CERRAR of a file whose metadata was left empty by a death
  (file_system.c:302-307), which can be opened for ever after.
- `buscarLibreEnBitmap` does not stop at `cantBloques`: the first block of a file
  may be outside the partition (`CreceDentro` says that no other is). A write that
  needs more than one new block leaves the list (file_system.c:258-266).

Memory:

- An integer whose value is -1 is answered as the failure of a page that does not
  exist (memoria.c:489). A text that ends exactly with its page asks for the next
  one, and is refused when there is none (memoria.c:707, 827).
- The frame of a hit is read from an entry that may have changed since it was
  compared (memoria.c:627, whose comment says that the page is in the cache): it is
  then that of another page (`pisada`).
- A process that is killed while it runs may store into a frame that it had found
  before and that is now another's (memoria.c:779).
- An integer that ends exactly with its page is never copied (memoria.c:645): what
  is answered is whatever `resultado` held. The result of a string stored in two
  pages is never assigned (memoria.c:846), and its first part goes to the start of
  its page, not to its offset (memoria.c:839).
- An integer stored across the end of its page is reported as done, and its last
  bytes are written at the start of the next frame, whoever has it (memoria.c:779).
- A string that could not be read is answered as a blank that was (memoria.c:500),
  and the CPU does not look at `resultadoDeGuardar` (cpu.c:495-508): a store that
  was refused goes unnoticed.

## 4. Proofs

`SistemaPruebas` proves, for any number of programs, CPUs and semaphores, any
initial values, any degree and any combination of `Eventos`, from the assumptions
named in the modules (`ConstantesCanales`, `ConstantesPlanificador`,
`ConstantesProcesador`, `ConstantesSistema`):

- `TipoSiempreCorrecto`: `Spec => []TipoCorrecto`. Types alone are not
  inductive. `NuevoPrograma` decrements `llegadas`, which is typed in
  `0..MaxPid`: the invariant adds that `readfds.programa` is set only while a
  connection waits (`TipoKernel`). A message carries a pid, so a CPU that is
  running must have one (`ConPid`). There is one lemma per action.
- `SiempreEnUnaLista`: `Spec => []UnicaLista`. Every step of the kernel except
  `NuevoPrograma` is one move between two different lists or leaves them
  (`ListasEnNextKernel`); a move preserves the property (`UnicaTrasMover`: each
  place of the new lists holds what one old place held) and a new program goes
  where it was not (`UnicaTrasCrear`).
- `NuncaUnidadOciosa`: `Spec => []SinUnidadOciosa`. Every step leaves the
  semaphores alone, is a SIGNAL, or is a WAIT (`SemaforosEnNextKernel`); each of
  the two preserves it.

`VuelosPruebas` relates the lists of the kernel to the messages. The lists become
a function `Est` from pids to states; each handler is one `PasaDe` in it or leaves
it alone. The invariant `InvVuelo` holds with any events:

- only a process that is in EXEC or has ended is mentioned by a CPU (its burst, or
  any message with its pid), and by one CPU only. "Or has ended" is needed because
  FINALIZAR ends a process that runs, and its messages still arrive;
- while the process is in EXEC, the message that gives it back is the last thing
  said of it, and a context on its way is the only one. Without this a second
  message would be served for a process that is already in READY.

From it, `ContextoEnUnSoloLugar`: `Spec => []FueraDeExecSinCpu`, unconditionally.

`ColasPruebas` uses both invariants:

- `InvColas`: who is in a queue sleeps on that semaphore or has ended; who sleeps
  on one is in its queue, once; who can run has no mark. A step that leaves the
  queues alone leaves each process as it was, ends it, or changes one that was
  not asleep (`PasoQuieto`). A WAIT queues a process that was in EXEC, hence
  (`InvVuelo`) in no queue. This gives `NadieQueCorreEnCola`,
  `DormidoSiempreEnCola` and `ListoSiempreSinMarca` with any events. The stronger
  `ColaDeDormidos` needs that no console ends programs (`NingunaSenialPerdida`): the
  code that ends a process leaves it in its queue.
- `ImplementaCiclo`: `Spec => CumpleCiclo`. Every step is one arrow of the diagram
  of `CicloDeVida`, one end with one code, or leaves `Est`, `aviso` and the count
  alone (`PasoDelCiclo`), with any events.
- `CuentaSiempreExacta`, `GradoSiempreRespetado`: `procesosEnSistema` is the
  cardinality of the admitted (`CuentaExacta`): each step adds one to the set,
  removes one or leaves it. The hypothesis, that nobody ends a program in NEW, is
  the one whose failure the run `grado` shows.

`ProtocoloPruebas` is about who speaks next. `Protocolo`: each CPU is in one of
four turns (waits for a context, runs a burst, waits for an answer, is gone), with
at most one message on its way in either direction, of the type that the other
side waits for. A heap request that is refused breaks it: `AlocarMal` marks the CPU
free while its burst may still wait for the answer, and a new context may be sent
behind the first message. So `"alocar" \notin Eventos` is a hypothesis of what
follows from it, and each theorem adds the events that end the property some
other way:

| theorem | not among the events | because |
|---|---|---|
| `NuncaEnDosCpus` (`UnaSolaCpu`) | `alocar` | the CPU is given a second process while it runs the first |
| `NingunaCpuOlvidada` (`OciosaAvisada`) | and `cursor` | the burst ends with no message |
| `EjecutandoSiempreEnCpu` (`ExecEnCpu`) | and `cae_cpu` | the process of a dead CPU stays in EXEC |
| `PaginasSoloDeVivos` (`PaginasDeVivos`) | `alocar`, `matar`, `matar_new` | a process killed in EXEC takes pages (run `paginas`) |

On instances like `partidas` TLC refutes each property when any one of these events
is admitted (`alocar` needs a third program for `ExecEnCpu` and a quantum of 2 for
`PaginasDeVivos`), with one exception: no instance tried refutes `OciosaAvisada`
with `alocar`, so there the hypothesis is one of the proof.
The runs that check these properties are instances of the theorems: their events
satisfy the hypotheses, and deaths of CPUs (`partidas`) are among what
`NuncaEnDosCpus` allows.

`ComposicionPruebas` is about what `Exclusion` and `ConsolaKernel` put beside the
kernel. `SiempreExcluyen` states `ExclusionMutua` for any programs, CPUs and
semaphores. Who is inside is not what is inductive: a unit is also held by a
process whose SIGNAL is on its way, and by one that has been given it and has not
left BLOCKED (`Tienen`). Each step leaves the holders and the units of a semaphore
alone, or one process takes a unit, gives it back or passes it to another
(`PasoDeUnidades`). A SIGNAL passes its unit to a process that waits for that very
semaphore *because* of `ColaDeDormidosOMuertos`; a process that finds a unit is the
one that takes it *because* of `SinUnidadOciosa`; and the SIGNAL that is read is the
only one of its process *because* of the turns. These scripts never ask for heap
memory, so the turns hold whatever `Eventos` is. The hypothesis, that no
semaphore starts above `MaxValor`, is about the bound of the model: a semaphore in
use as a lock is below its start, so the bound stops no step (`PasoDelSistema`).
TLC had `InvX` as an invariant of the instance of `exclusion`, with and without
programs that are killed.

`PausaSiempreDetiene` and `SiempreEsperaLaReanudacion` hold for any system and any
commands: in a pause, one iteration at most takes the mutex, and the mutex is free
only after a resume (`InvPausa`).

`HeapPruebas` proves, for pages, headers, requests and numbers of frames of any
size (`ConstantesHeap`), under the hypothesis `MemoriaLimpia`: the new struct of a
fused block holds zeros and a page has no more bytes than a byte has values.
Without it `compactacion` is a counterexample.

- `SiempreTesela`, `NuncaLibresContiguos`, `SiempreUsadosSonVivas`: the invariants
  of the run, which are inductive together (`InvHeap`) and not one by one. A
  release joins at most the free block before it and the one after it, *because*
  there were no free neighbours (`SoltarDejaUnaRacha`); then the pass of
  `_compactar` fuses that run and leaves the rest as it was
  (`CompactarEsFundir`), and the result tiles the page *because* the page did
  (`FundidaBien`). `Liberar` needs `UsadosSonVivas` to know that the pointer is the
  place of a used block (`BloqueDeViva`).
- `ImplementaAsignador`: `Spec => CumpleAsignador`. Every step is one of
  `Asignador` or leaves `vivas` alone; that a new place overlaps none is `Tesela`
  and `UsadosSonVivas` (`LugarNuevo`).

`MemoriaPruebas` proves, for any number of processes, CPUs, frames, entries and
pages (`ConstantesMemoria`), `TiposDeMemoria`, `TablaSiempreFiel`,
`CacheSiempreConcuerda`, `AccesoSiemprePropio` and `RespuestaSiempreCierta`.
`TablaSiempreFiel` says of each page whether it is in the table or not: of an ended
process it has nothing of what it held when its end was asked for, and everything
that the kernel reserved for it later. `AccesoSiemprePropio` and
`RespuestaSiempreCierta` are for processes that live and hits whose entry was
still theirs when the frame was read; otherwise they are false (section 3, what the
code departs from). `RespuestaSiempreCierta` does not speak of failed reads of
integers, of texts that are refused at the end of their page, nor of integers that
pass it. The invariant has three layers, each inductive over the one before:

- `InvMarcos`, about the table and the kernel's thread. `PasoMarcos` says that
  every step is one of its four actions or leaves the table alone
  (`CadaPasoMarcos`), so that the threads of the CPUs do not appear in these
  lemmas. `TablaFiel` needs `FinBien`: what is being ended is a process whose end
  was asked for, and the pages it had then are those that are still to be released.
- `InvHilos`, about the threads. `PasoDe` gives what each step of a thread
  relies on; a step of one thread leaves those of the others as they were
  (`SoloLoSuyo`, `PasoAjeno`), because only the thread at `"bloque"` holds the
  mutex and nobody else writes the entry that it is writing.
- `InvAcuerdo`, between the threads, the cache and the table. A live process that
  is served keeps its frames and pages (`MarcosQuietos`, `PaginasQuietas`): the
  kernel adds pages only to one that does not run or waits. A hit whose
  entry is still its own is true *because* that entry is not being written: who
  writes the entry of a process serves that process, and one CPU runs it
  (`AciertoCierto`, from `EnUnaCpu`).

The second half of the module adds, from the same assumptions, `CuentasSiempreExactas` and
`CuotaSiempreRespetada`. When the search for the next page of an ended process
fails, none of its pages is left in any frame, so the process may leave the list
of the active ones (`LiberarCuenta`, from `TablaFiel`). The quota holds because
the entries of a process are written by the thread that serves it and by no other
(`SoloClaveAgrega`): what the thread counted can only go down until it writes,
whatever others do to the cache (`CuotaAjena`).

`ArchivosPruebas` proves, for any programs, files, sizes and partitions
(`ConstantesFS`, `ConstantesArchivos`), `TamanioSiempreFiel`,
`BloquesSiemprePropios`, `BitmapSiempreFiel` and `ImplementaParticion`. Every step
is for the file system one of those of `PasoFS`. `TamanioSiempreFiel` is about all
lives: a metadata file is whole, or empty (`vaciados`) because it is just being
written again or because an earlier life died before its `fclose`. The invariant
`InvFS` adds to the properties what the request in course relies on (`EnCurso`),
that an empty metadata file has neither size nor blocks (`VaciadosSinNada`) and, in a life
that starts without files, that the bits set at the start belong to no file
(`BasuraAparte`): that is why a free bit is in no file, and a block that is
released was of one file.

Its second half proves `AperturasSiempreContadas`, `BorradoSiempreExclusivo`,
`CreceSiempreDentro`, and the types (`TiposDeArchivos`). Each step registers one
descriptor, removes one, empties the tables or leaves them (`PasoTablas`).
Counting needs that descriptors are new (`FdMenor`), so that a set grows by one,
and that a file without an entry has no descriptors (`SinEntrada`).
`BorradoExclusivo` follows from the count: the set of the openers has one
element, and the program that deletes is in it (`BorraElSuyo`).

Model-checked only: liveness (`PedidoTermina`, `ListoEjecuta`, `DespiertoSigue`,
`SinInanicion`), which the prover does not do; and `CuentaSistema` and
`ColaDeDormidosOMuertos` under the steps of the second thread (run `consola`): the
theorems state them for `Spec`, where the console's thread is not a second actor on
the lists.

## 5. Plan

Done: `Canales`, `Planificador`, `Procesador`, `Consolas`, `Sistema`,
`CicloDeVida`, `Exclusion`, `HeapPagina`, `Asignador`, `ConsolaKernel`, `Memoria`,
`FileSystem`, `Archivos`, `Particion`, and the proof modules of section 4.

Left, in this order:

1. Proofs: `CuentaSistema` and `ColaDeDormidosOMuertos` under `SpecC`.
2. `CpuEjecucion`: the second execution of a blocking instruction, stack limit.
3. `Descriptores`: reuse of descriptors, `listas->programas` that only grows.
4. The threads of the program console and its list of programs.

## 6. Not modelled

The minifier and the manual test programs: text and demonstrations, with no state
that the rest depends on. What the instructions of a script compute (stack,
variables, jumps): no property of the system reads it. Framing and short reads of
the communication library, and the numbers of the descriptors. Two threads
changing one list of the kernel at the same instant: undefined in C.
`PROJECT.json` has, at each hazard without a property, why it has none.
