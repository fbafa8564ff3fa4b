--------------------------- MODULE ArchivosPruebas ----------------------------
(* Theorems about the file system and the tables of open files, for any       *)
(* number of programs, files and blocks.                                      *)
EXTENDS Archivos, FiniteSetTheorems, TLAPS

(* Each action of the system is for the file system one of these steps. A     *)
(* file that has its first block grows if there is room.                      *)
Crece(f) ==
  /\ fs.paso = "espera"
  /\ \/ ~existeArchivo(f)
     \/ TieneMetadata(f) /\ \E size \in Nat : HayLugar(size) /\ Agrega(f, offsetArch, size)
  /\ agregarBloque(f, tamBloque + archivos[f].tam)
Borra(f) == fs.paso = "espera" /\ TieneMetadata(f) /\ borrarArchivo(f)
Termina == /\ fs.paso = "responder" /\ fs' = Espera
           /\ UNCHANGED <<archivos, vaciados, bitmap, inicioVars>>
Arranca ==
  /\ bitmap' \in SUBSET Bloque
  /\ heredados' = {f \in Archivo : existeArchivo(f)}
  /\ basura' = IF heredados' = {} THEN bitmap' ELSE {}
  /\ fs' = Espera
  /\ UNCHANGED <<archivos, vaciados>>
PasoFS ==
  \/ \E f \in Archivo : Crece(f) \/ Borra(f)
  \/ PasoDeFS \/ Termina \/ Arranca \/ UNCHANGED fsVars

(* The request in course is about a file: the block that is being added is    *)
(* already in its list, and the bits to be cleaned are those of its blocks.   *)
EnCurso ==
  /\ fs.paso = "escribir" =>
       fs.archivo \in vaciados /\ fs.nuevo.tam = tamBloque * Len(fs.nuevo.bloques)
  /\ fs.paso \in {"escribir", "ocupar"} =>
       fs.archivo \in Archivo /\ fs.bloque \in BloquesDe(fs.archivo)
  /\ fs.paso = "liberar" =>
       fs.archivo \in Archivo /\ fs.quedan <= Len(archivos[fs.archivo].bloques)

BitsExactos == bitmap = (basura \cup EnUso) \ Pendientes
BasuraAparte == basura \cap EnUso = {}
EnLimpio == Limpio => SinCompartir /\ BitsExactos /\ BasuraAparte

(* An emptied file has neither size nor blocks. *)
VaciadosSinNada == \A f \in vaciados : archivos[f] = SinMetadata

InvFS == TipoFS /\ TamanioFiel /\ VaciadosSinNada /\ EnCurso /\ EnLimpio
-------------------------------------------------------------------------------
(* Division that rounds up, of a multiple. *)
LEMMA Division ==
  ASSUME NEW t \in Nat \ {0}, NEW n \in Nat
  PROVE  redondearArribaDivision(t * n, t) = n
<1> DEFINE a == t * n + t - 1
           q == a \div t
<1>1. a \in Nat
  OBVIOUS
<1>2. q \in Nat /\ t * q <= a /\ a < t * q + t
  BY <1>1
<1>3. ASSUME NEW x \in Nat, NEW y \in Nat, t * x < t * y + t
      PROVE  x <= y
  <2>1. SUFFICES ASSUME x >= y + 1 PROVE FALSE
    OBVIOUS
  <2>2. PICK d \in Nat : x = y + 1 + d
    BY <2>1
  <2>3. t * x = t * y + t + t * d
    BY <2>2
  <2>4. t * d >= 0
    OBVIOUS
  <2> QED BY <1>3, <2>3, <2>4
<1>4. t * n < t * q + t /\ t * q < t * n + t
  BY <1>2
<1>5. n <= q
  BY <1>3, <1>4, <1>2
<1>6. q <= n
  BY <1>3, <1>4, <1>2
<1> QED BY <1>2, <1>5, <1>6 DEF redondearArribaDivision

(* The elements of a sequence that grows by one. *)
LEMMA ConUnoMas ==
  ASSUME NEW S, NEW s \in Seq(S), NEW b \in S
  PROVE  /\ Append(s, b) \in Seq(S) /\ Len(Append(s, b)) = Len(s) + 1
         /\ {Append(s, b)[i] : i \in DOMAIN Append(s, b)} = {s[i] : i \in DOMAIN s} \cup {b}
         /\ \A i \in DOMAIN s : Append(s, b)[i] = s[i]
         /\ Append(s, b)[Len(s) + 1] = b
         /\ DOMAIN Append(s, b) = 1..(Len(s) + 1)
  OBVIOUS

(* The metadata of a file that is not being written again is that on disk. *)
LEMMA ContenidoQuieto ==
  ASSUME TipoFS, fs.paso # "escribir"
  PROVE  contenido = archivos
  BY DEF TipoFS, contenido, Reescribe

(* And the same after a step. *)
LEMMA ContenidoDespues ==
  ASSUME TipoFS', fs'.paso # "escribir"
  PROVE  contenido' = archivos'
  BY DEF TipoFS, contenido, Reescribe

(* The metadata that is about to be written has the type of the other. *)
LEMMA TipoContenido ==
  ASSUME TipoFS
  PROVE  contenido \in [Archivo -> Metadata]
<1>1. archivos \in [Archivo -> Metadata] /\ fs.nuevo \in Metadata
  BY DEF TipoFS, EstadoFS
<1> QED BY <1>1 DEF contenido

(* TAMANIO gives the length of the list. *)
LEMMA TieneSusBloques ==
  ASSUME InvFS, NEW f \in Archivo, TieneMetadata(f)
  PROVE  Tiene(f) = Len(archivos[f].bloques)
<1>1. Len(archivos[f].bloques) \in Nat /\ f \notin vaciados
  BY DEF InvFS, TipoFS, Metadata, VaciadosSinNada, TieneMetadata
<1> QED BY <1>1, Division, ConstantesFS DEF InvFS, TamanioFiel, Tiene

(* A file that does not exist has no blocks. *)
LEMMA SinArchivoSinBloques ==
  ASSUME NEW f \in Archivo, ~existeArchivo(f)
  PROVE  archivos[f].tam = 0 /\ archivos[f].bloques = <<>>
  BY DEF existeArchivo, TieneMetadata, SinMetadata
-------------------------------------------------------------------------------
(* What the first step of a growth does: the file is emptied, and what will   *)
(* be written in it has one block more.                                       *)
LEMMA CreceHace ==
  ASSUME InvFS, NEW f \in Archivo, Crece(f)
  PROVE  \E b \in Bloque :
           /\ EsLibre(b) /\ b \notin bitmap
           /\ fs.paso = "espera" /\ fs' \in EstadoFS
           /\ fs'.paso = "escribir" /\ fs'.archivo = f /\ fs'.bloque = b
           /\ fs'.nuevo = [tam |-> tamBloque + archivos[f].tam,
                           bloques |-> Append(archivos[f].bloques, b)]
           /\ fs'.nuevo \in Metadata
           /\ archivos' = [archivos EXCEPT ![f] = SinMetadata]
           /\ vaciados' = vaciados \cup {f} /\ f \notin vaciados
           /\ contenido = archivos /\ contenido' = [archivos EXCEPT ![f] = fs'.nuevo]
           /\ UNCHANGED <<bitmap, basura, heredados>>
<1> DEFINE s == archivos[f].bloques
           n(b) == [tam |-> tamBloque + archivos[f].tam, bloques |-> Append(s, b)]
<1>1. PICK b \in Bloque :
        /\ EsLibre(b)
        /\ archivos' = [archivos EXCEPT ![f] = SinMetadata]
        /\ vaciados' = vaciados \cup {f}
        /\ fs' = [Espera EXCEPT !.paso = "escribir", !.archivo = f, !.bloque = b, !.nuevo = n(b)]
        /\ UNCHANGED <<bitmap, basura, heredados>>
  BY DEF Crece, agregarBloque, buscarLibreEnBitmap, inicioVars
<1>2. archivos \in [Archivo -> Metadata] /\ s \in Seq(Bloque) /\ archivos[f].tam \in Nat
  BY DEF InvFS, TipoFS, Metadata
<1>3. n(b) \in Metadata
  BY <1>2, ConUnoMas, ConstantesFS DEF Metadata
<1>4. fs' = [paso |-> "escribir", archivo |-> f, bloque |-> b, quedan |-> 0, nuevo |-> n(b)]
  BY <1>1 DEF Espera
<1>5. fs' \in EstadoFS
  BY <1>3, <1>4 DEF EstadoFS
<1>6. fs.paso = "espera" /\ contenido = archivos /\ f \notin vaciados
  BY ContenidoQuieto DEF Crece, InvFS, VaciadosSinNada, TieneMetadata, existeArchivo
<1>7. contenido' = [archivos EXCEPT ![f] = n(b)]
  BY <1>1, <1>2, <1>4 DEF contenido, Reescribe
<1>8. fs'.nuevo = n(b)
  BY <1>4
<1> QED BY <1>1, <1>3, <1>4, <1>5, <1>6, <1>7, <1>8 DEF EsLibre

(* A file grows: the block it takes was of nobody. *)
LEMMA CreceGuarda ==
  ASSUME InvFS, NEW f \in Archivo, Crece(f)
  PROVE  InvFS'
<1>1. PICK b \in Bloque :
        /\ b \notin bitmap /\ fs.paso = "espera" /\ fs' \in EstadoFS
        /\ fs'.paso = "escribir" /\ fs'.archivo = f /\ fs'.bloque = b
        /\ fs'.nuevo = [tam |-> tamBloque + archivos[f].tam,
                        bloques |-> Append(archivos[f].bloques, b)]
        /\ archivos' = [archivos EXCEPT ![f] = SinMetadata]
        /\ vaciados' = vaciados \cup {f} /\ f \notin vaciados
        /\ contenido = archivos /\ contenido' = [archivos EXCEPT ![f] = fs'.nuevo]
        /\ UNCHANGED <<bitmap, basura, heredados>>
  BY CreceHace
<1> DEFINE s == archivos[f].bloques
<1>2. /\ archivos \in [Archivo -> Metadata]
      /\ s \in Seq(Bloque) /\ archivos[f].tam \in Nat /\ Len(s) \in Nat
      /\ DOMAIN s = 1..Len(s)
  BY DEF InvFS, TipoFS, Metadata
<1>3. /\ Append(s, b) \in Seq(Bloque) /\ Len(Append(s, b)) = Len(s) + 1
      /\ {Append(s, b)[i] : i \in DOMAIN Append(s, b)} = {s[i] : i \in DOMAIN s} \cup {b}
      /\ \A i \in DOMAIN s : Append(s, b)[i] = s[i]
      /\ Append(s, b)[Len(s) + 1] = b
      /\ DOMAIN Append(s, b) = 1..(Len(s) + 1)
  BY <1>2, ConUnoMas
<1>4. /\ contenido'[f].bloques = Append(s, b)
      /\ \A g \in Archivo \ {f} : contenido'[g] = contenido[g]
      /\ archivos'[f] = SinMetadata
      /\ \A g \in Archivo \ {f} : archivos'[g] = archivos[g]
  BY <1>1, <1>2
<1>6. /\ BloquesDe(f)' = BloquesDe(f) \cup {b}
      /\ \A g \in Archivo \ {f} : BloquesDe(g)' = BloquesDe(g)
  <2>1. BloquesDe(f) = {s[i] : i \in DOMAIN s}
    BY <1>1 DEF BloquesDe
  <2>2. BloquesDe(f)' = {Append(s, b)[i] : i \in DOMAIN Append(s, b)}
    BY <1>4 DEF BloquesDe
  <2>3. \A g \in Archivo \ {f} : BloquesDe(g)' = BloquesDe(g)
    BY <1>4 DEF BloquesDe
  <2> QED BY <2>1, <2>2, <2>3, <1>3
<1>7. EnUso' = EnUso \cup {b}
  BY <1>6 DEF EnUso
<1>8. TipoFS' /\ VaciadosSinNada'
  <2>1. archivos' \in [Archivo -> Metadata]
    BY <1>1, <1>2 DEF SinMetadata, Metadata
  <2>2. VaciadosSinNada'
    BY <1>1, <1>4 DEF InvFS, TipoFS, VaciadosSinNada
  <2> QED BY <2>1, <2>2, <1>1 DEF InvFS, TipoFS
<1>9. TamanioFiel'
  <2>1. ASSUME NEW g \in Archivo \ {f}
        PROVE  IF g \in vaciados' THEN g \in heredados'
               ELSE archivos'[g].tam = tamBloque * Len(archivos'[g].bloques)
    BY <1>1, <1>4 DEF InvFS, TamanioFiel, Reescribe
  <2>2. Reescribe(f)'
    BY <1>1 DEF Reescribe
  <2>3. f \in vaciados'
    BY <1>1
  <2> QED BY <2>1, <2>2, <2>3 DEF TamanioFiel
<1>10. EnCurso'
  <2>1. tamBloque * (Len(s) + 1) = tamBloque + tamBloque * Len(s)
    BY <1>2, ConstantesFS
  <2>2. archivos[f].tam = tamBloque * Len(s)
    BY <1>1 DEF InvFS, TamanioFiel
  <2>3. fs'.nuevo.tam = tamBloque * Len(fs'.nuevo.bloques)
    BY <2>1, <2>2, <1>1, <1>3
  <2> QED BY <2>3, <1>1, <1>6 DEF EnCurso
<1>11. ASSUME Limpio' PROVE SinCompartir' /\ BitsExactos' /\ BasuraAparte'
  <2>1. SinCompartir /\ BitsExactos /\ BasuraAparte
    BY <1>1, <1>11 DEF InvFS, EnLimpio, Limpio
  <2>2. Pendientes = {}
    BY <1>1 DEF Pendientes
  <2>3. b \notin basura /\ b \notin EnUso
    BY <2>1, <2>2, <1>1 DEF BitsExactos
  <2>4. \A g \in Archivo : b \notin BloquesDe(g)
    BY <2>3 DEF EnUso
  <2>5. \A i \in DOMAIN s : s[i] # b
    BY <2>4, <1>1 DEF BloquesDe
  <2>6. \A g, h \in Archivo : g # h => BloquesDe(g)' \cap BloquesDe(h)' = {}
    BY <2>1, <2>4, <1>6 DEF SinCompartir
  <2>7. \A i, j \in DOMAIN Append(s, b) : Append(s, b)[i] = Append(s, b)[j] => i = j
    BY <2>1, <2>5, <1>1, <1>2, <1>3 DEF SinCompartir
  <2>8. SinCompartir'
    <3>1. ASSUME NEW g \in Archivo
          PROVE  \A i, j \in DOMAIN contenido'[g].bloques :
                   contenido'[g].bloques[i] = contenido'[g].bloques[j] => i = j
      <4>1. CASE g = f
        BY <4>1, <2>7, <1>4
      <4>2. CASE g # f
        BY <4>2, <2>1, <1>4 DEF SinCompartir
      <4> QED BY <4>1, <4>2
    <3> QED BY <2>6, <3>1 DEF SinCompartir
  <2>9. Pendientes' = {b}
    BY <1>1 DEF Pendientes
  <2> QED BY <2>1, <2>2, <2>3, <2>8, <2>9, <1>7, <1>1 DEF BitsExactos, BasuraAparte
<1> QED BY <1>8, <1>9, <1>10, <1>11 DEF InvFS, EnLimpio

(* What a step that leaves the metadata alone has to keep. *)
LEMMA MismoContenido ==
  ASSUME UNCHANGED contenido
  PROVE  /\ \A f \in Archivo : BloquesDe(f)' = BloquesDe(f)
         /\ EnUso' = EnUso /\ (SinCompartir' <=> SinCompartir)
  BY DEF BloquesDe, EnUso, SinCompartir

(* A step of the file system that does not write metadata. *)
LEMMA PasoQuieto ==
  ASSUME InvFS, TipoFS', UNCHANGED <<archivos, vaciados, heredados>>,
         fs.paso # "escribir", fs'.paso # "escribir"
  PROVE  UNCHANGED contenido /\ TamanioFiel' /\ VaciadosSinNada'
<1>1. UNCHANGED contenido
  BY ContenidoQuieto, ContenidoDespues DEF InvFS
<1> QED BY <1>1 DEF InvFS, TamanioFiel, VaciadosSinNada, Reescribe

(* What was in the buffer is on disk: the emptied file has its metadata.      *)
LEMMA EscribirGuarda ==
  ASSUME InvFS, escribirMetadata
  PROVE  InvFS' /\ UNCHANGED contenido
<1>0. PICK f \in Archivo : f = fs.archivo
  BY DEF InvFS, EnCurso, escribirMetadata
<1>1. /\ fs.paso = "escribir" /\ fs.bloque \in BloquesDe(f)
      /\ fs.nuevo.tam = tamBloque * Len(fs.nuevo.bloques)
      /\ archivos' = [archivos EXCEPT ![f] = fs.nuevo]
      /\ vaciados' = vaciados \ {f}
      /\ fs' = [fs EXCEPT !.paso = "ocupar"]
      /\ UNCHANGED <<bitmap, basura, heredados>>
  BY <1>0 DEF InvFS, EnCurso, escribirMetadata, inicioVars
<1>2. /\ archivos \in [Archivo -> Metadata] /\ fs \in EstadoFS /\ fs.nuevo \in Metadata
  BY DEF InvFS, TipoFS, EstadoFS
<1>3. /\ fs' \in EstadoFS /\ fs'.paso = "ocupar" /\ fs'.archivo = f /\ fs'.bloque = fs.bloque
      /\ archivos'[f] = fs.nuevo /\ \A g \in Archivo \ {f} : archivos'[g] = archivos[g]
  BY <1>0, <1>1, <1>2 DEF EstadoFS
<1>4. archivos' \in [Archivo -> Metadata]
  BY <1>1, <1>2
<1>5. TipoFS'
  BY <1>1, <1>3, <1>4 DEF InvFS, TipoFS
<1>6. UNCHANGED contenido
  <2>1. contenido' = archivos'
    BY <1>3, <1>5, ContenidoDespues
  <2>2. contenido = [archivos EXCEPT ![f] = fs.nuevo]
    BY <1>0, <1>1, <1>2 DEF contenido, Reescribe
  <2> QED BY <2>1, <2>2, <1>1
<1>7. TamanioFiel' /\ VaciadosSinNada'
  <2>1. VaciadosSinNada'
    BY <1>1, <1>3 DEF InvFS, TipoFS, VaciadosSinNada
  <2>2. ASSUME NEW g \in Archivo
        PROVE  IF g \in vaciados' THEN g \in heredados'
               ELSE archivos'[g].tam = tamBloque * Len(archivos'[g].bloques)
    <3>1. CASE g = f
      BY <3>1, <1>1, <1>3
    <3>2. CASE g # f
      BY <3>2, <1>0, <1>1, <1>3 DEF InvFS, TamanioFiel, Reescribe
    <3> QED BY <3>1, <3>2
  <2> QED BY <2>1, <2>2 DEF TamanioFiel
<1>8. EnCurso'
  BY <1>1, <1>3, <1>6, MismoContenido DEF EnCurso
<1>9. ASSUME Limpio' PROVE SinCompartir' /\ BitsExactos' /\ BasuraAparte'
  <2>1. SinCompartir /\ BitsExactos /\ BasuraAparte
    BY <1>1, <1>9 DEF InvFS, EnLimpio, Limpio
  <2>2. Pendientes = {fs.bloque} /\ Pendientes' = {fs.bloque}
    BY <1>1, <1>3 DEF Pendientes
  <2> QED BY <2>1, <2>2, <1>1, <1>6, MismoContenido DEF BitsExactos, BasuraAparte
<1> QED BY <1>5, <1>6, <1>7, <1>8, <1>9 DEF InvFS, EnLimpio

(* The bit of the block that was added. *)
LEMMA OcuparGuarda ==
  ASSUME InvFS, ocuparPosicion
  PROVE  InvFS' /\ UNCHANGED contenido
<1>1. /\ fs.paso = "ocupar" /\ fs.archivo \in Archivo /\ fs.bloque \in BloquesDe(fs.archivo)
      /\ bitmap' = bitmap \cup {fs.bloque}
      /\ fs' = [fs EXCEPT !.paso = "responder"]
      /\ UNCHANGED <<archivos, vaciados, basura, heredados>>
  BY DEF InvFS, EnCurso, ocuparPosicion, inicioVars
<1>2. fs'.paso = "responder" /\ fs' \in EstadoFS
  BY <1>1 DEF InvFS, TipoFS, EstadoFS
<1>3. fs.bloque \in EnUso
  BY <1>1 DEF EnUso
<1>4. fs.bloque \in Bloque
  BY <1>1, TipoContenido DEF InvFS, BloquesDe, Metadata
<1>5. TipoFS'
  BY <1>1, <1>2, <1>4 DEF InvFS, TipoFS
<1>6. UNCHANGED contenido /\ TamanioFiel' /\ VaciadosSinNada' /\ EnCurso'
  BY <1>1, <1>2, <1>5, PasoQuieto DEF EnCurso
<1>7. ASSUME Limpio' PROVE SinCompartir' /\ BitsExactos' /\ BasuraAparte'
  <2>1. SinCompartir /\ BitsExactos /\ BasuraAparte
    BY <1>1, <1>7 DEF InvFS, EnLimpio, Limpio
  <2>2. Pendientes = {fs.bloque} /\ Pendientes' = {}
    BY <1>1, <1>2 DEF Pendientes
  <2> QED BY <2>1, <2>2, <1>1, <1>3, <1>6, MismoContenido DEF BitsExactos, BasuraAparte
<1> QED BY <1>5, <1>6, <1>7 DEF InvFS, EnLimpio

(* A deletion begins with all its bits to clean. *)
LEMMA BorraGuarda ==
  ASSUME InvFS, NEW f \in Archivo, Borra(f)
  PROVE  InvFS' /\ UNCHANGED contenido
<1>1. /\ fs.paso = "espera" /\ TieneMetadata(f)
      /\ fs' = [paso |-> "liberar", archivo |-> f, bloque |-> 0, quedan |-> Tiene(f),
                nuevo |-> SinMetadata]
      /\ UNCHANGED <<archivos, vaciados, bitmap, basura, heredados>>
  BY DEF Borra, borrarArchivo, Espera, inicioVars
<1>2. Tiene(f) = Len(archivos[f].bloques) /\ Len(archivos[f].bloques) \in Nat
  BY <1>1, TieneSusBloques DEF InvFS, TipoFS, Metadata
<1>3. TipoFS' /\ EnCurso'
  <2>1. fs' \in EstadoFS
    BY <1>1, <1>2 DEF EstadoFS, SinMetadata, Metadata
  <2> QED BY <2>1, <1>1, <1>2 DEF InvFS, TipoFS, EnCurso
<1>4. Pendientes = {} /\ Pendientes' = {}
  BY <1>1, <1>2 DEF Pendientes
<1>5. UNCHANGED contenido /\ TamanioFiel' /\ VaciadosSinNada'
  BY <1>1, <1>3, PasoQuieto
<1>6. ASSUME Limpio' PROVE SinCompartir' /\ BitsExactos' /\ BasuraAparte'
  <2>1. SinCompartir /\ BitsExactos /\ BasuraAparte
    BY <1>1, <1>6 DEF InvFS, EnLimpio, Limpio
  <2> QED BY <2>1, <1>1, <1>4, <1>5, MismoContenido DEF BitsExactos, BasuraAparte
<1> QED BY <1>3, <1>5, <1>6 DEF InvFS, EnLimpio

(* One bit is cleaned: that of the last block that still had it. *)
LEMMA LiberarGuarda ==
  ASSUME InvFS, liberarPosicion
  PROVE  InvFS' /\ UNCHANGED contenido
<1> DEFINE s == archivos[fs.archivo].bloques
           n == fs.quedan
<1>1. /\ fs.paso = "liberar" /\ n > 0 /\ fs.archivo \in Archivo /\ n <= Len(s)
      /\ bitmap' = bitmap \ {s[n]}
      /\ fs' = [fs EXCEPT !.quedan = fs.quedan - 1]
      /\ UNCHANGED <<archivos, vaciados, basura, heredados>>
  BY DEF InvFS, EnCurso, liberarPosicion, inicioVars
<1>2. /\ n \in Nat /\ n - 1 \in Nat
      /\ fs'.paso = "liberar" /\ fs'.archivo = fs.archivo /\ fs'.quedan = n - 1
      /\ fs' \in EstadoFS
  <2>1. fs \in EstadoFS
    BY DEF InvFS, TipoFS
  <2>2. n \in Nat
    BY <2>1 DEF EstadoFS
  <2>3. n - 1 \in Nat
    BY <2>2, <1>1
  <2> QED BY <2>1, <2>2, <2>3, <1>1 DEF EstadoFS
<1>3. s \in Seq(Bloque) /\ Len(s) \in Nat
  BY <1>1 DEF InvFS, TipoFS, Metadata
<1>4. TipoFS' /\ EnCurso'
  BY <1>1, <1>2, <1>3 DEF InvFS, TipoFS, EnCurso
<1>5. UNCHANGED contenido /\ TamanioFiel' /\ VaciadosSinNada'
  BY <1>1, <1>2, <1>4, PasoQuieto
<1>6. ASSUME Limpio' PROVE SinCompartir' /\ BitsExactos' /\ BasuraAparte'
  <2>1. SinCompartir /\ BitsExactos /\ BasuraAparte
    BY <1>1, <1>6 DEF InvFS, EnLimpio, Limpio
  <2>2. Pendientes = {s[i] : i \in (n + 1)..Len(s)}
    BY <1>1 DEF Pendientes
  <2>3. Pendientes' = {s[i] : i \in (n - 1 + 1)..Len(s)}
    BY <1>1, <1>2 DEF Pendientes
  <2>4. (n - 1 + 1)..Len(s) = {n} \cup ((n + 1)..Len(s))
    BY <1>1, <1>2, <1>3
  <2>5. Pendientes' = Pendientes \cup {s[n]}
    BY <2>2, <2>3, <2>4
  <2> QED BY <2>1, <2>5, <1>1, <1>5, MismoContenido DEF BitsExactos, BasuraAparte
<1> QED BY <1>4, <1>5, <1>6 DEF InvFS, EnLimpio

(* The metadata goes when all its bits are clean, and no other file loses a   *)
(* block.                                                                     *)
LEMMA QuitarGuarda ==
  ASSUME InvFS, quitarMetadata
  PROVE  InvFS'
<1>0. PICK f \in Archivo : f = fs.archivo
  BY DEF InvFS, EnCurso, quitarMetadata
<1> DEFINE s == archivos[f].bloques
<1>1. /\ fs.paso = "liberar" /\ fs.quedan = 0 /\ f = fs.archivo
      /\ archivos' = [archivos EXCEPT ![f] = SinMetadata]
      /\ fs' = [fs EXCEPT !.paso = "responder"]
      /\ UNCHANGED <<vaciados, bitmap, basura, heredados>>
  BY <1>0 DEF quitarMetadata, inicioVars
<1>2. fs'.paso = "responder" /\ fs' \in EstadoFS
  BY <1>1 DEF InvFS, TipoFS, EstadoFS
<1>3. /\ archivos \in [Archivo -> Metadata]
      /\ s \in Seq(Bloque) /\ Len(s) \in Nat /\ DOMAIN s = 1..Len(s)
  BY <1>1 DEF InvFS, TipoFS, Metadata
<1>4. /\ archivos'[f] = SinMetadata
      /\ \A g \in Archivo \ {f} : archivos'[g] = archivos[g]
  BY <1>1, <1>3
<1>5. TipoFS' /\ VaciadosSinNada'
  <2>1. archivos' \in [Archivo -> Metadata]
    BY <1>1, <1>3 DEF SinMetadata, Metadata
  <2> QED BY <2>1, <1>1, <1>2, <1>4 DEF InvFS, TipoFS, VaciadosSinNada
<1>6. TamanioFiel'
  <2>1. ASSUME NEW g \in Archivo
        PROVE  IF g \in vaciados' THEN g \in heredados'
               ELSE archivos'[g].tam = tamBloque * Len(archivos'[g].bloques)
    <3>1. g \in vaciados => g \in heredados
      BY <1>1 DEF InvFS, TamanioFiel, Reescribe
    <3>2. CASE g = f
      BY <3>1, <3>2, <1>1, <1>4, ConstantesFS DEF SinMetadata
    <3>3. CASE g # f
      BY <3>1, <3>3, <1>1, <1>4 DEF InvFS, TamanioFiel
    <3> QED BY <3>2, <3>3
  <2> QED BY <2>1 DEF TamanioFiel
<1>7. EnCurso'
  BY <1>2 DEF EnCurso
<1>8. /\ contenido = archivos /\ contenido' = archivos'
      /\ BloquesDe(f)' = {}
      /\ \A g \in Archivo \ {f} : BloquesDe(g)' = BloquesDe(g)
  <2>1. contenido = archivos /\ contenido' = archivos'
    BY <1>1, <1>2, <1>5, ContenidoQuieto, ContenidoDespues DEF InvFS
  <2> QED BY <2>1, <1>4 DEF BloquesDe, SinMetadata
<1>9. ASSUME Limpio' PROVE SinCompartir' /\ BitsExactos' /\ BasuraAparte'
  <2>1. SinCompartir /\ BitsExactos /\ BasuraAparte
    BY <1>1, <1>9 DEF InvFS, EnLimpio, Limpio
  <2>2. Pendientes = BloquesDe(f) /\ Pendientes' = {}
    BY <1>1, <1>2, <1>3, <1>8 DEF Pendientes, BloquesDe
  <2>3. EnUso' = EnUso \ BloquesDe(f)
    BY <2>1, <1>8 DEF EnUso, SinCompartir
  <2>4. BloquesDe(f) \subseteq EnUso
    BY <1>1 DEF EnUso
  <2>5. BitsExactos' /\ BasuraAparte'
    BY <2>1, <2>2, <2>3, <2>4, <1>1 DEF BitsExactos, BasuraAparte
  <2>6. \A g, h \in Archivo : g # h => BloquesDe(g)' \cap BloquesDe(h)' = {}
    BY <2>1, <1>8 DEF SinCompartir
  <2>7. ASSUME NEW g \in Archivo
        PROVE  \A i, j \in DOMAIN contenido'[g].bloques :
                 contenido'[g].bloques[i] = contenido'[g].bloques[j] => i = j
    <3>1. CASE g = f
      BY <3>1, <1>4, <1>8 DEF SinMetadata
    <3>2. CASE g # f
      BY <3>2, <2>1, <1>4, <1>8 DEF SinCompartir
    <3> QED BY <3>1, <3>2
  <2>8. SinCompartir'
    BY <2>6, <2>7 DEF SinCompartir
  <2> QED BY <2>5, <2>8
<1> QED BY <1>5, <1>6, <1>7, <1>9 DEF InvFS, EnLimpio

(* The answer is sent, or nothing happens. *)
LEMMA TerminaGuarda ==
  ASSUME InvFS, Termina \/ UNCHANGED fsVars
  PROVE  InvFS' /\ UNCHANGED contenido
<1>1. CASE UNCHANGED fsVars
  <2>1. UNCHANGED <<archivos, vaciados, bitmap, basura, heredados, fs>>
    BY <1>1 DEF fsVars, inicioVars
  <2>2. TipoFS' /\ (Limpio' <=> Limpio) /\ UNCHANGED contenido
    BY <2>1 DEF InvFS, TipoFS, Limpio, contenido, Reescribe
  <2>3. EnCurso' /\ TamanioFiel' /\ VaciadosSinNada'
    BY <2>1, <2>2, MismoContenido DEF InvFS, EnCurso, TamanioFiel, VaciadosSinNada, Reescribe
  <2>4. Pendientes' = Pendientes
    BY <2>1 DEF Pendientes
  <2>5. (BitsExactos' <=> BitsExactos) /\ (BasuraAparte' <=> BasuraAparte)
    BY <2>1, <2>2, <2>4, MismoContenido DEF BitsExactos, BasuraAparte
  <2> QED BY <2>1, <2>2, <2>3, <2>5, MismoContenido DEF InvFS, EnLimpio
<1>2. CASE Termina
  <2>1. /\ fs.paso = "responder" /\ fs'.paso = "espera"
        /\ fs' = [paso |-> "espera", archivo |-> Nadie, bloque |-> 0, quedan |-> 0,
                  nuevo |-> SinMetadata]
        /\ UNCHANGED <<archivos, vaciados, bitmap, basura, heredados>>
    BY <1>2 DEF Termina, Espera, inicioVars
  <2>2. TipoFS' /\ EnCurso'
    BY <2>1 DEF InvFS, TipoFS, EstadoFS, SinMetadata, Metadata, EnCurso
  <2>3. Pendientes = {} /\ Pendientes' = {}
    BY <2>1 DEF Pendientes
  <2>4. UNCHANGED contenido /\ TamanioFiel' /\ VaciadosSinNada'
    BY <2>1, <2>2, PasoQuieto
  <2>5. ASSUME Limpio' PROVE SinCompartir' /\ BitsExactos' /\ BasuraAparte'
    <3>1. SinCompartir /\ BitsExactos /\ BasuraAparte
      BY <2>1, <2>5 DEF InvFS, EnLimpio, Limpio
    <3> QED BY <3>1, <2>1, <2>3, <2>4, MismoContenido DEF BitsExactos, BasuraAparte
  <2> QED BY <2>2, <2>4, <2>5 DEF InvFS, EnLimpio
<1> QED BY <1>1, <1>2

(* A life begins: what the bitmap has does not matter if there are no files,  *)
(* and the file that was being written again is one of those there are.       *)
LEMMA ArrancaGuarda ==
  ASSUME InvFS, Arranca
  PROVE  InvFS' /\ (Limpio' => \A f \in Archivo : BloquesDe(f)' = {})
<1>1. /\ bitmap' \in SUBSET Bloque /\ basura' \in SUBSET Bloque
      /\ heredados' = {} => basura' = bitmap'
      /\ heredados' = {f \in Archivo : existeArchivo(f)}
      /\ fs'.paso = "espera"
      /\ fs' = [paso |-> "espera", archivo |-> Nadie, bloque |-> 0, quedan |-> 0,
                nuevo |-> SinMetadata]
      /\ UNCHANGED <<archivos, vaciados>>
  BY DEF Arranca, Espera
<1>2. TipoFS' /\ EnCurso' /\ VaciadosSinNada'
  BY <1>1 DEF InvFS, TipoFS, EstadoFS, SinMetadata, Metadata, EnCurso, VaciadosSinNada
<1>3. TamanioFiel'
  BY <1>1 DEF InvFS, TamanioFiel, existeArchivo
<1>4. contenido' = archivos
  BY <1>1, <1>2, ContenidoDespues
<1>5. ASSUME Limpio'
      PROVE  /\ SinCompartir' /\ BitsExactos' /\ BasuraAparte'
             /\ \A f \in Archivo : BloquesDe(f)' = {}
  <2>1. \A f \in Archivo : ~existeArchivo(f)
    BY <1>1, <1>5 DEF Limpio
  <2>2. \A f \in Archivo : contenido'[f].bloques = <<>>
    BY <2>1, <1>4, SinArchivoSinBloques
  <2>3. (\A f \in Archivo : BloquesDe(f)' = {}) /\ EnUso' = {} /\ SinCompartir'
    BY <2>2 DEF BloquesDe, EnUso, SinCompartir
  <2>4. Pendientes' = {}
    BY <1>1 DEF Pendientes
  <2>5. basura' = bitmap'
    BY <1>1, <1>5 DEF Limpio
  <2> QED BY <2>3, <2>4, <2>5, <1>1 DEF BitsExactos, BasuraAparte
<1> QED BY <1>2, <1>3, <1>5 DEF InvFS, EnLimpio

(* Every step of the file system keeps the invariant. *)
LEMMA PasoFSGuarda ==
  ASSUME InvFS, PasoFS
  PROVE  InvFS'
  BY CreceGuarda, EscribirGuarda, BorraGuarda, OcuparGuarda, LiberarGuarda, QuitarGuarda, TerminaGuarda,
     ArrancaGuarda DEF PasoFS, PasoDeFS
-------------------------------------------------------------------------------
(* The tables. Types, save that of countOpen, whose value follows from what   *)
(* it counts; the kernel waits for the file system whenever it works, and     *)
(* there is a descriptor left for the program that waits to open.             *)
Tope == PrimerDescriptor + MaxAbiertos
TipoTablas ==
  /\ archivosGlobal \subseteq Archivo
  /\ tablaArchivos \in [Pid -> SUBSET Descriptor]
  /\ descriptorNext \in [Pid -> PrimerDescriptor..Tope]
  /\ vivo \in [Pid -> BOOLEAN]
  /\ pedido \in [op : {"nada", "abrir", "borrar", "escribir"}, pid : Pid \cup {Nadie},
                 archivo : Archivo \cup {Nadie}, cae : BOOLEAN]
  /\ enPie \in BOOLEAN /\ reinicios \in 0..MaxReinicios
Sincronia ==
  /\ pedido = SinPedido => fs.paso = "espera"
  /\ pedido.op = "abrir" =>
       pedido.pid \in Pid /\ pedido.archivo \in Archivo /\ descriptorNext[pedido.pid] < Tope
InvTablas == TipoTablas /\ Sincronia

(* Each action of the system is for the tables one of these steps.            *)
Registra(p, f) == descriptorNext[p] < Tope /\ Registrar(p, f)
Quita(p, a) ==
  /\ countOpen' = [countOpen EXCEPT ![a.file] = @ - 1]
  /\ tablaArchivos' = [tablaArchivos EXCEPT ![p] = @ \ {a}]
  /\ UNCHANGED <<archivosGlobal, descriptorNext>>
Vacia ==
  /\ archivosGlobal' = TablasVacias.global /\ countOpen' = TablasVacias.count
  /\ tablaArchivos' = TablasVacias.tabla /\ descriptorNext' = TablasVacias.next
Quedan == UNCHANGED <<archivosGlobal, countOpen, tablaArchivos, descriptorNext>>
PasoTablas ==
  \/ \E p \in Pid, f \in Archivo : Registra(p, f)
  \/ \E p \in Pid : \E a \in tablaArchivos[p] : Quita(p, a)
  \/ Vacia \/ Quedan

(* The types of the four tables are kept by each of those steps.              *)
TipoCuatro ==
  /\ archivosGlobal \subseteq Archivo
  /\ tablaArchivos \in [Pid -> SUBSET Descriptor]
  /\ descriptorNext \in [Pid -> PrimerDescriptor..Tope]

(* The types of the four variables of the tables. *)
LEMMA CuatroGuarda ==
  ASSUME TipoCuatro, PasoTablas
  PROVE  TipoCuatro'
<1>1. Tope \in Nat /\ PrimerDescriptor \in Nat /\ Tope >= PrimerDescriptor
  BY ConstantesArchivos DEF Tope, PrimerDescriptor
<1>2. ASSUME NEW p \in Pid, NEW f \in Archivo, Registra(p, f)
      PROVE  TipoCuatro'
  <2>1. tablaArchivos' = [tablaArchivos EXCEPT ![p] =
          tablaArchivos[p] \cup {[fd |-> descriptorNext[p], file |-> f]}]
    BY <1>2 DEF Registra, Registrar
  <2>2. descriptorNext[p] \in PrimerDescriptor..Tope /\ descriptorNext[p] < Tope
    BY <1>2 DEF TipoCuatro, Registra
  <2>3. /\ descriptorNext[p] \in PrimerDescriptor..(PrimerDescriptor + MaxAbiertos - 1)
        /\ descriptorNext[p] + 1 \in PrimerDescriptor..Tope
    BY <2>2, <1>1, ConstantesArchivos DEF Tope
  <2>4. [fd |-> descriptorNext[p], file |-> f] \in Descriptor
    BY <2>3 DEF Descriptor
  <2>5. tablaArchivos' \in [Pid -> SUBSET Descriptor]
    BY <2>1, <2>4 DEF TipoCuatro
  <2>6. archivosGlobal' \subseteq Archivo /\ descriptorNext' \in [Pid -> PrimerDescriptor..Tope]
    BY <2>3, <1>2 DEF TipoCuatro, Registra, Registrar
  <2> QED BY <2>5, <2>6 DEF TipoCuatro
<1>3. ASSUME NEW p \in Pid, NEW a \in tablaArchivos[p], Quita(p, a)
      PROVE  TipoCuatro'
  BY <1>3 DEF TipoCuatro, Quita
<1>4. CASE Vacia
  BY <1>4, <1>1 DEF TipoCuatro, Vacia, TablasVacias
<1>5. CASE Quedan
  BY <1>5 DEF TipoCuatro, Quedan
<1> QED BY <1>2, <1>3, <1>4, <1>5 DEF PasoTablas
-------------------------------------------------------------------------------
(* When the two processes die the disk keeps the metadata, and the tables and *)
(* the request are lost.                                                      *)
LEMMA MorirPaso ==
  ASSUME InvTablas, Morir
  PROVE  PasoFS /\ PasoTablas /\ InvTablas'
<1>1. PasoFS
  BY DEF Morir, PasoFS, Arranca
<1>2. PasoTablas
  BY DEF Morir, PasoTablas, Vacia
<1>3. TipoCuatro'
  BY <1>2, CuatroGuarda DEF InvTablas, TipoTablas, TipoCuatro
<1>4. /\ pedido' = [op |-> "nada", pid |-> Nadie, archivo |-> Nadie, cae |-> FALSE]
      /\ fs'.paso = "espera" /\ enPie' = FALSE /\ reinicios' = reinicios
      /\ vivo' = [p \in Pid |-> TRUE]
  BY DEF Morir, SinPedido, Espera, TablasVacias
<1> QED BY <1>1, <1>2, <1>3, <1>4 DEF InvTablas, TipoTablas, Sincronia, TipoCuatro

(* A program that ends leaves all but its own mark as it was. *)
LEMMA TerminarPaso ==
  ASSUME InvTablas, NEW p \in Pid, Terminar(p)
  PROVE  PasoFS /\ PasoTablas /\ InvTablas'
<1>1. PasoFS /\ PasoTablas
  BY DEF Terminar, PasoFS, PasoTablas, Quedan
<1> QED BY <1>1 DEF Terminar, sistemaVars, fsVars, InvTablas, TipoTablas, Sincronia

(* The operations that wait for nobody: opening what exists, and closing. *)
LEMMA OperarSinEspera ==
  ASSUME InvTablas, NEW p \in Pid,
         \/ \E f \in Archivo : AbrirExistente(p, f)
         \/ \E a \in tablaArchivos[p] : Cerrar(p, a)
  PROVE  PasoFS /\ PasoTablas /\ InvTablas'
<1>1. UNCHANGED <<fsVars, pedido, vivo, sistemaVars>>
  BY DEF AbrirExistente, Cerrar, Registrar
<1>2. PasoFS
  BY <1>1 DEF PasoFS
<1>3. PasoTablas
  BY DEF AbrirExistente, PuedeAbrir, Cerrar, Registra, Quita, Tope, PasoTablas
<1>4. TipoCuatro'
  BY <1>3, CuatroGuarda DEF InvTablas, TipoTablas, TipoCuatro
<1>5. pedido = SinPedido
  BY DEF AbrirExistente, PuedeAbrir, Cerrar, Atiende
<1> QED
  BY <1>1, <1>2, <1>3, <1>4, <1>5
  DEF InvTablas, TipoTablas, Sincronia, TipoCuatro, fsVars, sistemaVars, SinPedido

(* The operations that wait for the file system. *)
LEMMA OperarConEspera ==
  ASSUME InvTablas, NEW p \in Pid,
         \/ \E f \in Archivo : AbrirCreando(p, f)
         \/ \E a \in tablaArchivos[p] : Borrar(p, a)
         \/ \E a \in tablaArchivos[p], size \in Tamanio : EscribirAgregando(p, a, size)
  PROVE  PasoFS /\ PasoTablas /\ InvTablas'
<1>1. /\ pedido = SinPedido /\ fs.paso = "espera"
      /\ UNCHANGED <<tablasVars, sistemaVars>>
  BY DEF AbrirCreando, PuedeAbrir, Borrar, EscribirAgregando, Atiende, InvTablas, Sincronia
<1>2. \A a \in tablaArchivos[p] : a.file \in Archivo
  BY DEF InvTablas, TipoTablas, Descriptor
<1>3. PasoFS
  <2>1. ASSUME NEW f \in Archivo, AbrirCreando(p, f) PROVE PasoFS
    <3>1. ~existeArchivo(f) /\ agregarBloque(f, tamBloque)
      BY <2>1 DEF AbrirCreando, abrirArchivo
    <3>2. tamBloque = tamBloque + archivos[f].tam
      BY <3>1, SinArchivoSinBloques, ConstantesFS
    <3> QED BY <1>1, <3>1, <3>2 DEF PasoFS, Crece
  <2>2. ASSUME NEW a \in tablaArchivos[p], Borrar(p, a) PROVE PasoFS
    BY <2>2, <1>1, <1>2 DEF Borrar, PasoFS, Borra
  <2>3. ASSUME NEW a \in tablaArchivos[p], NEW size \in Tamanio, EscribirAgregando(p, a, size)
        PROVE  PasoFS
    <3>1. a.file \in Archivo /\ size \in Nat
      BY <1>2, ConstantesArchivos
    <3> QED BY <2>3, <3>1, <1>1
            DEF EscribirAgregando, escribirArchivo, TamanioCrecido, PasoFS, Crece
  <2> QED BY <2>1, <2>2, <2>3
<1>4. PasoTablas
  BY <1>1 DEF tablasVars, PasoTablas, Quedan
<1>5. /\ pedido' # SinPedido
      /\ pedido' \in [op : {"nada", "abrir", "borrar", "escribir"}, pid : Pid \cup {Nadie},
                      archivo : Archivo \cup {Nadie}, cae : BOOLEAN]
      /\ pedido'.op = "abrir" =>
           pedido'.pid \in Pid /\ pedido'.archivo \in Archivo /\ descriptorNext[pedido'.pid] < Tope
  <2>1. CASE \E f \in Archivo : AbrirCreando(p, f)
    <3>1. PICK f \in Archivo : AbrirCreando(p, f)
      BY <2>1
    <3>2. /\ pedido' = [op |-> "abrir", pid |-> p, archivo |-> f, cae |-> FALSE]
          /\ descriptorNext[p] < Tope
      BY <3>1 DEF AbrirCreando, PuedeAbrir, SinPedido, Tope
    <3> QED BY <3>2 DEF SinPedido
  <2>2. CASE \E a \in tablaArchivos[p] : Borrar(p, a)
    <3>1. PICK a \in tablaArchivos[p] : Borrar(p, a)
      BY <2>2
    <3>2. pedido' = [op |-> "borrar", pid |-> p, archivo |-> a.file, cae |-> FALSE]
      BY <3>1 DEF Borrar, SinPedido
    <3> QED BY <3>2, <1>2 DEF SinPedido
  <2>3. CASE \E a \in tablaArchivos[p], size \in Tamanio : EscribirAgregando(p, a, size)
    <3>1. PICK a \in tablaArchivos[p], size \in Tamanio : EscribirAgregando(p, a, size)
      BY <2>3
    <3>2. PICK c \in BOOLEAN :
            pedido' = [op |-> "escribir", pid |-> p, archivo |-> a.file, cae |-> c]
      BY <3>1 DEF EscribirAgregando, SaleDeLaLista
    <3> QED BY <3>2, <1>2 DEF SinPedido
  <2> QED BY <2>1, <2>2, <2>3
<1> QED BY <1>1, <1>3, <1>4, <1>5
        DEF InvTablas, TipoTablas, Sincronia, tablasVars, sistemaVars

(* The file system works and answers, and the system starts again. *)
LEMMA OtrosPasos ==
  ASSUME InvTablas, Trabajar \/ Responder \/ Reiniciar
  PROVE  PasoFS /\ PasoTablas /\ InvTablas'
<1>1. CASE Trabajar
  <2>1. PasoFS /\ PasoTablas /\ UNCHANGED <<tablasVars, pedido, sistemaVars>>
    BY <1>1 DEF Trabajar, PasoFS, PasoTablas, Quedan, tablasVars
  <2>2. fs.paso # "espera"
    BY <1>1 DEF Trabajar, PasoDeFS, escribirMetadata, ocuparPosicion, liberarPosicion, quitarMetadata
  <2> QED BY <2>1, <2>2 DEF InvTablas, TipoTablas, Sincronia, tablasVars, sistemaVars
<1>2. CASE Responder
  <2>1. /\ PasoFS /\ UNCHANGED sistemaVars
        /\ pedido' = [op |-> "nada", pid |-> Nadie, archivo |-> Nadie, cae |-> FALSE]
        /\ fs'.paso = "espera" /\ vivo' = vivo
    BY <1>2 DEF Responder, PasoFS, Termina, SinPedido, Espera, Registrar, tablasVars
  <2>2. PasoTablas
    BY <1>2 DEF Responder, PasoTablas, Registra, Quedan, tablasVars, InvTablas, Sincronia
  <2>3. TipoCuatro'
    BY <2>2, CuatroGuarda DEF InvTablas, TipoTablas, TipoCuatro
  <2> QED BY <2>1, <2>2, <2>3 DEF InvTablas, TipoTablas, Sincronia, TipoCuatro, sistemaVars
<1>3. CASE Reiniciar
  <2>1. /\ PasoFS /\ PasoTablas /\ UNCHANGED <<tablasVars, pedido>>
        /\ fs'.paso = "espera" /\ enPie' = TRUE /\ reinicios' = reinicios + 1
        /\ reinicios < MaxReinicios
    BY <1>3 DEF Reiniciar, ArrancarFS, PasoFS, Arranca, PasoTablas, Quedan, tablasVars, Espera
  <2>2. reinicios' \in 0..MaxReinicios
    BY <2>1, ConstantesArchivos DEF InvTablas, TipoTablas
  <2> QED BY <2>1, <2>2 DEF InvTablas, TipoTablas, Sincronia, tablasVars
<1> QED BY <1>1, <1>2, <1>3

(* Every step is one of the file system and one of the tables. *)
LEMMA Pasos ==
  ASSUME InvTablas, [Next]_vars
  PROVE  PasoFS /\ PasoTablas /\ InvTablas'
<1>1. ASSUME NEW p \in Pid, Operar(p)
      PROVE  PasoFS /\ PasoTablas /\ InvTablas'
  BY <1>1, TerminarPaso, MorirPaso, OperarSinEspera, OperarConEspera
     DEF Operar, Finalizar, UsarSinPermiso, AbrirSinCreacion, BorrarBorrado, UsarSinMetadata
<1>2. CASE Trabajar \/ Responder \/ Reiniciar
  BY <1>2, OtrosPasos
<1>3. CASE EscribirDeMas \/ Caer
  BY <1>3, MorirPaso DEF EscribirDeMas, Caer
<1>4. CASE UNCHANGED vars
  BY <1>4 DEF vars, tablasVars, sistemaVars, fsVars, inicioVars, PasoFS, PasoTablas, Quedan,
              InvTablas, TipoTablas, Sincronia
<1> QED BY <1>1, <1>2, <1>3, <1>4 DEF Next

(* A start, of a file system that has not run. *)
LEMMA Inicio ==
  ASSUME Init
  PROVE  InvFS /\ InvTablas
<1>1. /\ archivos = [f \in Archivo |-> [tam |-> 0, bloques |-> <<>>]] /\ vaciados = {}
      /\ bitmap \in SUBSET Bloque /\ basura = bitmap /\ heredados = {}
      /\ fs = [paso |-> "espera", archivo |-> Nadie, bloque |-> 0, quedan |-> 0,
               nuevo |-> [tam |-> 0, bloques |-> <<>>]]
  BY DEF Init, InitFS, SinMetadata, Espera
<1>2. \A f \in Archivo : archivos[f].bloques = <<>> /\ archivos[f].tam = 0
  BY <1>1
<1>3. TipoFS /\ EnCurso /\ VaciadosSinNada
  BY <1>1 DEF TipoFS, EstadoFS, Metadata, EnCurso, VaciadosSinNada
<1>4. TamanioFiel
  BY <1>1, <1>2, ConstantesFS DEF TamanioFiel
<1>5. contenido = archivos /\ \A f \in Archivo : BloquesDe(f) = {}
  BY <1>1, <1>2, <1>3, ContenidoQuieto DEF BloquesDe
<1>6. EnUso = {} /\ SinCompartir /\ Pendientes = {}
  BY <1>1, <1>2, <1>5 DEF EnUso, SinCompartir, Pendientes
<1>7. EnLimpio
  BY <1>1, <1>6 DEF EnLimpio, BitsExactos, BasuraAparte
<1>8. PrimerDescriptor \in PrimerDescriptor..Tope /\ 0 \in 0..MaxReinicios
  BY ConstantesArchivos DEF PrimerDescriptor, Tope
<1>9. InvTablas
  BY <1>1, <1>8 DEF Init, TablasVacias, SinPedido, InvTablas, TipoTablas, Sincronia
<1> QED BY <1>3, <1>4, <1>7, <1>9 DEF InvFS
-------------------------------------------------------------------------------
(* In every reachable state the metadata and the bitmap agree. *)
THEOREM InvariantesFS == Spec => [](InvFS /\ InvTablas)
<1>1. ASSUME InvFS, InvTablas, [Next]_vars PROVE InvFS' /\ InvTablas'
  BY <1>1, Pasos, PasoFSGuarda
<1> QED BY Inicio, <1>1, PTL DEF Spec

(* In every reachable state, also those that deaths leave between the fopen,  *)
(* the fclose and the bit of a block, a metadata file is whole or empty: if   *)
(* whole, TAMANIO counts the blocks of its list, so that deleting the file    *)
(* goes through all of them; empty, only while it is being written again or   *)
(* if an earlier life ended in the middle of that.                            *)
THEOREM TamanioSiempreFiel == Spec => []TamanioFiel
<1>1. InvFS /\ InvTablas => TamanioFiel
  BY DEF InvFS
<1> QED BY <1>1, InvariantesFS, PTL

(* No block is of two files, nor twice of one, if the process started without *)
(* files.                                                                     *)
THEOREM BloquesSiemprePropios == Spec => []BloquesPropios
<1>1. InvFS /\ InvTablas => BloquesPropios
  BY DEF InvFS, EnLimpio, BloquesPropios
<1> QED BY <1>1, InvariantesFS, PTL

(* In such a life the bitmap has the blocks of the files and what memory held *)
(* when it was allocated, and no block is lost.                               *)
THEOREM BitmapSiempreFiel == Spec => []BitmapFiel
<1>1. InvFS /\ InvTablas => BitmapFiel
  BY DEF InvFS, EnLimpio, BitsExactos, BitmapFiel
<1> QED BY <1>1, InvariantesFS, PTL
-------------------------------------------------------------------------------
(* The owner of a block is the file that has it in its list. *)
LEMMA Duenos ==
  ASSUME SinCompartir, NEW b \in Bloque
  PROVE  /\ \A f \in Archivo : duenoDe[b] = f <=> b \in BloquesDe(f)
         /\ duenoDe[b] = Nadie <=> \A f \in Archivo : b \notin BloquesDe(f)
<1>1. CASE \A f \in Archivo : b \notin BloquesDe(f)
  <2>1. duenoDe[b] = Nadie
    BY <1>1 DEF duenoDe
  <2> QED BY <2>1, <1>1, ConstantesFS
<1>2. CASE \E f \in Archivo : b \in BloquesDe(f)
  <2>1. duenoDe[b] = CHOOSE f \in Archivo : b \in BloquesDe(f)
    BY <1>2 DEF duenoDe
  <2>2. duenoDe[b] \in Archivo /\ b \in BloquesDe(duenoDe[b])
    BY <1>2, <2>1
  <2>3. \A f \in Archivo : b \in BloquesDe(f) => f = duenoDe[b]
    BY <2>2 DEF SinCompartir
  <2> QED BY <2>2, <2>3, <1>2, ConstantesFS
<1> QED BY <1>1, <1>2

(* And the same after a step. *)
LEMMA DuenosDespues ==
  ASSUME SinCompartir', NEW b \in Bloque
  PROVE  /\ \A f \in Archivo : duenoDe'[b] = f <=> b \in BloquesDe(f)'
         /\ duenoDe'[b] = Nadie <=> \A f \in Archivo : b \notin BloquesDe(f)'
<1>1. CASE \A f \in Archivo : b \notin BloquesDe(f)'
  <2>1. duenoDe'[b] = Nadie
    BY <1>1 DEF duenoDe
  <2> QED BY <2>1, <1>1, ConstantesFS
<1>2. CASE \E f \in Archivo : b \in BloquesDe(f)'
  <2>1. duenoDe'[b] = CHOOSE f \in Archivo : b \in BloquesDe(f)'
    BY <1>2 DEF duenoDe
  <2>2. PICK d \in Archivo : d = duenoDe'[b] /\ b \in BloquesDe(d)'
    BY <1>2, <2>1
  <2>3. \A f \in Archivo : b \in BloquesDe(f)' => f = d
    BY <2>2 DEF SinCompartir
  <2> QED BY <2>2, <2>3, <1>2, ConstantesFS
<1> QED BY <1>1, <1>2

(* The step that adds a block takes a free one for its file. *)
LEMMA CreceToma ==
  ASSUME InvFS, InvFS', Limpio', NEW f \in Archivo, Crece(f)
  PROVE  \E b \in Bloque : Particion!Tomar(f, b)
<1>1. PICK b \in Bloque :
        /\ b \notin bitmap /\ fs.paso = "espera"
        /\ fs'.nuevo = [tam |-> tamBloque + archivos[f].tam,
                        bloques |-> Append(archivos[f].bloques, b)]
        /\ contenido = archivos /\ contenido' = [archivos EXCEPT ![f] = fs'.nuevo]
        /\ UNCHANGED <<bitmap, basura, heredados>>
  BY CreceHace
<1>2. Limpio /\ SinCompartir /\ SinCompartir' /\ BitsExactos
  BY <1>1 DEF Limpio, InvFS, EnLimpio
<1>3. contenido \in [Archivo -> Metadata]
  BY TipoContenido DEF InvFS
<1>4. /\ contenido'[f].bloques = Append(contenido[f].bloques, b)
      /\ \A g \in Archivo \ {f} : contenido'[g] = contenido[g]
  BY <1>1, <1>3
<1> DEFINE s == contenido[f].bloques
<1>5. {Append(s, b)[i] : i \in DOMAIN Append(s, b)} = {s[i] : i \in DOMAIN s} \cup {b}
  <2>1. s \in Seq(Bloque)
    BY <1>3 DEF Metadata
  <2> QED BY <2>1, ConUnoMas
<1>6. /\ BloquesDe(f)' = BloquesDe(f) \cup {b}
      /\ \A g \in Archivo \ {f} : BloquesDe(g)' = BloquesDe(g)
  BY <1>4, <1>5 DEF BloquesDe
<1>7. \A g \in Archivo : b \notin BloquesDe(g)
  BY <1>1, <1>2 DEF BitsExactos, Pendientes, EnUso
<1>8. duenoDe[b] = Nadie
  BY <1>2, <1>7, Duenos
<1>9. \A c \in Bloque \ {b} : duenoDe'[c] = duenoDe[c]
  <2>1. SUFFICES ASSUME NEW c \in Bloque \ {b} PROVE duenoDe'[c] = duenoDe[c]
    OBVIOUS
  <2>2. \A g \in Archivo : c \in BloquesDe(g)' <=> c \in BloquesDe(g)
    BY <1>6
  <2> QED BY <1>2, <2>2, Duenos, DuenosDespues, ConstantesFS
<1>10. duenoDe'[b] = f
  BY <1>2, <1>6, DuenosDespues
<1>11. /\ duenoDe = [c \in Bloque |-> duenoDe[c]]
       /\ duenoDe' = [c \in Bloque |-> duenoDe'[c]]
  BY DEF duenoDe
<1>12. duenoDe' = [duenoDe EXCEPT ![b] = f]
  BY <1>9, <1>10, <1>11
<1> QED BY <1>8, <1>12 DEF Particion!Tomar

(* The step that removes the metadata of a file gives its blocks back. *)
LEMMA QuitarDevuelve ==
  ASSUME InvFS, InvFS', Limpio', quitarMetadata
  PROVE  \E f \in Archivo : Particion!Devolver(f)
<1>1. PICK f \in Archivo : f = fs.archivo
  BY DEF InvFS, EnCurso, quitarMetadata
<1>2. Limpio /\ SinCompartir /\ SinCompartir'
  BY DEF quitarMetadata, inicioVars, Limpio, InvFS, EnLimpio
<1>3. /\ archivos'[f].bloques = <<>>
      /\ \A g \in Archivo \ {f} : archivos'[g] = archivos[g]
      /\ fs.paso = "liberar" /\ fs'.paso = "responder"
  BY <1>1 DEF quitarMetadata, InvFS, TipoFS, EstadoFS, SinMetadata
<1>4. /\ BloquesDe(f)' = {}
      /\ \A g \in Archivo \ {f} : BloquesDe(g)' = BloquesDe(g)
  <2>1. contenido = archivos /\ contenido' = archivos'
    BY <1>3, ContenidoQuieto, ContenidoDespues DEF InvFS
  <2> QED BY <2>1, <1>3 DEF BloquesDe
<1>5. ASSUME NEW b \in Bloque
      PROVE  duenoDe'[b] = IF duenoDe[b] = f THEN Nadie ELSE duenoDe[b]
  <2>1. CASE duenoDe[b] = f
    <3>1. \A g \in Archivo : b \notin BloquesDe(g)'
      BY <2>1, <1>2, <1>4, Duenos
    <3> QED BY <3>1, <2>1, <1>2, DuenosDespues
  <2>2. CASE duenoDe[b] # f
    <3>1. \A g \in Archivo : b \in BloquesDe(g)' <=> b \in BloquesDe(g)
      BY <2>2, <1>2, <1>4, Duenos
    <3> QED BY <3>1, <2>2, <1>2, Duenos, DuenosDespues, ConstantesFS
  <2> QED BY <2>1, <2>2
<1>6. duenoDe' = [b \in Bloque |-> duenoDe'[b]]
  BY DEF duenoDe
<1>7. duenoDe' = [b \in Bloque |-> IF duenoDe[b] = f THEN Nadie ELSE duenoDe[b]]
  BY <1>5, <1>6
<1> QED BY <1>7 DEF Particion!Devolver

(* The other steps leave every block with its owner. *)
LEMMA MismosDuenos ==
  ASSUME UNCHANGED contenido
  PROVE  UNCHANGED duenoDe
  BY MismoContenido DEF duenoDe

(* A life that starts without files: no block had an owner, save that of the  *)
(* file that was being written when the last one ended, and it has none now.  *)
LEMMA ArrancaSinDuenos ==
  ASSUME InvFS, Arranca, Limpio'
  PROVE  UNCHANGED contenido
<1>1. fs.paso # "escribir"
  BY DEF InvFS, EnCurso, TipoFS, Arranca, Limpio, existeArchivo
<1>2. UNCHANGED archivos /\ TipoFS' /\ fs'.paso # "escribir"
  BY ArrancaGuarda DEF Arranca, Espera, InvFS
<1> QED BY <1>1, <1>2, ContenidoQuieto, ContenidoDespues DEF InvFS

(* A life that starts without files implements the partition: a file takes    *)
(* only blocks that are free and gives back all of its own, in a single step, *)
(* whatever the steps of the metadata and of the bitmap between them.         *)
THEOREM ImplementaParticion == Spec => CumpleParticion
<1>1. Init => Particion!Init
  <2>1. SUFFICES ASSUME Init PROVE duenoDe = [b \in Bloque |-> Nadie]
    BY DEF Particion!Init
  <2>2. contenido = [f \in Archivo |-> SinMetadata]
    BY <2>1 DEF Init, InitFS, Espera, contenido, Reescribe
  <2>3. \A f \in Archivo : BloquesDe(f) = {}
    BY <2>2 DEF SinMetadata, BloquesDe
  <2> QED BY <2>3 DEF duenoDe
<1>2. ASSUME InvFS, InvTablas, InvFS', [Next]_vars
      PROVE  [Limpio' => Particion!Next]_duenoDe
  <2>1. PasoFS
    BY <1>2, Pasos
  <2>2. CASE \E f \in Archivo : Crece(f)
    BY <2>2, <1>2, CreceToma DEF Particion!Next
  <2>3. CASE quitarMetadata
    BY <2>3, <1>2, QuitarDevuelve DEF Particion!Next
  <2>4. CASE Arranca
    BY <2>4, <1>2, ArrancaSinDuenos, MismosDuenos
  <2>5. CASE \/ \E f \in Archivo : Borra(f)
             \/ escribirMetadata \/ ocuparPosicion \/ liberarPosicion \/ Termina
             \/ UNCHANGED fsVars
    BY <2>5, <1>2, BorraGuarda, EscribirGuarda, OcuparGuarda, LiberarGuarda, TerminaGuarda,
       MismosDuenos
  <2> QED BY <2>1, <2>2, <2>3, <2>4, <2>5 DEF PasoFS, PasoDeFS
<1> QED BY <1>1, <1>2, InvariantesFS, PTL DEF Spec, CumpleParticion
-----------------------------------------------------------------------------
(* Theorems about the kernel's tables of open files: that countOpen tells how *)
(* many descriptors a file has, that nobody else has a file open while it is  *)
(* deleted, and where in the partition the blocks of a file are.              *)

(* The next descriptor of a program is new to it; a file without an entry is  *)
(* open for nobody; and the count is exact.                                   *)
FdMenor == \A p \in Pid : \A a \in tablaArchivos[p] : a.fd < descriptorNext[p]
SinEntrada == \A f \in Archivo : f \notin archivosGlobal => Abiertos(f) = {}
CuentaExacta ==
  /\ countOpen \in [Archivo -> Nat]
  /\ \A f \in Archivo : IsFiniteSet(Abiertos(f)) /\ countOpen[f] = Cardinality(Abiertos(f))
InvCuentas == FdMenor /\ SinEntrada /\ CuentaExacta

(* A finite set with one element more or less. *)
LEMMA UnoMas ==
  ASSUME NEW S, IsFiniteSet(S), NEW x, x \notin S
  PROVE  IsFiniteSet(S \cup {x}) /\ Cardinality(S \cup {x}) = Cardinality(S) + 1
  BY FS_AddElement

(* A nonempty set without one of its elements has one element less. *)
LEMMA UnoMenos ==
  ASSUME NEW S, IsFiniteSet(S), NEW x \in S
  PROVE  IsFiniteSet(S \ {x}) /\ Cardinality(S \ {x}) = Cardinality(S) - 1
  BY FS_RemoveElement

(* Opening adds one descriptor, that the program had not. *)
LEMMA RegistraCuenta ==
  ASSUME InvTablas, InvTablas', InvCuentas, NEW p \in Pid, NEW f \in Archivo, Registra(p, f)
  PROVE  InvCuentas'
<1>1. tablaArchivos' = [tablaArchivos EXCEPT ![p] =
        tablaArchivos[p] \cup {[fd |-> descriptorNext[p], file |-> f]}]
  BY DEF Registra, Registrar
<1> DEFINE d == [fd |-> descriptorNext[p], file |-> f]
           x == <<p, d>>
<1>2. /\ archivosGlobal' = archivosGlobal \cup {f}
      /\ countOpen' = [countOpen EXCEPT ![f] = CuentaCon(f)]
      /\ descriptorNext' = [descriptorNext EXCEPT ![p] = descriptorNext[p] + 1]
  BY DEF Registra, Registrar
<1>3. /\ tablaArchivos \in [Pid -> SUBSET Descriptor]
      /\ descriptorNext \in [Pid -> PrimerDescriptor..Tope]
      /\ \A q \in Pid : descriptorNext[q] \in Int
  BY DEF InvTablas, TipoTablas
<1>4. d \notin tablaArchivos[p]
  BY <1>3 DEF InvCuentas, FdMenor
<1>5. /\ tablaArchivos'[p] = tablaArchivos[p] \cup {d}
      /\ \A q \in Pid \ {p} : tablaArchivos'[q] = tablaArchivos[q]
  BY <1>1, <1>3
<1>6. d \in Descriptor
  BY <1>5 DEF InvTablas, TipoTablas
<1>7. /\ Abiertos(f)' = Abiertos(f) \cup {x} /\ x \notin Abiertos(f)
      /\ \A g \in Archivo \ {f} : Abiertos(g)' = Abiertos(g)
  BY <1>4, <1>5, <1>6 DEF Abiertos
<1>8. FdMenor'
  <2>1. ASSUME NEW q \in Pid, NEW a \in tablaArchivos'[q]
        PROVE  a.fd < descriptorNext'[q]
    <3>1. CASE q = p
      BY <3>1, <1>2, <1>3, <1>5 DEF InvCuentas, FdMenor, Descriptor
    <3>2. CASE q # p
      BY <3>2, <1>2, <1>3, <1>5 DEF InvCuentas, FdMenor
    <3> QED BY <3>1, <3>2
  <2> QED BY <2>1 DEF FdMenor
<1>9. SinEntrada'
  BY <1>2, <1>7 DEF InvCuentas, SinEntrada
<1>10. CuentaCon(f) = Cardinality(Abiertos(f)) + 1
  <2>1. CASE f \in archivosGlobal
    BY <2>1 DEF CuentaCon, InvCuentas, CuentaExacta
  <2>2. CASE f \notin archivosGlobal
    BY <2>2, FS_EmptySet DEF CuentaCon, InvCuentas, SinEntrada
  <2> QED BY <2>1, <2>2
<1>11. IsFiniteSet(Abiertos(f)) /\ Cardinality(Abiertos(f)) \in Nat
  BY FS_CardinalityType DEF InvCuentas, CuentaExacta
<1>12. IsFiniteSet(Abiertos(f)') /\ Cardinality(Abiertos(f)') = CuentaCon(f)
  BY <1>7, <1>10, <1>11, UnoMas
<1>13. CuentaExacta'
  <2>1. CuentaCon(f) \in Nat
    BY <1>10, <1>11
  <2>2. countOpen \in [Archivo -> Nat]
    BY DEF InvCuentas, CuentaExacta
  <2>3. /\ countOpen' \in [Archivo -> Nat] /\ countOpen'[f] = CuentaCon(f)
        /\ \A g \in Archivo \ {f} : countOpen'[g] = countOpen[g]
    BY <2>1, <2>2, <1>2
  <2>4. ASSUME NEW g \in Archivo
        PROVE  IsFiniteSet(Abiertos(g)') /\ countOpen'[g] = Cardinality(Abiertos(g)')
    <3>1. CASE g = f
      BY <3>1, <2>3, <1>12
    <3>2. CASE g # f
      BY <3>2, <2>3, <1>7 DEF InvCuentas, CuentaExacta
    <3> QED BY <3>1, <3>2
  <2> QED BY <2>3, <2>4 DEF CuentaExacta
<1> QED BY <1>8, <1>9, <1>13 DEF InvCuentas

(* Closing removes one. *)
LEMMA QuitaCuenta ==
  ASSUME InvTablas, InvCuentas, NEW p \in Pid, NEW a \in tablaArchivos[p], Quita(p, a)
  PROVE  InvCuentas'
<1>1. /\ countOpen' = [countOpen EXCEPT ![a.file] = countOpen[a.file] - 1]
      /\ tablaArchivos' = [tablaArchivos EXCEPT ![p] = tablaArchivos[p] \ {a}]
      /\ UNCHANGED <<archivosGlobal, descriptorNext>>
  BY DEF Quita
<1>2. tablaArchivos \in [Pid -> SUBSET Descriptor]
  BY DEF InvTablas, TipoTablas
<1>3. a \in Descriptor /\ a.file \in Archivo
  BY <1>2 DEF Descriptor
<1> DEFINE f == a.file
           x == <<p, a>>
<1>4. /\ tablaArchivos'[p] = tablaArchivos[p] \ {a}
      /\ \A q \in Pid \ {p} : tablaArchivos'[q] = tablaArchivos[q]
  BY <1>1, <1>2
<1>5. /\ x \in Abiertos(f) /\ Abiertos(f)' = Abiertos(f) \ {x}
      /\ \A g \in Archivo \ {f} : Abiertos(g)' = Abiertos(g)
  BY <1>3, <1>4 DEF Abiertos
<1>6. FdMenor' /\ SinEntrada'
  <2>1. FdMenor'
    BY <1>1, <1>4 DEF InvCuentas, FdMenor
  <2>2. SinEntrada'
    BY <1>1, <1>5 DEF InvCuentas, SinEntrada
  <2> QED BY <2>1, <2>2
<1>7. IsFiniteSet(Abiertos(f)) /\ countOpen[f] = Cardinality(Abiertos(f)) /\ countOpen[f] \in Nat
  BY <1>3 DEF InvCuentas, CuentaExacta
<1>8. IsFiniteSet(Abiertos(f)') /\ Cardinality(Abiertos(f)') = countOpen[f] - 1
  BY <1>5, <1>7, UnoMenos
<1>9. countOpen[f] - 1 \in Nat
  BY <1>8, FS_CardinalityType
<1>10. CuentaExacta'
  BY <1>1, <1>3, <1>5, <1>8, <1>9 DEF InvCuentas, CuentaExacta
<1> QED BY <1>6, <1>10 DEF InvCuentas

(* The tables of a start are empty, and the other steps leave them alone. *)
LEMMA VaciaCuenta ==
  ASSUME /\ archivosGlobal = {} /\ countOpen = [f \in Archivo |-> 0]
         /\ tablaArchivos = [p \in Pid |-> {}]
  PROVE  InvCuentas
<1>1. \A f \in Archivo : Abiertos(f) = {}
  BY DEF Abiertos
<1>2. CuentaExacta
  BY <1>1, FS_EmptySet DEF CuentaExacta
<1> QED BY <1>1, <1>2 DEF InvCuentas, FdMenor, SinEntrada

(* A death empties the tables, and the count with them. *)
LEMMA VaciaCuentaDespues ==
  ASSUME Vacia
  PROVE  InvCuentas'
<1>1. /\ archivosGlobal' = {} /\ countOpen' = [f \in Archivo |-> 0]
      /\ tablaArchivos' = [p \in Pid |-> {}]
  BY DEF Vacia, TablasVacias
<1>2. \A f \in Archivo : Abiertos(f)' = {}
  BY <1>1 DEF Abiertos
<1>3. CuentaExacta'
  BY <1>1, <1>2, FS_EmptySet DEF CuentaExacta
<1> QED BY <1>1, <1>2, <1>3 DEF InvCuentas, FdMenor, SinEntrada

(* A step that does not touch the tables keeps the count. *)
LEMMA QuedanCuenta ==
  ASSUME InvCuentas, Quedan
  PROVE  InvCuentas'
<1>1. \A f \in Archivo : Abiertos(f)' = Abiertos(f)
  BY DEF Quedan, Abiertos
<1> QED BY <1>1 DEF Quedan, InvCuentas, FdMenor, SinEntrada, CuentaExacta

(* Every step of the tables keeps the count. *)
LEMMA PasoTablasCuenta ==
  ASSUME InvTablas, InvTablas', InvCuentas, PasoTablas
  PROVE  InvCuentas'
  BY RegistraCuenta, QuitaCuenta, VaciaCuentaDespues, QuedanCuenta DEF PasoTablas

(* The invariant of the tables. *)
THEOREM InvariantesTablas == Spec => []InvCuentas
<1>1. Init => InvCuentas
  BY VaciaCuenta DEF Init, TablasVacias
<1>2. InvTablas /\ InvTablas' /\ InvCuentas /\ [Next]_vars => InvCuentas'
  BY Pasos, PasoTablasCuenta
<1> QED BY <1>1, <1>2, InvariantesFS, PTL DEF Spec

(* The values of every variable are in their types: countOpen never goes     *)
(* below zero and no program has more descriptors than it opened.            *)
THEOREM TiposDeArchivos == Spec => []TipoArchivos
<1>1. InvFS /\ InvTablas /\ InvCuentas => TipoArchivos
  BY DEF InvFS, InvTablas, TipoTablas, InvCuentas, CuentaExacta, TipoArchivos, Tope
<1> QED BY <1>1, InvariantesFS, InvariantesTablas, PTL

(* countOpen is the number of descriptors of each file in every reachable     *)
(* state: BORRAR, which looks at nothing else, cannot be misled by it.        *)
THEOREM AperturasSiempreContadas == Spec => []AperturasContadas
<1>1. InvCuentas => AperturasContadas
  BY DEF InvCuentas, CuentaExacta, AperturasContadas
<1> QED BY <1>1, InvariantesTablas, PTL
-------------------------------------------------------------------------------
(* The deletion in course is of a file that its program has open, once.       *)
BorraElSuyo ==
  pedido.op = "borrar" =>
    /\ pedido.pid \in Pid /\ pedido.archivo \in Archivo
    /\ countOpen[pedido.archivo] = 1 /\ TieneAbierto(pedido.pid, pedido.archivo)

(* The program that deletes keeps the file open until it is answered. *)
LEMMA BorraElSuyoGuarda ==
  ASSUME InvTablas, BorraElSuyo, [Next]_vars
  PROVE  BorraElSuyo'
<1>1. CASE pedido'.op # "borrar"
  BY <1>1 DEF BorraElSuyo
<1>2. CASE UNCHANGED <<pedido, countOpen, tablaArchivos>>
  BY <1>2 DEF BorraElSuyo, TieneAbierto
<1>3. ASSUME NEW p \in Pid, NEW a \in tablaArchivos[p], Borrar(p, a)
      PROVE  BorraElSuyo'
  <2>1. /\ pedido' = [op |-> "borrar", pid |-> p, archivo |-> a.file, cae |-> FALSE]
        /\ countOpen[a.file] = 1 /\ UNCHANGED <<countOpen, tablaArchivos>>
    BY <1>3 DEF Borrar, SinPedido, UnicaApertura, tablasVars
  <2>2. a.file \in Archivo
    BY DEF InvTablas, TipoTablas, Descriptor
  <2> QED BY <2>1, <2>2 DEF BorraElSuyo, TieneAbierto
<1>4. ASSUME NEW p \in Pid, Operar(p)
      PROVE  \/ pedido'.op # "borrar" \/ UNCHANGED <<pedido, countOpen, tablaArchivos>>
             \/ \E a \in tablaArchivos[p] : Borrar(p, a)
  <2>1. Morir => pedido'.op # "borrar"
    BY DEF Morir, SinPedido
  <2>2. \A f \in Archivo : AbrirCreando(p, f) => pedido'.op # "borrar"
    BY DEF AbrirCreando, SinPedido
  <2>3. \A f \in Archivo : AbrirExistente(p, f) => pedido'.op # "borrar"
    BY DEF AbrirExistente, PuedeAbrir, Atiende, SinPedido
  <2>4. \A a \in tablaArchivos[p] : Cerrar(p, a) => pedido'.op # "borrar"
    BY DEF Cerrar, Atiende, SinPedido
  <2>5. \A a \in tablaArchivos[p], size \in Tamanio :
          EscribirAgregando(p, a, size) => pedido'.op # "borrar"
    BY DEF EscribirAgregando
  <2>6. Terminar(p) => UNCHANGED <<pedido, countOpen, tablaArchivos>>
    BY DEF Terminar
  <2> QED BY <1>4, <2>1, <2>2, <2>3, <2>4, <2>5, <2>6
          DEF Operar, Finalizar, UsarSinPermiso, AbrirSinCreacion, BorrarBorrado, UsarSinMetadata
<1>5. ASSUME Trabajar \/ Responder \/ EscribirDeMas \/ Caer \/ Reiniciar \/ UNCHANGED vars
      PROVE  pedido'.op # "borrar" \/ UNCHANGED <<pedido, countOpen, tablaArchivos>>
  BY <1>5 DEF Trabajar, Responder, EscribirDeMas, Caer, Morir, Reiniciar, SinPedido, vars,
              tablasVars
<1> QED BY <1>1, <1>2, <1>3, <1>4, <1>5 DEF Next

(* While a file is deleted no other program has it open, in any state that    *)
(* can be reached.                                                            *)
THEOREM BorradoSiempreExclusivo == Spec => []BorradoExclusivo
<1>1. Init => BorraElSuyo
  BY DEF Init, SinPedido, BorraElSuyo
<1>2. InvTablas /\ BorraElSuyo /\ [Next]_vars => BorraElSuyo'
  BY BorraElSuyoGuarda
<1>3. ASSUME InvTablas, InvCuentas, BorraElSuyo, pedido.op = "borrar",
             NEW q \in Pid \ {pedido.pid}, TieneAbierto(q, pedido.archivo)
      PROVE  FALSE
  <2> DEFINE f == pedido.archivo
             p == pedido.pid
  <2>1. PICK a \in tablaArchivos[p] : a.file = f
    BY <1>3 DEF BorraElSuyo, TieneAbierto
  <2>2. PICK b \in tablaArchivos[q] : b.file = f
    BY <1>3 DEF TieneAbierto
  <2>3. a \in Descriptor /\ b \in Descriptor /\ p \in Pid /\ f \in Archivo
    BY <1>3 DEF InvTablas, TipoTablas, BorraElSuyo
  <2>4. <<p, a>> \in Abiertos(f) /\ <<q, b>> \in Abiertos(f) /\ <<p, a>> # <<q, b>>
    BY <2>1, <2>2, <2>3 DEF Abiertos
  <2>5. IsFiniteSet(Abiertos(f)) /\ Cardinality(Abiertos(f)) = 1
    BY <1>3, <2>3 DEF InvCuentas, CuentaExacta, BorraElSuyo
  <2>6. PICK z : Abiertos(f) = {z}
    BY <2>5, FS_Singleton
  <2> QED BY <2>4, <2>6
<1>4. InvTablas /\ InvCuentas /\ BorraElSuyo => BorradoExclusivo
  BY <1>3 DEF BorradoExclusivo
<1> QED BY <1>1, <1>2, <1>4, InvariantesFS, InvariantesTablas, PTL DEF Spec
-------------------------------------------------------------------------------
(* A write that needs another block finds a bit of the partition free.        *)
LEMMA HayBitLibre ==
  ASSUME InvFS, NEW f \in Archivo, TieneMetadata(f), NEW size \in Nat,
         HayLugar(size), Agrega(f, offsetArch, size)
  PROVE  \E b \in 0..(cantBloques - 1) : b \notin bitmap
<1>1. tamBloque \in Nat /\ tamBloque > 0
  BY ConstantesFS
<1>2. offsetArch = 0 /\ offsetArch % tamBloque = 0 /\ BloqueInicial(offsetArch) = 0
  BY <1>1 DEF offsetArch, BloqueInicial
<1>3. Tiene(f) > 0 /\ Tiene(f) \in Int
  <2>1. Tiene(f) \in Nat
    BY TieneSusBloques DEF InvFS, TipoFS, Metadata
  <2> QED BY <2>1, <1>2 DEF Agrega
<1>4. ~((offsetArch % tamBloque) + size <= tamBloque \/ size <= tamBloque)
  <2>1. SUFFICES ASSUME (offsetArch % tamBloque) + size <= tamBloque \/ size <= tamBloque
                 PROVE  FALSE
    OBVIOUS
  <2>2. BloqueFinal(offsetArch, size) = 0
    BY <2>1, <1>2 DEF BloqueFinal, Vueltas
  <2> QED BY <2>2, <1>3 DEF Agrega
<1>5. size > tamBloque
  BY <1>4, <1>1
<1>6. redondearArribaDivision(size, tamBloque) \in Nat \ {0}
  <2> DEFINE x == size + tamBloque - 1
             q == x \div tamBloque
  <2>1. x \in Nat /\ x >= tamBloque
    BY <1>1, <1>5
  <2>2. q \in Int /\ x < tamBloque * q + tamBloque
    BY <2>1, <1>1
  <2>3. SUFFICES ASSUME q <= 0 PROVE FALSE
    BY <2>2 DEF redondearArribaDivision
  <2>4. tamBloque * q <= 0
    BY <2>3, <2>2, <1>1
  <2> QED BY <2>1, <2>2, <2>4, <1>1
<1>7. SUFFICES ASSUME (0..(cantBloques - 1)) \ bitmap = {} PROVE FALSE
  OBVIOUS
<1>8. Cardinality((0..(cantBloques - 1)) \ bitmap) = 0
  BY <1>7, FS_EmptySet
<1> QED BY <1>6, <1>8 DEF HayLugar, cantBloquesLibres

(* A list that grows by a block of the partition. *)
LEMMA UnoMasDentro ==
  ASSUME InvFS, CreceDentro, NEW f \in Archivo, NEW b \in Bloque, NEW nuevo,
         nuevo.bloques = Append(contenido[f].bloques, b),
         contenido' = [contenido EXCEPT ![f] = nuevo],
         contenido[f].bloques = <<>> \/ b < cantBloques
  PROVE  CreceDentro'
<1> DEFINE s == contenido[f].bloques
<1>1. contenido \in [Archivo -> Metadata] /\ s \in Seq(Bloque)
  BY TipoContenido DEF InvFS, Metadata
<1>2. /\ contenido'[f].bloques = Append(s, b)
      /\ \A g \in Archivo \ {f} : contenido'[g] = contenido[g]
  BY <1>1
<1>3. /\ DOMAIN Append(s, b) = 1..(Len(s) + 1) /\ Append(s, b)[Len(s) + 1] = b
      /\ \A i \in DOMAIN s : Append(s, b)[i] = s[i]
      /\ DOMAIN s = 1..Len(s) /\ Len(s) \in Nat
  BY <1>1, ConUnoMas
<1>4. \A i \in DOMAIN s : i > 1 => s[i] < cantBloques
  BY DEF CreceDentro
<1>5. \A i \in DOMAIN Append(s, b) : i > 1 => Append(s, b)[i] < cantBloques
  <2>1. SUFFICES ASSUME NEW i \in 1..(Len(s) + 1), i > 1 PROVE Append(s, b)[i] < cantBloques
    BY <1>3
  <2>2. CASE i = Len(s) + 1
    <3>1. s # <<>>
      BY <2>1, <2>2
    <3> QED BY <3>1, <2>2, <1>3
  <2>3. CASE i # Len(s) + 1
    <3>1. i \in DOMAIN s
      BY <2>3, <1>3
    <3> QED BY <3>1, <2>1, <1>3, <1>4
  <2> QED BY <2>2, <2>3
<1>6. ASSUME NEW g \in Archivo
      PROVE  \A i \in DOMAIN contenido'[g].bloques : i > 1 => contenido'[g].bloques[i] < cantBloques
  <2>1. CASE g = f
    BY <2>1, <1>2, <1>5
  <2>2. CASE g # f
    BY <2>2, <1>2 DEF CreceDentro
  <2> QED BY <2>1, <2>2
<1> QED BY <1>6 DEF CreceDentro

(* Each block added to a file that has one is the first free of the bitmap,   *)
(* and there is one in the partition.                                         *)
LEMMA CreceDentroGuarda ==
  ASSUME InvFS, CreceDentro, NEW f \in Archivo, Crece(f)
  PROVE  CreceDentro'
<1>0. PICK b \in Bloque :
        /\ EsLibre(b)
        /\ fs'.nuevo = [tam |-> tamBloque + archivos[f].tam,
                        bloques |-> Append(archivos[f].bloques, b)]
        /\ contenido = archivos /\ contenido' = [archivos EXCEPT ![f] = fs'.nuevo]
  BY CreceHace
<1>1. /\ EsLibre(b)
      /\ fs'.nuevo.bloques = Append(archivos[f].bloques, b)
      /\ contenido = archivos /\ contenido' = [archivos EXCEPT ![f] = fs'.nuevo]
  BY <1>0
<1>2. CASE ~existeArchivo(f)
  BY <1>1, <1>2, SinArchivoSinBloques, UnoMasDentro
<1>3. ASSUME TieneMetadata(f), NEW size \in Nat, HayLugar(size), Agrega(f, offsetArch, size)
      PROVE  CreceDentro'
  <2>1. PICK c \in 0..(cantBloques - 1) : c \notin bitmap
    BY <1>3, HayBitLibre
  <2>2. c \in Bloque /\ b \in Int /\ c \in Int
    BY <2>1, ConstantesFS DEF Bloque
  <2>3. b <= c
    BY <1>1, <2>1, <2>2 DEF EsLibre
  <2>4. b < cantBloques
    BY <2>1, <2>2, <2>3, ConstantesFS
  <2> QED BY <1>1, <2>4, UnoMasDentro
<1> QED BY <1>2, <1>3 DEF Crece

(* Every block of a file but its first is inside the partition, though the    *)
(* search for a free bit does not stop at its end.                            *)
THEOREM CreceSiempreDentro == Spec => []CreceDentro
<1>1. Init => CreceDentro
  <2>1. SUFFICES ASSUME Init PROVE CreceDentro
    OBVIOUS
  <2>2. contenido = [f \in Archivo |-> SinMetadata]
    BY <2>1 DEF Init, InitFS, Espera, contenido, Reescribe
  <2> QED BY <2>2 DEF SinMetadata, CreceDentro
<1>2. ASSUME InvFS, InvTablas, CreceDentro, [Next]_vars
      PROVE  CreceDentro'
  <2>1. CASE UNCHANGED contenido
    BY <2>1, <1>2 DEF CreceDentro
  <2>2. ASSUME NEW f \in Archivo, Crece(f)
        PROVE  CreceDentro'
    BY <2>2, <1>2, CreceDentroGuarda
  <2>3. ASSUME \A g \in Archivo : contenido'[g] = contenido[g] \/ contenido'[g] = SinMetadata
        PROVE  CreceDentro'
    BY <2>3, <1>2 DEF CreceDentro, SinMetadata
  <2>4. CASE quitarMetadata
    <3>1. /\ fs.paso = "liberar" /\ fs'.paso = "responder"
          /\ \A g \in Archivo : archivos'[g] = archivos[g] \/ archivos'[g] = SinMetadata
      BY <2>4, <1>2 DEF quitarMetadata, InvFS, TipoFS, EstadoFS
    <3>2. contenido = archivos /\ contenido' = archivos'
      BY <2>4, <3>1, <1>2, QuitarGuarda, ContenidoQuieto, ContenidoDespues DEF InvFS
    <3> QED BY <3>1, <3>2, <2>3
  <2>5. CASE Arranca
    <3>1. contenido' = archivos
      BY <2>5, <1>2, ArrancaGuarda, ContenidoDespues DEF InvFS, Arranca, Espera
    <3>2. \A g \in Archivo : archivos[g] = contenido[g] \/ archivos[g] = SinMetadata
      BY <1>2 DEF InvFS, EnCurso, VaciadosSinNada, contenido, Reescribe
    <3> QED BY <3>1, <3>2, <2>3
  <2>6. CASE \/ \E f \in Archivo : Borra(f)
             \/ escribirMetadata \/ ocuparPosicion \/ liberarPosicion \/ Termina
             \/ UNCHANGED fsVars
    BY <2>1, <2>6, <1>2, BorraGuarda, EscribirGuarda, OcuparGuarda, LiberarGuarda, TerminaGuarda
  <2>7. PasoFS
    BY <1>2, Pasos
  <2> QED BY <2>2, <2>4, <2>5, <2>6, <2>7 DEF PasoFS, PasoDeFS
<1> QED BY <1>1, <1>2, InvariantesFS, PTL DEF Spec
===============================================================================
