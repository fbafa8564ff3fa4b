----------------------------- MODULE HeapPruebas ------------------------------
(***************************************************************************)
(* Proofs about HeapPagina, for pages, headers, requests and frames of any *)
(* size, when the struct of a fused block comes clean from malloc().       *)
(***************************************************************************)
EXTENDS HeapPagina, SequenceTheorems, TLAPS

(* What the code needs of malloc() and of the page for the copy of a fused *)
(* header to be right.                                                     *)
MemoriaLimpia == Basura = {0} /\ TamPage <= Byte

PaginaBien(P) == P \subseteq Bloques /\ TeselaDe(P) /\ SinLibresContiguosEn(P)

-----------------------------------------------------------------------------
(* A free block cut in two leaves a page that is well formed, with one     *)
(* used block more.                                                        *)
LEMMA PartirBien ==
  ASSUME NEW P, PaginaBien(P), NEW n \in Nat, NEW b \in P, Disponible(b, n)
  PROVE  /\ PaginaBien(Partir(P, b, n))
         /\ \A x : x.usado => (x \in Partir(P, b, n) <=> x \in P \/ x = Bloque(b.ini, n, TRUE))
<1> DEFINE u == Bloque(b.ini, n, TRUE)
           r == Bloque(b.ini + Cabecera + n, b.tam - (Cabecera + n), FALSE)
           Q == (P \ {b}) \cup {u, r}
<1>1. Q = Partir(P, b, n)
  BY DEF Partir
<1>2. /\ b \in Bloques /\ ~b.usado /\ b.tam > n + Cabecera
      /\ b.ini \in Nat /\ b.tam \in Nat
      /\ Cabecera \in Nat /\ Cabecera > 0 /\ TamPage \in Nat
  BY ConstantesHeap DEF PaginaBien, Disponible, Bloques
<1>3. /\ u \in Bloques /\ u.ini = b.ini /\ u.tam = n /\ u.usado
      /\ r \in Bloques /\ r.ini = b.ini + Cabecera + n
      /\ r.tam = b.tam - (Cabecera + n) /\ ~r.usado
  BY <1>2 DEF Bloque, Bloques
<1> HIDE DEF u, r
<1>4. Siguiente(u) = r.ini /\ Siguiente(r) = Siguiente(b)
      /\ b.ini < r.ini /\ r.ini < Siguiente(b)
  BY <1>2, <1>3 DEF Siguiente
<1>5. \A x \in Bloques : x.ini \in Nat /\ x.tam \in Nat /\ Siguiente(x) \in Nat /\ x.ini < Siguiente(x)
  BY <1>2 DEF Bloques, Siguiente
<1>6. Q \subseteq Bloques
  BY <1>3 DEF PaginaBien
<1>7. \A x \in P : x = b \/ Siguiente(x) <= b.ini \/ Siguiente(b) <= x.ini
  BY DEF PaginaBien, TeselaDe
<1>8. TeselaDe(Q)
  <2>1. \E x \in Q : x.ini = 0
    BY <1>3 DEF PaginaBien, TeselaDe
  <2>2. \A x \in Q : x.ini = 0 \/ \E a \in Q : Siguiente(a) = x.ini
    BY <1>3, <1>4 DEF PaginaBien, TeselaDe
  <2>3. \A x \in Q : Siguiente(x) = TamPage \/ \E c \in Q : c.ini = Siguiente(x)
    BY <1>3, <1>4 DEF PaginaBien, TeselaDe
  <2>4. \A x \in Q : Siguiente(x) <= TamPage
    BY <1>2, <1>3, <1>4, <1>5 DEF PaginaBien, TeselaDe
  <2>5. \A x, y \in Q : x = y \/ Siguiente(x) <= y.ini \/ Siguiente(y) <= x.ini
    <3> SUFFICES ASSUME NEW x \in Q, NEW y \in Q, x # y
                 PROVE Siguiente(x) <= y.ini \/ Siguiente(y) <= x.ini
      OBVIOUS
    <3>1. CASE x \in P /\ y \in P
      BY <3>1 DEF PaginaBien, TeselaDe
    <3>2. CASE x \in P \ {b} /\ y \in {u, r}
      BY <3>2, <1>2, <1>3, <1>4, <1>5, <1>7 DEF PaginaBien
    <3>3. CASE y \in P \ {b} /\ x \in {u, r}
      BY <3>3, <1>2, <1>3, <1>4, <1>5, <1>7 DEF PaginaBien
    <3>4. CASE x \in {u, r} /\ y \in {u, r}
      BY <3>4, <1>3, <1>4, <1>5
    <3> QED BY <3>1, <3>2, <3>3, <3>4
  <2> QED BY <2>1, <2>2, <2>3, <2>4, <2>5 DEF TeselaDe
<1>9. SinLibresContiguosEn(Q)
  <2> SUFFICES ASSUME NEW x \in Libres(Q), NEW y \in Libres(Q), Siguiente(x) = y.ini
               PROVE FALSE
    BY DEF SinLibresContiguosEn
  <2>1. x # u /\ y # u /\ x \in Q /\ y \in Q /\ ~x.usado /\ ~y.usado
    BY <1>3 DEF Libres
  <2>2. CASE x = r
    BY <2>1, <2>2, <1>2, <1>3, <1>4, <1>5 DEF PaginaBien, SinLibresContiguosEn, Libres
  <2>3. CASE y = r
    BY <2>1, <2>3, <1>2, <1>3, <1>4, <1>5, <1>7 DEF PaginaBien
  <2>4. CASE x # r /\ y # r
    BY <2>1, <2>4 DEF PaginaBien, SinLibresContiguosEn, Libres
  <2> QED BY <2>2, <2>3, <2>4
<1>10. \A x : x.usado => (x \in Q <=> x \in P \/ x = u)
  BY <1>2, <1>3
<1> QED BY <1>1, <1>6, <1>8, <1>9, <1>10 DEF PaginaBien, u
-----------------------------------------------------------------------------
(* The page where the blocks from s to the place f have become one.        *)
Fundida(R, s, f) ==
  {x \in R : x.ini < s.ini \/ f <= x.ini} \cup {Bloque(s.ini, f - s.ini - Cabecera, FALSE)}

(* s and f delimit a run of free blocks, and any two free neighbours are   *)
(* in it.                                                                  *)
UnicaRacha(R, s, f) ==
  /\ s \in Libres(R) /\ AbreRacha(R, s) /\ CierraRacha(R, s, f)
  /\ \A a, c \in Libres(R) : Siguiente(a) = c.ini => s.ini <= a.ini /\ c.ini < f

(* The numbers of a block.                                                 *)
LEMMA Numeros ==
  /\ Cabecera \in Nat /\ Cabecera > 0 /\ TamPage \in Nat /\ Byte \in Nat
  /\ \A x \in Bloques : /\ x.ini \in Nat /\ x.tam \in Nat
                        /\ Siguiente(x) \in Nat /\ x.ini < Siguiente(x)
                        /\ x.tam = Siguiente(x) - x.ini - Cabecera
BY ConstantesHeap DEF Bloques, Siguiente

(* A remainder of something smaller than the divisor.                      *)
LEMMA RestoMenor ==
  ASSUME NEW v \in Nat, NEW m \in Nat, v < m
  PROVE  (v % m) + m * 0 = v
OBVIOUS

(* A run of free blocks has one end only, inside the page, and no block    *)
(* of it goes beyond.                                                      *)
LEMMA FinDeRacha ==
  ASSUME NEW R, R \subseteq Bloques, TeselaDe(R),
         NEW s \in Libres(R), NEW f, CierraRacha(R, s, f)
  PROVE  /\ f \in Nat /\ f <= TamPage /\ s.ini < f
         /\ f = TamPage \/ \E c \in R : c.ini = f /\ c.usado
         /\ \A x \in R : x.ini < f => Siguiente(x) <= f
         /\ \A g : CierraRacha(R, s, g) => g = f
<1>1. PICK e \in Libres(R) : s.ini <= e.ini /\ Siguiente(e) = f
  BY DEF CierraRacha
<1>2. \A x \in R : x \in Bloques
  OBVIOUS
<1>3. f \in Nat /\ f <= TamPage /\ s.ini < f
  BY <1>1, <1>2, Numeros DEF TeselaDe, Libres
<1>4. f = TamPage \/ \E c \in R : c.ini = f /\ c.usado
  BY <1>1, <1>2 DEF TeselaDe, CierraRacha, Libres
<1>5. \A x \in R : x.ini < f => Siguiente(x) <= f
  BY <1>1, <1>2, <1>3, Numeros DEF TeselaDe, Libres
<1>6. ASSUME NEW g, CierraRacha(R, s, g) PROVE g = f
  <2>1. PICK d \in Libres(R) : s.ini <= d.ini /\ Siguiente(d) = g
    BY <1>6 DEF CierraRacha
  <2>2. g \in Nat /\ g <= TamPage /\ s.ini < g
    BY <2>1, <1>2, Numeros DEF TeselaDe, Libres
  <2>3. g = TamPage \/ \E c \in R : c.ini = g /\ c.usado
    BY <1>6, <2>1, <1>2 DEF TeselaDe, CierraRacha, Libres
  <2>4. ~(f < g)
    BY <1>3, <1>4, <1>6, <1>2, <2>2, Numeros DEF CierraRacha, Libres
  <2>5. ~(g < f)
    BY <1>3, <2>3, <1>2, <2>2, Numeros DEF CierraRacha, Libres
  <2> QED BY <1>3, <2>2, <2>4, <2>5
<1> QED BY <1>3, <1>4, <1>5, <1>6

(* What _compactar writes, when only one run has more than one block.      *)
LEMMA CompactarEsFundir ==
  ASSUME NEW R, R \subseteq Bloques, TeselaDe(R), MemoriaLimpia,
         NEW s, NEW f, UnicaRacha(R, s, f)
  PROVE  Compactar(R, 0) = Fundida(R, s, f)
<1>1. /\ s \in Libres(R) /\ s \in R /\ s \in Bloques /\ ~s.usado
      /\ AbreRacha(R, s) /\ CierraRacha(R, s, f)
      /\ \A x \in R : x \in Bloques
  BY DEF UnicaRacha, Libres
<1>2. /\ f \in Nat /\ f <= TamPage /\ s.ini < f
      /\ \A x \in R : x.ini < f => Siguiente(x) <= f
      /\ \A g : CierraRacha(R, s, g) => g = f
  BY <1>1, FinDeRacha
<1>3. ASSUME NEW x \in Libres(R), AbreRacha(R, x)
      PROVE  x = s \/ x.ini < s.ini \/ f <= x.ini
  <2> SUFFICES ASSUME s.ini < x.ini, x.ini < f PROVE FALSE
    BY <1>1, <1>2, Numeros DEF Libres, TeselaDe
  <2>1. PICK a \in R : Siguiente(a) = x.ini
    BY <1>1, Numeros DEF Libres, TeselaDe
  <2>2. s.ini <= a.ini /\ a.ini < f
    BY <2>1, <1>1, <1>2, Numeros DEF Libres, TeselaDe
  <2> QED BY <2>1, <2>2, <1>1, <1>3 DEF CierraRacha, AbreRacha, Libres
<1>4. ASSUME NEW x \in Libres(R), x.ini < s.ini \/ f <= x.ini
      PROVE  /\ AbreRacha(R, x)
             /\ \A c \in Libres(R) : Siguiente(x) # c.ini
             /\ CierraRacha(R, x, Siguiente(x))
  <2>1. AbreRacha(R, x)
    BY <1>1, <1>2, <1>4, Numeros DEF UnicaRacha, AbreRacha, Libres
  <2>2. \A c \in Libres(R) : Siguiente(x) # c.ini
    BY <1>1, <1>2, <1>4, Numeros DEF UnicaRacha, Libres
  <2>3. CierraRacha(R, x, Siguiente(x))
    BY <2>2, <1>1, Numeros DEF CierraRacha, Libres, TeselaDe
  <2> QED BY <2>1, <2>2, <2>3
<1>5. ASSUME NEW x \in Libres(R), NEW g, x.ini < s.ini \/ f <= x.ini
      PROVE  CierraRacha(R, x, g) <=> g = Siguiente(x)
  BY <1>4, <1>5, FinDeRacha
<1>6. \A x \in Libres(R) : Bloque(x.ini, x.tam, FALSE) = x
  BY <1>1 DEF Libres, Bloque, Bloques
<1>7. TamEscrito(s, f, 0) = f - s.ini - Cabecera
  <2>1. CASE f = Siguiente(s)
    BY <2>1, <1>1, Numeros DEF TamEscrito
  <2>2. CASE f # Siguiente(s)
    <3>1. f - s.ini - Cabecera \in Nat /\ f - s.ini - Cabecera < Byte
      BY <1>1, <1>2, Numeros DEF MemoriaLimpia, TeselaDe, Siguiente
    <3> QED BY <3>1, <2>2, RestoMenor, Numeros DEF TamEscrito
  <2> QED BY <2>1, <2>2
<1>8. \A x \in Libres(R) : TamEscrito(x, Siguiente(x), 0) = x.tam
  BY DEF TamEscrito
<1>9. Compactar(R, 0) \subseteq Fundida(R, s, f)
  <2>1. \A x \in R : x.usado => x.ini < s.ini \/ f <= x.ini
    BY <1>1, <1>2, Numeros DEF CierraRacha
  <2>2. ASSUME NEW z \in Rachas(R)
        PROVE  Bloque(z[1].ini, TamEscrito(z[1], z[2], 0), FALSE) \in Fundida(R, s, f)
    <3>1. z[1] \in Libres(R) /\ AbreRacha(R, z[1]) /\ CierraRacha(R, z[1], z[2])
      BY DEF Rachas
    <3>2. CASE z[1] = s
      BY <3>1, <3>2, <1>2, <1>7 DEF Fundida
    <3>3. CASE z[1].ini < s.ini \/ f <= z[1].ini
      <4>1. z[2] = Siguiente(z[1])
        BY <3>1, <3>3, <1>5
      <4>2. Bloque(z[1].ini, TamEscrito(z[1], z[2], 0), FALSE) = z[1]
        BY <4>1, <3>1, <1>6, <1>8
      <4> QED BY <4>2, <3>1, <3>3 DEF Fundida, Libres
    <3> QED BY <3>1, <3>2, <3>3, <1>3
  <2> QED BY <2>1, <2>2 DEF Compactar, Fundida
<1>10. Fundida(R, s, f) \subseteq Compactar(R, 0)
  <2>1. ASSUME NEW x \in Libres(R), NEW g, AbreRacha(R, x), CierraRacha(R, x, g)
        PROVE  Bloque(x.ini, TamEscrito(x, g, 0), FALSE) \in Compactar(R, 0)
    <3>1. g \in {Siguiente(a) : a \in R}
      BY <2>1 DEF CierraRacha, Libres
    <3>2. <<x, g>> \in Rachas(R)
      BY <3>1, <2>1 DEF Rachas
    <3>3. \E z \in Rachas(R) : z[1] = x /\ z[2] = g
      BY <3>2
    <3> QED BY <3>3 DEF Compactar
  <2>2. Bloque(s.ini, f - s.ini - Cabecera, FALSE) \in Compactar(R, 0)
    BY <2>1, <1>1, <1>7
  <2>3. ASSUME NEW x \in Libres(R), x.ini < s.ini \/ f <= x.ini
        PROVE  x \in Compactar(R, 0)
    <3>1. AbreRacha(R, x) /\ CierraRacha(R, x, Siguiente(x))
      BY <2>3, <1>4
    <3>2. Bloque(x.ini, TamEscrito(x, Siguiente(x), 0), FALSE) \in Compactar(R, 0)
      BY <3>1, <2>1
    <3> QED BY <3>2, <1>6, <1>8
  <2>4. \A x \in R : x.usado => x \in Compactar(R, 0)
    BY DEF Compactar
  <2> QED BY <2>2, <2>3, <2>4 DEF Fundida, Libres
<1> QED BY <1>9, <1>10

(* Fusing the only run of a page leaves it well formed, with the same used *)
(* blocks.                                                                 *)
LEMMA FundidaBien ==
  ASSUME NEW R, R \subseteq Bloques, TeselaDe(R), NEW s, NEW f, UnicaRacha(R, s, f)
  PROVE  /\ PaginaBien(Fundida(R, s, f))
         /\ \A x : x.usado => (x \in Fundida(R, s, f) <=> x \in R)
<1> DEFINE u == Bloque(s.ini, f - s.ini - Cabecera, FALSE)
           A == {x \in R : x.ini < s.ini \/ f <= x.ini}
           Q == A \cup {u}
<1>1. /\ s \in Libres(R) /\ s \in R /\ s \in Bloques /\ ~s.usado
      /\ AbreRacha(R, s) /\ CierraRacha(R, s, f)
      /\ \A x \in R : x \in Bloques
  BY DEF UnicaRacha, Libres
<1>2. /\ f \in Nat /\ f <= TamPage /\ s.ini < f /\ Siguiente(s) <= f
      /\ f = TamPage \/ \E c \in R : c.ini = f
      /\ \A x \in R : x.ini < f => Siguiente(x) <= f
  BY <1>1, FinDeRacha
<1>3. f - s.ini - Cabecera \in Nat
  BY <1>1, <1>2, Numeros DEF Siguiente
<1>4. /\ u \in Bloques /\ u.ini = s.ini /\ u.tam = f - s.ini - Cabecera /\ ~u.usado
  BY <1>1, <1>3 DEF Bloque, Bloques
<1> HIDE DEF u
<1>5. Siguiente(u) = f
  BY <1>1, <1>2, <1>4, Numeros DEF Siguiente
<1>6. Q \subseteq Bloques
  BY <1>4
<1>7. \A x \in A : /\ x \in R /\ x \in Bloques
                   /\ Siguiente(x) <= s.ini \/ f <= x.ini
  BY <1>1, Numeros DEF TeselaDe
<1>8. TeselaDe(Q)
  <2>1. \E x \in Q : x.ini = 0
    BY <1>1, <1>4, Numeros DEF TeselaDe
  <2>2. \A x \in Q : x.ini = 0 \/ \E a \in Q : Siguiente(a) = x.ini
    <3>1. ASSUME NEW x \in A, x.ini # 0 PROVE \E a \in Q : Siguiente(a) = x.ini
      <4>1. PICK a \in R : Siguiente(a) = x.ini
        BY <3>1, <1>7 DEF TeselaDe
      <4> QED BY <4>1, <3>1, <1>1, <1>2, <1>5, <1>7, Numeros
    <3>2. u.ini # 0 => \E a \in Q : Siguiente(a) = u.ini
      <4> SUFFICES ASSUME u.ini # 0 PROVE \E a \in Q : Siguiente(a) = u.ini
        OBVIOUS
      <4>1. PICK a \in R : Siguiente(a) = s.ini
        BY <1>1, <1>4 DEF TeselaDe
      <4> QED BY <4>1, <1>1, <1>4, Numeros
    <3> QED BY <3>1, <3>2
  <2>3. \A x \in Q : Siguiente(x) = TamPage \/ \E c \in Q : c.ini = Siguiente(x)
    <3>1. ASSUME NEW x \in A, Siguiente(x) # TamPage
          PROVE  \E c \in Q : c.ini = Siguiente(x)
      <4>1. PICK c \in R : c.ini = Siguiente(x)
        BY <3>1, <1>7 DEF TeselaDe
      <4>2. CASE c \in A
        BY <4>1, <4>2
      <4>3. CASE c \notin A
        <5>1. /\ s.ini \in Nat /\ c.ini \in Nat /\ x.ini \in Nat /\ x.ini < Siguiente(x)
              /\ s.ini <= c.ini /\ c.ini < f
          BY <4>1, <4>3, <3>1, <1>1, <1>2, <1>7, Numeros
        <5>2. c.ini = u.ini
          BY <5>1, <4>1, <3>1, <1>2, <1>4, <1>7
        <5> QED BY <5>2, <4>1
      <4> QED BY <4>2, <4>3
    <3>2. Siguiente(u) = TamPage \/ \E c \in Q : c.ini = Siguiente(u)
      BY <1>1, <1>2, <1>5, Numeros
    <3> QED BY <3>1, <3>2
  <2>4. \A x \in Q : Siguiente(x) <= TamPage
    BY <1>2, <1>5, <1>7 DEF TeselaDe
  <2>5. \A x, y \in Q : x = y \/ Siguiente(x) <= y.ini \/ Siguiente(y) <= x.ini
    BY <1>4, <1>5, <1>7 DEF TeselaDe
  <2> QED BY <2>1, <2>2, <2>3, <2>4, <2>5 DEF TeselaDe
<1>9. SinLibresContiguosEn(Q)
  <2> SUFFICES ASSUME NEW x \in Libres(Q), NEW y \in Libres(Q), Siguiente(x) = y.ini
               PROVE FALSE
    BY DEF SinLibresContiguosEn
  <2>1. CASE x \in A /\ y \in A
    BY <2>1, <1>1, <1>2, <1>7, Numeros DEF Libres, UnicaRacha
  <2>2. CASE x \in A /\ y = u
    BY <2>2, <1>1, <1>4, <1>7 DEF Libres, AbreRacha
  <2>3. CASE x = u /\ y \in A
    BY <2>3, <1>1, <1>5, <1>7 DEF Libres, CierraRacha
  <2>4. CASE x = u /\ y = u
    BY <2>4, <1>1, <1>2, <1>4, <1>5, Numeros
  <2> QED BY <2>1, <2>2, <2>3, <2>4 DEF Libres
<1>10. \A x \in R : x.usado => x.ini < s.ini \/ f <= x.ini
  BY <1>1, <1>2, Numeros DEF CierraRacha
<1>11. Q = Fundida(R, s, f)
  BY DEF Fundida, u
<1> QED BY <1>4, <1>6, <1>8, <1>9, <1>10, <1>11 DEF PaginaBien

-----------------------------------------------------------------------------
(* Releasing a block joins at most the free block before it and the one    *)
(* after it.                                                               *)
LEMMA SoltarDejaUnaRacha ==
  ASSUME NEW P, PaginaBien(P), NEW b \in P, b.usado
  PROVE  /\ Soltar(P, b) \subseteq Bloques /\ TeselaDe(Soltar(P, b))
         /\ \A x : x.usado => (x \in Soltar(P, b) <=> x \in P /\ x # b)
         /\ \E s, f : UnicaRacha(Soltar(P, b), s, f)
<1> DEFINE u == Bloque(b.ini, b.tam, FALSE)
           R == (P \ {b}) \cup {u}
<1>1. /\ b \in Bloques
      /\ \A x \in P : x \in Bloques
      /\ \A x \in P : x = b \/ Siguiente(x) <= b.ini \/ Siguiente(b) <= x.ini
  BY DEF PaginaBien, TeselaDe
<1>2. u \in Bloques /\ u.ini = b.ini /\ u.tam = b.tam /\ ~u.usado
  BY <1>1 DEF Bloque, Bloques
<1> HIDE DEF u
<1>3. Siguiente(u) = Siguiente(b)
  BY <1>2 DEF Siguiente
<1>4. R \subseteq Bloques
  BY <1>1, <1>2
<1>5. TeselaDe(R)
  <2>1. \E x \in R : x.ini = 0
    BY <1>2 DEF PaginaBien, TeselaDe
  <2>2. \A x \in R : x.ini = 0 \/ \E a \in R : Siguiente(a) = x.ini
    BY <1>2, <1>3 DEF PaginaBien, TeselaDe
  <2>3. \A x \in R : Siguiente(x) = TamPage \/ \E c \in R : c.ini = Siguiente(x)
    BY <1>2, <1>3 DEF PaginaBien, TeselaDe
  <2>4. \A x \in R : Siguiente(x) <= TamPage
    BY <1>2, <1>3 DEF PaginaBien, TeselaDe
  <2>5. \A x, y \in R : x = y \/ Siguiente(x) <= y.ini \/ Siguiente(y) <= x.ini
    BY <1>2, <1>3 DEF PaginaBien, TeselaDe
  <2> QED BY <2>1, <2>2, <2>3, <2>4, <2>5 DEF TeselaDe
<1>6. \A x \in Libres(R) : x \in R /\ x \in Bloques /\ ~x.usado /\ (x = u \/ x \in Libres(P))
  BY <1>4 DEF Libres
<1>7. \A x \in Libres(P) : x \in Libres(R) /\ x # b
  BY DEF Libres
<1>8. \A x, y \in Libres(P) : Siguiente(x) # y.ini
  BY DEF PaginaBien, SinLibresContiguosEn
<1>9. u \in Libres(R)
  BY <1>2 DEF Libres
<1>15. \A x \in R : /\ x \in Bloques /\ x.ini \in Nat /\ Siguiente(x) \in Nat
                     /\ x.ini < Siguiente(x)
  BY <1>4, Numeros
<1> HIDE DEF R
<1>10. \E s \in Libres(R) : AbreRacha(R, s) /\ (s = u \/ Siguiente(s) = u.ini)
  <2>1. CASE \E a \in Libres(R) : Siguiente(a) = u.ini
    <3>1. PICK a \in Libres(R) : Siguiente(a) = u.ini
      BY <2>1
    <3>2. AbreRacha(R, a)
      <4> SUFFICES ASSUME NEW x \in Libres(R), Siguiente(x) = a.ini PROVE FALSE
        BY DEF AbreRacha
      <4>1. x = u \/ a = u
        BY <1>6, <1>8
      <4>2. a.ini < Siguiente(a) /\ x.ini < Siguiente(x)
        BY <1>6, <1>15
      <4>3. x.ini \in Nat /\ a.ini \in Nat /\ u.ini \in Nat
        BY <1>6, <1>9, <1>15
      <4> QED BY <4>1, <4>2, <4>3, <3>1
    <3> QED BY <3>1, <3>2
  <2>2. CASE \A a \in Libres(R) : Siguiente(a) # u.ini
    BY <2>2, <1>9 DEF AbreRacha
  <2> QED BY <2>1, <2>2
<1>11. \E e \in Libres(R) : /\ e = u \/ e.ini = Siguiente(u)
                            /\ \A c \in Libres(R) : c.ini # Siguiente(e)
  <2>1. CASE \E c \in Libres(R) : c.ini = Siguiente(u)
    <3>1. PICK c \in Libres(R) : c.ini = Siguiente(u)
      BY <2>1
    <3>2. \A x \in Libres(R) : x.ini # Siguiente(c)
      BY <3>1, <1>2, <1>6, <1>8, Numeros
    <3> QED BY <3>1, <3>2
  <2>2. CASE \A c \in Libres(R) : c.ini # Siguiente(u)
    BY <2>2, <1>9
  <2> QED BY <2>1, <2>2
<1>12. \E s, f : UnicaRacha(R, s, f)
  <2>1. PICK s \in Libres(R) : AbreRacha(R, s) /\ (s = u \/ Siguiente(s) = u.ini)
    BY <1>10
  <2>2. PICK e \in Libres(R) : /\ e = u \/ e.ini = Siguiente(u)
                               /\ \A c \in Libres(R) : c.ini # Siguiente(e)
    BY <1>11
  <2>0. /\ s \in R /\ u \in R /\ e \in R /\ ~s.usado /\ ~u.usado /\ ~e.usado
        /\ s.ini \in Nat /\ u.ini \in Nat /\ e.ini \in Nat
        /\ Siguiente(s) \in Nat /\ Siguiente(u) \in Nat /\ Siguiente(e) \in Nat
        /\ s.ini < Siguiente(s) /\ u.ini < Siguiente(u) /\ e.ini < Siguiente(e)
    BY <1>6, <1>9, <1>15
  <2>3. s.ini <= u.ini /\ u.ini <= e.ini
    BY <2>0, <2>1, <2>2
  <2>4. ASSUME NEW x \in R, s.ini <= x.ini, x.ini < Siguiente(e)
        PROVE  x \in {s, u, e}
    <3>1. /\ x = s \/ Siguiente(x) <= s.ini \/ Siguiente(s) <= x.ini
          /\ x = u \/ Siguiente(x) <= u.ini \/ Siguiente(u) <= x.ini
          /\ x = e \/ Siguiente(x) <= e.ini \/ Siguiente(e) <= x.ini
      BY <2>0, <1>5 DEF TeselaDe
    <3>2. x.ini \in Nat /\ Siguiente(x) \in Nat /\ x.ini < Siguiente(x)
      BY <1>15
    <3> QED BY <3>1, <3>2, <2>0, <2>1, <2>2, <2>4
  <2>5. CierraRacha(R, s, Siguiente(e))
    BY <2>0, <2>2, <2>3, <2>4 DEF CierraRacha
  <2>6. ASSUME NEW a \in Libres(R), NEW c \in Libres(R), Siguiente(a) = c.ini
        PROVE  s.ini <= a.ini /\ c.ini < Siguiente(e)
    <3>1. a = u \/ c = u
      BY <2>6, <1>6, <1>8
    <3>2. CASE a = u
      <4>1. e # u /\ c.ini = e.ini
        BY <3>2, <2>2, <2>6
      <4> QED BY <4>1, <3>2, <2>0, <2>3
    <3>3. CASE c = u
      <4>1. s # u
        BY <3>3, <2>1, <2>6 DEF AbreRacha
      <4>2. Siguiente(s) = Siguiente(a)
        BY <4>1, <3>3, <2>1, <2>6
      <4>3. a = s
        <5>1. /\ a \in R /\ a.ini \in Nat /\ a.ini < Siguiente(a)
              /\ a = s \/ Siguiente(a) <= s.ini \/ Siguiente(s) <= a.ini
          BY <2>0, <1>5, <1>6, <1>15 DEF TeselaDe
        <5> QED BY <5>1, <4>2, <2>0
      <4> QED BY <4>3, <3>3, <2>0, <2>3
    <3> QED BY <3>1, <3>2, <3>3
  <2>7. UnicaRacha(R, s, Siguiente(e))
    BY <2>1, <2>5, <2>6 DEF UnicaRacha
  <2> QED BY <2>7
<1>13. R = Soltar(P, b)
  BY DEF Soltar, u, R
<1>14. \A x : x.usado => (x \in R <=> x \in P /\ x # b)
  BY <1>2 DEF R
<1> QED BY <1>4, <1>5, <1>12, <1>13, <1>14

(* A release leaves the page well formed and takes away one used block.    *)
LEMMA LiberarBien ==
  ASSUME NEW P, PaginaBien(P), MemoriaLimpia, NEW b \in P, b.usado
  PROVE  /\ PaginaBien(Compactar(Soltar(P, b), 0))
         /\ \A x : x.usado => (x \in Compactar(Soltar(P, b), 0) <=> x \in P /\ x # b)
<1> DEFINE R == Soltar(P, b)
<1> HIDE DEF R
<1>1. /\ R \subseteq Bloques /\ TeselaDe(R)
      /\ \A x : x.usado => (x \in R <=> x \in P /\ x # b)
      /\ \E s, f : UnicaRacha(R, s, f)
  BY SoltarDejaUnaRacha DEF R
<1>2. PICK s, f : UnicaRacha(R, s, f)
  BY <1>1
<1>3. Compactar(R, 0) = Fundida(R, s, f)
  BY <1>1, <1>2, CompactarEsFundir
<1>4. /\ PaginaBien(Fundida(R, s, f))
      /\ \A x : x.usado => (x \in Fundida(R, s, f) <=> x \in R)
  BY <1>1, <1>2, FundidaBien
<1> QED BY <1>1, <1>3, <1>4 DEF R

-----------------------------------------------------------------------------
PaginasBien(ps) ==
  ps \in Seq(SUBSET Bloques) /\ \A k \in DOMAIN ps : PaginaBien(ps[k])

(* Another well-formed page in place k.                                    *)
LEMMA CambioDePagina ==
  ASSUME NEW ps, PaginasBien(ps), NEW k \in DOMAIN ps, NEW Q, PaginaBien(Q)
  PROVE  LET qs == [ps EXCEPT ![k] = Q]
         IN  PaginasBien(qs) /\ Len(qs) = Len(ps) /\ DOMAIN qs = DOMAIN ps
<1> DEFINE qs == [ps EXCEPT ![k] = Q]
<1>1. Q \in SUBSET Bloques /\ ps \in Seq(SUBSET Bloques)
  BY DEF PaginaBien, PaginasBien
<1>2. qs \in Seq(SUBSET Bloques) /\ Len(qs) = Len(ps) /\ DOMAIN qs = DOMAIN ps
  BY <1>1, ExceptSeq
<1>3. \A j \in DOMAIN qs : PaginaBien(qs[j])
  BY <1>2 DEF PaginasBien
<1> QED BY <1>2, <1>3 DEF PaginasBien

(* A well-formed page at the end.                                          *)
LEMMA PaginaAgregada ==
  ASSUME NEW ps, PaginasBien(ps), NEW Q, PaginaBien(Q)
  PROVE  LET qs == Append(ps, Q)
         IN  /\ PaginasBien(qs) /\ Len(qs) = Len(ps) + 1
             /\ DOMAIN ps \subseteq DOMAIN qs /\ DOMAIN qs = DOMAIN ps \cup {Len(ps) + 1}
             /\ qs[Len(ps) + 1] = Q /\ \A k \in DOMAIN ps : qs[k] = ps[k]
<1> DEFINE qs == Append(ps, Q)
<1>1. Q \in SUBSET Bloques /\ ps \in Seq(SUBSET Bloques)
  BY DEF PaginaBien, PaginasBien
<1>2. /\ qs \in Seq(SUBSET Bloques) /\ Len(qs) = Len(ps) + 1
      /\ \A k \in 1..Len(ps) : qs[k] = ps[k]
      /\ qs[Len(ps) + 1] = Q
  BY <1>1, AppendProperties
<1>3. DOMAIN ps = 1..Len(ps) /\ DOMAIN qs = 1..(Len(ps) + 1) /\ Len(ps) \in Nat
  BY <1>1, <1>2, LenProperties
<1>4. DOMAIN qs = DOMAIN ps \cup {Len(ps) + 1}
  BY <1>3
<1> HIDE DEF qs
<1>5. \A j \in DOMAIN qs : PaginaBien(qs[j])
  BY <1>2, <1>3, <1>4 DEF PaginasBien
<1> QED BY <1>2, <1>3, <1>4, <1>5 DEF PaginasBien, qs

(* A new page is one free block.                                           *)
LEMMA CrearPaginaBien ==
  /\ PaginaBien(CrearPagina)
  /\ \A b \in CrearPagina : ~b.usado
<1> DEFINE u == Bloque(0, TamPage - Cabecera, FALSE)
<1>1. /\ u \in Bloques /\ u.ini = 0 /\ ~u.usado /\ Siguiente(u) = TamPage
  BY ConstantesHeap DEF Bloque, Bloques, Siguiente
<1> HIDE DEF u
<1>2. CrearPagina = {u}
  BY DEF CrearPagina, u
<1>3. TeselaDe(CrearPagina)
  BY <1>1, <1>2, Numeros DEF TeselaDe
<1>4. SinLibresContiguosEn(CrearPagina)
  BY <1>1, <1>2, Numeros DEF SinLibresContiguosEn, Libres
<1> QED BY <1>1, <1>2, <1>3, <1>4 DEF PaginaBien

(* A block is known by its place.                                          *)
LEMMA MismoLugar ==
  ASSUME NEW P, PaginaBien(P), NEW x \in P, NEW y \in P, x.ini = y.ini
  PROVE  x = y
BY Numeros DEF PaginaBien, TeselaDe

-----------------------------------------------------------------------------
InvHeap == TipoHeap /\ Tesela /\ SinLibresContiguos /\ UsadosSonVivas

(* The invariant says of each page that it is well formed.                 *)
LEMMA InvPaginas == InvHeap => PaginasBien(paginas)
BY ElementOfSeq, LenProperties
   DEF InvHeap, TipoHeap, Tesela, SinLibresContiguos, PaginasBien, PaginaBien

(* The invariant holds before the first request.                           *)
LEMMA InvInicial == Init => InvHeap
<1> SUFFICES ASSUME Init PROVE InvHeap
  OBVIOUS
<1>1. paginas = <<>> /\ vivas = {} /\ marcos = Marcos /\ termino = FALSE
  BY DEF Init
<1>2. paginas \in Seq(SUBSET Bloques) /\ Len(paginas) = 0 /\ DOMAIN paginas = {}
  BY <1>1
<1>3. TipoHeap
  <2>1. marcos \in Nat /\ marcos + Len(paginas) <= Marcos
    BY <1>1, <1>2, ConstantesHeap
  <2>2. vivas \subseteq Porciones /\ termino \in BOOLEAN
    BY <1>1
  <2> QED BY <1>2, <2>1, <2>2 DEF TipoHeap
<1>4. Tesela /\ SinLibresContiguos /\ UsadosSonVivas
  BY <1>1, <1>2 DEF Tesela, SinLibresContiguos, UsadosSonVivas
<1> QED BY <1>3, <1>4 DEF InvHeap

(* What the steps have in common: the pages stay well formed, what is left *)
(* is to count them and to compare the used blocks with vivas.             *)
LEMMA InvDespues ==
  ASSUME PaginasBien(paginas)', vivas' \subseteq Porciones, marcos' \in Nat,
         marcos' + Len(paginas') <= Marcos, termino' \in BOOLEAN, UsadosSonVivas'
  PROVE  InvHeap'
BY DEF InvHeap, TipoHeap, Tesela, SinLibresContiguos, PaginasBien, PaginaBien

(* One lemma for each action that serves a request.                        *)
LEMMA AlocarEnPaginaConserva ==
  ASSUME InvHeap, NEW n \in Pedidos, AlocarEnPagina(n)
  PROVE  InvHeap'
<1>0. PICK k \in DOMAIN paginas : \E b \in paginas[k] :
        /\ EsBloqueLibre(paginas[k], n, b)
        /\ paginas' = [paginas EXCEPT ![k] = Partir(paginas[k], b, n)]
        /\ Entregar(k, b, n)
  BY DEF AlocarEnPagina
<1>1. PICK b \in paginas[k] :
        /\ EsBloqueLibre(paginas[k], n, b)
        /\ paginas' = [paginas EXCEPT ![k] = Partir(paginas[k], b, n)]
        /\ Entregar(k, b, n)
  BY <1>0
<1> DEFINE u == Bloque(b.ini, n, TRUE)
           Q == Partir(paginas[k], b, n)
<1>2. n \in Nat /\ PaginasBien(paginas) /\ PaginaBien(paginas[k])
  BY InvPaginas, ConstantesHeap DEF PaginasBien
<1>3. /\ PaginaBien(Q)
      /\ \A x : x.usado => (x \in Q <=> x \in paginas[k] \/ x = u)
  BY <1>1, <1>2, PartirBien DEF EsBloqueLibre
<1>4. u.usado /\ u.ini = b.ini /\ u.tam = n /\ b.ini \in Nat
  BY <1>1, <1>2 DEF Bloque, PaginaBien, Bloques
<1> HIDE DEF u, Q
<1>5. PaginasBien(paginas)' /\ Len(paginas') = Len(paginas) /\ DOMAIN paginas' = DOMAIN paginas
  BY <1>1, <1>2, <1>3, CambioDePagina DEF PaginasBien, Q
<1>6. /\ paginas'[k] = Q /\ \A j \in DOMAIN paginas : j # k => paginas'[j] = paginas[j]
      /\ k \in Nat \ {0}
  BY <1>1, <1>2, LenProperties DEF PaginasBien, Q
<1>7. vivas' = vivas \cup {Porcion(k, u)}
  BY <1>1 DEF Entregar, u
<1>8. vivas' \subseteq Porciones
  <2>1. Porcion(k, u) \in Porciones
    BY <1>2, <1>4, <1>6, Numeros DEF Porcion, Porciones
  <2> QED BY <2>1, <1>7 DEF InvHeap, TipoHeap
<1>9. UsadosSonVivas'
  <2>1. ASSUME NEW v \in vivas'
        PROVE  v.pagina \in DOMAIN paginas' /\ \E x \in paginas'[v.pagina] :
                                                 x.usado /\ v = Porcion(v.pagina, x)
    <3>1. CASE v = Porcion(k, u)
      <4>1. v.pagina = k
        BY <3>1 DEF Porcion
      <4> QED BY <4>1, <3>1, <1>3, <1>4, <1>5, <1>6
    <3>2. CASE v \in vivas
      <4>1. PICK x \in paginas[v.pagina] : x.usado /\ v = Porcion(v.pagina, x)
        BY <3>2 DEF InvHeap, UsadosSonVivas
      <4>2. v.pagina \in DOMAIN paginas
        BY <3>2 DEF InvHeap, UsadosSonVivas
      <4>3. x \in paginas'[v.pagina]
        BY <4>1, <4>2, <1>3, <1>6
      <4> QED BY <4>1, <4>2, <4>3, <1>5
    <3> QED BY <3>1, <3>2, <1>7
  <2>2. ASSUME NEW j \in DOMAIN paginas', NEW x \in paginas'[j], x.usado
        PROVE  Porcion(j, x) \in vivas'
    BY <2>2, <1>3, <1>5, <1>6, <1>7 DEF InvHeap, UsadosSonVivas
  <2> QED BY <2>1, <2>2 DEF UsadosSonVivas
<1>10. marcos' = marcos /\ termino' = termino
  BY DEF AlocarEnPagina
<1> QED BY <1>5, <1>8, <1>9, <1>10, InvDespues DEF InvHeap, TipoHeap

(* ALOCAR in a new page.                                                   *)
LEMMA AlocarEnPaginaNuevaConserva ==
  ASSUME InvHeap, NEW n \in Pedidos, AlocarEnPaginaNueva(n)
  PROVE  InvHeap'
<1>1. PICK b \in CrearPagina :
        /\ Disponible(b, n)
        /\ paginas' = Append(paginas, Partir(CrearPagina, b, n))
        /\ Entregar(Len(paginas) + 1, b, n)
  BY DEF AlocarEnPaginaNueva
<1> DEFINE k == Len(paginas) + 1
           u == Bloque(b.ini, n, TRUE)
           Q == Partir(CrearPagina, b, n)
<1>2. n \in Nat /\ PaginasBien(paginas)
  BY InvPaginas, ConstantesHeap
<1>3. /\ PaginaBien(Q)
      /\ \A x : x.usado => (x \in Q <=> x = u)
  BY <1>1, <1>2, CrearPaginaBien, PartirBien
<1>4. u.usado /\ u.ini = b.ini /\ u.tam = n /\ b.ini \in Nat
  BY <1>1, <1>2, CrearPaginaBien DEF Bloque, PaginaBien, Bloques
<1> HIDE DEF u, Q
<1>5. /\ PaginasBien(paginas)' /\ Len(paginas') = Len(paginas) + 1
      /\ DOMAIN paginas' = DOMAIN paginas \cup {k}
      /\ paginas'[k] = Q /\ \A j \in DOMAIN paginas : paginas'[j] = paginas[j]
  BY <1>1, <1>2, <1>3, PaginaAgregada DEF PaginasBien, Q
<1>6. Len(paginas) \in Nat /\ k \in Nat \ {0} /\ k \notin DOMAIN paginas
  BY <1>2, LenProperties DEF PaginasBien
<1>7. vivas' = vivas \cup {Porcion(k, u)}
  BY <1>1 DEF Entregar, u
<1> HIDE DEF k
<1>8. vivas' \subseteq Porciones
  <2>1. Porcion(k, u) \in Porciones
    BY <1>2, <1>4, <1>6, Numeros DEF Porcion, Porciones
  <2> QED BY <2>1, <1>7 DEF InvHeap, TipoHeap
<1>9. UsadosSonVivas'
  <2>1. ASSUME NEW v \in vivas'
        PROVE  v.pagina \in DOMAIN paginas' /\ \E x \in paginas'[v.pagina] :
                                                 x.usado /\ v = Porcion(v.pagina, x)
    <3>1. CASE v = Porcion(k, u)
      <4>1. v.pagina = k
        BY <3>1 DEF Porcion
      <4> QED BY <4>1, <3>1, <1>3, <1>4, <1>5
    <3>2. CASE v \in vivas
      BY <3>2, <1>5 DEF InvHeap, UsadosSonVivas
    <3> QED BY <3>1, <3>2, <1>7
  <2>2. ASSUME NEW j \in DOMAIN paginas', NEW x \in paginas'[j], x.usado
        PROVE  Porcion(j, x) \in vivas'
    BY <2>2, <1>3, <1>5, <1>7 DEF InvHeap, UsadosSonVivas
  <2> QED BY <2>1, <2>2 DEF UsadosSonVivas
<1>10. /\ marcos' = marcos - 1 /\ marcos > 0 /\ termino' = termino
       /\ marcos \in Nat /\ marcos + Len(paginas) <= Marcos /\ termino \in BOOLEAN
  BY DEF AlocarEnPaginaNueva, InvHeap, TipoHeap
<1>11. marcos' \in Nat /\ marcos' + Len(paginas') <= Marcos
  BY <1>5, <1>6, <1>10, ConstantesHeap
<1> QED BY <1>5, <1>8, <1>9, <1>10, <1>11, InvDespues

(* A request that ends the process.                                        *)
LEMMA TerminarConserva ==
  ASSUME InvHeap, TerminarProceso
  PROVE  InvHeap'
<1>1. paginas' = <<>> /\ vivas' = {} /\ marcos' = marcos + Len(paginas) /\ termino' = TRUE
  BY DEF TerminarProceso
<1>2. /\ paginas' \in Seq(SUBSET Bloques) /\ Len(paginas') = 0 /\ DOMAIN paginas' = {}
  BY <1>1
<1>3. PaginasBien(paginas)'
  BY <1>2 DEF PaginasBien
<1>4. Len(paginas) \in Nat
  BY LenProperties DEF InvHeap, TipoHeap
<1>5. marcos' \in Nat /\ marcos' + Len(paginas') <= Marcos
  BY <1>1, <1>2, <1>4, ConstantesHeap DEF InvHeap, TipoHeap
<1>6. UsadosSonVivas'
  BY <1>1, <1>2 DEF UsadosSonVivas
<1> QED BY <1>1, <1>3, <1>5, <1>6, InvDespues

(* The block that LIBERAR finds is the one the script was given.           *)
LEMMA BloqueDeViva ==
  ASSUME InvHeap, NEW v \in vivas, NEW b \in paginas[v.pagina], b.ini = v.ini - Cabecera
  PROVE  v.pagina \in DOMAIN paginas /\ b.usado /\ v = Porcion(v.pagina, b)
<1>1. v.pagina \in DOMAIN paginas
  BY DEF InvHeap, UsadosSonVivas
<1>2. PICK x \in paginas[v.pagina] : x.usado /\ v = Porcion(v.pagina, x)
  BY DEF InvHeap, UsadosSonVivas
<1>3. PaginaBien(paginas[v.pagina])
  BY <1>1, InvPaginas DEF PaginasBien
<1>4. v.ini = x.ini + Cabecera
  BY <1>2 DEF Porcion
<1>5. x.ini \in Nat /\ b.ini \in Nat
  BY <1>2, <1>3, Numeros DEF PaginaBien
<1>6. x.ini = b.ini
  BY <1>4, <1>5, Numeros
<1> QED BY <1>1, <1>2, <1>3, <1>6, MismoLugar

(* LIBERAR, with its compaction.                                           *)
LEMMA LiberarConserva ==
  ASSUME InvHeap, MemoriaLimpia, NEW v \in vivas, Liberar(v)
  PROVE  InvHeap'
<1> DEFINE k == v.pagina
<1>0. k \in DOMAIN paginas
  BY DEF InvHeap, UsadosSonVivas
<1>1. PICK b \in paginas[k] :
        /\ b.ini = v.ini - Cabecera
        /\ paginas' = [paginas EXCEPT ![k] = Compactar(Soltar(paginas[k], b), 0)]
  BY DEF Liberar, MemoriaLimpia
<1> DEFINE Q == Compactar(Soltar(paginas[k], b), 0)
<1>2. PaginasBien(paginas) /\ PaginaBien(paginas[k])
  BY <1>0, InvPaginas DEF PaginasBien
<1>3. b.usado /\ v = Porcion(k, b)
  BY <1>1, BloqueDeViva
<1>4. /\ PaginaBien(Q)
      /\ \A x : x.usado => (x \in Q <=> x \in paginas[k] /\ x # b)
  BY <1>1, <1>2, <1>3, LiberarBien
<1> HIDE DEF Q
<1>5. PaginasBien(paginas)' /\ Len(paginas') = Len(paginas) /\ DOMAIN paginas' = DOMAIN paginas
  BY <1>0, <1>1, <1>2, <1>4, CambioDePagina DEF PaginasBien, Q
<1>6. paginas'[k] = Q /\ \A j \in DOMAIN paginas : j # k => paginas'[j] = paginas[j]
  BY <1>0, <1>1, <1>2, LenProperties DEF PaginasBien, Q
<1>7. vivas' = vivas \ {v} /\ marcos' = marcos /\ termino' = termino
  BY DEF Liberar
<1> HIDE DEF k
<1>8. UsadosSonVivas'
  <2>1. ASSUME NEW w \in vivas'
        PROVE  w.pagina \in DOMAIN paginas' /\ \E x \in paginas'[w.pagina] :
                                                 x.usado /\ w = Porcion(w.pagina, x)
    <3>1. PICK x \in paginas[w.pagina] : x.usado /\ w = Porcion(w.pagina, x)
      BY <1>7 DEF InvHeap, UsadosSonVivas
    <3>2. w.pagina \in DOMAIN paginas /\ w # v
      BY <1>7 DEF InvHeap, UsadosSonVivas
    <3>3. w.pagina = k => x # b
      BY <3>1, <3>2, <1>3
    <3>4. x \in paginas'[w.pagina]
      BY <3>1, <3>2, <3>3, <1>4, <1>6
    <3> QED BY <3>1, <3>2, <3>4, <1>5
  <2>2. ASSUME NEW j \in DOMAIN paginas', NEW x \in paginas'[j], x.usado
        PROVE  Porcion(j, x) \in vivas'
    <3>1. x \in paginas[j] /\ (j = k => x # b) /\ j \in DOMAIN paginas
      BY <2>2, <1>4, <1>5, <1>6
    <3>2. Porcion(j, x) \in vivas
      BY <3>1, <2>2 DEF InvHeap, UsadosSonVivas
    <3>3. Porcion(j, x) # v
      <4> SUFFICES ASSUME Porcion(j, x) = Porcion(k, b) PROVE FALSE
        BY <1>3
      <4>1. j = k /\ x.ini + Cabecera = b.ini + Cabecera
        BY DEF Porcion
      <4>2. x.ini \in Nat /\ b.ini \in Nat
        BY <4>1, <3>1, <1>1, <1>2, Numeros DEF PaginaBien
      <4>3. x.ini = b.ini
        BY <4>1, <4>2, Numeros
      <4> QED BY <4>1, <4>3, <3>1, <1>1, <1>2, MismoLugar
    <3> QED BY <3>2, <3>3, <1>7
  <2> QED BY <2>1, <2>2 DEF UsadosSonVivas
<1> QED BY <1>5, <1>7, <1>8, InvDespues DEF InvHeap, TipoHeap

(* Frames taken and returned by other processes.                           *)
LEMMA OtrosConserva ==
  ASSUME InvHeap, OtrosProcesos
  PROVE  InvHeap'
<1>1. /\ paginas' = paginas /\ vivas' = vivas /\ termino' = termino
      /\ \/ marcos > 0 /\ marcos' = marcos - 1
         \/ marcos + Len(paginas) < Marcos /\ marcos' = marcos + 1
  BY DEF OtrosProcesos
<1>2. Len(paginas) \in Nat /\ marcos \in Nat /\ marcos + Len(paginas) <= Marcos
  BY LenProperties DEF InvHeap, TipoHeap
<1>3. marcos' \in Nat /\ marcos' + Len(paginas) <= Marcos
  BY <1>1, <1>2, ConstantesHeap
<1> QED BY <1>1, <1>3 DEF InvHeap, TipoHeap, Tesela, SinLibresContiguos, UsadosSonVivas

(* Every step preserves the invariant.                                     *)
LEMMA PasoConserva ==
  ASSUME InvHeap, MemoriaLimpia, [Next]_vars
  PROVE  InvHeap'
<1>1. ASSUME NEW n \in Pedidos, AlocarDemasiado(n) \/ AlocarSinMemoria(n) PROVE InvHeap'
  BY <1>1, TerminarConserva DEF AlocarDemasiado, AlocarSinMemoria
<1>2. CASE UNCHANGED vars
  BY <1>2 DEF vars, InvHeap, TipoHeap, Tesela, SinLibresContiguos, UsadosSonVivas
<1> QED BY <1>1, <1>2, AlocarEnPaginaConserva, AlocarEnPaginaNuevaConserva, LiberarConserva,
           OtrosConserva DEF Next

(* The four invariants together, which are inductive.                      *)
THEOREM InvariantesDelHeap == ASSUME MemoriaLimpia PROVE Spec => []InvHeap
<1>1. InvHeap /\ [Next]_vars => InvHeap'
  BY PasoConserva
<1> QED BY <1>1, InvInicial, PTL DEF Spec

(* The chain of each heap page tiles the page after any sequence of        *)
(* requests (_reservarEspacioPagina, _liberarEspacio, _compactar).         *)
THEOREM SiempreTesela == ASSUME MemoriaLimpia PROVE Spec => []Tesela
BY InvariantesDelHeap, PTL DEF InvHeap

(* _compactar leaves no two free neighbours, in one pass.                  *)
THEOREM NuncaLibresContiguos == ASSUME MemoriaLimpia PROVE Spec => []SinLibresContiguos
BY InvariantesDelHeap, PTL DEF InvHeap

(* The used blocks are what the script holds.                              *)
THEOREM SiempreUsadosSonVivas == ASSUME MemoriaLimpia PROVE Spec => []UsadosSonVivas
BY InvariantesDelHeap, PTL DEF InvHeap

-----------------------------------------------------------------------------
(* What a script is given overlaps nothing that it holds.                  *)
LEMMA LugarNuevo ==
  ASSUME InvHeap, NEW n \in Nat, NEW k \in Nat \ {0}, NEW P, PaginaBien(P),
         k \in DOMAIN paginas => P = paginas[k],
         NEW b \in P, Disponible(b, n)
  PROVE  LET x == Porcion(k, Bloque(b.ini, n, TRUE))
         IN  x \in Asig!Lugares(n) /\ \A y \in vivas : Asig!Separados(x, y)
<1> DEFINE x == Porcion(k, Bloque(b.ini, n, TRUE))
<1>1. /\ b \in Bloques /\ b.ini \in Nat /\ b.tam \in Nat /\ ~b.usado /\ b.tam > n + Cabecera
      /\ Siguiente(b) = b.ini + Cabecera + b.tam /\ Siguiente(b) <= TamPage
  BY DEF PaginaBien, TeselaDe, Bloques, Disponible, Siguiente
<1>2. x = [pagina |-> k, ini |-> b.ini + Cabecera, tam |-> n]
  BY DEF Porcion, Bloque
<1> HIDE DEF x
<1>3. b.ini + Cabecera \in 0..(TamPage - n)
  BY <1>1, Numeros
<1>4. x \in Asig!Lugares(n)
  BY <1>2, <1>3 DEF Asig!Lugares
<1>5. ASSUME NEW y \in vivas PROVE Asig!Separados(x, y)
  <2>1. PICK c \in paginas[y.pagina] : c.usado /\ y = Porcion(y.pagina, c)
    BY DEF InvHeap, UsadosSonVivas
  <2>2. y.pagina \in DOMAIN paginas
    BY DEF InvHeap, UsadosSonVivas
  <2>3. CASE y.pagina # k
    BY <2>3, <1>2 DEF Asig!Separados
  <2>4. CASE y.pagina = k
    <3>1. c \in P /\ c # b /\ c \in Bloques
      BY <2>1, <2>2, <2>4, <1>1 DEF PaginaBien
    <3>2. Siguiente(c) <= b.ini \/ Siguiente(b) <= c.ini
      BY <3>1 DEF PaginaBien, TeselaDe
    <3>3. /\ y.ini = c.ini + Cabecera /\ y.tam = c.tam
          /\ Siguiente(c) = c.ini + Cabecera + c.tam
          /\ x.ini = b.ini + Cabecera /\ x.tam = n
      BY <2>1, <1>2 DEF Porcion, Siguiente
    <3>4. c.ini \in Nat /\ c.tam \in Nat
      BY <3>1, Numeros
    <3>5. x.ini + x.tam <= y.ini \/ y.ini + y.tam <= x.ini
      BY <3>2, <3>3, <3>4, <1>1, Numeros
    <3> QED BY <3>5 DEF Asig!Separados
  <2> QED BY <2>3, <2>4
<1> QED BY <1>4, <1>5 DEF x

(* Every step of the heap is a step of the allocator or none.              *)
LEMMA PasoDeAsignador ==
  ASSUME InvHeap, [Next]_vars
  PROVE  [Asig!Next]_vivas
<1>1. ASSUME NEW n \in Pedidos, AlocarEnPagina(n) PROVE Asig!Next
  <2>1. PICK k \in DOMAIN paginas : \E b \in paginas[k] :
          EsBloqueLibre(paginas[k], n, b) /\ Entregar(k, b, n)
    BY <1>1 DEF AlocarEnPagina
  <2>2. PICK b \in paginas[k] : EsBloqueLibre(paginas[k], n, b) /\ Entregar(k, b, n)
    BY <2>1
  <2> DEFINE x == Porcion(k, Bloque(b.ini, n, TRUE))
  <2>3. n \in Nat /\ k \in Nat \ {0} /\ PaginaBien(paginas[k]) /\ Disponible(b, n)
    BY <2>2, InvPaginas, LenProperties, ConstantesHeap DEF PaginasBien, EsBloqueLibre
  <2>4. x \in Asig!Lugares(n) /\ \A y \in vivas : Asig!Separados(x, y)
    BY <2>2, <2>3, LugarNuevo
  <2>5. vivas' = vivas \cup {x}
    BY <2>2 DEF Entregar
  <2> HIDE DEF x
  <2> QED BY <2>4, <2>5 DEF Asig!Next, Asig!Asignar
<1>2. ASSUME NEW n \in Pedidos, AlocarEnPaginaNueva(n) PROVE Asig!Next
  <2> DEFINE k == Len(paginas) + 1
  <2>1. PICK b \in CrearPagina : Disponible(b, n) /\ Entregar(k, b, n)
    BY <1>2 DEF AlocarEnPaginaNueva
  <2> DEFINE x == Porcion(k, Bloque(b.ini, n, TRUE))
  <2>2. n \in Nat /\ k \in Nat \ {0} /\ k \notin DOMAIN paginas
    BY InvPaginas, LenProperties, ConstantesHeap DEF PaginasBien
  <2>3. vivas' = vivas \cup {x}
    BY <2>1 DEF Entregar
  <2> HIDE DEF k
  <2>4. x \in Asig!Lugares(n) /\ \A y \in vivas : Asig!Separados(x, y)
    BY <2>1, <2>2, CrearPaginaBien, LugarNuevo
  <2> HIDE DEF x
  <2> QED BY <2>3, <2>4 DEF Asig!Next, Asig!Asignar
<1>3. ASSUME NEW n \in Pedidos, AlocarDemasiado(n) \/ AlocarSinMemoria(n) PROVE Asig!Next
  BY <1>3 DEF AlocarDemasiado, AlocarSinMemoria, TerminarProceso, Asig!Next, Asig!Terminar
<1>4. ASSUME NEW v \in vivas, Liberar(v) PROVE Asig!Next
  BY <1>4 DEF Liberar, Asig!Next, Asig!Devolver
<1>5. CASE OtrosProcesos
  BY <1>5 DEF OtrosProcesos
<1>6. CASE UNCHANGED vars
  BY <1>6 DEF vars
<1> QED BY <1>1, <1>2, <1>3, <1>4, <1>5, <1>6 DEF Next

(* ALOCAR and LIBERAR implement the allocator that the scripts expect.     *)
THEOREM ImplementaAsignador == ASSUME MemoriaLimpia PROVE Spec => CumpleAsignador
<1>1. Init => Asig!Init
  BY DEF Init, Asig!Init
<1>2. InvHeap /\ [Next]_vars => [Asig!Next]_vivas
  BY PasoDeAsignador
<1> QED BY <1>1, <1>2, InvariantesDelHeap, PTL DEF Spec, CumpleAsignador, Asig!Spec
=============================================================================
