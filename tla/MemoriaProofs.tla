--------------------------- MODULE MemoriaProofs ---------------------------
(***************************************************************************)
(* Memoria with fixed or dynamic partitions: whatever processes come and   *)
(* go, its partitions neither overlap nor leave out a byte.  Proved for    *)
(* every size of the memory, of the partitions and of the processes, every *)
(* search algorithm and every order of the requests.                       *)
(***************************************************************************)
EXTENDS Memoria, SecuenciasProofs

\* The limit of a partition is the one its base and its size give.
Forma == \A i \in DOMAIN particiones :
           particiones[i].limite = particiones[i].base + particiones[i].tamanio - 1

\* A process is in the list from its creation until finalizar_proceso removes it; only
\* dynamic partitions are sorted and joined then.
Presentes ==
  \A p \in Pids : /\ fase[p] \in {"vivo", "liberar", "quitar"} => procesos[p] # Nada
                  /\ fase[p] \in {"ordenar", "unificar"} => ESQUEMA = "DINAMICAS"

\* The invariant of the table of partitions.
TInv == TypeOK /\ Presentes /\ Forma /\ ParticionesDisjuntas /\ MemoriaCubierta

USE EsquemaAssumption, TamaniosAssumption

\* Replacing one element of a sequence leaves a sequence as long.
LEMMA ReemplazoSeq ==
  ASSUME NEW S, NEW s \in Seq(S), NEW i \in DOMAIN s, NEW e \in S
  PROVE  /\ [s EXCEPT ![i] = e] \in Seq(S)
         /\ DOMAIN [s EXCEPT ![i] = e] = DOMAIN s
         /\ \A j \in DOMAIN s : [s EXCEPT ![i] = e][j] = IF j = i THEN e ELSE s[j]
<1>1. Len(s) \in Nat /\ DOMAIN s = 1 .. Len(s) /\ \A j \in 1 .. Len(s) : s[j] \in S
  BY LenProperties, ElementOfSeq
<1>2. [s EXCEPT ![i] = e] = [j \in 1 .. Len(s) |-> IF j = i THEN e ELSE s[j]]
  BY <1>1
<1>3. QED
  BY <1>1, <1>2, IsASeq

\* A step changes the table of partitions in one of four ways.
MismaForma(s, t) ==
  /\ DOMAIN t = DOMAIN s
  /\ \A i \in DOMAIN s : /\ t[i].base = s[i].base /\ t[i].limite = s[i].limite
                         /\ t[i].tamanio = s[i].tamanio

\* The properties of TInv about the table, as operators on it.
FormaDe(s) == \A i \in DOMAIN s : s[i].limite = s[i].base + s[i].tamanio - 1
DisjuntasDe(s) == \A i, j \in DOMAIN s : i # j => s[i].limite < s[j].base \/ s[j].limite < s[i].base
CubiertaPor(s) ==
  ESQUEMA = "DINAMICAS" =>
    \A a \in 0 .. TAM_MEMORIA - 1 : \E i \in DOMAIN s : s[i].base <= a /\ a <= s[i].limite
TablaDe(s) == s \in Seq(Bloque) /\ FormaDe(s) /\ DisjuntasDe(s) /\ CubiertaPor(s)

\* TInv is TypeOK and the operators above.
LEMMA TInvTabla ==
  ASSUME TypeOK
  PROVE  (Forma /\ ParticionesDisjuntas /\ MemoriaCubierta) <=> TablaDe(particiones)
BY DEF Forma, ParticionesDisjuntas, MemoriaCubierta, Contiene, TablaDe, FormaDe, DisjuntasDe,
       CubiertaPor, TypeOK

\* The numbers of a table.
LEMMA NumerosTabla ==
  ASSUME NEW s, TablaDe(s)
  PROVE  /\ s \in Seq(Bloque) /\ Len(s) \in Nat /\ DOMAIN s = 1 .. Len(s)
         /\ \A j \in 1 .. Len(s) :
              /\ s[j] \in Bloque
              /\ s[j].base \in Int /\ s[j].limite \in Int /\ s[j].tamanio \in Int
              /\ s[j].tamanio > 0 /\ s[j].limite = s[j].base + s[j].tamanio - 1
<1>1. /\ s \in Seq(Bloque) /\ Len(s) \in Nat /\ DOMAIN s = 1 .. Len(s)
      /\ \A j \in 1 .. Len(s) : s[j] \in Bloque
  BY LenProperties, ElementOfSeq DEF TablaDe
<1>2. \A b \in Bloque : /\ b.base \in Int /\ b.limite \in Int /\ b.tamanio \in Int
                         /\ b.tamanio > 0
  BY DEF Bloque
<1>3. \A j \in 1 .. Len(s) : s[j].limite = s[j].base + s[j].tamanio - 1
  BY <1>1 DEF TablaDe, FormaDe
<1>4. QED
  BY <1>1, <1>2, <1>3

\* A table with the same intervals.
LEMMA TablaIgual ==
  ASSUME NEW s, NEW t \in Seq(Bloque), TablaDe(s), MismaForma(s, t)
  PROVE  TablaDe(t)
BY DEF TablaDe, FormaDe, DisjuntasDe, CubiertaPor, MismaForma

\* ordenar_particiones_por_base: the order of the list does not matter.
LEMMA TablaOrdenada ==
  ASSUME NEW s, TablaDe(s), NEW f \in Ordenes(Len(s)), OrdenPorBase(s, f)
  PROVE  TablaDe([i \in DOMAIN s |-> s[f[i]]])
<1> DEFINE t == [i \in DOMAIN s |-> s[f[i]]]
<1>1. /\ s \in Seq(Bloque) /\ Len(s) \in Nat /\ DOMAIN s = 1 .. Len(s)
      /\ \A j \in 1 .. Len(s) : s[j] \in Bloque
  BY LenProperties, ElementOfSeq DEF TablaDe
<1>2. /\ \A i \in DOMAIN s : f[i] \in DOMAIN s
      /\ \A i \in DOMAIN s : \E j \in DOMAIN s : f[j] = i
  BY <1>1 DEF Ordenes
<1>3. t \in Seq(Bloque)
  BY <1>1, <1>2, IsASeq
<1>4. DOMAIN t = DOMAIN s /\ \A i \in DOMAIN s : t[i] = s[f[i]]
  OBVIOUS
<1> HIDE DEF t
<1>5. \A i, j \in DOMAIN s : i # j => f[i] # f[j]
  <2> SUFFICES ASSUME NEW i \in DOMAIN s, NEW j \in DOMAIN s, i < j PROVE f[i] # f[j]
    BY <1>1
  <2>1. s[f[i]].base < s[f[j]].base
    BY DEF OrdenPorBase
  <2>2. s[f[i]].base \in Nat
    BY <1>1, <1>2 DEF Bloque
  <2>3. QED
    BY <2>1, <2>2
<1>6. FormaDe(t)
  <2> SUFFICES ASSUME NEW k \in DOMAIN s PROVE t[k].limite = t[k].base + t[k].tamanio - 1
    BY <1>4 DEF FormaDe
  <2>1. t[k] = s[f[k]] /\ f[k] \in DOMAIN s
    BY <1>2, <1>4
  <2>2. QED
    BY <2>1 DEF TablaDe, FormaDe
<1>7. DisjuntasDe(t)
  <2> SUFFICES ASSUME NEW k \in DOMAIN s, NEW l \in DOMAIN s, k # l
               PROVE  t[k].limite < t[l].base \/ t[l].limite < t[k].base
    BY <1>4 DEF DisjuntasDe
  <2>1. /\ t[k] = s[f[k]] /\ f[k] \in DOMAIN s
        /\ t[l] = s[f[l]] /\ f[l] \in DOMAIN s /\ f[k] # f[l]
    BY <1>2, <1>4, <1>5
  <2>2. QED
    BY <2>1 DEF TablaDe, DisjuntasDe
<1>8. CubiertaPor(t)
  <2> SUFFICES ASSUME ESQUEMA = "DINAMICAS", NEW a \in 0 .. TAM_MEMORIA - 1
               PROVE  \E k \in DOMAIN t : t[k].base <= a /\ a <= t[k].limite
    BY DEF CubiertaPor
  <2>1. PICK i \in DOMAIN s : s[i].base <= a /\ a <= s[i].limite
    BY DEF TablaDe, CubiertaPor
  <2>2. PICK k \in DOMAIN s : f[k] = i
    BY <1>2
  <2>3. QED
    BY <2>1, <2>2, <1>4
<1>9. QED
  BY <1>3, <1>6, <1>7, <1>8 DEF TablaDe, t

\* unificar_particiones_libres_contiguas: a round keeps the bytes of the pair.
LEMMA TablaUnida ==
  ASSUME NEW s, TablaDe(s), NEW i \in 1 .. Len(s) - 1, Unible(s, i)
  PROVE  TablaDe(Unidas(s, i))
<1> DEFINE t == Unidas(s, i)
           n == Len(s)
           de(k) == IF k <= i THEN k ELSE k + 1
<1>1. /\ s \in Seq(Bloque) /\ n \in Nat /\ DOMAIN s = 1 .. n
      /\ \A j \in 1 .. n :
           /\ s[j] \in Bloque
           /\ s[j].base \in Int /\ s[j].limite \in Int /\ s[j].tamanio \in Int
           /\ s[j].tamanio > 0 /\ s[j].limite = s[j].base + s[j].tamanio - 1
  BY NumerosTabla
<1>2. /\ i \in 1 .. n /\ i + 1 \in 1 .. n /\ n - 1 \in Nat
      /\ s[i].limite + 1 = s[i + 1].base
      /\ s[i].limite = s[i].base + s[i].tamanio - 1
      /\ s[i + 1].limite = s[i + 1].base + s[i + 1].tamanio - 1
  BY <1>1 DEF Unible, TablaDe, FormaDe
<1>3. DOMAIN t = 1 .. n - 1
  BY <1>1 DEF Unidas
<1>4. \A k \in 1 .. n - 1 : k # i => t[k] = s[de(k)] /\ de(k) \in 1 .. n /\ de(k) # i /\ de(k) # i + 1
  BY <1>1, <1>2, SMTT(30) DEF Unidas
<1>5. t[i] = [s[i] EXCEPT !.tamanio = s[i].tamanio + s[i + 1].tamanio, !.limite = s[i + 1].limite]
  BY <1>1, <1>2 DEF Unidas
<1>6. /\ t[i] \in Bloque
      /\ t[i].base = s[i].base /\ t[i].limite = s[i + 1].limite
      /\ t[i].tamanio = s[i].tamanio + s[i + 1].tamanio
  <2>1. s[i] \in Bloque /\ s[i + 1] \in Bloque
    BY <1>1, <1>2
  <2>2. s[i].tamanio + s[i + 1].tamanio \in Nat \ {0} /\ s[i + 1].limite \in Int
    BY <2>1, SMTT(30) DEF Bloque
  <2>3. QED
    BY <2>1, <2>2, <1>5 DEF Bloque
<1>7. \A k \in 1 .. n - 1 : t[k] \in Bloque
  BY <1>1, <1>4, <1>6
<1>8. t \in Seq(Bloque)
  <2>1. t = [k \in 1 .. n - 1 |-> t[k]]
    BY DEF Unidas
  <2> HIDE DEF t
  <2>2. QED
    BY <2>1, <1>7, <1>2, IsASeq
<1> HIDE DEF t
<1>9. FormaDe(t)
  <2> SUFFICES ASSUME NEW k \in 1 .. n - 1 PROVE t[k].limite = t[k].base + t[k].tamanio - 1
    BY <1>3 DEF FormaDe
  <2>1. CASE k = i
    <3> DEFINE b1 == s[i].base       b2 == s[i + 1].base
               l1 == s[i].limite     l2 == s[i + 1].limite
               m1 == s[i].tamanio    m2 == s[i + 1].tamanio
    <3>1. /\ b1 \in Int /\ m1 \in Int /\ l1 \in Int /\ b2 \in Int /\ m2 \in Int /\ l2 \in Int
          /\ l1 = b1 + m1 - 1 /\ l1 + 1 = b2 /\ l2 = b2 + m2 - 1
      BY <1>1, <1>2
    <3> HIDE DEF b1, b2, l1, l2, m1, m2
    <3>2. l2 = b1 + (m1 + m2) - 1
      BY <3>1
    <3>3. t[i].limite = t[i].base + t[i].tamanio - 1
      BY <3>2, <1>6, Zenon DEF b1, l2, m1, m2
    <3>4. QED
      BY <2>1, <3>3
  <2>2. CASE k # i
    BY <2>2, <1>1, <1>4 DEF TablaDe, FormaDe
  <2>3. QED
    BY <2>1, <2>2
<1>10. DisjuntasDe(t)
  <2> SUFFICES ASSUME NEW k \in 1 .. n - 1, NEW l \in 1 .. n - 1, k # l
               PROVE  t[k].limite < t[l].base \/ t[l].limite < t[k].base
    BY <1>3 DEF DisjuntasDe
  <2>1. \A a, b \in 1 .. n : a # b => s[a].limite < s[b].base \/ s[b].limite < s[a].base
    BY <1>1 DEF TablaDe, DisjuntasDe
  <2>2. \A a \in 1 .. n : /\ s[a].limite \in Int /\ s[a].base \in Int /\ s[a].tamanio \in Int
                          /\ s[a].tamanio > 0 /\ s[a].limite = s[a].base + s[a].tamanio - 1
    BY <1>1
  <2>3. ASSUME NEW a \in 1 .. n, a # i, a # i + 1
        PROVE  s[a].limite < s[i].base \/ s[i + 1].limite < s[a].base
    <3>1. s[a].limite < s[i].base \/ s[i].limite < s[a].base
      BY <2>1, <2>3, <1>2
    <3>2. s[a].limite < s[i + 1].base \/ s[i + 1].limite < s[a].base
      BY <2>1, <2>3, <1>2
    <3>3. s[a].base <= s[a].limite
      <4>1. /\ s[a].limite \in Int /\ s[a].base \in Int /\ s[a].tamanio \in Int
            /\ s[a].tamanio > 0 /\ s[a].limite = s[a].base + s[a].tamanio - 1
        BY <2>2
      <4>2. QED
        BY <4>1
    <3>4. /\ s[a].base \in Int /\ s[a].limite \in Int /\ s[i].base \in Int /\ s[i].limite \in Int
          /\ s[i + 1].base \in Int /\ s[i + 1].limite \in Int
      BY <2>2, <1>2
    <3>5. QED
      BY <3>1, <3>2, <3>3, <3>4, <1>2
  <2>4. CASE k = i
    BY <2>4, <2>3, <1>4, <1>6
  <2>5. CASE l = i
    BY <2>5, <2>3, <1>4, <1>6
  <2>6. CASE k # i /\ l # i
    <3>1. de(k) # de(l)
      BY <1>2
    <3>2. QED
      BY <2>6, <3>1, <2>1, <1>4
  <2>7. QED
    BY <2>4, <2>5, <2>6
<1>11. CubiertaPor(t)
  <2> SUFFICES ASSUME ESQUEMA = "DINAMICAS", NEW a \in 0 .. TAM_MEMORIA - 1
               PROVE  \E k \in 1 .. n - 1 : t[k].base <= a /\ a <= t[k].limite
    BY <1>3 DEF CubiertaPor
  <2>1. PICK j \in 1 .. n : s[j].base <= a /\ a <= s[j].limite
    BY <1>1 DEF TablaDe, CubiertaPor
  <2>2. CASE j = i \/ j = i + 1
    <3>1. /\ s[i].base \in Int /\ s[i].limite \in Int /\ s[i + 1].base \in Int /\ s[i + 1].limite \in Int
          /\ s[i].tamanio > 0 /\ s[i + 1].tamanio > 0 /\ s[i].tamanio \in Int /\ s[i + 1].tamanio \in Int
      BY <1>1, <1>2
    <3>2. s[i].base <= a /\ a <= s[i + 1].limite
      <4>1. /\ s[i].limite = s[i].base + s[i].tamanio - 1 /\ s[i].limite + 1 = s[i + 1].base
            /\ s[i + 1].limite = s[i + 1].base + s[i + 1].tamanio - 1
        BY <1>2
      <4>2. a \in Int /\ (\/ s[i].base <= a /\ a <= s[i].limite
                          \/ s[i + 1].base <= a /\ a <= s[i + 1].limite)
        BY <2>1, <2>2
      <4>3. CASE s[i].base <= a /\ a <= s[i].limite
        <5>1. s[i].limite <= s[i + 1].limite
          BY <3>1, <4>1
        <5>2. QED
          BY <4>2, <4>3, <5>1, <3>1
      <4>4. CASE s[i + 1].base <= a /\ a <= s[i + 1].limite
        <5>1. s[i].base <= s[i + 1].base
          BY <3>1, <4>1, SMTT(30)
        <5>2. QED
          BY <4>2, <4>4, <5>1, <3>1
      <4>5. QED
        BY <4>2, <4>3, <4>4
    <3>3. i \in 1 .. n - 1
      OBVIOUS
    <3>4. QED
      BY <3>2, <3>3, <1>6
  <2>3. CASE j < i
    <3>1. j \in 1 .. n - 1 /\ j # i /\ de(j) = j
      BY <2>3, <1>1, <1>2
    <3>2. QED
      BY <3>1, <2>1, <1>4
  <2>4. CASE j > i + 1
    <3>1. j - 1 \in 1 .. n - 1 /\ j - 1 # i /\ de(j - 1) = j
      BY <2>4, <1>1, <1>2
    <3>2. QED
      BY <3>1, <2>1, <1>4
  <2>5. QED
    BY <2>2, <2>3, <2>4, <1>1, <1>2
<1>12. QED
  BY <1>8, <1>9, <1>10, <1>11 DEF TablaDe, t

\* crear_proceso_esquema_dinamico: the two halves hold the bytes of the whole.
LEMMA TablaPartida ==
  ASSUME NEW s, TablaDe(s), NEW i \in DOMAIN s, NEW p \in Pids, NEW tam \in Nat \ {0},
         tam < s[i].tamanio, particionID \in Nat
  PROVE  TablaDe(Append([s EXCEPT ![i] = Ocupar(Recortar(s[i], tam), p)], Resto(s[i], tam)))
<1> DEFINE n == Len(s)
           e == Ocupar(Recortar(s[i], tam), p)
           r == Resto(s[i], tam)
           u == [s EXCEPT ![i] = e]
           t == Append(u, r)
<1>1. /\ s \in Seq(Bloque) /\ n \in Nat /\ DOMAIN s = 1 .. n
      /\ \A j \in 1 .. n :
           /\ s[j] \in Bloque
           /\ s[j].base \in Int /\ s[j].limite \in Int /\ s[j].tamanio \in Int
           /\ s[j].tamanio > 0 /\ s[j].limite = s[j].base + s[j].tamanio - 1
  BY NumerosTabla
<1>2. s[i] \in Bloque /\ s[i].base \in Nat /\ s[i].particion_id \in Nat
  BY <1>1 DEF Bloque
<1>3. /\ e \in Bloque
      /\ e.base = s[i].base /\ e.limite = s[i].base + tam - 1 /\ e.tamanio = tam
  <2>1. s[i].base + tam - 1 \in Int
    BY <1>2
  <2>2. QED
    BY <1>2, <2>1 DEF Ocupar, Recortar, Bloque
<1>4. /\ r \in Bloque
      /\ r.base = s[i].base + tam /\ r.tamanio = s[i].tamanio - tam
      /\ r.limite = (s[i].base + tam) + (s[i].tamanio - tam) - 1
  <2>1. /\ s[i].base + tam \in Nat /\ s[i].tamanio - tam \in Nat \ {0}
        /\ (s[i].base + tam) + (s[i].tamanio - tam) - 1 \in Int
    <3>1. s[i].tamanio \in Int
      BY <1>1
    <3>2. QED
      BY <1>2, <3>1
  <2>2. QED
    BY <2>1 DEF Resto, Particion, Bloque
<1>5. r.limite = s[i].limite
  <2>1. s[i].limite = s[i].base + s[i].tamanio - 1 /\ s[i].base \in Int /\ s[i].tamanio \in Int
    BY <1>1
  <2>2. QED
    BY <1>4, <2>1
<1> HIDE DEF e, r
<1>6. /\ u \in Seq(Bloque) /\ DOMAIN u = DOMAIN s
      /\ \A j \in DOMAIN s : u[j] = IF j = i THEN e ELSE s[j]
  BY <1>1, <1>3, ReemplazoSeq
<1>7. Len(u) = n
  BY <1>1, <1>6, LenProperties
<1> HIDE DEF u
<1>8. /\ t \in Seq(Bloque) /\ DOMAIN t = 1 .. n + 1 /\ t[n + 1] = r
      /\ \A j \in 1 .. n : t[j] = IF j = i THEN e ELSE s[j]
  <2>1. t \in Seq(Bloque) /\ Len(t) = n + 1 /\ t[n + 1] = r
    BY <1>4, <1>6, <1>7, AppendProperties
  <2>2. \A j \in 1 .. n : t[j] = u[j]
    BY <1>4, <1>6, <1>7, AppendProperties
  <2> HIDE DEF t
  <2>3. QED
    BY <1>1, <1>6, <2>1, <2>2, LenProperties
<1> HIDE DEF t
<1>9. FormaDe(t)
  <2> SUFFICES ASSUME NEW k \in 1 .. n + 1 PROVE t[k].limite = t[k].base + t[k].tamanio - 1
    BY <1>8 DEF FormaDe
  <2>1. CASE k = n + 1
    BY <2>1, <1>4, <1>8
  <2>2. CASE k = i
    BY <2>2, <1>1, <1>3, <1>8
  <2>3. CASE k \in 1 .. n /\ k # i
    BY <2>3, <1>1, <1>8
  <2>4. k = n + 1 \/ k \in 1 .. n
    <3>1. \A m \in Nat : \A q \in 1 .. m + 1 : q = m + 1 \/ q \in 1 .. m
      OBVIOUS
    <3>2. QED
      BY <1>1, <3>1
  <2>5. QED
    BY <2>1, <2>2, <2>3, <2>4, Zenon
<1>10. /\ s[i].base \in Int /\ s[i].tamanio \in Int /\ s[i].limite \in Int
       /\ s[i].limite = s[i].base + s[i].tamanio - 1
  BY <1>1
<1>11. DisjuntasDe(t)
  <2>1. \A a, b \in 1 .. n : a # b => s[a].limite < s[b].base \/ s[b].limite < s[a].base
    BY <1>1 DEF TablaDe, DisjuntasDe
  <2>2. ASSUME NEW a \in 1 .. n, a # i
        PROVE  /\ s[a].limite < e.base \/ e.limite < s[a].base
               /\ s[a].limite < r.base \/ r.limite < s[a].base
    <3>1. s[a].limite < s[i].base \/ s[i].limite < s[a].base
      BY <2>1, <2>2, <1>1
    <3>2. s[a].base \in Int /\ s[a].limite \in Int
      BY <1>1
    <3>3. /\ s[a].limite < s[i].base => s[a].limite < s[i].base + tam
          /\ s[i].limite < s[a].base => s[i].base + tam - 1 < s[a].base
      BY <3>2, <1>10, SMTT(30)
    <3>4. QED
      BY <3>1, <3>3, <1>3, <1>4, <1>5
  <2>3. e.limite < r.base
    BY <1>3, <1>4, <1>10
  <2>4. QED
    <3> SUFFICES ASSUME NEW k \in 1 .. n + 1, NEW l \in 1 .. n + 1, k # l
                 PROVE  t[k].limite < t[l].base \/ t[l].limite < t[k].base
      BY <1>8 DEF DisjuntasDe
    <3>1. CASE k = n + 1
      BY <3>1, <1>1, <1>8, <2>2, <2>3, SMTT(30)
    <3>2. CASE l = n + 1
      BY <3>2, <1>1, <1>8, <2>2, <2>3, SMTT(30)
    <3>3. CASE k \in 1 .. n /\ l \in 1 .. n
      BY <3>3, <1>1, <1>8, <2>1, <2>2
    <3>4. QED
      BY <3>1, <3>2, <3>3, <1>1
<1>12. CubiertaPor(t)
  <2> SUFFICES ASSUME ESQUEMA = "DINAMICAS", NEW a \in 0 .. TAM_MEMORIA - 1
               PROVE  \E k \in 1 .. n + 1 : t[k].base <= a /\ a <= t[k].limite
    BY <1>8 DEF CubiertaPor
  <2>1. PICK j \in 1 .. n : s[j].base <= a /\ a <= s[j].limite
    BY <1>1 DEF TablaDe, CubiertaPor
  <2>2. CASE j = i
    <3>1. a <= e.limite \/ r.base <= a
      BY <1>3, <1>4, <1>10
    <3>2. /\ i \in 1 .. n + 1 /\ n + 1 \in 1 .. n + 1 /\ t[i] = e /\ t[n + 1] = r
          /\ e.base <= a /\ a <= r.limite
      BY <2>1, <2>2, <1>1, <1>3, <1>5, <1>8
    <3>3. QED
      BY <3>1, <3>2
  <2>3. CASE j # i
    BY <2>1, <2>3, <1>1, <1>8
  <2>4. QED
    BY <2>2, <2>3
<1>13. QED
  BY <1>8, <1>9, <1>11, <1>12 DEF TablaDe, t, u, e, r

\* The free or taken mark of an element and its process are not looked at.
LEMMA TablaMarcada ==
  ASSUME NEW s, TablaDe(s), NEW i \in DOMAIN s, NEW e \in Bloque,
         e.base = s[i].base, e.limite = s[i].limite, e.tamanio = s[i].tamanio
  PROVE  TablaDe([s EXCEPT ![i] = e])
<1> DEFINE t == [s EXCEPT ![i] = e]
<1>1. /\ t \in Seq(Bloque) /\ DOMAIN t = DOMAIN s
      /\ \A j \in DOMAIN s : t[j] = IF j = i THEN e ELSE s[j]
  BY ReemplazoSeq DEF TablaDe
<1> HIDE DEF t
<1>2. MismaForma(s, t)
  BY <1>1 DEF MismaForma
<1>3. TablaDe(t)
  BY <1>1, <1>2, TablaIgual
<1>4. QED
  BY <1>3 DEF t

-----------------------------------------------------------------------------
Fases == {"nuevo", "rechazado", "vivo", "liberar", "quitar", "ordenar", "unificar", "finalizado"}

\* TypeOK of everything but the table of partitions.
TipoResto ==
  /\ particionID \in Nat
  /\ procesos \in [Pids -> Registro \cup {Nada}]
  /\ creacion \in Pedido \cup {Nada}
  /\ fase \in [Pids -> Fases]
  /\ volcado \in [pid : Pids, desde : Nat, cantidad : Nat, tamanio : Nat] \cup {Nada}
  /\ indefinido \in BOOLEAN

\* The parts of TInv.
LEMMA Partes ==
  TInv <=> (TablaDe(particiones) /\ TipoResto /\ Presentes)
<1>1. TypeOK <=> (particiones \in Seq(Bloque) /\ TipoResto)
  BY DEF TypeOK, TipoResto, Fases
<1>2. TInv => TablaDe(particiones) /\ TipoResto /\ Presentes
  BY <1>1, TInvTabla DEF TInv
<1>3. TablaDe(particiones) /\ TipoResto /\ Presentes => TInv
  BY <1>1, TInvTabla DEF TInv, TablaDe
<1>4. QED
  BY <1>2, <1>3

\* The recursive function is what its definition says.
LEMMA SumaDef ==
  suma = [n \in 0 .. Len(PARTICIONES) |-> IF n = 0 THEN 0 ELSE suma[n - 1] + PARTICIONES[n]]
<1> DEFINE Hasta(g, n) == g = [k \in 0 .. n |-> IF k = 0 THEN 0 ELSE g[k - 1] + PARTICIONES[k]]
           S == {n \in Nat : \E g : Hasta(g, n)}
<1>1. 0 \in S
  <2>1. Hasta([k \in 0 .. 0 |-> 0], 0)
    OBVIOUS
  <2>2. QED
    BY <2>1
<1>2. ASSUME NEW n \in S PROVE n + 1 \in S
  <2>1. PICK g : Hasta(g, n)
    OBVIOUS
  <2> DEFINE h == [k \in 0 .. n + 1 |-> IF k = n + 1 THEN g[n] + PARTICIONES[k] ELSE g[k]]
  <2>2. \A k \in 0 .. n : g[k] = IF k = 0 THEN 0 ELSE g[k - 1] + PARTICIONES[k]
    BY <2>1
  <2>3. ASSUME NEW k \in 0 .. n + 1 PROVE h[k] = IF k = 0 THEN 0 ELSE h[k - 1] + PARTICIONES[k]
    <3>1. CASE k = n + 1
      <4>1. k - 1 \in 0 .. n + 1 /\ k - 1 # n + 1 /\ k - 1 = n /\ k # 0
        BY <3>1
      <4>2. h[k - 1] = g[n] /\ h[k] = g[n] + PARTICIONES[k]
        BY <3>1, <4>1
      <4>3. QED
        BY <4>1, <4>2
    <3>2. CASE k = 0
      BY <2>2, <3>2
    <3>3. CASE k \in 1 .. n
      <4>1. k - 1 \in 0 .. n + 1 /\ k - 1 # n + 1 /\ k # n + 1 /\ k # 0
        BY <3>3
      <4>2. h[k - 1] = g[k - 1] /\ h[k] = g[k]
        BY <4>1
      <4>3. QED
        BY <2>2, <3>3, <4>1, <4>2
    <3>4. QED
      BY <3>1, <3>2, <3>3
  <2>4. Hasta(h, n + 1)
    <3>1. h = [k \in 0 .. n + 1 |-> h[k]]
      OBVIOUS
    <3> HIDE DEF h
    <3>2. QED
      BY <2>3, <3>1
  <2> HIDE DEF h, Hasta
  <2>5. QED
    BY <2>4
<1>3. S = Nat
  <2> HIDE DEF S
  <2>1. S \in SUBSET Nat
    BY DEF S
  <2>2. QED
    BY <1>1, <1>2, <2>1, Induccion
<1>4. Len(PARTICIONES) \in S
  BY <1>3, LenProperties
<1>5. \E g : Hasta(g, Len(PARTICIONES))
  BY <1>4
<1>6. QED
  BY <1>5 DEF suma

\* The sums of the sizes are naturals, and grow.
LEMMA Sumas ==
  LET L == Len(PARTICIONES) IN
  /\ L \in Nat /\ \A n \in 0 .. L : suma[n] \in Nat
  /\ \A n \in 1 .. L : PARTICIONES[n] \in Nat \ {0} /\ suma[n] = suma[n - 1] + PARTICIONES[n]
  /\ \A n, m \in 0 .. L : n <= m => suma[n] <= suma[m]
<1> DEFINE L == Len(PARTICIONES)
<1>1. L \in Nat /\ \A n \in 1 .. L : PARTICIONES[n] \in Nat \ {0}
  BY LenProperties, ElementOfSeq
<1>2. \A n \in 0 .. L : suma[n] = IF n = 0 THEN 0 ELSE suma[n - 1] + PARTICIONES[n]
  BY SumaDef
<1> HIDE DEF L
<1>3. suma[0] = 0 /\ \A n \in 1 .. L : suma[n] = suma[n - 1] + PARTICIONES[n]
  BY <1>1, <1>2
\* Naturals.
<1>4. \A n \in 0 .. L : suma[n] \in Nat
  <2> DEFINE S == {n \in Nat : n \in 0 .. L => suma[n] \in Nat}
  <2>1. 0 \in S
    BY <1>3
  <2>2. ASSUME NEW n \in S PROVE n + 1 \in S
    <3>1. SUFFICES ASSUME n + 1 \in 0 .. L PROVE suma[n + 1] \in Nat
      OBVIOUS
    <3>2. n \in 0 .. L /\ n + 1 \in 1 .. L /\ (n + 1) - 1 = n
      BY <1>1, <3>1
    <3>3. suma[n] \in Nat /\ suma[n + 1] = suma[n] + PARTICIONES[n + 1] /\ PARTICIONES[n + 1] \in Nat
      BY <1>1, <1>3, <3>2
    <3>4. QED
      BY <3>3
  <2>3. S = Nat
    <3> HIDE DEF S
    <3>1. S \in SUBSET Nat
      BY DEF S
    <3>2. QED
      BY <2>1, <2>2, <3>1, Induccion
  <2>4. QED
    BY <2>3
\* In order.
<1>5. ASSUME NEW n \in 0 .. L PROVE \A m \in 0 .. L : n <= m => suma[n] <= suma[m]
  <2> DEFINE S == {m \in Nat : m \in 0 .. L /\ n <= m => suma[n] <= suma[m]}
  <2>1. 0 \in S
    BY <1>4
  <2>2. ASSUME NEW m \in S PROVE m + 1 \in S
    <3>1. SUFFICES ASSUME m + 1 \in 0 .. L, n <= m + 1 PROVE suma[n] <= suma[m + 1]
      OBVIOUS
    <3>2. CASE n = m + 1
      BY <1>4, <3>2
    <3>3. CASE n <= m
      <4>1. m \in 0 .. L /\ m + 1 \in 1 .. L /\ (m + 1) - 1 = m
        BY <1>1, <3>1
      <4>2. /\ suma[n] <= suma[m] /\ suma[n] \in Nat /\ suma[m] \in Nat
            /\ suma[m + 1] = suma[m] + PARTICIONES[m + 1] /\ PARTICIONES[m + 1] \in Nat
        BY <1>1, <1>3, <1>4, <3>3, <4>1
      <4>3. QED
        BY <4>2
    <3>4. QED
      BY <3>1, <3>2, <3>3
  <2>3. S = Nat
    <3> HIDE DEF S
    <3>1. S \in SUBSET Nat
      BY DEF S
    <3>2. QED
      BY <2>1, <2>2, <3>1, Induccion
  <2>4. QED
    BY <2>3
<1>6. QED
  BY <1>1, <1>3, <1>4, <1>5 DEF L

\* The initial table: one hole with all the memory, or the partitions of the configuration
\* one after the other.
LEMMA IniciaTabla ==
  ASSUME Init
  PROVE  TablaDe(particiones) /\ TipoResto /\ Presentes
<1>1. ASSUME ESQUEMA = "DINAMICAS" PROVE TablaDe(particiones)
  <2> DEFINE x == Particion(0, 0, TAM_MEMORIA)
  <2>1. particiones = <<x>>
    BY <1>1 DEF Init, ParticionesIniciales
  <2>2. x \in Bloque /\ x.base = 0 /\ x.limite = 0 + TAM_MEMORIA - 1 /\ x.tamanio = TAM_MEMORIA
    BY DEF Particion, Bloque
  <2> HIDE DEF x
  <2>3. particiones \in Seq(Bloque) /\ DOMAIN particiones = {1} /\ particiones[1] = x
    BY <2>1, <2>2
  <2>4. QED
    BY <2>2, <2>3 DEF TablaDe, FormaDe, DisjuntasDe, CubiertaPor
<1>2. ASSUME ESQUEMA = "FIJAS" PROVE TablaDe(particiones)
  <2> DEFINE L == Len(PARTICIONES)
             x(i) == Particion(i - 1, suma[i - 1], PARTICIONES[i])
  <2>1. particiones = [i \in 1 .. L |-> x(i)]
    BY <1>2 DEF Init, ParticionesIniciales
  <2>2. /\ L \in Nat /\ \A n \in 0 .. L : suma[n] \in Nat
        /\ \A n \in 1 .. L : PARTICIONES[n] \in Nat \ {0} /\ suma[n] = suma[n - 1] + PARTICIONES[n]
        /\ \A n, m \in 0 .. L : n <= m => suma[n] <= suma[m]
    BY Sumas
  <2> HIDE DEF L
  <2>3. ASSUME NEW i \in 1 .. L
        PROVE  /\ x(i) \in Bloque /\ x(i).base = suma[i - 1] /\ x(i).tamanio = PARTICIONES[i]
               /\ x(i).limite = suma[i - 1] + PARTICIONES[i] - 1
    <3>1. i - 1 \in Nat /\ i - 1 \in 0 .. L
      BY <2>2
    <3>2. suma[i - 1] \in Nat /\ PARTICIONES[i] \in Nat \ {0}
      BY <2>2, <3>1
    <3>3. suma[i - 1] + PARTICIONES[i] - 1 \in Int
      BY <3>2
    <3>4. QED
      BY <3>1, <3>2, <3>3 DEF Particion, Bloque
  <2> HIDE DEF x
  <2>4. particiones \in Seq(Bloque) /\ DOMAIN particiones = 1 .. L /\ \A i \in 1 .. L : particiones[i] = x(i)
    BY <2>1, <2>2, <2>3, IsASeq
  <2>5. FormaDe(particiones) /\ CubiertaPor(particiones)
    BY <1>2, <2>3, <2>4 DEF FormaDe, CubiertaPor
  <2>6. ASSUME NEW i \in 1 .. L, NEW j \in 1 .. L, i < j PROVE x(i).limite < x(j).base
    <3>1. i \in 0 .. L /\ i - 1 \in 0 .. L /\ j - 1 \in 0 .. L /\ i <= j - 1
      BY <2>2, <2>6
    <3>2. /\ suma[i] \in Nat /\ suma[i - 1] \in Nat /\ suma[j - 1] \in Nat /\ PARTICIONES[i] \in Nat
          /\ suma[i] = suma[i - 1] + PARTICIONES[i] /\ suma[i] <= suma[j - 1]
      BY <2>2, <3>1
    <3>3. suma[i - 1] + PARTICIONES[i] - 1 < suma[j - 1]
      BY ONLY <3>2
    <3>4. QED
      BY <2>3, <3>3
  <2>7. ASSUME NEW i \in 1 .. L, NEW j \in 1 .. L, i # j
        PROVE  x(i).limite < x(j).base \/ x(j).limite < x(i).base
    <3>1. i < j \/ j < i
      BY <2>2, <2>7
    <3>2. QED
      BY <2>6, <3>1
  <2>8. DisjuntasDe(particiones)
    BY <2>4, <2>7 DEF DisjuntasDe
  <2>9. QED
    BY <2>4, <2>5, <2>8 DEF TablaDe
<1>3. TipoResto /\ Presentes
  BY DEF Init, TipoResto, Fases, Presentes
<1>4. QED
  BY <1>1, <1>2, <1>3

\* Every step of Memoria keeps the table.
LEMMA PasoTabla ==
  ASSUME TablaDe(particiones), TipoResto, Next
  PROVE  TablaDe(particiones')
<1> USE DEF TipoResto
<1>1. ASSUME CrearProceso PROVE TablaDe(particiones')
  <2>1. creacion.pid \in Pids /\ creacion.tamanio \in Tamanios /\ creacion.tamanio \in Nat \ {0}
    BY <1>1 DEF CrearProceso, Pedido
  <2>2. CASE CrearLiberada
    BY <2>2 DEF CrearLiberada
  <2>3. ASSUME NEW i \in ConId(creacion.particion), CrearEn(i) PROVE TablaDe(particiones')
    <3>1. i \in DOMAIN particiones
      BY DEF ConId
    <3>2. CASE ESQUEMA = "DINAMICAS" /\ particiones[i].tamanio > creacion.tamanio
      <4>1. particiones' = Append([particiones EXCEPT ![i] =
                             Ocupar(Recortar(particiones[i], creacion.tamanio), creacion.pid)],
                             Resto(particiones[i], creacion.tamanio))
        BY <2>3, <3>2 DEF CrearEn
      <4>2. creacion.tamanio < particiones[i].tamanio
        BY <2>1, <3>1, <3>2, NumerosTabla
      <4>3. QED
        BY <2>1, <3>1, <4>1, <4>2, TablaPartida
    <3>3. CASE ~(ESQUEMA = "DINAMICAS" /\ particiones[i].tamanio > creacion.tamanio)
      <4>0. particiones[i].tamanio \in Int
        BY <3>1, NumerosTabla
      <4>1. particiones' = [particiones EXCEPT ![i] = Ocupar(particiones[i], creacion.pid)]
        BY <2>3, <3>3, <4>0 DEF CrearEn
      <4>2. particiones[i] \in Bloque
        BY <3>1, NumerosTabla
      <4>3. /\ Ocupar(particiones[i], creacion.pid) \in Bloque
            /\ Ocupar(particiones[i], creacion.pid).base = particiones[i].base
            /\ Ocupar(particiones[i], creacion.pid).limite = particiones[i].limite
            /\ Ocupar(particiones[i], creacion.pid).tamanio = particiones[i].tamanio
        BY <2>1, <4>2 DEF Ocupar, Bloque
      <4>4. QED
        BY <3>1, <4>1, <4>3, TablaMarcada
    <3>4. QED
      BY <3>2, <3>3
  <2>4. QED
    BY <1>1, <2>2, <2>3 DEF CrearProceso
<1>2. ASSUME NEW p \in Pids, LiberarParticion(p) PROVE TablaDe(particiones')
  <2>1. PICK i \in ConId(procesos[p].particion) :
          particiones' = [particiones EXCEPT ![i] = Desocupar(particiones[i])]
    BY <1>2 DEF LiberarParticion
  <2>2. i \in DOMAIN particiones /\ particiones[i] \in Bloque
    BY NumerosTabla DEF ConId
  <2>3. /\ Desocupar(particiones[i]) \in Bloque
        /\ Desocupar(particiones[i]).base = particiones[i].base
        /\ Desocupar(particiones[i]).limite = particiones[i].limite
        /\ Desocupar(particiones[i]).tamanio = particiones[i].tamanio
    BY <2>2 DEF Desocupar, Bloque
  <2>4. QED
    BY <2>1, <2>2, <2>3, TablaMarcada
<1>3. ASSUME Ordenar PROVE TablaDe(particiones')
  <2>1. PICK f \in Ordenes(Len(particiones)) :
          /\ OrdenPorBase(particiones, f)
          /\ particiones' = [i \in DOMAIN particiones |-> particiones[f[i]]]
    BY <1>3 DEF Ordenar
  <2>2. QED
    BY <2>1, TablaOrdenada
<1>4. ASSUME NEW p \in Pids, UnificarParticiones(p) PROVE TablaDe(particiones')
  <2>1. PICK i \in 1 .. Len(particiones) - 1 :
          Unible(particiones, i) /\ particiones' = Unidas(particiones, i)
    BY <1>4 DEF UnificarParticiones, Unibles
  <2>2. QED
    BY <2>1, TablaUnida
<1>5. CASE UNCHANGED particiones
  BY <1>5
<1>6. QED
  BY <1>1, <1>2, <1>3, <1>4, <1>5
     DEF Next, Finalizacion, BuscarHueco, PedirFinalizacion, QuitarProceso, OrdenarParticiones,
         FinalizarProceso, EscribirMemoria, VolcarMemoria

\* Every step of Memoria keeps the types of the rest of its state.
LEMMA PasoTipos ==
  ASSUME TablaDe(particiones), TipoResto, Presentes, Next
  PROVE  TipoResto' /\ Presentes'
<1> USE DEF Fases
<1>0. \A i \in DOMAIN particiones : particiones[i] \in Bloque
  BY NumerosTabla
<1>1. ASSUME NEW p \in Pids, NEW tam \in Tamanios, BuscarHueco(p, tam) PROVE TipoResto' /\ Presentes'
  <2>1. \A i \in DOMAIN particiones : particiones[i].particion_id \in Nat
    BY <1>0 DEF Bloque
  <2>2. creacion' \in Pedido \cup {Nada}
    BY <1>1, <2>1 DEF BuscarHueco, TipoResto, Asignable, Pedido
  <2>3. fase' \in [Pids -> Fases]
    BY <1>1 DEF BuscarHueco, TipoResto
  <2>4. QED
    BY <1>1, <2>2, <2>3 DEF BuscarHueco, TipoResto, Presentes
<1>2. ASSUME CrearProceso PROVE TipoResto' /\ Presentes'
  <2>1. creacion.pid \in Pids /\ creacion.tamanio \in Int /\ creacion.particion \in Nat
    <3>1. creacion \in Pedido
      BY <1>2 DEF CrearProceso, TipoResto
    <3>2. creacion.tamanio \in Tamanios
      BY <3>1 DEF Pedido
    <3>3. creacion.tamanio \in Nat \ {0}
      BY <3>2, Zenon
    <3>4. QED
      BY <3>1, <3>3 DEF Pedido
  <2>2. CASE CrearLiberada
    <3>1. PICK b \in 0 .. TAM_MEMORIA - 1, l \in 0 .. TAM_MEMORIA - 1 :
            procesos' = [procesos EXCEPT ![creacion.pid] =
              [base |-> b, limite |-> l, particion |-> creacion.particion, mayor |-> -1]]
      BY <2>2 DEF CrearLiberada
    <3>2. [base |-> b, limite |-> l, particion |-> creacion.particion, mayor |-> -1] \in Registro
      BY <2>1 DEF Registro
    <3>3. procesos' \in [Pids -> Registro \cup {Nada}]
      BY <3>1, <3>2, <2>1 DEF TipoResto
    <3>5. [base |-> b, limite |-> l, particion |-> creacion.particion, mayor |-> -1] # Nada
      BY <3>2, NadaAssumption
    <3>6. QED
      BY <1>2, <2>1, <2>2, <3>1, <3>3, <3>5 DEF CrearLiberada, CrearProceso, TipoResto, Presentes
  <2>3. ASSUME NEW i \in ConId(creacion.particion), CrearEn(i) PROVE TipoResto' /\ Presentes'
    <3> DEFINE tam == IF ESQUEMA = "FIJAS" THEN particiones[i].tamanio ELSE creacion.tamanio
    <3>1. /\ particiones[i].base \in Nat /\ particiones[i].particion_id \in Nat
          /\ particiones[i].tamanio \in Int
      BY <1>0 DEF ConId, Bloque
    <3>2. particiones[i].base + tam - 1 \in Int
      <4>1. tam \in Int
        BY <2>1, <3>1
      <4> HIDE DEF tam
      <4>2. QED
        BY ONLY <3>1, <4>1
    <3>4. procesos' = [procesos EXCEPT ![creacion.pid] = Proceso(particiones[i], tam)]
      BY <2>3 DEF CrearEn
    <3> HIDE DEF tam
    <3>3. Proceso(particiones[i], tam) \in Registro
      BY <3>1, <3>2 DEF Proceso, Registro
    <3>5. procesos' \in [Pids -> Registro \cup {Nada}]
      BY <3>3, <3>4, <2>1 DEF TipoResto
    <3>6. particionID' \in Nat /\ UNCHANGED indefinido
      BY <2>3 DEF CrearEn, TipoResto
    <3>8. Proceso(particiones[i], tam) # Nada
      BY <3>3, NadaAssumption
    <3>9. QED
      BY <1>2, <2>1, <3>4, <3>5, <3>6, <3>8 DEF CrearProceso, TipoResto, Presentes
  <2>4. QED
    BY <1>2, <2>2, <2>3 DEF CrearProceso
<1>3. ASSUME NEW p \in Pids, PedirFinalizacion(p) PROVE TipoResto' /\ Presentes'
  BY <1>3 DEF PedirFinalizacion, TipoResto, Presentes
<1>4. ASSUME NEW p \in Pids, Finalizacion(p) PROVE TipoResto' /\ Presentes'
  <2>1. CASE LiberarParticion(p)
    BY <2>1 DEF LiberarParticion, TipoResto, Presentes
  <2>2. CASE QuitarProceso(p)
    BY <2>2 DEF QuitarProceso, TipoResto, Presentes
  <2>3. CASE OrdenarParticiones(p)
    BY <2>3 DEF OrdenarParticiones, TipoResto, Presentes
  <2>4. CASE UnificarParticiones(p)
    BY <2>4 DEF UnificarParticiones, TipoResto, Presentes
  <2>5. CASE FinalizarProceso(p)
    BY <2>5 DEF FinalizarProceso, TipoResto, Presentes
  <2>6. QED
    BY <1>4, <2>1, <2>2, <2>3, <2>4, <2>5 DEF Finalizacion
<1>5. ASSUME NEW p \in Pids, NEW dir \in Direcciones, EscribirMemoria(p, dir) PROVE TipoResto' /\ Presentes'
  <2> DEFINE x == procesos[p]
             mayor == IF x.base + dir > x.mayor THEN x.base + dir ELSE x.mayor
  <2>1. procesos' = [procesos EXCEPT ![p].mayor = mayor]
    BY <1>5 DEF EscribirMemoria
  <2>2. x \in Registro
    BY <1>5 DEF EscribirMemoria, TipoResto, Presentes
  <2>3. x.base \in Int /\ x.mayor \in Int /\ dir \in Int
    BY <2>2 DEF Registro
  <2>4. mayor \in Int
    BY <2>3
  <2> HIDE DEF mayor
  <2>5. [x EXCEPT !.mayor = mayor] \in Registro
    BY <2>2, <2>4 DEF Registro
  <2>6. procesos' = [procesos EXCEPT ![p] = [x EXCEPT !.mayor = mayor]]
    BY <2>1
  <2> HIDE DEF x
  <2>7. procesos' \in [Pids -> Registro \cup {Nada}]
    BY <2>5, <2>6 DEF TipoResto
  <2>8. x # Nada /\ [x EXCEPT !.mayor = mayor] # Nada
    BY NadaAssumption, <2>2, <2>5
  <2>9. QED
    BY <1>5, <2>6, <2>7, <2>8 DEF EscribirMemoria, TipoResto, Presentes
<1>6. ASSUME NEW p \in Pids, VolcarMemoria(p) PROVE TipoResto' /\ Presentes'
  <2>1. procesos[p] \in Registro
    BY <1>6 DEF VolcarMemoria, TipoResto, Presentes
  <2>2. \A i \in DOMAIN particiones : particiones[i].base \in Nat /\ particiones[i].tamanio \in Nat
    BY <1>0 DEF Bloque
  <2>3. \A y \in Nat : procesos[p].mayor - y + 1 \in Int
    BY <2>1 DEF Registro
  <2>4. volcado' \in [pid : Pids, desde : Nat, cantidad : Nat, tamanio : Nat] \cup {Nada}
    BY <1>6, <2>2, <2>3 DEF VolcarMemoria, ConLimites, Escrito, EnviadoAFilesystem
  <2>5. indefinido' \in BOOLEAN
    BY <1>6 DEF VolcarMemoria, TipoResto
  <2>6. QED
    BY <1>6, <2>4, <2>5 DEF VolcarMemoria, TipoResto, Presentes
<1>7. QED
  BY <1>1, <1>2, <1>3, <1>4, <1>5, <1>6 DEF Next
-----------------------------------------------------------------------------
\* The invariant holds at the start and every step keeps it.
LEMMA InicioTabla ==
  ASSUME Init
  PROVE  TInv
  BY IniciaTabla, Partes

LEMMA PasoInvariante ==
  ASSUME TInv, [Next]_vars
  PROVE  TInv'
<1>0. (TInv <=> (TablaDe(particiones) /\ TipoResto /\ Presentes))'
  BY Partes, PTL
<1>1. TablaDe(particiones) /\ TipoResto /\ Presentes
  BY Partes
<1>2. TInv' <=> (TablaDe(particiones') /\ TipoResto' /\ Presentes')
  BY <1>0
<1>3. CASE Next
  BY <1>1, <1>2, <1>3, PasoTabla, PasoTipos
<1>4. CASE UNCHANGED vars
  <2>1. UNCHANGED <<particiones, particionID, procesos, creacion, fase, volcado, indefinido>>
    BY <1>4 DEF vars
  <2>2. TablaDe(particiones') /\ TipoResto' /\ Presentes'
    BY <1>1, <2>1 DEF TipoResto, Presentes
  <2>3. QED
    BY <1>2, <2>2
<1>5. QED
  BY <1>3, <1>4

LEMMA Invariante ==
  Spec => []TInv
  BY InicioTabla, PasoInvariante, PTL DEF Spec

\* The tables of Memoria keep their types.
THEOREM TiposMemoria ==
  Spec => []TypeOK
<1>1. TInv => TypeOK
  BY DEF TInv
<1>2. QED
  BY <1>1, Invariante, PTL

\* ParticionesDisjuntas: no two partitions ever share a byte.
THEOREM MemoriaSinSolapes ==
  Spec => []ParticionesDisjuntas
<1>1. TInv => ParticionesDisjuntas
  BY DEF TInv
<1>2. QED
  BY <1>1, Invariante, PTL

\* MemoriaCubierta: no byte of user memory is ever lost.
THEOREM MemoriaSinPerdidas ==
  Spec => []MemoriaCubierta
<1>1. TInv => MemoriaCubierta
  BY DEF TInv
<1>2. QED
  BY <1>1, Invariante, PTL

-----------------------------------------------------------------------------
(***************************************************************************)
(* Requests in series: what a process, its partition and its dump have to  *)
(* do with each other.                                                     *)
(***************************************************************************)
ConMemoria == {"vivo", "liberar"}

\* A creation or the end of one process is under way, nothing else, if partitions move.
UnaPeticion ==
  ESQUEMA = "DINAMICAS" =>
    /\ creacion # Nada => \A p \in Pids : ~Finalizando(p)
    /\ \A p, q \in Pids : Finalizando(p) /\ Finalizando(q) => p = q

\* Requests in series; fixed partitions need no such order.
Ordenadas == EnSerie \/ ESQUEMA = "FIJAS"

\* The ids of a table are all different, and below the next one (which fixed
\* partitions never use).
IdsDe(s, n) ==
  /\ \A i, j \in DOMAIN s : s[i].particion_id = s[j].particion_id => i = j
  /\ ESQUEMA = "DINAMICAS" => \A i \in DOMAIN s : s[i].particion_id < n

\* The hole found for a process is still there when it is created.
Reservada ==
  creacion # Nada =>
    /\ fase[creacion.pid] \in {"nuevo", "rechazado"}
    /\ \E i \in DOMAIN particiones : /\ particiones[i].particion_id = creacion.particion
                                     /\ Sirve(particiones, i, creacion.tamanio)

\* The partition x is that of p.
EsDe(x, p) ==
  /\ x.ocupada /\ x.proceso = p /\ x.particion_id = procesos[p].particion
  /\ x.base = procesos[p].base /\ x.limite = procesos[p].limite

\* A process has its partition, and a taken partition has its process.
Duenios ==
  /\ \A p \in Pids : fase[p] \in ConMemoria => \E i \in DOMAIN particiones : EsDe(particiones[i], p)
  /\ \A i \in DOMAIN particiones : particiones[i].ocupada =>
       /\ particiones[i].proceso \in Pids /\ fase[particiones[i].proceso] \in ConMemoria
       /\ procesos[particiones[i].proceso].particion = particiones[i].particion_id

\* Nobody writes out of its partition.
Escritura ==
  \A p \in Pids : fase[p] = "vivo" =>
    \/ procesos[p].mayor = -1
    \/ /\ procesos[p].base <= procesos[p].mayor
       /\ procesos[p].mayor <= procesos[p].limite

Envio ==
  volcado # Nada =>
    LET x == procesos[volcado.pid] IN
    /\ volcado.desde = x.base
    /\ volcado.desde + volcado.cantidad - 1 <= x.limite
    /\ volcado.cantidad <= volcado.tamanio

SInv == /\ ~indefinido /\ UnaPeticion /\ IdsDe(particiones, particionID) /\ Reservada
        /\ Duenios /\ Escritura /\ Envio

PorBase(s) == \A i, j \in DOMAIN s : i < j => s[i].base < s[j].base

\* t has the elements of s in other places, some holes perhaps joined.
Reducida(s, t) ==
  /\ \E g \in [DOMAIN t -> DOMAIN s] :
       /\ \A k, l \in DOMAIN t : g[k] = g[l] => k = l
       /\ \A k \in DOMAIN t : /\ t[k].particion_id = s[g[k]].particion_id
                              /\ t[k].ocupada => t[k] = s[g[k]]
  /\ \A j \in DOMAIN s : s[j].ocupada => \E k \in DOMAIN t : t[k] = s[j]

LEMMA ReducidaIds ==
  ASSUME NEW s, NEW t, NEW n, Reducida(s, t), IdsDe(s, n)
  PROVE  IdsDe(t, n)
  BY DEF Reducida, IdsDe

LEMMA ReducidaIgual ==
  ASSUME NEW s
  PROVE  Reducida(s, s)
<1> DEFINE g == [k \in DOMAIN s |-> k]
<1>1. g \in [DOMAIN s -> DOMAIN s] /\ \A k \in DOMAIN s : g[k] = k
  OBVIOUS
<1>2. QED
  BY <1>1 DEF Reducida

\* ordenar_particiones_por_base.
LEMMA Ordenada ==
  ASSUME NEW s \in Seq(Bloque), NEW f \in Ordenes(Len(s)), OrdenPorBase(s, f)
  PROVE  Reducida(s, [i \in DOMAIN s |-> s[f[i]]]) /\ PorBase([i \in DOMAIN s |-> s[f[i]]])
<1> DEFINE t == [i \in DOMAIN s |-> s[f[i]]]
<1>0. \A b \in Bloque : b.base \in Nat
  BY DEF Bloque
<1>1. /\ Len(s) \in Nat /\ DOMAIN s = 1 .. Len(s)
      /\ \A j \in DOMAIN s : s[j] \in Bloque /\ s[j].base \in Nat
  BY <1>0, LenProperties, ElementOfSeq
<1>2. /\ f \in [DOMAIN s -> DOMAIN s]
      /\ \A i \in DOMAIN s : \E j \in DOMAIN s : f[j] = i
  BY <1>1 DEF Ordenes
<1>3. DOMAIN t = DOMAIN s /\ \A i \in DOMAIN s : t[i] = s[f[i]]
  OBVIOUS
<1> HIDE DEF t
<1>4. PorBase(t)
  BY <1>3 DEF PorBase, OrdenPorBase
<1>5. \A k, l \in DOMAIN s : f[k] = f[l] => k = l
  <2>1. SUFFICES ASSUME NEW k \in DOMAIN s, NEW l \in DOMAIN s, k < l PROVE f[k] # f[l]
    BY <1>1
  <2>2. s[f[k]].base < s[f[l]].base /\ f[k] \in DOMAIN s /\ s[f[k]].base \in Nat
    BY <1>1, <1>2, <2>1 DEF OrdenPorBase
  <2>3. QED
    BY <2>2
<1>6. Reducida(s, t)
  <2>1. f \in [DOMAIN t -> DOMAIN s]
    BY <1>2, <1>3
  <2>2. \A k, l \in DOMAIN t : f[k] = f[l] => k = l
    BY <1>3, <1>5
  <2>3. \A k \in DOMAIN t : t[k] = s[f[k]]
    BY <1>3
  <2>4. \A j \in DOMAIN s : \E k \in DOMAIN t : t[k] = s[j]
    BY <1>2, <1>3
  <2>5. \E g \in [DOMAIN t -> DOMAIN s] :
          /\ \A k, l \in DOMAIN t : g[k] = g[l] => k = l
          /\ \A k \in DOMAIN t : /\ t[k].particion_id = s[g[k]].particion_id
                                 /\ t[k].ocupada => t[k] = s[g[k]]
    <3>1. WITNESS f \in [DOMAIN t -> DOMAIN s]
    <3>2. QED
      BY <2>2, <2>3
  <2>6. QED
    BY <2>4, <2>5, Zenon DEF Reducida
<1>7. QED
  BY <1>4, <1>6 DEF t

\* unificar_particiones_libres_contiguas: the elements of the shorter list.
LEMMA Unida ==
  ASSUME NEW s \in Seq(Bloque), NEW i \in 1 .. Len(s) - 1
  PROVE  /\ DOMAIN Unidas(s, i) = 1 .. Len(s) - 1 /\ DOMAIN s = 1 .. Len(s) /\ Len(s) \in Nat
         /\ \A k \in 1 .. Len(s) - 1 : k < i => Unidas(s, i)[k] = s[k]
         /\ \A k \in 1 .. Len(s) - 1 : k > i => Unidas(s, i)[k] = s[k + 1]
         /\ Unidas(s, i)[i] = [s[i] EXCEPT !.tamanio = @ + s[i + 1].tamanio, !.limite = s[i + 1].limite]
         /\ Unidas(s, i)[i].particion_id = s[i].particion_id /\ Unidas(s, i)[i].ocupada = s[i].ocupada
         /\ Unidas(s, i)[i].base = s[i].base /\ Unidas(s, i)[i].limite = s[i + 1].limite
<1>1. Len(s) \in Nat /\ DOMAIN s = 1 .. Len(s) /\ s[i] \in Bloque
  BY LenProperties, ElementOfSeq
<1>2. Unidas(s, i)[i] = [s[i] EXCEPT !.tamanio = @ + s[i + 1].tamanio, !.limite = s[i + 1].limite]
  BY <1>1 DEF Unidas
<1>3. /\ Unidas(s, i)[i].particion_id = s[i].particion_id /\ Unidas(s, i)[i].ocupada = s[i].ocupada
      /\ Unidas(s, i)[i].base = s[i].base /\ Unidas(s, i)[i].limite = s[i + 1].limite
  BY <1>1, <1>2 DEF Bloque
<1>4. /\ DOMAIN Unidas(s, i) = 1 .. Len(s) - 1
      /\ \A k \in 1 .. Len(s) - 1 : k < i => Unidas(s, i)[k] = s[k]
      /\ \A k \in 1 .. Len(s) - 1 : k > i => Unidas(s, i)[k] = s[k + 1]
  BY <1>1 DEF Unidas
<1>5. QED
  BY <1>1, <1>2, <1>3, <1>4

LEMMA UnidaReducida ==
  ASSUME NEW s \in Seq(Bloque), NEW i \in 1 .. Len(s) - 1, Unible(s, i)
  PROVE  Reducida(s, Unidas(s, i))
<1> DEFINE t == Unidas(s, i)
           g == [k \in 1 .. Len(s) - 1 |-> IF k <= i THEN k ELSE k + 1]
<1>1. /\ DOMAIN t = 1 .. Len(s) - 1 /\ DOMAIN s = 1 .. Len(s) /\ Len(s) \in Nat
      /\ \A k \in 1 .. Len(s) - 1 : k < i => t[k] = s[k]
      /\ \A k \in 1 .. Len(s) - 1 : k > i => t[k] = s[k + 1]
      /\ t[i].particion_id = s[i].particion_id /\ t[i].ocupada = s[i].ocupada
  BY Unida
<1>2. ~s[i].ocupada /\ ~s[i + 1].ocupada
  BY DEF Unible
<1> HIDE DEF t
<1>3. g \in [DOMAIN t -> DOMAIN s] /\ \A k, l \in DOMAIN t : g[k] = g[l] => k = l
  BY <1>1
<1>4. \A k \in DOMAIN t : t[k].particion_id = s[g[k]].particion_id /\ (t[k].ocupada => t[k] = s[g[k]])
  <2>1. TAKE k \in DOMAIN t
  <2>2. CASE k < i
    BY <1>1, <2>2
  <2>3. CASE k = i
    BY <1>1, <1>2, <2>3
  <2>4. CASE k > i
    BY <1>1, <2>4
  <2>5. QED
    BY <1>1, <2>2, <2>3, <2>4
<1>5. \A j \in DOMAIN s : s[j].ocupada => \E k \in DOMAIN t : t[k] = s[j]
  <2>1. SUFFICES ASSUME NEW j \in DOMAIN s, s[j].ocupada PROVE \E k \in DOMAIN t : t[k] = s[j]
    OBVIOUS
  <2>2. j # i /\ j # i + 1
    BY <1>2, <2>1
  <2>3. CASE j < i
    BY <1>1, <2>3
  <2>4. CASE j > i + 1
    <3>1. j - 1 \in 1 .. Len(s) - 1 /\ j - 1 > i /\ (j - 1) + 1 = j
      BY <1>1, <2>4
    <3>2. QED
      BY <1>1, <3>1
  <2>5. QED
    BY <1>1, <2>2, <2>3, <2>4
<1>6. QED
  BY <1>3, <1>4, <1>5 DEF Reducida, t

\* The remainder of a partition appended, the taken part in the place of the whole.
LEMMA Partida ==
  ASSUME NEW s \in Seq(Bloque), NEW i \in DOMAIN s, NEW e \in Bloque, NEW r \in Bloque
  PROVE  /\ DOMAIN Append([s EXCEPT ![i] = e], r) = 1 .. Len(s) + 1
         /\ DOMAIN s = 1 .. Len(s) /\ Len(s) \in Nat
         /\ \A j \in DOMAIN s : Append([s EXCEPT ![i] = e], r)[j] = IF j = i THEN e ELSE s[j]
         /\ Append([s EXCEPT ![i] = e], r)[Len(s) + 1] = r
<1> DEFINE u == [s EXCEPT ![i] = e]
<1>1. u \in Seq(Bloque) /\ DOMAIN u = DOMAIN s /\ \A j \in DOMAIN s : u[j] = IF j = i THEN e ELSE s[j]
  BY ReemplazoSeq
<1> HIDE DEF u
<1>2. DOMAIN s = 1 .. Len(s) /\ Len(s) \in Nat /\ DOMAIN u = 1 .. Len(u) /\ Len(u) \in Nat
  BY <1>1, LenProperties
<1>3. Len(u) = Len(s)
  BY <1>1, <1>2
<1>4. /\ Append(u, r) \in Seq(Bloque) /\ Len(Append(u, r)) = Len(s) + 1
      /\ \A j \in 1 .. Len(s) : Append(u, r)[j] = u[j]
      /\ Append(u, r)[Len(s) + 1] = r
  BY <1>1, <1>3, AppendProperties
<1>5. DOMAIN Append(u, r) = 1 .. Len(s) + 1
  BY <1>4, LenProperties
<1>6. QED
  BY <1>1, <1>2, <1>4, <1>5 DEF u

\* What the steps of Memoria find when requests come in series.
LEMMA EnSerieSabe ==
  ASSUME TInv
  PROVE  /\ TipoResto /\ Presentes /\ particiones \in Seq(Bloque)
         /\ Len(particiones) \in Nat /\ DOMAIN particiones = 1 .. Len(particiones)
         /\ \A i \in DOMAIN particiones :
              /\ particiones[i] \in Bloque /\ particiones[i].base \in Nat /\ particiones[i].limite \in Int
              /\ particiones[i].tamanio \in Nat /\ particiones[i].tamanio > 0
              /\ particiones[i].particion_id \in Nat
              /\ particiones[i].limite = particiones[i].base + particiones[i].tamanio - 1
         /\ \A p \in Pids : fase[p] \in ConMemoria =>
              /\ procesos[p] \in Registro
              /\ procesos[p].base \in Nat /\ procesos[p].limite \in Int /\ procesos[p].mayor \in Int
<1>1. TablaDe(particiones) /\ TipoResto /\ Presentes
  BY Partes
<1>2. /\ \A b \in Bloque : b.base \in Nat /\ b.limite \in Int /\ b.tamanio \in Nat /\ b.particion_id \in Nat
      /\ \A x \in Registro : x.base \in Nat /\ x.limite \in Int /\ x.mayor \in Int
  BY DEF Bloque, Registro
<1>3. \A p \in Pids : fase[p] \in ConMemoria => procesos[p] \in Registro
  BY <1>1 DEF TipoResto, Presentes, ConMemoria
<1>4. QED
  BY <1>1, <1>2, <1>3, NumerosTabla

\* The table changed in nothing that a process may notice.
LEMMA MismosDuenios ==
  ASSUME Duenios, Reducida(particiones, particiones'),
         \A p \in Pids : (fase[p] \in ConMemoria <=> fase'[p] \in ConMemoria) /\ procesos'[p] = procesos[p]
  PROVE  Duenios'
<1>1. ASSUME NEW p \in Pids, fase'[p] \in ConMemoria
      PROVE  \E k \in DOMAIN particiones' : EsDe(particiones[k], p)'
  <2>1. PICK i \in DOMAIN particiones : EsDe(particiones[i], p)
    BY <1>1 DEF Duenios
  <2>2. PICK k \in DOMAIN particiones' : particiones'[k] = particiones[i]
    BY <2>1 DEF EsDe, Reducida
  <2>3. QED
    BY <2>1, <2>2 DEF EsDe
<1>2. ASSUME NEW k \in DOMAIN particiones', particiones'[k].ocupada
      PROVE  /\ particiones'[k].proceso \in Pids /\ fase'[particiones'[k].proceso] \in ConMemoria
             /\ procesos'[particiones'[k].proceso].particion = particiones'[k].particion_id
  <2>1. PICK j \in DOMAIN particiones : particiones'[k] = particiones[j]
    BY <1>2 DEF Reducida
  <2>2. /\ particiones[j].proceso \in Pids /\ fase[particiones[j].proceso] \in ConMemoria
        /\ procesos[particiones[j].proceso].particion = particiones[j].particion_id
    BY <1>2, <2>1 DEF Duenios
  <2>3. QED
    BY <2>1, <2>2
<1>3. QED
  BY <1>1, <1>2 DEF Duenios

USE DEF Fases

LEMMA SerieBuscarHueco ==
  ASSUME Ordenadas, TInv, SInv, NEW p \in Pids, NEW tam \in Tamanios, BuscarHueco(p, tam)
  PROVE  SInv'
<1>1. /\ creacion = Nada /\ (ESQUEMA = "DINAMICAS" => \A q \in Pids : ~Finalizando(q))
      /\ fase[p] \in {"nuevo", "rechazado"} /\ fase \in [Pids -> Fases]
      /\ UNCHANGED <<particiones, particionID, procesos, indefinido>> /\ volcado' = Nada
  BY EnSerieSabe DEF BuscarHueco, Llega, Desocupada, TipoResto, Ordenadas
<1>2. \A q \in Pids : /\ q # p => fase'[q] = fase[q]
                      /\ fase'[p] \in {"nuevo", "rechazado"}
  BY <1>1 DEF BuscarHueco
<1>3. \A q \in Pids : (fase[q] \in ConMemoria <=> fase'[q] \in ConMemoria) /\ (ESQUEMA = "DINAMICAS" => ~Finalizando(q)')
                      /\ (fase'[q] = "vivo" => fase[q] = "vivo")
  BY <1>1, <1>2 DEF ConMemoria, Finalizando
<1>4. UnaPeticion'
  BY <1>3 DEF UnaPeticion
<1>5. Reservada'
  <2>1. CASE UNCHANGED creacion
    BY <1>1, <2>1 DEF Reservada
  <2>2. ASSUME NEW i \in Asignable(particiones, tam),
               creacion' = [pid |-> p, tamanio |-> tam, particion |-> particiones[i].particion_id]
        PROVE  Reservada'
    <3>1. i \in DOMAIN particiones /\ Sirve(particiones, i, tam)
      BY DEF Asignable
    <3>2. QED
      BY <1>1, <1>2, <2>2, <3>1 DEF Reservada, Sirve
  <2>3. QED
    BY <2>1, <2>2 DEF BuscarHueco
<1>6. Duenios'
  BY <1>1, <1>3 DEF SInv, Duenios, EsDe
<1>7. Escritura' /\ Envio' /\ IdsDe(particiones, particionID)' /\ ~indefinido'
  BY <1>1, <1>3 DEF SInv, Escritura, Envio, IdsDe
<1>8. QED
  BY <1>4, <1>5, <1>6, <1>7 DEF SInv

\* The bytes of the hole i that the process is given: a fixed partition is not split.
Parte(i) == IF ESQUEMA = "FIJAS" THEN particiones[i].tamanio ELSE creacion.tamanio

\* What the creation of a process does: the hole i found by the search becomes the
\* partition e of the process, and its remainder, if any, is appended.
Crea(i, e) ==
  LET x == particiones[i]   p == creacion.pid   tam == Parte(i)
      nuevas == DOMAIN particiones' \ DOMAIN particiones IN
  /\ creacion # Nada /\ p \in Pids /\ tam \in Nat \ {0} /\ fase[p] \in {"nuevo", "rechazado"}
  /\ fase' = [fase EXCEPT ![p] = "vivo"] /\ creacion' = Nada /\ volcado' = Nada /\ UNCHANGED indefinido
  /\ ~x.ocupada /\ tam <= x.tamanio
  /\ e.ocupada /\ e.proceso = p /\ e.particion_id = x.particion_id
  /\ e.base = x.base /\ e.limite = x.base + tam - 1
  /\ procesos' = [procesos EXCEPT ![p] = Proceso(x, tam)]
  /\ DOMAIN particiones \subseteq DOMAIN particiones'
  /\ \A j \in DOMAIN particiones : particiones'[j] = IF j = i THEN e ELSE particiones[j]
  /\ \A j \in nuevas : /\ ~particiones'[j].ocupada /\ particiones'[j].particion_id = particionID
                         /\ particiones'[j].base = x.base + tam /\ particiones'[j].limite = x.limite
  /\ \A j, k \in nuevas : j = k
  /\ particionID' = particionID \/ particionID' = particionID + 1
  /\ DOMAIN particiones' # DOMAIN particiones => ESQUEMA = "DINAMICAS" /\ particionID' = particionID + 1

LEMMA CreaEn ==
  ASSUME TInv, SInv, CrearProceso
  PROVE  \E i \in DOMAIN particiones, e \in Bloque : Crea(i, e)
<1> DEFINE p == creacion.pid
<1>1. /\ creacion # Nada /\ creacion \in Pedido
      /\ fase' = [fase EXCEPT ![p] = "vivo"] /\ creacion' = Nada /\ volcado' = Nada
  BY EnSerieSabe DEF CrearProceso, TipoResto
<1>2. p \in Pids /\ creacion.tamanio \in Nat \ {0} /\ fase[p] \in {"nuevo", "rechazado"} /\ fase \in [Pids -> Fases]
  <2>1. p \in Pids /\ creacion.tamanio \in Tamanios
    BY <1>1 DEF Pedido
  <2>2. QED
    BY <1>1, <2>1, EnSerieSabe DEF TipoResto, SInv, Reservada
<1>3. PICK i \in DOMAIN particiones :
        particiones[i].particion_id = creacion.particion /\ Sirve(particiones, i, creacion.tamanio)
  BY <1>1 DEF SInv, Reservada
<1>4. ConId(creacion.particion) = {i}
  BY <1>3 DEF ConId, SInv, IdsDe
<1>5. CrearEn(i)
  BY <1>4 DEF CrearProceso, CrearLiberada
<1> DEFINE x == particiones[i]   tam == Parte(i)
<1>6. tam \in Nat \ {0} /\ x.tamanio >= tam /\ (x.tamanio > tam => ESQUEMA = "DINAMICAS")
  <2>1. x.tamanio \in Nat /\ x.tamanio > 0 /\ x.tamanio >= creacion.tamanio
    BY <1>3, EnSerieSabe DEF Sirve
  <2>2. QED
    BY <1>2, <2>1 DEF Parte
<1>7. /\ procesos' = [procesos EXCEPT ![p] = Proceso(x, tam)] /\ UNCHANGED indefinido
      /\ x.tamanio > tam => /\ particiones' = Append([particiones EXCEPT ![i] = Ocupar(Recortar(x, tam), p)],
                                                     Resto(x, tam))
                            /\ particionID' = particionID + 1
      /\ ~(x.tamanio > tam) => particiones' = [particiones EXCEPT ![i] = Ocupar(x, p)] /\ UNCHANGED particionID
  BY <1>5 DEF CrearEn, Parte
<1> HIDE DEF tam
<1>8. /\ x \in Bloque /\ x.base \in Nat /\ x.particion_id \in Nat /\ x.tamanio \in Nat /\ x.tamanio >= tam
      /\ x.limite = x.base + x.tamanio - 1 /\ ~x.ocupada
      /\ particiones \in Seq(Bloque) /\ procesos \in [Pids -> Registro \cup {Nada}] /\ particionID \in Nat
  BY <1>6, <1>3, EnSerieSabe DEF Sirve, TipoResto
\* The partition of p after the step.
<1> DEFINE e == IF x.tamanio > tam THEN Ocupar(Recortar(x, tam), p) ELSE Ocupar(x, p)
<1>9. /\ e \in Bloque /\ e.ocupada /\ e.proceso = p /\ e.particion_id = x.particion_id
      /\ e.base = x.base /\ e.limite = x.base + tam - 1
  <2>1. x.base + tam - 1 \in Int
    BY <1>6, <1>2, <1>8
  <2>2. CASE x.tamanio > tam
    <3>1. Recortar(x, tam) \in Bloque /\ Recortar(x, tam).base = x.base
          /\ Recortar(x, tam).particion_id = x.particion_id /\ Recortar(x, tam).limite = x.base + tam - 1
      BY <1>6, <1>2, <1>8, <2>1 DEF Recortar, Bloque
    <3>2. QED
      BY <1>2, <2>2, <3>1 DEF Ocupar, Bloque
  <2>3. CASE ~(x.tamanio > tam)
    <3>1. x.limite = x.base + tam - 1
      BY <1>6, <1>2, <1>8, <2>3
    <3>2. QED
      BY <1>6, <1>2, <1>8, <2>3, <3>1 DEF Ocupar, Bloque
  <2>4. QED
    BY <2>2, <2>3
<1>10. /\ DOMAIN particiones \subseteq DOMAIN particiones'
       /\ \A j \in DOMAIN particiones : particiones'[j] = IF j = i THEN e ELSE particiones[j]
       /\ \A j \in DOMAIN particiones' \ DOMAIN particiones :
            /\ ~particiones'[j].ocupada /\ particiones'[j].particion_id = particionID
            /\ particiones'[j].base = x.base + tam /\ particiones'[j].limite = x.limite
       /\ \A j, k \in DOMAIN particiones' \ DOMAIN particiones : j = k
       /\ particionID' = particionID \/ particionID' = particionID + 1
       /\ DOMAIN particiones' # DOMAIN particiones => ESQUEMA = "DINAMICAS" /\ particionID' = particionID + 1
  <2>1. CASE x.tamanio > tam
    <3>1. /\ Resto(x, tam) \in Bloque /\ ~Resto(x, tam).ocupada /\ Resto(x, tam).particion_id = particionID
          /\ Resto(x, tam).base = x.base + tam /\ Resto(x, tam).limite = x.limite
      <4>1. /\ x.tamanio - tam \in Nat \ {0} /\ x.base + tam \in Nat /\ x.limite \in Int
            /\ x.base + tam + (x.tamanio - tam) - 1 = x.limite
        <5>1. tam \in Nat /\ tam > 0 /\ x.base \in Nat /\ x.tamanio \in Nat /\ x.limite = x.base + x.tamanio - 1
              /\ x.tamanio > tam
          BY <1>6, <1>2, <1>8, <2>1
        <5> HIDE DEF x, tam
        <5>2. x.tamanio - tam \in Nat \ {0} /\ x.base + tam \in Nat /\ x.limite \in Int
          BY <5>1
        <5>3. x.base + tam + (x.tamanio - tam) - 1 = x.limite
          BY <5>1
        <5>4. QED
          BY <5>2, <5>3
      <4>2. QED
        BY <1>8, <4>1 DEF Resto, Particion, Bloque
    <3>2. e = Ocupar(Recortar(x, tam), p)
      BY <2>1
    <3>3. particiones' = Append([particiones EXCEPT ![i] = e], Resto(x, tam)) /\ particionID' = particionID + 1
      BY <1>7, <2>1, <3>2
    <3> HIDE DEF e
    <3>4. /\ DOMAIN particiones' = 1 .. Len(particiones) + 1
          /\ DOMAIN particiones = 1 .. Len(particiones) /\ Len(particiones) \in Nat
          /\ \A j \in DOMAIN particiones : particiones'[j] = IF j = i THEN e ELSE particiones[j]
          /\ particiones'[Len(particiones) + 1] = Resto(x, tam)
      BY <1>8, <1>9, <3>1, <3>3, Partida
    <3>5. \A j \in DOMAIN particiones' \ DOMAIN particiones : j = Len(particiones) + 1
      BY <3>4
    <3>6. ESQUEMA = "DINAMICAS" /\ particionID' = particionID + 1
      BY <1>6, <2>1, <3>3
    <3>7. \A j \in DOMAIN particiones' \ DOMAIN particiones : particiones'[j] = Resto(x, tam)
      BY <3>4, <3>5
    <3>8. DOMAIN particiones \subseteq DOMAIN particiones'
      BY <3>4
    <3>9. \A j, k \in DOMAIN particiones' \ DOMAIN particiones : j = k
      BY <3>5, Zenon
    <3> HIDE DEF x
    <3>10. QED
      BY <3>1, <3>4, <3>6, <3>7, <3>8, <3>9
  <2>2. CASE ~(x.tamanio > tam)
    <3>1. e = Ocupar(x, p)
      BY <2>2
    <3>2. particiones' = [particiones EXCEPT ![i] = e] /\ UNCHANGED particionID
      BY <1>7, <2>2, <3>1
    <3> HIDE DEF e
    <3>3. /\ DOMAIN particiones' = DOMAIN particiones
          /\ \A j \in DOMAIN particiones : particiones'[j] = IF j = i THEN e ELSE particiones[j]
      BY <1>8, <1>9, <3>2, ReemplazoSeq
    <3>4. QED
      BY <3>2, <3>3
  <2>3. QED
    BY <2>1, <2>2
<1> HIDE DEF e
<1>11. procesos' = [procesos EXCEPT ![p] = Proceso(x, tam)] /\ UNCHANGED indefinido
  BY <1>7
<1>12. e \in Bloque /\ ~x.ocupada /\ tam <= x.tamanio
  BY <1>6, <1>2, <1>8, <1>9
<1>13. Crea(i, e)
  BY <1>6, <1>1, <1>2, <1>9, <1>10, <1>11, <1>12, Zenon DEF Crea, tam
<1>14. QED
  BY <1>3, <1>12, <1>13

LEMMA SerieCrearProceso ==
  ASSUME TInv, SInv, CrearProceso
  PROVE  SInv'
<1> DEFINE p == creacion.pid
<1>1. PICK i \in DOMAIN particiones, e \in Bloque : Crea(i, e)
  BY CreaEn
<1> DEFINE x == particiones[i]   tam == Parte(i)
<1>2. /\ creacion # Nada /\ p \in Pids /\ fase[p] \in {"nuevo", "rechazado"}
      /\ fase' = [fase EXCEPT ![p] = "vivo"] /\ creacion' = Nada /\ volcado' = Nada
  BY <1>1, Zenon DEF Crea
<1>3. /\ x.base \in Nat /\ procesos \in [Pids -> Registro \cup {Nada}] /\ particionID \in Nat
      /\ fase \in [Pids -> Fases]
  BY EnSerieSabe DEF TipoResto
<1>6. ~x.ocupada
  BY <1>1 DEF Crea
<1>7. e.ocupada /\ e.proceso = p /\ e.particion_id = x.particion_id /\ e.base = x.base /\ e.limite = x.base + tam - 1
  BY <1>1 DEF Crea
<1>8. /\ DOMAIN particiones \subseteq DOMAIN particiones'
      /\ \A j \in DOMAIN particiones : particiones'[j] = IF j = i THEN e ELSE particiones[j]
      /\ \A j \in DOMAIN particiones' \ DOMAIN particiones :
           ~particiones'[j].ocupada /\ particiones'[j].particion_id = particionID
      /\ \A j, k \in DOMAIN particiones' \ DOMAIN particiones : j = k
      /\ particionID' = particionID \/ particionID' = particionID + 1
      /\ DOMAIN particiones' # DOMAIN particiones => ESQUEMA = "DINAMICAS" /\ particionID' = particionID + 1
  BY <1>1, Zenon DEF Crea
<1>9. procesos' = [procesos EXCEPT ![p] = Proceso(x, tam)] /\ UNCHANGED indefinido
  BY <1>1 DEF Crea
<1>10. /\ procesos'[p].base = x.base /\ procesos'[p].limite = x.base + tam - 1
       /\ procesos'[p].particion = x.particion_id /\ procesos'[p].mayor = -1
       /\ \A q \in Pids \ {p} : procesos'[q] = procesos[q] /\ fase'[q] = fase[q]
       /\ fase'[p] = "vivo"
  BY <1>2, <1>3, <1>9 DEF Proceso
<1>11. UnaPeticion'
  <2>1. ESQUEMA = "DINAMICAS" => \A q \in Pids : ~Finalizando(q)
    BY <1>2 DEF SInv, UnaPeticion
  <2>2. ESQUEMA = "DINAMICAS" => \A q \in Pids : ~Finalizando(q)'
    BY <1>10, <2>1 DEF Finalizando
  <2>3. QED
    BY <2>2 DEF UnaPeticion
<1>12. IdsDe(particiones', particionID')
  <2>1. \A j \in DOMAIN particiones : /\ particiones'[j].particion_id = particiones[j].particion_id
                                      /\ ESQUEMA = "DINAMICAS" => particiones[j].particion_id < particionID
                                      /\ particiones[j].particion_id \in Nat
    BY <1>7, <1>8, EnSerieSabe DEF SInv, IdsDe
  <2>2. \A j, k \in DOMAIN particiones : particiones[j].particion_id = particiones[k].particion_id => j = k
    BY DEF SInv, IdsDe
  <2>3. \A j \in DOMAIN particiones' \ DOMAIN particiones :
          /\ particiones'[j].particion_id = particionID /\ particionID' = particionID + 1
          /\ ESQUEMA = "DINAMICAS"
    BY <1>8
  <2>4. ASSUME NEW j \in DOMAIN particiones', NEW k \in DOMAIN particiones',
               particiones'[j].particion_id = particiones'[k].particion_id
        PROVE  j = k
    <3>1. CASE j \in DOMAIN particiones /\ k \in DOMAIN particiones
      BY <2>1, <2>2, <2>4, <3>1
    <3>2. CASE j \in DOMAIN particiones /\ k \notin DOMAIN particiones
      BY <1>3, <2>1, <2>3, <2>4, <3>2
    <3>3. CASE j \notin DOMAIN particiones /\ k \in DOMAIN particiones
      BY <1>3, <2>1, <2>3, <2>4, <3>3
    <3>4. CASE j \notin DOMAIN particiones /\ k \notin DOMAIN particiones
      BY <1>8, <3>4
    <3>5. QED
      BY <3>1, <3>2, <3>3, <3>4
  <2>5. ASSUME ESQUEMA = "DINAMICAS", NEW j \in DOMAIN particiones' PROVE particiones'[j].particion_id < particionID'
    <3>0. particionID \in Nat /\ (particionID' = particionID \/ particionID' = particionID + 1)
      BY <1>3, <1>8
    <3>1. CASE j \in DOMAIN particiones
      BY <2>1, <2>5, <3>0, <3>1
    <3>2. CASE j \notin DOMAIN particiones
      BY <1>3, <2>3, <3>2
    <3>3. QED
      BY <3>1, <3>2
  <2>6. QED
    BY <2>4, <2>5 DEF IdsDe
<1>13. Duenios'
  <2>1. ASSUME NEW q \in Pids, fase'[q] \in ConMemoria
        PROVE  \E j \in DOMAIN particiones' : EsDe(particiones[j], q)'
    <3>1. CASE q = p
      <4>1. i \in DOMAIN particiones' /\ particiones'[i] = e
        BY <1>8
      <4>2. QED
        BY <1>7, <1>10, <3>1, <4>1 DEF EsDe
    <3>2. CASE q # p
      <4>1. PICK j \in DOMAIN particiones : EsDe(particiones[j], q)
        BY <1>10, <2>1, <3>2 DEF SInv, Duenios
      <4>2. j # i
        BY <1>6, <4>1 DEF EsDe
      <4>3. j \in DOMAIN particiones' /\ particiones'[j] = particiones[j]
        BY <1>8, <4>1, <4>2
      <4>4. procesos'[q] = procesos[q]
        BY <1>10, <3>2
      <4>5. QED
        BY ONLY <4>1, <4>3, <4>4 DEF EsDe
    <3>3. QED
      BY <3>1, <3>2
  <2>2. ASSUME NEW j \in DOMAIN particiones', particiones'[j].ocupada
        PROVE  /\ particiones'[j].proceso \in Pids /\ fase'[particiones'[j].proceso] \in ConMemoria
               /\ procesos'[particiones'[j].proceso].particion = particiones'[j].particion_id
    <3>1. CASE j = i
      BY <1>2, <1>7, <1>8, <1>10, <3>1 DEF ConMemoria
    <3>2. CASE j # i
      <4>1. j \in DOMAIN particiones /\ particiones'[j] = particiones[j]
        BY <1>8, <2>2, <3>2
      <4>2. /\ particiones[j].proceso \in Pids /\ fase[particiones[j].proceso] \in ConMemoria
            /\ procesos[particiones[j].proceso].particion = particiones[j].particion_id
        BY <2>2, <4>1 DEF SInv, Duenios
      <4>3. particiones[j].proceso # p
        BY <1>2, <4>2 DEF ConMemoria
      <4>4. QED
        BY <1>10, <4>1, <4>2, <4>3
    <3>3. QED
      BY <3>1, <3>2
  <2>3. QED
    BY <2>1, <2>2 DEF Duenios
<1>14. Escritura'
  <2>1. ASSUME NEW q \in Pids, fase'[q] = "vivo"
        PROVE  \/ procesos'[q].mayor = -1
               \/ /\ procesos'[q].base <= procesos'[q].mayor
                  /\ procesos'[q].mayor <= procesos'[q].limite
    <3>1. CASE q = p
      BY <1>10, <3>1
    <3>2. CASE q # p
      BY <1>10, <2>1, <3>2 DEF SInv, Escritura
    <3>3. QED
      BY <3>1, <3>2
  <2>2. QED
    BY <2>1 DEF Escritura
<1>15. QED
  BY <1>2, <1>9, <1>11, <1>12, <1>13, <1>14 DEF SInv, Reservada, Envio

LEMMA SeriePedirFinalizacion ==
  ASSUME Ordenadas, TInv, SInv, NEW p \in Pids, PedirFinalizacion(p)
  PROVE  SInv'
<1>1. /\ ESQUEMA = "DINAMICAS" => creacion = Nada /\ \A q \in Pids : ~Finalizando(q)
      /\ fase[p] = "vivo" /\ volcado' = Nada
      /\ UNCHANGED <<particiones, particionID, procesos, creacion>>
      /\ fase \in [Pids -> Fases] /\ fase' = [fase EXCEPT ![p] = "liberar"]
  BY EnSerieSabe DEF PedirFinalizacion, Llega, Desocupada, TipoResto, Ordenadas
<1>2. fase'[p] = "liberar" /\ \A q \in Pids \ {p} : fase'[q] = fase[q]
  BY <1>1
<1>3. ~indefinido'
  <2>1. PICK i \in DOMAIN particiones : EsDe(particiones[i], p)
    BY <1>1 DEF SInv, Duenios, ConMemoria
  <2>2. i \in ConId(procesos[p].particion)
    BY <2>1 DEF EsDe, ConId
  <2>3. QED
    BY <2>2 DEF PedirFinalizacion
<1>4. UnaPeticion'
  BY <1>1, <1>2 DEF UnaPeticion, Finalizando
<1>5. Reducida(particiones, particiones')
  BY <1>1, EnSerieSabe, ReducidaIgual
<1>6. Duenios'
  BY <1>1, <1>2, <1>5, MismosDuenios DEF SInv, ConMemoria
<1>7. Escritura'
  BY <1>1, <1>2 DEF SInv, Escritura
<1>8. Reservada' /\ Envio' /\ IdsDe(particiones, particionID)'
  BY <1>1, <1>2 DEF SInv, Reservada, Envio, IdsDe
<1>9. QED
  BY <1>3, <1>4, <1>6, <1>7, <1>8 DEF SInv

LEMMA SerieLiberarParticion ==
  ASSUME TInv, SInv, NEW p \in Pids, LiberarParticion(p)
  PROVE  SInv'
<1>1. /\ fase[p] = "liberar" /\ Finalizando(p) /\ volcado' = Nada
      /\ UNCHANGED <<particionID, procesos, creacion, indefinido>>
      /\ fase \in [Pids -> Fases] /\ fase' = [fase EXCEPT ![p] = "quitar"]
  BY EnSerieSabe DEF LiberarParticion, Finalizando, TipoResto
<1>2. fase'[p] = "quitar" /\ \A q \in Pids \ {p} : fase'[q] = fase[q]
  BY <1>1
<1>3. ESQUEMA = "DINAMICAS" => creacion = Nada /\ \A q \in Pids \ {p} : ~Finalizando(q)
  BY <1>1 DEF SInv, UnaPeticion
<1>4. PICK i \in ConId(procesos[p].particion) :
        particiones' = [particiones EXCEPT ![i] = Desocupar(particiones[i])]
  BY DEF LiberarParticion
<1>5. /\ i \in DOMAIN particiones /\ particiones[i].particion_id = procesos[p].particion
      /\ particiones[i] \in Bloque /\ particiones \in Seq(Bloque)
  BY <1>4, EnSerieSabe DEF ConId
<1>6. \A j \in DOMAIN particiones : particiones[j].particion_id = particiones[i].particion_id => j = i
  BY <1>5 DEF SInv, IdsDe
<1>7. particiones[i].proceso = p
  <2>1. PICK j \in DOMAIN particiones : EsDe(particiones[j], p)
    BY <1>1 DEF SInv, Duenios, ConMemoria
  <2>2. j = i
    BY <1>5, <1>6, <2>1 DEF EsDe
  <2>3. QED
    BY <2>1, <2>2 DEF EsDe
<1> DEFINE e == Desocupar(particiones[i])
<1>8. /\ ~e.ocupada /\ e.particion_id = particiones[i].particion_id /\ e \in Bloque
      /\ e.tamanio = particiones[i].tamanio
  BY <1>5 DEF Desocupar, Bloque
<1> HIDE DEF e
<1>9. /\ DOMAIN particiones' = DOMAIN particiones
      /\ \A j \in DOMAIN particiones : particiones'[j] = IF j = i THEN e ELSE particiones[j]
  BY <1>4, <1>5, <1>8, ReemplazoSeq DEF e
<1>10. UnaPeticion'
  <2>1. ESQUEMA = "DINAMICAS" => \A q \in Pids \ {p} : ~Finalizando(q)'
    BY <1>2, <1>3 DEF Finalizando
  <2>2. QED
    BY <1>1, <1>3, <2>1 DEF UnaPeticion
<1>11. IdsDe(particiones, particionID)'
  <2>1. \A j \in DOMAIN particiones : particiones'[j].particion_id = particiones[j].particion_id
    BY <1>8, <1>9
  <2>2. QED
    BY <1>1, <1>9, <2>1 DEF SInv, IdsDe
<1>12. Duenios'
  <2>1. ASSUME NEW q \in Pids, fase'[q] \in ConMemoria
        PROVE  \E j \in DOMAIN particiones' : EsDe(particiones[j], q)'
    <3>1. q # p /\ fase'[q] = fase[q]
      BY <1>2, <2>1 DEF ConMemoria
    <3>2. PICK j \in DOMAIN particiones : EsDe(particiones[j], q)
      BY <2>1, <3>1 DEF SInv, Duenios
    <3>3. j # i
      BY <1>7, <3>1, <3>2 DEF EsDe
    <3>4. QED
      BY <1>1, <1>9, <3>2, <3>3 DEF EsDe
  <2>2. ASSUME NEW j \in DOMAIN particiones', particiones'[j].ocupada
        PROVE  /\ particiones'[j].proceso \in Pids /\ fase'[particiones'[j].proceso] \in ConMemoria
               /\ procesos'[particiones'[j].proceso].particion = particiones'[j].particion_id
    <3>1. j # i /\ j \in DOMAIN particiones /\ particiones'[j] = particiones[j]
      BY <1>8, <1>9, <2>2
    <3>2. /\ particiones[j].proceso \in Pids /\ fase[particiones[j].proceso] \in ConMemoria
          /\ procesos[particiones[j].proceso].particion = particiones[j].particion_id
      BY <2>2, <3>1 DEF SInv, Duenios
    <3>3. particiones[j].proceso # p
      BY <1>5, <1>6, <3>1, <3>2
    <3>4. QED
      BY <1>1, <1>2, <3>1, <3>2, <3>3
  <2>3. QED
    BY <2>1, <2>2 DEF Duenios
<1>13. Escritura'
  BY <1>1, <1>2 DEF SInv, Escritura
<1>14. Reservada'
  <2>1. SUFFICES ASSUME creacion # Nada
                 PROVE  /\ fase'[creacion.pid] \in {"nuevo", "rechazado"}
                        /\ \E j \in DOMAIN particiones' : /\ particiones'[j].particion_id = creacion.particion
                                                        /\ Sirve(particiones', j, creacion.tamanio)
    BY <1>1 DEF Reservada
  <2>2. creacion.pid \in Pids
    BY <2>1, EnSerieSabe DEF TipoResto, Pedido
  <2>3. fase'[creacion.pid] \in {"nuevo", "rechazado"}
    BY <1>1, <1>2, <2>1, <2>2 DEF SInv, Reservada
  <2>4. PICK j \in DOMAIN particiones : /\ particiones[j].particion_id = creacion.particion
                                       /\ Sirve(particiones, j, creacion.tamanio)
    BY <2>1 DEF SInv, Reservada
  <2>5. Sirve(particiones', j, creacion.tamanio) /\ particiones'[j].particion_id = creacion.particion
    BY <1>8, <1>9, <2>4 DEF Sirve
  <2>6. QED
    BY <1>9, <2>3, <2>5
<1>15. QED
  BY <1>1, <1>10, <1>11, <1>12, <1>13, <1>14 DEF SInv, Envio

LEMMA SerieQuitarProceso ==
  ASSUME TInv, SInv, NEW p \in Pids, QuitarProceso(p)
  PROVE  SInv'
<1>1. /\ fase[p] = "quitar" /\ Finalizando(p) /\ volcado' = Nada
      /\ UNCHANGED <<particiones, particionID, creacion, indefinido>>
      /\ fase \in [Pids -> Fases] /\ fase' = [fase EXCEPT ![p] = fase'[p]]
      /\ fase'[p] \in {"ordenar", "finalizado"}
      /\ procesos \in [Pids -> Registro \cup {Nada}] /\ procesos' = [procesos EXCEPT ![p] = Nada]
  BY EnSerieSabe DEF QuitarProceso, Finalizando, TipoResto
<1>2. fase'[p] \in {"ordenar", "finalizado"} /\ \A q \in Pids \ {p} : fase'[q] = fase[q] /\ procesos'[q] = procesos[q]
  BY <1>1
<1>3. ESQUEMA = "DINAMICAS" => creacion = Nada /\ \A q \in Pids \ {p} : ~Finalizando(q)
  BY <1>1 DEF SInv, UnaPeticion
<1>4. UnaPeticion'
  <2>1. ESQUEMA = "DINAMICAS" => \A q \in Pids \ {p} : ~Finalizando(q)'
    BY <1>2, <1>3 DEF Finalizando
  <2>2. QED
    BY <1>1, <1>3, <2>1 DEF UnaPeticion
<1>5. Duenios'
  <2>1. ASSUME NEW q \in Pids, fase'[q] \in ConMemoria
        PROVE  \E j \in DOMAIN particiones' : EsDe(particiones[j], q)'
    <3>1. q # p /\ fase'[q] = fase[q] /\ procesos'[q] = procesos[q]
      BY <1>2, <2>1 DEF ConMemoria
    <3>2. QED
      BY <1>1, <2>1, <3>1 DEF SInv, Duenios, EsDe
  <2>2. ASSUME NEW j \in DOMAIN particiones, particiones[j].ocupada
        PROVE  /\ particiones[j].proceso \in Pids /\ fase'[particiones[j].proceso] \in ConMemoria
               /\ procesos'[particiones[j].proceso].particion = particiones[j].particion_id
    <3>1. /\ particiones[j].proceso \in Pids /\ fase[particiones[j].proceso] \in ConMemoria
          /\ procesos[particiones[j].proceso].particion = particiones[j].particion_id
      BY <2>2 DEF SInv, Duenios
    <3>2. particiones[j].proceso # p
      BY <1>1, <3>1 DEF ConMemoria
    <3>3. QED
      BY <1>2, <3>1, <3>2
  <2>3. QED
    BY <1>1, <2>1, <2>2 DEF Duenios
<1>6. Escritura'
  BY <1>1, <1>2 DEF SInv, Escritura
<1>7. Reservada'
  <2>1. creacion # Nada => creacion.pid \in Pids
    BY EnSerieSabe DEF TipoResto, Pedido
  <2>2. QED
    BY <1>1, <1>2, <2>1 DEF SInv, Reservada
<1>8. QED
  BY <1>1, <1>4, <1>5, <1>6, <1>7 DEF SInv, Envio, IdsDe

\* The steps of the end of a process that only rearrange the table.
LEMMA SerieReducida ==
  ASSUME TInv, SInv, NEW p \in Pids, Finalizando(p), fase[p] \in {"ordenar", "unificar"},
         fase'[p] \in {"unificar", "finalizado"}, \A q \in Pids \ {p} : fase'[q] = fase[q],
         UNCHANGED <<particionID, procesos, creacion, indefinido>>, volcado' = Nada,
         Reducida(particiones, particiones')
  PROVE  SInv'
<1>1. ESQUEMA = "DINAMICAS" => creacion = Nada /\ \A q \in Pids \ {p} : ~Finalizando(q)
  BY DEF SInv, UnaPeticion
<1>2. UnaPeticion'
  <2>1. ESQUEMA = "DINAMICAS" => \A q \in Pids \ {p} : ~Finalizando(q)'
    BY <1>1 DEF Finalizando
  <2>2. QED
    BY <1>1, <2>1 DEF UnaPeticion
<1>3. \A q \in Pids : (fase[q] \in ConMemoria <=> fase'[q] \in ConMemoria) /\ (fase'[q] = "vivo" => fase[q] = "vivo")
  BY DEF ConMemoria
<1>4. Duenios'
  BY <1>3, MismosDuenios DEF SInv
<1>5. IdsDe(particiones', particionID')
  BY ReducidaIds DEF SInv
<1>6. Escritura'
  BY <1>3 DEF SInv, Escritura
<1>7. creacion = Nada
  BY <1>1, EnSerieSabe DEF Presentes
<1>8. QED
  BY <1>2, <1>4, <1>5, <1>6, <1>7 DEF SInv, Reservada, Envio

LEMMA SerieOrdenar ==
  ASSUME TInv, Ordenar
  PROVE  Reducida(particiones, particiones') /\ PorBase(particiones')
  BY EnSerieSabe, Ordenada DEF Ordenar

LEMMA SerieFinalizacion ==
  ASSUME TInv, SInv, NEW p \in Pids, Finalizacion(p)
  PROVE  SInv'
<1>0. fase \in [Pids -> Fases] /\ particiones \in Seq(Bloque)
  BY EnSerieSabe DEF TipoResto
<1>1. CASE OrdenarParticiones(p)
  BY <1>0, <1>1, SerieOrdenar, SerieReducida DEF OrdenarParticiones, Finalizando
<1>2. CASE FinalizarProceso(p)
  BY <1>0, <1>2, SerieOrdenar, SerieReducida DEF FinalizarProceso, Finalizando
<1>3. CASE UnificarParticiones(p)
  <2>1. PICK i \in 1 .. Len(particiones) - 1 :
          Unible(particiones, i) /\ particiones' = Unidas(particiones, i)
    BY <1>3 DEF UnificarParticiones, Unibles
  <2>2. Reducida(particiones, particiones')
    BY <1>0, <2>1, UnidaReducida
  <2>3. QED
    BY <1>0, <1>3, <2>2, SerieReducida DEF UnificarParticiones, Finalizando
<1>4. QED
  BY <1>1, <1>2, <1>3, SerieLiberarParticion, SerieQuitarProceso DEF Finalizacion

LEMMA SerieEscribirMemoria ==
  ASSUME TInv, SInv, NEW p \in Pids, NEW dir \in Direcciones, EscribirMemoria(p, dir)
  PROVE  SInv'
<1>1. /\ fase[p] = "vivo" /\ Traducible(procesos[p], dir) /\ volcado' = Nada
      /\ UNCHANGED <<particiones, particionID, creacion, fase, indefinido>>
      /\ procesos \in [Pids -> Registro \cup {Nada}]
      /\ procesos[p] \in Registro /\ dir \in Nat
      /\ procesos[p].base \in Nat /\ procesos[p].limite \in Int /\ procesos[p].mayor \in Int
  BY EnSerieSabe, TamaniosAssumption DEF EscribirMemoria, TipoResto, ConMemoria
<1> DEFINE m == IF procesos[p].base + dir > procesos[p].mayor THEN procesos[p].base + dir ELSE procesos[p].mayor
<1>2. procesos' = [procesos EXCEPT ![p].mayor = m]
  BY DEF EscribirMemoria
<1>3. /\ procesos'[p].base = procesos[p].base /\ procesos'[p].limite = procesos[p].limite
      /\ procesos'[p].particion = procesos[p].particion /\ procesos'[p].mayor = m
      /\ \A q \in Pids \ {p} : procesos'[q] = procesos[q]
  BY <1>1, <1>2 DEF Registro
<1>4. \A q \in Pids : /\ procesos'[q].base = procesos[q].base /\ procesos'[q].limite = procesos[q].limite
                      /\ procesos'[q].particion = procesos[q].particion
  BY <1>3
<1>5. Duenios'
  BY <1>1, <1>4 DEF SInv, Duenios, EsDe
<1>6. Escritura'
  <2>1. ASSUME NEW q \in Pids, fase[q] = "vivo"
        PROVE  \/ procesos'[q].mayor = -1
               \/ /\ procesos'[q].base <= procesos'[q].mayor
                  /\ procesos'[q].mayor <= procesos'[q].limite
    <3>1. CASE q = p
      <4>1. procesos[p].mayor = -1 \/ (procesos[p].base <= procesos[p].mayor /\ procesos[p].mayor <= procesos[p].limite)
        BY <1>1 DEF SInv, Escritura
      <4>2. procesos[p].base <= procesos[p].base + dir /\ procesos[p].base + dir <= procesos[p].limite
        BY <1>1 DEF Traducible
      <4>3. procesos[p].base <= m /\ m <= procesos[p].limite
        BY <1>1, <4>1, <4>2
      <4>4. QED
        BY <1>3, <3>1, <4>3
    <3>2. CASE q # p
      BY <1>3, <2>1, <3>2 DEF SInv, Escritura
    <3>3. QED
      BY <3>1, <3>2
  <2>2. QED
    BY <1>1, <2>1 DEF Escritura
<1>7. QED
  BY <1>1, <1>5, <1>6 DEF SInv, UnaPeticion, Finalizando, Reservada, IdsDe, Envio

\* A process that wrote has its bytes sent.  One that did not is the end of Memoria,
\* or sends nothing if its partition is the first.
LEMMA SerieVolcarMemoria ==
  ASSUME TInv, SInv, NEW p \in Pids, VolcarMemoria(p)
  PROVE  (SInv' \/ indefinido') /\ (~VuelcaVacio => SInv')
<1> DEFINE x == procesos[p]
<1>1. /\ fase[p] = "vivo" /\ (VuelcaVacio \/ x.mayor # -1)
      /\ UNCHANGED <<particiones, particionID, procesos, creacion, fase>>
      /\ x.base \in Nat /\ x.limite \in Int /\ x.mayor \in Int
  BY EnSerieSabe DEF VolcarMemoria, ConMemoria
<1>2. x.mayor = -1 \/ (x.base <= x.mayor /\ x.mayor <= x.limite)
  BY <1>1 DEF SInv, Escritura
<1>3. \A i \in ConLimites(x) : /\ Escrito(x, particiones[i]) = x.mayor - x.base + 1
                               /\ particiones[i].base = x.base /\ x.base <= x.limite
                               /\ particiones[i].tamanio = x.limite - x.base + 1
  <2>1. TAKE i \in ConLimites(x)
  <2>2. i \in DOMAIN particiones /\ particiones[i].base = x.base /\ particiones[i].limite = x.limite
    BY DEF ConLimites
  <2>3. /\ particiones[i].limite = particiones[i].base + particiones[i].tamanio - 1
        /\ particiones[i].tamanio \in Nat /\ particiones[i].tamanio > 0
    BY <2>2, EnSerieSabe
  <2>4. x.base \in Nat /\ x.limite \in Int /\ x.mayor \in Int
    BY <1>1
  <2> HIDE DEF x
  <2>5. QED
    BY ONLY <2>2, <2>3, <2>4 DEF Escrito
<1>4. PICK i \in DOMAIN particiones : EsDe(particiones[i], p)
  BY <1>1 DEF SInv, Duenios, ConMemoria
<1>5. i \in ConLimites(x)
  BY <1>4 DEF EsDe, ConLimites
<1>6. x.mayor # -1 => ~(\A j \in ConLimites(x) : Escrito(x, particiones[j]) < 0)
  BY <1>1, <1>2, <1>3, <1>5
<1>7. ASSUME NEW j \in ConLimites(x), Escrito(x, particiones[j]) >= 0, UNCHANGED indefinido,
             volcado' = EnviadoAFilesystem(p, x, particiones[j])
      PROVE  SInv'
  <2>1. /\ volcado'.pid = p /\ volcado'.desde = x.base /\ volcado'.cantidad = x.mayor - x.base + 1
        /\ volcado'.tamanio = x.limite - x.base + 1
    BY <1>3, <1>7 DEF EnviadoAFilesystem
  <2>2. x.base <= x.limite
    BY <1>3, <1>7
  <2>3. x.base + (x.mayor - x.base + 1) - 1 <= x.limite /\ x.mayor - x.base + 1 <= x.limite - x.base + 1
    <3>1. x.base \in Nat /\ x.limite \in Int /\ x.mayor \in Int
      BY <1>1
    <3> HIDE DEF x
    <3>2. x.mayor <= x.limite
      BY ONLY <1>2, <2>2, <3>1
    <3>3. QED
      BY ONLY <3>1, <3>2
  <2>4. Envio'
    BY <1>1, <2>1, <2>3 DEF Envio
  <2>5. QED
    BY <1>1, <1>7, <2>4 DEF SInv, UnaPeticion, Finalizando, IdsDe, Reservada, Duenios, EsDe, Escritura
<1>8. QED
  BY <1>1, <1>6, <1>7 DEF VolcarMemoria

\* The initial state.
LEMMA SerieInicia ==
  ASSUME Init
  PROVE  SInv
<1>1. ASSUME ESQUEMA = "DINAMICAS"
      PROVE  (\A i \in DOMAIN particiones : ~particiones[i].ocupada) /\ IdsDe(particiones, particionID)
  <2> DEFINE x == Particion(0, 0, TAM_MEMORIA)
  <2>1. particiones = <<x>> /\ particionID = 1
    BY <1>1 DEF Init, ParticionesIniciales
  <2>2. ~x.ocupada /\ x.particion_id = 0
    BY DEF Particion
  <2> HIDE DEF x
  <2>3. DOMAIN particiones = {1} /\ particiones[1] = x
    BY <2>1
  <2>4. QED
    BY <2>1, <2>2, <2>3 DEF IdsDe
<1>2. ASSUME ESQUEMA = "FIJAS"
      PROVE  (\A i \in DOMAIN particiones : ~particiones[i].ocupada) /\ IdsDe(particiones, particionID)
  <2> DEFINE L == Len(PARTICIONES)
             x(i) == Particion(i - 1, suma[i - 1], PARTICIONES[i])
  <2>1. particiones = [i \in 1 .. L |-> x(i)] /\ L \in Nat
    BY <1>2, LenProperties DEF Init, ParticionesIniciales
  <2>2. \A i \in 1 .. L : ~x(i).ocupada /\ x(i).particion_id = i - 1
    BY DEF Particion
  <2> HIDE DEF x, L
  <2>3. DOMAIN particiones = 1 .. L /\ \A i \in 1 .. L : ~particiones[i].ocupada /\ particiones[i].particion_id = i - 1
    BY <2>1, <2>2
  <2>4. \A i, j \in 1 .. L : i - 1 = j - 1 => i = j
    BY <2>1
  <2>5. QED
    BY <1>2, <2>3, <2>4 DEF IdsDe
<1>3. (\A i \in DOMAIN particiones : ~particiones[i].ocupada) /\ IdsDe(particiones, particionID)
  BY <1>1, <1>2
<1>4. \A p \in Pids : fase[p] = "nuevo"
  BY DEF Init
<1>5. Duenios /\ Escritura /\ UnaPeticion
  BY <1>3, <1>4 DEF Duenios, Escritura, UnaPeticion, ConMemoria, Finalizando
<1>6. QED
  BY <1>3, <1>5 DEF Init, SInv, Reservada, Envio

LEMMA SeriePaso ==
  ASSUME Ordenadas, TInv, SInv, Next
  PROVE  (SInv' \/ indefinido') /\ (~VuelcaVacio => SInv')
  BY SerieBuscarHueco, SerieCrearProceso, SeriePedirFinalizacion, SerieFinalizacion,
     SerieEscribirMemoria, SerieVolcarMemoria DEF Next

LEMMA SerieQuieta ==
  ASSUME SInv, UNCHANGED vars
  PROVE  SInv'
  BY DEF vars, SInv, UnaPeticion, Finalizando, IdsDe, Reservada, Duenios, EsDe, Escritura, Envio

(* VolcadoPropio, for any number of processes, any sizes, any search and any
   addresses: with fixed partitions, whatever the order of the requests, and with
   dynamic ones when each request waits for the one before, a process keeps the
   partition its limits name, a taken partition has its process, and a dump sends
   the bytes of the dumped process. *)
THEOREM CadaProcesoConLoSuyo ==
  ASSUME Ordenadas, ~VuelcaVacio
  PROVE  Spec => []VolcadoPropio
<1>1. SInv => VolcadoPropio
  <2> SUFFICES ASSUME SInv PROVE VolcadoPropio
    OBVIOUS
  <2>1. \A p \in Pids : fase[p] = "vivo" => ParticionDe(p) # {}
    BY DEF SInv, Duenios, ConMemoria, EsDe, ParticionDe
  <2>2. \A i \in DOMAIN particiones : particiones[i].ocupada =>
          \E p \in Pids : fase[p] \in {"vivo", "liberar"} /\ procesos[p].particion = particiones[i].particion_id
    BY DEF SInv, Duenios, ConMemoria
  <2>3. QED
    BY <2>1, <2>2 DEF SInv, Envio, VolcadoPropio
<1>2. Init => SInv
  BY SerieInicia
<1>3. TInv /\ SInv /\ [Next]_vars => SInv'
  BY SeriePaso, SerieQuieta
<1>4. QED
  BY <1>1, <1>2, <1>3, Invariante, PTL DEF Spec

-----------------------------------------------------------------------------
(***************************************************************************)
(* Requests in series: the holes.  Between requests no two of them touch,  *)
(* for the last round of unificar_particiones_libres_contiguas looks at    *)
(* neighbours of a list in the order of the bases.                         *)
(***************************************************************************)
Dentro(s) == \A i \in DOMAIN s : s[i].limite < TAM_MEMORIA

SinPegadas(s) ==
  \A i, j \in DOMAIN s : ~s[i].ocupada /\ ~s[j].ocupada => s[i].limite + 1 # s[j].base

HInv == /\ Dentro(particiones)
        /\ (\E p \in Pids : fase[p] = "unificar") => PorBase(particiones)
        /\ (\A p \in Pids : ~Finalizando(p)) => SinPegadas(particiones)

\* A list in the order of the bases without two free neighbours that touch has no
\* two free partitions that touch.
LEMMA VecinasBastan ==
  ASSUME ESQUEMA = "DINAMICAS", TInv, PorBase(particiones), Unibles = {}
  PROVE  SinPegadas(particiones)
<1> DEFINE s == particiones
<1>1. SUFFICES ASSUME NEW i \in DOMAIN s, NEW j \in DOMAIN s, ~s[i].ocupada, ~s[j].ocupada,
                      s[i].limite + 1 = s[j].base
               PROVE  FALSE
  BY DEF SinPegadas
<1>2. /\ Len(s) \in Nat /\ DOMAIN s = 1 .. Len(s)
      /\ \A k \in DOMAIN s : /\ s[k].base \in Nat /\ s[k].limite \in Int
                             /\ s[k].base <= s[k].limite
  <2>1. Len(s) \in Nat /\ DOMAIN s = 1 .. Len(s)
    BY EnSerieSabe
  <2>2. ASSUME NEW k \in DOMAIN s
        PROVE  s[k].base \in Nat /\ s[k].limite \in Int /\ s[k].base <= s[k].limite
    <3>1. /\ s[k].base \in Nat /\ s[k].limite \in Int /\ s[k].tamanio \in Nat /\ s[k].tamanio > 0
          /\ s[k].limite = s[k].base + s[k].tamanio - 1
      BY EnSerieSabe
    <3>2. QED
      BY <3>1
  <2>3. QED
    BY <2>1, <2>2
<1>3. i < j
  <2>1. s[i].base < s[j].base
    BY <1>1, <1>2
  <2>2. ~(j < i) /\ i # j
    BY <1>2, <2>1 DEF PorBase
  <2>3. QED
    BY <1>2, <2>2
<1>4. CASE j = i + 1
  BY <1>1, <1>2, <1>4 DEF Unibles, Unible
<1>5. CASE j # i + 1
  <2>1. i + 1 \in DOMAIN s /\ i < i + 1 /\ i + 1 < j
    BY <1>2, <1>3, <1>5
  <2>2. s[i].base < s[i + 1].base /\ s[i + 1].base < s[j].base
    BY <2>1 DEF PorBase
  <2>3. s[i].limite < s[i + 1].base \/ s[i + 1].limite < s[i].base
    <3>1. i # i + 1
      BY <1>2
    <3>2. QED
      BY <2>1, <3>1 DEF TInv, ParticionesDisjuntas
  <2>4. /\ s[i].base \in Nat /\ s[i].limite \in Int /\ s[i + 1].base \in Nat /\ s[i + 1].limite \in Int
        /\ s[i + 1].base <= s[i + 1].limite /\ s[j].base \in Nat
    BY <1>2, <2>1
  <2>5. QED
    BY <1>1, <2>2, <2>3, <2>4
<1>6. QED
  BY <1>4, <1>5

\* The order of the list has nothing to do with which holes touch.
LEMMA OrdenarHuecos ==
  ASSUME ESQUEMA = "DINAMICAS", TInv, Ordenar
  PROVE  /\ Dentro(particiones) => Dentro(particiones')
         /\ SinPegadas(particiones) => SinPegadas(particiones')
<1>1. PICK f \in Ordenes(Len(particiones)) :
        particiones' = [i \in DOMAIN particiones |-> particiones[f[i]]]
  BY DEF Ordenar
<1>2. DOMAIN particiones' = DOMAIN particiones /\ \A i \in DOMAIN particiones : f[i] \in DOMAIN particiones
  BY <1>1, EnSerieSabe DEF Ordenes
<1>3. \A i \in DOMAIN particiones : particiones'[i] = particiones[f[i]]
  BY <1>1
<1>4. Dentro(particiones) => Dentro(particiones')
  BY <1>2, <1>3 DEF Dentro
<1>5. SinPegadas(particiones) => SinPegadas(particiones')
  <2>1. ASSUME SinPegadas(particiones), NEW i \in DOMAIN particiones, NEW j \in DOMAIN particiones,
               ~particiones'[i].ocupada, ~particiones'[j].ocupada
        PROVE  particiones'[i].limite + 1 # particiones'[j].base
    <3>1. f[i] \in DOMAIN particiones /\ f[j] \in DOMAIN particiones
      BY <1>2
    <3>2. QED
      BY <1>3, <2>1, <3>1 DEF SinPegadas
  <2>2. QED
    BY <1>2, <2>1 DEF SinPegadas
<1>6. QED
  BY <1>4, <1>5

\* A round of unificar_particiones_libres_contiguas keeps the order of the list.
LEMMA UnirHuecos ==
  ASSUME ESQUEMA = "DINAMICAS", TInv, Dentro(particiones), PorBase(particiones),
         NEW i \in 1 .. Len(particiones) - 1, particiones' = Unidas(particiones, i)
  PROVE  Dentro(particiones') /\ PorBase(particiones')
<1> DEFINE s == particiones   n == Len(particiones)
<1>1. /\ DOMAIN s = 1 .. n /\ n \in Nat
      /\ \A k \in DOMAIN s : s[k].base \in Nat /\ s[k].limite \in Int
  BY EnSerieSabe
<1>2. /\ DOMAIN particiones' = 1 .. n - 1
      /\ \A k \in 1 .. n - 1 : k < i => particiones'[k] = s[k]
      /\ \A k \in 1 .. n - 1 : k > i => particiones'[k] = s[k + 1]
      /\ particiones'[i].base = s[i].base /\ particiones'[i].limite = s[i + 1].limite
  <2> DEFINE u == Unidas(particiones, i)
  <2>1. particiones \in Seq(Bloque)
    BY EnSerieSabe
  <2>2. /\ DOMAIN u = 1 .. n - 1
        /\ \A k \in 1 .. n - 1 : k < i => u[k] = s[k]
        /\ \A k \in 1 .. n - 1 : k > i => u[k] = s[k + 1]
        /\ u[i].base = s[i].base /\ u[i].limite = s[i + 1].limite
    BY <2>1, Unida, Zenon
  <2> HIDE DEF u
  <2>3. particiones' = u
    BY DEF u
  <2>4. QED
    BY <2>2, <2>3, Zenon
<1> HIDE DEF n
<1>3. Dentro(particiones')
  <2>1. SUFFICES ASSUME NEW k \in 1 .. n - 1 PROVE particiones'[k].limite < TAM_MEMORIA
    BY <1>2 DEF Dentro
  <2>2. k \in DOMAIN s /\ k + 1 \in DOMAIN s
    BY <1>1
  <2>3. s[k].limite < TAM_MEMORIA /\ s[k + 1].limite < TAM_MEMORIA
    BY <2>2 DEF Dentro
  <2>4. particiones'[k].limite = s[k].limite \/ particiones'[k].limite = s[k + 1].limite
    BY <1>1, <1>2
  <2>5. QED
    BY <2>3, <2>4
<1>4. PorBase(particiones')
  <2> DEFINE g == [k \in 1 .. n - 1 |-> IF k <= i THEN k ELSE k + 1]
  <2>1. \A k \in 1 .. n - 1 : g[k] \in DOMAIN s /\ particiones'[k].base = s[g[k]].base
    BY <1>1, <1>2
  <2>2. \A k, l \in 1 .. n - 1 : k < l => g[k] < g[l]
    BY <1>1
  <2> HIDE DEF g
  <2>3. QED
    BY <1>2, <2>1, <2>2 DEF PorBase
<1>5. QED
  BY <1>3, <1>4

\* The remainder of a hole touches only what the hole touched.
LEMMA CrearHuecos ==
  ASSUME ESQUEMA = "DINAMICAS", TInv, SInv, HInv, CrearProceso, ParticionesDisjuntas',
         \A k \in DOMAIN particiones' : particiones'[k].base \in Nat /\ particiones'[k].limite \in Int
                                        /\ particiones'[k].base <= particiones'[k].limite
  PROVE  Dentro(particiones') /\ SinPegadas(particiones')
<1> DEFINE p == creacion.pid
<1>1. PICK i \in DOMAIN particiones, e \in Bloque : Crea(i, e)
  BY CreaEn
<1> DEFINE x == particiones[i]   tam == Parte(i)
           nuevas == DOMAIN particiones' \ DOMAIN particiones
<1>2. /\ creacion # Nada /\ tam \in Nat \ {0} /\ ~x.ocupada /\ tam <= x.tamanio
      /\ e.ocupada /\ e.base = x.base /\ e.limite = x.base + tam - 1
      /\ DOMAIN particiones \subseteq DOMAIN particiones'
      /\ \A j \in DOMAIN particiones : particiones'[j] = IF j = i THEN e ELSE particiones[j]
      /\ \A j \in nuevas : /\ ~particiones'[j].ocupada
                           /\ particiones'[j].base = x.base + tam /\ particiones'[j].limite = x.limite
      /\ \A j, k \in nuevas : j = k
  BY <1>1, Zenon DEF Crea
<1>3. x.base \in Nat /\ x.tamanio \in Nat /\ x.limite = x.base + x.tamanio - 1
  BY EnSerieSabe
<1>4. x.limite < TAM_MEMORIA /\ TAM_MEMORIA \in Nat
  BY TamaniosAssumption DEF HInv, Dentro
<1>5. SinPegadas(particiones)
  BY <1>2 DEF HInv, SInv, UnaPeticion
<1>6. Dentro(particiones')
  <2>1. SUFFICES ASSUME NEW k \in DOMAIN particiones' PROVE particiones'[k].limite < TAM_MEMORIA
    BY DEF Dentro
  <2>2. CASE k = i
    BY <1>2, <1>3, <1>4, <2>2
  <2>3. CASE k \in DOMAIN particiones /\ k # i
    BY <1>2, <2>3 DEF HInv, Dentro
  <2>4. CASE k \in nuevas
    BY <1>2, <1>4, <2>4
  <2>5. QED
    BY <2>2, <2>3, <2>4
<1>7. SinPegadas(particiones')
  <2>1. SUFFICES ASSUME NEW j \in DOMAIN particiones', NEW k \in DOMAIN particiones',
                        ~particiones'[j].ocupada, ~particiones'[k].ocupada,
                        particiones'[j].limite + 1 = particiones'[k].base
                 PROVE  FALSE
    BY DEF SinPegadas
  <2>2. j # i /\ k # i
    BY <1>2, <2>1
  <2>3. /\ \A l \in {j, k} : /\ particiones'[l].base \in Nat /\ particiones'[l].limite \in Int
                             /\ particiones'[l].base <= particiones'[l].limite
    OBVIOUS
  <2>4. CASE k \in nuevas
    <3>1. particiones'[j].limite = e.limite
      <4>1. particiones'[k].base = x.base + tam
        BY <1>2, <2>4
      <4>2. particiones'[j].limite + 1 = x.base + tam
        BY <2>1, <4>1
      <4>3. particiones'[j].limite \in Int
        BY <2>3
      <4>4. tam \in Nat /\ x.base \in Nat /\ e.limite = x.base + tam - 1
        BY <1>2, <1>3
      <4>5. \A u \in Int, v, w \in Nat : u + 1 = v + w => u = v + w - 1
        OBVIOUS
      <4>6. particiones'[j].limite = x.base + tam - 1
        BY <4>2, <4>3, <4>4, <4>5
      <4>7. QED
        BY <4>4, <4>6
    <3>2. particiones'[i] = e /\ i \in DOMAIN particiones'
      BY <1>2
    <3>3. particiones'[j].limite < e.base \/ e.limite < particiones'[j].base
      BY <2>2, <3>2 DEF ParticionesDisjuntas
    <3>4. e.base \in Nat /\ e.base <= e.limite /\ e.limite \in Int
      BY <1>2, <1>3
    <3>5. QED
      BY <2>3, <3>1, <3>3, <3>4
  <2>5. CASE j \in nuevas /\ k \in DOMAIN particiones
    <3>1. particiones'[k] = particiones[k] /\ particiones'[j].limite = x.limite
      BY <1>2, <2>2, <2>5
    <3>2. QED
      BY <1>2, <1>5, <2>1, <3>1 DEF SinPegadas
  <2>6. CASE j \in DOMAIN particiones /\ k \in DOMAIN particiones
    BY <1>2, <1>5, <2>1, <2>2, <2>6 DEF SinPegadas
  <2>7. QED
    BY <2>4, <2>5, <2>6
<1>8. QED
  BY <1>6, <1>7

LEMMA HuecosPaso ==
  ASSUME ESQUEMA = "DINAMICAS", EnSerie, TInv, SInv, HInv, Next, TInv'
  PROVE  HInv'
<1>0. fase \in [Pids -> Fases] /\ Dentro(particiones)
  BY EnSerieSabe DEF TipoResto, HInv
<1>1. CASE CrearProceso
  <2>1. \A k \in DOMAIN particiones' : particiones'[k].base \in Nat /\ particiones'[k].limite \in Int
                                        /\ particiones'[k].base <= particiones'[k].limite
    <3>1. \A b \in Bloque : b.base \in Nat /\ b.limite \in Int /\ b.tamanio \in Nat /\ b.tamanio > 0
      BY DEF Bloque
    <3>2. \A k \in DOMAIN particiones' : /\ particiones'[k] \in Bloque
                                         /\ particiones'[k].limite = particiones'[k].base + particiones'[k].tamanio - 1
      BY ElementOfSeq, LenProperties DEF TInv, TypeOK, Forma
    <3>3. QED
      BY <3>1, <3>2
  <2>2. Dentro(particiones') /\ SinPegadas(particiones')
    BY <1>1, <2>1, CrearHuecos DEF TInv
  <2>3. \A q \in Pids : fase'[q] # "unificar"
    <3>1. PICK i \in DOMAIN particiones, e \in Bloque : Crea(i, e)
      BY <1>1, CreaEn
    <3>2. creacion # Nada /\ fase' = [fase EXCEPT ![creacion.pid] = "vivo"]
      BY <3>1 DEF Crea
    <3>3. QED
      BY <1>0, <3>2 DEF SInv, UnaPeticion, Finalizando
  <2>4. QED
    BY <2>2, <2>3 DEF HInv
<1>2. ASSUME NEW p \in Pids, LiberarParticion(p) PROVE HInv'
  <2>1. fase[p] = "liberar" /\ fase' = [fase EXCEPT ![p] = "quitar"]
    BY <1>2 DEF LiberarParticion
  <2>2. \A q \in Pids \ {p} : fase[q] # "unificar"
    BY <2>1 DEF SInv, UnaPeticion, Finalizando
  <2>3. Finalizando(p)' /\ \A q \in Pids : fase'[q] # "unificar"
    BY <1>0, <2>1, <2>2 DEF Finalizando
  <2>4. PICK i \in ConId(procesos[p].particion) :
          particiones' = [particiones EXCEPT ![i] = Desocupar(particiones[i])]
    BY <1>2 DEF LiberarParticion
  <2>5. i \in DOMAIN particiones /\ particiones[i] \in Bloque
    BY <2>4, EnSerieSabe DEF ConId
  <2>6. Desocupar(particiones[i]).limite = particiones[i].limite
    BY <2>5 DEF Desocupar, Bloque
  <2>7. Dentro(particiones')
    BY <1>0, <2>4, <2>6 DEF Dentro
  <2>8. QED
    BY <2>3, <2>7 DEF HInv
<1>3. ASSUME NEW p \in Pids, OrdenarParticiones(p) PROVE HInv'
  <2>1. Ordenar /\ fase' = [fase EXCEPT ![p] = "unificar"]
    BY <1>3 DEF OrdenarParticiones
  <2>2. Finalizando(p)'
    BY <1>0, <2>1 DEF Finalizando
  <2>3. QED
    BY <1>0, <2>1, <2>2, SerieOrdenar, OrdenarHuecos DEF HInv
<1>4. ASSUME NEW p \in Pids, UnificarParticiones(p) PROVE HInv'
  <2>1. fase[p] = "unificar" /\ UNCHANGED fase
    BY <1>4 DEF UnificarParticiones
  <2>2. PICK i \in 1 .. Len(particiones) - 1 : particiones' = Unidas(particiones, i)
    BY <1>4 DEF UnificarParticiones, Unibles
  <2>3. Dentro(particiones') /\ PorBase(particiones')
    BY <1>0, <2>1, <2>2, UnirHuecos DEF HInv
  <2>4. Finalizando(p)'
    BY <2>1 DEF Finalizando
  <2>5. QED
    BY <2>3, <2>4 DEF HInv
<1>5. ASSUME NEW p \in Pids, FinalizarProceso(p) PROVE HInv'
  <2>1. fase[p] = "unificar" /\ Unibles = {} /\ Ordenar /\ fase' = [fase EXCEPT ![p] = "finalizado"]
    BY <1>5 DEF FinalizarProceso
  <2>2. SinPegadas(particiones)
    BY <2>1, VecinasBastan DEF HInv
  <2>3. SinPegadas(particiones') /\ Dentro(particiones') /\ PorBase(particiones')
    BY <1>0, <2>1, <2>2, OrdenarHuecos, SerieOrdenar
  <2>4. QED
    BY <2>3 DEF HInv
<1>6. ASSUME UNCHANGED particiones, \A q \in Pids : fase'[q] = "unificar" => fase[q] = "unificar",
             (\A q \in Pids : ~Finalizando(q)') => \A q \in Pids : ~Finalizando(q)
      PROVE  HInv'
  BY <1>6 DEF HInv
<1>7. ASSUME NEW p \in Pids, NEW tam \in Tamanios, BuscarHueco(p, tam) PROVE HInv'
  <2>1. /\ UNCHANGED particiones /\ \A q \in Pids : ~Finalizando(q)
        /\ UNCHANGED fase \/ fase' = [fase EXCEPT ![p] = "rechazado"]
    BY <1>7 DEF BuscarHueco, Llega, Desocupada
  <2>2. \A q \in Pids : fase'[q] = "unificar" => fase[q] = "unificar"
    BY <1>0, <2>1
  <2>3. QED
    BY <1>6, <2>1, <2>2
<1>8. ASSUME NEW p \in Pids, PedirFinalizacion(p) PROVE HInv'
  <2>1. /\ UNCHANGED particiones /\ \A q \in Pids : ~Finalizando(q)
        /\ fase' = [fase EXCEPT ![p] = "liberar"]
    BY <1>8 DEF PedirFinalizacion, Llega, Desocupada
  <2>2. \A q \in Pids : fase'[q] = "unificar" => fase[q] = "unificar"
    BY <1>0, <2>1
  <2>3. QED
    BY <1>6, <2>1, <2>2
<1>9. ASSUME NEW p \in Pids, QuitarProceso(p) PROVE HInv'
  <2>1. UNCHANGED particiones /\ fase' = [fase EXCEPT ![p] = "ordenar"]
    BY <1>9 DEF QuitarProceso
  <2>2. (\A q \in Pids : fase'[q] = "unificar" => fase[q] = "unificar") /\ Finalizando(p)'
    BY <1>0, <2>1 DEF Finalizando
  <2>3. QED
    BY <1>6, <2>1, <2>2
<1>10. CASE UNCHANGED <<particiones, fase>>
  BY <1>6, <1>10 DEF Finalizando
<1>11. QED
  BY <1>1, <1>2, <1>3, <1>4, <1>5, <1>7, <1>8, <1>9, <1>10
     DEF Next, Finalizacion, EscribirMemoria, VolcarMemoria

\* The partitions of a table are none of them bigger than some number.
LEMMA TamaniosAcotados ==
  ASSUME NEW s \in Seq(Bloque)
  PROVE  /\ \A j \in DOMAIN s : s[j].tamanio \in Nat /\ j \in Nat
         /\ \E c \in Nat : \A j \in DOMAIN s : s[j].tamanio <= c
<1> DEFINE Cota(n, c) == \A j \in DOMAIN s : j <= n => s[j].tamanio <= c
           S == {n \in Nat : \E c \in Nat : Cota(n, c)}
<1>1. /\ Len(s) \in Nat /\ DOMAIN s = 1 .. Len(s)
      /\ \A j \in DOMAIN s : s[j].tamanio \in Nat
  <2>1. Len(s) \in Nat /\ DOMAIN s = 1 .. Len(s) /\ \A j \in DOMAIN s : s[j] \in Bloque
    BY LenProperties, ElementOfSeq
  <2>2. \A b \in Bloque : b.tamanio \in Nat
    BY DEF Bloque
  <2>3. QED
    BY <2>1, <2>2
<1>2. 0 \in S
  <2>1. \A j \in DOMAIN s : ~(j <= 0)
    BY <1>1
  <2>2. QED
    BY <2>1
<1>3. ASSUME NEW n \in S PROVE n + 1 \in S
  <2>1. PICK c \in Nat : Cota(n, c)
    OBVIOUS
  <2>2. PICK d \in Nat : c <= d /\ (n + 1 \in DOMAIN s => s[n + 1].tamanio <= d)
    <3>1. CASE n + 1 \in DOMAIN s /\ ~(s[n + 1].tamanio <= c)
      BY <1>1, <3>1
    <3>2. CASE n + 1 \in DOMAIN s => s[n + 1].tamanio <= c
      BY <3>2
    <3>3. QED
      BY <3>1, <3>2
  <2>3. n \in Nat /\ \A j \in DOMAIN s : j <= n + 1 => j <= n \/ j = n + 1
    BY <1>1
  <2>4. Cota(n + 1, d)
    BY <1>1, <2>1, <2>2, <2>3
  <2> HIDE DEF Cota
  <2>5. n + 1 \in Nat
    BY <2>3
  <2>6. QED
    BY <2>4, <2>5
<1> HIDE DEF S, Cota
<1>4. S \in SUBSET Nat
  BY DEF S
<1>5. S = Nat
  BY <1>2, <1>3, <1>4, Induccion
<1>6. PICK c \in Nat : Cota(Len(s), c)
  BY <1>1, <1>5 DEF S
<1>7. \A j \in DOMAIN s : s[j].tamanio <= c /\ j \in Nat
  BY <1>1, <1>6 DEF Cota
<1>8. QED
  BY <1>1, <1>7

\* Whatever the algorithm, a search that looks at a hole big enough returns one:
\* among the best by size, the first of the list.
LEMMA AlgunaAsignable ==
  ASSUME NEW s \in Seq(Bloque), NEW tam, NEW i \in DOMAIN s, Sirve(s, i, tam)
  PROVE  Asignable(s, tam) # {}
<1>0. PICK c \in Nat : \A j \in DOMAIN s : s[j].tamanio \in Nat /\ s[j].tamanio <= c /\ j \in Nat
  BY TamaniosAcotados
<1> DEFINE Peso(j) == IF ALGORITMO_BUSQUEDA = "BEST" THEN s[j].tamanio
                      ELSE IF ALGORITMO_BUSQUEDA = "WORST" THEN c - s[j].tamanio ELSE 0
           Q == {j \in DOMAIN s : Sirve(s, j, tam)}
           W == {Peso(j) : j \in Q}
           m == Min(W)
           Q1 == {j \in Q : Peso(j) = m}
           k == Min(Q1)
<1>1. \A j \in DOMAIN s : Peso(j) \in Nat
  BY <1>0
<1>2. \A j, l \in DOMAIN s : /\ Mejor(s, j, l) <=> Peso(j) < Peso(l)
  <2>1. TAKE j, l \in DOMAIN s
  <2>2. s[j].tamanio \in Nat /\ s[l].tamanio \in Nat
    BY <1>0
  <2>3. CASE ALGORITMO_BUSQUEDA = "BEST"
    BY <2>2, <2>3 DEF Mejor
  <2>4. CASE ALGORITMO_BUSQUEDA = "WORST"
    BY <2>2, <2>4 DEF Mejor
  <2>5. CASE ALGORITMO_BUSQUEDA = "FIRST"
    BY <2>5 DEF Mejor
  <2>6. QED
    BY <2>3, <2>4, <2>5, AlgoritmoAssumption
<1> HIDE DEF Peso
<1>3. W \in SUBSET Nat /\ W # {}
  BY <1>1
<1> HIDE DEF W
<1>4. m \in W /\ \A y \in W : m <= y
  BY <1>3, MinPertenece
<1> HIDE DEF m
<1>5. Q1 \in SUBSET Nat /\ Q1 # {}
  BY <1>0, <1>4 DEF W
<1> HIDE DEF Q1
<1>6. k \in Q1 /\ \A y \in Q1 : k <= y
  BY <1>5, MinPertenece
<1> HIDE DEF k
<1>7. k \in DOMAIN s /\ Sirve(s, k, tam) /\ Peso(k) = m
  BY <1>6 DEF Q1
<1>8. ASSUME NEW j \in DOMAIN s, Sirve(s, j, tam) PROVE Preferida(s, k, j)
  <2>1. m <= Peso(j) /\ Peso(k) \in Nat /\ Peso(j) \in Nat
    BY <1>1, <1>4, <1>7, <1>8 DEF W
  <2>2. CASE Peso(k) < Peso(j)
    BY <1>2, <1>7, <2>2 DEF Preferida
  <2>3. CASE ~(Peso(k) < Peso(j))
    <3>1. Peso(j) = m /\ ~(Peso(j) < Peso(k))
      BY <1>7, <2>1, <2>3
    <3>2. k <= j
      BY <1>6, <1>8, <3>1 DEF Q1
    <3>3. QED
      BY <1>2, <1>7, <3>1, <3>2 DEF Preferida
  <2>4. QED
    BY <2>2, <2>3
<1>9. k \in Asignable(s, tam)
  BY <1>7, <1>8 DEF Asignable
<1>10. QED
  BY <1>9

LEMMA HuecosInicia ==
  ASSUME ESQUEMA = "DINAMICAS", Init
  PROVE  HInv
<1> DEFINE x == Particion(0, 0, TAM_MEMORIA)
<1>1. particiones = <<x>>
  BY DEF Init, ParticionesIniciales
<1>2. x.limite = 0 + TAM_MEMORIA - 1 /\ x.base = 0 /\ TAM_MEMORIA \in Nat /\ TAM_MEMORIA > 0
  BY TamaniosAssumption DEF Particion
<1> HIDE DEF x
<1>3. DOMAIN particiones = {1} /\ particiones[1] = x
  BY <1>1
<1>4. Dentro(particiones) /\ SinPegadas(particiones) /\ PorBase(particiones)
  BY <1>2, <1>3 DEF Dentro, SinPegadas, PorBase
<1>5. QED
  BY <1>4 DEF HInv

\* HuecosAprovechables follows from the invariants: the hole of the first byte of a
\* free run holds the whole run, for the hole after it would touch it.
LEMMA HuecosBastan ==
  ASSUME ESQUEMA = "DINAMICAS", TInv, HInv
  PROVE  HuecosAprovechables
<1>1. SUFFICES ASSUME Desocupada, NEW a \in 0 .. TAM_MEMORIA - 1, NEW tam \in Tamanios,
                      a + tam <= TAM_MEMORIA,
                      \A b \in a .. a + tam - 1, i \in DOMAIN particiones :
                        Contiene(particiones[i], b) => ~particiones[i].ocupada
               PROVE  Asignable(particiones, tam) # {}
  BY DEF HuecosAprovechables
<1>2. a \in Nat /\ tam \in Nat /\ tam > 0 /\ TAM_MEMORIA \in Nat
  BY TamaniosAssumption
<1>3. \A b \in 0 .. TAM_MEMORIA - 1 : \E i \in DOMAIN particiones : Contiene(particiones[i], b)
  BY DEF TInv, MemoriaCubierta
<1>4. SinPegadas(particiones) /\ Dentro(particiones)
  BY <1>1 DEF HInv, Desocupada
<1>5. \A k \in DOMAIN particiones : /\ particiones[k].base \in Nat /\ particiones[k].limite \in Int
                                    /\ particiones[k].tamanio \in Nat
                                    /\ particiones[k].limite = particiones[k].base + particiones[k].tamanio - 1
  BY EnSerieSabe
<1>6. PICK i \in DOMAIN particiones : Contiene(particiones[i], a)
  BY <1>3
<1>7. ~particiones[i].ocupada
  BY <1>1, <1>2, <1>6
<1>8. a + tam - 1 <= particiones[i].limite
  <2>1. SUFFICES ASSUME ~(a + tam - 1 <= particiones[i].limite) PROVE FALSE
    OBVIOUS
  <2> DEFINE b == particiones[i].limite + 1
  <2>2. particiones[i].base <= a /\ a <= particiones[i].limite /\ particiones[i].limite \in Int
    BY <1>5, <1>6 DEF Contiene
  <2>3. b \in a .. a + tam - 1 /\ b \in 0 .. TAM_MEMORIA - 1
    BY <1>1, <1>2, <2>1, <2>2
  <2>4. PICK j \in DOMAIN particiones : Contiene(particiones[j], b)
    BY <1>3, <2>3
  <2>5. ~particiones[j].ocupada
    BY <1>1, <2>3, <2>4
  <2>6. particiones[j].base <= b /\ b <= particiones[j].limite
    BY <2>4 DEF Contiene
  <2>7. i # j
    BY <2>2, <2>6
  <2>8. particiones[i].limite < particiones[j].base \/ particiones[j].limite < particiones[i].base
    BY <2>7 DEF TInv, ParticionesDisjuntas
  <2>9. particiones[j].base = b
    BY <1>2, <1>5, <2>2, <2>6, <2>8
  <2>10. QED
    BY <1>4, <1>7, <2>5, <2>9 DEF SinPegadas
<1>9. Sirve(particiones, i, tam)
  <2>1. /\ particiones[i].base <= a /\ particiones[i].base \in Nat /\ particiones[i].limite \in Int
        /\ particiones[i].tamanio \in Nat
        /\ particiones[i].limite = particiones[i].base + particiones[i].tamanio - 1
    BY <1>5, <1>6 DEF Contiene
  <2>2. particiones[i].tamanio >= tam
    BY <1>2, <1>8, <2>1
  <2>3. QED
    BY <1>7, <2>2 DEF Sirve
<1>10. particiones \in Seq(Bloque)
  BY EnSerieSabe
<1>11. QED
  BY <1>9, <1>10, AlgunaAsignable

(* HuecosAprovechables, for any number of processes, any sizes and any of the
   three searches: when each request waits for the one before, a process is turned
   away only if no run of free bytes is as long as it asks for.  After a request
   that follows no pointer (the dump of a process that never wrote) there are no
   more steps. *)
THEOREM HuecosSinFragmentar ==
  ASSUME ESQUEMA = "DINAMICAS", EnSerie
  PROVE  Spec => []HuecosAprovechables
<1> DEFINE MInv == HInv /\ (SInv \/ indefinido)
<1>1. Init => MInv
  BY HuecosInicia, SerieInicia
<1>2. TInv /\ MInv /\ [Next]_vars /\ TInv' => MInv'
  <2> SUFFICES ASSUME TInv, HInv, SInv \/ indefinido, [Next]_vars, TInv' PROVE HInv' /\ (SInv' \/ indefinido')
    BY DEF MInv
  <2>1. CASE UNCHANGED vars
    BY <2>1, SerieQuieta DEF vars, HInv, Finalizando
  <2>2. CASE Next /\ indefinido
    BY <2>2 DEF Next, Finalizacion, BuscarHueco, Llega, CrearProceso, PedirFinalizacion, LiberarParticion,
       QuitarProceso, OrdenarParticiones, UnificarParticiones, FinalizarProceso, EscribirMemoria, VolcarMemoria
  <2>3. CASE Next /\ SInv
    BY <2>3, HuecosPaso, SeriePaso DEF Ordenadas
  <2>4. QED
    BY <2>1, <2>2, <2>3
<1>3. TInv /\ MInv => HuecosAprovechables
  BY HuecosBastan
<1> HIDE DEF MInv
<1>4. QED
  BY <1>1, <1>2, <1>3, Invariante, PTL DEF Spec
=============================================================================
