----------------------------- MODULE CpuProofs -----------------------------
(***************************************************************************)
(* Theorems about Cpu, for any programs, threads, processes and partitions *)
(* that do not overlap: the CPU and Memoria together implement a machine   *)
(* of its own for each thread (Maquina).  First the arithmetic of words    *)
(* and bytes, then the invariant, then the steps.                          *)
(***************************************************************************)
EXTENDS Cpu, SecuenciasProofs

-----------------------------------------------------------------------------
(* Words and bytes. *)

\* The recursive function is what its definition says.
LEMMA PotenciaDef == potencia = [i \in Nat |-> IF i = 0 THEN 1 ELSE VALORES * potencia[i - 1]]
<1> DEFINE Hasta(g, n) == g = [i \in 0 .. n |-> IF i = 0 THEN 1 ELSE VALORES * g[i - 1]]
           G(n) == CHOOSE g : Hasta(g, n)
           F == [n \in Nat |-> G(n)[n]]
<1>1. ASSUME NEW g, NEW h, NEW n \in Nat, NEW m \in Nat, Hasta(g, n), Hasta(h, m)
      PROVE  \A k \in Nat : k \in 0 .. n /\ k \in 0 .. m => g[k] = h[k]
  <2> DEFINE S == {k \in Nat : k \in 0 .. n /\ k \in 0 .. m => g[k] = h[k]}
  <2>0. /\ \A k \in 0 .. n : g[k] = IF k = 0 THEN 1 ELSE VALORES * g[k - 1]
        /\ \A k \in 0 .. m : h[k] = IF k = 0 THEN 1 ELSE VALORES * h[k - 1]
    BY <1>1
  <2>1. 0 \in S
    BY <2>0
  <2>2. ASSUME NEW k \in S PROVE k + 1 \in S
    <3>1. SUFFICES ASSUME k + 1 \in 0 .. n, k + 1 \in 0 .. m PROVE g[k + 1] = h[k + 1]
      OBVIOUS
    <3>2. k \in 0 .. n /\ k \in 0 .. m /\ k + 1 # 0 /\ (k + 1) - 1 = k
      BY <3>1
    <3>3. g[k + 1] = VALORES * g[k] /\ h[k + 1] = VALORES * h[k]
      BY <2>0, <3>1, <3>2
    <3>4. QED
      BY <3>2, <3>3
  <2>3. S = Nat
    <3> HIDE DEF S
    <3>1. S \in SUBSET Nat
      BY DEF S
    <3>2. QED
      BY <2>1, <2>2, <3>1, Induccion
  <2>4. QED
    BY <2>3
<1>2. \A n \in Nat : \E g : Hasta(g, n)
  <2> DEFINE S == {n \in Nat : \E g : Hasta(g, n)}
  <2>1. 0 \in S
    <3>1. Hasta([i \in 0 .. 0 |-> 1], 0)
      OBVIOUS
    <3>2. QED
      BY <3>1
  <2>2. ASSUME NEW n \in S PROVE n + 1 \in S
    <3>1. PICK g : Hasta(g, n)
      OBVIOUS
    <3> DEFINE h == [i \in 0 .. n + 1 |-> IF i = n + 1 THEN VALORES * g[n] ELSE g[i]]
    <3>2. \A i \in 0 .. n : g[i] = IF i = 0 THEN 1 ELSE VALORES * g[i - 1]
      BY <3>1
    <3>3. ASSUME NEW i \in 0 .. n + 1 PROVE h[i] = IF i = 0 THEN 1 ELSE VALORES * h[i - 1]
      <4>1. CASE i = n + 1
        BY <4>1
      <4>2. CASE i = 0
        BY <3>2, <4>2
      <4>3. CASE i \in 1 .. n
        <5>1. i - 1 \in 0 .. n + 1 /\ i - 1 # n + 1 /\ i # n + 1 /\ i # 0
          BY <4>3
        <5>2. h[i - 1] = g[i - 1] /\ h[i] = g[i]
          BY <5>1
        <5>3. QED
          BY <3>2, <4>3, <5>1, <5>2
      <4>4. QED
        BY <4>1, <4>2, <4>3
    <3>4. Hasta(h, n + 1)
      <4>1. h = [i \in 0 .. n + 1 |-> h[i]]
        OBVIOUS
      <4> HIDE DEF h
      <4>2. QED
        BY <3>3, <4>1
    <3>5. n + 1 \in Nat
      OBVIOUS
    <3> HIDE DEF h, Hasta
    <3>6. QED
      BY <3>4, <3>5
  <2>3. S = Nat
    <3> HIDE DEF S
    <3>1. S \in SUBSET Nat
      BY DEF S
    <3>2. QED
      BY <2>1, <2>2, <3>1, Induccion
  <2>4. QED
    BY <2>3
<1>3. \A n \in Nat : Hasta(G(n), n)
  BY <1>2
<1>4. ASSUME NEW n \in Nat PROVE F[n] = IF n = 0 THEN 1 ELSE VALORES * F[n - 1]
  <2>1. G(n)[n] = IF n = 0 THEN 1 ELSE VALORES * G(n)[n - 1]
    <3>1. n \in 0 .. n
      OBVIOUS
    <3> DEFINE g == G(n)
    <3>2. Hasta(g, n)
      BY <1>3
    <3> HIDE DEF g
    <3>3. g[n] = IF n = 0 THEN 1 ELSE VALORES * g[n - 1]
      BY <3>1, <3>2
    <3>4. QED
      BY <3>3 DEF g
  <2>2. ASSUME n # 0 PROVE G(n)[n - 1] = G(n - 1)[n - 1]
    <3>1. n - 1 \in Nat /\ n - 1 \in 0 .. n /\ n - 1 \in 0 .. n - 1
      BY <2>2
    <3> DEFINE g == G(n)
               h == G(n - 1)
    <3>2. Hasta(g, n) /\ Hasta(h, n - 1)
      BY <1>3, <3>1
    <3> HIDE DEF g, h
    <3>3. g[n - 1] = h[n - 1]
      BY <1>1, <3>1, <3>2
    <3>4. QED
      BY <3>3 DEF g, h
  <2> HIDE DEF G
  <2>3. n # 0 => n - 1 \in Nat
    OBVIOUS
  <2>4. QED
    BY <2>1, <2>2, <2>3
<1>5. F = [i \in Nat |-> IF i = 0 THEN 1 ELSE VALORES * F[i - 1]]
  <2>1. F = [i \in Nat |-> F[i]]
    OBVIOUS
  <2> HIDE DEF F
  <2>2. QED
    BY <1>4, <2>1
<1>6. QED
  <2> HIDE DEF F
  <2>1. \E f : f = [i \in Nat |-> IF i = 0 THEN 1 ELSE VALORES * f[i - 1]]
    BY <1>5
  <2>2. QED
    BY <2>1, Zenon DEF potencia
LEMMA Potencias ==
  /\ potencia[0] = 1
  /\ \A n \in Nat : potencia[n] \in Nat \ {0} /\ potencia[n + 1] = VALORES * potencia[n]
<1>1. potencia[0] = 1
  BY PotenciaDef
<1>2. \A n \in Nat : potencia[n + 1] = VALORES * potencia[n]
  <2>1. SUFFICES ASSUME NEW n \in Nat PROVE potencia[n + 1] = VALORES * potencia[n]
    OBVIOUS
  <2>2. n + 1 \in Nat /\ n + 1 # 0 /\ (n + 1) - 1 = n
    OBVIOUS
  <2>3. \A i \in Nat : potencia[i] = IF i = 0 THEN 1 ELSE VALORES * potencia[i - 1]
    BY PotenciaDef
  <2>4. QED
    BY <2>2, <2>3
<1>3. {n \in Nat : potencia[n] \in Nat \ {0}} = Nat
  <2> DEFINE S == {n \in Nat : potencia[n] \in Nat \ {0}}
  <2>1. 0 \in S
    BY <1>1
  <2>2. ASSUME NEW n \in S PROVE n + 1 \in S
    <3>1. \A v, p \in Nat \ {0} : v * p \in Nat \ {0}
      OBVIOUS
    <3>2. QED
      BY <1>2, <3>1, PalabrasAssumption
  <2>3. S \in SUBSET Nat
    OBVIOUS
  <2> HIDE DEF S
  <2>4. S = Nat
    BY <2>1, <2>2, <2>3, Induccion
  <2>5. QED
    BY <2>4 DEF S
<1>4. QED
  BY <1>1, <1>2, <1>3

LEMMA ModuloNatural == Modulo \in Nat \ {0} /\ Palabras = 0 .. Modulo - 1
  BY Potencias, PalabrasAssumption DEF Modulo, Palabras

LEMMA DivisionEntera ==
  ASSUME NEW a \in Nat, NEW b \in Nat \ {0}
  PROVE  a \div b \in Nat /\ a % b \in 0 .. b - 1 /\ a = b * (a \div b) + (a % b)
  OBVIOUS

\* There is one quotient and one remainder.
LEMMA DivisionUnica ==
  ASSUME NEW a \in Nat, NEW b \in Nat \ {0}, NEW t \in Nat, NEW r \in 0 .. b - 1, a = b * t + r
  PROVE  a \div b = t /\ a % b = r
<1> DEFINE q == a \div b
           m == a % b
<1>1. q \in Nat /\ m \in 0 .. b - 1 /\ a = b * q + m
  BY DivisionEntera
<1> HIDE DEF q, m
<1>2. \A x, y \in Nat : x < y => b * x + b <= b * y
  <2>1. SUFFICES ASSUME NEW x \in Nat, NEW y \in Nat, x < y PROVE b * x + b <= b * y
    OBVIOUS
  <2>2. PICK k \in Nat : y = x + 1 + k
    <3>1. y - x - 1 \in Nat /\ y = x + 1 + (y - x - 1)
      BY <2>1
    <3>2. QED
      BY <3>1
  <2>3. b * y = b * x + b + b * k
    BY <2>2
  <2>4. b * k \in Nat /\ b * x \in Nat
    OBVIOUS
  <2>5. QED
    BY <2>3, <2>4
<1>3. b * q \in Nat /\ b * t \in Nat
  BY <1>1
<1>4. ~(q < t)
  <2>1. SUFFICES ASSUME q < t PROVE FALSE
    OBVIOUS
  <2>2. b * q + b <= b * t
    BY <1>1, <1>2, <2>1
  <2>3. QED
    BY <1>1, <1>3, <2>2
<1>5. ~(t < q)
  <2>1. SUFFICES ASSUME t < q PROVE FALSE
    OBVIOUS
  <2>2. b * t + b <= b * q
    BY <1>1, <1>2, <2>1
  <2>3. QED
    BY <1>1, <1>3, <2>2
<1>6. q = t
  BY <1>1, <1>4, <1>5
<1>7. m = r
  BY <1>1, <1>3, <1>6
<1>8. QED
  BY <1>6, <1>7 DEF q, m

\* Dividing by a product is dividing by each factor.
LEMMA DivisionDoble ==
  ASSUME NEW x \in Nat, NEW a \in Nat \ {0}, NEW b \in Nat \ {0}
  PROVE  x \div (a * b) = (x \div a) \div b
<1> DEFINE q == x \div a
           r == x % a
           t == q \div b
           u == q % b
<1>1. q \in Nat /\ r \in 0 .. a - 1 /\ x = a * q + r
  BY DivisionEntera
<1>2. t \in Nat /\ u \in 0 .. b - 1 /\ q = b * t + u
  BY <1>1, DivisionEntera
<1> HIDE DEF q, r, t, u
<1>3. a * b \in Nat \ {0}
  OBVIOUS
<1>4. a * q = (a * b) * t + a * u
  BY <1>2
<1>5. a * u \in Nat /\ a * u + a <= a * b
  <2>1. PICK k \in Nat : b = u + 1 + k
    <3>1. b - u - 1 \in Nat /\ b = u + 1 + (b - u - 1)
      BY <1>2
    <3>2. QED
      BY <3>1
  <2>2. a * b = a * u + a + a * k
    BY <1>2, <2>1
  <2>3. a * k \in Nat /\ a * u \in Nat
    BY <1>2
  <2>4. QED
    BY <2>2, <2>3
<1>6. a * u + r \in 0 .. (a * b) - 1
  BY <1>1, <1>3, <1>5
<1>7. x = (a * b) * t + (a * u + r)
  <2>1. (a * b) * t \in Nat
    BY <1>2, <1>3
  <2>2. QED
    BY <1>1, <1>4, <1>5, <2>1
<1>8. x \div (a * b) = t
  BY <1>2, <1>3, <1>6, <1>7, DivisionUnica
<1>9. QED
  BY <1>8 DEF t, q

\* Any BYTES bytes are those of a word.
LEMMA HayPalabra ==
  ASSUME NEW m, NEW d, \A i \in 0 .. BYTES - 1 : m[d + i] \in 0 .. VALORES - 1
  PROVE  PalabrasEn(m, d) # {}
<1> DEFINE Es(v, f, k) == \A i \in 0 .. k - 1 : Byte(v, i) = f[i]
           S == {k \in Nat : \A f \in [Nat -> 0 .. VALORES - 1] : \E v \in 0 .. potencia[k] - 1 : Es(v, f, k)}
<1>1. 0 \in S
  BY Potencias
<1>2. ASSUME NEW k \in S PROVE k + 1 \in S
  <2>1. SUFFICES ASSUME NEW f \in [Nat -> 0 .. VALORES - 1]
                 PROVE  \E v \in 0 .. potencia[k + 1] - 1 : Es(v, f, k + 1)
    OBVIOUS
  <2> DEFINE g == [i \in Nat |-> f[i + 1]]
  <2>2. g \in [Nat -> 0 .. VALORES - 1]
    OBVIOUS
  <2>3. PICK w \in 0 .. potencia[k] - 1 : Es(w, g, k)
    BY <2>2
  <2> DEFINE v == VALORES * w + f[0]
  <2>4. /\ k \in Nat /\ w \in Nat /\ f[0] \in 0 .. VALORES - 1 /\ v \in Nat
        /\ potencia[k] \in Nat \ {0} /\ VALORES \in Nat \ {0}
    <3>1. k \in Nat /\ VALORES \in Nat \ {0} /\ f[0] \in 0 .. VALORES - 1
      BY PalabrasAssumption
    <3>2. potencia[k] \in Nat \ {0}
      BY <3>1, Potencias
    <3>3. w \in Nat
      BY <3>2
    <3>4. VALORES * w \in Nat
      BY <3>1, <3>3
    <3>5. v \in Nat
      BY <3>1, <3>4
    <3>6. QED
      BY <3>1, <3>2, <3>3, <3>5
  <2>5. v \div VALORES = w /\ v % VALORES = f[0]
    BY <2>4, DivisionUnica
  <2>6. v \in 0 .. potencia[k + 1] - 1
    <3>1. potencia[k + 1] = VALORES * potencia[k]
      BY Potencias
    <3>2. PICK j \in Nat : potencia[k] = w + 1 + j
      <4>1. potencia[k] - w - 1 \in Nat /\ potencia[k] = w + 1 + (potencia[k] - w - 1)
        BY <2>4
      <4>2. QED
        BY <4>1
    <3>3. VALORES * potencia[k] = VALORES * w + VALORES + VALORES * j
      BY <2>4, <3>2
    <3>4. VALORES * w \in Nat /\ VALORES * j \in Nat
      BY <2>4
    <3>5. QED
      BY <2>4, <3>1, <3>3, <3>4
  <2>7. ASSUME NEW i \in 0 .. k PROVE Byte(v, i) = f[i]
    <3>1. CASE i = 0
      <4>1. v \div 1 = v
        BY <2>4
      <4>2. QED
        BY <2>5, <3>1, <4>1, Potencias DEF Byte
    <3>2. CASE i # 0
      <4> DEFINE j == i - 1
      <4>1. j \in Nat /\ j \in 0 .. k - 1 /\ i = j + 1
        BY <2>4, <3>2
      <4> HIDE DEF j
      <4>2. potencia[i] = VALORES * potencia[j] /\ potencia[j] \in Nat \ {0}
        BY <4>1, Potencias
      <4> HIDE DEF v
      <4>3. v \div potencia[i] = w \div potencia[j]
        BY <2>4, <2>5, <4>2, DivisionDoble
      <4>4. Byte(v, i) = Byte(w, j)
        BY <4>3 DEF Byte
      <4>5. QED
        BY <2>3, <4>1, <4>4
    <3>3. QED
      BY <3>1, <3>2
  <2>8. Es(v, f, k + 1)
    <3> HIDE DEF v
    <3>1. 0 .. (k + 1) - 1 = 0 .. k
      BY <2>4
    <3>2. QED
      BY <2>7, <3>1
  <2>9. QED
    BY <2>6, <2>8
<1>3. S = Nat
  <2>1. S \in SUBSET Nat
    OBVIOUS
  <2> HIDE DEF S
  <2>2. QED
    BY <1>1, <1>2, <2>1, Induccion
<1> DEFINE h == [i \in Nat |-> IF i \in 0 .. BYTES - 1 THEN m[d + i] ELSE 0]
<1>4. h \in [Nat -> 0 .. VALORES - 1] /\ BYTES \in S
  <2>1. 0 \in 0 .. VALORES - 1
    BY PalabrasAssumption
  <2>2. h \in [Nat -> 0 .. VALORES - 1]
    BY <2>1
  <2>3. BYTES \in Nat
    BY PalabrasAssumption
  <2> HIDE DEF S
  <2>4. QED
    BY <1>3, <2>2, <2>3
<1>5. PICK v \in 0 .. potencia[BYTES] - 1 : Es(v, h, BYTES)
  BY <1>4
<1>6. \A i \in 0 .. BYTES - 1 : h[i] = m[d + i]
  BY PalabrasAssumption
<1>7. v \in Palabras
  BY DEF Palabras, Modulo
<1>8. QED
  BY <1>5, <1>6, <1>7 DEF PalabrasEn
-----------------------------------------------------------------------------
(* The invariant. *)

Contenido == [Registros -> Nat]
Pasos     == {"libre", "ciclo", "respuesta", "actualizar", "controlar", "desalojar", "liberar"}

Tipos ==
  /\ registros \in [Hilos -> Contenido]
  /\ espacio \in [0 .. TAM_MEMORIA - 1 -> 0 .. VALORES - 1]
  /\ contexto \in [hilo : Hilos \cup {Nadie}, r : Contenido]
  /\ paso \in Pasos
  /\ hayExit \in BOOLEAN /\ ocupada \in BOOLEAN /\ interruptFlag \in BOOLEAN
  /\ pedido \in Hilos \cup {Nadie} /\ terminados \subseteq Hilos
  /\ paso # "libre" => contexto.hilo \in Hilos

\* A thread on its way to the CPU did not end, and has left it but for the end of its
\* cycle.  A thread in the CPU has not ended before this cycle.
UnaVez ==
  /\ pedido # Nadie => pedido \notin terminados
  /\ pedido # Nadie /\ contexto.hilo = pedido => paso \in {"libre", "liberar"}
  /\ paso \notin {"libre", "liberar"} => contexto.hilo \notin terminados
  /\ paso \in {"libre", "ciclo", "respuesta"} => ~hayExit
  /\ paso = "liberar" /\ hayExit => contexto.hilo \in terminados

\* Each way out of the loop has the context saved before the next thread comes in.
Guardado == registros[contexto.hilo] = contexto.r

SeGuarda ==
  /\ paso \in {"libre", "ciclo", "respuesta"} => ~ocupada
  /\ paso \in {"respuesta", "actualizar"} => instruccion \in Llamadas
  /\ paso \in {"controlar", "desalojar"} =>
       /\ hayExit \/ instruccion \in Llamadas => Guardado
       /\ ocupada => instruccion \in Llamadas
  /\ paso = "desalojar" => hayExit \/ interruptFlag \/ instruccion \in Llamadas
  /\ paso = "liberar" => Guardado

CInv == Tipos /\ UnaVez /\ SeGuarda

\* The two accesses in which the code is not the machine of the program: one that
\* starts inside of the partition and ends outside of it, which MMU lets through, and
\* the reading of a word of all ones, which is taken for the -1 of solicitar_memoria.
AccesosEnteros ==
  Busca({"READ_MEM", "WRITE_MEM"}) => \A a \in MMU(DirLogica) :
    /\ a + BYTES - 1 <= Limite[Proceso[contexto.hilo]]
    /\ Actual.op = "READ_MEM" => Palabra(a) # MenosUno
USE PalabrasAssumption, CpuAssumption

Instruccion == [op : Operaciones, r : Registros, s : Registros, n : Nat]

\* The instruction of the thread and its registers, PC already on the next one.
LEMMA ActualTipo ==
  ASSUME Tipos, NEW ops, Busca(ops)
  PROVE  /\ paso = "ciclo" /\ Actual \in Instruccion /\ Actual.op \in ops
         /\ contexto.hilo \in Hilos /\ contexto.r \in Contenido
         /\ PC \in Nat /\ Siguiente(contexto.r) \in Contenido
         /\ Actual = Programa[contexto.hilo][contexto.r["PC"] + 1]
<1>1. paso = "ciclo" /\ PC <= MaximoPC /\ Actual.op \in ops
  BY DEF Busca
<1>2. contexto.hilo \in Hilos /\ contexto.r \in Contenido
  BY <1>1 DEF Tipos
<1>3. PC \in Nat
  BY <1>2 DEF PC, Contenido, Registros
<1>4. Programa[contexto.hilo] \in Seq(Instruccion)
  BY <1>2, ProgramaAssumption DEF Instruccion
<1>5. PC + 1 \in 1 .. Len(Programa[contexto.hilo])
  <2>1. Len(Programa[contexto.hilo]) \in Nat
    BY <1>4
  <2>2. QED
    BY <1>1, <1>3, <2>1 DEF MaximoPC
<1>6. Actual \in Instruccion
  BY <1>4, <1>5 DEF Actual
<1>7. Siguiente(contexto.r) \in Contenido
  BY <1>2 DEF Siguiente, Contenido, Registros
<1>8. QED
  BY <1>1, <1>2, <1>3, <1>6, <1>7 DEF Actual, PC

\* Arithmetic of the registers stays in words.
LEMMA EnModulo ==
  ASSUME NEW v \in Int
  PROVE  v % Modulo \in Nat /\ v % Modulo \in Palabras
<1>1. Modulo \in Nat \ {0}
  BY ModuloNatural
<1>2. v % Modulo \in 0 .. Modulo - 1
  BY <1>1
<1>3. QED
  BY <1>1, <1>2, ModuloNatural

LEMMA CalculadoTipo ==
  ASSUME Tipos, Busca(Calculos)
  PROVE  Calculado \in Contenido
<1> DEFINE x == Actual
           R == Siguiente(contexto.r)
<1>1. x \in Instruccion /\ R \in Contenido
  BY ActualTipo
<1> HIDE DEF x, R
<1>2. x.r \in Registros /\ x.s \in Registros /\ x.n \in Nat /\ "PC" \in Registros
  BY <1>1 DEF Instruccion, Registros
<1>3. R[x.r] \in Nat /\ R[x.s] \in Nat
  BY <1>1, <1>2 DEF Contenido
<1>4. \A q \in Registros, v \in Nat : [R EXCEPT ![q] = v] \in Contenido
  BY <1>1 DEF Contenido
<1>5. /\ [R EXCEPT ![x.r] = x.n % Modulo] \in Contenido
      /\ [R EXCEPT ![x.r] = (R[x.r] + R[x.s]) % Modulo] \in Contenido
      /\ [R EXCEPT ![x.r] = (R[x.r] - R[x.s]) % Modulo] \in Contenido
      /\ [R EXCEPT !["PC"] = x.n] \in Contenido
  <2>1. x.n % Modulo \in Nat /\ (R[x.r] + R[x.s]) % Modulo \in Nat /\ (R[x.r] - R[x.s]) % Modulo \in Nat
    <3>1. x.n \in Int /\ R[x.r] + R[x.s] \in Int /\ R[x.r] - R[x.s] \in Int
      BY <1>2, <1>3
    <3>2. QED
      BY <3>1, EnModulo
  <2>2. QED
    BY <1>2, <1>4, <2>1
<1>6. Calculado \in {R, [R EXCEPT ![x.r] = x.n % Modulo], [R EXCEPT ![x.r] = (R[x.r] + R[x.s]) % Modulo],
                     [R EXCEPT ![x.r] = (R[x.r] - R[x.s]) % Modulo], [R EXCEPT !["PC"] = x.n]}
  BY Zenon DEF Calculado, x, R
<1>7. QED
  BY <1>1, <1>5, <1>6

\* MMU: the physical address of an address of the thread, in its partition and in
\* user memory.
LEMMA DireccionTipo ==
  ASSUME Tipos, Busca({"READ_MEM", "WRITE_MEM"})
  PROVE  /\ DirLogica \in Nat /\ Proceso[contexto.hilo] \in Pids
         /\ \A a \in MMU(DirLogica) : a = Base[Proceso[contexto.hilo]] + DirLogica /\ a \in Nat
<1>1. DirLogica \in Nat
  <2>1. Actual.r \in Registros /\ Actual.s \in Registros /\ Siguiente(contexto.r) \in Contenido
    BY ActualTipo DEF Instruccion
  <2>2. QED
    BY <2>1 DEF DirLogica, Contenido
<1>2. Proceso[contexto.hilo] \in Pids
  BY ActualTipo
<1>3. QED
  BY <1>1, <1>2 DEF MMU

\* The word that is read.
LEMMA PalabraTipo ==
  ASSUME Tipos, NEW a \in Nat, EnEspacio(a)
  PROVE  Palabra(a) \in PalabrasEn(espacio, a) /\ Palabra(a) \in Palabras /\ Palabra(a) \in Nat
<1>1. \A i \in 0 .. BYTES - 1 : a + i \in 0 .. TAM_MEMORIA - 1
  BY DEF EnEspacio
<1>2. \A i \in 0 .. BYTES - 1 : espacio[a + i] \in 0 .. VALORES - 1
  BY <1>1 DEF Tipos
<1>3. PalabrasEn(espacio, a) # {}
  BY <1>2, HayPalabra
<1>4. Palabra(a) \in PalabrasEn(espacio, a)
  BY <1>3 DEF Palabra
<1>5. QED
  BY <1>4, ModuloNatural DEF PalabrasEn

LEMMA ByteTipo ==
  ASSUME NEW v \in Nat, NEW i \in Nat
  PROVE  Byte(v, i) \in 0 .. VALORES - 1
<1>1. potencia[i] \in Nat \ {0}
  BY Potencias
<1>2. v \div potencia[i] \in Nat
  BY <1>1, DivisionEntera
<1>3. QED
  BY <1>2, DivisionEntera DEF Byte
LEMMA InicioCInv == Init => CInv
<1> SUFFICES ASSUME Init PROVE CInv
  OBVIOUS
<1>1. Tipos
  <2>1. [r \in Registros |-> 0] \in Contenido
    BY DEF Contenido
  <2>2. 0 \in 0 .. VALORES - 1
    OBVIOUS
  <2>3. QED
    BY <2>1, <2>2 DEF Init, Tipos, Pasos
<1>2. QED
  BY <1>1 DEF Init, CInv, UnaVez, SeGuarda

\* The steps of the kernel and of the interrupt connection.
LEMMA FueraCInv ==
  ASSUME CInv, \/ \E h \in Hilos : Ejecutar(h) \/ Interrumpir(h)
               \/ CompararInterrupcion \/ MarcarInterrupcion \/ UNCHANGED vars
  PROVE  CInv'
<1>1. ASSUME NEW h \in Hilos, Ejecutar(h) PROVE CInv'
  <2>1. UNCHANGED <<registros, espacio, contexto, paso, instruccion, hayExit, ocupada, terminados, interruptFlag>>
        /\ pedido' = h /\ h \notin terminados /\ (contexto.hilo = h => paso \in {"libre", "liberar"})
    BY <1>1 DEF Ejecutar, memoria, cpu, interrupciones
  <2>2. Tipos'
    BY <2>1 DEF CInv, Tipos
  <2>3. UnaVez'
    BY <2>1 DEF CInv, UnaVez
  <2>4. SeGuarda'
    BY <2>1 DEF CInv, SeGuarda, Guardado
  <2>5. QED
    BY <2>2, <2>3, <2>4 DEF CInv
<1>2. ASSUME UNCHANGED <<memoria, cpu, kernel>>, interruptFlag' \in {TRUE, interruptFlag} PROVE CInv'
  <2>1. UNCHANGED <<registros, espacio, contexto, paso, instruccion, hayExit, ocupada, pedido, terminados>>
    BY <1>2 DEF memoria, cpu, kernel
  <2>2. Tipos'
    BY <1>2, <2>1 DEF CInv, Tipos
  <2>3. UnaVez'
    BY <2>1 DEF CInv, UnaVez
  <2>4. SeGuarda'
    BY <1>2, <2>1 DEF CInv, SeGuarda, Guardado
  <2>5. QED
    BY <2>2, <2>3, <2>4 DEF CInv
<1>3. ASSUME NEW h \in Hilos, Interrumpir(h) PROVE CInv'
  BY <1>2, <1>3 DEF Interrumpir
<1>4. CASE CompararInterrupcion
  BY <1>2, <1>4 DEF CompararInterrupcion
<1>5. CASE MarcarInterrupcion
  BY <1>2, <1>5 DEF MarcarInterrupcion
<1>6. CASE UNCHANGED vars
  BY <1>2, <1>6 DEF vars, interrupciones
<1>7. QED
  BY <1>1, <1>3, <1>4, <1>5, <1>6

\* The next thread comes in when the previous one has its registers in Memoria.
LEMMA AtenderCInv ==
  ASSUME CInv, AtenderHilo
  PROVE  CInv'
<1>1. /\ pedido \in Hilos /\ paso = "libre" /\ paso' = "ciclo" /\ pedido' = Nadie
      /\ contexto' = [hilo |-> pedido, r |-> registros[pedido]]
      /\ UNCHANGED <<registros, espacio, instruccion, hayExit, ocupada, terminados, interruptFlag>>
  BY DEF AtenderHilo, CpuLibre, ContextoDe, memoria, interrupciones, CInv, Tipos
<1>2. Tipos'
  BY <1>1 DEF CInv, Tipos, Pasos
<1>3. UnaVez'
  BY <1>1 DEF CInv, UnaVez
<1>4. SeGuarda'
  BY <1>1 DEF CInv, SeGuarda
<1>5. QED
  BY <1>2, <1>3, <1>4 DEF CInv

\* The instructions that only compute, read or write.
LEMMA InstruccionCInv ==
  ASSUME CInv, Busca(Calculos) \/ Busca({"READ_MEM", "WRITE_MEM"}),
         NEW r \in Contenido, contexto' = [contexto EXCEPT !.r = r],
         instruccion' = Actual.op, paso' = "controlar",
         \/ UNCHANGED <<registros, hayExit>>
         \/ registros' = [registros EXCEPT ![contexto.hilo] = r] /\ hayExit' = TRUE,
         espacio' \in [0 .. TAM_MEMORIA - 1 -> 0 .. VALORES - 1],
         UNCHANGED <<ocupada, kernel, interrupciones>>
  PROVE  CInv'
<1>1. /\ paso = "ciclo" /\ Actual.op \notin Llamadas /\ contexto.hilo \in Hilos
      /\ contexto \in [hilo : Hilos \cup {Nadie}, r : Contenido]
      /\ registros \in [Hilos -> Contenido]
  <2>1. Tipos
    BY DEF CInv
  <2>2. ASSUME Busca(Calculos) PROVE paso = "ciclo" /\ Actual.op \notin Llamadas
    <3>1. paso = "ciclo" /\ Actual.op \in Calculos
      BY <2>1, <2>2, ActualTipo
    <3>2. QED
      BY <3>1 DEF Calculos, Llamadas
  <2>3. ASSUME Busca({"READ_MEM", "WRITE_MEM"}) PROVE paso = "ciclo" /\ Actual.op \notin Llamadas
    <3>1. paso = "ciclo" /\ Actual.op \in {"READ_MEM", "WRITE_MEM"}
      BY <2>1, <2>3, ActualTipo
    <3>2. QED
      BY <3>1 DEF Llamadas
  <2>4. QED
    BY <2>1, <2>2, <2>3 DEF Tipos
<1>2. /\ UNCHANGED <<ocupada, pedido, terminados, interruptFlag>> /\ ~ocupada /\ ~hayExit
      /\ hayExit' \in BOOLEAN
  BY <1>1 DEF kernel, interrupciones, CInv, SeGuarda, UnaVez, Tipos
<1>3. contexto'.hilo = contexto.hilo /\ contexto'.r = r /\ contexto' \in [hilo : Hilos \cup {Nadie}, r : Contenido]
  BY <1>1
<1>4. registros' \in [Hilos -> Contenido] /\ (hayExit' => registros'[contexto.hilo] = r)
  <2>1. CASE UNCHANGED <<registros, hayExit>>
    BY <1>1, <1>2, <2>1
  <2>2. CASE registros' = [registros EXCEPT ![contexto.hilo] = r] /\ hayExit' = TRUE
    BY <1>1, <2>2
  <2>3. QED
    BY <2>1, <2>2
<1>5. Tipos'
  BY <1>1, <1>2, <1>3, <1>4 DEF CInv, Tipos, Pasos
<1>6. UnaVez'
  BY <1>1, <1>2, <1>3 DEF CInv, UnaVez
<1>7. SeGuarda'
  BY <1>1, <1>2, <1>3, <1>4 DEF CInv, SeGuarda, Guardado
<1>8. QED
  BY <1>5, <1>6, <1>7 DEF CInv

\* What WRITE_MEM leaves in user memory.
LEMMA ConPalabraTipo ==
  ASSUME CInv, NEW a \in Nat, NEW v \in Nat
  PROVE  ConPalabra(a, v) \in [0 .. TAM_MEMORIA - 1 -> 0 .. VALORES - 1]
<1>1. espacio \in [0 .. TAM_MEMORIA - 1 -> 0 .. VALORES - 1]
  BY DEF CInv, Tipos
<1>2. \A b \in a .. a + BYTES - 1 : Byte(v, b - a) \in 0 .. VALORES - 1
  <2>1. \A b \in a .. a + BYTES - 1 : b - a \in Nat
    OBVIOUS
  <2>2. QED
    BY <2>1, ByteTipo
<1>3. QED
  BY <1>1, <1>2 DEF ConPalabra, Byte
LEMMA AccesosCInv ==
  ASSUME CInv, Calcular \/ SegmentationFault \/ LeerMemoria \/ EscribirMemoria
  PROVE  CInv'
<1> DEFINE S == Siguiente(contexto.r)
<1>0. Tipos /\ contexto \in [hilo : Hilos \cup {Nadie}, r : Contenido]
  BY DEF CInv, Tipos
<1>1. CASE Calcular
  <2>1. Calculado \in Contenido /\ UNCHANGED <<registros, hayExit>> /\ espacio' = espacio
    BY <1>0, <1>1, CalculadoTipo DEF Calcular, memoria
  <2>2. QED
    BY <1>0, <1>1, <2>1, InstruccionCInv DEF Calcular, Tipos
<1>2. CASE SegmentationFault
  <2>1. S \in Contenido /\ contexto' = [contexto EXCEPT !.r = S] /\ contexto'.r = S
    BY <1>0, <1>2, ActualTipo DEF SegmentationFault
  <2>2. registros' = [registros EXCEPT ![contexto.hilo] = S] /\ hayExit' = TRUE /\ espacio' = espacio
    BY <1>2, <2>1 DEF SegmentationFault
  <2> HIDE DEF S
  <2>3. /\ Busca({"READ_MEM", "WRITE_MEM"}) /\ instruccion' = Actual.op /\ paso' = "controlar"
        /\ UNCHANGED <<ocupada, kernel, interrupciones>>
    BY <1>2 DEF SegmentationFault
  <2>4. espacio' \in [0 .. TAM_MEMORIA - 1 -> 0 .. VALORES - 1]
    BY <1>0, <2>2 DEF Tipos
  <2>5. PICK r \in Contenido : r = S
    BY <2>1
  <2>6. /\ contexto' = [contexto EXCEPT !.r = r]
        /\ registros' = [registros EXCEPT ![contexto.hilo] = r] /\ hayExit' = TRUE
    BY ONLY <2>1, <2>2, <2>5
  <2>7. QED
    BY ONLY CInv, <2>3, <2>4, <2>6, InstruccionCInv
<1>3. CASE LeerMemoria
  <2>1. PICK a \in MMU(DirLogica) :
          EnEspacio(a) /\ contexto' = [contexto EXCEPT !.r = [S EXCEPT ![Actual.r] = Palabra(a)]]
    BY <1>3 DEF LeerMemoria
  <2>2. Busca({"READ_MEM"}) /\ Busca({"READ_MEM", "WRITE_MEM"})
    BY <1>3 DEF LeerMemoria, Busca
  <2>3. Palabra(a) \in Nat
    BY <1>0, <2>1, <2>2, DireccionTipo, PalabraTipo
  <2>4. [S EXCEPT ![Actual.r] = Palabra(a)] \in Contenido
    BY <1>0, <2>2, <2>3, ActualTipo DEF Contenido
  <2>5. UNCHANGED <<registros, hayExit>> /\ espacio' = espacio
    BY <1>3 DEF LeerMemoria, memoria
  <2> HIDE DEF S
  <2>6. QED
    BY <1>0, <1>3, <2>1, <2>2, <2>4, <2>5, InstruccionCInv DEF LeerMemoria, Tipos
<1>4. CASE EscribirMemoria
  <2>1. S \in Contenido /\ contexto' = [contexto EXCEPT !.r = S] /\ contexto'.r = S
    BY <1>0, <1>4, ActualTipo DEF EscribirMemoria
  <2>2. Busca({"WRITE_MEM"}) /\ Busca({"READ_MEM", "WRITE_MEM"})
    BY <1>4 DEF EscribirMemoria, Busca
  <2>3. PICK a \in MMU(DirLogica) : EnEspacio(a) /\ espacio' = ConPalabra(a, S[Actual.s])
    BY <1>4, <2>1 DEF EscribirMemoria
  <2>4. a \in Nat /\ S[Actual.s] \in Nat
    <3>1. Actual.s \in Registros
      BY <1>0, <2>2, ActualTipo DEF Instruccion
    <3>2. QED
      BY <1>0, <2>1, <2>2, <2>3, <3>1, DireccionTipo DEF Contenido
  <2>5. espacio' \in [0 .. TAM_MEMORIA - 1 -> 0 .. VALORES - 1] /\ UNCHANGED <<registros, hayExit>>
    BY <1>4, <2>3, <2>4, ConPalabraTipo DEF EscribirMemoria
  <2> HIDE DEF S
  <2>6. QED
    BY <1>0, <1>4, <2>1, <2>2, <2>5, InstruccionCInv DEF EscribirMemoria
<1>5. QED
  BY <1>1, <1>2, <1>3, <1>4

LEMMA LlamarCInv ==
  ASSUME CInv, Llamar
  PROVE  CInv'
<1>1. /\ paso = "ciclo" /\ contexto.hilo \in Hilos /\ Actual.op \in Llamadas
      /\ contexto' = [contexto EXCEPT !.r = Siguiente(contexto.r)] /\ Siguiente(contexto.r) \in Contenido
  BY ActualTipo DEF CInv, Llamar
<1>2. /\ instruccion' = Actual.op /\ hayExit' = (Actual.op \in Terminan)
      /\ paso' = IF Actual.op \in Bloquean \cup Terminan THEN "actualizar" ELSE "respuesta"
      /\ UNCHANGED <<registros, espacio, ocupada, pedido, terminados, interruptFlag>>
  BY DEF Llamar, memoria, interrupciones
<1>3. contexto'.hilo = contexto.hilo /\ contexto' \in [hilo : Hilos \cup {Nadie}, r : Contenido]
  BY <1>1 DEF CInv, Tipos
<1>4. paso' \in {"actualizar", "respuesta"} /\ (paso' = "respuesta" => ~hayExit') /\ hayExit' \in BOOLEAN
  <2>1. hayExit' <=> Actual.op \in Terminan
    BY <1>2, Zenon
  <2>2. hayExit' \in BOOLEAN
    <3>1. (Actual.op \in Terminan) \in BOOLEAN
      OBVIOUS
    <3>2. QED
      BY <1>2, <3>1, Zenon
  <2>3. paso' \in {"actualizar", "respuesta"} /\ (paso' = "respuesta" => Actual.op \notin Terminan)
    BY <1>2
  <2>4. QED
    BY <2>1, <2>2, <2>3, Zenon
<1>5. Tipos'
  BY <1>1, <1>2, <1>3, <1>4 DEF CInv, Tipos, Pasos
<1>6. UnaVez'
  BY <1>1, <1>2, <1>3, <1>4 DEF CInv, UnaVez
<1>7. SeGuarda'
  BY <1>1, <1>2, <1>3, <1>4 DEF CInv, SeGuarda
<1>8. QED
  BY <1>5, <1>6, <1>7 DEF CInv

LEMMA RespuestaCInv ==
  ASSUME CInv, RecibirRespuesta
  PROVE  CInv'
<1>1. /\ paso = "respuesta" /\ paso' = "actualizar" /\ ~hayExit
      /\ UNCHANGED <<registros, espacio, contexto, instruccion, hayExit, pedido, terminados>>
      /\ ocupada' \in BOOLEAN /\ interruptFlag' \in BOOLEAN
  <2>1. ocupada' \in BOOLEAN /\ interruptFlag' \in BOOLEAN
    BY DEF RecibirRespuesta, CInv, Tipos
  <2>2. QED
    BY <2>1 DEF RecibirRespuesta, memoria, CInv, UnaVez
<1>2. Tipos'
  BY <1>1 DEF CInv, Tipos, Pasos
<1>3. UnaVez'
  BY <1>1 DEF CInv, UnaVez
<1>4. SeGuarda'
  BY <1>1 DEF CInv, SeGuarda
<1>5. QED
  BY <1>2, <1>3, <1>4 DEF CInv

LEMMA ActualizarCInv ==
  ASSUME CInv, ActualizarContexto
  PROVE  CInv'
<1>1. /\ paso = "actualizar" /\ paso' = "controlar" /\ instruccion \in Llamadas /\ contexto.hilo \in Hilos
      /\ registros' = [registros EXCEPT ![contexto.hilo] = contexto.r]
      /\ UNCHANGED <<espacio, contexto, instruccion, hayExit, ocupada, pedido, terminados, interruptFlag>>
  BY DEF ActualizarContexto, Guardar, kernel, interrupciones, CInv, SeGuarda, Tipos
<1>2. registros' \in [Hilos -> Contenido] /\ Guardado'
  BY <1>1 DEF Guardado, CInv, Tipos
<1>3. Tipos'
  BY <1>1, <1>2 DEF CInv, Tipos, Pasos
<1>4. UnaVez'
  BY <1>1 DEF CInv, UnaVez
<1>5. SeGuarda'
  BY <1>1, <1>2 DEF CInv, SeGuarda
<1>6. QED
  BY <1>3, <1>4, <1>5 DEF CInv

LEMMA ControlarCInv ==
  ASSUME CInv, Controlar
  PROVE  CInv'
<1>1. /\ paso = "controlar" /\ paso' = IF Sale THEN "desalojar" ELSE "ciclo"
      /\ UNCHANGED <<registros, espacio, contexto, instruccion, hayExit, ocupada, pedido, terminados, interruptFlag>>
  BY DEF Controlar, memoria, kernel, interrupciones
<1>2. Sale <=> (hayExit \/ ocupada \/ instruccion \in Bloquean \/ interruptFlag)
  BY DEF Sale
<1>3. Bloquean \subseteq Llamadas
  BY DEF Bloquean, Llamadas
<1>4. Tipos'
  BY <1>1 DEF CInv, Tipos, Pasos
<1>5. UnaVez'
  BY <1>1, <1>2 DEF CInv, UnaVez
<1>6. SeGuarda'
  BY <1>1, <1>2, <1>3 DEF CInv, SeGuarda, Guardado
<1>7. QED
  BY <1>4, <1>5, <1>6 DEF CInv

LEMMA DesalojarCInv ==
  ASSUME CInv, Desalojar
  PROVE  CInv' /\ Guardado' /\ (UNCHANGED registros \/ registros' = [registros EXCEPT ![contexto.hilo] = contexto.r])
<1>1. /\ paso = "desalojar" /\ paso' = "liberar" /\ contexto.hilo \in Hilos
      /\ UNCHANGED <<espacio, contexto, instruccion, hayExit, ocupada, pedido, interruptFlag>>
      /\ terminados' = IF hayExit THEN terminados \cup {contexto.hilo} ELSE terminados
  <2>1. terminados' = IF hayExit THEN terminados \cup {contexto.hilo} ELSE terminados
    BY DEF Desalojar
  <2>2. QED
    BY <2>1 DEF Desalojar, interrupciones, CInv, Tipos
<1>2. registros \in [Hilos -> Contenido] /\ contexto.r \in Contenido
  BY DEF CInv, Tipos
<1>3. registros' = [registros EXCEPT ![contexto.hilo] = contexto.r] \/ (UNCHANGED registros /\ Guardado)
  <2>1. (hayExit \/ instruccion \in Llamadas => Guardado) /\ (hayExit \/ interruptFlag \/ instruccion \in Llamadas)
    BY <1>1 DEF CInv, SeGuarda
  <2>2. CASE hayExit
    BY <2>1, <2>2 DEF Desalojar
  <2>3. CASE ~hayExit /\ interruptFlag
    BY <2>1, <2>3 DEF Desalojar, GuardarSiHaceFalta, Guardar
  <2>4. CASE ~hayExit /\ ~interruptFlag
    BY <2>1, <2>4 DEF Desalojar
  <2>5. QED
    BY <2>2, <2>3, <2>4
<1>4. registros' \in [Hilos -> Contenido] /\ Guardado'
  BY <1>1, <1>2, <1>3 DEF Guardado
<1>5. Tipos'
  BY <1>1, <1>4 DEF CInv, Tipos, Pasos
<1>6. UnaVez'
  BY <1>1 DEF CInv, UnaVez
<1>7. SeGuarda'
  BY <1>1, <1>4 DEF CInv, SeGuarda
<1>8. QED
  BY <1>3, <1>4, <1>5, <1>6, <1>7 DEF CInv

LEMMA LiberarCInv ==
  ASSUME CInv, Liberar
  PROVE  CInv'
<1>1. /\ paso = "liberar" /\ paso' = "libre" /\ ~hayExit' /\ ~ocupada' /\ ~interruptFlag'
      /\ hayExit' \in BOOLEAN /\ ocupada' \in BOOLEAN /\ interruptFlag' \in BOOLEAN
      /\ UNCHANGED <<registros, espacio, contexto, instruccion, pedido, terminados>>
  BY DEF Liberar, memoria, kernel
<1>2. Tipos'
  BY <1>1 DEF CInv, Tipos, Pasos
<1>3. UnaVez'
  BY <1>1 DEF CInv, UnaVez
<1>4. SeGuarda'
  BY <1>1 DEF CInv, SeGuarda
<1>5. QED
  BY <1>2, <1>3, <1>4 DEF CInv

LEMMA PasoCInv == CInv /\ [Next]_vars => CInv'
<1> SUFFICES ASSUME CInv, [Next]_vars PROVE CInv'
  OBVIOUS
<1>1. CASE Ciclo
  BY <1>1, AtenderCInv, AccesosCInv, LlamarCInv, RespuestaCInv, ActualizarCInv, ControlarCInv,
     DesalojarCInv, LiberarCInv DEF Ciclo
<1>2. CASE UNCHANGED vars
  BY <1>2, FueraCInv
<1>3. CASE Next /\ ~Ciclo
  BY <1>3, FueraCInv DEF Next
<1>4. QED
  BY <1>1, <1>2, <1>3

LEMMA CInvSiempre == Spec => []CInv
  BY InicioCInv, PasoCInv, PTL DEF Spec
-----------------------------------------------------------------------------
(* The refinement: what Maquina sees of a state of Cpu. *)

Reg == [h \in Hilos |-> RegistrosDe(h)]
Mem == [p \in Pids |-> [d \in 0 .. Limite[p] - Base[p] |-> espacio[Base[p] + d]]]
Ter == {h \in Hilos : Terminado(h)}
vista == <<Reg, Mem, Ter>>

LEMMA VistaDeMaquina == UNCHANGED vista => UNCHANGED Maq!vars
  BY Zenon DEF vista, Reg, Mem, Ter, Maq!vars

LEMMA InicioMaquina == Init => Maq!Init
<1> SUFFICES ASSUME Init PROVE Maq!Init
  OBVIOUS
<1>1. Reg = [h \in Hilos |-> [r \in Registros |-> 0]]
  BY DEF Init, Reg, RegistrosDe, EnCpu
<1>2. Mem = [p \in Pids |-> [d \in 0 .. Tamanios[p] - 1 |-> 0]]
  <2>1. ASSUME NEW p \in Pids
        PROVE  /\ 0 .. Tamanios[p] - 1 = 0 .. Limite[p] - Base[p]
               /\ \A d \in 0 .. Limite[p] - Base[p] : Base[p] + d \in 0 .. TAM_MEMORIA - 1
    BY DEF Tamanios
  <2>2. ASSUME NEW p \in Pids, NEW d \in 0 .. Limite[p] - Base[p] PROVE espacio[Base[p] + d] = 0
    BY <2>1 DEF Init
  <2>3. QED
    BY <2>1, <2>2, Zenon DEF Mem
<1>3. Ter = {}
  BY DEF Init, Ter, Terminado
<1>4. QED
  BY <1>1, <1>2, <1>3, Zenon DEF Maq!Init, Reg, Mem, Ter, Registros, Maq!Registros

\* The steps in which no instruction is executed are not seen.
LEMMA PasosInvisibles ==
  ASSUME CInv, [Next]_vars, ~Calcular, ~SegmentationFault, ~LeerMemoria, ~EscribirMemoria, ~Llamar
  PROVE  UNCHANGED vista
<1>1. ASSUME espacio' = espacio, \A h \in Hilos : RegistrosDe(h)' = RegistrosDe(h),
             \A h \in Hilos : Terminado(h)' <=> Terminado(h)
      PROVE  UNCHANGED vista
  <2>1. Reg' = Reg
    BY <1>1, Zenon DEF Reg
  <2>2. Mem' = Mem
    BY <1>1, Zenon DEF Mem
  <2>3. Ter' = Ter
    BY <1>1, Zenon DEF Ter
  <2>4. QED
    BY <2>1, <2>2, <2>3 DEF vista
<1>2. ASSUME UNCHANGED <<registros, espacio, contexto, paso, hayExit, terminados>>
      PROVE  UNCHANGED vista
  BY <1>1, <1>2 DEF RegistrosDe, Terminado, EnCpu
<1>3. CASE AtenderHilo
  <2>1. /\ pedido \in Hilos /\ paso = "libre" /\ paso' = "ciclo"
        /\ contexto' = [hilo |-> pedido, r |-> registros[pedido]] /\ ~hayExit
        /\ UNCHANGED <<registros, espacio, hayExit, terminados>>
    BY <1>3 DEF AtenderHilo, CpuLibre, ContextoDe, memoria, CInv, Tipos, UnaVez
  <2>2. ASSUME NEW h \in Hilos
        PROVE  RegistrosDe(h)' = RegistrosDe(h) /\ (Terminado(h)' <=> Terminado(h))
    BY <2>1 DEF RegistrosDe, Terminado, EnCpu
  <2>3. QED
    BY <1>1, <2>1, <2>2
<1>4. CASE RecibirRespuesta \/ Controlar
  <2>1. UNCHANGED <<registros, espacio, contexto, hayExit, terminados>> /\ paso # "libre" /\ paso' # "libre"
    BY <1>4 DEF RecibirRespuesta, Controlar, memoria, kernel
  <2>2. ASSUME NEW h \in Hilos
        PROVE  RegistrosDe(h)' = RegistrosDe(h) /\ (Terminado(h)' <=> Terminado(h))
    BY <2>1 DEF RegistrosDe, Terminado, EnCpu
  <2>3. QED
    BY <1>1, <2>1, <2>2
<1>5. CASE ActualizarContexto \/ Desalojar
  <2>1. /\ UNCHANGED <<espacio, contexto, hayExit>> /\ paso # "libre" /\ paso' # "libre"
        /\ UNCHANGED registros \/ registros' = [registros EXCEPT ![contexto.hilo] = contexto.r]
        /\ terminados' = terminados \/ (hayExit /\ terminados' = terminados \cup {contexto.hilo})
    <3>1. CASE ActualizarContexto
      BY <3>1 DEF ActualizarContexto, Guardar, kernel
    <3>2. CASE Desalojar
      BY <3>2, DesalojarCInv DEF Desalojar
    <3>3. QED
      BY <1>5, <3>1, <3>2
  <2>2. registros \in [Hilos -> Contenido]
    BY DEF CInv, Tipos
  <2>3. ASSUME NEW h \in Hilos PROVE RegistrosDe(h)' = RegistrosDe(h)
    BY <2>1, <2>2 DEF RegistrosDe, EnCpu
  <2>4. ASSUME NEW h \in Hilos PROVE Terminado(h)' <=> Terminado(h)
    BY <2>1 DEF Terminado, EnCpu
  <2>5. QED
    BY <1>1, <2>1, <2>3, <2>4
<1>6. CASE Liberar
  <2>1. /\ paso = "liberar" /\ paso' = "libre" /\ ~hayExit' /\ Guardado
        /\ (hayExit => contexto.hilo \in terminados)
        /\ UNCHANGED <<registros, espacio, contexto, terminados>>
    BY <1>6 DEF Liberar, memoria, kernel, CInv, SeGuarda, UnaVez
  <2>2. ASSUME NEW h \in Hilos PROVE RegistrosDe(h)' = RegistrosDe(h)
    BY <2>1 DEF RegistrosDe, EnCpu, Guardado
  <2>3. ASSUME NEW h \in Hilos PROVE Terminado(h)' <=> Terminado(h)
    BY <2>1 DEF Terminado, EnCpu
  <2>4. QED
    BY <1>1, <2>1, <2>2, <2>3
<1>7. CASE \E h \in Hilos : Ejecutar(h) \/ Interrumpir(h)
  BY <1>2, <1>7 DEF Ejecutar, Interrumpir, memoria, cpu, kernel
<1>8. CASE CompararInterrupcion \/ MarcarInterrupcion \/ UNCHANGED vars
  BY <1>2, <1>8 DEF CompararInterrupcion, MarcarInterrupcion, vars, memoria, cpu, kernel
<1>9. QED
  BY <1>3, <1>4, <1>5, <1>6, <1>7, <1>8 DEF Next, Ciclo
\* The words of Maquina are those of Cpu.
LEMMA MismasPalabras ==
  /\ Maq!Modulo = Modulo /\ (\A v, i : Maq!Byte(v, i) = Byte(v, i))
  /\ \A m, d : Maq!PalabrasEn(m, d) = PalabrasEn(m, d)
<1>1. Maq!potencia = potencia
  BY Zenon DEF Maq!potencia, potencia
<1>2. Maq!Modulo = Modulo
  BY <1>1, Zenon DEF Maq!Modulo, Modulo
<1>3. \A v, i : Maq!Byte(v, i) = Byte(v, i)
  BY <1>1, Zenon DEF Maq!Byte, Byte
<1>4. Maq!Palabras = Palabras
  BY <1>2, Zenon DEF Maq!Palabras, Palabras
<1>5. \A m, d : Maq!PalabrasEn(m, d) = PalabrasEn(m, d)
  <2>1. SUFFICES ASSUME NEW m, NEW d PROVE Maq!PalabrasEn(m, d) = PalabrasEn(m, d)
    BY Zenon
  <2>2. \A v : (v \in Maq!PalabrasEn(m, d)) <=> (v \in PalabrasEn(m, d))
    BY <1>3, <1>4, Zenon DEF Maq!PalabrasEn, PalabrasEn
  <2>3. \A x \in Maq!PalabrasEn(m, d) : x \in Maq!Palabras
    BY DEF Maq!PalabrasEn
  <2>4. \A x \in PalabrasEn(m, d) : x \in Palabras
    BY DEF PalabrasEn
  <2>5. QED
    BY <2>2, Zenon
<1>6. QED
  BY <1>2, <1>3, <1>5

\* The thread whose instruction is executed, as Maquina sees it.
LEMMA EnMaquina ==
  ASSUME CInv, NEW ops, Busca(ops)
  PROVE  /\ contexto.hilo \in Hilos /\ contexto.hilo \notin Ter
         /\ Reg \in [Hilos -> Contenido] /\ Reg[contexto.hilo] = contexto.r
         /\ Maq!Actual(contexto.hilo) = Actual
         /\ Maq!Operandos(contexto.hilo) = Siguiente(contexto.r)
<1> DEFINE h == contexto.hilo
<1>1. paso = "ciclo" /\ h \in Hilos /\ Actual = Programa[h][contexto.r["PC"] + 1]
  BY ActualTipo DEF CInv
<1>2. h \notin terminados /\ ~hayExit
  BY <1>1 DEF CInv, UnaVez
<1>3. h \notin Ter
  BY <1>2 DEF Ter, Terminado
<1>4. RegistrosDe(h) = contexto.r
  BY <1>1 DEF RegistrosDe, EnCpu
<1>5. \A g \in Hilos : RegistrosDe(g) \in Contenido
  BY DEF CInv, Tipos, RegistrosDe
<1>6. Reg \in [Hilos -> Contenido] /\ Reg[h] = contexto.r
  BY <1>1, <1>4, <1>5 DEF Reg
<1>7. Maq!Actual(h) = Actual
  BY <1>1, <1>6, Zenon DEF Maq!Actual, Reg
<1>8. Maq!Operandos(h) = Siguiente(contexto.r)
  <2>1. Maq!Operandos(h) = [Reg[h] EXCEPT !["PC"] = @ + 1]
    BY Zenon DEF Maq!Operandos, Reg
  <2>2. QED
    BY <1>6, <2>1 DEF Siguiente
<1>9. QED
  BY <1>1, <1>3, <1>6, <1>7, <1>8

\* What Maquina sees of an instruction executed.
LEMMA TrasInstruccion ==
  ASSUME CInv, NEW ops, Busca(ops), NEW r, contexto' = [contexto EXCEPT !.r = r],
         paso' # "libre", terminados' = terminados,
         UNCHANGED registros \/ registros' = [registros EXCEPT ![contexto.hilo] = r]
  PROVE  /\ Reg' = [Reg EXCEPT ![contexto.hilo] = r]
         /\ Ter' = IF hayExit' THEN Ter \cup {contexto.hilo} ELSE Ter
<1> DEFINE h == contexto.hilo
<1>1. /\ contexto \in [hilo : Hilos \cup {Nadie}, r : Contenido] /\ registros \in [Hilos -> Contenido]
      /\ paso = "ciclo" /\ h \in Hilos /\ ~hayExit
  <2>1. paso = "ciclo" /\ h \in Hilos
    BY ActualTipo DEF CInv
  <2>2. QED
    BY <2>1 DEF CInv, Tipos, UnaVez
<1>2. contexto'.hilo = h /\ contexto'.r = r
  BY <1>1
<1>3. RegistrosDe(h)' = r
  BY <1>2 DEF RegistrosDe, EnCpu
<1>4. ASSUME NEW g \in Hilos, g # h PROVE RegistrosDe(g)' = RegistrosDe(g)
  BY <1>1, <1>2, <1>4 DEF RegistrosDe, EnCpu
<1>5. Reg' = [Reg EXCEPT ![h] = r]
  <2>1. Reg = [g \in Hilos |-> RegistrosDe(g)] /\ Reg' = [g \in Hilos |-> RegistrosDe(g)']
    BY Zenon DEF Reg
  <2>2. [Reg EXCEPT ![h] = r] = [g \in Hilos |-> IF g = h THEN r ELSE RegistrosDe(g)]
    BY <2>1
  <2>3. \A g \in Hilos : RegistrosDe(g)' = IF g = h THEN r ELSE RegistrosDe(g)
    BY <1>3, <1>4
  <2>4. QED
    BY <2>1, <2>2, <2>3, Zenon
<1>6. ASSUME NEW g \in Hilos PROVE Terminado(g)' <=> (Terminado(g) \/ (g = h /\ hayExit'))
  BY <1>1, <1>2 DEF Terminado, EnCpu
<1>7. Ter' = IF hayExit' THEN Ter \cup {h} ELSE Ter
  <2>1. \A g : (g \in Ter') <=> (g \in Hilos /\ Terminado(g)')
    BY Zenon DEF Ter
  <2>2. \A g : (g \in Ter) <=> (g \in Hilos /\ Terminado(g))
    BY Zenon DEF Ter
  <2>3. CASE hayExit'
    <3>1. \A g : (g \in Ter') <=> (g \in Ter \cup {h})
      BY <1>1, <1>6, <2>1, <2>2, <2>3
    <3>2. QED
      BY <2>3, <3>1
  <2>4. CASE ~hayExit'
    <3>1. \A g : (g \in Ter') <=> (g \in Ter)
      BY <1>1, <1>6, <2>1, <2>2, <2>4
    <3>2. QED
      BY <2>4, <3>1
  <2>5. QED
    BY <2>3, <2>4
<1>8. QED
  BY <1>5, <1>7

\* Maquina writes a register, or only goes on.
LEMMA EscribeMaquina ==
  ASSUME CInv, NEW h \in Hilos, Reg \in [Hilos -> Contenido], NEW q \in Registros
  PROVE  /\ \A v : Reg' = [Reg EXCEPT ![h] = [Maq!Operandos(h) EXCEPT ![q] = v % Modulo]] => Maq!Escribe(h, q, v)
         /\ Reg' = [Reg EXCEPT ![h] = Maq!Operandos(h)] => Maq!Avanza(h)
<1>1. Maq!Operandos(h) = [Reg[h] EXCEPT !["PC"] = @ + 1] /\ Reg[h] \in Contenido
  BY Zenon DEF Maq!Operandos, Reg
<1>2. ASSUME NEW v, Reg' = [Reg EXCEPT ![h] = [Maq!Operandos(h) EXCEPT ![q] = v % Modulo]]
      PROVE  Maq!Escribe(h, q, v)
  <2>1. Reg' = [Reg EXCEPT ![h]["PC"] = @ + 1, ![h][q] = v % Modulo]
    BY <1>1, <1>2 DEF Contenido
  <2>2. QED
    BY <2>1, MismasPalabras, Zenon DEF Maq!Escribe, Reg
<1>3. ASSUME Reg' = [Reg EXCEPT ![h] = Maq!Operandos(h)] PROVE Maq!Avanza(h)
  <2>1. Reg' = [Reg EXCEPT ![h]["PC"] = @ + 1]
    BY <1>1, <1>3
  <2>2. QED
    BY <2>1, Zenon DEF Maq!Avanza, Reg
<1>4. QED
  BY <1>2, <1>3
\* Nothing of the memory changes.
LEMMA MismaMemoria == ASSUME espacio' = espacio PROVE Mem' = Mem
  BY Zenon DEF Mem

LEMMA CalcularEnMaquina ==
  ASSUME CInv, Calcular
  PROVE  Maq!Next
<1> DEFINE h == contexto.hilo
           x == Actual
           S == Siguiente(contexto.r)
<1>0. Busca(Calculos) /\ Calculos = {"SET", "SUM", "SUB", "JNZ", "LOG"}
  BY DEF Calcular, Calculos
<1>1. /\ h \in Hilos /\ h \notin Ter /\ Reg \in [Hilos -> Contenido]
      /\ Maq!Actual(h) = x /\ Maq!Operandos(h) = S
  BY <1>0, EnMaquina
<1>2. x.op \in {"SET", "SUM", "SUB", "JNZ", "LOG"} /\ x.r \in Registros
  BY <1>0, ActualTipo DEF Instruccion, CInv
<1>3. Reg' = [Reg EXCEPT ![h] = Calculado] /\ Ter' = Ter /\ Mem' = Mem
  <2>1. /\ contexto' = [contexto EXCEPT !.r = Calculado] /\ paso' # "libre" /\ terminados' = terminados
        /\ UNCHANGED registros /\ espacio' = espacio /\ hayExit' = hayExit /\ ~hayExit
    BY <1>0, ActualTipo DEF Calcular, memoria, kernel, CInv, UnaVez
  <2>2. QED
    BY <1>0, <2>1, TrasInstruccion, MismaMemoria
<1> HIDE DEF h, x, S
<1>4. /\ \A v : Reg' = [Reg EXCEPT ![h] = [S EXCEPT ![x.r] = v % Modulo]] => Maq!Escribe(h, x.r, v)
      /\ Reg' = [Reg EXCEPT ![h] = S] => Maq!Avanza(h)
  BY <1>1, <1>2, EscribeMaquina
<1>5. Maq!Calcula(h) \/ Maq!Sigue(h)
  <2>1. CASE x.op = "SET"
    <3>1. Calculado = [S EXCEPT ![x.r] = x.n % Modulo]
      BY <2>1 DEF Calculado, x, S
    <3>2. Maq!Escribe(h, x.r, x.n)
      BY <1>3, <1>4, <3>1
    <3>3. QED
      BY <1>1, <1>3, <2>1, <3>2, Zenon DEF Maq!Calcula, Mem, Ter
  <2>2. CASE x.op = "SUM"
    <3>1. Calculado = [S EXCEPT ![x.r] = (S[x.r] + S[x.s]) % Modulo]
      BY <2>2 DEF Calculado, x, S
    <3>2. Maq!Escribe(h, x.r, S[x.r] + S[x.s])
      BY <1>3, <1>4, <3>1
    <3>3. QED
      BY <1>1, <1>3, <2>2, <3>2, Zenon DEF Maq!Calcula, Mem, Ter
  <2>3. CASE x.op = "SUB"
    <3>1. Calculado = [S EXCEPT ![x.r] = (S[x.r] - S[x.s]) % Modulo]
      BY <2>3 DEF Calculado, x, S
    <3>2. Maq!Escribe(h, x.r, S[x.r] - S[x.s])
      BY <1>3, <1>4, <3>1
    <3>3. QED
      BY <1>1, <1>3, <2>3, <3>2, Zenon DEF Maq!Calcula, Mem, Ter
  <2>4. CASE x.op = "JNZ" /\ S[x.r] # 0
    <3>1. Calculado = [S EXCEPT !["PC"] = x.n]
      BY <2>4 DEF Calculado, x, S
    <3>2. S = [Reg[h] EXCEPT !["PC"] = @ + 1] /\ Reg[h] \in Contenido
      BY <1>1, Zenon DEF Maq!Operandos, Reg
    <3>3. Reg' = [Reg EXCEPT ![h]["PC"] = x.n]
      BY <1>1, <1>3, <3>1, <3>2 DEF Contenido
    <3>4. QED
      BY <1>1, <1>3, <2>4, <3>3, Zenon DEF Maq!Calcula, Reg, Mem, Ter
  <2>5. CASE x.op = "JNZ" /\ S[x.r] = 0
    <3>1. Calculado = S
      BY <2>5 DEF Calculado, x, S
    <3>2. Maq!Avanza(h)
      BY <1>3, <1>4, <3>1
    <3>3. QED
      BY <1>1, <1>3, <2>5, <3>2, Zenon DEF Maq!Calcula, Mem, Ter
  <2>6. CASE x.op = "LOG"
    <3>1. Calculado = S
      BY <2>6 DEF Calculado, x, S
    <3>2. Maq!Avanza(h)
      BY <1>3, <1>4, <3>1
    <3>3. x.op \notin {"SET", "SUM", "SUB", "JNZ", "READ_MEM", "WRITE_MEM", "THREAD_EXIT", "PROCESS_EXIT"}
      BY <2>6
    <3>4. QED
      BY <1>1, <1>3, <3>2, <3>3, Zenon DEF Maq!Sigue, Mem, Ter
  <2>7. QED
    BY <1>2, <2>1, <2>2, <2>3, <2>4, <2>5, <2>6
<1>6. QED
  BY <1>1, <1>5, Zenon DEF Maq!Next, Maq!Paso, Ter

LEMMA LlamarEnMaquina ==
  ASSUME CInv, Llamar
  PROVE  Maq!Next
<1> DEFINE h == contexto.hilo
           x == Actual
           S == Siguiente(contexto.r)
<1>0. Busca(Llamadas)
  BY DEF Llamar
<1>1. /\ h \in Hilos /\ h \notin Ter /\ Reg \in [Hilos -> Contenido]
      /\ Maq!Actual(h) = x /\ Maq!Operandos(h) = S
  BY <1>0, EnMaquina
<1>2. x.op \in Llamadas /\ x.r \in Registros
  BY <1>0, ActualTipo DEF Instruccion, CInv
<1>3. /\ Reg' = [Reg EXCEPT ![h] = S] /\ Mem' = Mem
      /\ Ter' = IF x.op \in Terminan THEN Ter \cup {h} ELSE Ter
  <2>1. /\ contexto' = [contexto EXCEPT !.r = S] /\ paso' # "libre" /\ terminados' = terminados
        /\ UNCHANGED registros /\ espacio' = espacio
    BY DEF Llamar, memoria
  <2>2. hayExit' <=> x.op \in Terminan
    BY Zenon DEF Llamar
  <2>3. Reg' = [Reg EXCEPT ![h] = S] /\ Ter' = IF hayExit' THEN Ter \cup {h} ELSE Ter
    BY <1>0, <2>1, TrasInstruccion
  <2>4. Mem' = Mem
    BY <2>1, MismaMemoria
  <2> HIDE DEF h, x, S
  <2>5. QED
    BY <2>2, <2>3, <2>4
<1> HIDE DEF h, x, S
<1>4. Maq!Avanza(h)
  BY <1>1, <1>2, <1>3, EscribeMaquina
<1>5. CASE x.op \in Terminan
  <2>1. x.op \in {"THREAD_EXIT", "PROCESS_EXIT"} /\ Ter' = Ter \cup {h}
    BY <1>3, <1>5 DEF Terminan
  <2>2. Maq!Fin(h)
    BY <1>1, <1>3, <1>4, <2>1, Zenon DEF Maq!Fin, Mem, Ter
  <2>3. QED
    BY <1>1, <2>2, Zenon DEF Maq!Next, Maq!Paso, Ter
<1>6. CASE x.op \notin Terminan
  <2>1. /\ x.op \notin {"SET", "SUM", "SUB", "JNZ", "READ_MEM", "WRITE_MEM", "THREAD_EXIT", "PROCESS_EXIT"}
        /\ Ter' = Ter
    BY <1>2, <1>3, <1>6 DEF Terminan, Llamadas
  <2>2. Maq!Sigue(h)
    BY <1>1, <1>3, <1>4, <2>1, Zenon DEF Maq!Sigue, Mem, Ter
  <2>3. QED
    BY <1>1, <2>2, Zenon DEF Maq!Next, Maq!Paso, Ter
<1>7. QED
  BY <1>5, <1>6
\* An address is inside of a process for Maquina.
LEMMA DentroDeMaquina ==
  ASSUME NEW p \in Pids, NEW d \in Nat
  PROVE  /\ Maq!Dentro(p, d) <=> d + BYTES - 1 <= Limite[p] - Base[p]
         /\ Mem[p] = [e \in 0 .. Limite[p] - Base[p] |-> espacio[Base[p] + e]]
         /\ Maq!Celdas(d) = d .. d + BYTES - 1
<1>1. Mem[p] = [e \in 0 .. Limite[p] - Base[p] |-> espacio[Base[p] + e]]
  BY DEF Mem
<1>2. Maq!Celdas(d) = d .. d + BYTES - 1
  BY Zenon DEF Maq!Celdas
<1>3. Maq!Dentro(p, d) <=> d .. d + BYTES - 1 \subseteq DOMAIN Mem[p]
  BY <1>2, Zenon DEF Maq!Dentro, Mem
<1>4. DOMAIN Mem[p] = 0 .. Limite[p] - Base[p]
  BY <1>1
<1>5. d .. d + BYTES - 1 \subseteq 0 .. Limite[p] - Base[p] <=> d + BYTES - 1 <= Limite[p] - Base[p]
  <2>1. Limite[p] \in Int /\ Base[p] \in Nat /\ BYTES \in Nat /\ BYTES >= 1
    OBVIOUS
  <2>2. d + BYTES - 1 \in d .. d + BYTES - 1
    BY <2>1
  <2>3. QED
    BY <2>1, <2>2
<1>6. QED
  BY <1>1, <1>2, <1>3, <1>4, <1>5

\* MMU lets an access through if and only if it is inside of the process.
LEMMA AccesoDeMaquina ==
  ASSUME CInv, AccesosEnteros, NEW ops \in SUBSET {"READ_MEM", "WRITE_MEM"}, Busca(ops)
  PROVE  LET p == Proceso[contexto.hilo] IN
         /\ p \in Pids /\ DirLogica \in Nat
         /\ Maq!Dentro(p, DirLogica) <=> MMU(DirLogica) # {}
         /\ \A a \in MMU(DirLogica) : /\ a \in Nat /\ a = Base[p] + DirLogica
                                      /\ DirLogica + BYTES - 1 <= Limite[p] - Base[p]
<1> DEFINE p == Proceso[contexto.hilo]
<1>1. Busca({"READ_MEM", "WRITE_MEM"})
  BY DEF Busca
<1>2. /\ p \in Pids /\ DirLogica \in Nat
      /\ \A a \in MMU(DirLogica) : a = Base[p] + DirLogica /\ a \in Nat
  BY <1>1, DireccionTipo DEF CInv
<1>3. MMU(DirLogica) # {} <=> DirLogica < Limite[p] - Base[p]
  BY DEF MMU
<1>4. \A a \in MMU(DirLogica) : a + BYTES - 1 <= Limite[p]
  BY <1>1 DEF AccesosEnteros
<1> HIDE DEF p
<1>5. Maq!Dentro(p, DirLogica) <=> DirLogica + BYTES - 1 <= Limite[p] - Base[p]
  BY <1>2, DentroDeMaquina
<1>6. Limite[p] \in Int /\ Base[p] \in Nat /\ BYTES \in Nat /\ BYTES >= 2
  BY <1>2
<1>7. \A a \in MMU(DirLogica) : DirLogica + BYTES - 1 <= Limite[p] - Base[p]
  BY <1>2, <1>4, <1>6
<1>8. Maq!Dentro(p, DirLogica) => MMU(DirLogica) # {}
  BY <1>2, <1>3, <1>5, <1>6
<1>9. QED
  BY <1>2, <1>5, <1>7, <1>8 DEF p

\* The instruction at hand, for the three lemmas that follow.
LEMMA DirDeMaquina ==
  ASSUME CInv, NEW ops \in SUBSET {"READ_MEM", "WRITE_MEM"}, Busca(ops)
  PROVE  LET x == Actual
             S == Siguiente(contexto.r) IN
         /\ x.op \in ops /\ x.r \in Registros /\ x.s \in Registros /\ S \in Contenido
         /\ DirLogica = IF x.op = "READ_MEM" THEN S[x.s] ELSE S[x.r]
<1>1. Actual.op \in ops /\ Actual.r \in Registros /\ Actual.s \in Registros /\ Siguiente(contexto.r) \in Contenido
  BY ActualTipo DEF Instruccion, CInv
<1>2. QED
  BY <1>1 DEF DirLogica

LEMMA FalloEnMaquina ==
  ASSUME CInv, AccesosEnteros, SegmentationFault
  PROVE  Maq!Next
<1> DEFINE h == contexto.hilo
           x == Actual
           S == Siguiente(contexto.r)
           p == Proceso[h]
<1>0. Busca({"READ_MEM", "WRITE_MEM"})
  BY DEF SegmentationFault
<1>1. /\ h \in Hilos /\ h \notin Ter /\ Reg \in [Hilos -> Contenido]
      /\ Maq!Actual(h) = x /\ Maq!Operandos(h) = S
  BY <1>0, EnMaquina
<1>2. /\ x.op \in {"READ_MEM", "WRITE_MEM"} /\ x.r \in Registros
      /\ DirLogica = IF x.op = "READ_MEM" THEN S[x.s] ELSE S[x.r]
  BY <1>0, DirDeMaquina
<1>3. MMU(DirLogica) = {}
  BY <1>0 DEF SegmentationFault, ErrorDeAcceso, AccesosEnteros
<1>4. ~Maq!Dentro(p, DirLogica)
  BY <1>0, <1>3, AccesoDeMaquina
<1>5. Reg' = [Reg EXCEPT ![h] = S] /\ Ter' = Ter \cup {h} /\ Mem' = Mem
  <2>1. /\ contexto' = [contexto EXCEPT !.r = S] /\ paso' # "libre" /\ terminados' = terminados
        /\ espacio' = espacio /\ hayExit'
    BY DEF SegmentationFault, kernel
  <2>2. contexto'.r = S /\ registros' = [registros EXCEPT ![h] = S]
    BY <2>1 DEF SegmentationFault, CInv, Tipos
  <2>3. QED
    BY <1>0, <2>1, <2>2, TrasInstruccion, MismaMemoria
<1> HIDE DEF h, x, S
<1>6. Maq!Avanza(h)
  BY <1>1, <1>2, <1>5, EscribeMaquina
<1>7. Maq!Fin(h)
  <2>1. CASE x.op = "READ_MEM"
    <3>1. ~Maq!Dentro(p, S[x.s])
      BY <1>2, <1>4, <2>1
    <3>2. QED
      BY <1>1, <1>5, <1>6, <2>1, <3>1, Zenon DEF Maq!Fin, Mem, Ter
  <2>2. CASE x.op = "WRITE_MEM"
    <3>1. ~Maq!Dentro(p, S[x.r])
      BY <1>2, <1>4, <2>2
    <3>2. QED
      BY <1>1, <1>5, <1>6, <2>2, <3>1, Zenon DEF Maq!Fin, Mem, Ter
  <2>3. QED
    BY <1>2, <2>1, <2>2
<1>8. QED
  BY <1>1, <1>7, Zenon DEF Maq!Next, Maq!Paso, Ter

LEMMA LeerEnMaquina ==
  ASSUME CInv, AccesosEnteros, LeerMemoria
  PROVE  Maq!Next
<1> DEFINE h == contexto.hilo
           x == Actual
           S == Siguiente(contexto.r)
           p == Proceso[h]
<1>0. Busca({"READ_MEM"}) /\ Busca({"READ_MEM", "WRITE_MEM"})
  BY DEF LeerMemoria, Busca
<1>1. /\ h \in Hilos /\ h \notin Ter /\ Reg \in [Hilos -> Contenido]
      /\ Maq!Actual(h) = x /\ Maq!Operandos(h) = S
  BY <1>0, EnMaquina
<1>2. x.op = "READ_MEM" /\ x.r \in Registros /\ DirLogica = S[x.s]
  BY <1>0, DirDeMaquina
<1>3. PICK a \in MMU(DirLogica) :
        EnEspacio(a) /\ contexto' = [contexto EXCEPT !.r = [S EXCEPT ![x.r] = Palabra(a)]]
  BY DEF LeerMemoria
<1>4. /\ p \in Pids /\ DirLogica \in Nat /\ a \in Nat /\ a = Base[p] + DirLogica
      /\ DirLogica + BYTES - 1 <= Limite[p] - Base[p] /\ Maq!Dentro(p, DirLogica)
  BY <1>0, <1>3, AccesoDeMaquina
<1> DEFINE v == Palabra(a)
<1>5. v \in PalabrasEn(espacio, a) /\ v \in Palabras /\ v \in Nat
  BY <1>3, <1>4, PalabraTipo DEF CInv
<1>6. Reg' = [Reg EXCEPT ![h] = [S EXCEPT ![x.r] = v]] /\ Ter' = Ter /\ Mem' = Mem
  <2>1. /\ paso' # "libre" /\ terminados' = terminados
        /\ UNCHANGED registros /\ espacio' = espacio /\ hayExit' = hayExit /\ ~hayExit
    BY <1>0, ActualTipo DEF LeerMemoria, memoria, kernel, CInv, UnaVez
  <2>2. QED
    BY <1>0, <1>3, <2>1, TrasInstruccion, MismaMemoria
<1> HIDE DEF h, x, S, p, v
<1>7. v % Modulo = v
  <2>1. Modulo \in Nat \ {0} /\ v \in 0 .. Modulo - 1 /\ v = Modulo * 0 + v
    BY <1>5, ModuloNatural
  <2>2. QED
    BY <1>5, <2>1, DivisionUnica
<1>8. Maq!Escribe(h, x.r, v)
  BY <1>1, <1>2, <1>6, <1>7, EscribeMaquina
<1>9. v \in Maq!PalabrasEn(Mem[p], S[x.s])
  <2>1. \A i \in 0 .. BYTES - 1 : Mem[p][DirLogica + i] = espacio[a + i]
    <3>1. Mem[p] = [e \in 0 .. Limite[p] - Base[p] |-> espacio[Base[p] + e]]
      BY <1>4, DentroDeMaquina
    <3>2. \A i \in 0 .. BYTES - 1 : /\ DirLogica + i \in 0 .. Limite[p] - Base[p]
                                    /\ Base[p] + (DirLogica + i) = a + i
      BY <1>4
    <3>3. QED
      BY <3>1, <3>2
  <2>2. v \in PalabrasEn(Mem[p], DirLogica)
    BY <1>5, <2>1 DEF PalabrasEn
  <2>3. QED
    BY <1>2, <2>2, MismasPalabras
<1>10. Maq!Lee(h)
  BY <1>1, <1>2, <1>4, <1>6, <1>8, <1>9, Zenon DEF Maq!Lee, Mem, Ter, p
<1>11. QED
  BY <1>1, <1>10, Zenon DEF Maq!Next, Maq!Paso, Ter
\* A word written in the partition of a process is written in its memory, and in
\* nobody else's.
LEMMA EscrituraDeMaquina ==
  ASSUME CInv, NEW p \in Pids, NEW d \in Nat, d + BYTES - 1 <= Limite[p] - Base[p], NEW v \in Nat,
         espacio' = ConPalabra(Base[p] + d, v)
  PROVE  Mem' = [Mem EXCEPT ![p] = [e \in DOMAIN @ |-> IF e \in Maq!Celdas(d) THEN Maq!Byte(v, e - d) ELSE @[e]]]
<1> DEFINE a == Base[p] + d
           D(q) == 0 .. Limite[q] - Base[q]
           N == [e \in D(p) |-> IF e \in d .. d + BYTES - 1 THEN Byte(v, e - d) ELSE espacio[Base[p] + e]]
<1>1. \A q \in Pids : Base[q] \in Nat /\ Limite[q] \in 0 .. TAM_MEMORIA - 1 /\ Base[q] <= Limite[q]
  BY ParticionesAssumption
<1>2. ASSUME NEW q \in Pids, NEW e \in D(q) PROVE Base[q] + e \in DOMAIN espacio
  <2>1. Base[q] + e \in 0 .. TAM_MEMORIA - 1
    BY <1>1
  <2>2. DOMAIN espacio = 0 .. TAM_MEMORIA - 1
    BY DEF CInv, Tipos
  <2>3. QED
    BY <2>1, <2>2
<1>3. \A b \in DOMAIN espacio : espacio'[b] = IF b \in a .. a + BYTES - 1 THEN Byte(v, b - a) ELSE espacio[b]
  BY Zenon DEF ConPalabra
<1>4. ASSUME NEW q \in Pids, q # p, NEW e \in D(q) PROVE espacio'[Base[q] + e] = espacio[Base[q] + e]
  <2>1. Base[q] + e \in Base[q] .. Limite[q]
    BY <1>1
  <2>2. Base[q] + e \notin a .. a + BYTES - 1
    <3>1. Limite[p] < Base[q] \/ Limite[q] < Base[p]
      BY <1>4, ParticionesAssumption
    <3>2. QED
      BY <1>1, <2>1, <3>1
  <2>3. QED
    BY <1>2, <1>3, <2>2
<1>5. ASSUME NEW e \in D(p) PROVE espacio'[Base[p] + e] = N[e]
  <2>1. e \in Int /\ Base[p] \in Int
    BY <1>1
  <2>2. (Base[p] + e \in a .. a + BYTES - 1) <=> e \in d .. d + BYTES - 1
    BY <2>1
  <2>3. (Base[p] + e) - a = e - d
    BY <2>1
  <2>4. Base[p] + e \in DOMAIN espacio
    BY <1>2
  <2>5. espacio'[Base[p] + e] = IF e \in d .. d + BYTES - 1 THEN Byte(v, e - d) ELSE espacio[Base[p] + e]
    BY <1>3, <2>2, <2>3, <2>4, Zenon
  <2>6. QED
    BY <2>5, Zenon
<1>6. Mem' = [q \in Pids |-> [e \in D(q) |-> espacio'[Base[q] + e]]]
  BY Zenon DEF Mem
<1>7. Mem = [q \in Pids |-> [e \in D(q) |-> espacio[Base[q] + e]]]
  BY Zenon DEF Mem
<1>8. ASSUME NEW q \in Pids
      PROVE  [e \in D(q) |-> espacio'[Base[q] + e]] = IF q = p THEN N ELSE Mem[q]
  <2>1. CASE q = p
    <3>1. [e \in D(p) |-> espacio'[Base[p] + e]] = N
      BY <1>5
    <3>2. QED
      BY <2>1, <3>1
  <2>2. CASE q # p
    <3>1. Mem[q] = [e \in D(q) |-> espacio[Base[q] + e]]
      BY <1>7
    <3>2. [e \in D(q) |-> espacio'[Base[q] + e]] = [e \in D(q) |-> espacio[Base[q] + e]]
      BY <1>4, <2>2, Zenon
    <3>3. QED
      BY <2>2, <3>1, <3>2
  <2>3. QED
    BY <2>1, <2>2
<1>9. Mem' = [Mem EXCEPT ![p] = N]
  <2>1. [Mem EXCEPT ![p] = N] = [q \in Pids |-> IF q = p THEN N ELSE Mem[q]]
    <3>1. DOMAIN Mem = Pids
      BY <1>7
    <3> HIDE DEF N
    <3>2. QED
      BY <1>7, <3>1
  <2>2. QED
    BY <1>6, <1>8, <2>1, Zenon
<1>10. [e \in DOMAIN Mem[p] |-> IF e \in Maq!Celdas(d) THEN Maq!Byte(v, e - d) ELSE Mem[p][e]] = N
  <2>1. /\ Mem[p] = [e \in D(p) |-> espacio[Base[p] + e]] /\ DOMAIN Mem[p] = D(p)
        /\ Maq!Celdas(d) = d .. d + BYTES - 1
    BY DentroDeMaquina
  <2>2. \A e \in D(p) : Mem[p][e] = espacio[Base[p] + e] /\ Maq!Byte(v, e - d) = Byte(v, e - d)
    BY <2>1, MismasPalabras
  <2>3. QED
    BY <2>1, <2>2, Zenon
<1>11. QED
  BY <1>9, <1>10, Zenon

LEMMA EscribirEnMaquina ==
  ASSUME CInv, AccesosEnteros, EscribirMemoria
  PROVE  Maq!Next
<1> DEFINE h == contexto.hilo
           x == Actual
           S == Siguiente(contexto.r)
           pr == Proceso[h]
           dir == DirLogica
<1>0. Busca({"WRITE_MEM"}) /\ Busca({"READ_MEM", "WRITE_MEM"})
  BY DEF EscribirMemoria, Busca
<1>1. /\ h \in Hilos /\ h \notin Ter /\ Reg \in [Hilos -> Contenido]
      /\ Maq!Actual(h) = x /\ Maq!Operandos(h) = S
  BY <1>0, EnMaquina
<1>2. x.op = "WRITE_MEM" /\ x.r \in Registros /\ x.s \in Registros /\ S \in Contenido /\ dir = S[x.r]
  BY <1>0, DirDeMaquina
<1>3. contexto' = [contexto EXCEPT !.r = S] /\ contexto'.r = S
  BY DEF EscribirMemoria, CInv, Tipos
<1>4. PICK a \in MMU(dir) : EnEspacio(a) /\ espacio' = ConPalabra(a, S[x.s])
  BY <1>3 DEF EscribirMemoria
<1>5. /\ pr \in Pids /\ dir \in Nat /\ a \in Nat /\ a = Base[pr] + dir
      /\ dir + BYTES - 1 <= Limite[pr] - Base[pr] /\ Maq!Dentro(pr, dir)
  BY <1>0, <1>4, AccesoDeMaquina
<1>6. Reg' = [Reg EXCEPT ![h] = S] /\ Ter' = Ter
  <2>1. /\ paso' # "libre" /\ terminados' = terminados
        /\ UNCHANGED registros /\ hayExit' = hayExit /\ ~hayExit
    BY <1>0, ActualTipo DEF EscribirMemoria, kernel, CInv, UnaVez
  <2>2. QED
    BY <1>0, <1>3, <2>1, TrasInstruccion
<1> HIDE DEF h, x, S, pr, dir
<1>7. S[x.s] \in Nat
  BY <1>2 DEF Contenido
<1>8. Mem' = [Mem EXCEPT ![pr] = [e \in DOMAIN @ |-> IF e \in Maq!Celdas(dir) THEN Maq!Byte(S[x.s], e - dir) ELSE @[e]]]
  BY <1>4, <1>5, <1>7, EscrituraDeMaquina
<1>9. PICK g \in Hilos : g = h
  BY <1>1
<1>10. /\ g \notin Ter /\ Maq!Actual(g) = x /\ Maq!Operandos(g) = S /\ pr = Proceso[g]
       /\ Reg' = [Reg EXCEPT ![g] = S]
  BY <1>1, <1>6, <1>9, Zenon DEF pr
<1>11. Maq!Avanza(g)
  BY <1>1, <1>2, <1>10, EscribeMaquina
<1>12. Maq!GuardaEn(g)
  BY <1>2, <1>5, <1>6, <1>8, <1>10, <1>11, Zenon DEF Maq!GuardaEn, Mem, Ter
<1>13. Maq!Paso(g)
  BY <1>10, <1>12, Zenon DEF Maq!Paso, Ter
<1>14. QED
  BY <1>13 DEF Maq!Next

\* The CPU and Memoria implement the machine each program takes for granted, as long as
\* no access straddles the end of a partition and no word of all ones is read: however
\* the threads are interrupted, blocked and dispatched again (atender_hilo_kernel), no
\* instruction is lost or run twice, no register is another thread's, and only the memory
\* of the own process is read or written.
THEOREM UnaMaquinaPorHilo == Spec /\ []AccesosEnteros => ComoSiEstuvieraSolo
<1>1. CInv /\ AccesosEnteros /\ [Next]_vars => [Maq!Next]_(Maq!vars)
  BY PasosInvisibles, VistaDeMaquina, CalcularEnMaquina, LlamarEnMaquina, FalloEnMaquina, LeerEnMaquina,
     EscribirEnMaquina
<1>2. QED
  BY <1>1, InicioMaquina, CInvSiempre, PTL DEF Spec, ComoSiEstuvieraSolo, Maq!Spec

\* Without any hypothesis: what a thread sees of itself changes only when the CPU executes
\* an instruction of it.  Interruptions, evictions, faults of others and the registers on their
\* way to and from Memoria are not seen, and nobody touches the registers of another.
THEOREM NadieTocaLoAjeno ==
  Spec => [][\A h \in Hilos : RegistrosDe(h)' # RegistrosDe(h) \/ ~(Terminado(h)' <=> Terminado(h))
                                => paso = "ciclo" /\ contexto.hilo = h]_vars
<1> DEFINE Igual(h) == RegistrosDe(h)' = RegistrosDe(h) /\ (Terminado(h)' <=> Terminado(h))
<1>0. ASSUME NEW h \in Hilos
      PROVE  /\ Reg[h] = RegistrosDe(h) /\ Reg'[h] = RegistrosDe(h)'
             /\ (h \in Ter <=> Terminado(h)) /\ (h \in Ter' <=> Terminado(h)')
  BY <1>0 DEF Reg, Ter
<1>1. ASSUME CInv, [Next]_vars, NEW h \in Hilos, ~(paso = "ciclo" /\ contexto.hilo = h) PROVE Igual(h)
  <2>1. ASSUME UNCHANGED vista PROVE Igual(h)
    <3>1. Reg' = Reg /\ Ter' = Ter
      BY <2>1 DEF vista
    <3>2. QED
      BY <1>0, <3>1
  <2>2. ASSUME NEW ops, Busca(ops), NEW r, contexto' = [contexto EXCEPT !.r = r], paso' # "libre",
               terminados' = terminados,
               UNCHANGED registros \/ registros' = [registros EXCEPT ![contexto.hilo] = r]
        PROVE  Igual(h)
    <3>1. h # contexto.hilo /\ Reg \in [Hilos -> Contenido]
      BY <1>1, <2>2, ActualTipo, EnMaquina DEF CInv
    <3>2. /\ Reg' = [Reg EXCEPT ![contexto.hilo] = r]
          /\ Ter' = IF hayExit' THEN Ter \cup {contexto.hilo} ELSE Ter
      BY <1>1, <2>2, TrasInstruccion
    <3>3. Reg'[h] = Reg[h] /\ (h \in Ter' <=> h \in Ter)
      BY <3>1, <3>2
    <3>4. QED
      BY <1>0, <3>3
  <2> DEFINE S == Siguiente(contexto.r)
  <2>3. CASE Calcular
    BY <2>2, <2>3 DEF Calcular, memoria, kernel
  <2>4. CASE Llamar
    BY <2>2, <2>4 DEF Llamar, memoria
  <2>5. CASE LeerMemoria
    BY <2>2, <2>5 DEF LeerMemoria, memoria, kernel
  <2>6. CASE EscribirMemoria
    BY <2>2, <2>6 DEF EscribirMemoria, kernel
  <2>7. CASE SegmentationFault
    <3>1. contexto' = [contexto EXCEPT !.r = S] /\ contexto'.r = S
      BY <1>1, <2>7 DEF SegmentationFault, CInv, Tipos
    <3>2. /\ Busca({"READ_MEM", "WRITE_MEM"}) /\ paso' # "libre" /\ terminados' = terminados
          /\ registros' = [registros EXCEPT ![contexto.hilo] = S]
      BY <2>7, <3>1 DEF SegmentationFault, kernel
    <3>3. QED
      BY <2>2, <3>1, <3>2
  <2>8. QED
    BY <1>1, <2>1, <2>3, <2>4, <2>5, <2>6, <2>7, PasosInvisibles
<1>2. CInv /\ [Next]_vars =>
        (\A h \in Hilos : RegistrosDe(h)' # RegistrosDe(h) \/ ~(Terminado(h)' <=> Terminado(h))
                             => paso = "ciclo" /\ contexto.hilo = h)
  BY <1>1
<1>3. QED
  BY <1>2, CInvSiempre, PTL DEF Spec
=============================================================================
