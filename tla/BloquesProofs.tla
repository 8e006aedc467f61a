--------------------------- MODULE BloquesProofs ---------------------------
(***************************************************************************)
(* Filesystem: the bitmap has the blocks of the dumps and no other, and    *)
(* dumps in series never share a block, through any number of restarts.    *)
(* Proved for every number of blocks, of dumps, and their sizes.           *)
(***************************************************************************)
EXTENDS Bloques, SequenceTheorems, FiniteSetTheorems, WellFoundedInduction, TLAPS

\* A dump that did not come in has no blocks.
SinBloques == \A d \in Volcados : fase[d] = "nuevo" => archivo[d] = SinArchivo

\* The index block is the last one a dump takes.
IndiceAlFinal == \A d \in Volcados : fase[d] \in {"buscar", "marcar"} => archivo[d].indice = Ninguno

BInv == TypeOK /\ SinBloques /\ IndiceAlFinal /\ BitmapFiel

\* In series one dump at most is under way, and the bit it found is still free.
UnoEnCurso == \A d, e \in Volcados : EnCurso(d) /\ EnCurso(e) => d = e
SigueLibre == \A d \in Volcados : fase[d] = "marcar" /\ hallado[d] # Ninguno => hallado[d] \notin bitmap

SInv == UnoEnCurso /\ SigueLibre /\ BloquesExclusivos

Archivos == [tamanio : Tamanios \cup {0}, mensaje : Mensajes \cup {0},
             datos : Seq(Bits), indice : Bits \cup {Ninguno}]
Fases == {"nuevo", "buscar", "marcar", "metadata", "indice", "leer", "datos", "ok", "error", "perdido"}

USE BloquesAssumption, VolcadosAssumption

\* The bits are naturals, so none of them is Ninguno.
LEMMA BitsNaturales == Bits \subseteq Nat /\ Ninguno \notin Bits /\ (\A b \in Bits \cup {Ninguno} : b \in Int)
  BY DEF Bits, Ninguno

\* encontrar_primer_bit_libre returns a free bit, or none if there is none.
LEMMA PrimerLibreEsLibre ==
  PrimerLibre \in Libres \cup {Ninguno} /\ (PrimerLibre = Ninguno <=> Libres = {})
<1> DEFINE R == {ss \in Nat \X Nat : ss[1] < ss[2]}
<1>1. Libres \subseteq Nat /\ Ninguno \notin Libres
  BY BitsNaturales DEF Libres
<1>2. CASE Libres = {}
  BY <1>1, <1>2 DEF PrimerLibre
<1>3. CASE Libres # {}
  <2>1. IsWellFoundedOn(R, Nat)
    BY NatLessThanWellFounded DEF OpToRel
  <2>2. \A x, y \in Libres : ~(<<y, x>> \in R) => x <= y
    BY <1>1
  <2> HIDE DEF R
  <2>3. \E x \in Libres : \A y \in Libres : ~(<<y, x>> \in R)
    BY <1>1, <1>3, <2>1, WFMin
  <2>4. \E b \in Libres : \A c \in Libres : b <= c
    BY <2>2, <2>3
  <2>5. (CHOOSE b \in Libres : \A c \in Libres : b <= c) \in Libres
    BY <2>4
  <2>6. QED
    BY <1>1, <1>3, <2>5 DEF PrimerLibre
<1>4. QED
  BY <1>2, <1>3

\* Taking a data block adds it to the blocks of the dump.
LEMMA DatosAgregados ==
  ASSUME NEW s \in Seq(Bits), NEW b \in Bits
  PROVE  /\ Append(s, b) \in Seq(Bits)
         /\ {Append(s, b)[i] : i \in DOMAIN Append(s, b)} = {s[i] : i \in DOMAIN s} \cup {b}
         /\ \A i \in DOMAIN s : Append(s, b)[i] = s[i]
         /\ Append(s, b)[Len(s) + 1] = b
         /\ DOMAIN Append(s, b) = DOMAIN s \cup {Len(s) + 1}
         /\ Len(s) + 1 \notin DOMAIN s
<1>1. /\ Append(s, b) \in Seq(Bits) /\ Len(s) \in Nat
      /\ DOMAIN s = 1 .. Len(s) /\ DOMAIN Append(s, b) = 1 .. Len(s) + 1
      /\ \A i \in 1 .. Len(s) : Append(s, b)[i] = s[i]
      /\ Append(s, b)[Len(s) + 1] = b
  BY AppendProperties, LenProperties
<1>2. 1 .. Len(s) + 1 = (1 .. Len(s)) \cup {Len(s) + 1} /\ Len(s) + 1 \notin 1 .. Len(s)
  BY <1>1
<1>3. QED
  BY <1>1, <1>2
-----------------------------------------------------------------------------
LEMMA InicioBInv == Init => BInv
<1> SUFFICES ASSUME Init PROVE BInv
  OBVIOUS
<1>1. SinArchivo \in Archivos
  BY DEF SinArchivo, FCB, Archivos
<1>2. TypeOK
  BY <1>1 DEF Init, TypeOK, Archivos, Vacio
<1>3. SinBloques /\ IndiceAlFinal
  BY DEF Init, SinBloques, IndiceAlFinal, SinArchivo, FCB
<1>4. \A d \in Volcados : DeArchivo(d) = {}
  BY DEF Init, DeArchivo, Datos, SinArchivo, FCB
<1>5. BitmapFiel
  BY <1>4 DEF Init, BitmapFiel
<1>6. QED
  BY <1>2, <1>3, <1>5 DEF BInv

\* The blocks of a dump are those of its FCB.
LEMMA MismosBloques ==
  ASSUME NEW d \in Volcados, archivo'[d].datos = archivo[d].datos, archivo'[d].indice = archivo[d].indice
  PROVE  Datos(d)' = Datos(d) /\ DeArchivo(d)' = DeArchivo(d)
  BY DEF Datos, DeArchivo

\* No dump takes a block.
SinTomar ==
  \A e \in Volcados : archivo'[e].datos = archivo[e].datos /\ archivo'[e].indice = archivo[e].indice

LEMMA LlegaVolcadoBInv ==
  ASSUME BInv, NEW d \in Volcados, NEW tam \in Tamanios, NEW men \in Mensajes, LlegaVolcado(d, tam, men)
  PROVE  BInv' /\ SinTomar
<1>1. /\ FCB(tam, men) \in Archivos /\ FCB(tam, men).datos = <<>> /\ FCB(tam, men).indice = Ninguno
      /\ archivo[d] = SinArchivo /\ SinArchivo.datos = <<>> /\ SinArchivo.indice = Ninguno
  <2>1. FCB(tam, men) \in Archivos /\ FCB(tam, men).datos = <<>> /\ FCB(tam, men).indice = Ninguno
    BY DEF FCB, Archivos
  <2>2. SinArchivo.datos = <<>> /\ SinArchivo.indice = Ninguno
    BY DEF SinArchivo, FCB
  <2>3. archivo[d] = SinArchivo
    BY DEF LlegaVolcado, BInv, SinBloques
  <2>4. QED
    BY <2>1, <2>2, <2>3
<1>2. /\ archivo \in [Volcados -> Archivos] /\ fase \in [Volcados -> Fases]
      /\ archivo' \in {archivo, [archivo EXCEPT ![d] = FCB(tam, men)]}
      /\ fase' \in {[fase EXCEPT ![d] = "buscar"], [fase EXCEPT ![d] = "error"]}
      /\ fase'[d] # "nuevo"
  BY DEF LlegaVolcado, Ir, BInv, TypeOK, Archivos, Fases
<1>3. /\ archivo' \in [Volcados -> Archivos] /\ fase' \in [Volcados -> Fases]
      /\ archivo'[d].datos = archivo[d].datos /\ archivo'[d].indice = archivo[d].indice
      /\ \A e \in Volcados : e # d => archivo'[e] = archivo[e] /\ fase'[e] = fase[e]
  BY <1>1, <1>2 DEF Fases
<1>4. \A e \in Volcados : Datos(e)' = Datos(e) /\ DeArchivo(e)' = DeArchivo(e)
  BY <1>3, MismosBloques
<1>5. TypeOK'
  BY <1>3 DEF LlegaVolcado, BInv, TypeOK, Archivos, Fases
<1>6. SinBloques' /\ IndiceAlFinal'
  BY <1>1, <1>2, <1>3 DEF BInv, SinBloques, IndiceAlFinal
<1>7. BitmapFiel'
  BY <1>4 DEF LlegaVolcado, BInv, BitmapFiel
<1>8. QED
  BY <1>3, <1>5, <1>6, <1>7 DEF BInv, SinTomar

\* What a step that takes no block leaves alone.
QuietoEn(d) ==
  /\ UNCHANGED <<bitmap, archivo>>
  /\ EnCurso(d)
  /\ fase'[d] \notin {"nuevo"}
  /\ fase[d] \notin {"buscar", "marcar"} => fase'[d] \notin {"buscar", "marcar"}
  /\ \A e \in Volcados \ {d} : fase'[e] = fase[e]

LEMMA SinTomarBInv ==
  ASSUME BInv, TypeOK', NEW d \in Volcados, QuietoEn(d)
  PROVE  BInv' /\ SinTomar
<1>1. \A e \in Volcados : Datos(e)' = Datos(e) /\ DeArchivo(e)' = DeArchivo(e)
  BY MismosBloques DEF QuietoEn
<1>2. SinBloques' /\ IndiceAlFinal'
  BY DEF QuietoEn, BInv, SinBloques, IndiceAlFinal
<1>3. BitmapFiel'
  BY <1>1 DEF QuietoEn, BInv, BitmapFiel
<1>4. QED
  BY <1>2, <1>3 DEF BInv, QuietoEn, SinTomar

LEMMA BuscarBitBInv ==
  ASSUME BInv, NEW d \in Volcados, BuscarBit(d)
  PROVE  TypeOK' /\ QuietoEn(d)
<1>1. PrimerLibre \in Bits \cup {Ninguno}
  BY PrimerLibreEsLibre DEF Libres
<1>2. TypeOK'
  BY <1>1 DEF BuscarBit, Ir, BInv, TypeOK
<1>3. QED
  BY <1>2 DEF BuscarBit, Ir, BInv, TypeOK, QuietoEn, EnCurso

LEMMA GuardarMetadataBInv ==
  ASSUME BInv, NEW d \in Volcados, GuardarMetadata(d)
  PROVE  TypeOK' /\ QuietoEn(d)
  BY DEF GuardarMetadata, Ir, BInv, TypeOK, QuietoEn, EnCurso

LEMMA EscribirIndiceBInv ==
  ASSUME BInv, NEW d \in Volcados, EscribirIndice(d)
  PROVE  TypeOK' /\ QuietoEn(d)
<1>1. bloques' \in [0 .. BLOCK_COUNT - 1 ->
        [de : Volcados \cup {Ninguno}, que : {"nada", "indice", "datos", "basura"}, parte : Nat]]
  <2>1. CASE Fuera(DelIndice(d))
    BY <2>1 DEF EscribirIndice, BInv, TypeOK
  <2>2. CASE ~Fuera(DelIndice(d))
    <3>1. archivo[d].indice \in Int
      <4>1. archivo[d].indice \in Bits \cup {Ninguno}
        BY DEF BInv, TypeOK
      <4>2. QED
        BY <4>1, BitsNaturales
    <3>2. \A b \in DelIndice(d) : b - archivo[d].indice \in Nat
      BY <3>1 DEF DelIndice
    <3>3. \A b \in DelIndice(d) : Parte(d, "indice", b - archivo[d].indice) \in
            [de : Volcados \cup {Ninguno}, que : {"nada", "indice", "datos", "basura"}, parte : Nat]
      BY <3>2 DEF Parte
    <3>4. bloques' = [b \in DOMAIN bloques |->
            IF b \in DelIndice(d) THEN Parte(d, "indice", b - archivo[d].indice) ELSE bloques[b]]
      BY <2>2 DEF EscribirIndice
    <3>5. QED
      BY <3>3, <3>4 DEF BInv, TypeOK
  <2>3. QED
    BY <2>1, <2>2
<1>2. fase' \in {fase, [fase EXCEPT ![d] = "leer"]} /\ indefinido' \in {TRUE, indefinido}
  BY DEF EscribirIndice, Ir
<1>3. TypeOK'
  BY <1>1, <1>2 DEF EscribirIndice, BInv, TypeOK
<1>4. QED
  BY <1>2, <1>3 DEF EscribirIndice, BInv, TypeOK, QuietoEn, EnCurso

LEMMA LeerIndiceBInv ==
  ASSUME BInv, NEW d \in Volcados, LeerIndice(d)
  PROVE  TypeOK' /\ QuietoEn(d)
<1>1. fase' \in {fase, [fase EXCEPT ![d] = "datos"]} /\ indefinido' \in {TRUE, indefinido}
  BY DEF LeerIndice, Ir
<1>2. QED
  BY <1>1 DEF LeerIndice, BInv, TypeOK, QuietoEn, EnCurso

LEMMA EscribirDatoBInv ==
  ASSUME BInv, NEW d \in Volcados, EscribirDato(d)
  PROVE  TypeOK' /\ QuietoEn(d)
<1> DEFINE i == escritos[d]
           b == archivo[d].datos[i + 1]
<1>1. i \in Nat /\ i + 1 \in Nat
  BY DEF BInv, TypeOK
<1>2. Porcion(d, i) # "nada" => Parte(d, Porcion(d, i), i) \in
        [de : Volcados \cup {Ninguno}, que : {"nada", "indice", "datos", "basura"}, parte : Nat]
  BY <1>1 DEF Parte, Porcion
<1>3. /\ bloques' = bloques \/ (Porcion(d, i) # "nada" /\ bloques' = [bloques EXCEPT ![b] = Parte(d, Porcion(d, i), i)])
      /\ indefinido' \in {TRUE, indefinido}
      /\ escritos' = [escritos EXCEPT ![d] = i + 1]
  BY DEF EscribirDato
<1> HIDE DEF b, i
<1>4. bloques' \in [0 .. BLOCK_COUNT - 1 ->
        [de : Volcados \cup {Ninguno}, que : {"nada", "indice", "datos", "basura"}, parte : Nat]]
  BY <1>2, <1>3 DEF BInv, TypeOK
<1>5. TypeOK'
  <2>1. UNCHANGED <<bitmap, archivo, metadata, fase, hallado>>
    BY DEF EscribirDato
  <2>2. escritos \in [Volcados -> Nat] /\ indefinido \in BOOLEAN
    BY DEF BInv, TypeOK
  <2>3. escritos' \in [Volcados -> Nat] /\ indefinido' \in BOOLEAN
    BY ONLY <1>1, <1>3, <2>2
  <2>4. QED
    BY <1>4, <2>1, <2>3 DEF BInv, TypeOK
<1>6. QED
  BY <1>5 DEF EscribirDato, BInv, TypeOK, QuietoEn, EnCurso

LEMMA ResponderOkBInv ==
  ASSUME BInv, NEW d \in Volcados, ResponderOk(d)
  PROVE  TypeOK' /\ QuietoEn(d)
  BY DEF ResponderOk, Ir, BInv, TypeOK, QuietoEn, EnCurso

\* Every step of a dump but setting a bit leaves the bitmap and the files alone.
LEMMA AvanzaSinMarcar ==
  ASSUME BInv, NEW d \in Volcados, Avanza(d)
  PROVE  MarcarBit(d) \/ (TypeOK' /\ QuietoEn(d))
  BY BuscarBitBInv, GuardarMetadataBInv, EscribirIndiceBInv, LeerIndiceBInv, EscribirDatoBInv, ResponderOkBInv
  DEF Avanza

\* What setting a bit does to the blocks of the dumps.
LEMMA MarcarBitTipos ==
  ASSUME BInv, NEW d \in Volcados, MarcarBit(d)
  PROVE  /\ archivo' \in [Volcados -> Archivos] /\ fase' \in [Volcados -> Fases]
         /\ \A e \in Volcados \ {d} : archivo'[e] = archivo[e] /\ fase'[e] = fase[e]
         /\ fase[d] = "marcar" /\ archivo[d].indice = Ninguno
<1>1. /\ archivo \in [Volcados -> Archivos] /\ fase \in [Volcados -> Fases]
      /\ hallado[d] \in Bits \cup {Ninguno}
      /\ fase[d] = "marcar" /\ archivo[d].indice = Ninguno
  BY DEF MarcarBit, BInv, TypeOK, IndiceAlFinal, Archivos, Fases
<1>2. archivo[d].datos \in Seq(Bits)
  BY <1>1 DEF Archivos
<1>3. hallado[d] # Ninguno => Append(archivo[d].datos, hallado[d]) \in Seq(Bits)
  BY <1>1, <1>2, DatosAgregados
<1>4. CASE hallado[d] = Ninguno
  BY <1>1, <1>4 DEF MarcarBit
<1>5. CASE hallado[d] # Ninguno /\ Len(archivo[d].datos) < Cantidad(d)
  <2>1. /\ archivo' = [archivo EXCEPT ![d].datos = Append(@, hallado[d])]
        /\ fase' = [fase EXCEPT ![d] = "buscar"]
    BY <1>5 DEF MarcarBit, Ir
  <2>2. archivo'[d] \in Archivos
    <3>1. archivo[d] \in Archivos /\ Append(archivo[d].datos, hallado[d]) \in Seq(Bits)
      BY <1>1, <1>3, <1>5
    <3>2. archivo'[d] = [archivo[d] EXCEPT !.datos = Append(archivo[d].datos, hallado[d])]
      BY <1>1, <2>1
    <3>3. QED
      BY ONLY <3>1, <3>2 DEF Archivos
  <2>3. QED
    BY <1>1, <2>1, <2>2 DEF Fases
<1>6. CASE hallado[d] # Ninguno /\ ~(Len(archivo[d].datos) < Cantidad(d))
  <2>1. /\ archivo' = [archivo EXCEPT ![d].indice = hallado[d]]
        /\ fase' = [fase EXCEPT ![d] = "metadata"]
    BY <1>6 DEF MarcarBit, Ir
  <2>2. archivo'[d] \in Archivos
    BY <1>1, <1>6, <2>1 DEF Archivos
  <2>3. QED
    BY <1>1, <2>1, <2>2 DEF Fases
<1>7. QED
  BY <1>4, <1>5, <1>6

\* Setting a bit gives the dump that block, as a data block or as its index.
LEMMA MarcarBitToma ==
  ASSUME BInv, NEW d \in Volcados, MarcarBit(d)
  PROVE  /\ \A e \in Volcados \ {d} : Datos(e)' = Datos(e) /\ DeArchivo(e)' = DeArchivo(e)
         /\ hallado[d] = Ninguno => bitmap' = bitmap /\ archivo' = archivo /\ fase' = fase
         /\ hallado[d] # Ninguno =>
              /\ bitmap' = bitmap \cup {hallado[d]}
              /\ DeArchivo(d)' = DeArchivo(d) \cup {hallado[d]}
              /\ DeArchivo(d) = Datos(d)
              /\ \/ /\ Datos(d)' = Datos(d) \cup {hallado[d]} /\ archivo'[d].indice = Ninguno
                    /\ archivo'[d].datos = Append(archivo[d].datos, hallado[d])
                    /\ fase'[d] = "buscar"
                 \/ /\ Datos(d)' = Datos(d) /\ archivo'[d].indice = hallado[d]
                    /\ archivo'[d].datos = archivo[d].datos
                    /\ fase'[d] = "metadata"
<1>1. \A e \in Volcados \ {d} : Datos(e)' = Datos(e) /\ DeArchivo(e)' = DeArchivo(e)
  BY MarcarBitTipos, MismosBloques
<1>2. hallado[d] = Ninguno => bitmap' = bitmap /\ archivo' = archivo /\ fase' = fase
  BY DEF MarcarBit
<1>3. ASSUME hallado[d] # Ninguno
      PROVE  /\ bitmap' = bitmap \cup {hallado[d]}
             /\ DeArchivo(d)' = DeArchivo(d) \cup {hallado[d]}
             /\ DeArchivo(d) = Datos(d)
             /\ \/ /\ Datos(d)' = Datos(d) \cup {hallado[d]} /\ archivo'[d].indice = Ninguno
                   /\ archivo'[d].datos = Append(archivo[d].datos, hallado[d])
                   /\ fase'[d] = "buscar"
                \/ /\ Datos(d)' = Datos(d) /\ archivo'[d].indice = hallado[d]
                   /\ archivo'[d].datos = archivo[d].datos
                   /\ fase'[d] = "metadata"
  <2>1. /\ archivo \in [Volcados -> Archivos] /\ fase \in [Volcados -> Fases]
        /\ hallado[d] \in Bits /\ archivo[d].indice = Ninguno /\ archivo[d].datos \in Seq(Bits)
    <3>1. archivo \in [Volcados -> Archivos] /\ fase \in [Volcados -> Fases]
      BY DEF BInv, TypeOK, Archivos, Fases
    <3>2. archivo[d].datos \in Seq(Bits)
      BY <3>1 DEF Archivos
    <3>3. hallado[d] \in Bits
      BY <1>3 DEF BInv, TypeOK
    <3>4. archivo[d].indice = Ninguno
      BY DEF MarcarBit, BInv, IndiceAlFinal
    <3>5. QED
      BY <3>1, <3>2, <3>3, <3>4
  <2>2. bitmap' = bitmap \cup {hallado[d]}
    BY <1>3 DEF MarcarBit, Marcados
  <2>3. DeArchivo(d) = Datos(d)
    BY <2>1 DEF DeArchivo
  <2>4. CASE Len(archivo[d].datos) < Cantidad(d)
    <3>1. /\ archivo' = [archivo EXCEPT ![d].datos = Append(@, hallado[d])]
          /\ fase' = [fase EXCEPT ![d] = "buscar"]
      BY <1>3, <2>4 DEF MarcarBit, Ir
    <3>2. archivo'[d].datos = Append(archivo[d].datos, hallado[d]) /\ archivo'[d].indice = Ninguno
      BY <2>1, <3>1 DEF Archivos
    <3>3. Datos(d)' = Datos(d) \cup {hallado[d]}
      BY <2>1, <3>2, DatosAgregados DEF Datos
    <3>4. DeArchivo(d)' = Datos(d)'
      BY <3>2 DEF DeArchivo
    <3>5. QED
      BY <2>1, <2>2, <2>3, <3>1, <3>2, <3>3, <3>4
  <2>5. CASE ~(Len(archivo[d].datos) < Cantidad(d))
    <3>1. /\ archivo' = [archivo EXCEPT ![d].indice = hallado[d]]
          /\ fase' = [fase EXCEPT ![d] = "metadata"]
      BY <1>3, <2>5 DEF MarcarBit, Ir
    <3>2. archivo'[d].datos = archivo[d].datos /\ archivo'[d].indice = hallado[d]
      BY <2>1, <3>1 DEF Archivos
    <3>3. Datos(d)' = Datos(d)
      BY <3>2 DEF Datos
    <3>4. DeArchivo(d)' = Datos(d)' \cup {hallado[d]}
      BY <1>3, <3>2 DEF DeArchivo
    <3>5. QED
      BY <2>1, <2>2, <2>3, <3>1, <3>2, <3>3, <3>4
  <2>6. QED
    BY <2>4, <2>5
<1>4. QED
  BY <1>1, <1>2, <1>3

LEMMA MarcarBitBInv ==
  ASSUME BInv, NEW d \in Volcados, MarcarBit(d)
  PROVE  BInv'
<1>1. bitmap' \subseteq Bits
  BY DEF MarcarBit, Marcados, BInv, TypeOK
<1>2. TypeOK'
  BY <1>1, MarcarBitTipos DEF MarcarBit, BInv, TypeOK, Archivos, Fases
<1>3. SinBloques' /\ IndiceAlFinal'
  BY MarcarBitTipos, MarcarBitToma DEF BInv, SinBloques, IndiceAlFinal
<1>4. BitmapFiel'
  <2>1. CASE hallado[d] = Ninguno
    <3>1. \A e \in Volcados : DeArchivo(e)' = DeArchivo(e)
      BY <2>1, MarcarBitToma, MismosBloques
    <3>2. QED
      BY <2>1, <3>1, MarcarBitToma DEF BInv, BitmapFiel
  <2>2. CASE hallado[d] # Ninguno
    <3>1. /\ bitmap' = bitmap \cup {hallado[d]} /\ DeArchivo(d)' = DeArchivo(d) \cup {hallado[d]}
          /\ \A e \in Volcados \ {d} : DeArchivo(e)' = DeArchivo(e)
      BY <2>2, MarcarBitToma
    <3>2. QED
      BY <3>1 DEF BInv, BitmapFiel
  <2>3. QED
    BY <2>1, <2>2
<1>5. QED
  BY <1>2, <1>3, <1>4 DEF BInv

LEMMA ReiniciarBInv ==
  ASSUME BInv, Reiniciar
  PROVE  BInv' /\ SinTomar
<1>1. \A e \in Volcados : Datos(e)' = Datos(e) /\ DeArchivo(e)' = DeArchivo(e)
  BY MismosBloques DEF Reiniciar
<1>2. TypeOK'
  BY DEF Reiniciar, BitmapGuardado, BInv, TypeOK
<1>3. SinBloques' /\ IndiceAlFinal'
  BY DEF Reiniciar, EnCurso, BInv, TypeOK, SinBloques, IndiceAlFinal
<1>4. BitmapFiel'
  BY <1>1 DEF Reiniciar, BitmapGuardado, BInv, BitmapFiel
<1>5. QED
  BY <1>2, <1>3, <1>4 DEF BInv, Reiniciar, SinTomar

LEMMA QuietoBInv ==
  ASSUME BInv, UNCHANGED vars
  PROVE  BInv' /\ SinTomar
<1>1. \A e \in Volcados : Datos(e)' = Datos(e) /\ DeArchivo(e)' = DeArchivo(e)
  BY MismosBloques DEF vars
<1>2. TypeOK' /\ SinBloques' /\ IndiceAlFinal'
  BY DEF vars, BInv, TypeOK, SinBloques, IndiceAlFinal
<1>3. BitmapFiel'
  BY <1>1 DEF vars, BInv, BitmapFiel
<1>4. QED
  BY <1>2, <1>3 DEF BInv, vars, SinTomar

LEMMA BInvPaso == BInv /\ [Next]_vars => BInv'
<1> SUFFICES ASSUME BInv, [Next]_vars PROVE BInv'
  OBVIOUS
<1>1. ASSUME NEW d \in Volcados, NEW tam \in Tamanios, NEW men \in Mensajes, LlegaVolcado(d, tam, men)
      PROVE  BInv'
  BY <1>1, LlegaVolcadoBInv
<1>2. ASSUME NEW d \in Volcados, Avanza(d) PROVE BInv'
  BY <1>2, AvanzaSinMarcar, MarcarBitBInv, SinTomarBInv
<1>3. CASE Reiniciar
  BY <1>3, ReiniciarBInv
<1>4. CASE UNCHANGED vars
  BY <1>4, QuietoBInv
<1>5. QED
  BY <1>1, <1>2, <1>3, <1>4 DEF Next
-----------------------------------------------------------------------------
LEMMA ExclusivosSinTomar ==
  ASSUME BloquesExclusivos, SinTomar
  PROVE  BloquesExclusivos'
<1>1. \A e \in Volcados : /\ Datos(e)' = Datos(e) /\ DeArchivo(e)' = DeArchivo(e)
                          /\ archivo'[e].datos = archivo[e].datos /\ archivo'[e].indice = archivo[e].indice
  BY MismosBloques DEF SinTomar
<1>2. QED
  BY <1>1 DEF BloquesExclusivos

\* No dump finds a bit.
SinBuscar ==
  /\ UNCHANGED <<bitmap, hallado>>
  /\ \A e \in Volcados : fase'[e] = "marcar" => fase[e] = "marcar"

LEMMA SigueLibreSinBuscar ==
  ASSUME SigueLibre, SinBuscar
  PROVE  SigueLibre'
  BY DEF SigueLibre, SinBuscar

\* In series the bit that is set was free, so no dump has that block.
LEMMA MarcarBitExclusivo ==
  ASSUME BInv, SInv, NEW d \in Volcados, MarcarBit(d)
  PROVE  SInv'
<1>1. fase[d] = "marcar" /\ \A e \in Volcados \ {d} : fase'[e] = fase[e] /\ ~EnCurso(e)
  <2>1. fase[d] = "marcar" /\ EnCurso(d)
    BY DEF MarcarBit, EnCurso
  <2>2. fase \in [Volcados -> Fases] /\ \E f \in Fases : fase' \in {fase, [fase EXCEPT ![d] = f]}
    BY DEF MarcarBit, Ir, BInv, TypeOK, Fases
  <2>3. QED
    BY <2>1, <2>2 DEF SInv, UnoEnCurso
<1>2. UnoEnCurso'
  BY <1>1 DEF UnoEnCurso, EnCurso
<1>3. CASE hallado[d] = Ninguno
  <2>1. bitmap' = bitmap /\ archivo' = archivo /\ fase' = fase /\ hallado' = hallado
    BY <1>3, MarcarBitToma DEF MarcarBit
  <2>2. SinBuscar /\ SinTomar
    BY <2>1 DEF SinBuscar, SinTomar
  <2>3. QED
    BY <1>2, <2>2, SigueLibreSinBuscar, ExclusivosSinTomar DEF SInv
<1>4. CASE hallado[d] # Ninguno
  <2>1. hallado[d] \notin bitmap
    BY <1>1, <1>4 DEF SInv, SigueLibre
  <2>2. \A e \in Volcados : hallado[d] \notin DeArchivo(e)
    BY <2>1 DEF BInv, BitmapFiel
  <2>3. SigueLibre'
    <3>1. fase'[d] # "marcar"
      BY <1>4, MarcarBitToma
    <3>2. \A e \in Volcados : fase'[e] # "marcar"
      BY <1>1, <3>1 DEF EnCurso
    <3>3. QED
      BY <3>2 DEF SigueLibre
  <2>4. \A e \in Volcados \ {d} : DeArchivo(d)' \cap DeArchivo(e)' = {}
    BY <1>4, <2>2, MarcarBitToma DEF SInv, BloquesExclusivos
  <2>5. archivo'[d].indice \notin Datos(d)'
    <3>1. CASE Datos(d)' = Datos(d) /\ archivo'[d].indice = hallado[d]
      BY <1>4, <2>2, <3>1, MarcarBitToma
    <3>2. CASE Datos(d)' = Datos(d) \cup {hallado[d]} /\ archivo'[d].indice = Ninguno
      <4>1. archivo[d].indice = Ninguno
        BY DEF MarcarBit, BInv, IndiceAlFinal
      <4>2. Ninguno \notin Datos(d)
        BY <4>1 DEF SInv, BloquesExclusivos
      <4>3. QED
        BY <1>4, <3>2, <4>2
    <3>3. QED
      BY <1>4, <3>1, <3>2, MarcarBitToma
  <2>6. \A i, j \in DOMAIN archivo'[d].datos : i # j => archivo'[d].datos[i] # archivo'[d].datos[j]
    <3> DEFINE s == archivo[d].datos
               b == hallado[d]
    <3>1. s \in Seq(Bits) /\ b \in Bits
      <4>1. archivo[d] \in Archivos /\ hallado[d] \in Bits
        BY <1>4 DEF BInv, TypeOK, Archivos
      <4>2. QED
        BY <4>1 DEF Archivos
    <3>2. \A i, j \in DOMAIN s : i # j => s[i] # s[j]
      BY DEF SInv, BloquesExclusivos
    <3>3. \A i \in DOMAIN s : s[i] # b
      BY <2>2, <1>4, MarcarBitToma DEF Datos
    <3>4. archivo'[d].datos = s \/ archivo'[d].datos = Append(s, b)
      BY <1>4, MarcarBitToma
    <3> HIDE DEF s, b
    <3>5. \A i, j \in DOMAIN Append(s, b) : i # j => Append(s, b)[i] # Append(s, b)[j]
      BY <3>1, <3>2, <3>3, DatosAgregados
    <3>6. QED
      BY <3>2, <3>4, <3>5
  <2>7. \A e \in Volcados \ {d} : /\ Datos(e)' = Datos(e) /\ DeArchivo(e)' = DeArchivo(e)
                                  /\ archivo'[e] = archivo[e]
    BY MarcarBitTipos, MarcarBitToma
  <2>8. \A e \in Volcados \ {d} :
          /\ \A i, j \in DOMAIN archivo'[e].datos : i # j => archivo'[e].datos[i] # archivo'[e].datos[j]
          /\ archivo'[e].indice \notin Datos(e)'
          /\ \A f \in Volcados \ {e} : DeArchivo(e)' \cap DeArchivo(f)' = {}
    <3> SUFFICES ASSUME NEW e \in Volcados \ {d}
                 PROVE  /\ \A i, j \in DOMAIN archivo'[e].datos : i # j => archivo'[e].datos[i] # archivo'[e].datos[j]
                        /\ archivo'[e].indice \notin Datos(e)'
                        /\ \A f \in Volcados \ {e} : DeArchivo(e)' \cap DeArchivo(f)' = {}
      OBVIOUS
    <3>1. /\ \A i, j \in DOMAIN archivo'[e].datos : i # j => archivo'[e].datos[i] # archivo'[e].datos[j]
          /\ archivo'[e].indice \notin Datos(e)'
      BY <2>7 DEF SInv, BloquesExclusivos
    <3>2. ASSUME NEW f \in Volcados \ {e} PROVE DeArchivo(e)' \cap DeArchivo(f)' = {}
      <4>1. CASE f = d
        BY <2>4, <4>1
      <4>2. CASE f # d
        <5>1. DeArchivo(e)' = DeArchivo(e) /\ DeArchivo(f)' = DeArchivo(f)
          BY <2>7, <3>2, <4>2
        <5>2. DeArchivo(e) \cap DeArchivo(f) = {}
          BY <3>2 DEF SInv, BloquesExclusivos
        <5>3. QED
          BY <5>1, <5>2
      <4>3. QED
        BY <4>1, <4>2
    <3>3. QED
      BY <3>1, <3>2
  <2>9. BloquesExclusivos'
    BY <2>4, <2>5, <2>6, <2>8 DEF BloquesExclusivos
  <2>10. QED
    BY <1>2, <2>3, <2>9 DEF SInv
<1>5. QED
  BY <1>3, <1>4

LEMMA AvanzaExclusivo ==
  ASSUME BInv, SInv, NEW d \in Volcados, Avanza(d)
  PROVE  SInv'
<1>1. CASE MarcarBit(d)
  BY <1>1, MarcarBitExclusivo
<1>2. CASE TypeOK' /\ QuietoEn(d)
  <2>1. SinTomar
    BY <1>2, SinTomarBInv
  <2>2. UnoEnCurso'
    BY <1>2 DEF SInv, UnoEnCurso, QuietoEn, EnCurso
  <2>3. SigueLibre'
    <3>1. CASE BuscarBit(d)
      <4>1. hallado'[d] = PrimerLibre /\ bitmap' = bitmap
            /\ \A e \in Volcados \ {d} : hallado'[e] = hallado[e] /\ fase'[e] = fase[e]
        BY <3>1 DEF BuscarBit, Ir, BInv, TypeOK
      <4>2. PrimerLibre # Ninguno => PrimerLibre \notin bitmap
        BY PrimerLibreEsLibre DEF Libres
      <4>3. QED
        BY <4>1, <4>2 DEF SInv, SigueLibre
    <3>2. CASE MarcarBit(d)
      BY <3>2, MarcarBitExclusivo DEF SInv
    <3>3. CASE GuardarMetadata(d) \/ EscribirIndice(d) \/ LeerIndice(d) \/ EscribirDato(d) \/ ResponderOk(d)
      <4>1. fase \in [Volcados -> Fases] /\ bitmap' = bitmap /\ hallado' = hallado
            /\ \E f \in {"metadata", "indice", "leer", "datos", "ok"} : fase' = fase \/ fase' = [fase EXCEPT ![d] = f]
        BY <3>3 DEF GuardarMetadata, EscribirIndice, LeerIndice, EscribirDato, ResponderOk, Ir, BInv, TypeOK, Fases
      <4>2. SinBuscar
        BY <4>1 DEF SinBuscar
      <4>3. QED
        BY <4>2, SigueLibreSinBuscar DEF SInv
    <3>4. QED
      BY <3>1, <3>2, <3>3 DEF Avanza
  <2>4. QED
    BY <2>1, <2>2, <2>3, ExclusivosSinTomar DEF SInv
<1>3. QED
  BY <1>1, <1>2, AvanzaSinMarcar

LEMMA SInvPaso == EnSerie /\ BInv /\ SInv /\ [Next]_vars => SInv'
<1> SUFFICES ASSUME EnSerie, BInv, SInv, [Next]_vars PROVE SInv'
  OBVIOUS
<1>1. ASSUME NEW d \in Volcados, NEW tam \in Tamanios, NEW men \in Mensajes, LlegaVolcado(d, tam, men)
      PROVE  SInv'
  <2>1. \A e \in Volcados : ~EnCurso(e)
    BY <1>1 DEF LlegaVolcado
  <2>2. fase \in [Volcados -> Fases] /\ bitmap' = bitmap /\ hallado' = hallado
        /\ (fase' = [fase EXCEPT ![d] = "buscar"] \/ fase' = [fase EXCEPT ![d] = "error"])
    BY <1>1 DEF LlegaVolcado, Ir, BInv, TypeOK, Fases
  <2>3. SinBuscar
    BY <2>2 DEF SinBuscar
  <2>4. UnoEnCurso'
    BY <2>1, <2>2 DEF UnoEnCurso, EnCurso
  <2>5. QED
    BY <1>1, <2>3, <2>4, LlegaVolcadoBInv, SigueLibreSinBuscar, ExclusivosSinTomar DEF SInv
<1>2. ASSUME NEW d \in Volcados, Avanza(d) PROVE SInv'
  BY <1>2, AvanzaExclusivo
<1>3. CASE Reiniciar
  <2>1. \A e \in Volcados : ~EnCurso(e)' /\ fase'[e] # "marcar"
    BY <1>3 DEF Reiniciar, EnCurso
  <2>2. UnoEnCurso' /\ SigueLibre'
    BY <2>1 DEF UnoEnCurso, SigueLibre
  <2>3. QED
    BY <1>3, <2>2, ReiniciarBInv, ExclusivosSinTomar DEF SInv
<1>4. CASE UNCHANGED vars
  <2>1. SinBuscar /\ UnoEnCurso'
    BY <1>4 DEF vars, SinBuscar, SInv, UnoEnCurso, EnCurso
  <2>2. QED
    BY <1>4, <2>1, QuietoBInv, SigueLibreSinBuscar, ExclusivosSinTomar DEF SInv
<1>5. QED
  BY <1>1, <1>2, <1>3, <1>4 DEF Next

LEMMA InicioSInv == Init => SInv
<1> SUFFICES ASSUME Init PROVE SInv
  OBVIOUS
<1>1. UnoEnCurso /\ SigueLibre
  BY DEF Init, UnoEnCurso, SigueLibre, EnCurso
<1>2. \A d \in Volcados : archivo[d].datos = <<>> /\ Datos(d) = {} /\ DeArchivo(d) = {}
  BY DEF Init, DeArchivo, Datos, SinArchivo, FCB
<1>3. BloquesExclusivos
  BY <1>2 DEF BloquesExclusivos
<1>4. QED
  BY <1>1, <1>3 DEF SInv
-----------------------------------------------------------------------------
\* The state of Filesystem keeps its types.
THEOREM TiposBloques == Spec => []TypeOK
<1>1. BInv => TypeOK
  BY DEF BInv
<1>2. QED
  BY InicioBInv, BInvPaso, <1>1, PTL DEF Spec

\* The bitmap has the blocks of the files, those of lost dumps too, and no
\* other, also when dumps are served at the same time: setear_bloque_bits and
\* the FCB never disagree.
THEOREM BitmapExacto == Spec => []BitmapFiel
<1>1. BInv => BitmapFiel
  BY DEF BInv
<1>2. QED
  BY InicioBInv, BInvPaso, <1>1, PTL DEF Spec

\* If dumps come one after the other, encontrar_primer_bit_libre and
\* setear_bloque_bits never give a block to two files, or twice to one.
THEOREM BloquesSinCompartir == ASSUME EnSerie PROVE Spec => []BloquesExclusivos
<1>1. BInv /\ SInv /\ [Next]_vars => (BInv /\ SInv)'
  BY BInvPaso, SInvPaso
<1>2. Init => BInv /\ SInv
  BY InicioBInv, InicioSInv
<1>3. SInv => BloquesExclusivos
  BY DEF SInv
<1>4. QED
  BY <1>1, <1>2, <1>3, PTL DEF Spec-----------------------------------------------------------------------------
(***************************************************************************)
(* Dumps in series can be read for ever after, if the file of blocks has   *)
(* whole bytes of bitmap and an index fits in its block.                   *)
(***************************************************************************)
Cabe == BLOCK_COUNT % 8 = 0 /\ \A tam \in Tamanios : EnBloques(tam) * Puntero <= BLOCK_SIZE

\* Data block i of the dump has a part of the message.
Toca(d, i) == (i - 1) * BLOCK_SIZE < archivo[d].mensaje

\* While a dump takes blocks there are enough left for it, and the bit it found is free.
Alcanzan(d) ==
  /\ fase[d] \in {"buscar", "marcar"} =>
       /\ Len(archivo[d].datos) <= Cantidad(d)
       /\ Cantidad(d) + 1 <= Cardinality(Libres) + Len(archivo[d].datos)
  /\ fase[d] = "marcar" => hallado[d] \in Libres

\* A dump that has its blocks has all of them, and then its metadata.
Tomados(d) ==
  /\ archivo[d].mensaje <= archivo[d].tamanio
  /\ fase[d] \in {"metadata", "indice", "leer", "datos", "ok"} =>
       Len(archivo[d].datos) = Cantidad(d) /\ archivo[d].indice \in Bits
  /\ fase[d] \in {"indice", "leer", "datos", "ok"} => d \in metadata

\* What a dump has written is in its blocks.
Grabado(d) ==
  /\ fase[d] \in {"leer", "datos", "ok"} => bloques[archivo[d].indice] = Parte(d, "indice", 0)
  /\ fase[d] \in {"nuevo", "buscar", "marcar", "metadata", "indice", "leer"} => escritos[d] = 0
  /\ fase[d] = "ok" => escritos[d] = Cantidad(d)
  /\ fase[d] \in {"datos", "ok"} =>
       \A i \in DOMAIN archivo[d].datos : i <= escritos[d] /\ Toca(d, i) =>
         bloques[archivo[d].datos[i]] = Parte(d, "datos", i - 1)

LInv == ~indefinido /\ \A d \in Volcados : Alcanzan(d) /\ Tomados(d) /\ Grabado(d)

LEMMA DivisionEntera ==
  ASSUME NEW a \in Nat, NEW b \in Nat \ {0}
  PROVE  a \div b \in Nat /\ a % b \in 0 .. b - 1 /\ a = b * (a \div b) + (a % b)
  OBVIOUS

\* One more factor is at least one b more.
LEMMA ProductoCreciente ==
  ASSUME NEW x \in Nat, NEW y \in Nat, NEW b \in Nat, x < y
  PROVE  x * b + b <= y * b
<1>1. PICK k \in Nat : y = x + 1 + k
  <2>1. y - x - 1 \in Nat /\ y = x + 1 + (y - x - 1)
    OBVIOUS
  <2>2. QED
    BY <2>1
<1>2. y * b = x * b + b + k * b
  BY <1>1
<1>3. QED
  BY <1>2

LEMMA TamanioDeBloque == BLOCK_SIZE \in Nat \ {0} /\ BLOCK_COUNT \in Nat \ {0}
  BY DEF Puntero

\* tamanio_en_bloques: the blocks hold the partition.
LEMMA EnBloquesCubre ==
  ASSUME NEW tam \in Nat
  PROVE  EnBloques(tam) \in Nat \ {0} /\ tam <= EnBloques(tam) * BLOCK_SIZE
<1> DEFINE q == (tam + BLOCK_SIZE - 1) \div BLOCK_SIZE
<1>1. CASE tam = 0
  BY <1>1, TamanioDeBloque DEF EnBloques
<1>2. CASE tam # 0
  <2>1. tam + BLOCK_SIZE - 1 \in Nat
    BY TamanioDeBloque
  <2>2. q \in Nat /\ \E r \in 0 .. BLOCK_SIZE - 1 : tam + BLOCK_SIZE - 1 = BLOCK_SIZE * q + r
    BY <2>1, TamanioDeBloque, DivisionEntera
  <2>3. EnBloques(tam) = q
    BY <1>2 DEF EnBloques
  <2> HIDE DEF q
  <2>4. tam <= BLOCK_SIZE * q /\ BLOCK_SIZE * q = q * BLOCK_SIZE
    BY <2>2, TamanioDeBloque
  <2>5. q # 0
    BY <1>2, <2>4, TamanioDeBloque
  <2>6. QED
    BY <2>2, <2>3, <2>4, <2>5
<1>3. QED
  BY <1>1, <1>2

\* With whole bytes of bitmap every bit has its block.
LEMMA BitsDeBloques == Cabe => Bits = 0 .. BLOCK_COUNT - 1
<1> SUFFICES ASSUME Cabe PROVE Bits = 0 .. BLOCK_COUNT - 1
  OBVIOUS
<1>1. BLOCK_COUNT % 8 = 0 /\ BLOCK_COUNT \in Nat
  BY TamanioDeBloque DEF Cabe
<1>2. 8 * ((BLOCK_COUNT + 7) \div 8) = BLOCK_COUNT
  BY <1>1
<1>3. QED
  BY <1>2 DEF Bits

\* The types of what a dump has.
LEMMA TiposDe ==
  ASSUME BInv, NEW d \in Volcados
  PROVE  /\ archivo[d].datos \in Seq(Bits) /\ Len(archivo[d].datos) \in Nat
         /\ DOMAIN archivo[d].datos = 1 .. Len(archivo[d].datos)
         /\ \A i \in DOMAIN archivo[d].datos : archivo[d].datos[i] \in Bits
         /\ archivo[d].indice \in Int /\ archivo[d].indice \in Bits \cup {Ninguno}
         /\ archivo[d].tamanio \in Tamanios \cup {0} /\ archivo[d].tamanio \in Nat
         /\ archivo[d].mensaje \in Nat /\ escritos[d] \in Nat /\ Cantidad(d) \in Nat \ {0}
         /\ fase \in [Volcados -> Fases] /\ archivo \in [Volcados -> Archivos]
         /\ escritos \in [Volcados -> Nat] /\ hallado \in [Volcados -> Bits \cup {Ninguno}]
<1>1. /\ fase \in [Volcados -> Fases] /\ archivo \in [Volcados -> Archivos]
      /\ escritos \in [Volcados -> Nat] /\ hallado \in [Volcados -> Bits \cup {Ninguno}]
  BY DEF BInv, TypeOK, Archivos, Fases
<1>2. /\ archivo[d].datos \in Seq(Bits) /\ archivo[d].indice \in Bits \cup {Ninguno}
      /\ archivo[d].tamanio \in Tamanios \cup {0} /\ archivo[d].mensaje \in Mensajes \cup {0}
  BY <1>1 DEF Archivos
<1>3. archivo[d].tamanio \in Nat /\ archivo[d].mensaje \in Nat /\ archivo[d].indice \in Int
  <2>1. archivo[d].indice \in Int
    BY <1>2, BitsNaturales
  <2>2. Tamanios \cup {0} \subseteq Nat /\ Mensajes \cup {0} \subseteq Nat
    OBVIOUS
  <2>3. QED
    BY <1>2, <2>1, <2>2, Zenon
<1>4. Cantidad(d) \in Nat \ {0}
  BY <1>3, EnBloquesCubre DEF Cantidad
<1>5. /\ Len(archivo[d].datos) \in Nat /\ DOMAIN archivo[d].datos = 1 .. Len(archivo[d].datos)
      /\ \A i \in DOMAIN archivo[d].datos : archivo[d].datos[i] \in Bits
  BY <1>2, LenProperties, ElementOfSeq
<1>6. QED
  BY <1>1, <1>2, <1>3, <1>4, <1>5

\* escribir_bloque_de_indice writes one block.
LEMMA IndiceDeUno ==
  ASSUME Cabe, BInv, NEW d \in Volcados
  PROVE  DelIndice(d) = {archivo[d].indice}
<1> DEFINE n == Cantidad(d) * Puntero
           q == (n + BLOCK_SIZE - 1) \div BLOCK_SIZE
<1>1. n \in Nat /\ 1 <= n /\ n <= BLOCK_SIZE
  <2>1. Cantidad(d) \in Nat \ {0} /\ archivo[d].tamanio \in Tamanios \cup {0}
    BY TiposDe
  <2>2. CASE archivo[d].tamanio = 0
    <3>1. PICK k \in 1 .. BLOCK_SIZE : BLOCK_SIZE = Puntero * k
      OBVIOUS
    <3>2. Cantidad(d) = 1
      BY <2>2 DEF Cantidad, EnBloques
    <3>3. QED
      BY <3>1, <3>2, TamanioDeBloque DEF Puntero
  <2>3. CASE archivo[d].tamanio \in Tamanios
    <3>1. Cantidad(d) * Puntero <= BLOCK_SIZE
      BY <2>3 DEF Cabe, Cantidad
    <3>2. QED
      BY <2>1, <3>1 DEF Puntero
  <2>4. QED
    BY <2>1, <2>2, <2>3
<1> HIDE DEF n
<1>2. n + BLOCK_SIZE - 1 \in Nat
  BY <1>1, TamanioDeBloque
<1>3. q \in Nat /\ \E r \in 0 .. BLOCK_SIZE - 1 : n + BLOCK_SIZE - 1 = BLOCK_SIZE * q + r
  BY <1>2, TamanioDeBloque, DivisionEntera
<1> HIDE DEF q
<1>4. PICK r \in 0 .. BLOCK_SIZE - 1 : n + BLOCK_SIZE - 1 = q * BLOCK_SIZE + r
  BY <1>3, TamanioDeBloque
<1>5. q # 0
  BY <1>1, <1>4, TamanioDeBloque
<1>6. ~(q > 1)
  <2>1. SUFFICES ASSUME q > 1 PROVE FALSE
    OBVIOUS
  <2>2. 1 * BLOCK_SIZE + BLOCK_SIZE <= q * BLOCK_SIZE
    BY <1>3, <2>1, TamanioDeBloque, ProductoCreciente
  <2>3. q * BLOCK_SIZE \in Nat
    BY <1>3, TamanioDeBloque
  <2>4. QED
    BY <1>1, <1>4, <2>2, <2>3, TamanioDeBloque
<1>7. q = 1
  BY <1>3, <1>5, <1>6
<1>8. archivo[d].indice \in Int
  BY TiposDe
<1>9. DelIndice(d) = archivo[d].indice .. archivo[d].indice + q - 1
  BY Zenon DEF DelIndice, q, n
<1>10. QED
  BY <1>7, <1>8, <1>9

\* A block that has a part of the message is written with it.
LEMMA PorcionDato ==
  ASSUME BInv, NEW d \in Volcados, NEW i \in Nat, Toca(d, i + 1)
  PROVE  Porcion(d, i) = "datos"
<1> DEFINE m == archivo[d].mensaje
           llenos == m \div BLOCK_SIZE
           ultimo == m % BLOCK_SIZE
<1>1. m \in Nat
  BY TiposDe
<1> HIDE DEF m
<1>2. llenos \in Nat /\ ultimo \in 0 .. BLOCK_SIZE - 1 /\ m = BLOCK_SIZE * llenos + ultimo
  BY <1>1, TamanioDeBloque, DivisionEntera
<1> HIDE DEF llenos, ultimo
<1>3. m = llenos * BLOCK_SIZE + ultimo
  BY <1>2, TamanioDeBloque
<1>4. i * BLOCK_SIZE < m
  <2>1. (i + 1) - 1 = i
    OBVIOUS
  <2>2. QED
    BY <2>1 DEF Toca, m
<1>5. i * BLOCK_SIZE \in Nat /\ llenos * BLOCK_SIZE \in Nat
  BY <1>2, TamanioDeBloque
<1>6. ~(llenos < i)
  <2>1. SUFFICES ASSUME llenos < i PROVE FALSE
    OBVIOUS
  <2>2. llenos * BLOCK_SIZE + BLOCK_SIZE <= i * BLOCK_SIZE
    BY <1>2, <2>1, TamanioDeBloque, ProductoCreciente
  <2>3. QED
    BY <1>2, <1>3, <1>4, <1>5, <2>2, TamanioDeBloque
<1>7. i = llenos => ultimo # 0
  BY <1>2, <1>3, <1>4, <1>5
<1>8. i < llenos \/ (i = llenos /\ ultimo # 0)
  BY <1>2, <1>6, <1>7
<1>9. QED
  BY <1>8 DEF Porcion, llenos, ultimo, m
\* There are finitely many bits.
LEMMA LibresFinito == IsFiniteSet(Libres) /\ Cardinality(Libres) \in Nat
<1>1. IsFiniteSet(Bits)
  <2>1. 8 * ((BLOCK_COUNT + 7) \div 8) - 1 \in Int
    BY TamanioDeBloque
  <2>2. QED
    BY <2>1, FS_Interval DEF Bits
<1>2. Libres \in SUBSET Bits
  BY DEF Libres
<1>3. QED
  BY <1>1, <1>2, FS_Subset, FS_CardinalityType
-----------------------------------------------------------------------------
\* A step that leaves a dump and its blocks as they were.
LEMMA Ajeno ==
  ASSUME LInv, NEW e \in Volcados,
         archivo'[e] = archivo[e], fase'[e] = fase[e], hallado'[e] = hallado[e], escritos'[e] = escritos[e],
         fase[e] \in {"buscar", "marcar"} => bitmap' = bitmap,
         e \in metadata => e \in metadata',
         \A b \in DeArchivo(e) : bloques'[b] = bloques[b]
  PROVE  (Alcanzan(e) /\ Tomados(e) /\ Grabado(e))'
<1>1. Cantidad(e)' = Cantidad(e) /\ \A i : Toca(e, i)' <=> Toca(e, i)
  BY DEF Cantidad, Toca
<1>2. Alcanzan(e)'
  BY <1>1 DEF LInv, Alcanzan, Libres
<1>3. Tomados(e)'
  BY <1>1 DEF LInv, Tomados
<1>4. fase[e] \in {"leer", "datos", "ok"} => bloques'[archivo[e].indice] = bloques[archivo[e].indice]
  <2>1. SUFFICES ASSUME fase[e] \in {"leer", "datos", "ok"} PROVE archivo[e].indice \in DeArchivo(e)
    OBVIOUS
  <2>2. archivo[e].indice \in Bits
    BY <2>1 DEF LInv, Tomados
  <2>3. QED
    BY <2>2, BitsNaturales DEF DeArchivo
<1>5. \A i \in DOMAIN archivo[e].datos : bloques'[archivo[e].datos[i]] = bloques[archivo[e].datos[i]]
  BY DEF DeArchivo, Datos
<1>6. Grabado(e)'
  BY <1>1, <1>4, <1>5 DEF LInv, Grabado
<1>7. QED
  BY <1>2, <1>3, <1>6

\* The dumps other than d are not taking blocks.
LEMMA LosDemas ==
  ASSUME SInv, NEW d \in Volcados, EnCurso(d), NEW e \in Volcados \ {d}
  PROVE  fase[e] \notin {"buscar", "marcar"} /\ DeArchivo(e) \cap DeArchivo(d) = {}
  BY DEF SInv, UnoEnCurso, EnCurso, BloquesExclusivos

LEMMA LlegaVolcadoLInv ==
  ASSUME BInv, LInv, NEW d \in Volcados, NEW tam \in Tamanios, NEW men \in Mensajes, LlegaVolcado(d, tam, men)
  PROVE  LInv'
<1>1. /\ fase[d] = "nuevo" /\ men <= tam
      /\ UNCHANGED <<bitmap, bloques, metadata, hallado, escritos, indefinido>>
      /\ fase \in [Volcados -> Fases] /\ archivo \in [Volcados -> Archivos]
  BY TiposDe DEF LlegaVolcado
<1>2. ASSUME NEW e \in Volcados \ {d} PROVE (Alcanzan(e) /\ Tomados(e) /\ Grabado(e))'
  <2>1. archivo'[e] = archivo[e] /\ fase'[e] = fase[e]
    BY <1>1 DEF LlegaVolcado, Ir
  <2>2. QED
    BY <1>1, <2>1, Ajeno
<1>3. (Alcanzan(d) /\ Tomados(d) /\ Grabado(d))'
  <2>1. CASE Alcanza(tam)
    <3>1. archivo'[d] = FCB(tam, men) /\ fase'[d] = "buscar"
      BY <1>1, <2>1 DEF LlegaVolcado, Ir
    <3>2. archivo'[d].datos = <<>> /\ archivo'[d].tamanio = tam /\ archivo'[d].mensaje = men
      BY <3>1 DEF FCB
    <3>3. Cantidad(d)' = EnBloques(tam) /\ Libres' = Libres /\ Len(archivo'[d].datos) = 0
      BY <1>1, <3>2 DEF Cantidad, Libres
    <3>4. EnBloques(tam) \in Nat /\ EnBloques(tam) + 1 <= Cardinality(Libres)
      BY <2>1, EnBloquesCubre DEF Alcanza
    <3>5. Alcanzan(d)'
      BY <3>1, <3>3, <3>4, LibresFinito DEF Alcanzan
    <3>6. Tomados(d)' /\ Grabado(d)'
      BY <1>1, <3>1, <3>2 DEF Tomados, Grabado, LInv
    <3>7. QED
      BY <3>5, <3>6
  <2>2. CASE ~Alcanza(tam)
    <3>1. archivo'[d] = archivo[d] /\ fase'[d] = "error"
      BY <1>1, <2>2 DEF LlegaVolcado, Ir
    <3>2. QED
      BY <3>1 DEF Alcanzan, Tomados, Grabado, LInv
  <2>3. QED
    BY <2>1, <2>2
<1>4. QED
  BY <1>1, <1>2, <1>3 DEF LInv

LEMMA BuscarBitLInv ==
  ASSUME BInv, SInv, LInv, NEW d \in Volcados, BuscarBit(d)
  PROVE  LInv'
<1>1. /\ fase[d] = "buscar" /\ fase' = [fase EXCEPT ![d] = "marcar"]
      /\ hallado' = [hallado EXCEPT ![d] = PrimerLibre]
      /\ UNCHANGED <<bitmap, bloques, archivo, metadata, escritos, indefinido>>
      /\ fase \in [Volcados -> Fases] /\ hallado \in [Volcados -> Bits \cup {Ninguno}]
  BY TiposDe DEF BuscarBit, Ir
<1>2. ASSUME NEW e \in Volcados \ {d} PROVE (Alcanzan(e) /\ Tomados(e) /\ Grabado(e))'
  <2>1. fase'[e] = fase[e] /\ hallado'[e] = hallado[e]
    BY <1>1
  <2>2. QED
    BY <1>1, <2>1, Ajeno
<1>3. fase'[d] = "marcar" /\ hallado'[d] = PrimerLibre
  BY <1>1
<1>4. Len(archivo[d].datos) <= Cantidad(d) /\ Cantidad(d) + 1 <= Cardinality(Libres) + Len(archivo[d].datos)
  BY <1>1 DEF LInv, Alcanzan
<1>5. PrimerLibre \in Libres
  <2>1. Cardinality(Libres) # 0
    BY <1>4, TiposDe, LibresFinito
  <2>2. Libres # {}
    BY <2>1, FS_EmptySet
  <2>3. QED
    BY <2>2, PrimerLibreEsLibre
<1>6. Cantidad(d)' = Cantidad(d) /\ Libres' = Libres
  BY <1>1 DEF Cantidad, Libres
<1>7. (Alcanzan(d) /\ Tomados(d) /\ Grabado(d))'
  <2>1. Alcanzan(d)'
    BY <1>1, <1>3, <1>4, <1>5, <1>6 DEF Alcanzan
  <2>2. Tomados(d)' /\ Grabado(d)'
    BY <1>1, <1>3 DEF LInv, Tomados, Grabado
  <2>3. QED
    BY <2>1, <2>2
<1>8. QED
  BY <1>1, <1>2, <1>7 DEF LInv

LEMMA MarcarBitLInv ==
  ASSUME BInv, SInv, LInv, NEW d \in Volcados, MarcarBit(d)
  PROVE  LInv'
<1>1. /\ fase[d] = "marcar" /\ hallado[d] \in Libres /\ hallado[d] \in Bits /\ hallado[d] # Ninguno
      /\ archivo[d].indice = Ninguno
      /\ UNCHANGED <<bloques, metadata, hallado, escritos>>
      /\ Len(archivo[d].datos) <= Cantidad(d)
      /\ Cantidad(d) + 1 <= Cardinality(Libres) + Len(archivo[d].datos)
  <2>1. fase[d] = "marcar" /\ UNCHANGED <<bloques, metadata, hallado, escritos>>
    BY DEF MarcarBit
  <2>2. /\ hallado[d] \in Libres /\ Len(archivo[d].datos) <= Cantidad(d)
        /\ Cantidad(d) + 1 <= Cardinality(Libres) + Len(archivo[d].datos)
    BY <2>1 DEF LInv, Alcanzan
  <2>3. hallado[d] \in Bits /\ hallado[d] # Ninguno
    BY <2>2, BitsNaturales DEF Libres
  <2>4. archivo[d].indice = Ninguno
    BY MarcarBitTipos
  <2>5. QED
    BY <2>1, <2>2, <2>3, <2>4
<1>2. /\ bitmap' = bitmap \cup {hallado[d]} /\ UNCHANGED indefinido
      /\ fase \in [Volcados -> Fases] /\ archivo \in [Volcados -> Archivos]
  BY <1>1, TiposDe DEF MarcarBit, Marcados
<1>3. ASSUME NEW e \in Volcados \ {d} PROVE (Alcanzan(e) /\ Tomados(e) /\ Grabado(e))'
  <2>1. archivo'[e] = archivo[e] /\ fase'[e] = fase[e]
    BY MarcarBitTipos
  <2>2. fase[e] \notin {"buscar", "marcar"}
    BY <1>1, LosDemas DEF EnCurso
  <2>3. QED
    BY <1>1, <2>1, <2>2, Ajeno
<1>4. Cardinality(Libres') = Cardinality(Libres) - 1 /\ Cardinality(Libres) \in Nat
  <2>1. Libres' = Libres \ {hallado[d]}
    BY <1>2 DEF Libres
  <2>2. QED
    BY <1>1, <2>1, LibresFinito, FS_RemoveElement
<1>5. (Alcanzan(d) /\ Tomados(d) /\ Grabado(d))'
  <2>1. CASE Len(archivo[d].datos) < Cantidad(d)
    <3>1. /\ archivo' = [archivo EXCEPT ![d].datos = Append(@, hallado[d])]
          /\ fase' = [fase EXCEPT ![d] = "buscar"]
      BY <1>1, <2>1 DEF MarcarBit, Ir
    <3>2. /\ fase'[d] = "buscar" /\ archivo'[d].datos = Append(archivo[d].datos, hallado[d])
          /\ archivo'[d].tamanio = archivo[d].tamanio /\ archivo'[d].mensaje = archivo[d].mensaje
      BY <1>2, <3>1 DEF Archivos
    <3>3. Len(archivo'[d].datos) = Len(archivo[d].datos) + 1 /\ Cantidad(d)' = Cantidad(d)
      <4>1. archivo[d].datos \in Seq(Bits)
        BY TiposDe
      <4>2. Len(Append(archivo[d].datos, hallado[d])) = Len(archivo[d].datos) + 1
        BY <1>1, <4>1, AppendProperties
      <4>3. QED
        BY <3>2, <4>2 DEF Cantidad
    <3>4. Alcanzan(d)'
      BY <1>1, <1>4, <2>1, <3>2, <3>3, TiposDe DEF Alcanzan
    <3>5. Tomados(d)' /\ Grabado(d)'
      BY <1>1, <3>2 DEF LInv, Tomados, Grabado
    <3>6. QED
      BY <3>4, <3>5
  <2>2. CASE ~(Len(archivo[d].datos) < Cantidad(d))
    <3>1. /\ archivo' = [archivo EXCEPT ![d].indice = hallado[d]]
          /\ fase' = [fase EXCEPT ![d] = "metadata"]
      BY <1>1, <2>2 DEF MarcarBit, Ir
    <3>2. /\ fase'[d] = "metadata" /\ archivo'[d].datos = archivo[d].datos /\ archivo'[d].indice = hallado[d]
          /\ archivo'[d].tamanio = archivo[d].tamanio /\ archivo'[d].mensaje = archivo[d].mensaje
      BY <1>2, <3>1 DEF Archivos
    <3>3. Len(archivo[d].datos) = Cantidad(d) /\ Cantidad(d)' = Cantidad(d)
      <4>1. Len(archivo[d].datos) = Cantidad(d)
        BY <1>1, <2>2, TiposDe
      <4>2. QED
        BY <3>2, <4>1 DEF Cantidad
    <3>4. Alcanzan(d)' /\ Tomados(d)' /\ Grabado(d)'
      BY <1>1, <3>2, <3>3 DEF LInv, Alcanzan, Tomados, Grabado
    <3>5. QED
      BY <3>4
  <2>3. QED
    BY <2>1, <2>2
<1>6. QED
  BY <1>2, <1>3, <1>5 DEF LInv
LEMMA GuardarMetadataLInv ==
  ASSUME BInv, SInv, LInv, NEW d \in Volcados, GuardarMetadata(d)
  PROVE  LInv'
<1>1. /\ fase[d] = "metadata" /\ fase' = [fase EXCEPT ![d] = "indice"] /\ metadata' = metadata \cup {d}
      /\ UNCHANGED <<bitmap, bloques, archivo, hallado, escritos, indefinido>>
      /\ fase \in [Volcados -> Fases]
  BY TiposDe DEF GuardarMetadata, Ir
<1>2. ASSUME NEW e \in Volcados \ {d} PROVE (Alcanzan(e) /\ Tomados(e) /\ Grabado(e))'
  <2>1. fase'[e] = fase[e]
    BY <1>1
  <2>2. QED
    BY <1>1, <2>1, Ajeno
<1>3. fase'[d] = "indice" /\ Cantidad(d)' = Cantidad(d)
  BY <1>1 DEF Cantidad
<1>4. (Alcanzan(d) /\ Tomados(d) /\ Grabado(d))'
  BY <1>1, <1>3 DEF LInv, Alcanzan, Tomados, Grabado
<1>5. QED
  BY <1>1, <1>2, <1>4 DEF LInv

\* The index block of a dump that has its blocks is one of the file of blocks.
LEMMA IndiceAdentro ==
  ASSUME Cabe, BInv, LInv, NEW d \in Volcados, fase[d] \in {"metadata", "indice", "leer", "datos", "ok"}
  PROVE  /\ DelIndice(d) = {archivo[d].indice} /\ ~Fuera(DelIndice(d))
         /\ archivo[d].indice \in 0 .. BLOCK_COUNT - 1 /\ archivo[d].indice \in DeArchivo(d)
         /\ archivo[d].indice - archivo[d].indice = 0
<1>1. archivo[d].indice \in Bits /\ archivo[d].indice \in Int
  BY TiposDe DEF LInv, Tomados
<1>2. archivo[d].indice \in DeArchivo(d)
  BY <1>1, BitsNaturales DEF DeArchivo
<1>3. QED
  BY <1>1, <1>2, BitsDeBloques, IndiceDeUno DEF Fuera

LEMMA EscribirIndiceLInv ==
  ASSUME Cabe, BInv, SInv, LInv, NEW d \in Volcados, EscribirIndice(d)
  PROVE  LInv'
<1>1. fase[d] = "indice" /\ EnCurso(d) /\ fase \in [Volcados -> Fases]
  BY TiposDe DEF EscribirIndice, EnCurso
<1> DEFINE b == archivo[d].indice
<1>2. DelIndice(d) = {b} /\ ~Fuera(DelIndice(d)) /\ b \in 0 .. BLOCK_COUNT - 1 /\ b \in DeArchivo(d) /\ b - b = 0
  BY <1>1, IndiceAdentro
<1>3. /\ fase' = [fase EXCEPT ![d] = "leer"]
      /\ bloques' = [c \in DOMAIN bloques |-> IF c \in {b} THEN Parte(d, "indice", c - b) ELSE bloques[c]]
      /\ UNCHANGED <<bitmap, archivo, metadata, hallado, escritos, indefinido>>
  BY <1>2 DEF EscribirIndice, Ir
<1>4. DOMAIN bloques = 0 .. BLOCK_COUNT - 1
  BY DEF BInv, TypeOK
<1> HIDE DEF b
<1>5. bloques'[b] = Parte(d, "indice", 0)
  BY <1>2, <1>3, <1>4
<1>6. ASSUME NEW e \in Volcados \ {d} PROVE (Alcanzan(e) /\ Tomados(e) /\ Grabado(e))'
  <2>1. fase'[e] = fase[e] /\ b \notin DeArchivo(e)
    BY <1>1, <1>2, <1>3, LosDemas
  <2>2. DeArchivo(e) \subseteq Bits
    BY TiposDe DEF DeArchivo, Datos
  <2>3. \A c \in DeArchivo(e) : bloques'[c] = bloques[c]
    BY <1>3, <1>4, <2>1, <2>2, BitsDeBloques
  <2>4. QED
    BY <1>3, <2>1, <2>3, Ajeno
<1>7. fase'[d] = "leer" /\ Cantidad(d)' = Cantidad(d)
  BY <1>1, <1>3 DEF Cantidad
<1>8. (Alcanzan(d) /\ Tomados(d) /\ Grabado(d))'
  BY <1>1, <1>3, <1>5, <1>7 DEF LInv, Alcanzan, Tomados, Grabado, b
<1>9. QED
  BY <1>3, <1>6, <1>8 DEF LInv

LEMMA LeerIndiceLInv ==
  ASSUME Cabe, BInv, SInv, LInv, NEW d \in Volcados, LeerIndice(d)
  PROVE  LInv'
<1>1. fase[d] = "leer" /\ fase \in [Volcados -> Fases] /\ escritos[d] = 0
  BY TiposDe DEF LeerIndice, LInv, Grabado
<1>2. IndiceIntacto(d)
  BY <1>1, IndiceAdentro DEF LInv, Grabado, IndiceIntacto
<1>3. /\ fase' = [fase EXCEPT ![d] = "datos"]
      /\ UNCHANGED <<bitmap, bloques, archivo, metadata, hallado, escritos, indefinido>>
  BY <1>2 DEF LeerIndice, Ir
<1>4. ASSUME NEW e \in Volcados \ {d} PROVE (Alcanzan(e) /\ Tomados(e) /\ Grabado(e))'
  <2>1. fase'[e] = fase[e]
    BY <1>1, <1>3
  <2>2. QED
    BY <1>3, <2>1, Ajeno
<1>5. fase'[d] = "datos" /\ Cantidad(d)' = Cantidad(d)
  BY <1>1, <1>3 DEF Cantidad
<1>6. \A i \in DOMAIN archivo[d].datos : ~(i <= 0)
  BY TiposDe
<1>7. (Alcanzan(d) /\ Tomados(d) /\ Grabado(d))'
  BY <1>1, <1>3, <1>5, <1>6 DEF LInv, Alcanzan, Tomados, Grabado
<1>8. QED
  BY <1>3, <1>4, <1>7 DEF LInv

LEMMA EscribirDatoLInv ==
  ASSUME Cabe, BInv, SInv, LInv, NEW d \in Volcados, EscribirDato(d)
  PROVE  LInv'
<1> DEFINE s == archivo[d].datos
           i == escritos[d]
           b == s[i + 1]
<1>1. /\ fase[d] = "datos" /\ EnCurso(d) /\ i < Cantidad(d)
      /\ escritos' = [escritos EXCEPT ![d] = i + 1]
      /\ UNCHANGED <<bitmap, archivo, metadata, fase, hallado>>
  BY DEF EscribirDato, EnCurso
<1>2. /\ i \in Nat /\ escritos \in [Volcados -> Nat] /\ DOMAIN s = 1 .. Len(s) /\ Len(s) \in Nat
      /\ \A j \in DOMAIN s : s[j] \in Bits
  BY TiposDe
<1>3. i + 1 \in DOMAIN s
  <2>1. Len(s) = Cantidad(d)
    BY <1>1 DEF LInv, Tomados
  <2>2. QED
    BY <1>1, <1>2, <2>1
<1>4. b \in 0 .. BLOCK_COUNT - 1 /\ b \in DeArchivo(d) /\ ~Fuera({b})
  <2>1. b \in Bits
    BY <1>2, <1>3
  <2>2. b \in DeArchivo(d)
    BY <1>3 DEF DeArchivo, Datos
  <2>3. QED
    BY <2>1, <2>2, BitsDeBloques DEF Fuera
<1>5. /\ UNCHANGED indefinido
      /\ \/ Porcion(d, i) = "nada" /\ UNCHANGED bloques
         \/ Porcion(d, i) # "nada" /\ bloques' = [bloques EXCEPT ![b] = Parte(d, Porcion(d, i), i)]
  BY <1>4 DEF EscribirDato
<1>6. DOMAIN bloques = 0 .. BLOCK_COUNT - 1
  BY DEF BInv, TypeOK
<1>7. \A c \in 0 .. BLOCK_COUNT - 1 : c # b => bloques'[c] = bloques[c]
  BY <1>5, <1>6
<1>8. Toca(d, i + 1) => bloques'[b] = Parte(d, "datos", i)
  BY <1>2, <1>4, <1>5, <1>6, PorcionDato
<1> HIDE DEF b
<1>9. ASSUME NEW e \in Volcados \ {d} PROVE (Alcanzan(e) /\ Tomados(e) /\ Grabado(e))'
  <2>1. escritos'[e] = escritos[e] /\ b \notin DeArchivo(e)
    BY <1>1, <1>2, <1>4, LosDemas
  <2>2. DeArchivo(e) \subseteq Bits
    BY TiposDe DEF DeArchivo, Datos
  <2>3. \A c \in DeArchivo(e) : bloques'[c] = bloques[c]
    BY <1>7, <2>1, <2>2, BitsDeBloques
  <2>4. QED
    BY <1>1, <2>1, <2>3, Ajeno
<1>10. escritos'[d] = i + 1 /\ Cantidad(d)' = Cantidad(d) /\ \A j : Toca(d, j)' <=> Toca(d, j)
  BY <1>1, <1>2 DEF Cantidad, Toca
<1>11. archivo[d].indice # b /\ archivo[d].indice \in 0 .. BLOCK_COUNT - 1
  <2>1. b \in Datos(d)
    BY <1>3 DEF Datos, b
  <2>2. QED
    BY <1>1, <2>1, IndiceAdentro DEF SInv, BloquesExclusivos
<1>12. ASSUME NEW j \in DOMAIN s, j <= i + 1, Toca(d, j)
       PROVE  bloques'[s[j]] = Parte(d, "datos", j - 1)
  <2>1. CASE j = i + 1
    <3>1. j - 1 = i
      BY <1>2, <2>1
    <3>2. QED
      BY <1>8, <1>12, <2>1, <3>1 DEF b
  <2>2. CASE j # i + 1
    <3>1. j <= i
      BY <1>2, <1>12, <2>2
    <3>2. bloques[s[j]] = Parte(d, "datos", j - 1)
      BY <1>1, <1>12, <3>1 DEF LInv, Grabado
    <3>3. s[j] # b
      BY <1>3, <2>2 DEF SInv, BloquesExclusivos, b
    <3>4. s[j] \in 0 .. BLOCK_COUNT - 1
      BY <1>2, BitsDeBloques
    <3>5. QED
      BY <1>7, <3>2, <3>3, <3>4
  <2>3. QED
    BY <2>1, <2>2
<1>13. Grabado(d)'
  <2>1. bloques'[archivo'[d].indice] = Parte(d, "indice", 0)
    BY <1>1, <1>7, <1>11 DEF LInv, Grabado
  <2>2. \A j \in DOMAIN archivo'[d].datos : j <= escritos'[d] /\ Toca(d, j)' =>
          bloques'[archivo'[d].datos[j]] = Parte(d, "datos", j - 1)
    BY <1>1, <1>10, <1>12
  <2>3. QED
    BY <1>1, <2>1, <2>2 DEF Grabado
<1>14. Alcanzan(d)' /\ Tomados(d)'
  BY <1>1, <1>10 DEF LInv, Alcanzan, Tomados
<1>15. QED
  BY <1>5, <1>9, <1>13, <1>14 DEF LInv

LEMMA ResponderOkLInv ==
  ASSUME BInv, SInv, LInv, NEW d \in Volcados, ResponderOk(d)
  PROVE  LInv'
<1>1. /\ fase[d] = "datos" /\ fase' = [fase EXCEPT ![d] = "ok"] /\ escritos[d] = Cantidad(d)
      /\ UNCHANGED <<bitmap, bloques, archivo, metadata, hallado, escritos, indefinido>>
      /\ fase \in [Volcados -> Fases]
  BY TiposDe DEF ResponderOk, Ir
<1>2. ASSUME NEW e \in Volcados \ {d} PROVE (Alcanzan(e) /\ Tomados(e) /\ Grabado(e))'
  <2>1. fase'[e] = fase[e]
    BY <1>1
  <2>2. QED
    BY <1>1, <2>1, Ajeno
<1>3. fase'[d] = "ok" /\ Cantidad(d)' = Cantidad(d) /\ \A j : Toca(d, j)' <=> Toca(d, j)
  BY <1>1 DEF Cantidad, Toca
<1>4. (Alcanzan(d) /\ Tomados(d) /\ Grabado(d))'
  BY <1>1, <1>3 DEF LInv, Alcanzan, Tomados, Grabado
<1>5. QED
  BY <1>1, <1>2, <1>4 DEF LInv

LEMMA ReiniciarLInv ==
  ASSUME BInv, LInv, Reiniciar
  PROVE  LInv'
<1>1. /\ fase' = [d \in Volcados |-> IF EnCurso(d) THEN "perdido" ELSE fase[d]]
      /\ UNCHANGED <<bitmap, bloques, archivo, metadata, hallado, escritos, indefinido>>
  BY DEF Reiniciar, BitmapGuardado
<1>2. ASSUME NEW e \in Volcados PROVE (Alcanzan(e) /\ Tomados(e) /\ Grabado(e))'
  <2>1. CASE EnCurso(e)
    <3>1. fase'[e] = "perdido"
      BY <1>1, <2>1
    <3>2. QED
      BY <1>1, <3>1 DEF LInv, Alcanzan, Tomados, Grabado
  <2>2. CASE ~EnCurso(e)
    <3>1. fase'[e] = fase[e]
      BY <1>1, <2>2
    <3>2. QED
      BY <1>1, <3>1, Ajeno
  <2>3. QED
    BY <2>1, <2>2
<1>3. QED
  BY <1>1, <1>2 DEF LInv

LEMMA LInvPaso == Cabe /\ EnSerie /\ BInv /\ SInv /\ LInv /\ [Next]_vars => LInv'
<1> SUFFICES ASSUME Cabe, EnSerie, BInv, SInv, LInv, [Next]_vars PROVE LInv'
  OBVIOUS
<1>1. CASE UNCHANGED vars
  <2>1. UNCHANGED <<bitmap, bloques, archivo, metadata, fase, hallado, escritos, indefinido>>
    BY <1>1 DEF vars
  <2>2. \A e \in Volcados : (Alcanzan(e) /\ Tomados(e) /\ Grabado(e))'
    BY <2>1, Ajeno
  <2>3. QED
    BY <2>1, <2>2 DEF LInv
<1>2. CASE Next
  BY <1>2, LlegaVolcadoLInv, BuscarBitLInv, MarcarBitLInv, GuardarMetadataLInv, EscribirIndiceLInv,
     LeerIndiceLInv, EscribirDatoLInv, ResponderOkLInv, ReiniciarLInv DEF Next, Avanza
<1>3. QED
  BY <1>1, <1>2

LEMMA InicioLInv == Init => LInv
<1> SUFFICES ASSUME Init PROVE LInv
  OBVIOUS
<1>1. \A d \in Volcados : /\ fase[d] = "nuevo" /\ escritos[d] = 0
                          /\ archivo[d].mensaje = 0 /\ archivo[d].tamanio = 0
  BY DEF Init, SinArchivo, FCB
<1>2. QED
  BY <1>1 DEF Init, LInv, Alcanzan, Tomados, Grabado

(* ArchivoLegible, for any number of blocks, of dumps and any sizes: if dumps come
   one after the other, the file of blocks has whole bytes of bitmap and the index
   of the biggest partition fits in one block, then a dump that was answered OK can
   be read for ever after, through any later dumps and restarts. *)
THEOREM VolcadosLegibles ==
  ASSUME EnSerie, Cabe
  PROVE  Spec => []ArchivoLegible
<1>1. Init => BInv /\ SInv /\ LInv
  BY InicioBInv, InicioSInv, InicioLInv
<1>2. BInv /\ SInv /\ LInv /\ [Next]_vars => (BInv /\ SInv /\ LInv)'
  BY BInvPaso, SInvPaso, LInvPaso
<1>3. BInv /\ LInv => ArchivoLegible
  <2> SUFFICES ASSUME BInv, LInv, NEW d \in Volcados, fase[d] = "ok"
               PROVE  /\ d \in metadata /\ IndiceIntacto(d)
                      /\ Len(archivo[d].datos) * BLOCK_SIZE >= archivo[d].mensaje
                      /\ \A i \in DOMAIN archivo[d].datos : (i - 1) * BLOCK_SIZE < archivo[d].mensaje =>
                           bloques[archivo[d].datos[i]] = Parte(d, "datos", i - 1)
    BY DEF ArchivoLegible, LInv
  <2>1. d \in metadata /\ Len(archivo[d].datos) = Cantidad(d) /\ archivo[d].mensaje <= archivo[d].tamanio
    BY DEF LInv, Tomados
  <2>2. IndiceIntacto(d)
    BY IndiceAdentro DEF LInv, Grabado, IndiceIntacto
  <2>3. Cantidad(d) * BLOCK_SIZE >= archivo[d].mensaje
    <3>1. /\ archivo[d].tamanio \in Nat /\ archivo[d].mensaje \in Nat
          /\ archivo[d].tamanio <= Cantidad(d) * BLOCK_SIZE /\ Cantidad(d) \in Nat
      BY TiposDe, EnBloquesCubre DEF Cantidad
    <3>2. Cantidad(d) * BLOCK_SIZE \in Nat
      BY <3>1, TamanioDeBloque
    <3>3. QED
      BY <2>1, <3>1, <3>2
  <2>4. ASSUME NEW i \in DOMAIN archivo[d].datos, Toca(d, i)
        PROVE  bloques[archivo[d].datos[i]] = Parte(d, "datos", i - 1)
    <3>1. i <= escritos[d]
      BY <2>1, TiposDe DEF LInv, Grabado
    <3>2. QED
      BY <2>4, <3>1 DEF LInv, Grabado
  <2>5. QED
    BY <2>1, <2>2, <2>3, <2>4 DEF Toca
<1>4. QED
  BY <1>1, <1>2, <1>3, PTL DEF Spec
=============================================================================
