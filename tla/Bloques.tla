------------------------------ MODULE Bloques ------------------------------
(***************************************************************************)
(* The Filesystem module: the bitmap, the file of blocks and the files the *)
(* dumps of Memoria leave in them.                                         *)
(*                                                                         *)
(* Each dump arrives on a connection of its own and is served by a thread  *)
(* of its own.  mutex_bitmap and mutex_bloquesEnMemoria protect one access *)
(* each, so a dump is a sequence of small steps: it counts the free        *)
(* blocks, then looks for a free bit and sets it for each data block and   *)
(* for the index block, writes its metadata, writes the index, reads it    *)
(* back and writes the data.  The bitmap and the blocks are mapped files:  *)
(* they outlive the program; the list of FCBs does not.                    *)
(***************************************************************************)
EXTENDS Integers, Sequences, FiniteSets

CONSTANTS
  Volcados,     \* dumps that arrive
  BLOCK_COUNT,  \* blocks of the file of blocks
  BLOCK_SIZE,   \* bytes of a block
  Tamanios,     \* bound: sizes of the partitions that are dumped
  Mensajes,     \* bound: bytes written in them, which Memoria sends
  EnSerie,      \* TRUE: a dump arrives when the previous one is over
  Reinicios     \* TRUE: the program may end at any point and be started again

Puntero == 4    \* bytes of an entry of the index

ASSUME BloquesAssumption  == /\ BLOCK_COUNT \in Nat \ {0}
                             /\ BLOCK_SIZE \in {Puntero * k : k \in 1 .. BLOCK_SIZE}
ASSUME VolcadosAssumption == /\ Tamanios \subseteq Nat /\ Mensajes \subseteq Nat
                             /\ EnSerie \in BOOLEAN /\ Reinicios \in BOOLEAN

\* The bitmap has whole bytes, so it may have bits of no block.
Bits == 0 .. 8 * ((BLOCK_COUNT + 7) \div 8) - 1

Ninguno == -1   \* what encontrar_primer_bit_libre returns if there is none

VARIABLES
  bitmap,      \* bits set
  bloques,     \* what each block holds: who wrote it, and which part of what
  archivo,     \* FCB of each dump: its sizes and its blocks
  metadata,    \* dumps whose metadata file was saved
  fase,        \* step of each dump
  hallado,     \* local variable indice: the free bit found
  escritos,    \* local variable i of escribir_bloques_de_datos
  indefinido   \* an access outside of the mapped files, or through rubbish

vars == <<bitmap, bloques, archivo, metadata, fase, hallado, escritos, indefinido>>

Vacio == [de |-> Ninguno, que |-> "nada", parte |-> 0]
FCB(tam, men) == [tamanio |-> tam, mensaje |-> men, datos |-> <<>>, indice |-> Ninguno]
SinArchivo == FCB(0, 0)

\* tamanio_en_bloques: at least one.
EnBloques(tam) == IF tam = 0 THEN 1 ELSE (tam + BLOCK_SIZE - 1) \div BLOCK_SIZE

Cantidad(d) == EnBloques(archivo[d].tamanio)
Libres == Bits \ bitmap
EnCurso(d) == fase[d] \notin {"nuevo", "ok", "error", "perdido"}

Init ==
  /\ bitmap = {}
  /\ bloques = [b \in 0 .. BLOCK_COUNT - 1 |-> Vacio]
  /\ archivo = [d \in Volcados |-> SinArchivo]
  /\ metadata = {}
  /\ fase = [d \in Volcados |-> "nuevo"]
  /\ hallado = [d \in Volcados |-> Ninguno]
  /\ escritos = [d \in Volcados |-> 0]
  /\ indefinido = FALSE

Ir(d, f) == fase' = [fase EXCEPT ![d] = f]

\* Mutant: the index block is not counted.
AlcanzaSinIndice(tam) == EnBloques(tam) <= Cardinality(Libres)

Alcanza(tam) == EnBloques(tam) + 1 <= Cardinality(Libres)

\* atender_memory_dump, up to crear_fcb.
LlegaVolcado(d, tam, men) ==
  /\ ~indefinido /\ fase[d] = "nuevo" /\ men <= tam
  /\ EnSerie => \A e \in Volcados : ~EnCurso(e)
  /\ IF Alcanza(tam)
     THEN /\ archivo' = [archivo EXCEPT ![d] = FCB(tam, men)]
          /\ Ir(d, "buscar")
     ELSE Ir(d, "error") /\ UNCHANGED archivo
  /\ UNCHANGED <<bitmap, bloques, metadata, hallado, escritos, indefinido>>

\* Mutant: it looks from the end, and starts one bit too far.
PrimerLibreDesdeElFinal == Cardinality(Bits)

\* encontrar_primer_bit_libre.
PrimerLibre ==
  IF Libres = {} THEN Ninguno ELSE CHOOSE b \in Libres : \A c \in Libres : b <= c

BuscarBit(d) ==
  /\ ~indefinido /\ fase[d] = "buscar"
  /\ hallado' = [hallado EXCEPT ![d] = PrimerLibre]
  /\ Ir(d, "marcar")
  /\ UNCHANGED <<bitmap, bloques, archivo, metadata, escritos, indefinido>>

\* Mutant: the bit of the index block is not set.
MarcadosSinIndice(d) ==
  IF Len(archivo[d].datos) < Cantidad(d) THEN bitmap \cup {hallado[d]} ELSE bitmap

Marcados(d) == bitmap \cup {hallado[d]}

\* setear_bloque_bits: asignar_bloques_de_datos takes the data blocks, and
\* asignar_bloque_de_indice, after them, the index block.
MarcarBit(d) ==
  /\ ~indefinido /\ fase[d] = "marcar"
  /\ \/ /\ hallado[d] = Ninguno
        /\ indefinido' = TRUE
        /\ UNCHANGED <<bitmap, archivo, fase>>
     \/ /\ hallado[d] # Ninguno
        /\ bitmap' = Marcados(d)
        /\ IF Len(archivo[d].datos) < Cantidad(d)
           THEN archivo' = [archivo EXCEPT ![d].datos = Append(@, hallado[d])] /\ Ir(d, "buscar")
           ELSE archivo' = [archivo EXCEPT ![d].indice = hallado[d]] /\ Ir(d, "metadata")
        /\ UNCHANGED indefinido
  /\ UNCHANGED <<bloques, metadata, hallado, escritos>>

\* crear_archivo_metadata.
GuardarMetadata(d) ==
  /\ ~indefinido /\ fase[d] = "metadata"
  /\ metadata' = metadata \cup {d}
  /\ Ir(d, "indice")
  /\ UNCHANGED <<bitmap, bloques, archivo, hallado, escritos, indefinido>>

\* Blocks the index takes, from the index block on: nothing asks whether its
\* entries fit in one block.
DelIndice(d) ==
  LET b == archivo[d].indice IN b .. b + ((Cantidad(d) * Puntero + BLOCK_SIZE - 1) \div BLOCK_SIZE) - 1

Fuera(bs) == ~(bs \subseteq 0 .. BLOCK_COUNT - 1)

Parte(d, que, i) == [de |-> d, que |-> que, parte |-> i]

\* escribir_bloque_de_indice.
EscribirIndice(d) ==
  /\ ~indefinido /\ fase[d] = "indice"
  /\ IF Fuera(DelIndice(d))
     THEN indefinido' = TRUE /\ UNCHANGED <<bloques, fase>>
     ELSE /\ bloques' = [b \in DOMAIN bloques |->
               IF b \in DelIndice(d) THEN Parte(d, "indice", b - archivo[d].indice) ELSE bloques[b]]
          /\ Ir(d, "leer")
          /\ UNCHANGED indefinido
  /\ UNCHANGED <<bitmap, archivo, metadata, hallado, escritos>>

IndiceIntacto(d) ==
  /\ ~Fuera(DelIndice(d))
  /\ \A b \in DelIndice(d) : bloques[b] = Parte(d, "indice", b - archivo[d].indice)

\* escribir_bloques_de_datos: the numbers of the data blocks are read from the
\* index block; if somebody has written over it they are rubbish.
LeerIndice(d) ==
  /\ ~indefinido /\ fase[d] = "leer"
  /\ IF IndiceIntacto(d) THEN Ir(d, "datos") /\ UNCHANGED indefinido
                         ELSE indefinido' = TRUE /\ UNCHANGED fase
  /\ UNCHANGED <<bitmap, bloques, archivo, metadata, hallado, escritos>>

\* Mutant: a short last block is not written.
PorcionEntera(d, i) ==
  LET llenos == archivo[d].mensaje \div BLOCK_SIZE IN
  IF i < llenos THEN "datos" ELSE "nada"

\* What data block i gets: a part of the message; bytes that follow the message
\* in memory, if its size is a multiple of that of a block; or nothing.
Porcion(d, i) ==
  LET llenos == archivo[d].mensaje \div BLOCK_SIZE
      ultimo == archivo[d].mensaje % BLOCK_SIZE
  IN IF i < llenos \/ (i = llenos /\ ultimo # 0) THEN "datos"
     ELSE IF ultimo = 0 THEN "basura" ELSE "nada"

\* escribir_bloques_de_datos: one round of its loop.
EscribirDato(d) ==
  /\ ~indefinido /\ fase[d] = "datos" /\ escritos[d] < Cantidad(d)
  /\ LET i == escritos[d]
         b == archivo[d].datos[i + 1]
     IN IF Porcion(d, i) = "nada" THEN UNCHANGED <<bloques, indefinido>>
        ELSE IF Fuera({b}) THEN indefinido' = TRUE /\ UNCHANGED bloques
        ELSE bloques' = [bloques EXCEPT ![b] = Parte(d, Porcion(d, i), i)] /\ UNCHANGED indefinido
  /\ escritos' = [escritos EXCEPT ![d] = @ + 1]
  /\ UNCHANGED <<bitmap, archivo, metadata, fase, hallado>>

\* responder_OK.
ResponderOk(d) ==
  /\ ~indefinido /\ fase[d] = "datos" /\ escritos[d] = Cantidad(d)
  /\ Ir(d, "ok")
  /\ UNCHANGED <<bitmap, bloques, archivo, metadata, hallado, escritos, indefinido>>

\* Mutant: the bitmap starts again from nothing.
BitmapNuevo == {}

\* inicializar_archivo_bitmap: the bits saved.
BitmapGuardado == bitmap

\* The program ends and is started again: the dumps under way are lost, the mapped
\* files and the metadata stay as they were.
Reiniciar ==
  /\ Reinicios /\ ~indefinido
  /\ \E d \in Volcados : EnCurso(d)
  /\ fase' = [d \in Volcados |-> IF EnCurso(d) THEN "perdido" ELSE fase[d]]
  /\ bitmap' = BitmapGuardado
  /\ UNCHANGED <<bloques, archivo, metadata, hallado, escritos, indefinido>>

Avanza(d) ==
  \/ BuscarBit(d) \/ MarcarBit(d) \/ GuardarMetadata(d)
  \/ EscribirIndice(d) \/ LeerIndice(d) \/ EscribirDato(d) \/ ResponderOk(d)

Next ==
  \/ \E d \in Volcados, tam \in Tamanios, men \in Mensajes : LlegaVolcado(d, tam, men)
  \/ \E d \in Volcados : Avanza(d)
  \/ Reiniciar

\* The thread of each connection goes on running.
Equidad == \A d \in Volcados : WF_vars(Avanza(d))

Spec == Init /\ [][Next]_vars /\ Equidad
-----------------------------------------------------------------------------
Datos(d) == {archivo[d].datos[i] : i \in DOMAIN archivo[d].datos}
DeArchivo(d) == Datos(d) \cup ({archivo[d].indice} \ {Ninguno})

\* Types of the state of Filesystem.
TypeOK ==
  /\ bitmap \subseteq Bits
  /\ bloques \in [0 .. BLOCK_COUNT - 1 ->
       [de : Volcados \cup {Ninguno}, que : {"nada", "indice", "datos", "basura"}, parte : Nat]]
  /\ archivo \in [Volcados -> [tamanio : Tamanios \cup {0}, mensaje : Mensajes \cup {0},
                               datos : Seq(Bits), indice : Bits \cup {Ninguno}]]
  /\ metadata \subseteq Volcados
  /\ fase \in [Volcados -> {"nuevo", "buscar", "marcar", "metadata", "indice", "leer", "datos",
                            "ok", "error", "perdido"}]
  /\ hallado \in [Volcados -> Bits \cup {Ninguno}]
  /\ escritos \in [Volcados -> Nat]
  /\ indefinido \in BOOLEAN

\* A block belongs to one file, and has one use in it: looking for a free bit and
\* setting it never gives a block twice, also after a restart.
BloquesExclusivos ==
  \A d \in Volcados :
    /\ \A i, j \in DOMAIN archivo[d].datos : i # j => archivo[d].datos[i] # archivo[d].datos[j]
    /\ archivo[d].indice \notin Datos(d)
    /\ \A e \in Volcados \ {d} : DeArchivo(d) \cap DeArchivo(e) = {}

\* A dump that was answered OK can be read for ever after: its metadata and its
\* index are there and each data block holds its part of the message, whatever
\* dumps and restarts come later.  No dump writes outside of the file of blocks.
ArchivoLegible ==
  /\ ~indefinido
  /\ \A d \in Volcados : fase[d] = "ok" =>
    /\ d \in metadata
    /\ IndiceIntacto(d)
    /\ Len(archivo[d].datos) * BLOCK_SIZE >= archivo[d].mensaje
    /\ \A i \in DOMAIN archivo[d].datos : (i - 1) * BLOCK_SIZE < archivo[d].mensaje =>
         bloques[archivo[d].datos[i]] = Parte(d, "datos", i - 1)

\* The bits set are those of the blocks the dumps have taken, also the dumps a
\* restart lost: a dump that is refused takes none, none is forgotten.
BitmapFiel == bitmap = UNION {DeArchivo(d) : d \in Volcados}

\* Every dump that is let in is answered OK, unless the program ends before.
VolcadoRespondido == \A d \in Volcados : EnCurso(d) ~> fase[d] \in {"ok", "perdido"}
=============================================================================
