------------------------------ MODULE Palabras ------------------------------
(***************************************************************************)
(* The registers of the CPU (uint32_t) and the bytes memcpy makes of them: *)
(* a word is a natural less than Modulo, its first byte the least.         *)
(***************************************************************************)
EXTENDS Integers

CONSTANTS
  BYTES,        \* bytes of a register
  VALORES       \* values of a byte

ASSUME PalabrasAssumption == BYTES \in Nat \ {0, 1} /\ VALORES \in Nat \ {0, 1}

potencia[i \in Nat] == IF i = 0 THEN 1 ELSE VALORES * potencia[i - 1]
Modulo   == potencia[BYTES]
Palabras == 0 .. Modulo - 1

Byte(v, i) == (v \div potencia[i]) % VALORES

\* The words whose bytes are those of m from address d on: there is one.
PalabrasEn(m, d) == {v \in Palabras : \A i \in 0 .. BYTES - 1 : Byte(v, i) = m[d + i]}
=============================================================================
