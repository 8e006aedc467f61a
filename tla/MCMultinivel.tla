---------------------------- MODULE MCMultinivel ----------------------------
EXTENDS Multinivel

Pareja == <<0, 0>>
Mezcla == <<0, 1, 0>>
=============================================================================
