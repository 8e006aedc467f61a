----------------------------- MODULE MCMemoria -----------------------------
EXTENDS Memoria

Ninguna == <<>>
=============================================================================
