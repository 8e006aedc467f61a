----------------------------- MODULE MCBloques -----------------------------
EXTENDS Bloques
=============================================================================
