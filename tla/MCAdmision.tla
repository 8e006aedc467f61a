----------------------------- MODULE MCAdmision -----------------------------
EXTENDS Admision

Partes == <<1, 2>>
=============================================================================
