-------------------------- MODULE MCPlanificador --------------------------
EXTENDS Planificador
=============================================================================
