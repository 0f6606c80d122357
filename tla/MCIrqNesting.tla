---------------------------- MODULE MCIrqNesting -----------------------------
(* EDMA's interrupts have priority 0, the UART's keeps the 0 of the reset,  *)
(* the system timer has the least urgent; one more lies in between.         *)
EXTENDS IrqNesting, FiniteSets, TLC

CONSTANTS edma, uart, gpio, timer

MCPriority == edma :> 0 @@ uart :> 0 @@ gpio :> 1 @@ timer :> 2
=============================================================================
