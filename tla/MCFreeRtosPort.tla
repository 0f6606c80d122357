--------------------------- MODULE MCFreeRtosPort ----------------------------
(* FreeRtosPort with the tick at the priority sys_time gives it and one     *)
(* device of a more urgent priority.                                        *)
EXTENDS FreeRtosPort

MCPriority == [irq \in Irqs |-> IF irq = Tick THEN 62 ELSE 1]
=============================================================================
