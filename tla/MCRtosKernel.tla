---------------------------- MODULE MCRtosKernel ----------------------------
(* app_main starts two tasks of its own priority, that share the mutex,    *)
(* and one above them.                                                     *)
EXTENDS RtosKernel

CONSTANTS app_main, input, sensor, ui

MCPriority == [t \in AllTasks |-> CASE t = Idle -> 0 [] t = input -> 2 [] OTHER -> 1]

(* Only ui calls vTaskDelayUntil; all of them call vTaskDelay.             *)
MCPeriod == [t \in Tasks |-> IF t = ui THEN 2 ELSE 0]
=============================================================================
