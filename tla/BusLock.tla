------------------------------ MODULE BusLock ------------------------------
(***************************************************************************)
(* What the mutex of the I2C driver promises to the tasks that call it     *)
(* (semphr.h as drivers/src/hexa_i2c.c uses it): a task asks, waits as     *)
(* long as it takes (portMAX_DELAY), is the only one inside, and leaves.   *)
(* The driver's modules are shown to implement this specification.         *)
(***************************************************************************)
CONSTANT Tasks

VARIABLE where          \* where[t]: "out", "waiting" or "inside"

Places == {"out", "waiting", "inside"}

Init == where = [t \in Tasks |-> "out"]

(* A task enters a function of the driver and asks for the bus. *)
Ask(t) ==
  /\ where[t] = "out"
  /\ where' = [where EXCEPT ![t] = "waiting"]

(* xSemaphoreTake returns: nobody else is inside. *)
Enter(t) ==
  /\ where[t] = "waiting"
  /\ \A u \in Tasks : where[u] # "inside"
  /\ where' = [where EXCEPT ![t] = "inside"]

(* xSemaphoreGive, and the function returns. *)
Leave(t) ==
  /\ where[t] = "inside"
  /\ where' = [where EXCEPT ![t] = "out"]

Next == \E t \in Tasks : Ask(t) \/ Enter(t) \/ Leave(t)

Spec == Init /\ [][Next]_where

(* No two tasks are inside together: xSemaphoreTake in i2c_lock.           *)
Exclusion == \A t, u \in Tasks :
               where[t] = "inside" /\ where[u] = "inside" => t = u
=============================================================================
