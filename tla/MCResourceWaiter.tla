--------------------------- MODULE MCResourceWaiter ---------------------------
(***************************************************************************)
(* Small machines for ResourceWaiter: two units of every resource stand for *)
(* the millicores, the megabytes and the 100 percent of disk and network.   *)
(***************************************************************************)
EXTENDS ResourceWaiter

Amount(cpu, memory, disk, net) ==
  [d \in Dim |-> CASE d = "cpu" -> cpu [] d = "memory" -> memory
                   [] d = "disk" -> disk [] d = "net" -> net]

MCCapacity == Amount(2, 2, 2, 2)

(* A step that needs nothing, one that asks for more memory than there is and *)
(* for half of the network, and one that takes all cpus.                      *)
MCCosts == {Amount(0, 0, 0, 0), Amount(1, 3, 0, 1), Amount(2, 1, 0, 0)}
===============================================================================
