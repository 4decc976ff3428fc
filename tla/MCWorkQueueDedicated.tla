----------------------- MODULE MCWorkQueueDedicated -----------------------
(* Small instances of WorkQueueDedicated for TLC. *)
EXTENDS WorkQueueDedicated

CONSTANTS n1, n2, n3, n4, n5

Nodes5 == {n1, n2, n3, n4, n5}

=============================================================================
