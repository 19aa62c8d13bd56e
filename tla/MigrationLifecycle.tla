------------------------- MODULE MigrationLifecycle -------------------------
(***************************************************************************)
(* What a StorageVersionMigration object shows to everybody but the        *)
(* migrator: it is created Pending, becomes Running once, completes once,  *)
(* and stays as it is until it is deleted.  The trigger, users and the     *)
(* initializer rely on nothing else.  KubeMigrator implements this.        *)
(***************************************************************************)
CONSTANT Names      \* the names of migration objects
VARIABLE status     \* the status of each, "None" if there is no such object

Completed == {"Succeeded", "Failed"}
Status    == {"Pending", "Running"} \cup Completed

Move(n, from, to) == status[n] \in from /\ status' = [status EXCEPT ![n] = to]

Create(n) == Move(n, {"None"}, "Pending")
Start(n)  == Move(n, {"Pending"}, "Running")
End(n)    == \E outcome \in Completed : Move(n, {"Running"}, outcome)
Delete(n) == Move(n, Status, "None")

Init == status = [n \in Names |-> "None"]
Next == \E n \in Names : Create(n) \/ Start(n) \/ End(n) \/ Delete(n)
Spec == Init /\ [][Next]_status
=============================================================================
