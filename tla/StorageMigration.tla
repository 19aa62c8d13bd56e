-------------------------- MODULE StorageMigration --------------------------
(***************************************************************************)
(* What one call of migrator.Run promises about the objects of a resource, *)
(* with no pages, tokens, workers or retries in sight.  While it runs, and *)
(* not afterwards, it may have an object encoded anew; it changes no       *)
(* contents, and neither creates nor deletes an object; it returns nil only*)
(* if no old object is left.  KubeMigrator relies on nothing else, and     *)
(* CoreMigrator implements this.                                           *)
(***************************************************************************)
EXTENDS Naturals

CONSTANT Keys     \* the names of objects
VARIABLES
  present,  \* the objects that exist
  old,      \* those not encoded since the migration was created
  val,      \* their contents
  result    \* what Run returned, "none" while it runs

vars == <<present, old, val, result>>

Init ==
  /\ present \in SUBSET Keys /\ old = present
  /\ val = [k \in Keys |-> 0]
  /\ result = "none"

\* Run.
Encode(k) ==
  /\ result = "none" /\ k \in present
  /\ old' = old \ {k}
  /\ UNCHANGED <<present, val, result>>
Return(e) ==
  /\ result = "none"
  /\ e = "nil" => old = {}
  /\ result' = e
  /\ UNCHANGED <<present, old, val>>

\* Run is called again.
RunAgain == result' = "none" /\ UNCHANGED <<present, old, val>>

\* The other clients.
Write(k) ==
  /\ present' = present \cup {k} /\ old' = old \ {k}
  /\ val' = [val EXCEPT ![k] = @ + 1]
  /\ UNCHANGED result
Delete(k) ==
  /\ present' = present \ {k} /\ old' = old \ {k}
  /\ UNCHANGED <<val, result>>

Next ==
  \/ \E k \in Keys : Encode(k) \/ Write(k) \/ Delete(k)
  \/ \E e \in {"nil", "error"} : Return(e)
  \/ RunAgain
Spec == Init /\ [][Next]_vars
=============================================================================
