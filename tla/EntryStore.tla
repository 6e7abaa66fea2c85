------------------------------ MODULE EntryStore ------------------------------
(***************************************************************************)
(* What a client of tagmem is promised: a table of entries in which adding *)
(* takes the next ids, never a used one, and stores all the requests or    *)
(* none, in which deleting or updating touches one existing entry, and in  *)
(* which nothing else (a start, a search, a repair, a crash, an error)     *)
(* changes anything.                                                       *)
(***************************************************************************)
EXTENDS Integers, Sequences

CONSTANTS Contents, None, MaxId, MaxBatch

VARIABLES rows, nextId

Ids == 1 .. MaxId

Init == rows = [i \in Ids |-> None] /\ nextId = 1

AddMany(contents) ==
  LET n == Len(contents)
      new == nextId .. nextId + n - 1
  IN /\ nextId + n <= MaxId + 1
     /\ rows' = [i \in Ids |-> IF i \in new THEN contents[i - nextId + 1]
                                            ELSE rows[i]]
     /\ nextId' = nextId + n

Delete(id) ==
  /\ rows[id] # None
  /\ rows' = [rows EXCEPT ![id] = None]
  /\ UNCHANGED nextId

Update(id, c) ==
  /\ rows[id] # None
  /\ rows' = [rows EXCEPT ![id] = c]
  /\ UNCHANGED nextId

Next ==
  \/ \E n \in 1 .. MaxBatch : \E contents \in [1 .. n -> Contents] : AddMany(contents)
  \/ \E id \in Ids : Delete(id) \/ \E c \in Contents : Update(id, c)

Spec == Init /\ [][Next]_<<rows, nextId>>

=============================================================================
