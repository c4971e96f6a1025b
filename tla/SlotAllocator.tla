---------------------------- MODULE SlotAllocator ----------------------------
(***************************************************************************)
(* What DamruPool promises the callers of session(), without the slot      *)
(* table, the retries or the event loop: a slot has at most one owner, it  *)
(* is granted only while it is alive, a caller is turned away only when no *)
(* slot is alive (or the pool is closed), and whoever asks is answered.    *)
(***************************************************************************)
CONSTANTS Session, Slot, Nobody

VARIABLES
    request,  \* what each session asked for and got
    owner,    \* the session that owns each slot, or Nobody
    alive,    \* which slots are in service
    closed    \* the pool was left

vars == <<request, owner, alive, closed>>

Init ==
    /\ request = [x \in Session |-> "none"]
    /\ owner = [s \in Slot |-> Nobody]
    /\ alive = [s \in Slot |-> TRUE]
    /\ closed = FALSE

Ask(x) ==
    /\ request[x] = "none"
    /\ request' = [request EXCEPT ![x] = "pending"]
    /\ UNCHANGED <<owner, alive, closed>>

Grant(x) ==
    /\ request[x] = "pending"
    /\ ~closed
    /\ \E s \in Slot :
          /\ owner[s] = Nobody /\ alive[s]
          /\ owner' = [owner EXCEPT ![s] = x]
    /\ request' = [request EXCEPT ![x] = "granted"]
    /\ UNCHANGED <<alive, closed>>

Refuse(x) ==
    /\ request[x] = "pending"
    /\ closed \/ \A s \in Slot : ~alive[s]
    /\ request' = [request EXCEPT ![x] = "over"]
    /\ UNCHANGED <<owner, alive, closed>>

(* The caller gives up before it was answered.                             *)
Withdraw(x) ==
    /\ request[x] = "pending"
    /\ request' = [request EXCEPT ![x] = "over"]
    /\ UNCHANGED <<owner, alive, closed>>

(* The owner returns its slot, which may die at the same time.             *)
Return(x) ==
    /\ request[x] = "granted"
    /\ request' = [request EXCEPT ![x] = "over"]
    /\ \E s \in Slot :
          /\ owner[s] = x
          /\ owner' = [owner EXCEPT ![s] = Nobody]
          /\ \E b \in {alive[s], FALSE} : alive' = [alive EXCEPT ![s] = b]
    /\ UNCHANGED closed

(* A slot leaves or enters service on its own.                             *)
Change(s) ==
    /\ alive' = [alive EXCEPT ![s] = ~@]
    /\ UNCHANGED <<request, owner, closed>>

CloseDown ==
    /\ closed' = TRUE
    /\ UNCHANGED <<request, owner, alive>>

Next ==
    \/ \E x \in Session : Ask(x) \/ Grant(x) \/ Refuse(x) \/ Withdraw(x) \/ Return(x)
    \/ \E s \in Slot : Change(s)
    \/ CloseDown

Safety == Init /\ [][Next]_vars
=============================================================================
