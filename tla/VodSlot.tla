------------------------------ MODULE VodSlot ------------------------------
(***************************************************************************)
(* What the VOD runtime promises its callers: one slot that runs one job   *)
(* at a time.  Jobs begin in the order of their ids, each gets exactly one *)
(* result, and the slot may already be free when the result is recorded,   *)
(* never the other way round.                                              *)
(***************************************************************************)
EXTENDS Naturals

CONSTANT MaxJobs  \* bound: how many jobs begin

Results == {"READY", "COMPLETED", "FAILED", "CANCELLED"}
Empty   == 0          \* no job in the slot
Pending == "pending"  \* the job has no result yet

VARIABLES
  slot,    \* the job that runs, or Empty
  begun,   \* how many jobs have begun
  result   \* [1..MaxJobs -> Results \cup {Pending}]

slotVars == <<slot, begun, result>>

SlotInit ==
  /\ slot = Empty
  /\ begun = 0
  /\ result = [j \in 1 .. MaxJobs |-> Pending]

Begin ==
  /\ slot = Empty
  /\ begun < MaxJobs
  /\ slot' = begun + 1
  /\ begun' = begun + 1
  /\ UNCHANGED result

\* The job is over for the next one, its result is still to come.
Vacate ==
  /\ slot # Empty
  /\ slot' = Empty
  /\ UNCHANGED <<begun, result>>

Conclude(j) ==
  /\ j <= begun
  /\ result[j] = Pending
  /\ \E r \in Results : result' = [result EXCEPT ![j] = r]
  /\ slot' = IF slot = j THEN Empty ELSE slot
  /\ UNCHANGED begun

SlotNext == Begin \/ Vacate \/ \E j \in 1 .. MaxJobs : Conclude(j)

SlotSpec == SlotInit /\ [][SlotNext]_slotVars

\* Nothing forces a caller to begin a job; a job that has begun concludes.
FairSlotSpec ==
  SlotSpec /\ \A j \in 1 .. MaxJobs : WF_slotVars(Conclude(j))
=============================================================================
