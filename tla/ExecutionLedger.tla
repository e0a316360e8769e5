--------------------------- MODULE ExecutionLedger ---------------------------
(***************************************************************************)
(* What the job engine promises about executions, whatever happens to the  *)
(* jobs: work is attempted one item at a time, an item whose attempt       *)
(* succeeded is done for good, and only the attempt in progress can        *)
(* succeed or fail.  Attempts may be withdrawn (closed as CANCELED) behind *)
(* the executor's back, and an execution may end without a verdict.        *)
(***************************************************************************)
EXTENDS Naturals, Sequences

CONSTANTS
  Items,  \* pieces of work
  None    \* no item

VARIABLES
  log,    \* the status of each attempt of each item, in order
  done,   \* the items that are finished for good
  active  \* the item being executed

Init ==
  /\ log = [i \in Items |-> <<>>]
  /\ done = {}
  /\ active = None

Begin(i) ==
  /\ active = None
  /\ i \notin done
  /\ log' = [log EXCEPT ![i] = Append(@, "RUNNING")]
  /\ active' = i
  /\ UNCHANGED done

Succeed ==
  /\ active # None
  /\ log' = [log EXCEPT ![active] = [@ EXCEPT ![Len(log[active])] = "SUCCEEDED"]]
  /\ done' = done \cup {active}
  /\ active' = None

Fail ==
  /\ active # None
  /\ log' = [log EXCEPT ![active] = [@ EXCEPT ![Len(log[active])] = "FAILED"]]
  /\ active' = None
  /\ UNCHANGED done

Abandon ==
  /\ active # None
  /\ active' = None
  /\ UNCHANGED <<log, done>>

Withdraw(S) ==
  /\ log' = [i \in Items |->
       IF i \in S
       THEN [n \in DOMAIN log[i] |-> IF log[i][n] = "RUNNING" THEN "CANCELED" ELSE log[i][n]]
       ELSE log[i]]
  /\ UNCHANGED <<done, active>>

Next ==
  \/ \E i \in Items : Begin(i)
  \/ Succeed \/ Fail \/ Abandon
  \/ \E S \in SUBSET Items : Withdraw(S)

Spec == Init /\ [][Next]_<<log, done, active>>
=============================================================================
