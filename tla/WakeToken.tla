------------------------------ MODULE WakeToken ------------------------------
(***************************************************************************)
(* What OS/IOCondition.h promises, and all that the scheduler relies on:   *)
(* a one-place token for a single waiting OS thread.  A signal leaves the  *)
(* token behind, a wait is only over when it finds the token or gives up   *)
(* for a reason of its own (a timeout, a descriptor), several signals      *)
(* count as one, and a wait "may return one time too many".                *)
(***************************************************************************)
VARIABLES pending,   \* A signal was sent that no wait has answered yet.
          blocked    \* The OS thread is inside IOCondition::wait.

tokenVars == <<pending, blocked>>

Init == ~pending /\ ~blocked

\* IOCondition::signal: idempotent, never lost, whoever is waiting.
Signal == pending' = TRUE /\ UNCHANGED blocked

Enter == ~blocked /\ blocked' = TRUE /\ UNCHANGED pending

\* The wait answers a signal.  A signal racing with it may be answered by the
\* same return or be left for the next wait: one return too many, none too few.
Answer == blocked /\ pending /\ blocked' = FALSE /\ pending' \in BOOLEAN

\* Timeout or IO event: a signal that was not seen stays for the next wait.
GiveUp == blocked /\ blocked' = FALSE /\ UNCHANGED pending

Next == Signal \/ Enter \/ Answer \/ GiveUp

Safety == Init /\ [][Next]_tokenVars

\* A wait that a signal has been sent to returns.
Spec == Safety /\ WF_tokenVars(Answer)
==============================================================================
