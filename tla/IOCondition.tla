----------------------------- MODULE IOCondition -----------------------------
(***************************************************************************)
(* OS/IOCondition.cpp: the condition an OS thread sleeps on when none of   *)
(* its UThreads is ready.  Any OS thread may call signal, one waits.       *)
(*                                                                         *)
(* POSIX: "signaled" is a flag that spares the write to the eventfd when a *)
(* signal is already on its way, "fd" is the counter of the eventfd.       *)
(* Windows: "fd" is the count of a semaphore whose maximum is one.         *)
(*                                                                         *)
(* The callers are OS/UThread.cpp: a signaller first publishes work (it    *)
(* pushes a UThread on the ready list) and then signals; the waiter looks  *)
(* for work before every wait.                                             *)
(***************************************************************************)
EXTENDS Naturals

CONSTANTS Signallers,  \* OS threads that wake this one.
          Windows      \* Which of the two implementations is compiled.

ASSUME PlatformAssumption == Windows \in BOOLEAN

VARIABLES signaled,  \* IOCondition::signaled.
          fd,        \* eventfd counter, or the count of the semaphore.
          spc,       \* Where each signaller is in signal().
          wpc,       \* Where the waiter is in wait().
          work       \* Work published and not yet found, by publisher.

vars == <<signaled, fd, spc, wpc, work>>

Init ==
  /\ signaled = 0
  /\ fd = 0
  /\ spc = [s \in Signallers |-> "idle"]
  /\ wpc = "check"
  /\ work = {}

-----------------------------------------------------------------------------
(* signal(), by any OS thread. *)

\* What the caller does first: UThreadState::wake and insert push, then signal.
Publish(s) ==
  /\ spc[s] = "idle"
  /\ work' = work \union {s}
  /\ spc' = [spc EXCEPT ![s] = "cas"]
  /\ UNCHANGED <<signaled, fd, wpc>>

\* Variant: the result of the atomicCAS is misread.
CasInverted(s) ==
  /\ spc[s] = "cas"
  /\ signaled' = 1
  /\ spc' = [spc EXCEPT ![s] = IF signaled = 1 THEN "write" ELSE "idle"]
  /\ UNCHANGED <<fd, wpc, work>>

\* atomicCAS(signaled, 0, 1): whoever loses leaves the write to the winner.
Cas(s) ==
  /\ spc[s] = "cas"
  /\ signaled' = 1
  /\ spc' = [spc EXCEPT ![s] = IF signaled = 0 THEN "write" ELSE "idle"]
  /\ UNCHANGED <<fd, wpc, work>>

\* write(fd, 1), or ReleaseSemaphore, which fails at the maximum of one.
Write(s) ==
  /\ spc[s] = "write"
  /\ fd' = IF Windows THEN 1 ELSE fd + 1
  /\ spc' = [spc EXCEPT ![s] = "idle"]
  /\ UNCHANGED <<signaled, wpc, work>>

-----------------------------------------------------------------------------
(* wait(), by the one OS thread that owns the condition. *)

\* The caller's loop: take what is ready, wait only when there is nothing.
Check ==
  /\ wpc = "check"
  /\ work' = {}
  /\ wpc' = IF work = {} THEN "poll" ELSE "check"
  /\ UNCHANGED <<signaled, fd, spc>>

\* Variant: a wait that was signalled leaves the flag set.
WakeKeepsFlag ==
  /\ wpc = "poll"
  /\ fd > 0
  /\ fd' = 0
  /\ wpc' = "check"
  /\ UNCHANGED <<signaled, spc, work>>

\* poll reports the eventfd, read() empties it (the semaphore is acquired).
Wake ==
  /\ wpc = "poll"
  /\ fd > 0
  /\ fd' = 0
  /\ wpc' = "woken"
  /\ UNCHANGED <<signaled, spc, work>>

\* A descriptor of the IOHandle is ready and the eventfd is not.
Abort ==
  /\ wpc = "poll"
  /\ fd = 0
  /\ wpc' = "reset"
  /\ UNCHANGED <<signaled, fd, spc, work>>

\* The timeout: POSIX resets the flag all the same, Windows does not.
TimeOut ==
  /\ wpc = "poll"
  /\ fd = 0
  /\ wpc' = IF Windows THEN "check" ELSE "reset"
  /\ UNCHANGED <<signaled, fd, spc, work>>

\* Variant: the flag is counted down.
ResetByDecrement ==
  /\ wpc \in {"woken", "reset"}
  /\ signaled' = signaled - 1
  /\ wpc' = "check"
  /\ UNCHANGED <<fd, spc, work>>

\* atomicWrite(signaled, 0), the last thing a wait does.
Reset ==
  /\ wpc \in {"woken", "reset"}
  /\ signaled' = 0
  /\ wpc' = "check"
  /\ UNCHANGED <<fd, spc, work>>

Signaller(s) == Publish(s) \/ Cas(s) \/ Write(s)

Waiter == Check \/ Wake \/ Abort \/ TimeOut \/ Reset

Next == Waiter \/ \E s \in Signallers : Signaller(s)

Spec == Init /\ [][Next]_vars

\* A signal() that was begun is finished, and the waiter's own code runs on.
\* Nothing makes anyone signal, or a descriptor or a timeout arrive.
Fairness ==
  /\ WF_vars(Check \/ Wake \/ Reset)
  /\ \A s \in Signallers : WF_vars(Cas(s) \/ Write(s))

FairSpec == Spec /\ Fairness

-----------------------------------------------------------------------------
\* The counter never passes the number of OS threads that can be mid-signal
\* plus one; it is a Nat here because the proofs need no more.
TypeOK ==
  /\ signaled \in {0, 1}
  /\ fd \in Nat
  /\ spc \in [Signallers -> {"idle", "cas", "write"}]
  /\ wpc \in {"check", "poll", "woken", "reset"}
  /\ work \subseteq Signallers

Writing == \E s \in Signallers : spc[s] = "write"

\* The flag may only suppress a write while another wake-up is certain: the
\* counter is up, someone is about to raise it, or the waiter is about to look
\* for work again and clears the flag first.
FlagIsBacked == signaled = 1 => fd > 0 \/ Writing \/ wpc = "woken"

\* No lost wake-up (IOCondition.cpp:74-125 against UThread.cpp:516-551): when
\* the waiter is asleep although work was published, a wake-up is on its way.
NoLostSignal ==
  wpc = "poll" /\ work # {} =>
    fd > 0 \/ \E s \in Signallers : spc[s] \in {"cas", "write"}

\* Work that has been published is found, although the waiter looks only once
\* before each wait and nothing else ever wakes it.
WorkIsFound == \A s \in Signallers : s \in work ~> s \notin work

\* The promise of IOCondition.h:9-20, as the token that the scheduler uses.
Token == INSTANCE WakeToken WITH
           pending <- signaled = 1 \/ fd > 0 \/ Writing \/ wpc = "woken",
           blocked <- wpc # "check"

ImplementsToken == Token!Safety
AnswersToken == Token!Spec
==============================================================================
