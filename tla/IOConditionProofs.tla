-------------------------- MODULE IOConditionProofs --------------------------
(***************************************************************************)
(* IOCondition, for any number of signalling OS threads and both           *)
(* implementations: no signal is lost, and the condition implements the    *)
(* token that the scheduler is written against.                            *)
(***************************************************************************)
EXTENDS IOCondition, TLAPS

\* The flag and the published work depend on each other: a signaller that loses
\* the CAS may only go because FlagIsBacked says that another wake-up is coming.
SignalInv == TypeOK /\ FlagIsBacked /\ NoLostSignal

LEMMA InitSignal == Init => SignalInv
BY DEF Init, SignalInv, TypeOK, FlagIsBacked, NoLostSignal

LEMMA StepSignal == SignalInv /\ [Next]_vars => SignalInv'
<1> SUFFICES ASSUME SignalInv, [Next]_vars PROVE SignalInv'
  OBVIOUS
<1> USE PlatformAssumption
<1> USE DEF SignalInv, TypeOK, FlagIsBacked, NoLostSignal, Writing
<1>1. ASSUME NEW s \in Signallers, Publish(s) PROVE SignalInv'
  BY <1>1 DEF Publish
<1>2. ASSUME NEW s \in Signallers, Cas(s) PROVE SignalInv'
  BY <1>2 DEF Cas
<1>3. ASSUME NEW s \in Signallers, Write(s) PROVE SignalInv'
  BY <1>3 DEF Write
<1>4. CASE Check
  BY <1>4 DEF Check
<1>5. CASE Wake
  BY <1>5 DEF Wake
<1>6. CASE Abort
  BY <1>6 DEF Abort
<1>7. CASE TimeOut
  BY <1>7 DEF TimeOut
<1>8. CASE Reset
  BY <1>8 DEF Reset
<1>9. CASE UNCHANGED vars
  BY <1>9 DEF vars
<1> QED
  BY <1>1, <1>2, <1>3, <1>4, <1>5, <1>6, <1>7, <1>8, <1>9
  DEF Next, Signaller, Waiter

\* The flag is 0 or 1 and every program counter where the code has a line, also
\* when several signallers race for the flag.
THEOREM TypeCorrect == Spec => []TypeOK
BY InitSignal, StepSignal, PTL DEF Spec, SignalInv

\* Whoever finds the flag set may go: another wake-up is certain.
THEOREM FlagStandsForSignal == Spec => []FlagIsBacked
BY InitSignal, StepSignal, PTL DEF Spec, SignalInv

\* The waiter never sleeps on published work without a wake-up on its way.
THEOREM SignalsAreNotLost == Spec => [](TypeOK /\ FlagIsBacked /\ NoLostSignal)
BY InitSignal, StepSignal, PTL DEF Spec, SignalInv

LEMMA StepToken == SignalInv /\ [Next]_vars => [Token!Next]_(Token!tokenVars)
<1> SUFFICES ASSUME SignalInv, [Next]_vars
             PROVE  Token!Next \/ UNCHANGED Token!tokenVars
  OBVIOUS
<1> USE PlatformAssumption
<1> USE DEF SignalInv, TypeOK, FlagIsBacked, Writing
<1> DEFINE pending == signaled = 1 \/ fd > 0 \/ Writing \/ wpc = "woken"
           blocked == wpc # "check"
<1>1. ASSUME NEW s \in Signallers, Publish(s) PROVE UNCHANGED Token!tokenVars
  BY <1>1 DEF Publish, Token!tokenVars
<1>2. ASSUME NEW s \in Signallers, Cas(s) PROVE Token!Signal
  BY <1>2 DEF Cas, Token!Signal
<1>3. ASSUME NEW s \in Signallers, Write(s) PROVE Token!Signal
  BY <1>3 DEF Write, Token!Signal
<1>4. CASE Check
  BY <1>4 DEF Check, Token!Enter, Token!tokenVars, Token!Next
<1>5. CASE Wake
  BY <1>5 DEF Wake, Token!tokenVars
<1>6. CASE Abort
  BY <1>6 DEF Abort, Token!tokenVars
<1>7. CASE TimeOut
  BY <1>7 DEF TimeOut, Token!GiveUp, Token!tokenVars, Token!Next
<1>8. CASE Reset
  <2>1. CASE wpc = "woken"
    BY <1>8, <2>1 DEF Reset, Token!Answer, Token!Next
  <2>2. CASE wpc = "reset"
    BY <1>8, <2>2 DEF Reset, Token!GiveUp, Token!Next
  <2> QED BY <1>8, <2>1, <2>2 DEF Reset
<1>9. CASE UNCHANGED vars
  BY <1>9 DEF vars, Token!tokenVars
<1> QED
  BY <1>1, <1>2, <1>3, <1>4, <1>5, <1>6, <1>7, <1>8, <1>9
  DEF Next, Signaller, Waiter, Token!Next

\* Both implementations of IOCondition keep the promise that UThreadSched makes
\* its OS threads sleep and wake up on.
THEOREM ImplementsWakeToken == Spec => ImplementsToken
<1>1. Init => Token!Init
  BY DEF Init, Token!Init, Writing
<1> QED BY <1>1, InitSignal, StepSignal, StepToken, PTL
        DEF Spec, ImplementsToken, Token!Safety
==============================================================================
