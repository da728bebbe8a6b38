-------------------------------- MODULE IOWait --------------------------------
(***************************************************************************)
(* UThreads that wait for file descriptors on one OS thread (POSIX):       *)
(* IOHandle and IORequest (OS/IOHandle.cpp, OS/IORequest.cpp), the streams *)
(* that use them (Core/Io/HandleStream.cpp) and the sleep of the OS thread *)
(* in ThreadData::waitForWork.                                             *)
(*                                                                         *)
(* Composed of IOCondition and IORequests: every step is a step of each or *)
(* leaves its variables alone.  The OS thread signals itself when a        *)
(* descriptor makes one of its UThreads ready: it is the signaller Self.   *)
(* Its UThreads take turns, so all they do between two switches is one     *)
(* step.  A read stands for a write as well, which waits in the same way.  *)
(***************************************************************************)
EXTENDS IOCondition, IORequests

CONSTANT Self   \* The OS thread as the one who signals.

ASSUME IOWaitAssumption == Self \in Signallers /\ ~ Windows

VARIABLES
  pc,      \* "idle", "blocked" in request.wake, "ready", or "running" again.
  data,    \* Descriptors with something to read.
  revents, \* The slots that poll has flagged and notifyAll has not yet seen.
  io       \* Whether the OS thread is about to call notifyAll.

ioVars == <<requestVars, pc, data, revents, io>>
allVars == <<vars, ioVars>>

IOInit ==
  /\ Init /\ RequestInit
  /\ pc = [r \in Readers |-> "idle"]
  /\ data = {}
  /\ revents = {}
  /\ io = FALSE

\* The OS thread is not in the middle of a call.
AtEase == spc[Self] = "idle" /\ ~ io /\ Sound

\* The code of any of its UThreads runs.
Running == AtEase /\ wpc = "check" /\ \A r \in Readers : pc[r] # "running"

\* What a poll of the table reports; POLLNVAL for a descriptor that is closed.
Reported ==
  {s \in Used(handles) : handles.key[s] \in data \/ handles.key[s] \notin open}

\* Variant: the readers are made ready without a signal.
SetSilent(readers) ==
  /\ pc' = [r \in Readers |->
              IF r \in readers /\ pc[r] = "blocked" THEN "ready" ELSE pc[r]]
  /\ UNCHANGED vars

\* request.wake.set(): a reader that waits is pushed on the ready list, and the
\* OS thread signalled (again and again, which is the same as once).
Set(readers) ==
  LET woken == {r \in readers \cap Readers : pc[r] = "blocked"}
  IN  /\ pc' = [r \in Readers |-> IF r \in woken THEN "ready" ELSE pc[r]]
      /\ IF woken = {} THEN UNCHANGED vars ELSE Publish(Self)

-----------------------------------------------------------------------------
(* Streams. *)

\* ::read, and for EAGAIN a request, whose wake.wait() suspends.
Read(r, f) ==
  /\ Running
  /\ pc[r] = "idle" /\ f \in open
  /\ \/ /\ f \in data
        /\ data' = data \ {f}
        /\ UNCHANGED <<requestVars, pc>>
     \/ /\ f \notin data
        /\ Create(r, f)
        /\ pc' = [pc EXCEPT ![r] = "blocked"]
        /\ UNCHANGED data
  /\ UNCHANGED <<vars, revents, io>>

\* wait() returns, and ~IORequest detaches.  A closed stream reads nothing, any
\* other is read again, and perhaps waited for again.
Resume(r) ==
  /\ AtEase /\ wpc = "check" /\ pc[r] = "running"
  /\ \/ GoAstray(r) /\ UNCHANGED <<pc, data>>
     \/ /\ r \in closed \/ on[r] \in data
        /\ Destroy(r)
        /\ pc' = [pc EXCEPT ![r] = "idle"]
        /\ data' = (IF r \in closed THEN data ELSE data \ {on[r]})
     \/ /\ on[r] \notin data
        /\ Retry(r)
        /\ pc' = [pc EXCEPT ![r] = "blocked"]
        /\ UNCHANGED data
  /\ UNCHANGED <<vars, revents, io>>


\* Another UThread closes a stream.  IOHandle::remove wakes those it removes.
Close(f) ==
  /\ Running
  /\ RemoveHandle(f)
  /\ Set(Removed(f))
  /\ data' = data \cap open'
  /\ UNCHANGED <<revents, io>>

OpenStream(f) ==
  /\ Running
  /\ Open(f)
  /\ UNCHANGED <<vars, pc, data, revents, io>>

\* The other end of a stream.
Arrive(f) ==
  /\ f \in open
  /\ data' = data \union {f}
  /\ UNCHANGED <<vars, requestVars, pc, revents, io>>

-----------------------------------------------------------------------------
(* The OS thread. *)

\* wait() or leave() pops a reader; the first it does is reap() with checkIo().
Switch(r) ==
  /\ Running
  /\ pc[r] = "ready"
  /\ pc' = [pc EXCEPT ![r] = "running"]
  /\ io' = TRUE
  /\ UNCHANGED <<vars, requestVars, data, revents>>

\* It pops a UThread that has nothing to do with streams, or nothing, and then
\* waitForWork begins with checkIo().
Look ==
  /\ Running
  /\ work = {} => \A r \in Readers : pc[r] # "ready"
  /\ Check
  /\ io' = TRUE
  /\ UNCHANGED <<requestVars, pc, data, revents>>

\* leave() finds nothing else to run.
Leave ==
  /\ Running
  /\ io' = TRUE
  /\ UNCHANGED <<vars, requestVars, pc, data, revents>>

\* Variant: only what the last sleep has reported is looked at.
notifyReported ==
  /\ io /\ spc[Self] = "idle"
  /\ Set({handles.val[s] : s \in revents})
  /\ revents' = {}
  /\ io' = FALSE
  /\ UNCHANGED <<requestVars, data>>

\* Uses what the last sleep has reported, and asks again if there is nothing.
notifyAll ==
  LET events == IF revents = {} THEN Reported ELSE revents
  IN  /\ io /\ spc[Self] = "idle"
      /\ Set({handles.val[s] : s \in events})
      /\ revents' = {}
      /\ io' = FALSE
      /\ UNCHANGED <<requestVars, data>>

\* poll() returns for the eventfd, perhaps among others, for others, or for the
\* next sleeper; there may be any.
Poll ==
  /\ AtEase
  /\ Wake \/ (Abort /\ Reported # {}) \/ (TimeOut /\ Reported = {})
  /\ revents' = Reported
  /\ UNCHANGED <<requestVars, pc, data, io>>

\* waitForWork ends with checkIo().
EndWait ==
  /\ Reset
  /\ io' = TRUE
  /\ UNCHANGED <<requestVars, pc, data, revents>>

\* signal(), by the others and by Self for what notifyAll or Close has pushed.
Signal(s) ==
  /\ Cas(s) \/ Write(s) \/ (s # Self /\ Publish(s))
  /\ UNCHANGED ioVars

Streams ==
  \/ \E f \in Fds : Close(f) \/ OpenStream(f) \/ Arrive(f)
  \/ \E r \in Readers, f \in Fds : Read(r, f)

IONext ==
  \/ Streams
  \/ Look \/ Leave \/ notifyAll \/ Poll \/ EndWait
  \/ \E r \in Readers : Switch(r) \/ Resume(r)
  \/ \E s \in Signallers : Signal(s)

IOSpec == IOInit /\ [][IONext]_allVars

\* What the OS thread does next when it has no choice.
Proceed ==
  \/ notifyAll \/ EndWait \/ (Poll /\ (fd > 0 \/ Reported # {}))
  \/ \E r \in Readers : Resume(r)
  \/ Signal(Self)

\* Code runs on, and poll() returns for what has happened, not for a timeout.
\* UThreads yield, and the ready list is first come, first served: whatever is
\* on it again and again is popped (ReadyRuns in UThreadSched.tla).
IOFairness ==
  /\ WF_allVars(Proceed)
  /\ \A s \in Signallers \ {Self} : WF_allVars(Signal(s) /\ spc[s] # "idle")
  /\ SF_allVars(Look)
  /\ \A r \in Readers : SF_allVars(Switch(r))

IOFairSpec == IOSpec /\ IOFairness

-----------------------------------------------------------------------------
\* Everyone who waits is in the table, under its descriptor and where find and
\* next lead to, until its stream is closed; nobody else is, since a request
\* lives on the stack of its reader (IORequest.cpp:39-47, IOHandle.cpp:102-115).
TableIsExact ==
  /\ Values(handles) = {r \in Readers : pc[r] # "idle" /\ r \notin closed}
  /\ \A s \in Used(handles) :
       /\ handles.key[s] = on[handles.val[s]]
       /\ Seek(handles, find(handles, handles.key[s]), handles.val[s]) = s

\* The OS thread does not sleep on a reader that its own checkIo has made ready
\* just before (Thread.cpp:269-297): its signal to itself ends the sleep.
NoSleepOnReady ==
  wpc = "poll" /\ (\E r \in Readers : pc[r] = "ready") =>
    fd > 0 \/ Writing \/ spc[Self] = "cas"

\* What arrives is noticed, whether the OS thread sleeps or is never idle
\* (Thread.cpp:304-306, IOHandle.cpp:117-146).
DataIsNoticed ==
  \A r \in Readers :
    pc[r] = "blocked" /\ on[r] \in data
      ~> pc[r] \in {"running", "idle"} \/ on[r] \notin data

==============================================================================
