------------------------------ MODULE IORequests ------------------------------
(***************************************************************************)
(* The requests of one OS thread (POSIX): IORequest objects on the stacks  *)
(* of its UThreads (OS/IORequest.cpp) and the table of those that wait     *)
(* (OS/IOHandle.cpp over FdMap), as descriptors are attached, detached,    *)
(* closed and given out again.  When a reader is woken, and why, is in     *)
(* IOWait.tla, each step of which is a step of this module or none.        *)
(***************************************************************************)
EXTENDS FdMap

CONSTANTS
  Readers,  \* UThreads of the OS thread that read from streams.
  Reuse     \* A number is given out again while an earlier reader of it has
            \* yet to see that its stream was closed.

ASSUME RequestAssumption == Null \notin Readers /\ Reuse \in BOOLEAN

VARIABLES
  on,      \* The descriptor that a reader with a request has it for.
  closed,  \* The readers whose request has IORequest::closed.
  handles, \* IOHandle::handles
  open,    \* Descriptors in use.
  astray   \* Whether a lookup in handles has left the table.

requestVars == <<on, closed, handles, open, astray>>

None == -1

RequestInit ==
  /\ on = [r \in Readers |-> None]
  /\ closed = {}
  /\ handles = EmptyMap
  /\ open = Fds
  /\ astray = FALSE

\* A request is left in the table when its reader has gone on, and the stack it
\* was on is used for something else.
Stale == \E s \in Used(handles) : on[handles.val[s]] = None

\* Nothing is said of what follows, nor of a lookup that has gone astray.
Sound == ~ astray /\ ~ Stale

\* IOHandle::attach, to the table given.
Attach(r, f, table) ==
  /\ Used(table) # Slots   \* Bound: a ninth request is not modelled.
  /\ handles' = put(table, f, r)
  /\ on' = [on EXCEPT ![r] = f]

\* The table that IOHandle::detach leaves; none if its lookup goes astray.
Detached(r) ==
  {IF pos \in Slots THEN remove(handles, pos) ELSE handles :
     pos \in {Seek(handles, first, r) : first \in {find(handles, on[r])}} \ {Astray}}

\* IORequest::IORequest
Create(r, f) ==
  /\ Sound
  /\ on[r] = None /\ f \in open
  /\ Attach(r, f, handles)
  /\ UNCHANGED <<closed, open, astray>>

\* IORequest::~IORequest
Destroy(r) ==
  /\ Sound
  /\ on[r] # None
  /\ handles' \in Detached(r)
  /\ on' = [on EXCEPT ![r] = None]
  /\ closed' = closed \ {r}
  /\ UNCHANGED <<open, astray>>

\* The same, and the constructor of the next request for the same descriptor.
Retry(r) ==
  /\ Sound
  /\ on[r] # None /\ r \notin closed
  /\ \E table \in Detached(r) : Attach(r, on[r], table)
  /\ UNCHANGED <<closed, open, astray>>

\* Nobody comes back from a lookup that goes astray.
GoAstray(r) ==
  /\ Sound
  /\ on[r] # None /\ Detached(r) = {}
  /\ astray' = TRUE
  /\ UNCHANGED <<on, closed, handles, open>>

\* Whom IOHandle::remove marks and takes out.
Removed(f) == Values(handles) \ Values(removeAll(handles, f))

\* IOHandle::remove, and ::close if it comes to an end.
RemoveHandle(f) ==
  LET table == removeAll(handles, f)
  IN  /\ Sound
      /\ f \in open
      /\ closed' = closed \union Removed(f)
      /\ handles' = table
      /\ astray' = (find(table, f) = Astray)
      /\ open' = (IF astray' THEN open ELSE open \ {f})
      /\ UNCHANGED on

\* The operating system gives out a number.
Open(f) ==
  /\ Sound
  /\ f \notin open
  /\ Reuse \/ \A r \in Readers : on[r] # f
  /\ open' = open \union {f}
  /\ UNCHANGED <<on, closed, handles, astray>>

RequestNext ==
  \/ \E r \in Readers : Destroy(r) \/ Retry(r) \/ GoAstray(r) \/ \E f \in Fds : Create(r, f)
  \/ \E f \in Fds : RemoveHandle(f) \/ Open(f)

RequestSpec == RequestInit /\ [][RequestNext]_requestVars

-----------------------------------------------------------------------------
\* FdMap.h:43, 46: find and next return an element, or "capacity() if not found".
LookupsEnd == ~ astray

\* No request is left in the table when its reader has gone on and its stack
\* with it: IOHandle.h:70.
NoStaleRequest == ~ Stale

\* An element that is not in its primary slot makes room for one that is.
Moves ==
  \E s \in Used(handles) \cap Used(handles') :
    primarySlot[handles.key[s]] # s /\ primarySlot[handles'.key[s]] = s

\* The requests are those of who waits, once each, and the table is in order.
TableInOrder ==
  /\ InOrder(handles)
  /\ Values(handles) = {r \in Readers : on[r] # None} \ closed
  /\ \A s, t \in Used(handles) :
       /\ handles.key[s] = on[handles.val[s]]
       /\ handles.val[s] = handles.val[t] => s = t

\* What goes wrong with the table begins at FdMap.h:155-168, and nowhere else:
\* attaching, detaching and closing in whatever order, also with numbers used
\* again, chains of several descriptors and lookups that go astray, keep it in
\* order (IOHandle.cpp:102-115, 158-170; FdMap.h:140-255).
OnlyMovesDisorder == [][TableInOrder => TableInOrder' \/ Moves]_requestVars
==============================================================================
