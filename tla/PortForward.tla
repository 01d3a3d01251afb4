---------------------------- MODULE PortForward ----------------------------
(***************************************************************************)
(* Port-forwards: the session's Manager (internal/action/portfwd), the     *)
(* actions that start a forward (internal/view/resource.go) and the page   *)
(* that lists, restarts and deletes them (internal/view/portforwards.go).  *)
(*                                                                         *)
(* A forward has two goroutines: run, which sets it up and then blocks in  *)
(* client-go's ForwardPorts, and one that waits for the local listeners    *)
(* and reports the forward active.  Both race with the event loop, which   *)
(* removes forwards and disposes of the session.  Each critical section of *)
(* the manager's mutex is one step.                                        *)
(*                                                                         *)
(* List returns the forwards in the order of a Go map, which is a new one  *)
(* on every call.                                                          *)
(***************************************************************************)
EXTENDS Integers, FiniteSets

CONSTANTS
  MaxForwards,   \* bound: forwards ever started in the session
  MaxResolving   \* bound: forwards to a service or workload being resolved

ASSUME ForwardAssumption == MaxForwards \in Nat \ {0} /\ MaxResolving \in Nat

VARIABLES
  seq,        \* m.seq: forwards are numbered in the order of their start
  state,      \* fw.State
  run,        \* control point of m.run(fw)
  ready,      \* control point of the goroutine that waits for readyCh
  listed,     \* m.forwards
  stoppedForwards,  \* forwards whose stopCh is closed
  late,       \* history: forwards started after the session was disposed
  resolving,  \* commands that look for the pod behind a service or workload
  disposed,   \* Session.Dispose was called
  cursor      \* pfPage.cursor, from 0

fwdVars == <<seq, state, run, ready, listed, stoppedForwards, late>>
forwardsVars == <<fwdVars, resolving, disposed, cursor>>

Forwards == 1..MaxForwards
Started  == 1..seq

-----------------------------------------------------------------------------
(* The manager *)

\* Start: the next number, state Starting, and run on a goroutine of its own.
\* The states and the list are those that a Remove before it has left.
Start(states, list) ==
  /\ seq < MaxForwards
  /\ seq' = seq + 1
  /\ state' = [states EXCEPT ![seq + 1] = "starting"]
  /\ run' = [run EXCEPT ![seq + 1] = "setup"]
  /\ listed' = list \cup {seq + 1}
  /\ late' = IF disposed THEN late \cup {seq + 1} ELSE late
  /\ UNCHANGED ready

\* run fails before it forwards: fail does not look at the state.
SetupFails(i) ==
  /\ run[i] = "setup"
  /\ run' = [run EXCEPT ![i] = "done"]
  /\ state' = [state EXCEPT ![i] = "broken"]
  /\ UNCHANGED <<seq, ready, listed, stoppedForwards, late, resolving, disposed, cursor>>

\* run starts the goroutine that waits for readyCh and calls ForwardPorts.
ForwardPorts(i) ==
  /\ run[i] = "setup"
  /\ run' = [run EXCEPT ![i] = "forward"]
  /\ ready' = [ready EXCEPT ![i] = "wait"]
  /\ UNCHANGED <<seq, state, listed, stoppedForwards, late, resolving, disposed, cursor>>

\* ForwardPorts listens and closes readyCh.
Listening(i) ==
  /\ run[i] = "forward" /\ ready[i] = "wait"
  /\ ready' = [ready EXCEPT ![i] = "report"]
  /\ UNCHANGED <<seq, state, run, listed, stoppedForwards, late, resolving, disposed, cursor>>

\* Only a forward that is still starting becomes active.
ReportUnguarded(i) ==
  /\ ready[i] = "report"
  /\ ready' = [ready EXCEPT ![i] = "done"]
  /\ state' = [state EXCEPT ![i] = "active"]
  /\ UNCHANGED <<seq, run, listed, stoppedForwards, late, resolving, disposed, cursor>>
ReportReady(i) ==
  /\ ready[i] = "report"
  /\ ready' = [ready EXCEPT ![i] = "done"]
  /\ state' = [state EXCEPT ![i] = IF @ = "starting" THEN "active" ELSE @]
  /\ UNCHANGED <<seq, run, listed, stoppedForwards, late, resolving, disposed, cursor>>

\* ForwardPorts returns: with an error at any time, without one only because
\* stopCh is closed.
AlwaysClosed(i, failed) == "closed"
EndState(i, failed) == IF state[i] # "closed" /\ failed THEN "broken" ELSE "closed"

\* ... and as if it did not watch stopCh.
EndsByErrorOnly(i) ==
  /\ run[i] = "forward" /\ i \notin stoppedForwards
  /\ run' = [run EXCEPT ![i] = "done"]
  /\ state' = [state EXCEPT ![i] = EndState(i, TRUE)]
  /\ UNCHANGED <<seq, ready, listed, stoppedForwards, late, resolving, disposed, cursor>>
ForwardEnds(i) ==
  /\ run[i] = "forward"
  /\ run' = [run EXCEPT ![i] = "done"]
  /\ \E failed \in BOOLEAN :
       /\ ~failed => i \in stoppedForwards
       /\ state' = [state EXCEPT ![i] = EndState(i, failed)]
  /\ UNCHANGED <<seq, ready, listed, stoppedForwards, late, resolving, disposed, cursor>>

\* The channels that StopAll closes.
CloseActive == {i \in listed : state[i] = "active"}
CloseListed == listed

\* Dispose of the session: StopAll forgets every forward and closes its stopCh.
Dispose ==
  /\ ~disposed
  /\ disposed' = TRUE
  /\ listed' = {} /\ stoppedForwards' = stoppedForwards \cup CloseListed
  /\ cursor' = 0
  /\ UNCHANGED <<seq, state, run, ready, late, resolving>>

-----------------------------------------------------------------------------
(* The actions that start a forward *)

\* forwardPod, within Update.
ForwardPod ==
  /\ ~disposed
  /\ Start(state, listed)
  /\ UNCHANGED <<stoppedForwards, resolving, disposed, cursor>>

\* forwardService and forwardWorkload look for a pod first, on a goroutine.
ForwardResolved ==
  /\ ~disposed /\ resolving < MaxResolving
  /\ resolving' = resolving + 1
  /\ UNCHANGED <<fwdVars, disposed, cursor>>

\* startForwardTo: the look-up failed or found no ports, or Start is called,
\* whatever has become of the session meanwhile.
ResolveFails ==
  /\ resolving > 0
  /\ resolving' = resolving - 1
  /\ UNCHANGED <<fwdVars, disposed, cursor>>

StartForwardTo ==
  /\ resolving > 0
  /\ resolving' = resolving - 1
  /\ Start(state, listed)
  /\ UNCHANGED <<stoppedForwards, disposed, cursor>>

-----------------------------------------------------------------------------
(* pfPage *)

\* View lists the forwards and moves the cursor back into the list.
ClampedCursor(n) == IF cursor < n THEN cursor ELSE IF n = 0 THEN 0 ELSE n - 1

View ==
  /\ ~disposed
  /\ cursor' = ClampedCursor(Cardinality(listed))
  /\ UNCHANGED <<fwdVars, resolving, disposed>>

\* Navigation opens a new page.
EnterPage ==
  /\ ~disposed
  /\ cursor' = 0
  /\ UNCHANGED <<fwdVars, resolving, disposed>>

Move ==
  /\ ~disposed
  /\ \/ cursor + 1 < Cardinality(listed) /\ cursor' = cursor + 1
     \/ cursor > 0 /\ cursor' = cursor - 1
  /\ UNCHANGED <<fwdVars, resolving, disposed>>

\* A key acts on the forward at the cursor of a new List, whose order is random
\* (List ranges over a map): whichever forward comes to stand there.
Hit(i) ==
  /\ ~disposed /\ i \in listed /\ cursor < Cardinality(listed)
  /\ UNCHANGED <<cursor, resolving, disposed>>

\* Stop: the state, and the channels closed afterwards.
Closed(i) == [state EXCEPT ![i] = "closed"]
StopOne(i) == stoppedForwards \cup {i}

RemoveForward(i) ==
  /\ Hit(i)
  /\ state' = Closed(i) /\ stoppedForwards' = StopOne(i)
  /\ listed' = listed \ {i}
  /\ UNCHANGED <<seq, run, ready, late>>

\* Remove and Start in one Update.
Restart(i) ==
  /\ Hit(i)
  /\ stoppedForwards' = StopOne(i)
  /\ Start(Closed(i), listed \ {i})

-----------------------------------------------------------------------------
ForwardsInit ==
  /\ seq = 0 /\ state = [i \in Forwards |-> "new"]
  /\ run = [i \in Forwards |-> "new"] /\ ready = [i \in Forwards |-> "new"]
  /\ listed = {} /\ stoppedForwards = {} /\ late = {} /\ resolving = 0 /\ disposed = FALSE
  /\ cursor = 0

RunStep(i) == SetupFails(i) \/ ForwardPorts(i) \/ Listening(i) \/ ReportReady(i) \/ ForwardEnds(i)

ForwardsNext ==
  \/ \E i \in Forwards : RunStep(i) \/ RemoveForward(i) \/ Restart(i)
  \/ ForwardPod \/ ForwardResolved \/ ResolveFails \/ StartForwardTo
  \/ View \/ EnterPage \/ Move \/ Dispose

\* The set-up is local, so run gets past it; ForwardPorts returns once its stopCh
\* is closed (client-go waits for it and for the connection).
ForwardsFairness ==
  \A i \in Forwards :
    /\ WF_forwardsVars(SetupFails(i) \/ ForwardPorts(i))
    /\ WF_forwardsVars(i \in stoppedForwards /\ ForwardEnds(i))
    /\ WF_forwardsVars(ReportReady(i))

ForwardsSpec == ForwardsInit /\ [][ForwardsNext]_forwardsVars
ForwardsFairSpec == ForwardsSpec /\ ForwardsFairness

-----------------------------------------------------------------------------
(* Properties *)

ForwardsTypeOK ==
  /\ seq \in 0..MaxForwards
  /\ state \in [Forwards -> {"new", "starting", "active", "broken", "closed"}]
  /\ run \in [Forwards -> {"new", "setup", "forward", "done"}]
  /\ ready \in [Forwards -> {"new", "wait", "report", "done"}]
  /\ listed \subseteq Started /\ stoppedForwards \subseteq Started /\ late \subseteq Started
  /\ resolving \in 0..MaxResolving /\ disposed \in BOOLEAN
  /\ cursor \in Nat

Running(i) == run[i] \in {"setup", "forward"}

\* A forward that runs and was not told to stop can still be stopped: it is in the
\* list of a session that is not disposed (Remove and StopAll never forget one
\* without closing its stopCh), unless it was started after the disposal.
NoStray ==
  \A i \in Forwards : Running(i) /\ i \notin stoppedForwards =>
    i \in listed /\ (~disposed \/ i \in late)

\* "Active: ready and forwarding" (portfwd.go): however late the report of the
\* listeners comes, a forward that has ended is never shown as active again.
ActiveForwards == \A i \in Forwards : state[i] = "active" => run[i] = "forward"

\* "A broken forward is surfaced for the user to restart or delete" (portfwd.go):
\* a forward that has ended and is still listed says that it is broken.
BrokenSurfaces == \A i \in listed : run[i] = "done" => state[i] = "broken"

\* A stopped forward ends, in whatever state it was when it was stopped.
StoppedEnds == \A i \in Forwards : i \in stoppedForwards ~> run[i] = "done"

\* Stopping settles: a forward that was told to stop ends, only forwards that were
\* started are ever listed or stopped, and the cursor never falls below the first
\* row while the list shrinks to nothing under it (Remove, View).
StopSettles == []ForwardsTypeOK /\ StoppedEnds
=============================================================================
