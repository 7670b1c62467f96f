------------------------------- MODULE Monitors -------------------------------
(***************************************************************************)
(* mixins/positions_mixin.py: monitor_positions() and                      *)
(* stop_monitor_positions().  A monitor is a thread that calls back every  *)
(* interval until an Event is set.  Which Event that is, it looks up again *)
(* at every turn of its loop, in an attribute that every start replaces.   *)
(***************************************************************************)
EXTENDS Integers

CONSTANT MaxMonitors   \* bound: monitors that are started

ASSUME MonitorAssumption == MaxMonitors \in Nat \ {0}

VARIABLES
  started,   \* the monitors started so far; _monitor_stop is the Event of the last one
  stops,     \* the Events that are set, by the number of their monitor
  turn       \* of each monitor: where it is, and the Event it waits on

monitorVars == <<started, stops, turn>>

MonitorIds == 1 .. MaxMonitors
NoEvent    == 0

At(stage, event) == [stage |-> stage, event |-> event]

MonitorInit ==
  /\ started = 0
  /\ stops = {}
  /\ turn = [m \in MonitorIds |-> At("none", NoEvent)]

Alive(m) == turn[m].stage \notin {"none", "ended"}

\* A monitor that is still alive is told to stop first, and not waited for.
MonitorPositions ==
  /\ started < MaxMonitors
  /\ stops' = IF started > 0 /\ Alive(started) THEN stops \cup {started} ELSE stops
  /\ started' = started + 1
  /\ turn' = [turn EXCEPT ![started'] = At("looks", NoEvent)]

StopMonitorPositions ==
  /\ started > 0
  /\ stops' = stops \cup {started}
  /\ UNCHANGED <<started, turn>>

\* while not self._monitor_stop.wait(...): the attribute is read, then the wait begins.
LooksUp(m) ==
  /\ turn[m].stage = "looks"
  /\ turn' = [turn EXCEPT ![m] = At("waits", started)]
  /\ UNCHANGED <<started, stops>>

EndsMonitor(m) ==
  /\ turn[m].stage = "waits" /\ turn[m].event \in stops
  /\ turn' = [turn EXCEPT ![m] = At("ended", NoEvent)]
  /\ UNCHANGED <<started, stops>>

\* The interval is over: the positions go to the callback.
CallsBack(m) ==
  /\ turn[m].stage = "waits" /\ turn[m].event \notin stops
  /\ turn' = [turn EXCEPT ![m] = At("calls", NoEvent)]
  /\ UNCHANGED <<started, stops>>

\* An exception of the callback is logged.
CallbackEnds(m) ==
  /\ turn[m].stage = "calls"
  /\ turn' = [turn EXCEPT ![m] = At("looks", NoEvent)]
  /\ UNCHANGED <<started, stops>>

MonitorSteps(m) == LooksUp(m) \/ EndsMonitor(m) \/ CallsBack(m) \/ CallbackEnds(m)

MonitorNext == MonitorPositions \/ StopMonitorPositions \/ \E m \in MonitorIds : MonitorSteps(m)

MonitorSpec == MonitorInit /\ [][MonitorNext]_monitorVars

\* The threads run, and a callback ends; nobody has to start or stop one.
FairMonitorSpec == MonitorSpec /\ \A m \in MonitorIds : WF_monitorVars(MonitorSteps(m))

-----------------------------------------------------------------------------
(* Properties *)

MonitorTypeOK ==
  /\ started \in 0 .. MaxMonitors
  /\ stops \subseteq 1 .. started
  /\ turn \in [MonitorIds -> [stage : {"none", "looks", "waits", "calls", "ended"},
                              event : 0 .. MaxMonitors]]

\* Once the last monitor was told to stop, every monitor that was ever started ends,
\* those that took over its Event after a restart included, unless another is started.
StopEndsAll ==
  \A n \in MonitorIds :
    (started = n /\ n \in stops) ~> (started > n \/ \A m \in MonitorIds : ~Alive(m))
=============================================================================
