-------------------------- MODULE GossipNodeProofs --------------------------
(***************************************************************************)
(* Theorems about GossipNode, for every set of programs and every value of *)
(* the thresholds.                                                         *)
(***************************************************************************)
EXTENDS GossipNode, TLAPS

USE DEF timers, asks, loop, tasks

-----------------------------------------------------------------------------
(* Type correctness.                                                       *)

\* An ask leaves the shared failure count and the flags within their types.
LEMMA AskType ==
    ASSUME TypeOK, NEW cause \in {"echo", "own", "real"}, Ask(cause)
    PROVE  /\ failures' \in 0..ReconnectAfter
           /\ requested' \in BOOLEAN /\ forced' \in BOOLEAN /\ permit' \in BOOLEAN
           /\ early' \in BOOLEAN
           /\ why' \in {"none", "echo", "own", "real"}
  <1>1. why' \in {"none", "echo", "own", "real"}
    BY DEF Ask, Stronger
  <1>2. early' \in BOOLEAN
    BY Zenon DEF Ask
  <1> QED BY <1>1, <1>2, NodeAssumption DEF Ask, TypeOK

\* So does a watchdog that only trips the threshold.
LEMMA TripType ==
    ASSUME TypeOK, Trip
    PROVE  /\ failures' \in 0..ReconnectAfter
           /\ requested' \in BOOLEAN /\ forced' \in BOOLEAN /\ permit' \in BOOLEAN
           /\ early' \in BOOLEAN
           /\ why' \in {"none", "echo", "own", "real"}
  BY NodeAssumption DEF Trip, TypeOK

\* An attempt counts the reconnects up to the threshold and goes to work.
LEMMA AttemptType ==
    ASSUME TypeOK, NEW force \in BOOLEAN, Attempt(force)
    PROVE  reconnects' \in 0..(EndpointResetAfter + 1) /\ rpc' \in {"bind", "close"}
  BY NodeAssumption DEF Attempt, TypeOK

\* Every variable of the three programs keeps its type; the count of failures
\* and the count of reconnects stay within their thresholds.
THEOREM NodeTypeCorrect == Spec => []TypeOK
  <1> USE NodeAssumption DEF TypeOK, TaskStates
  <1>1. Init => TypeOK
    <2> SUFFICES ASSUME Init
                 PROVE  TypeOK
      OBVIOUS
    <2>1. /\ requested \in BOOLEAN /\ forced \in BOOLEAN /\ permit \in BOOLEAN
          /\ topicUp \in BOOLEAN /\ streamOpen \in BOOLEAN /\ early \in BOOLEAN
      BY DEF Init
    <2>2. /\ program \in Programs /\ quiet = 0 /\ stall = 0 /\ sources = "unused"
          /\ failures = 0 /\ since = 0 /\ reconnects = 0 /\ cur = "next" /\ old = "done"
          /\ rpc = "idle" /\ why = "none" /\ busy = 0
      BY DEF Init
    <2> QED BY <2>1, <2>2
  <1>2. TypeOK /\ [Next]_vars => TypeOK'
    <2> SUFFICES ASSUME TypeOK, [Next]_vars
                 PROVE  TypeOK'
      OBVIOUS
    <2>1. CASE WatchdogTask
      <3>1. CASE Watchdog(Ask("real"))
        BY <3>1, AskType DEF Watchdog
      <3>2. CASE Watchdog(Trip)
        BY <3>2, TripType DEF Watchdog
      <3> QED BY <2>1, <3>1, <3>2
              DEF WatchdogTask, WriterWatchdog, ListenerWatchdog, MonitorWatchdog
    <2>2. CASE Reports
      <3>1. CASE IsolationCheck
        BY <3>1, AskType DEF IsolationCheck
      <3>2. CASE HealthReset
        BY <3>2 DEF HealthReset
      <3> QED BY <2>2, <3>1, <3>2
              DEF Reports, WriterIsolation, ListenerIsolation, MonitorIsolation,
                  WriterHealth, ListenerHealth, MonitorHealth
    <2>3. CASE WriterBroadcastOk \/ ListenerBroadcastOk \/ MonitorBroadcastOk
      BY <2>3 DEF WriterBroadcastOk, ListenerBroadcastOk, MonitorBroadcastOk, BroadcastOk
    <2>15. CASE WriterBroadcastBegins
      BY <2>15 DEF WriterBroadcastBegins
    <2>4. CASE BroadcastFails
      BY <2>4 DEF BroadcastFails
    <2>5. CASE WriterBroadcastFails
      <3>1. UNCHANGED <<program, timers, asks, since, busy, tasks>>
        BY <2>5 DEF WriterBroadcastFails
      <3>2. Attempt(FALSE) \/ (rpc' = "idle" /\ UNCHANGED reconnects)
        BY <2>5 DEF WriterBroadcastFails
      <3>3. (failures + 1 < ReconnectAfter /\ failures' = failures + 1) \/ failures' = 0
        BY <2>5 DEF WriterBroadcastFails
      <3>4. failures' \in 0..ReconnectAfter
        BY <3>3
      <3>5. ASSUME Attempt(FALSE)
            PROVE  reconnects' \in 0..(EndpointResetAfter + 1) /\ rpc' \in {"bind", "close"}
        BY <3>5, AttemptType, Zenon
      <3>6. reconnects' \in 0..(EndpointResetAfter + 1)
            /\ rpc' \in {"idle", "sending", "bind", "close", "subscribe", "spawned"}
        <4>1. CASE Attempt(FALSE)
          BY <3>5, <4>1, Zenon
        <4>2. CASE rpc' = "idle" /\ UNCHANGED reconnects
          BY <4>2
        <4> QED BY <3>2, <4>1, <4>2
      <3> QED BY <3>1, <3>4, <3>6
    <2>6. CASE WriterTakeRequest
      <3>1. /\ requested' \in BOOLEAN /\ forced' \in BOOLEAN /\ permit' \in BOOLEAN
            /\ early' \in BOOLEAN /\ why' = "none"
            /\ UNCHANGED <<program, timers, failures, since, busy, tasks>>
        BY <2>6 DEF WriterTakeRequest, Swap
      <3>2. Attempt(forced) \/ UNCHANGED <<reconnects, rpc>>
        BY <2>6 DEF WriterTakeRequest
      <3> QED BY <3>1, <3>2, AttemptType
    <2>7. CASE PollIdle
      <3>1. /\ permit' \in BOOLEAN /\ early' \in BOOLEAN
            /\ UNCHANGED <<program, timers, failures, requested, forced, why, since, busy, rpc,
                           tasks>>
        BY <2>7 DEF PollIdle
      <3>2. reconnects' = 0 \/ reconnects' = reconnects
        BY <2>7 DEF PollIdle
      <3> QED BY <3>1, <3>2
    <2>8. CASE PollWanted
      <3>1. /\ requested' \in BOOLEAN /\ forced' \in BOOLEAN /\ permit' \in BOOLEAN
            /\ early' \in BOOLEAN /\ why' = "none" /\ failures' = 0
            /\ UNCHANGED <<program, timers, since, busy, tasks>>
        BY <2>8 DEF PollWanted, Swap
      <3>2. Attempt(forced) \/ UNCHANGED <<reconnects, rpc>>
        BY <2>8 DEF PollWanted
      <3> QED BY <3>1, <3>2, AttemptType
    <2>9. CASE Bind \/ CloseOld \/ SubscribeFails \/ SubscribeOk \/ Reconnected
      <3>1. CASE Bind
        BY <3>1 DEF Bind
      <3>2. CASE CloseOld
        BY <3>2 DEF CloseOld
      <3>3. CASE SubscribeFails
        <4>1. early' \in BOOLEAN
          BY <3>3 DEF SubscribeFails
        <4>2. /\ rpc' = "idle" /\ failures' = 0
              /\ UNCHANGED <<program, timers, requested, forced, permit, why, since, reconnects,
                             busy, tasks>>
          BY <3>3 DEF SubscribeFails
        <4> QED BY <4>1, <4>2
      <3>4. CASE SubscribeOk
        BY <3>4 DEF SubscribeOk
      <3>5. CASE Reconnected
        BY <3>5 DEF Reconnected
      <3> QED BY <2>9, <3>1, <3>2, <3>3, <3>4, <3>5
    <2>10. ASSUME NEW kinds, NEW k, Received(kinds, k)
           PROVE  TypeOK'
      BY <2>10 DEF Received
    <2>11. CASE Leave \/ OldLeaves \/ CheckGeneration
      BY <2>11 DEF Leave, OldLeaves, CheckGeneration
    <2>12. CASE AskAgain
      <3>1. /\ UNCHANGED <<program, timers, loop, topicUp, streamOpen>>
            /\ cur' \in TaskStates /\ old' \in TaskStates
        BY <2>12 DEF AskAgain
      <3>2. Ask("own") \/ Ask("echo")
        BY <2>12 DEF AskAgain
      <3> QED BY <3>1, <3>2, AskType
    <2>13. CASE Environment
      <3>1. CASE TimePasses
        BY <3>1 DEF TimePasses
      <3>2. CASE ReconnectAges
        BY <3>2 DEF ReconnectAges
      <3>3. CASE StreamBreaks
        <4>1. streamOpen' \in BOOLEAN
          BY <3>3 DEF StreamBreaks
        <4> QED BY <3>3, <4>1 DEF StreamBreaks
      <3> QED BY <2>13, <3>1, <3>2, <3>3 DEF Environment
    <2>14. CASE UNCHANGED vars
      BY <2>14 DEF vars
    <2> QED BY <2>1, <2>2, <2>3, <2>4, <2>5, <2>6, <2>7, <2>8, <2>9, <2>10, <2>11, <2>12, <2>13,
               <2>14, <2>15
            DEF Next, Broadcasts, ReconnectLoop, ListenerBroadcastFails, MonitorBroadcastFails,
                ListenerPoll, MonitorPoll, Events, WriterReceives, ListenerReceives,
                MonitorReceives, TaskSteps
  <1> QED BY <1>1, <1>2, PTL DEF Spec

-----------------------------------------------------------------------------
(* A reconnect does not cause the next one.                                *)

\* The steps of an attempt to reconnect.
Attempting == rpc \in {"bind", "close", "subscribe", "spawned"}

\* The two exceptions of NoEchoReconnect.
Excepted == ~topicUp \/ (program = "writer" /\ busy = CooldownBroadcasts)

\* A request by a receive task, current or replaced, has its flag and its permit;
\* the health report, which passes through the cooldown, is a reason of its own;
\* a replaced task that may still ask does so before the end of the reconnect
\* that replaced it or in the cooldown that follows; its request waits since that
\* reconnect, and the cooldown is over only if one of the exceptions holds.
EchoInv ==
    /\ why \in {"own", "echo"} => requested /\ permit
    /\ forced => why = "real"
    /\ rpc = "subscribe" => ~topicUp
    /\ old = "ask" => rpc = "spawned" \/ since = 0
    /\ why = "echo" => Attempting \/ Excepted \/ (since = 0 /\ early)

\* An attempt is made only for a good reason; every other step keeps EchoInv.
LEMMA EchoStep ==
    ASSUME TypeOK, EchoInv, [Next]_vars
    PROVE  /\ EchoInv'
           /\ rpc = "idle" /\ rpc' \in {"bind", "close"} /\ why = "echo" => Excepted
  <1> DEFINE Good == rpc = "idle" /\ rpc' \in {"bind", "close"} /\ why = "echo" => Excepted
  <1> USE DEF EchoInv, Attempting, Excepted
  <1>1. ASSUME NEW cause \in {"own", "real"}, Ask(cause)
        PROVE  /\ requested' /\ permit' /\ (forced' => why' = "real")
               /\ why' # "echo"
    <2>1. requested' /\ permit' /\ UNCHANGED forced
      BY <1>1 DEF Ask
    <2>2. why' # "echo" /\ (why = "real" => why' = "real")
      BY <1>1 DEF Ask, Stronger
    <2> QED BY <2>1, <2>2
  <1>2. CASE WatchdogTask
    <2>1. UNCHANGED <<program, rpc, old, since, busy, topicUp>>
      BY <1>2 DEF WatchdogTask, WriterWatchdog, ListenerWatchdog, MonitorWatchdog, Watchdog
    <2>2. UNCHANGED asks \/ Ask("real") \/ Trip
      BY <1>2 DEF WatchdogTask, WriterWatchdog, ListenerWatchdog, MonitorWatchdog, Watchdog
    <2>3. CASE Ask("real")
      BY <1>1, <2>1, <2>3
    <2> QED BY <2>1, <2>2, <2>3 DEF Trip
  <1>3. CASE Reports
    <2>1. UNCHANGED <<program, rpc, old, since, busy, topicUp>>
      BY <1>3 DEF Reports, WriterIsolation, ListenerIsolation, MonitorIsolation,
                  WriterHealth, ListenerHealth, MonitorHealth, IsolationCheck, HealthReset
    <2>2. UNCHANGED asks \/ Ask("real") \/ HealthReset
      BY <1>3 DEF Reports, WriterIsolation, ListenerIsolation, MonitorIsolation,
                  WriterHealth, ListenerHealth, MonitorHealth, IsolationCheck
    <2>3. CASE Ask("real")
      BY <1>1, <2>1, <2>3
    <2> QED BY <2>1, <2>2, <2>3 DEF HealthReset
  <1>4. CASE Broadcasts
    <2>1. CASE ListenerBroadcastOk \/ MonitorBroadcastOk
      BY <2>1 DEF ListenerBroadcastOk, MonitorBroadcastOk, BroadcastOk
    <2>2. CASE WriterBroadcastOk
      BY <2>2 DEF WriterBroadcastOk, BroadcastOk
    <2>3. CASE WriterBroadcastBegins
      <3>1. /\ rpc = "idle" /\ rpc' = "sending"
            /\ UNCHANGED <<program, asks, since, topicUp, old>>
            /\ busy = CooldownBroadcasts => busy' = busy
        BY <2>3, NodeAssumption DEF WriterBroadcastBegins
      <3> QED BY <3>1
    <2>4. CASE BroadcastFails
      BY <2>4 DEF BroadcastFails
    <2>5. CASE WriterBroadcastFails
      <3>1. /\ UNCHANGED <<program, asks, since, busy, topicUp, old>> /\ rpc = "sending"
            /\ rpc' = "idle" \/ (since > 0 /\ rpc' \in {"bind", "close"})
        BY <2>5 DEF WriterBroadcastFails, Attempt
      <3> QED BY <3>1
    <2> QED BY <1>4, <2>1, <2>2, <2>3, <2>4, <2>5
            DEF Broadcasts, ListenerBroadcastFails, MonitorBroadcastFails
  <1>5. CASE WriterTakeRequest \/ PollWanted
    <2>1. /\ rpc = "idle" /\ UNCHANGED <<since, old>> /\ why' = "none" /\ ~forced'
          /\ (forced \/ since > 0 \/ rpc' = rpc)
      BY <1>5 DEF WriterTakeRequest, PollWanted, Swap
    <2>2. rpc' \in {"idle", "bind", "close"}
      BY <1>5, <2>1 DEF WriterTakeRequest, PollWanted, Attempt
    <2>3. Good
      BY <2>1
    <2> QED BY <2>1, <2>2, <2>3
  <1>6. CASE PollIdle
    BY <1>6 DEF PollIdle, Wanted
  <1>7. CASE Bind \/ CloseOld \/ SubscribeFails \/ SubscribeOk \/ Reconnected
    BY <1>7 DEF Bind, CloseOld, SubscribeFails, SubscribeOk, Reconnected
  <1>8. ASSUME NEW kinds, NEW k, Received(kinds, k)
        PROVE  EchoInv' /\ Good
    BY <1>8 DEF Received
  <1>9. CASE Leave \/ OldLeaves \/ CheckGeneration
    BY <1>9 DEF Leave, OldLeaves, CheckGeneration
  <1>10. CASE AskAgain
    <2>1. UNCHANGED <<program, rpc, since, busy, topicUp>>
      BY <1>10 DEF AskAgain
    <2>2. CASE cur = "ask" /\ UNCHANGED old /\ Ask("own")
      BY <1>1, <2>1, <2>2
    <2>3. CASE old = "ask" /\ old' = "done" /\ Ask("echo")
      <3>1. requested' /\ permit' /\ early' /\ UNCHANGED forced
        BY <2>3 DEF Ask
      <3>2. why = "real" => why' = "real"
        BY <2>3 DEF Ask, Stronger
      <3> QED BY <2>1, <2>3, <3>1, <3>2
    <2> QED BY <1>10, <2>2, <2>3 DEF AskAgain
  <1>11. CASE TimePasses \/ StreamBreaks
    BY <1>11 DEF TimePasses, StreamBreaks
  <1>12. CASE ReconnectAges
    <2>1. /\ old # "ask" /\ UNCHANGED <<program, asks, rpc, busy, topicUp, old>>
          /\ rpc \in {"idle", "sending"} /\ early =>
                program = "writer" /\ busy = CooldownBroadcasts
      BY <1>12 DEF ReconnectAges, PermitTaken
    <2>2. rpc \in {"idle", "sending"} \/ Attempting
      BY DEF TypeOK
    <2> QED BY <2>1, <2>2
  <1>13. CASE UNCHANGED vars
    BY <1>13 DEF vars
  <1> QED BY <1>2, <1>3, <1>4, <1>5, <1>6, <1>7, <1>8, <1>9, <1>10, <1>11, <1>12, <1>13
          DEF Next, ReconnectLoop, ListenerPoll, MonitorPoll, Events, WriterReceives,
              ListenerReceives, MonitorReceives, TaskSteps, Environment

\* A reconnect does not cause the next one: the receive task it replaces, which
\* may have passed its generation check before the new generation was stored, has
\* its request taken during the cooldown of 30 s, unless the subscription failed
\* or the writer's loop took CooldownBroadcasts payloads first.
THEOREM NoReconnectStorm == Spec => NoEchoReconnect
  <1> DEFINE Good == rpc = "idle" /\ rpc' \in {"bind", "close"} /\ why = "echo" =>
                        ~topicUp \/ (program = "writer" /\ busy = CooldownBroadcasts)
  <1>1. Init => EchoInv
    BY DEF Init, EchoInv
  <1>2. TypeOK /\ EchoInv /\ [Next]_vars => EchoInv' /\ [Good]_vars
    BY EchoStep DEF Excepted
  <1> QED BY <1>1, <1>2, NodeTypeCorrect, PTL DEF Spec, NoEchoReconnect

=============================================================================
