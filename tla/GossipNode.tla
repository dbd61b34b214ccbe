----------------------------- MODULE GossipNode -----------------------------
(***************************************************************************)
(* How a node of the gossip network keeps its topic alive.                 *)
(*                                                                         *)
(* gossip-writer, gossip-listener and gossip-monitor share one design: a   *)
(* receive task reads the topic; a watchdog, an isolation check, a health  *)
(* report and failing broadcasts ask for a reconnect; one loop reconnects, *)
(* which shuts the topic down, subscribes again, spawns a new receive task *)
(* with a higher generation.  They differ in how the request reaches that  *)
(* loop: the writer reconnects in its broadcast task and only when         *)
(* notified, the two others poll a failure count every 30 s as well.       *)
(* `program' says which one this is.  What the receive task keeps of its   *)
(* neighbours is the subject of module ReceiveTask.                        *)
(*                                                                         *)
(* Timers are abstracted to the classes their comparisons tell apart, and  *)
(* may fire whenever the class allows it.  A generation is known by its    *)
(* role: cur is the task of the current generation, old the one before it. *)
(***************************************************************************)
EXTENDS Naturals

CONSTANTS
    Programs,             \* the programs to consider
    ReconnectAfter,       \* RECONNECT_AFTER_FAILURES (5)
    EndpointResetAfter,   \* ENDPOINT_RESET_AFTER_RECONNECTS (3)
    CooldownBroadcasts    \* the cooldown of 30 s over BROADCAST_TIMEOUT_SECS (3)

ASSUME NodeAssumption ==
    /\ Programs \subseteq {"writer", "listener", "monitor"}
    /\ ReconnectAfter \in Nat \ {0}
    /\ EndpointResetAfter \in Nat
    /\ CooldownBroadcasts \in Nat \ {0}

VARIABLES
    program,      \* which of the three programs this is
    quiet,        \* age of last_notification_time: 0 (< 180 s), 1, 2 (> 360 s)
    stall,        \* stall_count of the watchdog
    sources,      \* unique_sources, against ISOLATION_MIN_UNIQUE_PEERS; "unused"
                  \* until something was sent (writer) or received (the others)
    failures,     \* broadcast_failures; of the writer, consecutive_failures
    requested,    \* reconnect_requested
    forced,       \* force_endpoint_reset
    permit,       \* the permit stored in reconnect_notify
    since,        \* age of last_reconnect: 0 (< 30 s), 1, 2 (> 300 s)
    reconnects,   \* consecutive_reconnects
    topicUp,      \* the gossip actor behind the shared sender is running
    streamOpen,   \* the receiver of the current generation is open
    cur,          \* the receive task of the current generation
    old,          \* the receive task of the generation before it
    rpc,          \* where the reconnecting loop is
    early,        \* the permit waits since the last reconnect
    busy,         \* broadcasts the writer's loop began since the last reconnect
    why           \* the best reason there is for the pending request

timers == <<quiet, stall, sources>>
asks == <<requested, forced, permit, early, why>>
loop == <<since, reconnects, rpc, busy>>
tasks == <<topicUp, streamOpen, cur, old>>
vars == <<program, timers, failures, asks, loop, tasks>>

TaskStates == {"next", "left", "ask", "done"}

TypeOK ==
    /\ program \in Programs
    /\ quiet \in 0..2 /\ stall \in 0..1 /\ sources \in {"unused", "few", "enough"}
    /\ failures \in 0..ReconnectAfter
    /\ requested \in BOOLEAN /\ forced \in BOOLEAN /\ permit \in BOOLEAN
    /\ since \in 0..2 /\ reconnects \in 0..(EndpointResetAfter + 1)
    /\ topicUp \in BOOLEAN /\ streamOpen \in BOOLEAN
    /\ cur \in TaskStates /\ old \in TaskStates
    /\ rpc \in {"idle", "sending", "bind", "close", "subscribe", "spawned"}
    /\ early \in BOOLEAN /\ busy \in 0..CooldownBroadcasts
    /\ why \in {"none", "echo", "own", "real"}

Init ==
    /\ program \in Programs
    /\ quiet = 0 /\ stall = 0 /\ sources = "unused"
    /\ failures = 0 /\ requested = FALSE /\ forced = FALSE /\ permit = FALSE
    /\ since = 0 /\ reconnects = 0
    /\ topicUp = TRUE /\ streamOpen = TRUE
    /\ cur = "next" /\ old = "done" /\ rpc = "idle" /\ early = FALSE /\ busy = 0
    /\ why = "none"

-----------------------------------------------------------------------------
(* Requests for a reconnect.                                               *)

\* A request is "own" if the current receive task has ended, an "echo" if it
\* comes from a task that a reconnect has replaced, "real" otherwise.
\* failures.store(RECONNECT_AFTER_FAILURES), requested.store(true) and
\* notify_one().  The writer never reads the shared failure count.
Stronger(cause) ==
    IF "real" \in {why, cause} THEN "real"
    ELSE IF "own" \in {why, cause} THEN "own" ELSE "echo"
Ask(cause) ==
    /\ failures' = IF program = "writer" THEN failures ELSE ReconnectAfter
    /\ requested' = TRUE /\ permit' = TRUE
    /\ why' = Stronger(cause)
    /\ early' = (early \/ cause = "echo")
    /\ UNCHANGED forced

\* The watchdogs of the listener and of the monitor only trip the threshold.
Trip ==
    /\ failures' = ReconnectAfter
    /\ why' = "real"
    /\ UNCHANGED <<requested, forced, permit, early>>

\* Mutants: the watchdog counts on after it has escalated; it forgets the
\* first stall when it re-joins its peers.
WatchdogCountsOn(Escalate) ==
    /\ \/ /\ quiet = 0 /\ stall' = 0 /\ UNCHANGED <<failures, asks>>
       \/ /\ quiet > 0 /\ stall = 0 /\ stall' = 1 /\ UNCHANGED <<failures, asks>>
       \/ /\ quiet > 0 /\ stall > 0 /\ stall' = 2 /\ Escalate
    /\ UNCHANGED <<program, quiet, sources, loop, tasks>>
WatchdogForgets(Escalate) ==
    /\ \/ /\ stall = 0 /\ stall' = 0 /\ UNCHANGED <<failures, asks>>
       \/ /\ quiet > 0 /\ stall = 1 /\ stall' = 0 /\ Escalate
    /\ UNCHANGED <<program, quiet, sources, loop, tasks>>

\* A wake of the watchdog; its second stall in a row escalates.  Re-joining
\* the known peers changes nothing here: neighbours come and go anyway.
Watchdog(Escalate) ==
    /\ \/ /\ quiet = 0 /\ stall' = 0 /\ UNCHANGED <<failures, asks>>
       \/ /\ quiet > 0 /\ stall = 0 /\ stall' = 1 /\ UNCHANGED <<failures, asks>>
       \/ /\ quiet > 0 /\ stall = 1 /\ stall' = 0 /\ Escalate
    /\ UNCHANGED <<program, quiet, sources, loop, tasks>>

WriterWatchdog == program = "writer" /\ Watchdog(Ask("real"))
ListenerWatchdog == program = "listener" /\ Watchdog(Trip)
MonitorWatchdog == program = "monitor" /\ Watchdog(Trip)

\* The isolation check takes and clears unique_sources; it is skipped as long
\* as nothing was sent (writer) or received (the others).
IsolationCheck ==
    /\ sources' = IF sources = "unused" THEN "unused" ELSE "few"
    /\ IF sources = "few" THEN Ask("real") ELSE UNCHANGED <<failures, asks>>
    /\ UNCHANGED <<program, quiet, stall, loop, tasks>>

WriterIsolation == program = "writer" /\ IsolationCheck
ListenerIsolation == program = "listener" /\ IsolationCheck
MonitorIsolation == program = "monitor" /\ IsolationCheck

\* The health report asks for a fresh endpoint every 12 h or when the
\* process has grown too large.
HealthReset ==
    /\ forced' = TRUE /\ requested' = TRUE /\ permit' = TRUE
    /\ why' = "real"
    /\ UNCHANGED <<program, timers, failures, early, loop, tasks>>

WriterHealth == program = "writer" /\ HealthReset
ListenerHealth == program = "listener" /\ HealthReset
MonitorHealth == program = "monitor" /\ HealthReset

-----------------------------------------------------------------------------
(* Broadcasts.  Those of the listener (announcements, endorsements) and of  *)
(* the monitor (suggestions) run in tasks of their own.  The writer's run   *)
(* in the loop that reconnects: see WriterBroadcastFails below.             *)

BroadcastOk ==
    /\ topicUp
    /\ failures' = 0
    /\ UNCHANGED <<program, asks, tasks, since, busy, quiet, stall>>

ListenerBroadcastOk ==
    program = "listener" /\ BroadcastOk /\ UNCHANGED <<reconnects, rpc, sources>>
MonitorBroadcastOk ==
    program = "monitor" /\ BroadcastOk /\ UNCHANGED <<reconnects, rpc, sources>>

\* The writer's select! is not biased: it may take a payload from the channel
\* while a permit waits.  The payload's broadcast keeps the loop for 10 s at most.
WriterBroadcastBegins ==
    /\ program = "writer" /\ rpc = "idle" /\ rpc' = "sending"
    /\ busy' = IF busy < CooldownBroadcasts THEN busy + 1 ELSE busy
    /\ UNCHANGED <<program, timers, failures, asks, since, reconnects, tasks>>

WriterBroadcastOk ==
    /\ program = "writer" /\ rpc = "sending" /\ rpc' = "idle"
    /\ BroadcastOk /\ reconnects' = 0
    /\ sources' \in (IF sources = "unused" THEN {"few", "enough"} ELSE {sources})

\* The count saturates at the threshold, the only value it is compared with.
BroadcastFails ==
    /\ failures < ReconnectAfter
    /\ failures' = failures + 1
    /\ why' = IF failures' = ReconnectAfter THEN "real" ELSE why
    /\ UNCHANGED <<program, timers, requested, forced, permit, early, loop, tasks>>

ListenerBroadcastFails == program = "listener" /\ BroadcastFails
MonitorBroadcastFails == program = "monitor" /\ BroadcastFails

-----------------------------------------------------------------------------
(* The reconnecting loop.                                                  *)

\* An attempt begins: a fresh endpoint first if there were too many, or if
\* the health report asked for one.
Attempt(force) ==
    LET n == IF force THEN EndpointResetAfter + 1 ELSE reconnects + 1
        Least(a, b) == IF a < b THEN a ELSE b IN
    /\ reconnects' = Least(n, EndpointResetAfter + 1)
    /\ rpc' = IF n > EndpointResetAfter THEN "bind" ELSE "close"

Swap ==
    /\ requested' = FALSE /\ forced' = FALSE /\ permit' = FALSE
    /\ early' = FALSE /\ why' = "none"

\* The writer: only when notified.
WriterTakeRequest ==
    /\ program = "writer" /\ rpc = "idle" /\ permit
    /\ Swap
    /\ IF (requested \/ forced) /\ (forced \/ since > 0)
       THEN Attempt(forced)
       ELSE UNCHANGED <<reconnects, rpc>>
    /\ UNCHANGED <<program, timers, failures, since, busy, tasks>>

\* The writer: a broadcast fails, and the last of several failures in a row
\* reconnects at once unless the last reconnect is too recent.
WriterBroadcastFails ==
    /\ program = "writer" /\ rpc = "sending"
    /\ IF failures + 1 < ReconnectAfter
       THEN failures' = failures + 1 /\ rpc' = "idle" /\ UNCHANGED reconnects
       ELSE /\ failures' = 0
            /\ IF since > 0 THEN Attempt(FALSE) ELSE rpc' = "idle" /\ UNCHANGED reconnects
    /\ UNCHANGED <<program, timers, asks, since, busy, tasks>>

\* The listener and the monitor: every 30 s, or when notified.
Wanted == failures >= ReconnectAfter \/ requested \/ forced
PollIdle ==
    /\ rpc = "idle" /\ ~Wanted
    /\ permit' = FALSE /\ early' = FALSE
    /\ reconnects' = IF since = 2 THEN 0 ELSE reconnects
    /\ UNCHANGED <<program, timers, failures, requested, forced, why, since, busy,
                   rpc, tasks>>
\* Mutant: the cooldown is not looked at.
PollWantedNoCooldown ==
    /\ rpc = "idle" /\ Wanted
    /\ Swap
    /\ failures' = 0
    /\ Attempt(forced)
    /\ UNCHANGED <<program, timers, since, busy, tasks>>
PollWanted ==
    /\ rpc = "idle" /\ Wanted
    /\ Swap
    /\ failures' = 0
    /\ IF forced \/ since > 0 THEN Attempt(forced) ELSE UNCHANGED <<reconnects, rpc>>
    /\ UNCHANGED <<program, timers, since, busy, tasks>>

ListenerPoll == program = "listener" /\ (PollIdle \/ PollWanted)
MonitorPoll == program = "monitor" /\ (PollIdle \/ PollWanted)

\* A fresh endpoint, or the old one again if it cannot be bound: which one is
\* not part of the state, since a subscription may fail on either.
Bind ==
    /\ rpc = "bind" /\ rpc' = "close"
    /\ UNCHANGED <<program, timers, failures, asks, since, reconnects, busy, tasks>>

\* The old gossip actor is shut down: its streams end.
CloseOld ==
    /\ rpc = "close" /\ rpc' = "subscribe"
    /\ topicUp' = FALSE /\ streamOpen' = FALSE
    /\ UNCHANGED <<program, timers, failures, asks, since, reconnects, busy, cur, old>>

SubscribeFails ==
    /\ rpc = "subscribe" /\ rpc' = "idle"
    /\ failures' = 0 /\ early' = FALSE
    /\ UNCHANGED <<program, timers, requested, forced, permit, why, since, reconnects, busy, tasks>>

\* The new receive task is spawned with the next generation.  Bound: the task
\* before the old one has ended.
SubscribeOk ==
    /\ rpc = "subscribe" /\ rpc' = "spawned"
    /\ old = "done"
    /\ topicUp' = TRUE /\ streamOpen' = TRUE
    /\ cur' = "next" /\ old' = cur
    /\ failures' = 0
    /\ why' = IF why = "own" THEN "echo" ELSE why
    /\ UNCHANGED <<program, timers, requested, forced, permit, early, since, reconnects, busy>>

Reconnected ==
    /\ rpc = "spawned" /\ rpc' = "idle"
    /\ since' = 0 /\ busy' = 0
    /\ early' = permit
    /\ failures' = IF program = "writer" THEN 0 ELSE failures
    /\ UNCHANGED <<program, timers, requested, forced, permit, why, reconnects, tasks>>

-----------------------------------------------------------------------------
(* The receive tasks.                                                      *)

\* A message.  Of the kinds of message, the writer takes every one as a sign
\* of life, the listener only notifications, the monitor only announcements.
Received(kinds, k) ==
    /\ cur = "next" /\ streamOpen
    /\ quiet' = IF k \in kinds THEN 0 ELSE quiet
    /\ sources' \in
          CASE sources = "unused" /\ (program = "writer" \/ k \notin kinds) -> {"unused"}
            [] sources = "enough" -> {"enough"}
            [] OTHER -> {"few", "enough"}
    /\ UNCHANGED <<program, stall, failures, asks, loop, tasks>>

Kinds == {"notification", "peer_announce", "peer_endorse", "peer_suggest"}
WriterReceives(k) == program = "writer" /\ Received(Kinds, k)
ListenerReceives(k) == program = "listener" /\ Received({"notification"}, k)
MonitorReceives(k) == program = "monitor" /\ Received({"peer_announce"}, k)

\* next() returns None or an error, or times out when nothing was heard for
\* more than 360 s.
Leave ==
    /\ cur = "next"
    /\ ~streamOpen \/ quiet = 2
    /\ cur' = "left"
    /\ UNCHANGED <<program, timers, failures, asks, loop, topicUp, streamOpen, old>>

\* A stale task gets an event and returns, or gets None and breaks.
OldLeaves ==
    /\ old = "next"
    /\ old' \in {"left", "done"}
    /\ UNCHANGED <<program, timers, failures, asks, loop, topicUp, streamOpen, cur>>

\* The generation check after the loop, and the request that follows it: the
\* generation may be raised in between.
CheckGeneration ==
    \/ /\ cur = "left" /\ cur' = "ask" /\ UNCHANGED old
       /\ UNCHANGED <<program, timers, failures, asks, loop, topicUp, streamOpen>>
    \/ /\ old = "left" /\ old' = "done" /\ UNCHANGED cur
       /\ UNCHANGED <<program, timers, failures, asks, loop, topicUp, streamOpen>>

AskAgain ==
    \/ /\ cur = "ask" /\ cur' = "done" /\ UNCHANGED old /\ Ask("own")
       /\ UNCHANGED <<program, timers, loop, topicUp, streamOpen>>
    \/ /\ old = "ask" /\ old' = "done" /\ UNCHANGED cur /\ Ask("echo")
       /\ UNCHANGED <<program, timers, loop, topicUp, streamOpen>>

-----------------------------------------------------------------------------
(* The environment: time and the network.                                  *)

TimePasses ==
    /\ quiet < 2 /\ quiet' = quiet + 1
    /\ UNCHANGED <<program, stall, sources, failures, asks, loop, tasks>>

\* 30 s (and 300 s) since the last reconnect.  What cannot take that long is the
\* step from the generation check to the request (no await in between), and a
\* loop that has nothing else to do than to take the permit that waits since
\* the last reconnect: only the writer's has, one broadcast of 10 s after the
\* other.
PermitTaken == early => program = "writer" /\ busy = CooldownBroadcasts
ReconnectAges ==
    /\ since < 2 /\ since' = since + 1
    /\ old # "ask"
    /\ rpc \in {"idle", "sending"} => PermitTaken
    /\ UNCHANGED <<program, timers, failures, asks, reconnects, rpc, busy, tasks>>

StreamBreaks ==
    /\ streamOpen /\ streamOpen' = FALSE
    /\ UNCHANGED <<program, timers, failures, asks, loop, topicUp, cur, old>>

-----------------------------------------------------------------------------
WatchdogTask == WriterWatchdog \/ ListenerWatchdog \/ MonitorWatchdog
Reports ==
    \/ WriterIsolation \/ ListenerIsolation \/ MonitorIsolation
    \/ WriterHealth \/ ListenerHealth \/ MonitorHealth
Broadcasts ==
    \/ WriterBroadcastBegins
    \/ WriterBroadcastOk \/ ListenerBroadcastOk \/ MonitorBroadcastOk
    \/ WriterBroadcastFails \/ ListenerBroadcastFails \/ MonitorBroadcastFails
ReconnectLoop ==
    \/ WriterTakeRequest \/ ListenerPoll \/ MonitorPoll
    \/ Bind \/ CloseOld \/ SubscribeFails \/ SubscribeOk \/ Reconnected
Events ==
    \E k \in Kinds :
        WriterReceives(k) \/ ListenerReceives(k) \/ MonitorReceives(k)
TaskSteps == Leave \/ OldLeaves \/ CheckGeneration \/ AskAgain
Environment == TimePasses \/ ReconnectAges \/ StreamBreaks

Next ==
    WatchdogTask \/ Reports \/ Broadcasts \/ ReconnectLoop \/ Events \/ TaskSteps \/ Environment

Spec == Init /\ [][Next]_vars

\* The tasks run, time passes, a broadcast ends by its timeout, and a
\* subscription succeeds if it is tried again and again.  The loop of the
\* listener and the monitor finds the threshold tripped if the watchdog trips
\* it again and again: the
\* broadcasts that reset the count have another period (300 s) than the
\* watchdog's (360 s) and the loop's (30 s).  Nothing is assumed of the
\* health report, the isolation check, messages or of broadcasts being made.
Fairness ==
    /\ WF_vars(WatchdogTask) /\ WF_vars(TaskSteps)
    /\ WF_vars(TimePasses) /\ SF_vars(ReconnectAges)
    /\ WF_vars(ReconnectLoop) /\ SF_vars(SubscribeOk)
    /\ WF_vars(WriterBroadcastOk \/ WriterBroadcastFails)
    /\ SF_vars((WriterTakeRequest \/ ListenerPoll \/ MonitorPoll) /\ rpc' # "idle")

FairSpec == Spec /\ Fairness

-----------------------------------------------------------------------------
(* Safety.                                                                 *)

\* A reconnect does not cause the next one: the request of the task it ends
\* itself, which may still take itself for current, is taken during the
\* cooldown.  There are two exceptions.  A subscription has failed since, and
\* the topic is down.  And the loop of the writer, whose select! is not biased,
\* has served so many payloads before the permit that they may have taken the
\* whole cooldown.
NoEchoReconnect ==
    [][rpc = "idle" /\ rpc' \in {"bind", "close"} /\ why = "echo" =>
          ~topicUp \/ (program = "writer" /\ busy = CooldownBroadcasts)]_vars

(* Liveness.                                                               *)

\* A node whose receive task has ended has one again, however the request
\* was lost (in the cooldown, to a successful broadcast, to a failed
\* subscription).
ReaderReturns ==
    cur = "done" ~> (cur = "next" /\ streamOpen)
=============================================================================
