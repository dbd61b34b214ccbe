# podping: a TLA+ verification project

This directory models podping: how a feed notification (a *ping*) travels from a
publisher's HTTP request through the front-end's queue to the Hive and gossip
networks, and how the gossip nodes find one another, stay connected, decide whom
to trust, catch up and are watched. TLC checks the models on small instances and
TLAPS proves the central properties for every value of the constants.
`PROJECT.json` lists components, runs, mutants, the map from definitions to
source lines, findings, hazards and theorems; this file explains them.

## 1. The system

A publisher calls the **web handler** (`podping/src/handler.rs`), which stores
the ping in `queue.db` through **dbif**. The **queue checker**, a thread of the
same process (`podping/src/main.rs`), reads the table and sends pings over two
ZeroMQ PAIR sockets to the **hive-writer** (another repository) and the
**gossip-writer**. Replies of the writers remove rows. The gossip-writer batches
pings, signs them and broadcasts them on an iroh gossip topic; other nodes run
the **gossip-listener** (archive, catch-up, SSE) and the **gossip-monitor**
(registry and topology of the swarm). All gossip nodes use **dtt-fork**, which
finds peers through the DHT and wraps iroh-gossip in actors.

| Component | State | Operations | What is hard | Module |
|---|---|---|---|---|
| web handler | none of its own | `ping` | two statements per Live ping | `FrontEnd` (partly) |
| queue database | table `queue` | insert, update, fetch, mark, delete, reset | every statement is a transaction of its own | `QueueDb` |
| queue checker | snapshot of the table, two sockets | receive, fetch, send, mark, reset | stale snapshot, late and duplicate replies, crash between send and mark | `FrontEnd` |
| hive-writer (external) | pings it has taken | take, answer, fail | lost and late answers | `FrontEnd` (partly) |
| writer: ZeroMQ thread | `pending` | recv, `flush_batch` | full channel, partial success | `WriterPipeline` (partly) |
| writer: broadcast task | channel, `retry_queue`, failure counts, cooldown | broadcast, reconnect, replay | one select loop for payloads and reconnects | `WriterPipeline`, `GossipNode` |
| watchdog, isolation check, health report (all three programs) | counters, timers | ask for a reconnect | requests lost in the cooldown, to a success, to a failed subscription | `GossipNode` |
| receive task | generation, neighbour count and set, known-peers file, sequence numbers | handle events, save peers | two tasks at once, resets after the spawn, lost events, u32 wrap, truncating writes, ignored I/O errors | `ReceiveTask`, `GossipNode` |
| trusted publishers, endorsements | a set with a file | endorse, add, save, load | chains, replays, a crash in a save, ignored I/O errors | `Trust` |
| listener: archive, catch-up, SSE channel | table of messages, newest time | store, sync, emit | live rows during a catch-up, rows of one second, crashes | `Listener` |
| monitor: registry and topology | peers, histories, rate limits | update, prune, analyse, suggest | two locks, contradictory announcements, ties | `PeerRegistry`, `Topology` |
| dtt: receiver actor | `msg_queue`, `waiters`, hashes | `next`, `register_next` | abandoned waiters, queue limit | `GossipReceiver` |
| dtt: topic, bootstrap, publisher, merge actors, sender, records | records per minute, neighbours | publish, get, join | check-then-put, expiry, lost links | `Discovery` |
| writer archive and signing; web server and dashboard; capnp; stresser | | | see section 5 | none |

What makes them correct, in one line each: a ping is not sent twice without
need, nor removed unsent, and every row is eventually removed (front-end); what
is queued for broadcast is broadcast or given up for a reason, in order
(writer); the receive task sees events in order and learns when its stream is
gone (receiver actor); a node whose receive task ended gets a new one, and a
reconnect does not cause the next (nodes); neighbours are mistracked only
because of an event that was lost or raced with a reset (receive task); trust
only travels along chains of configured keys (trust); a complete catch-up skips
nothing (listener); every bootstrap ends and a network with merge actors heals
(discovery); suggestions connect what is apart (monitor).

## 2. Modules

| Module | Models | Role |
|---|---|---|
| `QueueDb` | `podping/dbif/src/lib.rs` | the statements on the table, as operators |
| `FrontEnd` | `handler.rs`, `main.rs` of podping | handlers, queue checker, writers as environment, crashes; EXTENDS `QueueDb` |
| `PingQueue` | what the front-end promises | abstract specification that `FrontEnd` implements |
| `GossipReceiver` | `dtt-fork/src/gossip/receiver.rs`, the loop around `next()` | the actor and its one reader |
| `EventFeed` | what `next()` promises its caller | abstract specification that `GossipReceiver` implements |
| `WriterPipeline` | `gossip-writer/src/main.rs` | ZeroMQ thread, channel, broadcast task, retry queue |
| `GossipNode` | the `main.rs` of writer, listener, monitor | watchdog, checks, reconnecting loop, generations of receive tasks |
| `ReceiveTask` | the same files | neighbour tracking, known-peers file, sequence gaps |
| `Trust` | writer and listener | endorsements and the file of trusted publishers |
| `Listener` | `gossip-listener/src/main.rs`, `archive.rs` | live messages, archive, catch-up, SSE channel |
| `Discovery` | `dtt-fork/src/gossip/topic/*`, `merge/*`, `sender.rs`, `crypto/record.rs` | bootstrap, publishing, merging |
| `Topology` | `gossip-monitor/src/topology.rs` | components, betweenness, suggestions, as operators |
| `PeerRegistry` | `gossip-monitor/src/swarm.rs`, its tasks in `main.rs` | EXTENDS `Topology` |
| `FrontEndProofs`, `GossipReceiverProofs`, `WriterPipelineProofs`, `GossipNodeProofs`, `ReceiveTaskProofs`, `TrustProofs`, `ListenerProofs`, `PeerRegistryProofs` | | theorems about the module of that name |
| `MC*` | | instances for TLC |

They fit together as follows. `PingQueue` is `FrontEnd` seen by a publisher
(`pending <- DOMAIN queue`), and `EventFeed` is `GossipReceiver` seen by the
receive task (`open <- running`, `queue <- msgQueue`, `lost <- dropped`,
`abandoned <- Abandoned`, the number of requests and waiters other than that of
the call that waits now; which are which, and the hashes, are hidden). The gossip-writer that `FrontEnd` sees as an
environment (takes a ping, answers it or not) is `WriterPipeline`; where that
sees a broadcast or a reconnect succeed or fail, `GossipNode` has the reasons for
a reconnect and its effect on the receive tasks. `ReceiveTask` and `Listener` are
what such a task does with an event, with reconnects at any time; the event comes
to it through `GossipReceiver`. `Trust` says which senders pass the filter that
is a constant (`Accepted`) in `Listener`. `Discovery` is what happens below a
subscription; the monitor's suggestions (`PeerRegistry`) are one of its actions
(`FollowSuggestion`).

### QueueDb, FrontEnd, PingQueue

The table is a partial function from urls to rows. `createdon` is kept as an age
class (younger than 15 s, up to 180 s, older) because no statement asks for
more; `Tick` moves a row to the next class. A ping is identified by the number
of the request that carried it, so a row knows whose reason and medium it holds
(`id`), separately from its place in the order (`rowid`).

Each SQL statement is one step, since each runs on a connection of its own. The
handler is `AddPing` (INSERT) and, for a Live or LiveEnd whose INSERT failed,
`UpdatePingInQueue`. The checker is a loop over program points: `ReceiveHive`,
`ReceiveGossip`/`NoMoreGossip`, `Fetch`, then per ping `SendGossip`,
`SendHive` or `SendHiveFails`, `Mark`, the two receives again, and finally
`Reset`. A reply with several urls is applied in one step, each of its DELETEs
succeeding or, with `DbMayFail`, failing. `Restart` keeps the table and resets
the rest (the panic hook exits the process, docker restarts it). Two history
variables serve the properties: `handed` (urls ever put on a socket) and
`outstanding` (pings put on the hive socket that have not been put back to be
sent since).

The hive-writer takes messages and answers with a transaction, block number 0,
an error, or not at all; the gossip-writer answers one url at a time or drops.

`PingQueue` has a set of pending urls and the urls handed over: a url is removed
only after it was handed over. That a *ping* is removed only after it was sent
does not hold, since replies name urls (section 3).

### GossipReceiver, EventFeed

Events are numbered in the order of the stream. `waiters`, and the register
requests in the actor's mailbox, are `live` or `dead`: `Timeout` turns the
task's request dead wherever it is, and the actor cannot tell. `Arrive` is one
turn of the actor's stream branch (overflow check, push, hand-over, hash);
`StreamEnds` covers the end and the error of the stream. What becomes of a
request the actor had not run when it stopped belongs to the actor library, so
it either fails (`RequestLost`) or stays until the timeout.

`EventFeed` has no waiters but counts the calls that were left before they had
an answer. The oldest event goes to the call that waits, or to one that was left:
then it is lost and that call is paid for. So while the stream is open, what is
lost is at most one event per timed-out call. A call fails only on a closed
stream, and a stream that closes takes its queue with it. Whose call a waiter
stands for is what the actor has to get right.

### WriterPipeline

Payloads are numbered when they are offered to the channel. `flush_batch` is
split at its `try_send`s (`SendChunk`), because the broadcast task empties the
channel meanwhile; `EndFlush` sends the replies. What is left to send of a batch
is the pings per reason and medium that have no payload yet (`todo`). Two history
variables say what became of a ping: it was `offered` to the channel in a payload,
and the payload `reached` a channel whose reader was alive, though it may have
been dropped because the channel was full. The broadcast task has one
program point per await: `sending`, the two reconnects (`onRequest`,
`onFailures`), `replaying`. A broadcast that times out counts as failed; it may
still go out later, which receivers cannot tell from a replay. The size limit of
a payload is a number of iris (`ChunkSize`).

### GossipNode

One module for the three programs, which copy one design; `program` is chosen in
`Init` and actions that differ have a Writer, Listener and Monitor form. Timers
are reduced to the classes their comparisons tell apart (`quiet`, `since`) and
fire whenever the class allows. A reconnect is `Bind` (only for a fresh
endpoint), `CloseOld`, `SubscribeFails` or `SubscribeOk`, `Reconnected`. A
receive task that ends passes through `left` (it has to compare its generation)
and `ask` (it has found itself current and is about to ask), so that the
generation may be raised in between. `why` is a history variable with the best
reason for the pending request: `echo` is the request of a task that the
reconnect itself ended.

The loop of the writer also broadcasts, and its `select!` is not biased: a request
may wait while payloads are taken (`WriterBroadcastBegins`), each for up to 10 s.
`busy` counts the broadcasts begun since the last reconnect, up to
`CooldownBroadcasts`, as many as fit in the cooldown (30 s / 10 s); `early` says
that the permit waits since that reconnect.

Three assumptions bound it. Of the receive tasks only those of the current
generation and of the one before are alive (`SubscribeOk` waits for older ones).
The step from a task's comparison of generations to its request, which has no
await in between, does not take 30 s. And a loop that does nothing else takes a
waiting permit within 30 s (`PermitTaken`); of the writer this is not assumed once
its loop has `CooldownBroadcasts` broadcasts behind it. The end of a catch-up also renews `last_notification_time`; that is one more way in which the
listener may look alive and is left to the receives.

### ReceiveTask

Two tasks handle events at once while a reconnect resets the neighbour set and
then the count (`Spawn`, `ClearIds`, `ClearCount`). Set and count are updated
apart; the old task may count an event that it took before it was replaced
(`OldCounts`). Not every event of the stream reaches the task: `EventLost` is one
that went to a call that had timed out (module `GossipReceiver`) or that a lagging
stream dropped. A `NeighborDown` decrements the count whether or not its
`NeighborUp` was handled; `count` is modulo `CountModulus`, as a u32. The history
variables `astray` and `countOff` record whose last event was lost or raced with
a reset, and whether any was since the reconnect. The known-peers file is updated
by `save` (read), `create` (truncate), `write`, each of which may fail silently:
an unreadable file counts as empty, one that cannot be created is not written,
and of the lines any part may be missing. `Notified` is the gap detection of
the listener for one sender. `Crash` keeps the file alone.

### Trust

Nodes have a set of trusted keys, a file, and an endorsement message with the
keys they trust. Writers follow endorsements only with
`AUTO_TRUST_ENDORSEMENTS`. A save truncates (`CreateFile`) and writes key by key
(`KeyDone`, with `WriteKey` or `WriteFails`); the code ignores every error, so a
file that cannot be created stays as it was (`CreateFails`) and a key that cannot
be written is left out. `Crash` reloads what the file holds; `CrashUnread` is a
start with a file that cannot be read, which counts as empty. `stale` is the nodes
whose file, by an error, may not hold what they trust, and `torn` those that were
restarted with such a file or in the middle of a save. `sent` never shrinks, so every
endorsement may arrive late, again and in any order. Signatures cannot be
forged: an endorsement is from its sender. `Reliance` is the transitive closure
of the operators' configuration, given as a constant with an assumption that TLC
checks.

### Listener

Messages are live (`Receive`, then `StoreLive`), or caught up from a peer:
`TryCandidates`/`CandidatesFail`, `GetNeighbor`, `DialNeighbor`, `GiveUp`,
`Request` (answered by `Serve`: rows since a time, at most `MaxServed`), then
`ReadPayload`, `StoreCaught`, `ReadEnds`. Both tasks send to the SSE channel
before they store, and storing may fail. A start that cannot read the archive
looks back a fixed time, as with an empty one (`Start`). The clocks of the two
nodes agree and do not go back, and the archive is enabled.

### Discovery

The DHT has a slot per minute, known by its age. A bootstrapping node reads two
slots, publishes if they are empty and joins what it finds; the publisher actor
publishes when the cap allows; the merge actors join more. Reads may miss
records, writes may fail or replace the records of others, and a join may be
refused. A record lists neighbours of its publisher, which may be past ones.

### Topology and PeerRegistry

`Component`, `Components`, `Betweenness` (Brandes' algorithm, by levels, path
counts and dependencies) and `Suggestions` are operators on an adjacency
function. Betweenness is exact in multiples of 1/(2 `Scale`). Where the code's
choice depends on hash order (the main component among equals, the top nodes
among equals), the operator is the set of the possible results. `PeerRegistry`
starts with some of the nodes known, linked by any graph; announcements that
contradict it come later. An update takes its two locks in two steps, and the
receive tasks of two generations may both be in one.

## 3. Runs

Passing runs; states are distinct states.

| Run | Bounds | Shows |
|---|---|---|
| `frontend` | 2 urls, 2 pings, 1 loss, hive-writer, fairness; 559 k states, 150 s | `TypeOK`, `NoDoubleSend`, `UpdateFindsRowOrSent`, `ImplementsPingQueue`, `Drained` |
| `frontend_ephemeral` | `--ephemeral`, 2 urls, 2 pings, both writers, failing statements, symmetry; 3.7 M, 120 s | `EphemeralForgets`, `RemovedOnlyAfterSend` |
| `gossip_receiver` | 4 events, 3 requests, queue limit 2, 2 hashes, fairness; 77 k | `TypeOK`, `QueueEmptyWhileParked`, `InOrder`, `HashesInOrder`, `ImplementsEventFeed`, `ClosedIsNoticed` |
| `writer_pipeline` | 2 pings in 2 groups, 1 announcement, 3 failures, 1 request, channel 1, retry queue 2, reconnect after 2, fairness; 58 k | `TypeOK`, `Conserved`, `QueuesInOrder`, `AnsweredWasOffered`, `LossHasReason`, `ChannelServed` |
| `gossip_node` | the three programs, reconnect after 2 failures, fresh endpoint after 1 reconnect, 3 broadcasts in a cooldown, fairness; 645 k, 120 s | `TypeOK`, `NoEchoReconnect`, `ReaderReturns` |
| `receive_task` | 2 peers, file of 1 peer, count modulo 3, 3 numbers, symmetry; 3.5 M, 80 s | `TypeOK`, `MistrackedHasCause`, `SomeoneIsKnown`, `GapsReported` |
| `listener` | 3 messages, 2 accepted, 3 seconds, window 1, 2 rows per answer, symmetry; 902 k | `TypeOK`, `CaughtUp`, `StoredWasEmitted` |
| `trust` | 4 nodes in a chain (listener, writer, two listeners), 2 crashes, fairness; 307 k, 100 s | `TypeOK`, `ChainOfTrust`, `OnlyVouchedPass`, `ForgetsOnlyUnsaved`, `TrustSpreads` |
| `discovery` | 2 nodes, 1 record per minute, 1 lost link, merge actors, suggestions, fairness; 48 k, 160 s | `BootstrapEnds`, `Heals` |
| `monitor` | every graph of up to 4 nodes, 1 further announcement, 2 agings, symmetry; 56 k, 64 s | `TypeOK`, `HistoryOwned`, `FollowedConnects`, `BetweennessRight` |

What the properties say of the code:

* `NoDoubleSend`: the checker sends from a snapshot; a ping goes out a second
  time only after a reset, a failed mark or a restart before the mark.
* `RemovedOnlyAfterSend`: no reply, late or duplicate, and no delete removes a
  row whose url was never put on a socket. `ImplementsPingQueue` implies it, and
  says besides that nothing is handed over that was not accepted.
* `UpdateFindsRowOrSent`: the UPDATE that follows a failed INSERT finds its row,
  unless an earlier ping of the url had been put on a socket. In that case the
  newer ping is not stored, and the handler is not told. The row that was removed
  may hold a later ping than the one that was answered, since replies name urls,
  so nothing is claimed of the sending of that one.
* `EphemeralForgets`: in ephemeral mode nothing sent leaves a row behind.
* `Drained`: every row goes, through the reset if need be. A row that is marked
  although a handler re-armed it after the fetch is delayed by one reset only.
* `QueueEmptyWhileParked`, `InOrder`, `HashesInOrder`, `ClosedIsNoticed`: what
  the receive task and the records may rely on, though calls of `next()` time out
  at any point. A live call may still starve: when events are rarer than timeouts,
  each goes to a dead waiter ahead of it. `ImplementsEventFeed` sums up the
  safety of it: an answer meant for a call that was left never reaches a later
  one, each such call costs at most one event, and `None` means closed.
* `Conserved`, `QueuesInOrder`, `LossHasReason`, `ChannelServed`: a payload is in
  one place, both queues keep the order, a loss has a full queue or a shutdown
  behind it, and no failure or reconnect stops the service of the channel.
* `AnsweredWasOffered`: a ping the front-end is told to forget was put in a
  payload and offered to the channel, and some payload of its batch found the
  broadcast task alive. That its own payload was queued does not hold: one
  success answers the whole batch.
* `NoEchoReconnect`: a receive task that a reconnect ends may compare
  generations too early and ask for another reconnect; the request falls into
  the cooldown. It does not if the topic is down after a failed subscription, and
  in the writer if the loop served three payloads before the request, whose
  broadcasts may hang for 30 s together. Both exceptions are reachable.
* `ReaderReturns`: although such a request, an honest one in the cooldown, one
  overtaken by a successful broadcast and one whose subscription failed are all
  forgotten, the watchdog sees to it that a receive task runs again.
* `MistrackedHasCause`: a peer is in the neighbour set wrongly, or wrongly not in
  it, only as long as the last event of it was lost or raced with a reset. One
  such event makes the count wrong, or wrap, until the next reconnect.
* `SomeoneIsKnown`: unlocked saves, unreadable files and failing creates may lose
  a peer but never empty the file; only a crash between truncation and write, or
  a write that fails after the truncation, does.
* `GapsReported`: every number skipped since the first one heard was reported.
* `CaughtUp`: a complete catch-up leaves out nothing the peer stored while the
  listener was down (of the last day, if it found no row in its archive or could
  not read it). Complete means every row was served and stored: after a
  partial one (an answer cut at the limit, a broken stream, a failed store, a
  crash) the next catch-up starts at the newest row, and nothing is claimed.
* `StoredWasEmitted`: no crash leaves a row in the archive that was never sent to
  the SSE channel. (Whether a client saw it is not modelled.)
* `ChainOfTrust`, `OnlyVouchedPass`, `ForgetsOnlyUnsaved`, `TrustSpreads`: see
  the comments in `Trust`. The exceptions are real: a restart in the middle of a
  save, after a save with an error that nobody was told of, or with a file that
  cannot be read loses keys, and an empty set switches the listener's filter off.
* `BootstrapEnds`, `Heals`: every bootstrap ends; with merge actors a network
  too small to hide a bubble becomes and stays connected. The three programs
  subscribe without merge actors (`subscribe_and_join_bootstrap_only`), so
  `Heals` is about the library's default mode.
* `HistoryOwned`: no history outlives its peer, though a prune may come between
  the two locks of an update.
* `FollowedConnects`: whichever ties are broken how, nodes outside the main
  component that follow their suggestions make the network connected.
* `BetweennessRight`: the algorithm agrees with the definition by all shortest
  paths.

The bounds let every interesting case happen. Two pings for one url let a Live
ping overtake an Update at each point of the checker's loop; pipes of one
message make a send fail; one loss places a crash, a lost reply or a replaced
socket anywhere. A queue limit of 2 overflows with the fourth event; two failures
in a row reach a reconnect and a third fails the replay; a channel of one payload
is full while the task is busy. A file of one peer is always full, so each save
replaces; modulo 3 the count wraps below 0, and beyond the two peers that count
right, after few events.
Three seconds with a window of one distinguish before, at and after the newest
row, and two rows per answer cut an answer of three. A chain of four nodes has
keys two and three links away. With one record per minute two nodes compete for
the slot. Four nodes have every shape of suggestion: two pairs, a triple and one
alone, a path and a star; their shortest paths number at most two, hence `Scale`
2; with `TopCount` 1 there is a choice among the best nodes. Symmetry is used only
in runs without liveness.

Deadlock checking is off where the system may stop: the receiver actor ends with
its stream, the gossip-writer with a shutdown. Each property has a mutant of the
code that breaks it (`PROJECT.json`).

**Fairness.** Each model assumes only what its comments name.
*FrontEnd*: the checker loops for ever (its receives and sends have timeouts),
time passes, and a running hive-writer takes messages and answers what it took;
losses are finite (`MaxLosses`), nothing is assumed of the gossip-writer.
*GossipReceiver*: the task calls again, its timer fires, the actor runs what it
is sent; nothing is assumed of the stream.
*WriterPipeline*: threads and tasks are scheduled, and every await of the
broadcast task ends, since a broadcast has a 10 s timeout and a reconnect
subscribes without waiting for a peer.
*GossipNode*: tasks run, time passes and a broadcast ends by its timeout (weak); a subscription that is tried
again and again succeeds, the cooldown elapses, and the loop finds a request that
is made again and again (strong: the periods of watchdog, broadcasts and poll are
360, 300 and 30 s, so that a broadcast does not always come between).
*Trust*: nodes endorse and saves end, well or with errors (weak); an endorsement that is sent again
and again arrives (strong).
*Discovery*: minutes pass and bootstraps take steps (weak); publishing, finding,
merging with each other node and connecting succeed if tried again and again
(strong): the DHT and the network are unreliable, not dead.

### Disagreements between text and code

Two are runs that TLC must refute; the quotations are in `PROJECT.json`.

| Run | The text says | The code does |
|---|---|---|
| `doc_error_retry` | an error leads to another attempt | a write error deletes the row |
| `doc_next_event` | `next()` receives the next event | after a timeout one event goes to nobody |

Others that the models contain without a run of their own:

* a success "removes" what was sent (README.md:93): replies name urls, so a late
  one also removes a newer ping of that url that was never sent;
* a message that finds a waiter is never hashed (receiver.rs:95 speaks of
  recently received messages);
* pings of a payload that was dropped at a full channel are answered like the
  others of the batch (`flush_batch`);
* "Queue for retry" (gossip-writer main.rs:868): without a further reconnect the
  retry queue is not drained when broadcasts recover;
* the comment on `consecutive_reconnects` (gossip-listener main.rs:1271-1273)
  against its reset at line 1139;
* the overlap merge joins nodes with which messages are shared, where
  PROTOCOL.md:258-259 and ARCHITECTURE.md:170 describe it as finding partitions;
* "(atomic overwrite)" (gossip-writer main.rs:1716, gossip-listener
  main.rs:1795): the write truncates first.

## 4. Proofs

All proofs rest on the named assumptions of the modules alone
(`QueueDbAssumption`, `FrontEndAssumption`, `GossipReceiverAssumption`,
`WriterPipelineAssumption`, `NodeAssumption`, `ReceiveTaskAssumption`,
`TrustAssumption`, `RelianceAssumption`, `ListenerAssumption`,
`TopologyAssumption`, `RegistryAssumption`: bounds, limits and capacities are natural numbers, positive
where the code divides by them or starts from one, sets of nodes are finite,
flags are Booleans, `Reliance` is the transitive closure), which TLC evaluates.
Every theorem holds for all queues, networks and bounds that satisfy them. Each
safety property is proved from an inductive invariant that TLC had checked
before; what follows says which, and why the property alone is not enough.

`FrontEndProofs`:

* `TypeCorrect`: by cases over the actions; the lemmas `InsertTable`,
  `UpdateTable`, ... say that each statement yields a table.
* `RemovedAfterSend`: the inductive invariant `HandedInv` says that every pipe,
  writer and program point after a send holds only urls in `handed`; a reply, or
  the delete of ephemeral mode, can therefore only remove such urls.
* `UpdateFindsRow`: `handed` only grows, and `RemovesHanded`, the step lemma of
  the previous theorem, says that only a url in it may have lost its row.
* `NoDoubleSendTheorem`: `NoDoubleSend` looks at one program point and is not
  inductive. `SendInv` adds that ids are fresh (`FreshIds`), that a ping has one
  owner among rows, handlers and the checker's snapshot (`OneOwner`), and that
  whatever may still be sent is not outstanding, except the row between its
  send and its mark (`NotOutstanding`).
* `EphemeralForgetsTheorem`: `NoneInFlight` (no row is ever marked) with
  `SendInv`.
* `FrontEndImplements` is the refinement `Spec => ImplementsPingQueue`. Besides
  `HandedInv` it needs `FetchedInv`: what the checker holds in its snapshot is
  still in the table or was handed over, so that every send is an abstract
  `HandOver` or a stutter.

`GossipReceiverProofs`:

* `ReceiverTypeCorrect`, `QueueEmptyTheorem`, `InOrderTheorem`: `OrderInv` joins
  the types, `QueueEmptyWhileParked` and `ArrivalInv` (numbers in the queue and in
  the history are at most the number of arrivals). `QueueEmptyWhileParked` is what
  makes the direct hand-over keep the order: nothing older is queued.
* `HashesInOrderTheorem`: `HashInv` adds that what was recorded has arrived. The
  hash is taken from the front of the queue after the waiter was served; by
  `QueueEmptyWhileParked` that is the event that just arrived, or there is none.
* `ReceiverImplementsFeed` is the refinement `Spec => ImplementsEventFeed`. It
  needs `LiveInv`: a task that does not wait has no live request in the mailbox
  or among the waiters, one that waits has exactly one, and a stopped actor has
  no waiters. Without it the actor could answer a call that is over, or one call
  twice, and an event sent to a dead waiter could not be charged to a call that
  timed out (`abandoned` counts all requests but the live one). The lemmas `Live...` follow the live request through the operations on
  sequences, and `SendToCaller` says what a hand-over does for the caller.

`WriterPipelineProofs`, for every capacity, chunk size and threshold:

* `PipelineTypeCorrect`: among others, channel and retry queue stay within their
  limits;
* `PayloadsConserved`, `PipelineInOrder`: one induction, over `PayloadInv`. It
  adds that the broadcast task holds one payload while it broadcasts and none
  otherwise (`HandInv`); without it a payload could be overwritten. `PlacedInv` is
  `Conserved` written out place by place, and the `Placed...` lemmas say what
  moving a payload from one place to the next does to it. Conservation needs the
  order: a queue in increasing order holds nothing twice, so what is popped has
  left it. The order needs all of it: a failed payload is appended to the retry
  queue, and is younger than what is in it and older than what is in the channel;
* `AnswersFollowOffers`: an action property. `AnswerInv` says what a flush has
  done so far: every ping of its batch is still to be put in a payload or was
  offered, and `broadcastOk` means that a payload of this batch, not of an earlier
  one, reached the channel while the broadcast task was alive;
* `LossesHaveReason`: an action property; `ExitInv` (the broadcast task ends only
  at shutdown) excludes a channel that nobody reads.

`GossipNodeProofs`, for the three programs:

* `NodeTypeCorrect`;
* `NoReconnectStorm`: `EchoInv` says where the request of a replaced task can be:
  it is made, or may still be made, only before the reconnect that replaced it
  ends or in the cooldown after it; it has both the flag and the permit, so taking
  the permit leaves nothing of it for later; the permit waits since that reconnect
  (`early`), so the cooldown is over before it is taken only if one of the two
  exceptions holds; and a request that passes through the cooldown (the health
  report's) is a reason of its own.

`ReceiveTaskProofs`:

* `ReceiveTypeCorrect`;
* `AllGapsReported`: `GapInv`, with the fact that the first and the last number
  are set together;
* `PeersStayKnown`: `FileInv` says that an untorn empty file is about to be
  written by a task that has a line to write, which is what two saves at once and
  reads and creates that fail leave true;
* `TrackingErrorsHaveCause`: `TrackInv` follows set and count through the two
  updates of an event and through the three steps of a reset, during which the
  property says nothing: what the new task has tracked by then is astray. The counter wraps, so adding and subtracting one modulo
  `CountModulus` has to agree with adding and removing an element of a finite set
  (`CountUp`, `CountDown`).

`TrustProofs`, for every network and configuration:

* `TrustTypeCorrect`: besides the types, a save that writes has keys left;
* `ChainTheorem`: `ChainInv` extends `ChainOfTrust` to the keys still to be
  written; the step that adds keys uses the transitivity of `Reliance`;
* `ForgetsTheorem`: `SaveInv` says that, unless there was an error, the file holds
  what is trusted between saves, and together with what is still to be written
  during one, so a restart then loads it all;
* `VouchedTheorem`: `ConfiguredInv` (a node that was never restarted in the middle
  of a save or with a bad file keeps its configured keys) makes the filter of a configured listener non-empty, and
  `ChainTheorem` says what it lets pass.

`ListenerProofs`, for every set of messages and both archives:

* `ListenerTypeCorrect`: through `ListenerInv`, which adds what each task has in
  its hands (`InHand`) and that an archive is a finite table with one row per
  message and, unless empty, a latest row (`HasLatest`);
* `NothingStoredUnsent`: `EmitInv` extends the property to the messages that the
  live task and the catch-up are about to store;
* `CatchupComplete`: `MissedInv` says that what was stored elsewhere while the
  listener was down is no older than its latest row, so the time it asks for
  covers it; `WholeInv` says that what it needs is stored, in hand or still to be
  read, as long as no part of the catch-up failed.

`PeerRegistryProofs`, for every set of nodes:

* `RegistryTypeCorrect`: with `AddSampleBounded`;
* `HistoryOwnedTheorem`: inductive given the types; a prune between the two locks
  removes the sample of the update as well, or the update is about to insert its
  peer. It covers two updates at once, which the one further announcement of the
  run does not reach;
* `SearchIsComplete`: `bfs_component` returns the smallest set that holds the
  start and that no edge leaves, in every finite graph. The search is a recursive
  function of the number of rounds; `RoundsAre` says that it satisfies its
  equations, `RoundsStay` that no round leaves a closed set, and `RoundsClose`
  that it is closed after as many rounds as there are nodes, since a round that
  adds nothing ends it and each other one adds a node;
* `FollowedConnectsTheorem`: reaching is symmetric because `Adjacency` is
  (`SameComponent`), so components do not overlap; a node outside the main
  component is suggested somebody of it, since `TopCount` is positive and the
  component is not empty (`TopIsSomeone`); hence every component of the joined
  graph holds the main one (`JoiningConnects`). It follows from the types alone:
  no history of announcements matters.

The induction theorems of the library have an operator for a parameter, which the
provers cannot supply. `SetInduction` states induction over the natural numbers
with a set instead and is proved from the well-foundedness of inclusion among
finite sets; the lemmas on rounds instantiate it.

Only model-checked:

* all liveness (`Drained`, `ClosedIsNoticed`, `ChannelServed`, `ReaderReturns`,
  `TrustSpreads`, `BootstrapEnds`, `Heals`): out of the prover's reach, and with
  them all of `Discovery`, whose properties are of this kind;
* `BetweennessRight`: it compares sums over pairs of nodes in units of
  1/(2 `Scale`), so it holds for a `Scale` that all path counts of the instance
  divide, and not for every value of the constants; and the counting of shortest
  paths behind it (sums over sets, cardinalities of sets of paths) has no
  counterpart in the theorem library.

Two places of the model had to be corrected before they could be proved about,
both a `CASE` whose arms overlapped (in `GossipNode` the reason for a request, in
`Discovery` the program point after a minute): TLC takes the first arm, the
logic leaves the choice open.

## 5. Not modelled

* Cryptography: signatures, encryption and keys of notifications and DHT records
  (a message verifies or is ignored), and with it `notification.rs`.
* The optional archive of the gossip-writer, which nothing in the writer reads.
* Serialisation and generated capnp code, logging, wording.
* The monitor's web server, dashboard and suggestion log, and the HTTP side of
  SSE (filters of a client, clients that are too slow): presentation.
* Authorization and url checks of the web handler, which read no modelled state;
  `GET /publishers`, which only reads.
* iroh, iroh-gossip, the DHT and the hive-writer themselves: environments, from
  how the code uses them.
* Clocks that disagree or are set back (`now - last` in the watchdog, rows of
  two nodes in a catch-up), an SQLite built without `UPDATE ... LIMIT`.
* The load generator, examples, build and container files.
