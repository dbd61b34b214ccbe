------------------------------ MODULE Listener ------------------------------
(***************************************************************************)
(* gossip-listener: live notifications, the archive, catch-up and the SSE  *)
(* channel.                                                                *)
(*                                                                         *)
(* The receive task and the catch-up task each send a notification to the  *)
(* SSE channel and then store it, next to one another.  A peer with an     *)
(* archive of its own serves the catch-up.  Gossip may deliver a           *)
(* notification to either node at any time, in any order, again, or never; *)
(* the listener may crash and be started again.  created_at is the second  *)
(* in which a node stored the row, so rows may share it; the clocks of the *)
(* two nodes agree.  Which senders pass the filter does not change here:   *)
(* that is the subject of module Trust.                                    *)
(***************************************************************************)
EXTENDS Naturals, FiniteSets, FiniteSetsExt

CONSTANTS
    Messages,     \* the notifications there are
    Accepted,     \* those whose sender passes the trusted-publisher filter
    MaxTime,      \* bound: the last second
    Window,       \* how far an empty archive looks back (86,400 s)
    MaxServed     \* the most payloads served in one answer (50,000)

ASSUME ListenerAssumption ==
    /\ Accepted \subseteq Messages
    /\ MaxTime \in Nat /\ Window \in Nat /\ MaxServed \in Nat \ {0}

Row == [msg : Messages, at : 0..MaxTime]

VARIABLES
    now,        \* SystemTime::now, in seconds
    archive,    \* the messages table of this listener
    peer,       \* the messages table of the peer
    emitted,    \* everything ever sent to the SSE channel
    live,       \* the notification the receive task is about to store
    cpc,        \* where the catch-up task is; "down": no process
    since,      \* the time from which it catches up
    stream,     \* the rows of the answer that are still to be read
    caught,     \* the notification the catch-up task is about to store
    whole,      \* every payload since that time was served and stored
    neighbor,   \* the channel to the catch-up task: empty, full, or spent
    missed,     \* what the peer stored while this listener was down last
    horizon     \* how far back the last start looked, 0 if it read its archive

net == <<now, peer, missed, horizon>>
catchup == <<cpc, since, stream, caught, whole, neighbor>>
vars == <<net, archive, emitted, live, catchup>>

CpcValues == {"down", "connect", "wait", "dial", "open", "read", "store", "over"}

TypeOK ==
    /\ now \in 0..MaxTime
    /\ archive \subseteq Row /\ peer \subseteq Row
    /\ emitted \subseteq Messages
    /\ live \subseteq Messages /\ Cardinality(live) <= 1
    /\ cpc \in CpcValues /\ since \in 0..MaxTime
    /\ stream \subseteq Row /\ Cardinality(stream) <= MaxServed
    /\ caught \subseteq Messages /\ Cardinality(caught) <= 1
    /\ whole \in BOOLEAN /\ neighbor \in {"empty", "full", "spent"}
    /\ missed \subseteq Messages /\ horizon \in 0..MaxTime

Init ==
    /\ now = 0 /\ archive = {} /\ peer = {} /\ emitted = {} /\ missed = {} /\ horizon = 0
    /\ live = {} /\ cpc = "down" /\ since = 0 /\ stream = {} /\ caught = {}
    /\ whole = FALSE /\ neighbor = "empty"

-----------------------------------------------------------------------------
(* archive.rs                                                              *)

Stored(table) == {row.msg : row \in table}

\* INSERT OR IGNORE on the hash of the payload.
Store(table, m) ==
    IF m \in Stored(table) THEN table ELSE table \cup {[msg |-> m, at |-> now]}

MessagesSince(table, t) == {row \in table : row.at >= t}

LatestTimestamp(table) == Max({row.at : row \in table})

-----------------------------------------------------------------------------
(* The process starts and crashes.                                         *)

Running == cpc # "down"

\* The time to catch up from is read before the receive task runs.  An archive
\* that cannot be read counts as empty.
Start ==
    /\ ~Running /\ cpc' = "connect"
    /\ \E found \in {archive, {}} :
        /\ horizon' = IF found = {} /\ now > Window THEN now - Window ELSE 0
        /\ since' = IF found # {} THEN LatestTimestamp(found) ELSE horizon'
    /\ UNCHANGED <<now, peer, missed, archive, emitted, live, stream, caught, whole, neighbor>>

Crash ==
    /\ Running /\ cpc' = "down"
    /\ live' = {} /\ since' = 0 /\ stream' = {} /\ caught' = {} /\ whole' = FALSE
    /\ neighbor' = "empty" /\ missed' = {}
    /\ UNCHANGED <<now, peer, horizon, archive, emitted>>

-----------------------------------------------------------------------------
(* The receive task: handle_event.                                         *)

\* Mutant: the row is written before the notification is sent.
ReceiveStoresFirst(m) ==
    /\ Running /\ live = {} /\ m \in Accepted
    /\ archive' = Store(archive, m)
    /\ live' = {m}
    /\ UNCHANGED <<net, emitted, catchup>>
Receive(m) ==
    /\ Running /\ live = {} /\ m \in Accepted
    /\ emitted' = emitted \cup {m}
    /\ live' = {m}
    /\ UNCHANGED <<net, archive, catchup>>

\* An error of the archive is only logged.
StoreLive ==
    /\ live # {} /\ live' = {}
    /\ \/ archive' = UNION {Store(archive, m) : m \in live}
       \/ UNCHANGED archive
    /\ UNCHANGED <<net, emitted, catchup>>

\* The first neighbour is forwarded to the catch-up task.
NeighborUp ==
    /\ Running /\ neighbor = "empty" /\ neighbor' = "full"
    /\ UNCHANGED <<net, archive, emitted, live, cpc, since, stream, caught, whole>>

-----------------------------------------------------------------------------
(* The catch-up task: run_catchup.                                         *)

Go(from, to) ==
    /\ cpc = from /\ cpc' = to
    /\ UNCHANGED <<net, archive, emitted, live, since, stream, caught>>

\* The bootstrap nodes and known peers, one after the other.
TryCandidates == Go("connect", "open") /\ UNCHANGED <<whole, neighbor>>
CandidatesFail == Go("connect", "wait") /\ UNCHANGED <<whole, neighbor>>
\* The fallback: one try of the first neighbour, within 120 s.
GetNeighbor == Go("wait", "dial") /\ neighbor = "full" /\ neighbor' = "spent" /\ UNCHANGED whole
DialNeighbor == Go("dial", "open") /\ UNCHANGED <<whole, neighbor>>
\* Every way to fail: no neighbour in time, refused, the stream not opened,
\* the request not sent.
GiveUp ==
    \E from \in {"wait", "dial", "open"} :
        /\ from = "wait" => neighbor # "full"
        /\ Go(from, "over") /\ UNCHANGED <<whole, neighbor>>

\* ArchiveSyncHandler of the peer: the oldest rows first, up to the limit.
\* Mutant: no limit.
ServeAll(t) == {MessagesSince(peer, t)}
Serve(t) ==
    LET rows == MessagesSince(peer, t)
        n == IF Cardinality(rows) > MaxServed THEN MaxServed ELSE Cardinality(rows) IN
    {chosen \in kSubset(n, rows) : \A r \in chosen, q \in rows \ chosen : r.at <= q.at}

\* Mutant: the time is read when the request is sent.
RequestLate ==
    /\ cpc = "open" /\ cpc' = "read"
    /\ stream' \in Serve(IF archive = {} THEN since ELSE LatestTimestamp(archive))
    /\ whole' = (Cardinality(MessagesSince(peer, since)) <= MaxServed)
    /\ UNCHANGED <<net, archive, emitted, live, since, caught, neighbor>>
Request ==
    /\ cpc = "open" /\ cpc' = "read"
    /\ stream' \in Serve(since)
    /\ whole' = (Cardinality(MessagesSince(peer, since)) <= MaxServed)
    /\ UNCHANGED <<net, archive, emitted, live, since, caught, neighbor>>

\* A payload is read, in the order of created_at; what the filter rejects is
\* skipped.
ReadPayload ==
    /\ cpc = "read"
    /\ \E row \in stream :
        /\ \A q \in stream : row.at <= q.at
        /\ stream' = stream \ {row}
        /\ IF row.msg \in Accepted
           THEN /\ emitted' = emitted \cup {row.msg}
                /\ caught' = {row.msg} /\ cpc' = "store"
           ELSE UNCHANGED <<emitted, caught, cpc>>
    /\ UNCHANGED <<net, archive, live, since, whole, neighbor>>

StoreCaught ==
    /\ cpc = "store" /\ cpc' = "read" /\ caught' = {}
    /\ \/ archive' = UNION {Store(archive, m) : m \in caught} /\ UNCHANGED whole
       \/ whole' = FALSE /\ UNCHANGED archive
    /\ UNCHANGED <<net, emitted, live, since, stream, neighbor>>

\* The stream ends or breaks: the client cannot tell.  Either counts as a
\* notification for the watchdog (last_notification_time, in GossipNode).
ReadEnds ==
    /\ cpc = "read" /\ cpc' = "over" /\ stream' = {}
    /\ whole' = (whole /\ stream = {})
    /\ UNCHANGED <<net, archive, emitted, live, since, caught, neighbor>>

-----------------------------------------------------------------------------
(* The environment.                                                        *)

Tick ==
    /\ now < MaxTime /\ now' = now + 1
    /\ UNCHANGED <<peer, missed, horizon, archive, emitted, live, catchup>>

PeerStores(m) ==
    /\ m \notin Stored(peer)
    /\ peer' = Store(peer, m)
    /\ missed' = IF Running THEN missed ELSE missed \cup {m}
    /\ UNCHANGED <<now, horizon, archive, emitted, live, catchup>>

-----------------------------------------------------------------------------
CatchupTask ==
    \/ TryCandidates \/ CandidatesFail \/ GetNeighbor \/ DialNeighbor \/ GiveUp
    \/ Request \/ ReadPayload \/ StoreCaught \/ ReadEnds
Next ==
    \/ Start \/ Crash \/ Tick \/ NeighborUp \/ StoreLive \/ CatchupTask
    \/ \E m \in Messages : Receive(m) \/ PeerStores(m)

Spec == Init /\ [][Next]_vars

-----------------------------------------------------------------------------
\* Once a catch-up is complete, the archive holds every accepted notification
\* that the peer stored while this listener was down (of the last day, if the
\* listener found no row in its archive): although it starts from the second of
\* the last stored row, live rows arrive while it runs, and rows share a second.
CaughtUp ==
    (cpc = "over" /\ whole) =>
        \A row \in peer :
            (row.msg \in missed /\ row.msg \in Accepted /\ row.at >= horizon)
                => row.msg \in Stored(archive)

\* Whatever crashes come between, a notification in the archive was sent to
\* the SSE channel: those that were not are still to be caught up.
StoredWasEmitted == Stored(archive) \subseteq emitted

=============================================================================
