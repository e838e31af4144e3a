----------------------------- MODULE SSEStream -----------------------------
(***************************************************************************)
(* The live-update path from a saved change to a page that shows it:       *)
(* internal/mobileapp/hub.go (seq, ring buffer, subscriber channels and    *)
(* the streaming handler), the shared EventSource of web-mobile/js/        *)
(* api_client.jsx, and the page that follows it (app.jsx, checkSeqGap and  *)
(* keepNewerMatches of patch.jsx).                                         *)
(*                                                                         *)
(* One page follows the hub.  A write is one change of what the server has *)
(* stored: a handler saves it and only then broadcasts its event.  What    *)
(* the server holds, a fetch returns and the page shows are sets of writes.*)
(***************************************************************************)
EXTENDS Integers, Sequences, SequencesExt

CONSTANTS
    Writes,          \* changes made to the tournament
    First,           \* the one whose event the page has already had
    LiveWrites,      \* those of a running match: their event carries the match
    NoWrite,         \* the payload of a resync_required frame
    HistorySize,     \* slots of the hub's ring
    Buffer,          \* slots of a subscriber's channel
    MaxClients,      \* subscribers the hub accepts
    ReopenRefetch,   \* the page refetches when its stream reopens (app.jsx does)
    MaxFetches,      \* bound: fetches of the page in flight
    MaxRestarts,     \* bound: restarts of the server
    MaxLosses,       \* bound: lost connections and outages of the device's network
    MaxResumes       \* bound: times the tab is hidden and shown again

ASSUME WritesAssumption == LiveWrites \subseteq Writes /\ First \in Writes /\ NoWrite \notin Writes
ASSUME HubAssumption ==
    HistorySize \in Nat \ {0} /\ Buffer \in Nat \ {0} /\ MaxClients \in Nat \ {0}
ASSUME BoundsAssumption ==
    MaxFetches \in Nat /\ MaxRestarts \in Nat /\ MaxLosses \in Nat /\ MaxResumes \in Nat

VARIABLES
    up,           \* the server is running
    saved,        \* writes on its disk
    unsent,       \* saved, their handler has not broadcast yet
    seq,          \* Hub.seq
    history,      \* Hub.history
    subscribed,   \* the page's channel is in Hub.clients
    chan,         \* what that channel holds
    serving,      \* HandleEvents runs for the page's connection
    stale,        \* channels in Hub.clients of connections the page has dropped
    pipe,         \* frames written to the connection, not yet read by the page
    source,       \* the page's EventSource: "closed" (a retry is due), "connecting", "open"
    lastEventId,  \* 0 when the page has none
    lastSeq,      \* sseSeq.lastSeq, of checkSeqGap
    streamLost,   \* app.jsx: the stream was lost since it last opened
    online,       \* the device has a network
    due,          \* refetches scheduled (jittered timers)
    replies,      \* answers on their way to the page, any of which may land next
    shown,        \* writes the page shows
    heard,        \* ghost: writes the page was given, by an event or an answer
    cast,         \* ghost: writes ever broadcast
    told,         \* ghost: writes the stream owes the page nothing more about
    restarts, losses, resumes

hub == <<seq, history>>
conn == <<subscribed, chan, serving, pipe>>
page == <<lastEventId, lastSeq, due, replies, shown, heard, told>>
bounds == <<restarts, losses, resumes>>
vars == <<up, saved, unsent, hub, conn, stale, source, streamLost, online, page, cast, bounds>>

Entry == [seq : Nat, write : Writes \cup {NoWrite}]

TypeOK ==
    /\ up \in BOOLEAN /\ online \in BOOLEAN /\ serving \in BOOLEAN
    /\ subscribed \in BOOLEAN /\ streamLost \in BOOLEAN
    /\ saved \subseteq Writes /\ unsent \subseteq saved
    /\ seq \in Nat /\ history \in [0 .. HistorySize - 1 -> Entry]
    /\ chan \in Seq(Entry) /\ Len(chan) <= Buffer
    /\ pipe \in Seq(Entry)
    /\ stale \in Nat /\ stale + (IF subscribed THEN 1 ELSE 0) <= MaxClients
    /\ source \in {"closed", "connecting", "open"}
    /\ lastEventId \in Nat /\ lastSeq \in Nat /\ due \in Nat
    /\ replies \in Seq(SUBSET Writes) /\ Len(replies) <= MaxFetches
    /\ shown \subseteq saved /\ heard \subseteq saved
    /\ cast \subseteq saved /\ told \subseteq cast

EmptyRing == [i \in 0 .. HistorySize - 1 |-> [seq |-> 0, write |-> NoWrite]]

\* A page that has loaded and has followed the stream up to its first event.
Init ==
    /\ up = TRUE /\ saved = {First} /\ unsent = {}
    /\ seq = 1 /\ history = [EmptyRing EXCEPT ![0] = [seq |-> 1, write |-> First]]
    /\ subscribed = TRUE /\ chan = <<>> /\ serving = TRUE /\ pipe = <<>> /\ stale = 0
    /\ source = "open" /\ streamLost = FALSE /\ online = TRUE
    /\ lastEventId = 1 /\ lastSeq = 1 /\ due = 0 /\ replies = <<>>
    /\ shown = saved /\ heard = saved /\ cast = saved /\ told = saved
    /\ restarts = 0 /\ losses = 0 /\ resumes = 0

-----------------------------------------------------------------------------
\* The server.

Save(w) ==
    /\ up /\ w \notin saved
    /\ saved' = saved \cup {w} /\ unsent' = unsent \cup {w}
    /\ UNCHANGED <<up, hub, conn, stale, source, streamLost, online, page, cast, bounds>>

\* Mutant: the send to a full channel is not refused.
BroadcastUnbounded(w) ==
    LET entry == [seq |-> seq + 1, write |-> w] IN
    /\ up /\ w \in unsent
    /\ unsent' = unsent \ {w} /\ cast' = cast \cup {w}
    /\ seq' = seq + 1
    /\ history' = [history EXCEPT ![seq % HistorySize] = entry]
    /\ chan' = IF subscribed THEN Append(chan, entry) ELSE chan
    /\ UNCHANGED <<up, saved, subscribed, serving, pipe, stale, source, streamLost, online, page, bounds>>

\* Hub.Broadcast: stamp, ring, fan-out; a full channel is unsubscribed.
Broadcast(w) ==
    LET entry == [seq |-> seq + 1, write |-> w] IN
    /\ up /\ w \in unsent
    /\ unsent' = unsent \ {w} /\ cast' = cast \cup {w}
    /\ seq' = seq + 1
    /\ history' = [history EXCEPT ![seq % HistorySize] = entry]
    /\ IF subscribed /\ Len(chan) < Buffer
       THEN chan' = Append(chan, entry) /\ UNCHANGED subscribed
       ELSE subscribed' = FALSE /\ UNCHANGED chan
    /\ UNCHANGED <<up, saved, serving, pipe, stale, source, streamLost, online, page, bounds>>

\* Mutant: the slot the last event overwrote counts as retained.
OldestOverwritten == IF seq > HistorySize THEN seq - HistorySize ELSE 1

\* snapshotHistorySinceLocked
OldestRetained == IF seq > HistorySize THEN seq - HistorySize + 1 ELSE 1
Complete(since) == since >= seq \/ since + 1 >= OldestRetained

\* Mutant: the replay begins with the event the client names.
RetainedInclusive(since) ==
    LET first == IF since < OldestRetained THEN OldestRetained ELSE since
    IN  [i \in 1 .. seq - first + 1 |-> history[(first + i - 2) % HistorySize]]

Retained(since) ==
    LET first == IF since + 1 < OldestRetained THEN OldestRetained ELSE since + 1
    IN  [i \in 1 .. seq - first + 1 |-> history[(first + i - 2) % HistorySize]]

\* Mutant: a client ahead of the hub (a restart) is answered as up to date.
OpeningTrusting(since) ==
    IF since = 0 \/ since > seq THEN <<>>
    ELSE IF Complete(since) THEN Retained(since)
    ELSE <<[seq |-> seq, write |-> NoWrite]>>

\* What HandleEvents writes before the live stream.
Opening(since) ==
    IF since = 0 THEN <<>>
    ELSE IF Complete(since) /\ since <= seq THEN Retained(since)
    ELSE <<[seq |-> seq, write |-> NoWrite]>>

Registered == stale + (IF subscribed THEN 1 ELSE 0)

\* HandleEvents up to its stream loop: subscribeWithReplay, then the replay.
Accept ==
    /\ source = "connecting" /\ ~serving /\ online /\ up /\ Registered < MaxClients
    /\ serving' = TRUE /\ subscribed' = TRUE /\ chan' = <<>>
    /\ pipe' = Opening(lastEventId)
    /\ told' = IF lastEventId = 0 THEN cast ELSE told
    /\ UNCHANGED <<up, saved, unsent, hub, stale, source, streamLost, online, lastEventId,
                   lastSeq, due, replies, shown, heard, cast, bounds>>

\* One turn of the stream loop: an entry is written to the connection.
Stream ==
    /\ serving /\ chan # <<>>
    /\ pipe' = Append(pipe, Head(chan)) /\ chan' = Tail(chan)
    /\ UNCHANGED <<up, saved, unsent, hub, subscribed, serving, stale, source, streamLost,
                   online, page, cast, bounds>>

\* The channel is closed and drained: the handler returns.
HandlerReturns ==
    /\ serving /\ ~subscribed /\ chan = <<>>
    /\ serving' = FALSE
    /\ UNCHANGED <<up, saved, unsent, hub, subscribed, chan, pipe, stale, source, streamLost,
                   online, page, cast, bounds>>

\* The handler of a dropped connection notices (its heartbeat cannot be
\* written, or the request's context ends) and unsubscribes.
ReleaseStale ==
    /\ stale > 0 /\ stale' = stale - 1
    /\ UNCHANGED <<up, saved, unsent, hub, conn, source, streamLost, online, page, cast, bounds>>

\* The process ends: seq, the ring and every connection are gone, and so are
\* the broadcasts of handlers between their save and their push.
Stop ==
    /\ up /\ restarts < MaxRestarts
    /\ up' = FALSE /\ restarts' = restarts + 1
    /\ unsent' = {} /\ seq' = 0 /\ history' = EmptyRing
    /\ subscribed' = FALSE /\ chan' = <<>> /\ serving' = FALSE /\ stale' = 0
    /\ UNCHANGED <<saved, pipe, source, streamLost, online, page, cast, losses, resumes>>

Start ==
    /\ ~up /\ up' = TRUE
    /\ UNCHANGED <<saved, unsent, hub, conn, stale, source, streamLost, online, page, cast, bounds>>

-----------------------------------------------------------------------------
\* The page's connection.

\* The page lets go of its connection; the server has not noticed yet.
Drop ==
    /\ subscribed' = FALSE /\ chan' = <<>> /\ serving' = FALSE /\ pipe' = <<>>
    /\ stale' = IF subscribed THEN stale + 1 ELSE stale

\* Mutant: the reopened stream's own replay is taken to be enough.
OpenQuietly ==
    /\ source = "connecting" /\ serving /\ online
    /\ source' = "open" /\ streamLost' = FALSE
    /\ UNCHANGED <<up, saved, unsent, hub, conn, stale, online, page, cast, bounds>>

\* onopen: a stream that was lost reloads (jittered).
Open ==
    /\ source = "connecting" /\ serving /\ online
    /\ source' = "open" /\ streamLost' = FALSE
    /\ due' = IF streamLost /\ ReopenRefetch THEN due + 1 ELSE due
    /\ UNCHANGED <<up, saved, unsent, hub, conn, stale, online, lastEventId, lastSeq, replies,
                   shown, heard, cast, told, bounds>>

\* onerror, or the silence watchdog: the source is closed and a retry set.
Error ==
    /\ \/ source = "connecting" /\ ~serving /\ (~up \/ ~online \/ Registered >= MaxClients)
       \/ source = "open" /\ ~serving /\ pipe = <<>>
       \/ source # "closed" /\ ~online
    /\ source' = "closed" /\ streamLost' = TRUE /\ Drop
    /\ UNCHANGED <<up, saved, unsent, hub, online, page, cast, bounds>>

\* The connection breaks under a device that is online.
Break ==
    /\ source # "closed" /\ losses < MaxLosses
    /\ losses' = losses + 1
    /\ source' = "closed" /\ streamLost' = TRUE /\ Drop
    /\ UNCHANGED <<up, saved, unsent, hub, online, page, cast, restarts, resumes>>

\* _ensureConnected, from the retry timer.
Retry ==
    /\ source = "closed" /\ source' = "connecting"
    /\ UNCHANGED <<up, saved, unsent, hub, conn, stale, streamLost, online, page, cast, bounds>>

GoOffline ==
    /\ online /\ losses < MaxLosses
    /\ online' = FALSE /\ losses' = losses + 1
    /\ UNCHANGED <<up, saved, unsent, hub, conn, stale, source, streamLost, page, cast,
                   restarts, resumes>>

\* The browser's online event: onOnline, which reconnects at once.
GoOnline ==
    /\ ~online /\ online' = TRUE
    /\ streamLost' = TRUE /\ source' = "connecting" /\ Drop
    /\ UNCHANGED <<up, saved, unsent, hub, page, cast, bounds>>

\* onVisibilityChange: reconnect quietly and refetch now.
Resume ==
    /\ resumes < MaxResumes /\ resumes' = resumes + 1
    /\ source' = "connecting" /\ Drop
    /\ due' = IF streamLost THEN due ELSE due + 1
    /\ UNCHANGED <<up, saved, unsent, hub, streamLost, online, lastEventId, lastSeq, replies,
                   shown, heard, cast, told, restarts, losses>>

-----------------------------------------------------------------------------
\* The page's data.

\* onmessage of a resync_required frame.
ReceiveResync ==
    /\ source = "open" /\ online /\ pipe # <<>> /\ Head(pipe).write = NoWrite
    /\ pipe' = Tail(pipe)
    /\ lastEventId' = Head(pipe).seq /\ lastSeq' = Head(pipe).seq
    /\ due' = due + 1 /\ told' = cast
    /\ UNCHANGED <<up, saved, unsent, hub, subscribed, chan, serving, stale, source, streamLost,
                   online, replies, shown, heard, cast, bounds>>

\* checkSeqGap's verdicts.
Duplicate(s) == lastSeq > 0 /\ s <= lastSeq
Gap(s) == lastSeq > 0 /\ s > lastSeq + 1

\* onmessage of an event: the patch it carries, and a scheduled refetch (one
\* more on a gap).  A duplicate only moves the last event id.
Receive ==
    LET e == Head(pipe) IN
    /\ source = "open" /\ online /\ pipe # <<>> /\ e.write # NoWrite
    /\ pipe' = Tail(pipe) /\ lastEventId' = e.seq /\ told' = told \cup {e.write}
    /\ IF Duplicate(e.seq) THEN UNCHANGED <<lastSeq, due, shown, heard>>
       ELSE /\ lastSeq' = e.seq
            /\ due' = IF Gap(e.seq) THEN due + 2 ELSE due + 1
            /\ shown' = shown \cup ({e.write} \cap LiveWrites)
            /\ heard' = heard \cup ({e.write} \cap LiveWrites)
    /\ UNCHANGED <<up, saved, unsent, hub, subscribed, chan, serving, stale, source, streamLost,
                   online, replies, cast, bounds>>

\* A scheduled refetch reads the server.
Fetch ==
    /\ due > 0 /\ Len(replies) < MaxFetches /\ online /\ up
    /\ due' = due - 1 /\ replies' = Append(replies, saved)
    /\ UNCHANGED <<up, saved, unsent, hub, conn, stale, source, streamLost, online, lastEventId,
                   lastSeq, shown, heard, cast, told, bounds>>

\* A fetch fails (caught and logged, never tried again): the server cannot be
\* reached, at its request or before its answer is in.
FetchFails ==
    /\ ~online \/ ~up
    /\ \/ due > 0 /\ due' = due - 1 /\ UNCHANGED replies
       \/ \E i \in 1 .. Len(replies) : replies' = RemoveAt(replies, i) /\ UNCHANGED due
    /\ UNCHANGED <<up, saved, unsent, hub, conn, stale, source, streamLost, online, lastEventId,
                   lastSeq, shown, heard, cast, told, bounds>>

\* Mutant: an answer replaces what the page shows.
LandWhole(i) ==
    /\ online
    /\ replies' = RemoveAt(replies, i)
    /\ shown' = replies[i] /\ heard' = heard \cup replies[i]
    /\ UNCHANGED <<up, saved, unsent, hub, conn, stale, source, streamLost, online, lastEventId,
                   lastSeq, due, cast, told, bounds>>

\* An answer lands.  Answers of fetches in flight together land in any order,
\* and keepNewerMatches keeps the newer copy of a running match only.
Land(i) ==
    /\ online
    /\ replies' = RemoveAt(replies, i)
    /\ shown' = replies[i] \cup (shown \cap LiveWrites)
    /\ heard' = heard \cup replies[i]
    /\ UNCHANGED <<up, saved, unsent, hub, conn, stale, source, streamLost, online, lastEventId,
                   lastSeq, due, cast, told, bounds>>

Server == \/ \E w \in Writes : Save(w) \/ Broadcast(w)
          \/ Accept \/ Stream \/ HandlerReturns \/ ReleaseStale \/ Stop \/ Start
Connection == Open \/ Error \/ Break \/ Retry \/ GoOffline \/ GoOnline \/ Resume
Data == ReceiveResync \/ Receive \/ Fetch \/ FetchFails \/ \E i \in 1 .. Len(replies) : Land(i)

Next == Server \/ Connection \/ Data
Spec == Init /\ [][Next]_vars

\* Handlers and timers run, a stopped server is started again, an outage ends,
\* the server notices a dropped connection, and every answer gets in.
Fairness ==
    /\ \A w \in Writes : WF_vars(Broadcast(w))
    /\ WF_vars(Accept) /\ WF_vars(Stream) /\ WF_vars(HandlerReturns)
    /\ WF_vars(ReleaseStale) /\ WF_vars(Start)
    /\ WF_vars(Open) /\ WF_vars(Error) /\ WF_vars(Retry) /\ WF_vars(GoOnline)
    /\ WF_vars(ReceiveResync) /\ WF_vars(Receive)
    /\ WF_vars(Fetch) /\ WF_vars(\E i \in 1 .. Len(replies) : Land(i))

FairSpec == Spec /\ Fairness

-----------------------------------------------------------------------------
\* Nothing is on its way to a page that is connected.
Quiet ==
    /\ up /\ unsent = {} /\ online /\ source = "open" /\ serving /\ subscribed
    /\ chan = <<>> /\ pipe = <<>> /\ due = 0 /\ replies = <<>>

\* The one history the page does not recover from by itself (see README): the
\* server restarted and the tab was resumed.
BlindSpot == restarts > 0 /\ resumes > 0

\* A page with nothing left to receive has been given every saved write, by an
\* event or by an answer, through reconnections, outages, a full channel, a
\* ring that rolled over and a server that died between a save and its push.
QuietHasHeard == Quiet /\ ~BlindSpot => saved \subseteq heard

\* Such a page shows the last state of every running match, whatever the order
\* its fetches were answered in (keepNewerMatches).
QuietShowsLive == Quiet /\ ~BlindSpot => saved \cap LiveWrites \subseteq shown

\* hub.go: "the merged replay+live stream is both gap-free and duplicate-free":
\* a stream that serves the page brings it every event broadcast that it has
\* not had, or tells it to resync.
NothingSkipped ==
    serving => \/ \E i \in 1 .. Len(pipe) : pipe[i].write = NoWrite
               \/ cast \subseteq told \cup {(pipe \o chan)[i].write : i \in 1 .. Len(pipe \o chan)}
                                   \cup (IF subscribed THEN {} ELSE cast)

\* The same of one life of the server.
NothingSkippedInOneRun == restarts = 0 => NothingSkipped

\* The events on their way to the page carry consecutive numbers, the first of
\* them new to it: no event is sent twice, none overtakes another.
StreamInOrder ==
    LET flow == pipe \o chan IN
    /\ \A i \in 1 .. Len(flow) - 1 : flow[i + 1].seq = flow[i].seq + 1
    /\ serving /\ source = "open" /\ lastEventId > 0 /\ flow # <<>> /\ flow[1].write # NoWrite
         => flow[1].seq = lastEventId + 1

\* Every saved write reaches the page in the end.
EveryWriteHeard == \A w \in Writes : (w \in saved) ~> (w \in heard \/ BlindSpot)

\* A page with nothing left to receive is current: it has been given every
\* write, and shows the last state of every running match.
QuietIsCurrent == QuietHasHeard /\ QuietShowsLive

\* The stream a page follows in one run of the server is gap-free and in order.
StreamIsWhole == NothingSkippedInOneRun /\ StreamInOrder

=============================================================================
