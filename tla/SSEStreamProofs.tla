-------------------------- MODULE SSEStreamProofs --------------------------
(***************************************************************************)
(* The stream a page follows is in order and whole, and a page that        *)
(* refetches when its stream reopens is current once nothing is on its way *)
(* to it: for any number of writes, ring and channel sizes, restarts,      *)
(* losses and resumes.                                                     *)
(***************************************************************************)
EXTENDS SSEStream, SequenceTheorems, TLAPS

\* What is on its way to the page on its connection.
Flow == pipe \o chan

Slot(k) == history[(k - 1) % HistorySize]

\* Everything on its way stands for something that was cast, and every answer
\* for something that was saved.
Sourced ==
  /\ \A i \in 1 .. Len(pipe) : pipe[i].write \in cast \cup {NoWrite}
  /\ \A i \in 1 .. Len(chan) : chan[i].write \in cast
  /\ \A i \in 0 .. HistorySize - 1 : history[i].write \in cast \cup {NoWrite}
  /\ \A i \in 1 .. Len(replies) : replies[i] \subseteq saved
  /\ cast \cap unsent = {} /\ restarts \in Nat /\ resumes \in Nat

\* The ring holds the events from the oldest retained on, each in its slot.
Ring == \A k \in OldestRetained .. seq : Slot(k).seq = k /\ Slot(k).write \in cast

\* What a connection is at each of the page's states.
Connected ==
  /\ subscribed => serving
  /\ chan # <<>> => serving
  /\ serving => up /\ source # "closed"
  /\ source = "closed" => pipe = <<>>
  /\ ~up => restarts > 0

\* The numbers follow each other up to the hub's own, and follow the page's.
Ordered ==
  /\ lastSeq = lastEventId
  /\ \A i \in 1 .. Len(Flow) - 1 : Flow[i + 1].seq = Flow[i].seq + 1
  /\ /\ serving \/ source = "open"
     /\ Flow # <<>> /\ lastEventId > 0 /\ Flow[1].write # NoWrite
     => Flow[1].seq = lastEventId + 1
  /\ subscribed =>
       /\ Flow # <<>> => Flow[Len(Flow)].seq = seq
       /\ Flow = <<>> /\ lastEventId > 0 => lastEventId = seq

\* In one run of the server every write cast has a number of its own: what the
\* page was not told comes after the last event it had.
Numbers(num) ==
  /\ num \in [cast -> 1 .. seq]
  /\ \A v, w \in cast : num[v] = num[w] => v = w
  /\ \A k \in OldestRetained .. seq : num[Slot(k).write] = k
  /\ \A i \in 1 .. Len(Flow) : Flow[i].write \in cast => num[Flow[i].write] = Flow[i].seq
  /\ \A w \in cast \ told : num[w] > lastEventId

OneRun ==
  restarts = 0 =>
    /\ lastEventId \in 1 .. seq
    /\ saved \subseteq cast \cup unsent
    /\ \A i \in 1 .. Len(Flow) : Flow[i].seq \in 1 .. seq
    /\ \E num \in [cast -> 1 .. seq] : Numbers(num)
    /\ subscribed => \/ \E i \in 1 .. Len(Flow) : Flow[i].write = NoWrite
                     \/ \A w \in cast \ told : \E i \in 1 .. Len(Flow) : Flow[i].write = w

StreamInv == TypeOK /\ Sourced /\ Ring /\ Connected /\ Ordered /\ OneRun

-----------------------------------------------------------------------------
\* The page will reload when its stream reopens.
WillReload ==
  \/ ~online \/ ~up
  \/ source = "open" /\ ~subscribed
  \/ source # "open" /\ streamLost

\* A write the page was not given is on its way: its handler is about to cast it,
\* a refetch is due or answered, an event is, or a reopening stream replays it.
OnItsWay(w) ==
  \/ w \in unsent \/ WillReload \/ due > 0
  \/ \E i \in 1 .. Len(replies) : w \in replies[i]
  \/ source = "open" /\ Flow # <<>>
  \/ source = "connecting" /\ restarts = 0 /\ w \notin told

Hearing ==
  /\ heard \cap LiveWrites \subseteq shown
  /\ source = "closed" \/ (resumes = 0 /\ source = "connecting") => streamLost
  /\ ~BlindSpot => \A w \in saved \ heard : OnItsWay(w)

PageInv == StreamInv /\ Hearing

-----------------------------------------------------------------------------
\* What the operators on the stream do.

LEMMA FlowIs ==
  ASSUME pipe \in Seq(Entry), chan \in Seq(Entry)
  PROVE  /\ Flow \in Seq(Entry) /\ Len(Flow) = Len(pipe) + Len(chan)
         /\ \A i \in 1 .. Len(pipe) : Flow[i] = pipe[i]
         /\ \A i \in 1 .. Len(chan) : Flow[Len(pipe) + i] = chan[i]
         /\ (Flow = <<>>) <=> (pipe = <<>> /\ chan = <<>>)
  BY DEF Flow

\* The first frame on its way is taken.
LEMMA FlowTaken ==
  ASSUME pipe \in Seq(Entry), chan \in Seq(Entry), pipe # <<>>, pipe' = Tail(pipe), chan' = chan
  PROVE  /\ Flow # <<>> /\ Flow[1] = Head(pipe)
         /\ Len(Flow') = Len(Flow) - 1
         /\ \A i \in 1 .. Len(Flow') : Flow'[i] = Flow[i + 1]
  BY DEF Flow

\* An entry goes from the channel to the connection.
LEMMA FlowStreams ==
  ASSUME pipe \in Seq(Entry), chan \in Seq(Entry), chan # <<>>,
         pipe' = Append(pipe, Head(chan)), chan' = Tail(chan)
  PROVE  /\ Len(Flow') = Len(Flow)
         /\ \A i \in 1 .. Len(Flow) : Flow'[i] = Flow[i]
  BY DEF Flow

\* An entry joins the channel.
LEMMA FlowGrows ==
  ASSUME pipe \in Seq(Entry), chan \in Seq(Entry), NEW e \in Entry,
         pipe' = pipe, chan' = Append(chan, e)
  PROVE  /\ Len(Flow') = Len(Flow) + 1 /\ Flow'[Len(Flow) + 1] = e
         /\ \A i \in 1 .. Len(Flow) : Flow'[i] = Flow[i]
  BY DEF Flow

\* Slots of numbers less than a ring apart differ.
LEMMA SlotsDiffer ==
  ASSUME NEW n \in Nat \ {0}, NEW a \in Nat, NEW b \in Nat, a < b, b < a + n
  PROVE  a % n # b % n /\ a % n \in 0 .. n - 1 /\ b % n \in 0 .. n - 1
<1> DEFINE p == a \div n
           q == b \div n
<1>1. p \in Int /\ a % n \in 0 .. n - 1 /\ q \in Int /\ b % n \in 0 .. n - 1
  OBVIOUS
<1>3. a % n = a - n * p
  OBVIOUS
<1>4. b % n = b - n * q
  OBVIOUS
<1> HIDE DEF p, q
<1>2. ASSUME a % n = b % n PROVE FALSE
  <2>1. b - a = n * (q - p)
    BY <1>1, <1>2, <1>3, <1>4
  <2>2. q - p >= 1 => n * (q - p) >= n
    BY <1>1
  <2>3. q - p <= 0 => n * (q - p) <= 0
    BY <1>1
  <2> QED BY <1>1, <2>1, <2>2, <2>3
<1> QED BY <1>1, <1>2

\* One of several answers goes.
LEMMA AnswerGoes ==
  ASSUME NEW s \in Seq(SUBSET Writes), NEW i \in 1 .. Len(s)
  PROVE  /\ RemoveAt(s, i) \in Seq(SUBSET Writes) /\ Len(RemoveAt(s, i)) = Len(s) - 1
         /\ \A j \in 1 .. Len(s) - 1 : \E k \in 1 .. Len(s) : RemoveAt(s, i)[j] = s[k]
         /\ \A k \in 1 .. Len(s) : k # i => \E j \in 1 .. Len(s) - 1 : RemoveAt(s, i)[j] = s[k]
<1> DEFINE a == SubSeq(s, 1, i - 1)
           b == SubSeq(s, i + 1, Len(s))
           c == a \o b
<1>1. a \in Seq(SUBSET Writes) /\ Len(a) = i - 1 /\ \A k \in 1 .. i - 1 : a[k] = s[k]
  <2>1. \A k \in 1 .. i - 1 : s[k] \in SUBSET Writes
    OBVIOUS
  <2> QED BY <2>1, SubSeqProperties
<1>2. b \in Seq(SUBSET Writes) /\ Len(b) = Len(s) - i /\ \A k \in 1 .. Len(s) - i : b[k] = s[i + k]
  <2>1. \A k \in i + 1 .. Len(s) : s[k] \in SUBSET Writes
    OBVIOUS
  <2> QED BY <2>1, SubSeqProperties
<1>3. RemoveAt(s, i) = c
  BY DEF RemoveAt
<1> HIDE DEF a, b
<1>4. /\ c \in Seq(SUBSET Writes) /\ Len(c) = Len(a) + Len(b)
      /\ \A k \in 1 .. Len(a) + Len(b) : c[k] = IF k <= Len(a) THEN a[k] ELSE b[k - Len(a)]
  BY <1>1, <1>2, ConcatProperties
<1> HIDE DEF c
<1>8. \A k \in 1 .. Len(s) - 1 : c[k] = IF k <= i - 1 THEN a[k] ELSE b[k - (i - 1)]
  <2>1. Len(a) + Len(b) = Len(s) - 1
    BY <1>1, <1>2
  <2> QED BY <1>1, <1>4, <2>1
<1>5. ASSUME NEW j \in 1 .. Len(s) - 1 PROVE c[j] = IF j < i THEN s[j] ELSE s[j + 1]
  <2>1. CASE j < i
    BY <1>1, <1>8, <2>1
  <2>2. CASE j >= i
    <3>1. c[j] = b[j - (i - 1)]
      BY <1>8, <2>2
    <3>2. j - (i - 1) \in 1 .. Len(s) - i
      BY <2>2
    <3>3. b[j - (i - 1)] = s[i + (j - (i - 1))]
      BY <1>2, <3>2
    <3>4. i + (j - (i - 1)) = j + 1
      OBVIOUS
    <3> QED BY <2>2, <3>1, <3>3, <3>4
  <2> QED BY <2>1, <2>2
<1>6. \A j \in 1 .. Len(s) - 1 : \E k \in 1 .. Len(s) : c[j] = s[k]
  BY <1>5
<1>7. ASSUME NEW k \in 1 .. Len(s), k # i PROVE \E j \in 1 .. Len(s) - 1 : c[j] = s[k]
  <2>1. CASE k < i
    <3>1. k \in 1 .. Len(s) - 1
      BY <2>1
    <3> QED BY <1>5, <2>1, <3>1
  <2>2. CASE k > i
    <3>1. k - 1 \in 1 .. Len(s) - 1 /\ ~(k - 1 < i) /\ (k - 1) + 1 = k
      BY <2>2
    <3> QED BY <1>5, <3>1
  <2> QED BY <1>7, <2>1, <2>2
<1> QED BY <1>1, <1>2, <1>3, <1>4, <1>6, <1>7

\* What is replayed are the events after the one the page names.
LEMMA RetainedIs ==
  ASSUME TypeOK, Ring, NEW since \in Nat, Complete(since), since <= seq
  PROVE  /\ Retained(since) \in Seq(Entry) /\ Len(Retained(since)) = seq - since
         /\ \A i \in 1 .. seq - since : Retained(since)[i] = Slot(since + i)
         /\ \A k \in since + 1 .. seq : k \in OldestRetained .. seq
  BY HubAssumption DEF TypeOK, Ring, Retained, OldestRetained, Complete, Slot

-----------------------------------------------------------------------------
\* Which steps move what.

Moving ==
  \/ \E w \in Writes : Broadcast(w)
  \/ Accept \/ Stream \/ Stop \/ ReceiveResync \/ Receive
  \/ Error \/ Break \/ GoOnline \/ Resume

LEMMA Frames ==
  ASSUME Next
  PROVE /\ UNCHANGED hub \/ (\E w \in Writes : Broadcast(w)) \/ Stop
        /\ UNCHANGED <<unsent, saved, cast>> \/ (\E w \in Writes : Save(w) \/ Broadcast(w)) \/ Stop
        /\ UNCHANGED cast \/ \E w \in Writes : Broadcast(w)
        /\ UNCHANGED <<lastEventId, lastSeq>> \/ ReceiveResync \/ Receive
        /\ UNCHANGED told \/ Accept \/ ReceiveResync \/ Receive
        /\ UNCHANGED <<shown, heard>> \/ Receive \/ \E i \in 1 .. Len(replies) : Land(i)
        /\ UNCHANGED replies \/ Fetch \/ FetchFails \/ \E i \in 1 .. Len(replies) : Land(i)
        /\ UNCHANGED <<up, restarts>> \/ (Start /\ UNCHANGED restarts) \/ Stop
        /\ UNCHANGED <<pipe, chan, subscribed>> \/ Moving
<1> USE DEF Next, Server, Connection, Data, hub, conn, page, bounds
<1>1. UNCHANGED hub \/ (\E w \in Writes : Broadcast(w)) \/ Stop
  BY DEF Save, Accept, Stream, HandlerReturns, ReleaseStale, Start, Open, Error, Break,
         Retry, GoOffline, GoOnline, Resume, ReceiveResync, Receive, Fetch, FetchFails, Land
<1>2. UNCHANGED <<unsent, saved, cast>> \/ (\E w \in Writes : Save(w) \/ Broadcast(w)) \/ Stop
  BY DEF Accept, Stream, HandlerReturns, ReleaseStale, Start, Open, Error, Break, Retry,
         GoOffline, GoOnline, Resume, ReceiveResync, Receive, Fetch, FetchFails, Land
<1>3. UNCHANGED cast \/ \E w \in Writes : Broadcast(w)
  BY DEF Save, Accept, Stream, HandlerReturns, ReleaseStale, Stop, Start, Open, Error,
         Break, Retry, GoOffline, GoOnline, Resume, ReceiveResync, Receive, Fetch,
         FetchFails, Land
<1>4. UNCHANGED <<lastEventId, lastSeq>> \/ ReceiveResync \/ Receive
  BY DEF Save, Broadcast, Accept, Stream, HandlerReturns, ReleaseStale, Stop, Start, Open,
         Error, Break, Retry, GoOffline, GoOnline, Resume, Fetch, FetchFails, Land
<1>5. UNCHANGED told \/ Accept \/ ReceiveResync \/ Receive
  BY DEF Save, Broadcast, Stream, HandlerReturns, ReleaseStale, Stop, Start, Open, Error,
         Break, Retry, GoOffline, GoOnline, Resume, Fetch, FetchFails, Land
<1>6. UNCHANGED <<shown, heard>> \/ Receive \/ \E i \in 1 .. Len(replies) : Land(i)
  BY DEF Save, Broadcast, Accept, Stream, HandlerReturns, ReleaseStale, Stop, Start, Open,
         Error, Break, Retry, GoOffline, GoOnline, Resume, ReceiveResync, Fetch, FetchFails
<1>7. UNCHANGED replies \/ Fetch \/ FetchFails \/ \E i \in 1 .. Len(replies) : Land(i)
  BY DEF Save, Broadcast, Accept, Stream, HandlerReturns, ReleaseStale, Stop, Start, Open,
         Error, Break, Retry, GoOffline, GoOnline, Resume, ReceiveResync, Receive
<1>8. UNCHANGED <<up, restarts>> \/ (Start /\ UNCHANGED restarts) \/ Stop
  BY DEF Save, Broadcast, Accept, Stream, HandlerReturns, ReleaseStale, Start, Open, Error,
         Break, Retry, GoOffline, GoOnline, Resume, ReceiveResync, Receive, Fetch,
         FetchFails, Land
<1>9. UNCHANGED <<pipe, chan, subscribed>> \/ Moving
  BY DEF Moving, Save, HandlerReturns, ReleaseStale, Start, Open, Retry, GoOffline, Fetch,
         FetchFails, Land
<1> QED BY <1>1, <1>2, <1>3, <1>4, <1>5, <1>6, <1>7, <1>8, <1>9

-----------------------------------------------------------------------------
\* Types, part by part, and sources.

Flags ==
  /\ up \in BOOLEAN /\ online \in BOOLEAN /\ serving \in BOOLEAN
  /\ subscribed \in BOOLEAN /\ streamLost \in BOOLEAN
  /\ source \in {"closed", "connecting", "open"}

Stored ==
  /\ saved \subseteq Writes /\ unsent \subseteq saved /\ cast \subseteq saved
  /\ told \subseteq cast /\ shown \subseteq saved /\ heard \subseteq saved

Numbered == seq \in Nat /\ history \in [0 .. HistorySize - 1 -> Entry]
Carried == pipe \in Seq(Entry) /\ chan \in Seq(Entry) /\ Len(chan) <= Buffer
Held == stale \in Nat /\ Registered <= MaxClients
Fetched ==
  /\ lastEventId \in Nat /\ lastSeq \in Nat /\ due \in Nat
  /\ replies \in Seq(SUBSET Writes) /\ Len(replies) <= MaxFetches

LEMMA TypeParts ==
  /\ TypeOK <=> Flags /\ Stored /\ Numbered /\ Carried /\ Held /\ Fetched
  /\ TypeOK' <=> Flags' /\ Stored' /\ Numbered' /\ Carried' /\ Held' /\ Fetched'
  BY DEF TypeOK, Flags, Stored, Numbered, Carried, Held, Fetched, Registered

LEMMA InitTyped == Init => TypeOK /\ Sourced /\ Ring /\ Connected
<1> SUFFICES ASSUME Init PROVE TypeOK /\ Sourced /\ Ring /\ Connected
  OBVIOUS
<1> USE WritesAssumption, HubAssumption, BoundsAssumption DEF Init
<1>1. history \in [0 .. HistorySize - 1 -> Entry] /\ history[0] = [seq |-> 1, write |-> First]
      /\ \A i \in 0 .. HistorySize - 1 : i # 0 => history[i].write = NoWrite
  BY DEF EmptyRing, Entry
<1>2. TypeOK
  BY <1>1 DEF TypeOK
<1>3. Sourced
  BY <1>1 DEF Sourced
<1>4. OldestRetained = 1 /\ 0 % HistorySize = 0
  BY DEF OldestRetained
<1>5. Ring
  BY <1>1, <1>4 DEF Ring, Slot
<1>6. Connected
  BY DEF Connected
<1> QED BY <1>2, <1>3, <1>5, <1>6

\* The frame of an event just stamped.
LEMMA Stamped ==
  ASSUME TypeOK, NEW w \in Writes, Broadcast(w)
  PROVE  \E e \in Entry :
           /\ e.seq = seq + 1 /\ e.write = w /\ seq' = seq + 1
           /\ w \in unsent /\ w \in saved /\ unsent' = unsent \ {w} /\ cast' = cast \cup {w}
           /\ history' = [history EXCEPT ![seq % HistorySize] = e]
           /\ seq % HistorySize \in 0 .. HistorySize - 1
           /\ pipe' = pipe /\ saved' = saved
           /\ \/ subscribed /\ subscribed' = subscribed /\ Len(chan) < Buffer /\ chan' = Append(chan, e)
              \/ subscribed' = FALSE /\ chan' = chan
<1> DEFINE e == [seq |-> seq + 1, write |-> w]
<1>1. e \in Entry /\ e.seq = seq + 1 /\ e.write = w
  BY DEF Entry, TypeOK
<1>2. seq % HistorySize \in 0 .. HistorySize - 1
  BY HubAssumption DEF TypeOK
<1>3. /\ w \in unsent /\ unsent' = unsent \ {w} /\ cast' = cast \cup {w} /\ seq' = seq + 1
      /\ history' = [history EXCEPT ![seq % HistorySize] = e] /\ pipe' = pipe /\ saved' = saved
      /\ \/ subscribed /\ subscribed' = subscribed /\ Len(chan) < Buffer /\ chan' = Append(chan, e)
         \/ subscribed' = FALSE /\ chan' = chan
  BY DEF Broadcast
<1>4. w \in saved
  BY <1>3 DEF TypeOK
<1> HIDE DEF e
<1> QED BY <1>1, <1>2, <1>3, <1>4

\* What a stream opens with.
LEMMA OpeningTyped ==
  ASSUME TypeOK, Sourced
  PROVE  /\ Opening(lastEventId) \in Seq(Entry)
         /\ \A i \in 1 .. Len(Opening(lastEventId)) :
              Opening(lastEventId)[i].write \in cast \cup {NoWrite}
<1>1. CASE Opening(lastEventId) = <<>>
  BY <1>1
<1>2. CASE Opening(lastEventId) = <<[seq |-> seq, write |-> NoWrite]>>
  <2>1. [seq |-> seq, write |-> NoWrite] \in Entry
    BY DEF TypeOK, Entry
  <2> QED BY <1>2, <2>1
<1>3. CASE Opening(lastEventId) = Retained(lastEventId)
  <2> DEFINE first == IF lastEventId + 1 < OldestRetained THEN OldestRetained ELSE lastEventId + 1
             n == IF seq - first + 1 >= 0 THEN seq - first + 1 ELSE 0
             F(i) == history[(first + i - 2) % HistorySize]
  <2>1. first \in Nat /\ first >= 1
    BY HubAssumption DEF TypeOK, OldestRetained
  <2>2. Retained(lastEventId) = [i \in 1 .. seq - first + 1 |-> F(i)]
    BY DEF Retained
  <2> HIDE DEF first
  <2>3. n \in Nat /\ 1 .. seq - first + 1 = 1 .. n
    BY <2>1 DEF TypeOK
  <2> HIDE DEF n
  <2>4. \A i \in 1 .. n : F(i) \in Entry /\ F(i).write \in cast \cup {NoWrite}
    BY <2>1, <2>3, HubAssumption DEF TypeOK, Sourced
  <2> HIDE DEF F
  <2>5. Retained(lastEventId) = [i \in 1 .. n |-> F(i)]
    BY <2>2, <2>3
  <2>6. Retained(lastEventId) \in [1 .. n -> Entry]
    BY <2>4, <2>5
  <2>7. Retained(lastEventId) \in Seq(Entry)
    BY <2>3, <2>6, SeqDef
  <2>8. Len(Retained(lastEventId)) = n
    BY <2>3, <2>6
  <2> QED BY <1>3, <2>4, <2>5, <2>7, <2>8
<1> QED BY <1>1, <1>2, <1>3 DEF Opening

LEMMA TypedStep ==
  ASSUME TypeOK, Sourced, Next PROVE TypeOK'
<1> USE WritesAssumption, HubAssumption, BoundsAssumption
<1>0. Flags /\ Stored /\ Numbered /\ Carried /\ Held /\ Fetched
  BY TypeParts
<1>1. Flags'
  BY ZenonT(40), <1>0 DEF Flags, Next, Server, Connection, Data, conn, Drop, Save, Broadcast, Accept, Stream,
         HandlerReturns, ReleaseStale, Stop, Start, Open, Error, Break, Retry, GoOffline,
         GoOnline, Resume, ReceiveResync, Receive, Fetch, FetchFails, Land
<1>2. Numbered'
  <2>1. CASE UNCHANGED hub
    BY <1>0, <2>1 DEF Numbered, hub
  <2>2. ASSUME NEW w \in Writes, Broadcast(w) PROVE Numbered'
    <3>1. PICK e \in Entry : /\ seq' = seq + 1 /\ history' = [history EXCEPT ![seq % HistorySize] = e]
      BY <2>2, Stamped
    <3> QED BY <1>0, <3>1 DEF Numbered
  <2>3. CASE Stop
    BY <2>3 DEF Numbered, Stop, EmptyRing, Entry
  <2> QED BY <2>1, <2>2, <2>3, Frames
<1>3. Carried'
  <2>1. CASE UNCHANGED <<pipe, chan, subscribed>>
    BY <1>0, <2>1 DEF Carried
  <2>2. ASSUME NEW w \in Writes, Broadcast(w) PROVE Carried'
    <3>1. PICK e \in Entry : /\ pipe' = pipe
                             /\ chan' = chan \/ (Len(chan) < Buffer /\ chan' = Append(chan, e))
      BY <2>2, Stamped
    <3> QED BY <1>0, <3>1, AppendProperties DEF Carried
  <2>3. CASE Accept
    BY <2>3, OpeningTyped DEF Carried, Accept
  <2>4. CASE Stream
    <3>1. chan # <<>> /\ pipe' = Append(pipe, Head(chan)) /\ chan' = Tail(chan)
      BY <2>4 DEF Stream
    <3>2. Head(chan) \in Entry /\ Tail(chan) \in Seq(Entry) /\ Len(Tail(chan)) = Len(chan) - 1
      BY <1>0, <3>1, HeadTailProperties DEF Carried
    <3> QED BY <1>0, <3>1, <3>2, AppendProperties DEF Carried
  <2>5. CASE Stop
    BY <1>0, <2>5 DEF Carried, Stop
  <2>6. CASE ReceiveResync \/ Receive
    <3>1. pipe # <<>> /\ pipe' = Tail(pipe) /\ chan' = chan
      BY <2>6 DEF ReceiveResync, Receive
    <3> QED BY <1>0, <3>1, HeadTailProperties DEF Carried
  <2>7. CASE Error \/ Break \/ GoOnline \/ Resume
    <3>1. pipe' = <<>> /\ chan' = <<>>
      BY <2>7 DEF Error, Break, GoOnline, Resume, Drop
    <3> QED BY <3>1, EmptySeq DEF Carried
  <2> QED BY <2>1, <2>2, <2>3, <2>4, <2>5, <2>6, <2>7, Frames DEF Moving
<1>4. Held'
  <2>1. \/ UNCHANGED <<stale, subscribed>>
        \/ stale' = stale /\ subscribed' = FALSE
        \/ stale' = stale /\ Registered < MaxClients
        \/ stale > 0 /\ stale' = stale - 1 /\ subscribed' = subscribed
        \/ stale' = 0 /\ subscribed' = FALSE
        \/ stale' = (IF subscribed THEN stale + 1 ELSE stale) /\ subscribed' = FALSE
    BY DEF Next, Server, Connection, Data, conn, Drop, Save, Broadcast, Accept,
         Stream, HandlerReturns, ReleaseStale, Stop, Start, Open, Error, Break, Retry, GoOffline,
         GoOnline, Resume, ReceiveResync, Receive, Fetch, FetchFails, Land
  <2> QED BY <1>0, <2>1 DEF Held, Registered
<1>5. Stored'
  <2>1. unsent' \subseteq saved' /\ saved' \subseteq Writes /\ cast' \subseteq saved' /\ saved \subseteq saved'
        /\ cast \subseteq cast'
    <3>1. CASE UNCHANGED <<unsent, saved, cast>>
      BY <1>0, <3>1 DEF Stored
    <3>2. ASSUME NEW w \in Writes, Save(w) \/ Broadcast(w)
          PROVE  unsent' \subseteq saved' /\ saved' \subseteq Writes /\ cast' \subseteq saved' /\ saved \subseteq saved'
                 /\ cast \subseteq cast'
      BY <1>0, <3>2 DEF Stored, Save, Broadcast
    <3>3. CASE Stop
      BY <1>0, <3>3 DEF Stored, Stop
    <3> QED BY <3>1, <3>2, <3>3, Frames
  <2>2. told' \subseteq cast'
    <3>1. CASE UNCHANGED told
      BY <1>0, <2>1, <3>1 DEF Stored
    <3>2. CASE Accept \/ ReceiveResync
      BY <1>0, <2>1, <3>2 DEF Stored, Accept, ReceiveResync
    <3>3. CASE Receive
      <4>1. told' = told \cup {Head(pipe).write} /\ pipe # <<>> /\ Head(pipe).write # NoWrite
        BY <3>3 DEF Receive
      <4>2. Head(pipe) = pipe[1] /\ Len(pipe) >= 1
        BY <1>0, <4>1 DEF Carried
      <4>3. pipe[1].write \in cast \cup {NoWrite}
        BY <1>0, <4>2 DEF Sourced, Carried
      <4> QED BY <1>0, <2>1, <4>1, <4>2, <4>3 DEF Stored
    <3> QED BY <3>1, <3>2, <3>3, Frames
  <2>3. shown' \subseteq saved' /\ heard' \subseteq saved'
    <3>1. CASE UNCHANGED <<shown, heard>>
      BY <1>0, <2>1, <3>1 DEF Stored
    <3>2. CASE Receive
      <4>1. /\ shown' = shown \/ shown' = shown \cup ({Head(pipe).write} \cap LiveWrites)
            /\ heard' = heard \/ heard' = heard \cup ({Head(pipe).write} \cap LiveWrites)
            /\ told' = told \cup {Head(pipe).write}
        BY <3>2 DEF Receive
      <4> QED BY <1>0, <2>1, <2>2, <4>1 DEF Stored
    <3>3. ASSUME NEW i \in 1 .. Len(replies), Land(i) PROVE shown' \subseteq saved' /\ heard' \subseteq saved'
      <4>1. shown' = replies[i] \cup (shown \cap LiveWrites) /\ heard' = heard \cup replies[i]
        BY <3>3 DEF Land
      <4>2. replies[i] \subseteq saved
        BY DEF Sourced
      <4> QED BY <1>0, <2>1, <4>1, <4>2 DEF Stored
    <3> QED BY <3>1, <3>2, <3>3, Frames
  <2> QED BY <2>1, <2>2, <2>3 DEF Stored
<1>6. Fetched'
  <2>1. due' \in Nat
    <3>1. due' = due \/ due' = due + 1 \/ due' = due + 2 \/ (due > 0 /\ due' = due - 1)
      BY DEF Next, Server, Connection, Data, page, Save, Broadcast, Accept,
         Stream, HandlerReturns, ReleaseStale, Stop, Start, Open, Error, Break, Retry, GoOffline,
         GoOnline, Resume, ReceiveResync, Receive, Fetch, FetchFails, Land
    <3> QED BY <1>0, <3>1 DEF Fetched
  <2>2. lastEventId' \in Nat /\ lastSeq' \in Nat
    <3>1. CASE UNCHANGED <<lastEventId, lastSeq>>
      BY <1>0, <3>1 DEF Fetched
    <3>2. CASE ReceiveResync \/ Receive
      <4>1. /\ pipe # <<>> /\ lastEventId' = Head(pipe).seq
            /\ lastSeq' = Head(pipe).seq \/ lastSeq' = lastSeq
        BY <3>2 DEF ReceiveResync, Receive
      <4>2. Head(pipe) \in Entry
        BY <1>0, <4>1, HeadTailProperties DEF Carried
      <4>3. Head(pipe).seq \in Nat
        BY <4>2 DEF Entry
      <4> QED BY <1>0, <4>1, <4>3 DEF Fetched
    <3> QED BY <3>1, <3>2, Frames
  <2>3. replies' \in Seq(SUBSET Writes) /\ Len(replies') <= MaxFetches
    <3>1. CASE UNCHANGED replies
      BY <1>0, <3>1 DEF Fetched
    <3>2. CASE Fetch
      <4>1. replies' = Append(replies, saved) /\ Len(replies) < MaxFetches /\ saved \in SUBSET Writes
        BY <1>0, <3>2 DEF Fetch, Stored
      <4> QED BY <1>0, <4>1, AppendProperties DEF Fetched
    <3>3. ASSUME NEW i \in 1 .. Len(replies), replies' = RemoveAt(replies, i)
          PROVE  replies' \in Seq(SUBSET Writes) /\ Len(replies') <= MaxFetches
      <4>1. replies \in Seq(SUBSET Writes) /\ Len(replies) \in Nat /\ Len(replies) <= MaxFetches
        BY <1>0 DEF Fetched
      <4>2. RemoveAt(replies, i) \in Seq(SUBSET Writes) /\ Len(RemoveAt(replies, i)) = Len(replies) - 1
        BY <4>1, AnswerGoes
      <4> QED BY <3>3, <4>1, <4>2
    <3>4. CASE FetchFails \/ \E i \in 1 .. Len(replies) : Land(i)
      <4>1. replies' = replies \/ \E i \in 1 .. Len(replies) : replies' = RemoveAt(replies, i)
        BY <3>4 DEF FetchFails, Land
      <4> QED BY <3>1, <3>3, <4>1
    <3> QED BY <3>1, <3>2, <3>4, Frames
  <2> QED BY <2>1, <2>2, <2>3 DEF Fetched
<1> QED BY <1>1, <1>2, <1>3, <1>4, <1>5, <1>6, TypeParts

LEMMA SourcedStep ==
  ASSUME TypeOK, Sourced, Next PROVE Sourced'
<1> USE WritesAssumption, HubAssumption, BoundsAssumption
<1>0. /\ pipe \in Seq(Entry) /\ chan \in Seq(Entry) /\ replies \in Seq(SUBSET Writes)
      /\ history \in [0 .. HistorySize - 1 -> Entry]
  BY DEF TypeOK
<1>1. cast \subseteq cast' /\ saved \subseteq saved' /\ cast' \cap unsent' = {}
  <2>1. CASE UNCHANGED <<unsent, saved, cast>>
    BY <2>1 DEF Sourced
  <2>2. ASSUME NEW w \in Writes, Save(w) \/ Broadcast(w)
        PROVE  cast \subseteq cast' /\ saved \subseteq saved' /\ cast' \cap unsent' = {}
    BY <2>2 DEF TypeOK, Sourced, Save, Broadcast
  <2>3. CASE Stop
    BY <2>3 DEF Sourced, Stop
  <2> QED BY <2>1, <2>2, <2>3, Frames
<1>2. restarts' \in Nat /\ resumes' \in Nat
  <2>1. (restarts' = restarts \/ restarts' = restarts + 1) /\ (resumes' = resumes \/ resumes' = resumes + 1)
    BY DEF Next, Server, Connection, Data, bounds, Save, Broadcast, Accept,
         Stream, HandlerReturns, ReleaseStale, Stop, Start, Open, Error, Break, Retry, GoOffline,
         GoOnline, Resume, ReceiveResync, Receive, Fetch, FetchFails, Land
  <2> QED BY <2>1 DEF Sourced
<1>3. \A i \in 0 .. HistorySize - 1 : history'[i].write \in cast' \cup {NoWrite}
  <2>1. CASE UNCHANGED hub
    BY <1>1, <2>1 DEF Sourced, hub
  <2>2. ASSUME NEW w \in Writes, Broadcast(w)
        PROVE  \A i \in 0 .. HistorySize - 1 : history'[i].write \in cast' \cup {NoWrite}
    <3>1. PICK e \in Entry : /\ e.write = w /\ cast' = cast \cup {w}
                             /\ history' = [history EXCEPT ![seq % HistorySize] = e]
      BY <2>2, Stamped
    <3>2. \A i \in 0 .. HistorySize - 1 : history'[i] = e \/ history'[i] = history[i]
      BY <1>0, <3>1
    <3> QED BY <3>1, <3>2 DEF Sourced
  <2>3. CASE Stop
    BY <2>3 DEF Stop, EmptyRing
  <2> QED BY <2>1, <2>2, <2>3, Frames
<1>4. \A i \in 1 .. Len(replies') : replies'[i] \subseteq saved'
  <2>0. \A i \in 1 .. Len(replies) : replies[i] \subseteq saved
    BY DEF Sourced
  <2>1. CASE UNCHANGED replies
    BY <1>1, <2>0, <2>1
  <2>2. CASE Fetch
    <3>1. replies' = Append(replies, saved) /\ saved \in SUBSET Writes
      BY <2>2 DEF Fetch, TypeOK
    <3>2. \A i \in 1 .. Len(replies') : replies'[i] = saved \/ (i \in 1 .. Len(replies) /\ replies'[i] = replies[i])
      BY <1>0, <3>1, AppendProperties
    <3> QED BY <1>1, <2>0, <3>2
  <2>3. ASSUME NEW i \in 1 .. Len(replies), replies' = RemoveAt(replies, i)
        PROVE  \A j \in 1 .. Len(replies') : replies'[j] \subseteq saved'
    <3>1. /\ Len(RemoveAt(replies, i)) = Len(replies) - 1
          /\ \A j \in 1 .. Len(replies) - 1 : \E k \in 1 .. Len(replies) : RemoveAt(replies, i)[j] = replies[k]
      BY <1>0, AnswerGoes
    <3> QED BY <1>1, <2>0, <2>3, <3>1
  <2>4. CASE FetchFails \/ \E i \in 1 .. Len(replies) : Land(i)
    <3>1. replies' = replies \/ \E i \in 1 .. Len(replies) : replies' = RemoveAt(replies, i)
      BY <2>4 DEF FetchFails, Land
    <3> QED BY <2>1, <2>3, <3>1
  <2> QED BY <2>1, <2>2, <2>4, Frames
<1>5. /\ \A i \in 1 .. Len(pipe') : pipe'[i].write \in cast' \cup {NoWrite}
      /\ \A i \in 1 .. Len(chan') : chan'[i].write \in cast'
  <2>0. /\ \A i \in 1 .. Len(pipe) : pipe[i].write \in cast' \cup {NoWrite}
        /\ \A i \in 1 .. Len(chan) : chan[i].write \in cast'
    BY <1>1 DEF Sourced
  <2>1. CASE UNCHANGED <<pipe, chan, subscribed>>
    BY <2>0, <2>1
  <2>2. ASSUME NEW w \in Writes, Broadcast(w) 
        PROVE  /\ \A i \in 1 .. Len(pipe') : pipe'[i].write \in cast' \cup {NoWrite}
               /\ \A i \in 1 .. Len(chan') : chan'[i].write \in cast'
    <3>1. PICK e \in Entry : /\ e.write = w /\ cast' = cast \cup {w} /\ pipe' = pipe
                             /\ chan' = chan \/ chan' = Append(chan, e)
      BY <2>2, Stamped
    <3>2. CASE chan' = Append(chan, e)
      <4>1. \A i \in 1 .. Len(chan') : chan'[i] = e \/ (i \in 1 .. Len(chan) /\ chan'[i] = chan[i])
        BY <1>0, <3>2, AppendProperties
      <4> QED BY <2>0, <3>1, <4>1
    <3> QED BY <2>0, <3>1, <3>2
  <2>3. CASE Accept
    <3>1. pipe' = Opening(lastEventId) /\ chan' = <<>>
      BY <2>3 DEF Accept
    <3> QED BY <1>1, <3>1, OpeningTyped
  <2>4. CASE Stream
    <3>1. chan # <<>> /\ pipe' = Append(pipe, Head(chan)) /\ chan' = Tail(chan)
      BY <2>4 DEF Stream
    <3>2. Head(chan) = chan[1] /\ Head(chan) \in Entry /\ Len(chan) >= 1
      BY <1>0, <3>1
    <3>3. \A i \in 1 .. Len(pipe') : pipe'[i] = chan[1] \/ (i \in 1 .. Len(pipe) /\ pipe'[i] = pipe[i])
      BY <1>0, <3>1, <3>2, AppendProperties
    <3>4. \A i \in 1 .. Len(chan') : i + 1 \in 1 .. Len(chan) /\ chan'[i] = chan[i + 1]
      BY <1>0, <3>1
    <3> QED BY <2>0, <3>2, <3>3, <3>4
  <2>5. CASE Stop
    BY <2>0, <2>5 DEF Stop
  <2>6. CASE ReceiveResync \/ Receive
    <3>1. pipe # <<>> /\ pipe' = Tail(pipe) /\ chan' = chan
      BY <2>6 DEF ReceiveResync, Receive
    <3>2. \A i \in 1 .. Len(pipe') : i + 1 \in 1 .. Len(pipe) /\ pipe'[i] = pipe[i + 1]
      BY <1>0, <3>1
    <3> QED BY <2>0, <3>1, <3>2
  <2>7. CASE Error \/ Break \/ GoOnline \/ Resume
    <3>1. pipe' = <<>> /\ chan' = <<>>
      BY <2>7 DEF Error, Break, GoOnline, Resume, Drop
    <3> QED BY <3>1
  <2> QED BY <2>1, <2>2, <2>3, <2>4, <2>5, <2>6, <2>7, Frames DEF Moving
<1> QED BY <1>1, <1>2, <1>3, <1>4, <1>5 DEF Sourced

-----------------------------------------------------------------------------
\* The connection and the ring.

LEMMA ConnectedStep ==
  ASSUME TypeOK, Sourced, Connected, Next PROVE Connected'
<1>1. restarts' \in Nat /\ restarts \in Nat
  BY SourcedStep DEF Sourced
<1>2. subscribed' => serving'
  BY DEF Connected, Next, Server, Connection, Data, conn, Drop, Save, Broadcast, Accept,
         Stream, HandlerReturns, ReleaseStale, Stop, Start, Open, Error, Break, Retry, GoOffline,
         GoOnline, Resume, ReceiveResync, Receive, Fetch, FetchFails, Land
<1>6. serving' => up'
  BY DEF Connected, Next, Server, Connection, Data, conn, Drop, Save, Broadcast, Accept,
         Stream, HandlerReturns, ReleaseStale, Stop, Start, Open, Error, Break, Retry, GoOffline,
         GoOnline, Resume, ReceiveResync, Receive, Fetch, FetchFails, Land
<1>7. serving' => source' # "closed"
  BY DEF Connected, Next, Server, Connection, Data, conn, Drop, Save, Broadcast, Accept,
         Stream, HandlerReturns, ReleaseStale, Stop, Start, Open, Error, Break, Retry, GoOffline,
         GoOnline, Resume, ReceiveResync, Receive, Fetch, FetchFails, Land
<1>3. ~up' => restarts' > 0
  <2>1. (up' = up /\ restarts' = restarts) \/ up' = TRUE \/ restarts' = restarts + 1
    BY Frames DEF Stop, Start
  <2> QED BY <1>1, <2>1 DEF Connected
<1>4. chan' # <<>> => serving'
  BY DEF Connected, Next, Server, Connection, Data, conn, Drop, Save, Broadcast, Accept,
         Stream, HandlerReturns, ReleaseStale, Stop, Start, Open, Error, Break, Retry, GoOffline,
         GoOnline, Resume, ReceiveResync, Receive, Fetch, FetchFails, Land
<1>5. source' = "closed" => pipe' = <<>>
  BY DEF Connected, Next, Server, Connection, Data, conn, Drop, Save, Broadcast, Accept,
         Stream, HandlerReturns, ReleaseStale, Stop, Start, Open, Error, Break, Retry, GoOffline,
         GoOnline, Resume, ReceiveResync, Receive, Fetch, FetchFails, Land
<1> QED BY <1>2, <1>3, <1>4, <1>5, <1>6, <1>7 DEF Connected

\* A new event goes to the slot of none the ring keeps.
LEMMA BroadcastSlots ==
  ASSUME TypeOK, NEW w \in Writes, Broadcast(w), NEW k \in OldestRetained' .. seq'
  PROVE  \/ k = seq + 1 /\ Slot(k)'.seq = k /\ Slot(k)'.write = w
         \/ k \in OldestRetained .. seq /\ Slot(k)' = Slot(k)
<1> USE HubAssumption
<1>1. PICK e \in Entry :
         /\ e.seq = seq + 1 /\ e.write = w /\ seq' = seq + 1
         /\ history' = [history EXCEPT ![seq % HistorySize] = e]
  BY Stamped
<1>2. seq \in Nat /\ history \in [0 .. HistorySize - 1 -> Entry]
  BY DEF TypeOK
<1>3. CASE k = seq + 1
  <2>1. (k - 1) % HistorySize = seq % HistorySize /\ seq % HistorySize \in 0 .. HistorySize - 1
    BY <1>2, <1>3
  <2>2. history'[(k - 1) % HistorySize] = e
    BY <1>1, <1>2, <2>1
  <2> QED BY <1>1, <1>3, <2>2 DEF Slot
<1>4. CASE k # seq + 1
  <2>1. k \in OldestRetained .. seq /\ k - 1 \in Nat /\ k - 1 < seq /\ seq < (k - 1) + HistorySize
    BY <1>1, <1>2, <1>4 DEF OldestRetained
  <2>2. (k - 1) % HistorySize # seq % HistorySize /\ (k - 1) % HistorySize \in 0 .. HistorySize - 1
    BY <1>2, <2>1, SlotsDiffer
  <2>3. history'[(k - 1) % HistorySize] = history[(k - 1) % HistorySize]
    BY <1>1, <1>2, <2>2
  <2> QED BY <2>1, <2>3 DEF Slot
<1> QED BY <1>3, <1>4

\* The ring holds the last events.
LEMMA RingStep ==
  ASSUME TypeOK, Ring, Next PROVE Ring'
<1>1. CASE UNCHANGED hub
  <2>1. cast \subseteq cast'
    BY Frames DEF Broadcast
  <2> QED BY <1>1, <2>1 DEF Ring, Slot, OldestRetained, hub
<1>2. ASSUME NEW w \in Writes, Broadcast(w) PROVE Ring'
  <2>1. cast' = cast \cup {w}
    BY <1>2 DEF Broadcast
  <2>2. ASSUME NEW k \in OldestRetained' .. seq' PROVE Slot(k)'.seq = k /\ Slot(k)'.write \in cast'
    BY <1>2, <2>1, <2>2, BroadcastSlots DEF Ring
  <2> QED BY <2>2 DEF Ring
<1>3. CASE Stop
  <2>1. OldestRetained' = 1 /\ seq' = 0
    BY <1>3, HubAssumption DEF OldestRetained, Stop
  <2> QED BY <2>1 DEF Ring
<1> QED BY <1>1, <1>2, <1>3, Frames

-----------------------------------------------------------------------------
\* The order of the stream.

\* The frames on their way stay as they are, and so does what they are measured by.
Idle ==
  /\ UNCHANGED <<hub, cast, told, restarts, lastEventId, lastSeq, subscribed>>
  /\ UNCHANGED <<pipe, chan>> \/ Stream
  /\ serving' \/ source' = "open" => serving \/ source = "open"

LEMMA StreamFrames ==
  ASSUME Connected, Next
  PROVE  \/ Idle \/ Accept \/ Stop \/ ReceiveResync \/ Receive
         \/ Error \/ Break \/ GoOnline \/ Resume \/ \E w \in Writes : Broadcast(w)
<1>1. CASE Stream
  BY <1>1 DEF Idle, Stream, hub, page, bounds
<1>2. ASSUME NEW w \in Writes, Save(w) PROVE Idle
  BY <1>2 DEF Idle, Save, hub, conn, page, bounds
<1>3. CASE HandlerReturns \/ ReleaseStale \/ Start \/ Open \/ Retry \/ GoOffline \/ Fetch \/ FetchFails
  BY <1>3 DEF Idle, Connected, hub, conn, page, bounds,
       HandlerReturns, ReleaseStale, Start, Open, Retry, GoOffline, Fetch, FetchFails
<1>4. ASSUME NEW i \in 1 .. Len(replies), Land(i) PROVE Idle
  BY <1>4 DEF Idle, Land, hub, conn, page, bounds
<1> QED BY <1>1, <1>2, <1>3, <1>4 DEF Next, Server, Connection, Data

LEMMA IdleFlow ==
  ASSUME TypeOK, Idle
  PROVE  Len(Flow') = Len(Flow) /\ \A i \in 1 .. Len(Flow) : Flow'[i] = Flow[i]
<1>1. pipe \in Seq(Entry) /\ chan \in Seq(Entry)
  BY DEF TypeOK
<1>2. CASE UNCHANGED <<pipe, chan>>
  BY <1>2 DEF Flow
<1>3. CASE Stream
  <2>1. chan # <<>> /\ pipe' = Append(pipe, Head(chan)) /\ chan' = Tail(chan)
    BY <1>3 DEF Stream
  <2> QED BY <1>1, <2>1, FlowStreams
<1> QED BY <1>2, <1>3 DEF Idle

\* A stream that opens: nothing for a page that names no event, a resync, or
\* the events after the one it names.
LEMMA Opens ==
  ASSUME TypeOK, Sourced, Ring
  PROVE  \/ lastEventId = 0 /\ Opening(lastEventId) = <<>>
         \/ /\ lastEventId > 0 /\ Len(Opening(lastEventId)) = 1
            /\ Opening(lastEventId)[1].write = NoWrite /\ Opening(lastEventId)[1].seq = seq
         \/ /\ lastEventId \in 1 .. seq /\ Len(Opening(lastEventId)) = seq - lastEventId
            /\ \A i \in 1 .. seq - lastEventId :
                 /\ Opening(lastEventId)[i] = Slot(lastEventId + i)
                 /\ lastEventId + i \in OldestRetained .. seq
<1>1. lastEventId \in Nat /\ seq \in Nat
  BY DEF TypeOK
<1>2. CASE lastEventId = 0
  BY <1>2 DEF Opening
<1>3. CASE lastEventId > 0 /\ Complete(lastEventId) /\ lastEventId <= seq
  <2>1. Opening(lastEventId) = Retained(lastEventId)
    BY <1>1, <1>3 DEF Opening
  <2>2. /\ Len(Retained(lastEventId)) = seq - lastEventId
        /\ \A i \in 1 .. seq - lastEventId : Retained(lastEventId)[i] = Slot(lastEventId + i)
        /\ \A k \in lastEventId + 1 .. seq : k \in OldestRetained .. seq
    BY <1>1, <1>3, RetainedIs
  <2>3. \A i \in 1 .. seq - lastEventId : lastEventId + i \in lastEventId + 1 .. seq
    BY <1>1
  <2> QED BY <1>1, <1>3, <2>1, <2>2, <2>3
<1>4. CASE lastEventId > 0 /\ ~(Complete(lastEventId) /\ lastEventId <= seq)
  <2>1. Opening(lastEventId) = <<[seq |-> seq, write |-> NoWrite]>>
    BY <1>1, <1>4 DEF Opening
  <2> QED BY <1>4, <2>1
<1> QED BY <1>1, <1>2, <1>3, <1>4

\* A stream whose channel is empty.
LEMMA FlowIsPipe ==
  ASSUME pipe' \in Seq(Entry), chan' = <<>>
  PROVE  Flow' = pipe'
  BY ConcatEmptySeq DEF Flow

\* The frame a page takes.
LEMMA Takes ==
  ASSUME TypeOK, Sourced, Ordered, ReceiveResync \/ Receive
  PROVE  /\ pipe # <<>> /\ pipe' = Tail(pipe) /\ chan' = chan /\ source = "open"
         /\ Flow # <<>> /\ Len(Flow) \in Nat /\ Len(Flow) >= 1
         /\ Flow[1].seq \in Nat /\ Flow[1] = Head(pipe)
         /\ Len(Flow') = Len(Flow) - 1
         /\ \A i \in 1 .. Len(Flow') : Flow'[i] = Flow[i + 1] /\ i + 1 \in 1 .. Len(Flow)
         /\ lastEventId' = Flow[1].seq /\ lastSeq' = Flow[1].seq
         /\ UNCHANGED <<hub, subscribed, serving, source, saved, unsent, cast, restarts>>
         /\ \/ ReceiveResync /\ Flow[1].write = NoWrite /\ told' = cast
            \/ /\ Receive /\ Flow[1].write \in cast /\ told' = told \cup {Flow[1].write}
               /\ lastEventId > 0 => Flow[1].seq = lastEventId + 1
<1> USE WritesAssumption
<1>1. pipe # <<>> /\ pipe' = Tail(pipe) /\ chan' = chan /\ source = "open"
  BY DEF ReceiveResync, Receive
<1>2. pipe \in Seq(Entry) /\ chan \in Seq(Entry) /\ lastSeq \in Nat /\ lastEventId \in Nat
  BY DEF TypeOK
<1>3. /\ Flow # <<>> /\ Flow[1] = Head(pipe) /\ Len(Flow') = Len(Flow) - 1
      /\ \A i \in 1 .. Len(Flow') : Flow'[i] = Flow[i + 1]
  BY <1>1, <1>2, FlowTaken
<1>4. Flow \in Seq(Entry)
  BY <1>2, FlowIs
<1>5. Len(Flow) \in Nat /\ Len(Flow) >= 1 /\ Flow[1] \in Entry
  BY <1>3, <1>4
<1>6. Flow[1].seq \in Nat
  BY <1>5 DEF Entry
<1>7. \A i \in 1 .. Len(Flow') : i + 1 \in 1 .. Len(Flow)
  BY <1>3, <1>5
<1>8. UNCHANGED <<hub, subscribed, serving, source, saved, unsent, cast, restarts>>
  BY DEF ReceiveResync, Receive, bounds
<1>9. CASE ReceiveResync
  BY <1>1, <1>3, <1>5, <1>6, <1>7, <1>8, <1>9 DEF ReceiveResync
<1>10. CASE Receive
  <2>1. Head(pipe).write # NoWrite /\ lastEventId' = Head(pipe).seq /\ told' = told \cup {Head(pipe).write}
    BY <1>10 DEF Receive
  <2>2. Head(pipe) = pipe[1] /\ 1 \in 1 .. Len(pipe)
    BY <1>1, <1>2
  <2>3. Head(pipe).write \in cast
    BY <2>1, <2>2 DEF Sourced
  <2>4. lastEventId > 0 => Flow[1].seq = lastEventId + 1
    BY <1>1, <1>3, <2>1 DEF Ordered
  <2>5. lastSeq = lastEventId
    BY DEF Ordered
  <2>6. ~Duplicate(Head(pipe).seq)
    BY <1>2, <1>3, <2>4, <2>5 DEF Duplicate
  <2>7. lastSeq' = Head(pipe).seq
    BY <1>10, <2>6 DEF Receive
  <2> QED BY <1>1, <1>3, <1>5, <1>6, <1>7, <1>8, <1>10, <2>1, <2>3, <2>4, <2>7
<1> QED BY <1>9, <1>10

\* The flow is a sequence of frames, now and next.
LEMMA FlowTyped ==
  ASSUME TypeOK, TypeOK'
  PROVE  /\ Flow \in Seq(Entry) /\ Flow' \in Seq(Entry)
         /\ Len(Flow) \in Nat /\ Len(Flow') \in Nat
         /\ (Flow = <<>> <=> Len(Flow) = 0) /\ (Flow' = <<>> <=> Len(Flow') = 0)
         /\ \A i \in 1 .. Len(Flow) : Flow[i] \in Entry /\ Flow[i].seq \in Nat
<1>1. Flow \in Seq(Entry) /\ Flow' \in Seq(Entry)
  BY DEF TypeOK, Flow
<1>2. \A i \in 1 .. Len(Flow) : Flow[i] \in Entry
  BY <1>1
<1>3. \A i \in 1 .. Len(Flow) : Flow[i].seq \in Nat
  BY <1>2 DEF Entry
<1> QED BY <1>1, <1>2, <1>3

\* A broadcast leaves what is on its way and, if it reaches the page, ends it.
LEMMA BroadcastFlow ==
  ASSUME TypeOK, NEW w \in Writes, Broadcast(w)
  PROVE  \/ subscribed' = FALSE /\ Flow' = Flow
         \/ /\ subscribed /\ Len(Flow') = Len(Flow) + 1
            /\ Flow'[Len(Flow) + 1].seq = seq + 1 /\ Flow'[Len(Flow) + 1].write = w
            /\ \A i \in 1 .. Len(Flow) : Flow'[i] = Flow[i]
<1>1. PICK e \in Entry :
        /\ e.seq = seq + 1 /\ e.write = w /\ pipe' = pipe
        /\ \/ subscribed /\ subscribed' = subscribed /\ Len(chan) < Buffer /\ chan' = Append(chan, e)
           \/ subscribed' = FALSE /\ chan' = chan
  BY Stamped
<1>2. CASE chan' = chan /\ subscribed' = FALSE
  BY <1>1, <1>2 DEF Flow
<1>3. CASE subscribed /\ chan' = Append(chan, e)
  <2>1. pipe \in Seq(Entry) /\ chan \in Seq(Entry)
    BY DEF TypeOK
  <2> QED BY <1>1, <1>3, <2>1, FlowGrows
<1> QED BY <1>1, <1>2, <1>3

LEMMA OrderedStep ==
  ASSUME TypeOK, TypeOK', Sourced, Ring, Connected, Ordered, Next PROVE Ordered'
<1>0. /\ seq \in Nat /\ lastEventId \in Nat
      /\ Flow \in Seq(Entry) /\ Flow' \in Seq(Entry) /\ Len(Flow) \in Nat /\ Len(Flow') \in Nat
      /\ (Flow = <<>> <=> Len(Flow) = 0) /\ (Flow' = <<>> <=> Len(Flow') = 0)
      /\ \A i \in 1 .. Len(Flow) : Flow[i].seq \in Nat
  BY FlowTyped DEF TypeOK
<1>1. CASE Idle
  <2>1. Len(Flow') = Len(Flow) /\ \A i \in 1 .. Len(Flow) : Flow'[i] = Flow[i]
    BY <1>1, IdleFlow
  <2>2. /\ seq' = seq /\ lastEventId' = lastEventId /\ lastSeq' = lastSeq /\ subscribed' = subscribed
        /\ serving' \/ source' = "open" => serving \/ source = "open"
    BY <1>1 DEF Idle, hub
  <2> HIDE DEF Flow
  <2> QED BY <1>0, <2>1, <2>2 DEF Ordered
<1>2. ASSUME NEW w \in Writes, Broadcast(w) PROVE Ordered'
  <2>1. seq' = seq + 1 /\ UNCHANGED <<lastEventId, lastSeq, serving, source>>
    BY <1>2 DEF Broadcast, page
  <2>2. CASE subscribed' = FALSE /\ Flow' = Flow
    BY <2>1, <2>2 DEF Ordered
  <2>3. CASE /\ subscribed /\ Len(Flow') = Len(Flow) + 1
             /\ Flow'[Len(Flow) + 1].seq = seq + 1 /\ Flow'[Len(Flow) + 1].write = w
             /\ \A i \in 1 .. Len(Flow) : Flow'[i] = Flow[i]
    <3>1. \A i \in 1 .. Len(Flow') - 1 : Flow'[i + 1].seq = Flow'[i].seq + 1
      <4> TAKE i \in 1 .. Len(Flow') - 1
      <4>1. CASE i < Len(Flow)
        BY <1>0, <2>3, <4>1 DEF Ordered
      <4>2. CASE i = Len(Flow)
        BY <1>0, <2>3, <4>2 DEF Ordered
      <4> QED BY <1>0, <2>3, <4>1, <4>2
    <3>2. lastEventId > 0 => Flow'[1].seq = lastEventId + 1 \/ (Flow'[1] = Flow[1] /\ Flow # <<>>)
      <4>1. CASE Flow = <<>>
        <5>1. lastEventId > 0 => lastEventId = seq
          BY <2>3, <4>1 DEF Ordered
        <5>2. Flow'[1].seq = seq + 1
          BY <1>0, <2>3, <4>1
        <5> QED BY <5>1, <5>2
      <4>2. CASE Flow # <<>>
        <5>1. 1 \in 1 .. Len(Flow)
          BY <1>0, <4>2
        <5> QED BY <2>3, <4>2, <5>1
      <4> QED BY <4>1, <4>2
    <3>3. Flow'[Len(Flow')].seq = seq'
      BY <2>1, <2>3
    <3> QED BY <1>0, <2>1, <2>3, <3>1, <3>2, <3>3 DEF Ordered
  <2> QED BY <1>2, <2>2, <2>3, BroadcastFlow
<1>3. CASE Accept
  <2>1. /\ pipe' = Opening(lastEventId) /\ chan' = <<>>
        /\ UNCHANGED <<seq, lastEventId, lastSeq>>
    BY <1>3 DEF Accept, hub
  <2>2. Flow' = Opening(lastEventId)
    BY <2>1, FlowIsPipe DEF TypeOK
  <2>3. CASE lastEventId = 0 /\ Opening(lastEventId) = <<>>
    BY <1>0, <2>1, <2>2, <2>3 DEF Ordered
  <2>4. CASE /\ lastEventId > 0 /\ Len(Opening(lastEventId)) = 1
             /\ Opening(lastEventId)[1].write = NoWrite /\ Opening(lastEventId)[1].seq = seq
    BY <1>0, <2>1, <2>2, <2>4 DEF Ordered
  <2>5. CASE /\ lastEventId \in 1 .. seq /\ Len(Opening(lastEventId)) = seq - lastEventId
             /\ \A i \in 1 .. seq - lastEventId :
                  /\ Opening(lastEventId)[i] = Slot(lastEventId + i)
                  /\ lastEventId + i \in OldestRetained .. seq
    <3>1. \A i \in 1 .. Len(Flow') : Flow'[i].seq = lastEventId + i
      BY <2>2, <2>5 DEF Ring
    <3>2. Len(Flow') = seq - lastEventId
      BY <2>2, <2>5
    <3>3. ASSUME NEW i \in 1 .. Len(Flow') - 1 PROVE Flow'[i + 1].seq = Flow'[i].seq + 1
      <4>1. i \in 1 .. Len(Flow') /\ i + 1 \in 1 .. Len(Flow')
        BY <1>0
      <4> QED BY <1>0, <3>1, <4>1
    <3>4. Flow' # <<>> => Flow'[1].seq = lastEventId + 1 /\ Flow'[Len(Flow')].seq = seq
      BY <1>0, <3>1, <3>2
    <3>5. Flow' = <<>> => lastEventId = seq
      BY <1>0, <3>2
    <3> QED BY <2>1, <3>3, <3>4, <3>5 DEF Ordered
  <2> QED BY <2>3, <2>4, <2>5, Opens
<1>4. CASE Stop
  <2>1. chan' = <<>> /\ pipe' = pipe /\ subscribed' = FALSE /\ serving' = FALSE
        /\ UNCHANGED <<lastEventId, lastSeq, source>>
    BY <1>4 DEF Stop, page
  <2>2. Flow' = pipe
    BY <2>1, FlowIsPipe DEF TypeOK
  <2>3. Len(pipe) <= Len(Flow) /\ \A i \in 1 .. Len(pipe) : Flow'[i] = Flow[i]
    BY SMTT(30), <2>2, FlowIs DEF TypeOK
  <2>4. ASSUME NEW i \in 1 .. Len(Flow') - 1 PROVE Flow'[i + 1].seq = Flow'[i].seq + 1
    <3>1. i \in 1 .. Len(pipe) /\ i + 1 \in 1 .. Len(pipe) /\ i \in 1 .. Len(Flow) - 1
      BY <1>0, <2>2, <2>3
    <3>2. Flow[i + 1].seq = Flow[i].seq + 1
      BY <3>1 DEF Ordered
    <3> QED BY <2>3, <3>1, <3>2
  <2>5. Flow' # <<>> => Flow # <<>> /\ Flow'[1] = Flow[1]
    BY <1>0, <2>2, <2>3
  <2> QED BY <2>1, <2>4, <2>5 DEF Ordered
<1>5. CASE Error \/ Break \/ GoOnline \/ Resume
  <2>1. pipe' = <<>> /\ chan' = <<>> /\ subscribed' = FALSE
        /\ UNCHANGED <<lastEventId, lastSeq>>
    BY <1>5 DEF Error, Break, GoOnline, Resume, Drop, page
  <2>2. Flow' = <<>>
    BY <2>1, FlowIsPipe DEF TypeOK
  <2> QED BY <1>0, <2>1, <2>2 DEF Ordered
<1>6. CASE ReceiveResync \/ Receive
  <2>1. /\ Flow # <<>> /\ Len(Flow) >= 1 /\ Len(Flow') = Len(Flow) - 1 /\ source = "open"
        /\ \A i \in 1 .. Len(Flow') : Flow'[i] = Flow[i + 1] /\ i + 1 \in 1 .. Len(Flow)
        /\ lastEventId' = Flow[1].seq /\ lastSeq' = Flow[1].seq
        /\ UNCHANGED <<hub, subscribed, serving, source>>
    BY <1>6, Takes
  <2>2. ASSUME NEW i \in 1 .. Len(Flow') - 1 PROVE Flow'[i + 1].seq = Flow'[i].seq + 1
    <3>1. i \in 1 .. Len(Flow') /\ i + 1 \in 1 .. Len(Flow') /\ i + 1 \in 1 .. Len(Flow) - 1
      BY <1>0, <2>1
    <3>2. Flow[(i + 1) + 1].seq = Flow[i + 1].seq + 1
      BY <3>1 DEF Ordered
    <3> QED BY <2>1, <3>1, <3>2
  <2>3. Flow' # <<>> => Flow'[1].seq = lastEventId' + 1
    BY <1>0, <2>1 DEF Ordered
  <2>4. subscribed' => /\ Flow' # <<>> => Flow'[Len(Flow')].seq = seq'
                       /\ Flow' = <<>> => lastEventId' = seq'
    BY <1>0, <2>1 DEF Ordered, hub
  <2> QED BY <2>1, <2>2, <2>3, <2>4 DEF Ordered
<1> QED BY <1>1, <1>2, <1>3, <1>4, <1>5, <1>6, StreamFrames

-----------------------------------------------------------------------------
\* One run of the server: nothing the page was not told is skipped.

\* What is on its way stands for what was cast, or for the call to resync.
LEMMA FlowSourced ==
  ASSUME TypeOK, Sourced
  PROVE  \A i \in 1 .. Len(Flow) : Flow[i].write \in cast \cup {NoWrite}
<1>1. /\ pipe \in Seq(Entry) /\ chan \in Seq(Entry)
      /\ \A i \in 1 .. Len(pipe) : pipe[i].write \in cast \cup {NoWrite}
      /\ \A i \in 1 .. Len(chan) : chan[i].write \in cast
  BY DEF TypeOK, Sourced
<1>2. ASSUME NEW i \in 1 .. Len(Flow)
      PROVE  \/ i \in 1 .. Len(pipe) /\ Flow[i] = pipe[i]
             \/ i - Len(pipe) \in 1 .. Len(chan) /\ Flow[i] = chan[i - Len(pipe)]
  BY <1>1 DEF Flow
<1> QED BY <1>1, <1>2

\* Numbers of the writes cast, at a step that casts none: they stay good for
\* frames and for what the page was not told.
LEMMA NumbersKept ==
  ASSUME NEW num, Numbers(num), UNCHANGED <<hub, cast>>,
         \A i \in 1 .. Len(Flow') : Flow'[i].write \in cast => num[Flow'[i].write] = Flow'[i].seq,
         \A w \in cast \ told' : num[w] > lastEventId'
  PROVE  Numbers(num)'
  BY DEF Numbers, Slot, OldestRetained, hub

\* What OneRun says, as goals.
WithinRun ==
  /\ lastEventId \in 1 .. seq
  /\ \A i \in 1 .. Len(Flow) : Flow[i].seq \in 1 .. seq
Counted == \E num \in [cast -> 1 .. seq] : Numbers(num)
Covered ==
  subscribed => \/ \E i \in 1 .. Len(Flow) : Flow[i].write = NoWrite
                \/ \A w \in cast \ told : \E i \in 1 .. Len(Flow) : Flow[i].write = w

LEMMA OneRunStep ==
  ASSUME TypeOK, TypeOK', Sourced, Sourced', Ring, Connected, Ordered, OneRun, Next
  PROVE  OneRun'
<1> USE WritesAssumption
<1>0. /\ seq \in Nat /\ lastEventId \in Nat /\ restarts \in Nat
      /\ Flow \in Seq(Entry) /\ Flow' \in Seq(Entry) /\ Len(Flow) \in Nat /\ Len(Flow') \in Nat
      /\ (Flow = <<>> <=> Len(Flow) = 0) /\ (Flow' = <<>> <=> Len(Flow') = 0)
      /\ \A i \in 1 .. Len(Flow) : Flow[i].seq \in Nat
      /\ \A i \in 1 .. Len(Flow) : Flow[i].write \in cast \cup {NoWrite}
      /\ cast \subseteq Writes /\ NoWrite \notin cast /\ told \subseteq cast
  BY FlowTyped, FlowSourced DEF TypeOK, Sourced
<1> SUFFICES ASSUME restarts' = 0
             PROVE  WithinRun' /\ (saved \subseteq cast \cup unsent)' /\ Counted' /\ Covered'
  BY DEF OneRun, WithinRun, Counted, Covered
<1>1. ~Stop /\ restarts = 0
  <2>1. restarts' = restarts \/ (Stop /\ restarts' = restarts + 1)
    BY Frames DEF Stop
  <2>2. Stop => restarts' = restarts + 1
    BY DEF Stop
  <2> QED BY <1>0, <2>1, <2>2
<1>2. WithinRun /\ saved \subseteq cast \cup unsent /\ Covered
  BY <1>1 DEF OneRun, WithinRun, Covered
<1>3. PICK num \in [cast -> 1 .. seq] : Numbers(num)
  BY <1>1 DEF OneRun
<1>4. (saved \subseteq cast \cup unsent)'
  BY <1>1, <1>2, Frames DEF Save, Broadcast
<1>5. CASE Idle
  <2>1. Len(Flow') = Len(Flow) /\ \A i \in 1 .. Len(Flow) : Flow'[i] = Flow[i]
    BY <1>5, IdleFlow
  <2>2. UNCHANGED <<hub, cast, told, lastEventId, subscribed, seq>>
    BY <1>5 DEF Idle, hub
  <2> HIDE DEF Flow
  <2>3. WithinRun'
    BY <1>2, <2>1, <2>2 DEF WithinRun
  <2>4. Covered'
    BY <1>2, <2>1, <2>2 DEF Covered
  <2>5. Numbers(num)'
    BY <1>3, <2>1, <2>2 DEF Numbers, Slot, OldestRetained, hub
  <2> QED BY <1>3, <1>4, <2>2, <2>3, <2>4, <2>5 DEF Counted
<1>6. ASSUME NEW w \in Writes, Broadcast(w) PROVE WithinRun' /\ Counted' /\ Covered'
  <2>1. seq' = seq + 1 /\ w \in unsent /\ cast' = cast \cup {w} /\ UNCHANGED <<lastEventId, told>>
    BY <1>6 DEF Broadcast, page
  <2>2. w \notin cast
    BY <2>1 DEF Sourced
  <2>3. \/ subscribed' = FALSE /\ Flow' = Flow
        \/ /\ subscribed /\ Len(Flow') = Len(Flow) + 1
           /\ Flow'[Len(Flow) + 1].seq = seq + 1 /\ Flow'[Len(Flow) + 1].write = w
           /\ \A i \in 1 .. Len(Flow) : Flow'[i] = Flow[i]
    BY <1>6, BroadcastFlow
  <2> HIDE DEF Flow
  <2>4. \A i \in 1 .. Len(Flow') : \/ i \in 1 .. Len(Flow) /\ Flow'[i] = Flow[i]
                                   \/ Flow'[i].seq = seq + 1 /\ Flow'[i].write = w
    BY <1>0, <2>3
  <2>5. WithinRun'
    BY <1>0, <1>2, <2>1, <2>4 DEF WithinRun
  <2>6. Covered'
    <3>1. CASE subscribed' = FALSE
      BY <3>1 DEF Covered
    <3>2. CASE /\ subscribed /\ Len(Flow') = Len(Flow) + 1
               /\ Flow'[Len(Flow) + 1].seq = seq + 1 /\ Flow'[Len(Flow) + 1].write = w
               /\ \A i \in 1 .. Len(Flow) : Flow'[i] = Flow[i]
      <4>1. Len(Flow) + 1 \in 1 .. Len(Flow') /\ 1 .. Len(Flow) \subseteq 1 .. Len(Flow')
        BY <1>0, <3>2
      <4>2. CASE \E i \in 1 .. Len(Flow) : Flow[i].write = NoWrite
        BY <3>2, <4>1, <4>2 DEF Covered
      <4>3. CASE \A v \in cast \ told : \E i \in 1 .. Len(Flow) : Flow[i].write = v
        <5>1. \A v \in cast' \ told' : \E i \in 1 .. Len(Flow') : Flow'[i].write = v
          BY <2>1, <3>2, <4>1, <4>3
        <5> QED BY <5>1 DEF Covered
      <4> QED BY <1>2, <3>2, <4>2, <4>3 DEF Covered
    <3> QED BY <2>3, <3>1, <3>2
  <2> DEFINE next == [v \in cast' |-> IF v = w THEN seq + 1 ELSE num[v]]
  <2>14. next \in [cast' -> 1 .. seq'] /\ next[w] = seq + 1 /\ \A v \in cast : next[v] = num[v] /\ v # w
    BY <1>0, <1>3, <2>1, <2>2
  <2> HIDE DEF next
  <2>7. PICK n \in [cast' -> 1 .. seq'] : n[w] = seq + 1 /\ \A v \in cast : n[v] = num[v] /\ v # w
    BY <2>14
  <2>8. \A u, v \in cast' : n[u] = n[v] => u = v
    BY <1>0, <1>3, <2>1, <2>2, <2>7 DEF Numbers
  <2>9. ASSUME NEW k \in OldestRetained' .. seq' PROVE n[Slot(k)'.write] = k
    <3>1. CASE k = seq + 1 /\ Slot(k)'.write = w
      BY <2>7, <3>1
    <3>2. CASE k \in OldestRetained .. seq /\ Slot(k)' = Slot(k)
      <4>1. Slot(k).write \in cast /\ num[Slot(k).write] = k
        BY <1>3, <3>2 DEF Ring, Numbers
      <4> QED BY <2>7, <3>2, <4>1
    <3> QED BY <1>6, <3>1, <3>2, BroadcastSlots
  <2>10. ASSUME NEW i \in 1 .. Len(Flow'), Flow'[i].write \in cast' PROVE n[Flow'[i].write] = Flow'[i].seq
    <3>1. CASE i \in 1 .. Len(Flow) /\ Flow'[i] = Flow[i]
      <4>1. Flow[i].write \in cast
        BY <1>0, <2>1, <2>10, <3>1, <1>6
      <4>2. num[Flow[i].write] = Flow[i].seq
        BY <1>3, <3>1, <4>1 DEF Numbers
      <4> QED BY <2>7, <3>1, <4>1, <4>2
    <3> QED BY <2>4, <2>7, <3>1
  <2>11. \A v \in cast' \ told' : n[v] > lastEventId'
    BY <1>0, <1>2, <1>3, <2>1, <2>7 DEF Numbers, WithinRun
  <2>12. Numbers(n)'
    BY <2>7, <2>8, <2>9, <2>10, <2>11 DEF Numbers
  <2>13. Counted'
    BY <2>7, <2>12 DEF Counted
  <2> QED BY <2>5, <2>6, <2>13
<1>7. CASE Accept
  <2>1. /\ pipe' = Opening(lastEventId) /\ chan' = <<>> /\ told' = told
        /\ UNCHANGED <<hub, seq, lastEventId, cast>>
    BY <1>2, <1>7 DEF Accept, hub, WithinRun
  <2>2. Flow' = Opening(lastEventId)
    BY <2>1, FlowIsPipe DEF TypeOK
  <2>3. \A v \in cast \ told' : num[v] > lastEventId'
    BY <1>3, <2>1 DEF Numbers
  <2>4. CASE /\ Len(Opening(lastEventId)) = 1
             /\ Opening(lastEventId)[1].write = NoWrite /\ Opening(lastEventId)[1].seq = seq
    <3>1. \A i \in 1 .. Len(Flow') : Flow'[i].write = NoWrite /\ Flow'[i].seq = seq
      BY <2>2, <2>4
    <3>2. WithinRun'
      BY <1>0, <1>2, <2>1, <3>1 DEF WithinRun
    <3>3. Covered'
      BY <2>2, <2>4 DEF Covered
    <3>4. Numbers(num)'
      BY <1>0, <1>3, <2>1, <2>3, <3>1, NumbersKept
    <3> QED BY <1>3, <1>4, <2>1, <3>2, <3>3, <3>4 DEF Counted
  <2>5. CASE /\ lastEventId \in 1 .. seq /\ Len(Opening(lastEventId)) = seq - lastEventId
             /\ \A i \in 1 .. seq - lastEventId :
                  /\ Opening(lastEventId)[i] = Slot(lastEventId + i)
                  /\ lastEventId + i \in OldestRetained .. seq
    <3>1. \A i \in 1 .. Len(Flow') : /\ Flow'[i] = Slot(lastEventId + i) /\ lastEventId + i \in OldestRetained .. seq
                                     /\ i \in 1 .. seq - lastEventId
      BY <2>2, <2>5
    <3>2. \A i \in 1 .. Len(Flow') : Flow'[i].seq = lastEventId + i /\ num[Flow'[i].write] = lastEventId + i
      BY <1>3, <3>1 DEF Ring, Numbers
    <3>3. WithinRun'
      BY <1>0, <1>2, <2>1, <3>1, <3>2 DEF WithinRun
    <3>4. ASSUME NEW v \in cast \ told PROVE \E i \in 1 .. Len(Flow') : Flow'[i].write = v
      <4>1. num[v] > lastEventId /\ num[v] \in 1 .. seq
        BY <1>3 DEF Numbers
      <4> DEFINE i == num[v] - lastEventId
      <4>2. i \in 1 .. Len(Flow') /\ lastEventId + i = num[v]
        BY <1>0, <2>2, <2>5, <4>1
      <4> HIDE DEF i
      <4>3. Flow'[i] = Slot(num[v]) /\ num[v] \in OldestRetained .. seq
        BY <3>1, <4>2
      <4>4. Slot(num[v]).write \in cast /\ num[Slot(num[v]).write] = num[v]
        BY <1>3, <4>3 DEF Ring, Numbers
      <4>5. Slot(num[v]).write = v
        BY <1>3, <4>4 DEF Numbers
      <4> QED BY <4>2, <4>3, <4>5
    <3>5. Covered'
      BY <2>1, <3>4 DEF Covered
    <3>6. Numbers(num)'
      BY <1>3, <2>1, <2>3, <3>2, NumbersKept
    <3> QED BY <1>3, <1>4, <2>1, <3>3, <3>5, <3>6 DEF Counted
  <2> QED BY <1>0, <1>2, <2>4, <2>5, Opens DEF WithinRun
<1>8. CASE Error \/ Break \/ GoOnline \/ Resume
  <2>1. pipe' = <<>> /\ chan' = <<>> /\ subscribed' = FALSE
        /\ UNCHANGED <<seq, hub, cast, lastEventId, told>>
    BY <1>8 DEF Error, Break, GoOnline, Resume, Drop, hub, page
  <2>2. Flow' = <<>> /\ Len(Flow') = 0
    BY <1>0, <2>1, FlowIsPipe DEF TypeOK
  <2>3. WithinRun' /\ Covered'
    BY <1>2, <2>1, <2>2 DEF WithinRun, Covered
  <2>4. \A v \in cast \ told' : num[v] > lastEventId'
    BY <1>3, <2>1 DEF Numbers
  <2>5. Numbers(num)'
    BY <1>3, <2>1, <2>2, <2>4, NumbersKept
  <2>6. cast' = cast /\ seq' = seq
    BY <2>1
  <2>7. Counted'
    BY <1>3, <2>5, <2>6 DEF Counted
  <2> QED BY <1>4, <2>3, <2>7
<1>9. CASE ReceiveResync \/ Receive
  <2>1. /\ Flow # <<>> /\ Len(Flow) >= 1 /\ Len(Flow') = Len(Flow) - 1
        /\ \A i \in 1 .. Len(Flow') : Flow'[i] = Flow[i + 1] /\ i + 1 \in 1 .. Len(Flow)
        /\ lastEventId' = Flow[1].seq
        /\ UNCHANGED <<hub, subscribed, cast>>
        /\ \/ Flow[1].write = NoWrite /\ told' = cast
           \/ /\ Flow[1].write \in cast /\ told' = told \cup {Flow[1].write}
              /\ lastEventId > 0 => Flow[1].seq = lastEventId + 1
    BY <1>9, Takes
  <2>2. seq' = seq /\ cast' = cast /\ subscribed' = subscribed /\ 1 \in 1 .. Len(Flow)
    BY <1>0, <2>1 DEF hub
  <2> HIDE DEF Flow
  <2>3. WithinRun'
    BY <1>2, <2>1, <2>2 DEF WithinRun
  <2>4. Covered'
    <3>1. CASE Flow[1].write = NoWrite /\ told' = cast
      BY <2>2, <3>1 DEF Covered
    <3>2. CASE Flow[1].write \in cast /\ told' = told \cup {Flow[1].write}
      <4>1. ASSUME NEW i \in 1 .. Len(Flow), Flow[i].write # Flow[1].write
            PROVE  i - 1 \in 1 .. Len(Flow') /\ Flow'[i - 1] = Flow[i]
        <5>1. i # 1
          BY <4>1
        <5>2. i - 1 \in 1 .. Len(Flow') /\ (i - 1) + 1 = i
          BY <1>0, <2>1, <5>1
        <5> QED BY <2>1, <5>2
      <4>2. CASE \E i \in 1 .. Len(Flow) : Flow[i].write = NoWrite
        <5>1. \E i \in 1 .. Len(Flow') : Flow'[i].write = NoWrite
          BY <1>0, <3>2, <4>1, <4>2
        <5> QED BY <5>1 DEF Covered
      <4>3. CASE \A v \in cast \ told : \E i \in 1 .. Len(Flow) : Flow[i].write = v
        <5>1. \A v \in cast' \ told' : \E i \in 1 .. Len(Flow') : Flow'[i].write = v
          BY <2>2, <3>2, <4>1, <4>3
        <5> QED BY <5>1 DEF Covered
      <4> QED BY <1>2, <2>2, <4>2, <4>3 DEF Covered
    <3> QED BY <2>1, <3>1, <3>2
  <2>5. \A v \in cast \ told' : num[v] > lastEventId'
    <3>1. CASE told' = cast
      BY <3>1
    <3>2. CASE /\ Flow[1].write \in cast /\ told' = told \cup {Flow[1].write}
               /\ lastEventId > 0 => Flow[1].seq = lastEventId + 1
      <4>1. num[Flow[1].write] = Flow[1].seq /\ Flow[1].seq = lastEventId + 1
        BY <1>0, <1>2, <1>3, <2>2, <3>2 DEF Numbers, WithinRun
      <4> SUFFICES ASSUME NEW v \in cast, v \notin told, v # Flow[1].write PROVE num[v] > lastEventId + 1
        BY <2>1, <3>2, <4>1
      <4>2. num[v] > lastEventId /\ num[v] # num[Flow[1].write] /\ num[v] \in Nat
        BY <1>3, <3>2 DEF Numbers
      <4> QED BY <1>0, <4>1, <4>2
    <3> QED BY <2>1, <3>1, <3>2
  <2>6. \A i \in 1 .. Len(Flow') : Flow'[i].write \in cast => num[Flow'[i].write] = Flow'[i].seq
    BY <1>3, <2>1 DEF Numbers
  <2>7. Numbers(num)'
    BY <1>3, <2>1, <2>5, <2>6, NumbersKept
  <2> QED BY <1>3, <1>4, <2>2, <2>3, <2>4, <2>7 DEF Counted
<1> QED BY <1>1, <1>4, <1>5, <1>6, <1>7, <1>8, <1>9, StreamFrames

LEMMA StreamInit == Init => StreamInv
<1> SUFFICES ASSUME Init PROVE StreamInv
  OBVIOUS
<1> USE WritesAssumption, HubAssumption
<1>1. TypeOK /\ Sourced /\ Ring /\ Connected
  BY InitTyped
<1>2. Flow = <<>> /\ Len(Flow) = 0
  BY DEF Init, Flow
<1>3. /\ lastEventId = 1 /\ lastSeq = 1 /\ seq = 1 /\ subscribed /\ unsent = {}
      /\ cast = {First} /\ saved = cast /\ told = cast
  BY DEF Init
<1>4. Ordered
  BY <1>2, <1>3 DEF Ordered
<1>5. PICK num \in [cast -> 1 .. seq] : num[First] = 1
  <2>1. [w \in cast |-> 1] \in [cast -> 1 .. seq] /\ [w \in cast |-> 1][First] = 1
    BY <1>3
  <2> QED BY <2>1
<1>6. \A k \in OldestRetained .. seq : Slot(k).write = First /\ k = 1
  BY <1>1, <1>3 DEF Ring, OldestRetained
<1>7. Numbers(num)
  BY <1>2, <1>3, <1>5, <1>6 DEF Numbers
<1>8. OneRun
  BY <1>2, <1>3, <1>5, <1>7 DEF OneRun
<1> QED BY <1>1, <1>4, <1>8 DEF StreamInv

LEMMA StreamNext == StreamInv /\ [Next]_vars => StreamInv'
<1> SUFFICES ASSUME StreamInv, [Next]_vars PROVE StreamInv'
  OBVIOUS
<1>1. CASE Next
  BY <1>1, TypedStep, SourcedStep, RingStep, ConnectedStep, OrderedStep, OneRunStep DEF StreamInv
<1>2. CASE UNCHANGED vars
  <2> USE <1>2 DEF StreamInv, vars, hub, conn, page, bounds
  <2>1. TypeOK' /\ Sourced'
    BY DEF TypeOK, Sourced
  <2>2. Ring' /\ Connected'
    BY DEF Ring, Slot, OldestRetained, Connected
  <2>3. Flow' = Flow
    BY DEF Flow
  <2>4. Ordered'
    BY <2>3 DEF Ordered
  <2>5. \A num : Numbers(num)' <=> Numbers(num)
    BY <2>3 DEF Numbers, Slot, OldestRetained
  <2>6. OneRun'
    BY <2>3, <2>5 DEF OneRun
  <2> QED BY <2>1, <2>2, <2>4, <2>6
<1> QED BY <1>1, <1>2

\* The inductive invariant of the stream: types, the ring, the order of the
\* numbers and, in one run of the server, a number of its own for every event.
THEOREM StreamInvariant == Spec => []StreamInv
  BY StreamInit, StreamNext, PTL DEF Spec

LEMMA StreamWhole == StreamInv => StreamIsWhole
<1> SUFFICES ASSUME StreamInv PROVE StreamIsWhole
  OBVIOUS
<1> USE WritesAssumption
<1>0. /\ pipe \in Seq(Entry) /\ chan \in Seq(Entry) /\ Flow = pipe \o chan
      /\ Len(Flow) = Len(pipe) + Len(chan) /\ Len(pipe) \in Nat /\ Len(chan) \in Nat
      /\ \A i \in 1 .. Len(pipe) : Flow[i] = pipe[i]
      /\ \A i \in 1 .. Len(chan) : Flow[Len(pipe) + i] = chan[i]
  BY FlowIs DEF StreamInv, TypeOK, Flow
<1>1. StreamInOrder
  BY <1>0 DEF StreamInv, Ordered, StreamInOrder
<1>2. NothingSkippedInOneRun
  <2> SUFFICES ASSUME restarts = 0, serving, subscribed
               PROVE  \/ \E i \in 1 .. Len(pipe) : pipe[i].write = NoWrite
                      \/ cast \subseteq told \cup {Flow[i].write : i \in 1 .. Len(Flow)}
    BY <1>0 DEF NothingSkippedInOneRun, NothingSkipped
  <2>1. CASE \E i \in 1 .. Len(Flow) : Flow[i].write = NoWrite
    <3>1. PICK i \in 1 .. Len(Flow) : Flow[i].write = NoWrite
      BY <2>1
    <3>2. CASE i <= Len(pipe)
      BY <1>0, <3>1, <3>2
    <3>3. CASE i > Len(pipe)
      <4>1. i - Len(pipe) \in 1 .. Len(chan) /\ chan[i - Len(pipe)] = Flow[i]
        BY <1>0, <3>3
      <4>2. chan[i - Len(pipe)].write \in cast /\ cast \subseteq Writes
        BY <4>1 DEF StreamInv, Sourced, TypeOK
      <4> QED BY <3>1, <4>1, <4>2
    <3>4. i \in Int /\ Len(pipe) \in Int
      BY <1>0
    <3> QED BY <3>2, <3>3, <3>4
  <2>2. CASE \A w \in cast \ told : \E i \in 1 .. Len(Flow) : Flow[i].write = w
    BY <2>2
  <2> QED BY <2>1, <2>2 DEF StreamInv, OneRun
<1> QED BY <1>1, <1>2 DEF StreamIsWhole

\* hub.go's promise: in one run of the server the stream brings a page every
\* event broadcast that it has not had, or tells it to resync; always, the
\* frames on their way carry consecutive numbers and follow the page's own.
THEOREM StreamHolds == Spec => []StreamIsWhole
  BY StreamInvariant, StreamWhole, PTL

-----------------------------------------------------------------------------
\* The page: what it was not given is on its way.

Given == heard \cap LiveWrites \subseteq shown
Losing == source = "closed" \/ (resumes = 0 /\ source = "connecting") => streamLost

LEMMA HearingInit == Init => Hearing
  BY DEF Init, Hearing

LEMMA GivenStep == TypeOK /\ Sourced /\ Ordered /\ Given /\ Next => Given'
<1> SUFFICES ASSUME TypeOK, Sourced, Ordered, Given, Next PROVE Given'
  OBVIOUS
<1>1. CASE UNCHANGED <<shown, heard>>
  BY <1>1 DEF Given
<1>2. CASE Receive
  <2>1. \/ shown' = shown /\ heard' = heard
        \/ /\ shown' = shown \cup ({Head(pipe).write} \cap LiveWrites)
           /\ heard' = heard \cup ({Head(pipe).write} \cap LiveWrites)
    BY <1>2 DEF Receive
  <2> QED BY <2>1 DEF Given
<1>3. ASSUME NEW i \in 1 .. Len(replies), Land(i) PROVE Given'
  <2>1. shown' = replies[i] \cup (shown \cap LiveWrites) /\ heard' = heard \cup replies[i]
    BY <1>3 DEF Land
  <2> QED BY <2>1 DEF Given
<1> QED BY <1>1, <1>2, <1>3, Frames

LEMMA LosingStep == Sourced /\ Losing /\ Next => Losing'
<1> SUFFICES ASSUME Sourced, Losing, Next PROVE Losing'
  OBVIOUS
<1>1. resumes \in Nat
  BY DEF Sourced
<1>2. \/ UNCHANGED <<source, streamLost, resumes>>
      \/ source' = "open"
      \/ streamLost' = TRUE
      \/ source = "closed" /\ streamLost' = streamLost
      \/ resumes' = resumes + 1 /\ source' = "connecting"
  BY DEF Next, Server, Connection, Data, bounds, Save, Broadcast, Accept, Stream,
         HandlerReturns, ReleaseStale, Stop, Start, Open, Error, Break, Retry, GoOffline,
         GoOnline, Resume, ReceiveResync, Receive, Fetch, FetchFails, Land
<1> QED BY <1>1, <1>2 DEF Losing

\* With no blind spot, every saved write the page was not given is on its way.
Coming == ~BlindSpot => \A w \in saved \ heard : OnItsWay(w)

LEMMA ComingStep ==
  ASSUME ReopenRefetch = TRUE, StreamInv, StreamInv', Losing, Coming, Next PROVE Coming'
<1> USE WritesAssumption
<1>0. /\ TypeOK /\ TypeOK' /\ Sourced /\ Connected /\ Ordered /\ OneRun
      /\ restarts \in Nat /\ resumes \in Nat /\ due \in Nat /\ replies \in Seq(SUBSET Writes)
      /\ source \in {"closed", "connecting", "open"} /\ cast \subseteq saved /\ told \subseteq cast
  BY DEF StreamInv, TypeOK, Sourced
<1> SUFFICES ASSUME ~BlindSpot', NEW w \in saved', w \notin heard' PROVE OnItsWay(w)'
  BY DEF Coming
<1>1. ~BlindSpot
  <2>1. (restarts' = restarts \/ restarts' = restarts + 1) /\ (resumes' = resumes \/ resumes' = resumes + 1)
    BY DEF Next, Server, Connection, Data, bounds, Save, Broadcast, Accept,
         Stream, HandlerReturns, ReleaseStale, Stop, Start, Open, Error, Break, Retry, GoOffline,
         GoOnline, Resume, ReceiveResync, Receive, Fetch, FetchFails, Land
  <2> QED BY <1>0, <2>1 DEF BlindSpot
<1>2. w \notin heard
  BY Frames DEF Receive, Land
<1>3. w \in saved => OnItsWay(w)
  BY <1>1, <1>2 DEF Coming
\* Not lost and connecting: the tab was resumed, so the server never restarted.
<1>4. source # "open" /\ ~streamLost => source = "connecting" /\ restarts = 0
  BY <1>0, <1>1 DEF Losing, BlindSpot
<1>5. Idle \/ (\E v \in Writes : Broadcast(v)) => (Flow # <<>> => Flow' # <<>>)
  <2>1. Flow # <<>> <=> Len(Flow) # 0
    BY <1>0, FlowTyped
  <2>2. Len(Flow') # 0 => Flow' # <<>>
    BY <1>0, FlowTyped
  <2>3. Idle => Len(Flow') = Len(Flow)
    BY <1>0, IdleFlow
  <2>4. ASSUME NEW v \in Writes, Broadcast(v) PROVE Flow' = Flow \/ Len(Flow') = Len(Flow) + 1
    BY <1>0, <2>4, BroadcastFlow
  <2> QED BY <1>0, <2>1, <2>2, <2>3, <2>4, FlowTyped
<1> HIDE DEF Flow
<1>6. ASSUME NEW v \in Writes, Save(v) PROVE OnItsWay(w)'
  <2>1. Idle
    BY <1>6 DEF Idle, Save, hub, conn, page, bounds
  <2>2. saved' = saved \cup {v} /\ unsent' = unsent \cup {v}
        /\ UNCHANGED <<online, up, source, streamLost, subscribed, due, replies, restarts, told>>
    BY <1>6 DEF Save, conn, page, bounds
  <2> QED BY <1>3, <1>5, <2>1, <2>2 DEF OnItsWay, WillReload
<1>7. ASSUME NEW v \in Writes, Broadcast(v) PROVE OnItsWay(w)'
  <2>1. /\ saved' = saved /\ unsent' = unsent \ {v} /\ v \in unsent
        /\ UNCHANGED <<online, up, source, streamLost, due, replies, restarts, told>>
        /\ subscribed' = subscribed \/ subscribed' = FALSE
    BY <1>7 DEF Broadcast, page, bounds
  <2>2. CASE w # v
    BY <1>3, <1>5, <1>7, <2>1, <2>2 DEF OnItsWay, WillReload
  <2>3. CASE w = v
    <3>1. w \notin told
      BY <1>0, <2>1, <2>3 DEF Sourced
    <3>2. subscribed' = FALSE \/ Flow' # <<>>
      <4>1. subscribed' = FALSE \/ Len(Flow') = Len(Flow) + 1
        BY <1>0, <1>7, BroadcastFlow
      <4> QED BY <1>0, <4>1, FlowTyped
    <3> QED BY <1>4, <2>1, <3>1, <3>2 DEF OnItsWay, WillReload
  <2> QED BY <2>2, <2>3
<1>8. CASE Stream \/ HandlerReturns \/ ReleaseStale
  <2>1. Idle
    BY <1>8 DEF Idle, Stream, HandlerReturns, ReleaseStale, hub, conn, page, bounds
  <2>2. UNCHANGED <<saved, unsent, online, up, source, streamLost, subscribed, due, replies, restarts, told>>
    BY <1>8 DEF Stream, HandlerReturns, ReleaseStale, conn, page, bounds
  <2> QED BY <1>3, <1>5, <2>1, <2>2 DEF OnItsWay, WillReload
<1>9. CASE Accept
  <2>1. /\ UNCHANGED <<saved, unsent, online, up, source, streamLost, due, replies, restarts>>
        /\ source = "connecting" /\ told' = IF lastEventId = 0 THEN cast ELSE told
    BY <1>9 DEF Accept, bounds
  <2>2. restarts = 0 => told' = told
    BY <1>0, <2>1 DEF OneRun
  <2> QED BY <1>3, <2>1, <2>2 DEF OnItsWay, WillReload
<1>10. CASE Stop \/ GoOffline \/ FetchFails
  <2>1. ~up' \/ ~online'
    BY <1>10 DEF Stop, GoOffline, FetchFails
  <2> QED BY <2>1 DEF OnItsWay, WillReload
<1>11. CASE Start
  <2>1. ~up /\ UNCHANGED <<source, streamLost, subscribed, restarts, resumes>>
    BY <1>11 DEF Start, conn, bounds
  <2>2. ~subscribed /\ restarts > 0
    BY <1>0, <2>1 DEF Connected
  <2> QED BY <1>0, <1>4, <2>1, <2>2 DEF OnItsWay, WillReload
<1>12. CASE Open
  <2>1. /\ source = "connecting" /\ serving /\ online /\ source' = "open"
        /\ due' = IF streamLost THEN due + 1 ELSE due
        /\ UNCHANGED <<up, online, saved, unsent, subscribed, pipe, chan, replies, restarts, told>>
    BY <1>12 DEF Open, conn, bounds
  <2>2. CASE streamLost
    BY <1>0, <2>1, <2>2 DEF OnItsWay
  <2>3. CASE ~streamLost /\ ~subscribed
    BY <2>1, <2>3 DEF OnItsWay, WillReload
  <2>4. CASE ~streamLost /\ subscribed
    <3>1. up /\ restarts = 0 /\ Flow' = Flow
      BY <1>0, <1>4, <2>1, <2>4 DEF Connected, Flow
    <3>2. CASE w \in unsent \/ due > 0 \/ \E i \in 1 .. Len(replies) : w \in replies[i]
      BY <2>1, <2>4, <3>2 DEF OnItsWay
    <3>3. CASE w \in cast \ told
      <4>1. Flow # <<>>
        BY <1>0, <2>4, <3>1, <3>3, FlowTyped DEF OneRun
      <4> QED BY <2>1, <3>1, <4>1 DEF OnItsWay
    <3>4. w \in unsent \/ w \in cast
      BY <1>0, <2>1, <3>1 DEF OneRun
    <3> QED BY <1>3, <2>1, <2>4, <3>1, <3>2, <3>3, <3>4 DEF OnItsWay, WillReload
  <2> QED BY <2>2, <2>3, <2>4
<1>13. CASE Error \/ Break \/ GoOnline
  <2>1. source' # "open" /\ streamLost'
    BY <1>13 DEF Error, Break, GoOnline
  <2> QED BY <2>1 DEF OnItsWay, WillReload
<1>14. CASE Retry
  <2>1. source = "closed" /\ source' = "connecting" /\ streamLost' = streamLost
    BY <1>14 DEF Retry
  <2>2. streamLost
    BY <2>1 DEF Losing
  <2> QED BY <2>1, <2>2 DEF OnItsWay, WillReload
<1>15. CASE Resume
  <2>1. /\ source' = "connecting" /\ streamLost' = streamLost
        /\ due' = IF streamLost THEN due ELSE due + 1
    BY <1>15 DEF Resume
  <2> QED BY <1>0, <2>1 DEF OnItsWay, WillReload
<1>16. CASE ReceiveResync
  <2>1. due' = due + 1
    BY <1>16 DEF ReceiveResync
  <2> QED BY <1>0, <2>1 DEF OnItsWay
<1>17. CASE Receive
  <2>1. /\ Flow # <<>> /\ Flow[1] = Head(pipe) /\ Flow[1].seq \in Nat
        /\ lastEventId > 0 => Flow[1].seq = lastEventId + 1
    BY <1>0, <1>17, Takes DEF StreamInv, Receive, ReceiveResync
  <2>2. lastSeq = lastEventId /\ lastEventId \in Nat
    BY <1>0 DEF Ordered, TypeOK
  <2>3. ~Duplicate(Head(pipe).seq)
    BY <2>1, <2>2 DEF Duplicate
  <2>4. due' = due + 1 \/ due' = due + 2
    BY <1>17, <2>3 DEF Receive
  <2> QED BY <1>0, <2>4 DEF OnItsWay
<1>18. CASE Fetch
  <2>1. replies' = Append(replies, saved) /\ saved' = saved /\ saved \in SUBSET Writes
    BY <1>0, <1>18 DEF Fetch, TypeOK
  <2>2. replies'[Len(replies')] = saved /\ Len(replies') \in 1 .. Len(replies')
    BY <1>0, <2>1, AppendProperties
  <2> QED BY <2>1, <2>2 DEF OnItsWay
<1>19. ASSUME NEW i \in 1 .. Len(replies), Land(i) PROVE OnItsWay(w)'
  <2>1. /\ replies' = RemoveAt(replies, i) /\ heard' = heard \cup replies[i]
        /\ UNCHANGED <<saved, unsent, online, up, source, streamLost, subscribed, due, restarts, told, pipe, chan>>
    BY <1>19 DEF Land, conn, bounds
  <2>2. Flow' = Flow /\ w \notin replies[i]
    BY <2>1 DEF Flow
  <2>3. (\E k \in 1 .. Len(replies) : w \in replies[k]) => \E k \in 1 .. Len(replies') : w \in replies'[k]
    <3>1. /\ Len(RemoveAt(replies, i)) = Len(replies) - 1
          /\ \A k \in 1 .. Len(replies) : k # i =>
               \E j \in 1 .. Len(replies) - 1 : RemoveAt(replies, i)[j] = replies[k]
      BY <1>0, AnswerGoes
    <3> QED BY <2>1, <2>2, <3>1
  <2> QED BY <1>3, <2>1, <2>2, <2>3 DEF OnItsWay, WillReload
<1> QED BY <1>6, <1>7, <1>8, <1>9, <1>10, <1>11, <1>12, <1>13, <1>14, <1>15, <1>16, <1>17, <1>18, <1>19
        DEF Next, Server, Connection, Data

LEMMA PageNext == ReopenRefetch = TRUE /\ PageInv /\ [Next]_vars => PageInv'
<1> SUFFICES ASSUME ReopenRefetch = TRUE, PageInv, [Next]_vars PROVE PageInv'
  OBVIOUS
<1>1. StreamInv /\ StreamInv' /\ Given /\ Losing /\ Coming
  BY StreamNext DEF PageInv, Hearing, Given, Losing, Coming
<1>2. CASE Next
  <2>1. Given' /\ Losing' /\ Coming'
    BY <1>1, <1>2, GivenStep, LosingStep, ComingStep DEF StreamInv
  <2> QED BY <1>1, <2>1 DEF PageInv, Hearing, Given, Losing, Coming
<1>3. CASE UNCHANGED vars
  <2> USE <1>3 DEF vars, hub, conn, page, bounds
  <2>1. \A w : OnItsWay(w)' <=> OnItsWay(w)
    BY DEF OnItsWay, WillReload, Flow
  <2> QED BY <1>1, <2>1 DEF PageInv, Hearing, BlindSpot
<1> QED BY <1>2, <1>3

LEMMA PageIsCurrent == PageInv => QuietIsCurrent
<1> SUFFICES ASSUME PageInv, Quiet, ~BlindSpot
             PROVE  saved \subseteq heard /\ saved \cap LiveWrites \subseteq shown
  BY DEF QuietIsCurrent, QuietHasHeard, QuietShowsLive
<1>1. Flow = <<>> /\ Len(replies) = 0
  BY DEF Flow, Quiet
<1>2. \A w \in Writes : ~OnItsWay(w)
  BY <1>1 DEF OnItsWay, WillReload, Quiet, PageInv, StreamInv, TypeOK
<1> QED BY <1>2 DEF PageInv, Hearing, StreamInv, TypeOK

\* A page that refetches when its stream reopens is current once nothing is on
\* its way to it, however often the connection, the network, the server or the
\* tab came and went (the blind spot of QuietHasHeard apart).
THEOREM QuietPagesAreCurrent ==
  ASSUME ReopenRefetch = TRUE PROVE Spec => []QuietIsCurrent
<1>1. Init => PageInv
  BY StreamInit, HearingInit DEF PageInv
<1>2. PageInv /\ [Next]_vars => PageInv'
  BY PageNext
<1> QED BY <1>1, <1>2, PageIsCurrent, PTL DEF Spec
====
