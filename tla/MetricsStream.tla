---------------------------- MODULE MetricsStream ----------------------------
(***************************************************************************)
(* The live stream of one inverter: the SSE requests of                    *)
(* MetricsStreamService, the callbacks MetricsPubSubService keeps for the  *)
(* inverter's channel and the one Redis connection they share.             *)
(*                                                                         *)
(* Commands reach Redis, and answers and messages come back, in order.     *)
(* What MetricsPoller stores and publishes is a counter.                   *)
(***************************************************************************)
EXTENDS Naturals, Sequences

CONSTANTS
  Streams,      \* SSE requests for the inverter, each sent once
  MaxMetrics,   \* bound: metrics that are stored and published
  MaxErrors     \* bound: failures of the Redis connection

ASSUME StreamAssumption ==
  /\ MaxMetrics \in Nat
  /\ MaxErrors \in Nat

VARIABLES
  \* the poller
  saved,         \* the newest stored metric
  published,     \* the newest published metric
  \* the requests
  progress,      \* Streams -> how far streamMetrics has got
  client,        \* the streams whose client is connected
  shown,         \* Streams -> the last metric written to the response
  \* MetricsPubSubService
  entry,         \* whether subscriptions has an entry for the channel
  callbacks,     \* the streams in that entry
  listeners,     \* the streams that listen for its 'error' event
  \* the connection of the subscriber
  toRedis,       \* commands not processed yet
  fromRedis,     \* answers and messages not received yet
  subscribed,    \* whether Redis has the subscription
  errors         \* failures so far

pollerVars  == <<saved, published>>
requestVars == <<progress, client, shown>>
pubSubVars  == <<entry, callbacks, listeners>>
redisVars   == <<toRedis, fromRedis, subscribed, errors>>
streamVars  == <<pollerVars, requestVars, pubSubVars, redisVars>>

\* ended: the response was ended after an error.  failed: the handler threw.
Progress == {"new", "snapshot", "subscribe", "joining", "open", "ended",
             "closed", "failed"}

Commands == [op : {"subscribe", "unsubscribe"}, by : Streams]
Arrivals == [kind : {"subscribed"}, by : Streams]
            \cup [kind : {"message"}, metric : 1..MaxMetrics]

StreamTypeOK ==
  /\ saved \in 0..MaxMetrics /\ published \in 0..saved
  /\ progress \in [Streams -> Progress]
  /\ client \subseteq Streams
  /\ shown \in [Streams -> 0..MaxMetrics]
  /\ entry \in BOOLEAN
  /\ callbacks \subseteq Streams /\ listeners \subseteq Streams
  /\ toRedis \in Seq(Commands) /\ fromRedis \in Seq(Arrivals)
  /\ subscribed \in BOOLEAN
  /\ errors \in 0..MaxErrors

StreamInit ==
  /\ saved = 0 /\ published = 0
  /\ progress = [s \in Streams |-> "new"]
  /\ client = {}
  /\ shown = [s \in Streams |-> 0]
  /\ entry = FALSE /\ callbacks = {} /\ listeners = {}
  /\ toRedis = <<>> /\ fromRedis = <<>>
  /\ subscribed = FALSE
  /\ errors = 0

-----------------------------------------------------------------------------
(* The poller: persistAndPublish saves and then publishes. *)

SaveMetric ==
  /\ saved = published
  /\ saved < MaxMetrics
  /\ saved' = saved + 1
  /\ UNCHANGED <<published, requestVars, pubSubVars, redisVars>>

PublishMetric ==
  /\ published < saved
  /\ published' = saved
  /\ fromRedis' = IF subscribed
                  THEN Append(fromRedis, [kind |-> "message", metric |-> saved])
                  ELSE fromRedis
  /\ UNCHANGED <<saved, requestVars, pubSubVars, toRedis, subscribed, errors>>

-----------------------------------------------------------------------------
(* streamMetrics. *)

At(s, p) == progress' = [progress EXCEPT ![s] = p]

\* The headers are out and the first query has been sent.
ConnectStream(s) ==
  /\ progress[s] = "new"
  /\ At(s, "snapshot")
  /\ client' = client \cup {s}
  /\ UNCHANGED <<pollerVars, shown, pubSubVars, redisVars>>

\* The snapshot is the latest row, if there is one; errors are swallowed.
Snapshot(s) ==
  /\ progress[s] = "snapshot"
  /\ At(s, "subscribe")
  /\ shown' \in {shown, [shown EXCEPT ![s] = saved]}
  /\ UNCHANGED <<pollerVars, client, pubSubVars, redisVars>>

\* Registered: the listeners for errors and for the client's disconnect.
Listen(s) ==
  /\ At(s, "open")
  /\ callbacks' = callbacks \cup {s}
  /\ listeners' = listeners \cup {s}

Send(op, s) == toRedis' = Append(toRedis, [op |-> op, by |-> s])

\* Faulty variant: every stream makes a new entry.
SubscribeAnew(s) ==
  /\ progress[s] = "subscribe"
  /\ entry' = TRUE
  /\ callbacks' = {}
  /\ Send("subscribe", s)
  /\ At(s, "joining")
  /\ UNCHANGED <<pollerVars, client, shown, listeners, fromRedis, subscribed,
                 errors>>

\* Subscribe: the first stream of the channel makes the entry and waits
\* for Redis, any other is added at once.
Subscribe(s) ==
  /\ progress[s] = "subscribe"
  /\ \/ /\ entry
        /\ Listen(s)
        /\ UNCHANGED <<entry, toRedis>>
     \/ /\ ~entry
        /\ entry' = TRUE
        /\ callbacks' = {}
        /\ Send("subscribe", s)
        /\ At(s, "joining")
        /\ UNCHANGED listeners
  /\ UNCHANGED <<pollerVars, client, shown, fromRedis, subscribed, errors>>

\* Faulty variant: the entry goes with the first callback that goes.
UnsubscribeAll(s) ==
  /\ callbacks' = {}
  /\ entry' = FALSE
  /\ Send("unsubscribe", s)

\* Unsubscribe: the entry goes with its last callback.
Unsubscribe(s) ==
  /\ callbacks' = callbacks \ {s}
  /\ \/ /\ entry /\ callbacks \subseteq {s}
        /\ entry' = FALSE
        /\ Send("unsubscribe", s)
     \/ /\ ~(entry /\ callbacks \subseteq {s})
        /\ UNCHANGED <<entry, toRedis>>

\* The 'close' listener of the request.
Close(s) ==
  /\ At(s, "closed")
  /\ listeners' = listeners \ {s}
  /\ Unsubscribe(s)
  /\ UNCHANGED <<pollerVars, shown, fromRedis, subscribed, errors>>

\* The client disconnects.  Before the listener is set nobody notices.
Disconnect(s) ==
  /\ s \in client
  /\ client' = client \ {s}
  /\ \/ progress[s] \in {"open", "ended"} /\ Close(s)
     \/ /\ progress[s] \notin {"open", "ended"}
        /\ UNCHANGED <<pollerVars, progress, shown, pubSubVars, redisVars>>

\* A response that was ended closes its request.
CloseEnded(s) ==
  /\ progress[s] = "ended"
  /\ client' = client \ {s}
  /\ Close(s)

-----------------------------------------------------------------------------
(* The connection to Redis. *)

RedisRuns ==
  /\ toRedis # <<>>
  /\ LET c == Head(toRedis) IN
     /\ toRedis' = Tail(toRedis)
     /\ subscribed' = (c.op = "subscribe")
     /\ fromRedis' = IF c.op = "subscribe"
                     THEN Append(fromRedis, [kind |-> "subscribed", by |-> c.by])
                     ELSE fromRedis
  /\ UNCHANGED <<pollerVars, requestVars, pubSubVars, errors>>

\* The 'message' handler runs every callback of the entry.
ReceiveMessage ==
  /\ fromRedis # <<>>
  /\ Head(fromRedis).kind = "message"
  /\ shown' = [s \in Streams |-> IF entry /\ s \in callbacks
                                 THEN Head(fromRedis).metric ELSE shown[s]]
  /\ fromRedis' = Tail(fromRedis)
  /\ UNCHANGED <<pollerVars, progress, client, pubSubVars, toRedis, subscribed,
                 errors>>

\* The await of subscribe is over.  An entry that has gone in the meantime
\* makes get(channel)! undefined, and the handler throws.
ReceiveSubscribed ==
  /\ fromRedis # <<>>
  /\ Head(fromRedis).kind = "subscribed"
  /\ LET s == Head(fromRedis).by IN
     \/ entry /\ Listen(s)
     \/ ~entry /\ At(s, "failed") /\ UNCHANGED <<callbacks, listeners>>
  /\ fromRedis' = Tail(fromRedis)
  /\ UNCHANGED <<pollerVars, client, shown, entry, toRedis, subscribed, errors>>

\* The subscriber's connection fails and is set up again with its
\* subscriptions; messages on the way are lost.  The 'error' event ends
\* every stream that listens for it.
RedisError ==
  /\ errors < MaxErrors
  /\ errors' = errors + 1
  /\ listeners # {}
  /\ progress' = [s \in Streams |-> IF s \in listeners THEN "ended" ELSE progress[s]]
  /\ listeners' = {}
  /\ fromRedis' = SelectSeq(fromRedis, LAMBDA m : m.kind # "message")
  /\ UNCHANGED <<pollerVars, client, shown, entry, callbacks, toRedis, subscribed>>

\* An 'error' event nobody listens for is thrown, and the process goes down
\* with all its streams.
RedisErrorUnheard ==
  /\ errors < MaxErrors
  /\ errors' = errors + 1
  /\ listeners = {}
  /\ progress' = [s \in Streams |-> IF progress[s] = "new" THEN "new" ELSE "closed"]
  /\ client' = {}
  /\ entry' = FALSE
  /\ callbacks' = {}
  /\ toRedis' = <<>> /\ fromRedis' = <<>>
  /\ subscribed' = FALSE
  /\ UNCHANGED <<pollerVars, shown, listeners>>

-----------------------------------------------------------------------------
StreamStep(s) == Snapshot(s) \/ Subscribe(s) \/ CloseEnded(s)
Receive == ReceiveMessage \/ ReceiveSubscribed

StreamNext ==
  \/ SaveMetric \/ PublishMetric
  \/ \E s \in Streams : ConnectStream(s) \/ StreamStep(s) \/ Disconnect(s)
  \/ RedisRuns \/ Receive
  \/ RedisError \/ RedisErrorUnheard

StreamSpec == StreamInit /\ [][StreamNext]_streamVars

\* The poller's interval fires, the event loop runs what has arrived and
\* Redis answers.
StreamFairness ==
  /\ WF_streamVars(SaveMetric) /\ WF_streamVars(PublishMetric)
  /\ \A s \in Streams : WF_streamVars(StreamStep(s))
  /\ WF_streamVars(RedisRuns) /\ WF_streamVars(Receive)

-----------------------------------------------------------------------------
(* Properties. *)

\* streamMetrics, "Cleanup on client disconnect": a stream that was open when
\* its client left keeps neither a callback nor a listener, and one that
\* is open keeps both, whichever other streams come and go.
RegisteredWhileOpen ==
  \A s \in Streams :
    /\ progress[s] = "open" => s \in callbacks /\ s \in listeners /\ entry
    /\ progress[s] = "closed" => s \notin callbacks /\ s \notin listeners

\* What Redis does once it has run the commands on their way.
WillBeSubscribed ==
  IF toRedis = <<>> THEN subscribed ELSE toRedis[Len(toRedis)].op = "subscribe"

\* MetricsPubSubService, subscribe and unsubscribe: streams that come and go
\* leave Redis subscribed to the channel just while it has an entry.
SubscriptionFollows ==
  /\ entry <=> WillBeSubscribed
  /\ \A s \in Streams : progress[s] = "open" => WillBeSubscribed

\* A stream that is open is fed: it shows the metrics that are published
\* from then on, unless it is closed.
OpenIsFed ==
  \A s \in Streams :
    /\ progress[s] = "open" /\ s \in client
    /\ toRedis = <<>>
    /\ published < MaxMetrics
    ~> (shown[s] = MaxMetrics \/ progress[s] # "open")

=============================================================================
