------------------------------ MODULE Streaming ------------------------------
(***************************************************************************)
(* Executions that are watched while they run: Graph.stream, which hands   *)
(* the events of one execution to its subscriber (the client of            *)
(* TraceStreamController), and LiveTraceFeed, the trace recorder that      *)
(* broadcasts to the viewers of TraceLiveController.                       *)
(*                                                                         *)
(* Both are java.util.concurrent.SubmissionPublishers (external, modelled  *)
(* by their contract).  A stream's delivers on a pool and makes the        *)
(* execution wait for room in its buffer.  A viewer's delivers inside the  *)
(* call that offers the event (its executor is Runnable::run), while that  *)
(* thread, an execution's, holds the publisher's lock: whoever else has an *)
(* event for the viewer waits for the lock, as does LiveTraceFeed.close,   *)
(* and at most the one event that is being delivered is in the buffer.     *)
(*                                                                         *)
(* What an execution does is a choice here (GraphExecutor has it in full): *)
(* of a node only its events matter.                                       *)
(***************************************************************************)
EXTENDS Integers, Sequences, FiniteSets

CONSTANTS
  Runs,         \* executions
  Streamed,     \* those that Graph.stream started, each with one client
  Viewers,      \* of the live feed
  Filters,      \* bound: what viewers watch, an execution or None for all
  MaxNodes,     \* maxSteps: nodes an execution enters
  Failing,      \* those in which something may fail
  Retried,      \* those with a node that has a retry policy
  MaxRetries,   \* bound: retries of such an execution
  Buffer,       \* of a stream's publisher
  Credit        \* SSE_CREDIT

None == "none"   \* no execution, no viewer's filter

ASSUME StreamingAssumption ==
  /\ None \notin Runs
  /\ Streamed \subseteq Runs /\ Failing \union Retried \subseteq Runs
  /\ Filters \subseteq Runs \union {None}
  /\ MaxNodes \in Nat \ {0} /\ MaxRetries \in Nat
  /\ {Buffer, Credit} \subseteq Nat \ {0}

VARIABLES
  at,          \* at[r]: where the thread of r is (Places)
  todo,        \* todo[r]: the events it has to tell before it goes on
  publishing,  \* publishing[r]: viewers its current event is still to be offered to
  nodes,       \* nodes[r], retries[r]: bounds
  retries,
  client,      \* client[r]: the subscriber of the stream (ClientStates)
  queue,       \* queue[r]: numbers of the events in the publisher's buffer
  demand,      \* demand[r]: what the client has requested
  closed,      \* closed[r]: how the publisher was closed
  viewer,      \* viewer[v]: the subscriber of the feed
  filter,      \* filter[v]: the execution it watches, None for all
  inbox,       \* inbox[v]: the event that is being delivered to it, if any
  deliverer,   \* deliverer[v]: the execution whose thread holds v's publisher
  ended,       \* viewers whose publisher is closed
  registered,  \* subscriptions
  feed,        \* the progress of LiveTraceFeed.close
  closing,     \* the viewers it is still to close
  submitted,   \* history: submitted[r]: how many events r has told its client
  seen,        \* history: seen[r]: the number of the last event the client was sent
  told,        \* history: told[r]: how many events r has told the feed
  last,        \* history: last[v][r]: the number of the last event v was sent
  lost         \* history: viewers that missed events told to the others

thread == <<at, todo, publishing, nodes, retries>>
stream == <<client, queue, demand, closed, submitted, seen>>
live == <<viewer, filter, inbox, deliverer, ended, registered, told, last, lost>>
vars == <<thread, stream, live, feed, closing>>

Places == {"waiting", "between", "inNode", "failed", "thrown", "returned", "offered", "ended"}
ClientStates == {"none", "open", "gone", "completed", "errored"}

(* Whom an execution tells of a step: its stream (a NodeEvent), the feed   *)
(* (a LiveTraceEvent).  Events are told apart by their numbers.            *)
ToStream == "stream"
ToFeed == "feed"
LiveEvent == [run : Runs, n : Nat]

TypeOK ==
  /\ at \in [Runs -> Places]
  /\ todo \in [Runs -> Seq({ToStream, ToFeed})]
  /\ publishing \in [Runs -> SUBSET Viewers]
  /\ client \in [Runs -> ClientStates]
  /\ queue \in [Runs -> Seq(Nat)]
  /\ \A r \in Runs : Len(queue[r]) <= Buffer /\ demand[r] \in 0 .. Credit
  /\ closed \in [Runs -> {"no", "complete", "error"}]
  /\ viewer \in [Viewers -> ClientStates]
  /\ filter \in [Viewers -> Runs \union {None}]
  /\ \A v \in Viewers : inbox[v] \in Seq(LiveEvent)
  /\ deliverer \in [Viewers -> Runs \union {None}]
  /\ ended \subseteq Viewers /\ registered \subseteq Viewers /\ lost \subseteq Viewers
  /\ feed \in {"open", "closing", "cleared"} /\ closing \subseteq Viewers

Init ==
  /\ at = [r \in Runs |-> "waiting"]
  /\ todo = [r \in Runs |-> <<>>]
  /\ publishing = [r \in Runs |-> {}]
  /\ nodes = [r \in Runs |-> 0]
  /\ retries = [r \in Runs |-> 0]
  /\ client = [r \in Runs |-> "none"]
  /\ queue = [r \in Runs |-> <<>>]
  /\ demand = [r \in Runs |-> 0]
  /\ closed = [r \in Runs |-> "no"]
  /\ viewer = [v \in Viewers |-> "none"]
  /\ filter = [v \in Viewers |-> None]
  /\ inbox = [v \in Viewers |-> <<>>]
  /\ deliverer = [v \in Viewers |-> None]
  /\ ended = {}
  /\ registered = {}
  /\ feed = "open"
  /\ closing = {}
  /\ submitted = [r \in Runs |-> 0]
  /\ seen = [r \in Runs |-> 0]
  /\ told = [r \in Runs |-> 0]
  /\ last = [v \in Viewers |-> [r \in Runs |-> 0]]
  /\ lost = {}

-----------------------------------------------------------------------------
(* The thread of an execution: of Graph.stream, or of whoever calls run    *)

(* It runs nothing while it delivers to a viewer.                          *)
Delivers(r) == \E v \in Viewers : deliverer[v] = r
CanGoOn(r) == todo[r] = <<>> /\ publishing[r] = {} /\ ~Delivers(r)

(* Wrong: an event for which there is no room is dropped.                  *)
SubmitOrDrop(r) ==
  /\ IF client[r] = "open"
     THEN /\ submitted' = [submitted EXCEPT ![r] = @ + 1]
          /\ queue' = IF Len(queue[r]) < Buffer
                      THEN [queue EXCEPT ![r] = Append(@, submitted[r] + 1)] ELSE queue
     ELSE UNCHANGED <<queue, submitted>>
  /\ UNCHANGED <<client, demand, closed, seen>>

(* StreamingNodeListener: submit waits for room in the buffer of a client  *)
(* that is there.                                                          *)
Submit(r) ==
  /\ IF client[r] = "open"
     THEN /\ Len(queue[r]) < Buffer
          /\ submitted' = [submitted EXCEPT ![r] = @ + 1]
          /\ queue' = [queue EXCEPT ![r] = Append(@, submitted[r] + 1)]
     ELSE UNCHANGED <<queue, submitted>>
  /\ UNCHANGED <<client, demand, closed, seen>>

Watches(v, r) == filter[v] \in {None, r}

(* LiveTraceFeed.publish: the subscriptions as they are now are gone       *)
(* through one by one (what those do that filter it out nobody sees).      *)
Publish(r) ==
  /\ told' = [told EXCEPT ![r] = @ + 1]
  /\ publishing' = [publishing EXCEPT ![r] = {v \in registered : Watches(v, r)}]
  /\ UNCHANGED <<viewer, filter, inbox, deliverer, ended, registered, last, lost>>

(* The thread tells the first of the events, and keeps the rest.           *)
Tells(r, place, events) ==
  /\ at' = [at EXCEPT ![r] = place]
  /\ todo' = [todo EXCEPT ![r] = Tail(events)]
  /\ IF Head(events) = ToStream
     THEN Submit(r) /\ UNCHANGED <<publishing, live>>
     ELSE Publish(r) /\ UNCHANGED stream
  /\ UNCHANGED <<feed, closing>>

(* Only an execution that is streamed has a StreamingNodeListener.         *)
Listeners(r) == IF r \in Streamed THEN <<ToStream>> ELSE <<>>
Step(r)      == Listeners(r) \o <<ToFeed>>

(* The latch: a stream runs nothing before there is a subscriber.          *)
Begin(r) ==
  /\ at[r] = "waiting"
  /\ r \in Streamed => client[r] # "none"
  /\ Tells(r, "between", <<ToFeed>>)
  /\ UNCHANGED <<nodes, retries>>

EnterNode(r) ==
  /\ at[r] = "between" /\ CanGoOn(r)
  /\ nodes[r] < MaxNodes
  /\ nodes' = [nodes EXCEPT ![r] = @ + 1]
  /\ Tells(r, "inNode", Step(r))
  /\ UNCHANGED retries

RetryNode(r) ==
  /\ at[r] = "inNode" /\ CanGoOn(r)
  /\ r \in Retried /\ retries[r] < MaxRetries
  /\ retries' = [retries EXCEPT ![r] = @ + 1]
  /\ Tells(r, "inNode", Step(r))
  /\ UNCHANGED nodes

NodeSucceeds(r) ==
  /\ at[r] = "inNode" /\ CanGoOn(r)
  /\ Tells(r, "between", Step(r))
  /\ UNCHANGED <<nodes, retries>>

(* In a node, or past it when the next one is chosen.                      *)
MayFail(r) ==
  r \in Failing /\ (at[r] = "inNode" \/ (at[r] = "between" /\ nodes[r] > 0))

(* A node, its fan-out or its target fails the execution.                  *)
Fails(r) ==
  /\ MayFail(r) /\ CanGoOn(r)
  /\ Tells(r, "failed", Step(r) \o <<ToFeed>>)
  /\ UNCHANGED <<nodes, retries>>

(* run throws: a predicate, or a listener that comes before the stream's.  *)
Throws(r) ==
  /\ MayFail(r) /\ CanGoOn(r)
  /\ Tells(r, "thrown", <<ToFeed>>)
  /\ UNCHANGED <<nodes, retries>>

TellsNext(r) ==
  /\ todo[r] # <<>> /\ publishing[r] = {} /\ ~Delivers(r)
  /\ Tells(r, at[r], todo[r])
  /\ UNCHANGED <<nodes, retries>>

(* run returns without an error; HALTED, at the step limit, records one in *)
(* the trace only.                                                         *)
Returns(r) ==
  /\ at[r] = "between" /\ CanGoOn(r)
  /\ \/ Tells(r, "returned", <<ToFeed>> \o Listeners(r))
     \/ /\ nodes[r] = MaxNodes
        /\ Tells(r, "returned", <<ToFeed, ToFeed>> \o Listeners(r))
  /\ UNCHANGED <<nodes, retries>>

(* A failed execution is offered once more: the offer gives up on a client *)
(* whose buffer stays full.                                                *)
OfferFailed(r) ==
  /\ at[r] = "failed" /\ CanGoOn(r) /\ r \in Streamed
  /\ \/ /\ client[r] = "open" /\ Len(queue[r]) < Buffer
        /\ queue' = [queue EXCEPT ![r] = Append(@, submitted[r] + 1)]
        /\ submitted' = [submitted EXCEPT ![r] = @ + 1]
     \/ /\ client[r] = "open" => Len(queue[r]) = Buffer
        /\ UNCHANGED <<queue, submitted>>
  /\ at' = [at EXCEPT ![r] = "offered"]
  /\ UNCHANGED <<todo, publishing, nodes, retries, client, demand, closed, seen, live, feed, closing>>

Close(r, how) ==
  /\ closed' = [closed EXCEPT ![r] = how]
  /\ at' = [at EXCEPT ![r] = "ended"]
  /\ nodes' = [nodes EXCEPT ![r] = 0]
  /\ retries' = [retries EXCEPT ![r] = 0]
  /\ UNCHANGED <<todo, publishing, client, queue, demand, submitted, seen,
                 live, feed, closing>>

CloseNormally(r) ==
  r \in Streamed /\ at[r] = "returned" /\ CanGoOn(r) /\ Close(r, "complete")

(* Wrong: an execution that failed leaves its publisher open.              *)
CloseExceptionallyForgets(r) ==
  r \in Streamed /\ at[r] \in {"offered", "thrown"} /\ CanGoOn(r) /\ Close(r, "no")

CloseExceptionally(r) ==
  r \in Streamed /\ at[r] \in {"offered", "thrown"} /\ CanGoOn(r) /\ Close(r, "error")

(* An execution that nobody streams.                                       *)
RunEnds(r) ==
  r \notin Streamed /\ at[r] \in {"failed", "thrown", "returned"} /\ CanGoOn(r) /\ Close(r, "no")

-----------------------------------------------------------------------------
(* TraceStreamController                                                   *)

ClientBecomes(r, state) ==
  /\ client' = [client EXCEPT ![r] = state]
  /\ queue' = [queue EXCEPT ![r] = <<>>]
  /\ UNCHANGED <<seen, submitted, closed>>

(* What it was sent does not matter any more.                              *)
ClientLeaves(r, state) ==
  /\ client' = [client EXCEPT ![r] = state]
  /\ queue' = [queue EXCEPT ![r] = <<>>]
  /\ demand' = [demand EXCEPT ![r] = 0]
  /\ submitted' = [submitted EXCEPT ![r] = 0]
  /\ seen' = [seen EXCEPT ![r] = 0]
  /\ UNCHANGED <<closed, thread, live, feed, closing>>

Subscribe(r) ==
  /\ r \in Streamed /\ client[r] = "none"
  /\ ClientBecomes(r, "open")
  /\ demand' = [demand EXCEPT ![r] = Credit]
  /\ UNCHANGED <<thread, live, feed, closing>>

CanDeliver(r) ==
  client[r] = "open" /\ closed[r] # "error" /\ queue[r] # <<>> /\ demand[r] > 0

(* Wrong: onNext asks for no more.                                         *)
DeliverNoCredit(r) ==
  /\ CanDeliver(r)
  /\ queue' = [queue EXCEPT ![r] = Tail(@)]
  /\ seen' = [seen EXCEPT ![r] = Head(queue[r])]
  /\ demand' = [demand EXCEPT ![r] = @ - 1]
  /\ UNCHANGED <<client, closed, submitted, thread, live, feed, closing>>

(* onNext: the event is sent and one more is requested in its place.       *)
Deliver(r) ==
  /\ CanDeliver(r)
  /\ queue' = [queue EXCEPT ![r] = Tail(@)]
  /\ seen' = [seen EXCEPT ![r] = Head(queue[r])]
  /\ UNCHANGED <<client, demand, closed, submitted, thread, live, feed, closing>>

(* The client is gone: cancel, from a send that fails or from the emitter. *)
Disconnect(r) ==
  /\ client[r] = "open"
  /\ ClientLeaves(r, "gone")

OnComplete(r) ==
  /\ client[r] = "open" /\ closed[r] = "complete" /\ queue[r] = <<>>
  /\ ClientBecomes(r, "completed")
  /\ UNCHANGED <<demand, thread, live, feed, closing>>

(* An error does not wait for the events in the buffer.                    *)
OnError(r) ==
  /\ client[r] = "open" /\ closed[r] = "error"
  /\ ClientLeaves(r, "errored")

-----------------------------------------------------------------------------
(* LiveTraceFeed                                                           *)

(* What it was sent does not matter any more.                              *)
ViewerBecomes(v, state) ==
  /\ viewer' = [viewer EXCEPT ![v] = state]
  /\ last' = [last EXCEPT ![v] = [r \in Runs |-> 0]]
  /\ lost' = lost \ {v}

(* SubmissionPublisher.offer takes the publisher's lock, which a thread    *)
(* that delivers to the viewer holds.                                      *)
OffersTo(r, v) == v \in publishing[r] /\ ~Delivers(r) /\ deliverer[v] = None

Offered(r, v) ==
  /\ publishing' = [publishing EXCEPT ![r] = @ \ {v}]
  /\ UNCHANGED <<at, todo, nodes, retries, stream, viewer, filter, ended, registered, told,
                 feed, closing>>

(* Nobody to offer it to: a viewer that has left keeps its place in the    *)
(* subscriptions.                                                          *)
OfferPasses(r, v) ==
  /\ OffersTo(r, v) /\ viewer[v] # "open" /\ v \notin ended
  /\ Offered(r, v)
  /\ UNCHANGED <<inbox, deliverer, last, lost>>

Accepts(r, v) == OffersTo(r, v) /\ viewer[v] = "open" /\ v \notin ended

(* Wrong: the event does not wait for the one that is being delivered.     *)
OfferUnlocked(r, v) ==
  /\ v \in publishing[r] /\ ~Delivers(r)
  /\ viewer[v] = "open" /\ v \notin ended
  /\ Offered(r, v)
  /\ inbox' = [inbox EXCEPT ![v] = <<[run |-> r, n |-> told[r]]>> \o @]
  /\ deliverer' = [deliverer EXCEPT ![v] = r]
  /\ UNCHANGED <<last, lost>>

(* The thread has the lock, and starts to deliver the event.               *)
Offer(r, v) ==
  /\ Accepts(r, v)
  /\ Offered(r, v)
  /\ inbox' = [inbox EXCEPT ![v] = Append(@, [run |-> r, n |-> told[r]])]
  /\ deliverer' = [deliverer EXCEPT ![v] = r]
  /\ UNCHANGED <<last, lost>>

(* offer throws when the feed has closed the publisher meanwhile: run      *)
(* throws what recordStart and recordComplete throw, and calls             *)
(* recordComplete for the others.                                          *)
OfferThrows(r, v) ==
  LET after == \E i \in 1 .. Len(todo[r]) : todo[r][i] = ToFeed
      alone == told[r] = 1 \/ (at[r] \in {"failed", "thrown", "returned"} /\ ~after)
  IN  /\ OffersTo(r, v) /\ v \in ended
      /\ at' = [at EXCEPT ![r] = "thrown"]
      /\ todo' = [todo EXCEPT ![r] = IF alone THEN <<>> ELSE <<ToFeed>>]
      /\ publishing' = [publishing EXCEPT ![r] = {}]
      /\ lost' = lost \union {w \in publishing[r] : viewer[w] = "open"}
      /\ UNCHANGED <<nodes, retries, stream, viewer, filter, inbox, deliverer, ended,
                     registered, told, last, feed, closing>>

(* A viewer's onNext, on the thread that delivers to it.                   *)
LiveDeliver(v) ==
  LET e == Head(inbox[v])
  IN  /\ inbox[v] # <<>>
      /\ inbox' = [inbox EXCEPT ![v] = Tail(@)]
      /\ last' = [last EXCEPT ![v][e.run] = e.n]
      /\ UNCHANGED <<viewer, filter, deliverer, ended, registered, told, lost, thread, stream,
                     feed, closing>>

(* It was delivered, or the viewer has left meanwhile: the thread gives up *)
(* the lock and goes on with its execution.                                *)
LiveDelivered(v) ==
  /\ deliverer[v] # None /\ inbox[v] = <<>>
  /\ deliverer' = [deliverer EXCEPT ![v] = None]
  /\ UNCHANGED <<viewer, filter, inbox, ended, registered, told, last, lost, thread, stream,
                 feed, closing>>

-----------------------------------------------------------------------------
(* TraceLiveController, and the application that closes the feed           *)

Watch(v, f) ==
  /\ viewer[v] = "none"
  /\ viewer' = [viewer EXCEPT ![v] = "open"]
  /\ filter' = [filter EXCEPT ![v] = f]
  /\ registered' = registered \union {v}
  /\ UNCHANGED <<inbox, deliverer, ended, told, last, lost, thread, stream, feed, closing>>

(* cancel, from a send that fails or from the emitter; it takes no lock.   *)
ViewerLeaves(v) ==
  /\ viewer[v] = "open"
  /\ ViewerBecomes(v, "gone")
  /\ inbox' = [inbox EXCEPT ![v] = <<>>]
  /\ UNCHANGED <<filter, deliverer, ended, registered, told, thread, stream, feed, closing>>

CloseFeed ==
  /\ feed = "open" /\ registered # {}
  /\ feed' = "closing"
  /\ closing' = registered
  /\ UNCHANGED <<thread, stream, live>>

(* SubmissionPublisher.close waits for the lock, and calls onComplete.     *)
CloseViewer(v) ==
  /\ v \in closing
  /\ deliverer[v] = None
  /\ closing' = closing \ {v}
  /\ ended' = ended \union {v}
  /\ IF viewer[v] = "open"
     THEN /\ ViewerBecomes(v, "completed")
          /\ registered' = registered \ {v}
     ELSE UNCHANGED <<viewer, registered, last, lost>>
  /\ UNCHANGED <<filter, inbox, deliverer, told, thread, stream, feed>>

ClearFeed ==
  /\ feed = "closing" /\ closing = {}
  /\ feed' = "cleared"
  /\ registered' = {}
  /\ UNCHANGED <<viewer, filter, inbox, deliverer, ended, told, last, lost, thread, stream, closing>>

-----------------------------------------------------------------------------
Execution(r) ==
  \/ Begin(r) \/ EnterNode(r) \/ RetryNode(r) \/ NodeSucceeds(r)
  \/ Fails(r) \/ Throws(r) \/ Returns(r)
  \/ OfferFailed(r) \/ CloseNormally(r) \/ CloseExceptionally(r) \/ RunEnds(r)
  \/ TellsNext(r)
  \/ \E v \in Viewers : OfferPasses(r, v) \/ Offer(r, v) \/ OfferThrows(r, v)

Delivery(r) == Deliver(r) \/ OnComplete(r) \/ OnError(r)
LiveDelivery(v) == LiveDeliver(v) \/ LiveDelivered(v)

Next ==
  \/ \E r \in Runs : Execution(r) \/ Delivery(r) \/ Subscribe(r) \/ Disconnect(r)
  \/ \E v \in Viewers : \/ LiveDelivery(v) \/ ViewerLeaves(v) \/ CloseViewer(v)
                        \/ \E f \in Filters : Watch(v, f)
  \/ CloseFeed \/ ClearFeed

Spec == Init /\ [][Next]_vars

(* Threads are scheduled, the pool too, and a client either reads what it  *)
(* is sent or loses its connection.                                        *)
SlowViewerSpec ==
  /\ Spec
  /\ \A r \in Runs : WF_vars(Execution(r)) /\ WF_vars(Delivery(r))

(* So does a viewer.                                                       *)
FairSpec == SlowViewerSpec /\ \A v \in Viewers : WF_vars(LiveDelivery(v))

-----------------------------------------------------------------------------
(* Properties                                                              *)

(* A client that is told the execution is complete was sent every event of *)
(* it, however slow it was, and until then it misses none in between.      *)
StreamIsWhole == \A r \in Runs :
  /\ client[r] = "completed" => seen[r] = submitted[r]
  /\ client[r] = "open" =>
       /\ submitted[r] = seen[r] + Len(queue[r])
       /\ \A i \in 1 .. Len(queue[r]) : queue[r][i] = seen[r] + i

(* The events of r in the buffer of v, and their numbers with that of the  *)
(* last one it was sent.                                                   *)
Waiting(v, r) == {i \in 1 .. Len(inbox[v]) : inbox[v][i].run = r}
Numbers(v, r) == {inbox[v][i].n : i \in Waiting(v, r)} \union ({last[v][r]} \ {0})

InOrder(v, r) ==
  /\ Numbers(v, r) \subseteq 1 .. told[r]
  /\ \A j \in Waiting(v, r) :
       /\ last[v][r] < inbox[v][j].n
       /\ \A i \in Waiting(v, r) : i < j => inbox[v][i].n < inbox[v][j].n
  /\ v \notin lost => \A a, b \in Numbers(v, r) : a .. b \subseteq Numbers(v, r)
  /\ viewer[v] = "open" /\ v \in registered \ (lost \union ended \union publishing[r])
       => Numbers(v, r) = {} \/ told[r] \in Numbers(v, r)

(* Whoever delivers to it, a viewer gets the events of an execution in the *)
(* order in which they happened, without a gap unless the feed was being   *)
(* closed, and up to the last one; none waits behind the one that is being *)
(* delivered, so that none is ever dropped for lack of room.               *)
LiveInOrder == \A v \in Viewers :
  Len(inbox[v]) <= 1 /\ \A r \in Runs : InOrder(v, r)

Room(r) == client[r] = "open" => Len(queue[r]) < Buffer

(* What guards the steps of an execution's thread; one that publishes has  *)
(* the list of viewers before it and may need any of their locks first.    *)
ThreadGoesOn(r) ==
  \/ at[r] = "waiting" /\ (r \in Streamed => client[r] # "none")
  \/ at[r] \in {"between", "inNode"} /\ CanGoOn(r) /\ Room(r)
  \/ at[r] \in {"failed", "offered", "thrown", "returned"} /\ CanGoOn(r)
  \/ todo[r] # <<>> /\ publishing[r] = {} /\ ~Delivers(r) /\ (Head(todo[r]) = ToStream => Room(r))
  \/ publishing[r] # {} /\ ~Delivers(r) /\ \A v \in publishing[r] : deliverer[v] = None

(* What guards the steps of its client.                                    *)
ClientGoesOn(r) ==
  \/ CanDeliver(r)
  \/ client[r] = "open" /\ closed[r] = "complete" /\ queue[r] = <<>>
  \/ client[r] = "open" /\ closed[r] = "error"

(* Its thread delivers to a viewer, or wants the lock that another thread  *)
(* holds while it does.  That one has no lock besides and delivers to      *)
(* nobody else, so it waits for nothing but this viewer.                   *)
WaitsForViewer(r) == \E v \in Viewers :
  /\ deliverer[v] # None
  /\ deliverer[v] = r \/ v \in publishing[r]
  /\ \A w \in Viewers : deliverer[w] = deliverer[v] => w = v

(* No stream with a client comes to a standstill: its thread or its client *)
(* can go on, or one viewer of the feed keeps it, and nothing but that     *)
(* viewer.                                                                 *)
StreamGoesOn == \A r \in Streamed :
  client[r] = "open" => ThreadGoesOn(r) \/ ClientGoesOn(r) \/ WaitsForViewer(r)

(* A stream that has a client ends, for the client and for the thread that *)
(* runs the execution.  LiveTraceFeed promises that viewers have no part   *)
(* in it ("a slow subscriber never blocks the executor"), which does not   *)
(* hold: see SlowViewerSpec.                                               *)
StreamsEnd == \A r \in Streamed :
  client[r] = "open" ~> client[r] # "open" /\ at[r] = "ended"
=============================================================================
