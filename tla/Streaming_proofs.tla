-------------------------- MODULE Streaming_proofs --------------------------
(***************************************************************************)
(* What is proved of executions that are watched, for any number of        *)
(* executions, clients and viewers and buffers of any size: the types,     *)
(* that a client misses nothing that happened before its stream completed, *)
(* that a viewer gets every execution's events in order, and that a stream *)
(* is kept up by its own client or by one viewer of the feed only.         *)
(***************************************************************************)
EXTENDS Streaming, SequenceTheorems, TLAPS

(* What TypeOK leaves out: the functions, and the histories.               *)
FunInv ==
  /\ demand \in [Runs -> 0 .. Credit]
  /\ inbox \in [Viewers -> Seq(LiveEvent)]
  /\ submitted \in [Runs -> Nat] /\ seen \in [Runs -> Nat] /\ told \in [Runs -> Nat]
  /\ last \in [Viewers -> [Runs -> Nat]]

TypeInv == TypeOK /\ FunInv

-----------------------------------------------------------------------------
(* Sequences                                                               *)

(* What is left of a buffer whose first event was taken.                   *)
LEMMA TailOf ==
  ASSUME NEW S, NEW q \in Seq(S), q # <<>>
  PROVE  /\ Tail(q) \in Seq(S) /\ Len(Tail(q)) = Len(q) - 1 /\ Len(q) > 0
         /\ Head(q) = q[1] /\ q[1] \in S
         /\ \A i \in 1 .. Len(q) - 1 : Tail(q)[i] = q[i + 1]
  OBVIOUS

Event == {ToStream, ToFeed}

(* What an execution tells, of whatever step, are events, at least one.    *)
LEMMA ToldEvents ==
  ASSUME NEW r \in Runs
  PROVE  /\ \A es \in {<<ToFeed>>, Step(r), Step(r) \o <<ToFeed>>,
                       <<ToFeed>> \o Listeners(r), <<ToFeed, ToFeed>> \o Listeners(r)} :
              es \in Seq(Event) /\ es # <<>>
<1>1. Listeners(r) \in Seq(Event)
  <2>1. <<ToStream>> \in Seq(Event) /\ <<>> \in Seq(Event)
    BY DEF Event
  <2> QED
    BY <2>1 DEF Listeners
<1>2. <<ToFeed>> \in Seq(Event) /\ <<ToFeed, ToFeed>> \in Seq(Event)
  BY DEF Event
<1>3. \A a, b \in Seq(Event) : a \o b \in Seq(Event) /\ Len(a \o b) = Len(a) + Len(b)
  OBVIOUS
<1>4. Len(<<ToFeed>>) = 1 /\ Len(<<ToFeed, ToFeed>>) = 2 /\ Len(<<>>) = 0
  OBVIOUS
<1>5. \A a \in Seq(Event) : Len(a) \in Nat
  OBVIOUS
<1>6. Step(r) \in Seq(Event) /\ Len(Step(r)) > 0
  BY <1>1, <1>2, <1>3, <1>4, <1>5 DEF Step
<1>7. Len(Step(r) \o <<ToFeed>>) > 0 /\ Step(r) \o <<ToFeed>> \in Seq(Event)
  BY <1>2, <1>3, <1>4, <1>5, <1>6
<1>8. /\ Len(<<ToFeed>> \o Listeners(r)) > 0 /\ <<ToFeed>> \o Listeners(r) \in Seq(Event)
      /\ Len(<<ToFeed, ToFeed>> \o Listeners(r)) > 0
      /\ <<ToFeed, ToFeed>> \o Listeners(r) \in Seq(Event)
  BY <1>1, <1>2, <1>3, <1>4, <1>5
<1> QED
  BY <1>2, <1>4, <1>6, <1>7, <1>8

-----------------------------------------------------------------------------
(* Types                                                                   *)

(* At first.                                                               *)
LEMMA TypeInit == Init => TypeInv
<1> SUFFICES ASSUME Init PROVE TypeInv
  OBVIOUS
<1> USE StreamingAssumption DEF Init
<1>1. <<>> \in Seq(Event) /\ <<>> \in Seq(Nat) /\ <<>> \in Seq(LiveEvent) /\ Len(<<>>) = 0
  OBVIOUS
<1>2. 0 \in 0 .. Credit
  OBVIOUS
<1>3. FunInv
  BY <1>1, <1>2 DEF FunInv
<1>4. TypeOK
  BY <1>1, <1>2 DEF TypeOK, Places, ClientStates, Event
<1> QED
  BY <1>3, <1>4 DEF TypeInv

(* The stream's part of a step that tells something.                       *)
LEMMA SubmitTypes ==
  ASSUME TypeInv, NEW r \in Runs, Submit(r)
  PROVE  /\ queue' \in [Runs -> Seq(Nat)] /\ \A q \in Runs : Len(queue'[q]) <= Buffer
         /\ submitted' \in [Runs -> Nat]
         /\ UNCHANGED <<client, demand, closed, seen>>
<1> USE StreamingAssumption DEF TypeInv, TypeOK, FunInv
<1>1. CASE client[r] = "open"
  <2>1. submitted[r] + 1 \in Nat /\ queue[r] \in Seq(Nat)
    OBVIOUS
  <2>2. /\ Append(queue[r], submitted[r] + 1) \in Seq(Nat)
        /\ Len(Append(queue[r], submitted[r] + 1)) = Len(queue[r]) + 1
    BY <2>1, AppendProperties
  <2>3. Len(queue[r]) < Buffer /\ Len(queue[r]) \in Nat
    BY <1>1, <2>1 DEF Submit
  <2>4. queue' = [queue EXCEPT ![r] = Append(queue[r], submitted[r] + 1)]
    BY <1>1 DEF Submit
  <2>5. Len(queue[r]) + 1 <= Buffer
    BY <2>3
  <2>6. queue' \in [Runs -> Seq(Nat)]
    BY <2>2, <2>4
  <2>7. \A q \in Runs : Len(queue'[q]) <= Buffer
    <3> SUFFICES ASSUME NEW q \in Runs PROVE Len(queue'[q]) <= Buffer
      OBVIOUS
    <3>1. CASE q = r
      BY <2>2, <2>4, <2>5, <3>1
    <3>2. CASE q # r
      BY <2>4, <3>2
    <3> QED
      BY <3>1, <3>2
  <2>8. submitted' = [submitted EXCEPT ![r] = submitted[r] + 1]
        /\ UNCHANGED <<client, demand, closed, seen>>
    BY <1>1 DEF Submit
  <2>9. submitted' \in [Runs -> Nat]
    BY <2>1, <2>8
  <2> QED
    BY <2>6, <2>7, <2>8, <2>9
<1>2. CASE client[r] # "open"
  BY <1>2 DEF Submit
<1> QED
  BY <1>1, <1>2

(* A step that tells something keeps the types.                            *)
LEMMA TellsTypes ==
  ASSUME TypeInv, NEW r \in Runs, NEW place \in Places, NEW es \in Seq(Event), es # <<>>,
         Tells(r, place, es)
  PROVE  TypeInv'
<1>1. at' \in [Runs -> Places] /\ todo' \in [Runs -> Seq(Event)]
  <2>1. Tail(es) \in Seq(Event)
    BY TailOf
  <2> QED
    BY <2>1 DEF Tells, TypeInv, TypeOK, Event
<1>2. CASE Head(es) = ToStream
  <2>1. Submit(r) /\ UNCHANGED <<publishing, live, feed, closing>>
    BY <1>2 DEF Tells
  <2>2. /\ queue' \in [Runs -> Seq(Nat)] /\ \A q \in Runs : Len(queue'[q]) <= Buffer
        /\ submitted' \in [Runs -> Nat]
        /\ UNCHANGED <<client, demand, closed, seen>>
    BY <2>1, SubmitTypes
  <2> QED
    BY <1>1, <2>1, <2>2 DEF TypeInv, TypeOK, FunInv, live, Event
<1>3. CASE Head(es) # ToStream
  <2>1. Publish(r) /\ UNCHANGED <<stream, feed, closing>>
    BY <1>3 DEF Tells
  <2>2. publishing' \in [Runs -> SUBSET Viewers] /\ told' \in [Runs -> Nat]
    BY <2>1 DEF Publish, TypeInv, TypeOK, FunInv
  <2> QED
    BY <1>1, <2>1, <2>2 DEF TypeInv, TypeOK, FunInv, Publish, stream, Event
<1> QED
  BY <1>2, <1>3

TellsSome(r) ==
  \/ Begin(r) \/ EnterNode(r) \/ RetryNode(r) \/ NodeSucceeds(r)
  \/ Fails(r) \/ Throws(r) \/ Returns(r) \/ TellsNext(r)

(* These are the steps that tell something: at such a step nothing is left *)
(* to offer, and the execution does not wait any more.                     *)
LEMMA TellingSteps ==
  ASSUME TypeInv, NEW r \in Runs, TellsSome(r), at[r] = "waiting" => publishing[r] = {} /\ todo[r] = <<>>
  PROVE  \E place \in Places \ {"waiting"} : \E es \in Seq(Event) :
            es # <<>> /\ publishing[r] = {} /\ Tells(r, place, es)
<1> USE ToldEvents
<1>1. CASE TellsNext(r)
  BY <1>1 DEF TellsNext, TypeInv, TypeOK, Event, Places
<1>2. CASE Begin(r)
  BY <1>2 DEF Begin, Places
<1>3. CASE EnterNode(r) \/ RetryNode(r)
  BY <1>3 DEF EnterNode, RetryNode, CanGoOn, Places
<1>4. CASE NodeSucceeds(r)
  BY <1>4 DEF NodeSucceeds, CanGoOn, Places
<1>5. CASE Fails(r) \/ Throws(r)
  BY <1>5 DEF Fails, Throws, CanGoOn, Places
<1>6. CASE Returns(r)
  BY <1>6 DEF Returns, CanGoOn, Places
<1> QED
  BY <1>1, <1>2, <1>3, <1>4, <1>5, <1>6 DEF TellsSome

(* The bounds keep the rest of the state of a thread apart from these.     *)
LEMMA TellsSomeTypes ==
  ASSUME TypeInv, NEW r \in Runs, TellsSome(r),
         at[r] = "waiting" => publishing[r] = {} /\ todo[r] = <<>>
  PROVE  TypeInv'
  BY TellingSteps, TellsTypes

(* The steps of an execution at its end keep the types.                    *)
LEMMA EndTypes ==
  ASSUME TypeInv, NEW r \in Runs,
         OfferFailed(r) \/ CloseNormally(r) \/ CloseExceptionally(r) \/ RunEnds(r)
  PROVE  TypeInv'
<1>1. CASE OfferFailed(r)
  <2>1. at' \in [Runs -> Places]
    BY <1>1 DEF OfferFailed, TypeInv, TypeOK, Places
  <2>2. CASE UNCHANGED <<queue, submitted>>
    BY <1>1, <2>1, <2>2 DEF OfferFailed, TypeInv, TypeOK, FunInv, live
  <2>3. CASE ~UNCHANGED <<queue, submitted>>
    <3>1. Submit(r)
      BY <1>1, <2>3 DEF OfferFailed, Submit
    <3>2. /\ queue' \in [Runs -> Seq(Nat)] /\ \A q \in Runs : Len(queue'[q]) <= Buffer
          /\ submitted' \in [Runs -> Nat]
      BY <3>1, SubmitTypes
    <3> QED
      BY <1>1, <2>1, <3>2 DEF OfferFailed, TypeInv, TypeOK, FunInv, live
  <2> QED
    BY <2>2, <2>3
<1>2. ASSUME NEW how \in {"no", "complete", "error"}, Close(r, how) PROVE TypeInv'
  BY <1>2 DEF Close, TypeInv, TypeOK, FunInv, live, Places
<1> QED
  BY <1>1, <1>2 DEF CloseNormally, CloseExceptionally, RunEnds

(* So do a client's.                                                       *)
LEMMA ClientTypes ==
  ASSUME TypeInv, NEW r \in Runs, Delivery(r) \/ Subscribe(r) \/ Disconnect(r)
  PROVE  TypeInv'
<1>0. <<>> \in Seq(Nat) /\ Len(<<>>) = 0 /\ Len(<<>>) <= Buffer
  BY StreamingAssumption
<1>1. CASE Deliver(r)
  <2>1. queue[r] \in Seq(Nat) /\ queue[r] # <<>> /\ Len(queue[r]) <= Buffer
    BY <1>1 DEF Deliver, CanDeliver, TypeInv, TypeOK
  <2>2. /\ Tail(queue[r]) \in Seq(Nat) /\ Len(Tail(queue[r])) = Len(queue[r]) - 1
        /\ Head(queue[r]) \in Nat
    BY <2>1, TailOf
  <2>3. Len(Tail(queue[r])) <= Buffer
    BY <2>1, <2>2, StreamingAssumption
  <2>4. queue' = [queue EXCEPT ![r] = Tail(queue[r])] /\ seen' = [seen EXCEPT ![r] = Head(queue[r])]
    BY <1>1 DEF Deliver
  <2>5. queue' \in [Runs -> Seq(Nat)] /\ seen' \in [Runs -> Nat]
    BY <2>2, <2>4 DEF TypeInv, TypeOK, FunInv
  <2>6. \A q \in Runs : Len(queue'[q]) <= Buffer
    BY <2>3, <2>4 DEF TypeInv, TypeOK
  <2> QED
    BY <1>1, <2>5, <2>6 DEF Deliver, TypeInv, TypeOK, FunInv, thread, live
<1>2. ASSUME NEW state \in ClientStates, ClientLeaves(r, state) PROVE TypeInv'
  <2>1. queue' \in [Runs -> Seq(Nat)] /\ \A q \in Runs : Len(queue'[q]) <= Buffer
    BY <1>0, <1>2 DEF ClientLeaves, TypeInv, TypeOK
  <2> QED
    BY <1>2, <2>1, StreamingAssumption
    DEF ClientLeaves, TypeInv, TypeOK, FunInv, thread, live
<1>3. ASSUME NEW state \in ClientStates, ClientBecomes(r, state),
             demand' \in [Runs -> 0 .. Credit], UNCHANGED <<thread, live, feed, closing>>
      PROVE TypeInv'
  <2>1. queue' \in [Runs -> Seq(Nat)] /\ \A q \in Runs : Len(queue'[q]) <= Buffer
    BY <1>0, <1>3 DEF ClientBecomes, TypeInv, TypeOK
  <2> QED
    BY <1>3, <2>1 DEF ClientBecomes, TypeInv, TypeOK, FunInv, thread, live
<1>4. Credit \in 0 .. Credit
  BY StreamingAssumption
<1>5. CASE Subscribe(r)
  BY <1>3, <1>4, <1>5 DEF Subscribe, ClientStates, TypeInv, FunInv
<1>6. CASE OnComplete(r)
  BY <1>3, <1>6 DEF OnComplete, ClientStates, TypeInv, FunInv
<1>7. CASE Disconnect(r) \/ OnError(r)
  BY <1>2, <1>7 DEF Disconnect, OnError, ClientStates
<1> QED
  BY <1>1, <1>5, <1>6, <1>7 DEF Delivery

(* And an offer to a viewer.                                               *)
LEMMA OfferTypes ==
  ASSUME TypeInv, NEW r \in Runs, NEW v \in Viewers,
         OfferPasses(r, v) \/ Offer(r, v) \/ OfferThrows(r, v)
  PROVE  TypeInv'
<1>1. CASE OfferPasses(r, v)
  BY <1>1 DEF OfferPasses, Offered, TypeInv, TypeOK, FunInv, stream
<1>2. CASE Offer(r, v)
  <2>1. publishing' \in [Runs -> SUBSET Viewers] /\ lost' \subseteq Viewers
        /\ deliverer' \in [Viewers -> Runs \union {None}]
    BY <1>2 DEF Offer, Offered, TypeInv, TypeOK
  <2>2. inbox' \in [Viewers -> Seq(LiveEvent)]
    <3> DEFINE e == [run |-> r, n |-> told[r]]
    <3>1. inbox' = [inbox EXCEPT ![v] = Append(inbox[v], e)]
      BY <1>2 DEF Offer
    <3>2. e \in LiveEvent /\ inbox[v] \in Seq(LiveEvent)
      BY DEF TypeInv, FunInv, LiveEvent
    <3> HIDE DEF e
    <3>3. Append(inbox[v], e) \in Seq(LiveEvent)
      BY <3>2, AppendProperties
    <3> QED
      BY <3>1, <3>3 DEF TypeInv, FunInv
  <2> QED
    BY <1>2, <2>1, <2>2 DEF Offer, Offered, TypeInv, TypeOK, FunInv, stream
<1>3. CASE OfferThrows(r, v)
  <2>1. <<>> \in Seq(Event) /\ <<ToFeed>> \in Seq(Event)
    BY DEF Event
  <2>2. todo' \in [Runs -> Seq(Event)]
    BY <1>3, <2>1 DEF OfferThrows, TypeInv, TypeOK, Event
  <2>3. at' \in [Runs -> Places] /\ publishing' \in [Runs -> SUBSET Viewers] /\ lost' \subseteq Viewers
    BY <1>3 DEF OfferThrows, TypeInv, TypeOK, Places
  <2> QED
    BY <1>3, <2>2, <2>3 DEF OfferThrows, TypeInv, TypeOK, FunInv, stream, Event
<1> QED
  BY <1>1, <1>2, <1>3

(* And what viewers and the feed do.                                       *)
LEMMA ViewerTypes ==
  ASSUME TypeInv, NEW v \in Viewers,
         \/ LiveDelivery(v) \/ ViewerLeaves(v) \/ CloseViewer(v)
         \/ \E f \in Filters : Watch(v, f)
  PROVE  TypeInv'
<1>0. <<>> \in Seq(LiveEvent)
  OBVIOUS
<1>1. ASSUME NEW state \in ClientStates, ViewerBecomes(v, state)
      PROVE  viewer' \in [Viewers -> ClientStates] /\ last' \in [Viewers -> [Runs -> Nat]]
             /\ lost' \subseteq Viewers
  BY <1>1 DEF ViewerBecomes, TypeInv, TypeOK, FunInv
<1>2. CASE LiveDeliver(v)
  <2>1. inbox[v] \in Seq(LiveEvent) /\ inbox[v] # <<>>
    BY <1>2 DEF LiveDeliver, TypeInv, TypeOK, FunInv
  <2>2. Tail(inbox[v]) \in Seq(LiveEvent) /\ Head(inbox[v]) \in LiveEvent
    BY <2>1, TailOf
  <2>4. inbox' = [inbox EXCEPT ![v] = Tail(inbox[v])]
    BY <1>2 DEF LiveDeliver
  <2>5. inbox' \in [Viewers -> Seq(LiveEvent)]
    BY <2>2, <2>4 DEF TypeInv, TypeOK, FunInv
  <2>6. last' \in [Viewers -> [Runs -> Nat]]
    BY <1>2, <2>2 DEF LiveDeliver, LiveEvent, TypeInv, FunInv
  <2> QED
    BY <1>2, <2>5, <2>6 DEF LiveDeliver, TypeInv, TypeOK, FunInv, thread, stream
<1>3. CASE LiveDelivered(v)
  BY <1>3 DEF LiveDelivered, TypeInv, TypeOK, FunInv, thread, stream
<1>4. CASE ViewerLeaves(v)
  <2>1. viewer' \in [Viewers -> ClientStates] /\ last' \in [Viewers -> [Runs -> Nat]]
        /\ lost' \subseteq Viewers
    BY <1>1, <1>4 DEF ViewerLeaves, ClientStates
  <2>2. inbox' \in [Viewers -> Seq(LiveEvent)]
    BY <1>0, <1>4 DEF ViewerLeaves, TypeInv, TypeOK, FunInv
  <2> QED
    BY <1>4, <2>1, <2>2 DEF ViewerLeaves, TypeInv, TypeOK, FunInv, thread, stream
<1>5. CASE CloseViewer(v)
  <2>1. viewer' \in [Viewers -> ClientStates] /\ last' \in [Viewers -> [Runs -> Nat]]
        /\ lost' \subseteq Viewers
    BY <1>1, <1>5 DEF CloseViewer, ClientStates, TypeInv, TypeOK, FunInv
  <2> QED
    BY <1>5, <2>1 DEF CloseViewer, TypeInv, TypeOK, FunInv, thread, stream
<1>6. ASSUME NEW f \in Filters, Watch(v, f) PROVE TypeInv'
  BY <1>6, StreamingAssumption
  DEF Watch, TypeInv, TypeOK, FunInv, thread, stream, ClientStates
<1> QED
  BY <1>2, <1>3, <1>4, <1>5, <1>6 DEF LiveDelivery

(* An execution that waits for its client has nothing to tell.             *)
WaitInv == \A r \in Runs :
  at[r] = "waiting" => publishing[r] = {} /\ todo[r] = <<>> /\ told[r] = 0

(* Every step keeps the types.                                             *)
LEMMA TypeNext == TypeInv /\ WaitInv /\ [Next]_vars => TypeInv'
<1> SUFFICES ASSUME TypeInv, WaitInv, [Next]_vars PROVE TypeInv'
  OBVIOUS
<1>1. ASSUME NEW r \in Runs, Execution(r) PROVE TypeInv'
  BY <1>1, TellsSomeTypes, EndTypes, OfferTypes DEF Execution, TellsSome, WaitInv
<1>2. CASE CloseFeed \/ ClearFeed
  BY <1>2 DEF CloseFeed, ClearFeed, TypeInv, TypeOK, FunInv, thread, stream, live
<1>3. CASE UNCHANGED vars
  BY <1>3 DEF vars, TypeInv, TypeOK, FunInv, thread, stream, live
<1> QED
  BY <1>1, <1>2, <1>3, ClientTypes, ViewerTypes DEF Next

(* Executions that wait do not tell, so the next steps keep to this too.   *)
LEMMA WaitNext == TypeInv /\ WaitInv /\ [Next]_vars => WaitInv'
<1> SUFFICES ASSUME TypeInv, WaitInv, [Next]_vars PROVE WaitInv'
  OBVIOUS
<1>1. ASSUME NEW r \in Runs, TellsSome(r) PROVE WaitInv'
  <2>1. PICK place \in Places \ {"waiting"}, es \in Seq(Event) : Tells(r, place, es)
    BY <1>1, TellingSteps DEF WaitInv
  <2>2. at'[r] # "waiting"
    BY <2>1 DEF Tells, TypeInv, TypeOK
  <2>3. ASSUME NEW q \in Runs, q # r
        PROVE  at'[q] = at[q] /\ publishing'[q] = publishing[q] /\ todo'[q] = todo[q]
               /\ told'[q] = told[q]
    BY <2>1, <2>3 DEF Tells, Publish, live, TypeInv, TypeOK, FunInv
  <2> QED
    BY <2>2, <2>3 DEF WaitInv
<1>2. ASSUME NEW r \in Runs,
             OfferFailed(r) \/ CloseNormally(r) \/ CloseExceptionally(r) \/ RunEnds(r)
      PROVE WaitInv'
  <2>1. UNCHANGED <<todo, publishing, told>>
    BY <1>2 DEF OfferFailed, CloseNormally, CloseExceptionally, RunEnds, Close, live
  <2>2. \A q \in Runs : at'[q] = "waiting" => at[q] = "waiting"
    BY <1>2 DEF OfferFailed, CloseNormally, CloseExceptionally, RunEnds, Close, TypeInv, TypeOK
  <2> QED
    BY <2>1, <2>2 DEF WaitInv
<1>3. ASSUME NEW r \in Runs, NEW v \in Viewers,
             OfferPasses(r, v) \/ Offer(r, v) \/ OfferThrows(r, v)
      PROVE WaitInv'
  <2>1. at[r] # "waiting"
    BY <1>3 DEF OfferPasses, Offer, Accepts, OfferThrows, OffersTo, WaitInv
  <2>2. told' = told /\ at'[r] # "waiting"
    BY <1>3, <2>1 DEF OfferPasses, Offer, Offered, OfferThrows, TypeInv, TypeOK
  <2>3. ASSUME NEW q \in Runs, q # r
        PROVE  at'[q] = at[q] /\ publishing'[q] = publishing[q] /\ todo'[q] = todo[q]
    BY <1>3, <2>3 DEF OfferPasses, Offer, Offered, OfferThrows, TypeInv, TypeOK
  <2> QED
    BY <2>2, <2>3 DEF WaitInv
<1>4. ASSUME NEW r \in Runs, Delivery(r) \/ Subscribe(r) \/ Disconnect(r) PROVE WaitInv'
  BY <1>4
  DEF Delivery, Deliver, OnComplete, OnError, Subscribe, Disconnect, ClientLeaves, thread, live,
      WaitInv
<1>5. ASSUME NEW v \in Viewers,
             \/ LiveDelivery(v) \/ ViewerLeaves(v) \/ CloseViewer(v)
             \/ \E f \in Filters : Watch(v, f)
      PROVE WaitInv'
  BY <1>5
  DEF LiveDelivery, LiveDeliver, LiveDelivered, ViewerLeaves, CloseViewer, Watch, thread, WaitInv
<1>6. CASE CloseFeed \/ ClearFeed \/ UNCHANGED vars
  BY <1>6 DEF CloseFeed, ClearFeed, vars, thread, live, WaitInv
<1> QED
  BY <1>1, <1>2, <1>3, <1>4, <1>5, <1>6 DEF Next, Execution, TellsSome

(* At first everybody waits.                                               *)
LEMMA WaitInit == Init => WaitInv
  BY DEF Init, WaitInv

(* Type correctness of executions, clients and viewers.                    *)
THEOREM TypeCorrect == Spec => []TypeOK
<1>1. TypeInv => TypeOK
  BY DEF TypeInv
<1> QED
  BY <1>1, TypeInit, TypeNext, WaitInit, WaitNext, PTL DEF Spec

-----------------------------------------------------------------------------
(* The stream                                                              *)

(* StreamIsWhole for one execution, and what a client that has not come    *)
(* finds.                                                                  *)
Whole(r) ==
  /\ client[r] = "completed" => seen[r] = submitted[r]
  /\ client[r] = "open" =>
       /\ submitted[r] = seen[r] + Len(queue[r])
       /\ \A i \in 1 .. Len(queue[r]) : queue[r][i] = seen[r] + i
  /\ client[r] = "none" => submitted[r] = 0 /\ seen[r] = 0 /\ queue[r] = <<>>

WholeInv == \A r \in Runs : Whole(r)

(* The executions that a step does not concern.                            *)
LEMMA SameStream ==
  ASSUME NEW r \in Runs, Whole(r),
         client'[r] = client[r], seen'[r] = seen[r], submitted'[r] = submitted[r],
         queue'[r] = queue[r]
  PROVE  Whole(r)'
  BY DEF Whole

(* An event is put at the end of the buffer, and its number is the next.   *)
LEMMA SubmitKeepsWhole ==
  ASSUME TypeInv, WholeInv, NEW r \in Runs, Submit(r)
  PROVE  WholeInv'
<1>1. CASE client[r] = "open"
  <2> DEFINE s == submitted[r] + 1
  <2>1. queue[r] \in Seq(Nat) /\ s \in Nat /\ seen[r] \in Nat
    BY DEF TypeInv, TypeOK, FunInv
  <2>2. /\ Len(Append(queue[r], s)) = Len(queue[r]) + 1
        /\ Append(queue[r], s)[Len(queue[r]) + 1] = s
        /\ \A i \in 1 .. Len(queue[r]) : Append(queue[r], s)[i] = queue[r][i]
    BY <2>1, AppendProperties
  <2>3. /\ queue' = [queue EXCEPT ![r] = Append(queue[r], s)]
        /\ submitted' = [submitted EXCEPT ![r] = s] /\ client' = client /\ seen' = seen
    BY <1>1 DEF Submit
  <2>4. s = seen[r] + Len(queue[r]) + 1
    BY <1>1 DEF WholeInv, Whole
  <2>5. queue'[r] = Append(queue[r], s) /\ submitted'[r] = s
    BY <2>3 DEF TypeInv, TypeOK, FunInv
  <2> HIDE DEF s
  <2>6. \A i \in 1 .. Len(queue'[r]) : queue'[r][i] = seen[r] + i
    <3> SUFFICES ASSUME NEW i \in 1 .. Len(queue'[r]) PROVE queue'[r][i] = seen[r] + i
      OBVIOUS
    <3>1. Len(queue[r]) \in Nat
      BY <2>1
    <3>2. CASE i = Len(queue[r]) + 1
      BY <2>1, <2>2, <2>4, <2>5, <3>1, <3>2
    <3>3. CASE i \in 1 .. Len(queue[r])
      BY <1>1, <2>2, <2>5, <3>3 DEF WholeInv, Whole
    <3> QED
      BY <2>2, <2>5, <3>1, <3>2, <3>3
  <2>7. submitted'[r] = seen[r] + Len(queue'[r])
    BY <2>1, <2>2, <2>4, <2>5
  <2>8. Whole(r)'
    BY <1>1, <2>3, <2>6, <2>7 DEF Whole
  <2>9. ASSUME NEW q \in Runs, q # r PROVE Whole(q)'
    BY <2>3, <2>9, SameStream DEF WholeInv, TypeInv, TypeOK, FunInv
  <2> QED
    BY <2>8, <2>9 DEF WholeInv
<1>2. CASE client[r] # "open"
  BY <1>2 DEF Submit, WholeInv, Whole
<1> QED
  BY <1>1, <1>2

(* The event that is delivered is the one after the last.                  *)
LEMMA DeliverKeepsWhole ==
  ASSUME TypeInv, WholeInv, NEW r \in Runs, Deliver(r)
  PROVE  WholeInv'
<1>1. queue[r] \in Seq(Nat) /\ queue[r] # <<>> /\ seen[r] \in Nat /\ client[r] = "open"
  BY DEF Deliver, CanDeliver, TypeInv, TypeOK, FunInv
<1>2. /\ Len(Tail(queue[r])) = Len(queue[r]) - 1 /\ Len(queue[r]) > 0
      /\ Head(queue[r]) = queue[r][1]
      /\ \A i \in 1 .. Len(queue[r]) - 1 : Tail(queue[r])[i] = queue[r][i + 1]
  BY <1>1, TailOf
<1>3. Len(queue[r]) \in Nat
  BY <1>1
<1>4. /\ queue' = [queue EXCEPT ![r] = Tail(queue[r])]
      /\ seen' = [seen EXCEPT ![r] = Head(queue[r])] /\ client' = client /\ submitted' = submitted
  BY DEF Deliver
<1>5. queue'[r] = Tail(queue[r]) /\ seen'[r] = Head(queue[r])
  BY <1>4 DEF TypeInv, TypeOK, FunInv
<1>6. /\ submitted[r] = seen[r] + Len(queue[r])
      /\ \A i \in 1 .. Len(queue[r]) : queue[r][i] = seen[r] + i
  BY <1>1 DEF WholeInv, Whole
<1>7. seen'[r] = seen[r] + 1
  BY <1>2, <1>3, <1>5, <1>6
<1>8. submitted'[r] = seen'[r] + Len(queue'[r])
  <2>1. \A n \in Nat, k \in Nat : n + k = n + 1 + (k - 1)
    OBVIOUS
  <2>2. submitted'[r] = seen[r] + Len(queue[r]) /\ Len(queue'[r]) = Len(queue[r]) - 1
    BY <1>2, <1>4, <1>5, <1>6
  <2> QED
    BY <1>1, <1>3, <1>7, <2>1, <2>2
<1>9. \A i \in 1 .. Len(queue'[r]) : queue'[r][i] = seen'[r] + i
  <2> SUFFICES ASSUME NEW i \in 1 .. Len(queue[r]) - 1 PROVE Tail(queue[r])[i] = seen[r] + 1 + i
    BY <1>2, <1>5, <1>7
  <2>1. i + 1 \in 1 .. Len(queue[r])
    BY <1>3
  <2> QED
    <3>1. Tail(queue[r])[i] = queue[r][i + 1]
      BY <1>2
    <3>2. queue[r][i + 1] = seen[r] + (i + 1)
      BY <1>6, <2>1
    <3>3. \A n \in Nat : n + (i + 1) = n + 1 + i
      OBVIOUS
    <3> QED
      BY <1>1, <3>1, <3>2, <3>3
<1>10. Whole(r)'
  BY <1>1, <1>4, <1>8, <1>9 DEF Whole
<1>11. ASSUME NEW q \in Runs, q # r PROVE Whole(q)'
  BY <1>4, <1>11, SameStream DEF WholeInv, TypeInv, TypeOK, FunInv
<1> QED
  BY <1>10, <1>11 DEF WholeInv

(* So the stream is whole after whatever step.                             *)
LEMMA WholeNext == TypeInv /\ WaitInv /\ WholeInv /\ [Next]_vars => WholeInv'
<1> SUFFICES ASSUME TypeInv, WaitInv, WholeInv, [Next]_vars PROVE WholeInv'
  OBVIOUS
<1>0. ASSUME UNCHANGED <<client, queue, submitted, seen>> PROVE WholeInv'
  BY <1>0 DEF WholeInv, Whole
<1>1. ASSUME NEW r \in Runs, TellsSome(r) PROVE WholeInv'
  <2>1. PICK place \in Places, es \in Seq(Event) : Tells(r, place, es)
    BY <1>1, TellingSteps DEF WaitInv
  <2> QED
    BY <1>0, <2>1, SubmitKeepsWhole DEF Tells, stream
<1>2. ASSUME NEW r \in Runs, OfferFailed(r) PROVE WholeInv'
  <2>1. CASE UNCHANGED <<queue, submitted>>
    BY <1>0, <1>2, <2>1 DEF OfferFailed
  <2>2. CASE ~UNCHANGED <<queue, submitted>>
    BY <1>2, <2>2, SubmitKeepsWhole DEF OfferFailed, Submit
  <2> QED
    BY <2>1, <2>2
<1>3. ASSUME NEW r \in Runs, CloseNormally(r) \/ CloseExceptionally(r) \/ RunEnds(r)
      PROVE WholeInv'
  BY <1>0, <1>3 DEF CloseNormally, CloseExceptionally, RunEnds, Close
<1>4. ASSUME NEW r \in Runs, NEW v \in Viewers,
             OfferPasses(r, v) \/ Offer(r, v) \/ OfferThrows(r, v)
      PROVE WholeInv'
  BY <1>0, <1>4 DEF OfferPasses, Offer, Offered, OfferThrows, stream
<1>5. ASSUME NEW r \in Runs, Subscribe(r) \/ Disconnect(r) \/ OnComplete(r) \/ OnError(r)
      PROVE WholeInv'
  <2>1. ASSUME NEW q \in Runs, q # r
        PROVE  client'[q] = client[q] /\ seen'[q] = seen[q] /\ submitted'[q] = submitted[q]
               /\ queue'[q] = queue[q]
    BY <1>5, <2>1
    DEF Subscribe, Disconnect, OnComplete, OnError, ClientLeaves, ClientBecomes, TypeInv, TypeOK,
        FunInv
  <2>2. Whole(r)'
    <3>1. CASE Disconnect(r) \/ OnError(r)
      BY <3>1 DEF Disconnect, OnError, ClientLeaves, Whole, TypeInv, TypeOK
    <3>2. Whole(r) /\ seen[r] \in Nat /\ Len(<<>>) = 0
      BY DEF WholeInv, TypeInv, FunInv
    <3>3. CASE Subscribe(r) \/ OnComplete(r)
      <4>1. queue'[r] = <<>> /\ seen' = seen /\ submitted' = submitted
        BY <3>3 DEF Subscribe, OnComplete, ClientBecomes, TypeInv, TypeOK
      <4>2. CASE Subscribe(r)
        <5>1. client[r] = "none" /\ client'[r] = "open"
          BY <4>2 DEF Subscribe, ClientBecomes, TypeInv, TypeOK
        <5>2. submitted'[r] = 0 /\ seen'[r] = 0
          BY <3>2, <4>1, <5>1 DEF Whole
        <5> QED
          BY <3>2, <4>1, <5>1, <5>2 DEF Whole
      <4>3. CASE OnComplete(r)
        BY <3>2, <4>1, <4>3 DEF OnComplete, ClientBecomes, Whole, TypeInv, TypeOK
      <4> QED
        BY <3>3, <4>2, <4>3
    <3> QED
      BY <1>5, <3>1, <3>3
  <2> QED
    BY <2>1, <2>2, SameStream DEF WholeInv
<1>6. ASSUME NEW v \in Viewers,
             \/ LiveDelivery(v) \/ ViewerLeaves(v) \/ CloseViewer(v)
             \/ \E f \in Filters : Watch(v, f)
      PROVE WholeInv'
  BY <1>0, <1>6
  DEF LiveDelivery, LiveDeliver, LiveDelivered, ViewerLeaves, CloseViewer, Watch, stream
<1>7. CASE CloseFeed \/ ClearFeed \/ UNCHANGED vars
  BY <1>0, <1>7 DEF CloseFeed, ClearFeed, vars, stream
<1> QED
  BY <1>1, <1>2, <1>3, <1>4, <1>5, <1>6, <1>7, DeliverKeepsWhole
  DEF Next, Execution, Delivery, TellsSome

(* At first no client has come.                                            *)
LEMMA WholeInit == Init => WholeInv
  BY DEF Init, WholeInv, Whole

(* A client that is told its execution is complete was sent every event of *)
(* it, whatever the buffer, the credit and the speed of its reading.       *)
THEOREM StreamsAreWhole == Spec => []StreamIsWhole
<1>1. WholeInv => StreamIsWhole
  BY DEF WholeInv, Whole, StreamIsWhole
<1> QED
  BY <1>1, TypeInit, TypeNext, WaitInit, WaitNext, WholeInit, WholeNext, PTL DEF Spec

-----------------------------------------------------------------------------
(* The live feed                                                           *)

(* A viewer gets events of executions that it watches.                     *)
Watched(v, r) == Numbers(v, r) # {} => Watches(v, r)

(* A viewer that is not there has nothing waiting, and one that has not    *)
(* come is not among those who are told.                                   *)
Present(v, r) ==
  /\ viewer[v] # "open" => inbox[v] = <<>> /\ last[v][r] = 0
  /\ viewer[v] = "none" => v \notin registered /\ v \notin publishing[r]

(* An event that is still to be offered is newer than what the viewer has, *)
(* by one if it missed none.                                               *)
Expected(v, r) == v \in publishing[r] =>
  /\ Watches(v, r)
  /\ told[r] > 0
  /\ Numbers(v, r) \subseteq 1 .. told[r] - 1
  /\ viewer[v] = "open" /\ v \notin lost \union ended
       => Numbers(v, r) = {} \/ told[r] - 1 \in Numbers(v, r)

Pair(v, r) == InOrder(v, r) /\ Watched(v, r) /\ Present(v, r) /\ Expected(v, r)

(* What is in the buffer of a viewer is being delivered by somebody, and   *)
(* nothing waits behind it.                                                *)
Delivered(v) == /\ inbox[v] # <<>> => deliverer[v] # None
                /\ Len(inbox[v]) <= 1

LiveInv == /\ \A v \in Viewers, r \in Runs : Pair(v, r)
           /\ \A v \in Viewers : Delivered(v)

(* Numbers depend on the buffer and the last event only.                   *)
LEMMA SameNumbers ==
  ASSUME NEW v \in Viewers, NEW r \in Runs, inbox'[v] = inbox[v], last'[v][r] = last[v][r]
  PROVE  Waiting(v, r)' = Waiting(v, r) /\ Numbers(v, r)' = Numbers(v, r)
  BY DEF Waiting, Numbers

(* Nothing waits, nothing was sent: no numbers.                            *)
LEMMA NoNumbers ==
  \A v \in Viewers, r \in Runs :
    inbox[v] = <<>> /\ last[v][r] = 0 => Waiting(v, r) = {} /\ Numbers(v, r) = {}
  BY DEF Waiting, Numbers

(* The viewers and executions that a step does not concern, but that they  *)
(* are not registered any more, missed an event, or see the feed close.    *)
LEMMA SamePair ==
  ASSUME NEW v \in Viewers, NEW r \in Runs, Pair(v, r),
         inbox'[v] = inbox[v], last'[v][r] = last[v][r], told'[r] = told[r],
         viewer'[v] = viewer[v], filter'[v] = filter[v],
         v \in registered' => v \in registered,
         v \in lost => v \in lost', v \in ended => v \in ended',
         v \in publishing'[r] => v \in publishing[r],
         v \in publishing[r] /\ v \notin publishing'[r] =>
           viewer[v] # "open" \/ v \in lost' \union ended'
  PROVE  Pair(v, r)'
<1>1. Waiting(v, r)' = Waiting(v, r) /\ Numbers(v, r)' = Numbers(v, r)
  BY SameNumbers
<1>2. Watches(v, r)' = Watches(v, r)
  BY DEF Watches
<1>3. InOrder(v, r)'
  <2>1. Numbers(v, r)' \subseteq 1 .. told'[r]
    BY <1>1 DEF Pair, InOrder
  <2>2. \A j \in Waiting(v, r)' :
          /\ last'[v][r] < inbox'[v][j].n
          /\ \A i \in Waiting(v, r)' : i < j => inbox'[v][i].n < inbox'[v][j].n
    BY <1>1 DEF Pair, InOrder
  <2>3. v \notin lost' => \A a, b \in Numbers(v, r)' : a .. b \subseteq Numbers(v, r)'
    BY <1>1 DEF Pair, InOrder
  <2>4. viewer'[v] = "open" /\ v \in registered' \ (lost' \union ended' \union publishing'[r])
          => Numbers(v, r)' = {} \/ told'[r] \in Numbers(v, r)'
    BY <1>1 DEF Pair, InOrder
  <2> QED
    BY <2>1, <2>2, <2>3, <2>4 DEF InOrder
<1>4. Watched(v, r)'
  BY <1>1, <1>2 DEF Pair, Watched
<1>5. Present(v, r)'
  BY DEF Pair, Present
<1>6. Expected(v, r)'
  BY <1>1, <1>2 DEF Pair, Expected
<1> QED
  BY <1>3, <1>4, <1>5, <1>6 DEF Pair

(* A viewer that has left, or that just came.                              *)
LEMMA EmptyPair ==
  ASSUME NEW v \in Viewers, NEW r \in Runs, Pair(v, r),
         inbox'[v] = <<>>, last'[v][r] = 0, viewer'[v] # "none",
         told'[r] = told[r], publishing'[r] = publishing[r],
         filter'[v] = filter[v] \/ v \notin publishing[r]
  PROVE  Pair(v, r)'
<1>1. Waiting(v, r)' = {} /\ Numbers(v, r)' = {}
  <2>1. Waiting(v, r)' = {}
    BY DEF Waiting
  <2> QED
    BY <2>1 DEF Numbers
<1>2. InOrder(v, r)' /\ Watched(v, r)' /\ Present(v, r)'
  BY <1>1 DEF InOrder, Watched, Present
<1>3. Expected(v, r)'
  BY <1>1 DEF Pair, Expected, Watches
<1> QED
  BY <1>2, <1>3 DEF Pair

(* To publish: whoever is registered and watches is to be offered the next *)
(* number.                                                                 *)
LEMMA PublishKeeps ==
  ASSUME TypeInv, LiveInv, NEW r \in Runs, publishing[r] = {}, Publish(r)
  PROVE  LiveInv'
<1>1. /\ told' = [told EXCEPT ![r] = told[r] + 1] /\ told[r] \in Nat
      /\ publishing' = [publishing EXCEPT ![r] = {v \in registered : Watches(v, r)}]
      /\ UNCHANGED <<viewer, filter, inbox, deliverer, ended, registered, last, lost>>
  BY DEF Publish, TypeInv, FunInv
<1>2. told'[r] = told[r] + 1 /\ publishing'[r] = {v \in registered : Watches(v, r)}
  BY <1>1 DEF TypeInv, TypeOK, FunInv
<1>3. ASSUME NEW v \in Viewers PROVE Pair(v, r)'
  <2>0. Pair(v, r)
    BY DEF LiveInv
  <2>1. Waiting(v, r)' = Waiting(v, r) /\ Numbers(v, r)' = Numbers(v, r)
        /\ Watches(v, r)' = Watches(v, r)
    BY <1>1, SameNumbers DEF Watches
  <2>2. Numbers(v, r) \subseteq 1 .. told[r]
    BY <2>0 DEF Pair, InOrder
  <2>3. InOrder(v, r)'
    <3>1. Numbers(v, r)' \subseteq 1 .. told'[r]
      BY <1>1, <1>2, <2>1, <2>2
    <3>2. \A j \in Waiting(v, r)' :
            /\ last'[v][r] < inbox'[v][j].n
            /\ \A i \in Waiting(v, r)' : i < j => inbox'[v][i].n < inbox'[v][j].n
      BY <1>1, <2>0, <2>1 DEF Pair, InOrder
    <3>3. v \notin lost' => \A a, b \in Numbers(v, r)' : a .. b \subseteq Numbers(v, r)'
      BY <1>1, <2>0, <2>1 DEF Pair, InOrder
    <3>4. v \in registered' \ publishing'[r] => Numbers(v, r)' = {}
      BY <1>1, <1>2, <2>0, <2>1 DEF Pair, Watched
    <3> QED
      BY <3>1, <3>2, <3>3, <3>4 DEF InOrder
  <2>4. Watched(v, r)' /\ Present(v, r)'
    BY <1>1, <1>2, <2>0, <2>1 DEF Pair, Watched, Present
  <2>5. Expected(v, r)'
    <3> SUFFICES ASSUME v \in publishing'[r]
                 PROVE  /\ Watches(v, r)' /\ told'[r] > 0
                        /\ Numbers(v, r)' \subseteq 1 .. told'[r] - 1
                        /\ viewer'[v] = "open" /\ v \notin lost' \union ended'
                             => Numbers(v, r)' = {} \/ told'[r] - 1 \in Numbers(v, r)'
      BY DEF Expected
    <3>1. v \in registered /\ Watches(v, r)
      BY <1>2
    <3>2. told'[r] - 1 = told[r] /\ told'[r] > 0
      BY <1>1, <1>2
    <3>3. viewer[v] = "open" /\ v \notin lost \union ended
            => Numbers(v, r) = {} \/ told[r] \in Numbers(v, r)
      BY <2>0, <3>1 DEF Pair, InOrder
    <3> QED
      BY <1>1, <2>1, <2>2, <3>1, <3>2, <3>3
  <2> QED
    BY <2>3, <2>4, <2>5 DEF Pair
<1>4. ASSUME NEW v \in Viewers, NEW q \in Runs, q # r PROVE Pair(v, q)'
  <2>1. told'[q] = told[q] /\ publishing'[q] = publishing[q]
    BY <1>1, <1>4 DEF TypeInv, TypeOK, FunInv
  <2> QED
    BY <1>1, <2>1, SamePair DEF LiveInv
<1> QED
  BY <1>1, <1>3, <1>4 DEF LiveInv, Delivered

(* The event that is put into the buffer is the next of its execution, and *)
(* no other execution's events move.                                       *)
LEMMA AcceptKeeps ==
  ASSUME TypeInv, LiveInv, NEW r \in Runs, NEW v \in Viewers, v \in publishing[r],
         viewer[v] = "open", v \notin ended,
         inbox' = [inbox EXCEPT ![v] = Append(inbox[v], [run |-> r, n |-> told[r]])],
         publishing' = [publishing EXCEPT ![r] = publishing[r] \ {v}],
         deliverer[v] = None, deliverer' = [deliverer EXCEPT ![v] = r],
         UNCHANGED <<viewer, filter, ended, registered, told, last, lost>>
  PROVE  LiveInv'
<1> DEFINE e == [run |-> r, n |-> told[r]]
<1>1. inbox[v] \in Seq(LiveEvent) /\ e \in LiveEvent /\ e.run = r /\ e.n = told[r]
      /\ told[r] \in Nat /\ last[v] \in [Runs -> Nat]
  BY DEF TypeInv, FunInv, LiveEvent
<1>2. inbox'[v] = Append(inbox[v], e) /\ \A w \in Viewers : w # v => inbox'[w] = inbox[w]
  BY DEF TypeInv, FunInv
<1> HIDE DEF e
<1>3. /\ Len(Append(inbox[v], e)) = Len(inbox[v]) + 1
      /\ Append(inbox[v], e)[Len(inbox[v]) + 1] = e
      /\ \A i \in 1 .. Len(inbox[v]) : Append(inbox[v], e)[i] = inbox[v][i]
  BY <1>1, AppendProperties
<1>4. Len(inbox[v]) \in Nat
  BY <1>1
<1> DEFINE new == Len(inbox[v]) + 1
<1>5. /\ new \in Nat /\ new \notin 1 .. Len(inbox[v])
      /\ 1 .. Len(inbox'[v]) = 1 .. Len(inbox[v]) \union {new}
      /\ \A i \in 1 .. Len(inbox[v]) : i < new
      /\ inbox'[v][new] = e /\ \A i \in 1 .. Len(inbox[v]) : inbox'[v][i] = inbox[v][i]
  BY <1>2, <1>3, <1>4
<1> HIDE DEF new
<1>6. ASSUME NEW q \in Runs, q # r PROVE Pair(v, q)'
  <2>1. Waiting(v, q)' = Waiting(v, q)
    <3>1. \A i : i \in Waiting(v, q)' <=> i \in 1 .. Len(inbox'[v]) /\ inbox'[v][i].run = q
      BY DEF Waiting
    <3>2. \A i : i \in Waiting(v, q) <=> i \in 1 .. Len(inbox[v]) /\ inbox[v][i].run = q
      BY DEF Waiting
    <3>3. inbox'[v][new].run # q
      BY <1>1, <1>5, <1>6
    <3>4. \A i : i \in Waiting(v, q)' <=> i \in Waiting(v, q)
      BY <1>5, <3>1, <3>2, <3>3
    <3> QED
      BY <3>4 DEF Waiting
  <2>2. \A i \in Waiting(v, q) : inbox'[v][i] = inbox[v][i]
    BY <1>5 DEF Waiting
  <2>3. Numbers(v, q)' = Numbers(v, q)
    BY <2>1, <2>2 DEF Numbers
  <2>4. Pair(v, q) /\ publishing'[q] = publishing[q]
    BY <1>6 DEF LiveInv, TypeInv, TypeOK
  <2>5. InOrder(v, q)'
    <3>0. InOrder(v, q)
      BY <2>4 DEF Pair
    <3>1. Numbers(v, q)' \subseteq 1 .. told'[q]
      BY <2>3, <3>0 DEF InOrder
    <3>2. \A j \in Waiting(v, q)' :
            /\ last'[v][q] < inbox'[v][j].n
            /\ \A i \in Waiting(v, q)' : i < j => inbox'[v][i].n < inbox'[v][j].n
      BY <2>1, <2>2, <3>0 DEF InOrder
    <3>3. v \notin lost' => \A a, b \in Numbers(v, q)' : a .. b \subseteq Numbers(v, q)'
      BY <2>3, <3>0 DEF InOrder
    <3>4. viewer'[v] = "open" /\ v \in registered' \ (lost' \union ended' \union publishing'[q])
            => Numbers(v, q)' = {} \/ told'[q] \in Numbers(v, q)'
      BY <2>3, <2>4, <3>0 DEF InOrder
    <3> QED
      BY <3>1, <3>2, <3>3, <3>4 DEF InOrder
  <2>6. Watched(v, q)' /\ Present(v, q)' /\ Expected(v, q)'
    BY <2>3, <2>4 DEF Pair, Watched, Present, Expected, Watches
  <2> QED
    BY <2>5, <2>6 DEF Pair
<1>7. Pair(v, r)'
  <2>0. Pair(v, r) /\ v \notin publishing'[r]
    BY DEF LiveInv, TypeInv, TypeOK
  <2>1. Waiting(v, r)' = Waiting(v, r) \union {new} /\ new \notin Waiting(v, r)
    <3>1. \A i : i \in Waiting(v, r)' <=> i \in 1 .. Len(inbox'[v]) /\ inbox'[v][i].run = r
      BY DEF Waiting
    <3>2. \A i : i \in Waiting(v, r) <=> i \in 1 .. Len(inbox[v]) /\ inbox[v][i].run = r
      BY DEF Waiting
    <3>3. inbox'[v][new].run = r
      BY <1>1, <1>5
    <3>4. \A i : i \in Waiting(v, r)' <=> i \in Waiting(v, r) \union {new}
      BY <1>5, <3>1, <3>2, <3>3
    <3>5. new \notin Waiting(v, r)
      BY <1>5, <3>2
    <3> QED
      BY <3>4, <3>5 DEF Waiting
  <2>2. /\ \A i \in Waiting(v, r) : inbox'[v][i] = inbox[v][i] /\ i < new /\ i \in Nat
        /\ inbox'[v][new].n = told[r]
    BY <1>1, <1>5 DEF Waiting
  <2>3. Numbers(v, r)' = Numbers(v, r) \union {told[r]}
    BY <2>1, <2>2 DEF Numbers
  <2>4. /\ told[r] > 0 /\ Numbers(v, r) \subseteq 1 .. told[r] - 1 /\ Watches(v, r)
        /\ v \notin lost => Numbers(v, r) = {} \/ told[r] - 1 \in Numbers(v, r)
    BY <2>0 DEF Pair, Expected
  <2>5. ASSUME NEW i \in Waiting(v, r) PROVE inbox[v][i].n < told[r]
    <3>1. inbox[v][i].n \in Numbers(v, r)
      BY DEF Numbers
    <3> QED
      BY <1>1, <2>4, <3>1
  <2>6. last[v][r] < told[r]
    <3>1. CASE last[v][r] = 0
      BY <2>4, <3>1
    <3>2. CASE last[v][r] # 0
      <4>1. last[v][r] \in Numbers(v, r)
        BY <3>2 DEF Numbers
      <4> QED
        BY <1>1, <2>4, <4>1
    <3> QED
      BY <3>1, <3>2
  <2>7. \A j \in Waiting(v, r)' :
          /\ last'[v][r] < inbox'[v][j].n
          /\ \A i \in Waiting(v, r)' : i < j => inbox'[v][i].n < inbox'[v][j].n
    <3> SUFFICES ASSUME NEW j \in Waiting(v, r)'
                 PROVE  /\ last[v][r] < inbox'[v][j].n
                        /\ \A i \in Waiting(v, r)' : i < j => inbox'[v][i].n < inbox'[v][j].n
      OBVIOUS
    <3>1. CASE j = new
      <4>1. last[v][r] < inbox'[v][j].n
        BY <2>2, <2>6, <3>1
      <4>2. ASSUME NEW i \in Waiting(v, r)', i < j PROVE inbox'[v][i].n < inbox'[v][j].n
        <5>1. i # new
          BY <1>5, <3>1, <4>2
        <5>2. i \in Waiting(v, r)
          BY <2>1, <4>2, <5>1
        <5> QED
          BY <2>2, <2>5, <3>1, <5>2
      <4> QED
        BY <4>1, <4>2
    <3>2. CASE j \in Waiting(v, r)
      <4>1. j < new /\ j \in Nat
        BY <2>2, <3>2
      <4>2. ~(new < j)
        BY <1>5, <4>1
      <4> QED
        BY <2>0, <2>1, <2>2, <3>2, <4>2 DEF Pair, InOrder
    <3> QED
      BY <2>1, <3>1, <3>2
  <2>8. v \notin lost' => \A a, b \in Numbers(v, r)' : a .. b \subseteq Numbers(v, r)'
    <3> SUFFICES ASSUME v \notin lost, NEW a \in Numbers(v, r)', NEW b \in Numbers(v, r)'
                 PROVE  a .. b \subseteq Numbers(v, r)'
      OBVIOUS
    <3>0. \A x, y \in Numbers(v, r) : x .. y \subseteq Numbers(v, r)
      BY <2>0 DEF Pair, InOrder
    <3>1. CASE a \in Numbers(v, r) /\ b \in Numbers(v, r)
      BY <2>3, <3>0, <3>1
    <3>2. CASE a = told[r] /\ b \in Numbers(v, r)
      <4>1. b \in 1 .. told[r] - 1
        BY <2>4, <3>2
      <4>2. a .. b = {}
        BY <1>1, <3>2, <4>1
      <4> QED
        BY <4>2
    <3>3. CASE a = told[r] /\ b = told[r]
      <4>1. a .. b = {told[r]}
        BY <1>1, <3>3
      <4> QED
        BY <2>3, <4>1
    <3>4. CASE a \in Numbers(v, r) /\ b = told[r]
      <4>1. told[r] - 1 \in Numbers(v, r) /\ a \in 1 .. told[r] - 1
        BY <2>4, <3>4
      <4>2. a .. (told[r] - 1) \subseteq Numbers(v, r)
        BY <3>0, <3>4, <4>1
      <4>3. \A x \in a .. b : x \in a .. (told[r] - 1) \/ x = told[r]
        BY <1>1, <3>4, <4>1
      <4> QED
        BY <2>3, <4>2, <4>3
    <3> QED
      BY <2>3, <3>1, <3>2, <3>3, <3>4
  <2>9. Numbers(v, r)' \subseteq 1 .. told'[r]
    BY <1>1, <2>3, <2>4
  <2>10. InOrder(v, r)'
    BY <2>3, <2>7, <2>8, <2>9 DEF InOrder
  <2>11. Watched(v, r)' /\ Present(v, r)' /\ Expected(v, r)'
    BY <2>0, <2>4 DEF Watched, Present, Expected, Watches
  <2> QED
    BY <2>10, <2>11 DEF Pair
<1>8. ASSUME NEW w \in Viewers, w # v, NEW q \in Runs PROVE Pair(w, q)'
  <2>1. w \in publishing'[q] <=> w \in publishing[q]
    BY <1>8 DEF TypeInv, TypeOK
  <2> QED
    BY <1>2, <1>8, <2>1, SamePair DEF LiveInv
<1>9. ASSUME NEW w \in Viewers PROVE Delivered(w)'
  <2>1. CASE w = v
    <3>1. deliverer'[v] # None
      <4>1. r # None
        BY StreamingAssumption
      <4>2. deliverer'[v] = r
        BY DEF TypeInv, TypeOK
      <4> QED
        BY <4>1, <4>2
    <3>2. inbox[v] = <<>>
      BY DEF LiveInv, Delivered
    <3>3. Len(inbox'[v]) <= 1
      BY <1>2, <1>3, <3>2
    <3>4. Delivered(v)'
      BY <3>1, <3>3 DEF Delivered
    <3> QED
      BY <2>1, <3>4
  <2>2. CASE w # v
    BY <1>2, <2>2 DEF LiveInv, Delivered, TypeInv, TypeOK
  <2> QED
    BY <2>1, <2>2
<1> QED
  BY <1>6, <1>7, <1>8, <1>9 DEF LiveInv

(* The event that is delivered is the first that waits: for its execution  *)
(* it takes the place of the last, for the others nothing changes.         *)
LEMMA LiveDeliverKeeps ==
  ASSUME TypeInv, LiveInv, NEW v \in Viewers, LiveDeliver(v)
  PROVE  LiveInv'
<1> DEFINE buffer == inbox[v]
           e == Head(buffer)
<1>1. /\ buffer # <<>> /\ inbox' = [inbox EXCEPT ![v] = Tail(buffer)]
      /\ last' = [last EXCEPT ![v][e.run] = e.n]
      /\ UNCHANGED <<publishing, viewer, filter, deliverer, ended, registered, told, lost>>
  BY DEF LiveDeliver, thread
<1>2. buffer \in Seq(LiveEvent) /\ last[v] \in [Runs -> Nat]
  BY DEF TypeInv, FunInv
<1>3. /\ Len(Tail(buffer)) = Len(buffer) - 1 /\ Len(buffer) > 0
      /\ e = buffer[1] /\ e \in LiveEvent
      /\ \A i \in 1 .. Len(buffer) - 1 : Tail(buffer)[i] = buffer[i + 1]
  BY <1>1, <1>2, TailOf
<1>4. Len(buffer) \in Nat /\ e.run \in Runs /\ e.n \in Nat
  BY <1>2, <1>3 DEF LiveEvent
<1>5. /\ inbox'[v] = Tail(buffer) /\ last'[v][e.run] = e.n
      /\ \A q \in Runs : q # e.run => last'[v][q] = last[v][q]
      /\ \A w \in Viewers : w # v => inbox'[w] = inbox[w] /\ last'[w] = last[w]
  BY <1>1, <1>2, <1>4 DEF TypeInv, FunInv
<1>6. ASSUME NEW q \in Runs
      PROVE  /\ \A i : i \in Waiting(v, q)' <=> i \in 1 .. Len(buffer) - 1 /\ i + 1 \in Waiting(v, q)
             /\ \A i \in Waiting(v, q)' : inbox'[v][i] = buffer[i + 1]
             /\ \A i \in Waiting(v, q) : i # 1 => i - 1 \in Waiting(v, q)'
             /\ 1 \in Waiting(v, q) <=> q = e.run
             /\ \A i \in Waiting(v, q) : i \in Nat
  <2>1. \A i : i \in Waiting(v, q)' <=> i \in 1 .. Len(inbox'[v]) /\ inbox'[v][i].run = q
    BY DEF Waiting
  <2>2. \A i : i \in Waiting(v, q) <=> i \in 1 .. Len(buffer) /\ buffer[i].run = q
    BY DEF Waiting
  <2>3. 1 .. Len(inbox'[v]) = 1 .. Len(buffer) - 1
    BY <1>3, <1>5
  <2>4. \A i \in 1 .. Len(buffer) - 1 : i + 1 \in 1 .. Len(buffer) /\ inbox'[v][i] = buffer[i + 1]
    BY <1>3, <1>4, <1>5
  <2> HIDE DEF e, buffer
  <2>5. \A i : i \in Waiting(v, q)' <=> i \in 1 .. Len(buffer) - 1 /\ i + 1 \in Waiting(v, q)
    BY <2>1, <2>2, <2>3, <2>4
  <2>6. ASSUME NEW i \in Waiting(v, q), i # 1 PROVE i - 1 \in Waiting(v, q)'
    <3>1. i - 1 \in 1 .. Len(buffer) - 1 /\ (i - 1) + 1 = i
      BY <1>4, <2>2, <2>6
    <3> QED
      BY <2>5, <2>6, <3>1
  <2>7. 1 \in Waiting(v, q) <=> q = e.run
    BY <1>3, <1>4, <2>2
  <2> QED
    BY <2>2, <2>4, <2>5, <2>6, <2>7
<1> HIDE DEF e, buffer
<1>7. ASSUME NEW q \in Runs, InOrder(v, q)
      PROVE  \A i, j \in Waiting(v, q)' : i < j => inbox'[v][i].n < inbox'[v][j].n
  <2> SUFFICES ASSUME NEW i \in Waiting(v, q)', NEW j \in Waiting(v, q)', i < j
               PROVE  inbox'[v][i].n < inbox'[v][j].n
    OBVIOUS
  <2>1. i \in 1 .. Len(buffer) - 1 /\ j \in 1 .. Len(buffer) - 1
        /\ i + 1 \in Waiting(v, q) /\ j + 1 \in Waiting(v, q)
    BY <1>6
  <2>2. i + 1 < j + 1
    BY <1>4, <2>1
  <2>3. inbox[v][i + 1].n < inbox[v][j + 1].n
    BY <1>7, <2>1, <2>2 DEF InOrder
  <2> QED
    BY <1>6, <2>3 DEF buffer
<1>8. ASSUME NEW q \in Runs, q # e.run PROVE Pair(v, q)'
  <2>0. Pair(v, q) /\ InOrder(v, q)
    BY DEF LiveInv, Pair
  <2>1. 1 \notin Waiting(v, q) /\ last'[v][q] = last[v][q]
    BY <1>5, <1>6, <1>8
  <2>2. {inbox'[v][i].n : i \in Waiting(v, q)'} = {buffer[i].n : i \in Waiting(v, q)}
    <3>1. ASSUME NEW i \in Waiting(v, q)'
          PROVE  \E j \in Waiting(v, q) : inbox'[v][i].n = buffer[j].n
      BY <1>6
    <3>2. ASSUME NEW j \in Waiting(v, q)
          PROVE  \E i \in Waiting(v, q)' : inbox'[v][i].n = buffer[j].n
      <4>1. j - 1 \in Waiting(v, q)' /\ (j - 1) + 1 = j
        BY <1>6, <2>1
      <4> QED
        BY <1>6, <4>1
    <3> QED
      BY <3>1, <3>2
  <2>3. Numbers(v, q)' = Numbers(v, q)
    BY <2>1, <2>2 DEF Numbers, buffer
  <2>4. \A j \in Waiting(v, q)' : last'[v][q] < inbox'[v][j].n
    <3> SUFFICES ASSUME NEW j \in Waiting(v, q)' PROVE last[v][q] < inbox'[v][j].n
      BY <2>1
    <3>1. j + 1 \in Waiting(v, q) /\ inbox'[v][j] = inbox[v][j + 1]
      BY <1>6 DEF buffer
    <3> QED
      BY <2>0, <3>1 DEF InOrder
  <2>5. InOrder(v, q)'
    <3>1. Numbers(v, q)' \subseteq 1 .. told'[q]
      BY <1>1, <2>0, <2>3 DEF InOrder
    <3>2. v \notin lost' => \A a, b \in Numbers(v, q)' : a .. b \subseteq Numbers(v, q)'
      BY <1>1, <2>0, <2>3 DEF InOrder
    <3>3. viewer'[v] = "open" /\ v \in registered' \ (lost' \union ended' \union publishing'[q])
            => Numbers(v, q)' = {} \/ told'[q] \in Numbers(v, q)'
      BY <1>1, <2>0, <2>3 DEF InOrder
    <3> QED
      BY <1>7, <2>0, <2>4, <3>1, <3>2, <3>3 DEF InOrder
  <2>6. Present(v, q)'
    BY <1>1, <2>0, <2>1 DEF Pair, Present, buffer
  <2>7. Watched(v, q)' /\ Expected(v, q)'
    BY <1>1, <2>0, <2>3 DEF Pair, Watched, Expected, Watches
  <2> QED
    BY <2>5, <2>6, <2>7 DEF Pair
<1>9. ASSUME NEW r \in Runs, r = e.run PROVE Pair(v, r)'
  <2>0. Pair(v, r) /\ InOrder(v, r) /\ told[r] \in Nat /\ last[v][r] \in Nat
    BY <1>2 DEF LiveInv, Pair, TypeInv, FunInv
  <2>1. 1 \in Waiting(v, r) /\ last'[v][r] = e.n /\ e = inbox[v][1]
    BY <1>3, <1>5, <1>6, <1>9 DEF buffer
  <2>2. e.n \in Numbers(v, r) /\ last[v][r] < e.n /\ e.n \in 1 .. told[r]
    <3>1. e.n \in Numbers(v, r)
      BY <2>1 DEF Numbers
    <3>2. last[v][r] < e.n
      BY <2>0, <2>1 DEF InOrder
    <3> QED
      BY <2>0, <3>1, <3>2 DEF InOrder
  <2>3. \A j \in Waiting(v, r)' :
          inbox'[v][j].n \in Numbers(v, r) /\ e.n < inbox'[v][j].n
    <3> SUFFICES ASSUME NEW j \in Waiting(v, r)'
                 PROVE  inbox'[v][j].n \in Numbers(v, r) /\ e.n < inbox'[v][j].n
      OBVIOUS
    <3>1. j + 1 \in Waiting(v, r) /\ inbox'[v][j] = inbox[v][j + 1] /\ j \in 1 .. Len(buffer) - 1
      BY <1>6 DEF buffer
    <3>2. 1 < j + 1
      BY <1>4, <3>1
    <3>3. inbox[v][1].n < inbox[v][j + 1].n
      BY <2>0, <2>1, <3>1, <3>2 DEF InOrder
    <3>4. inbox[v][j + 1].n \in Numbers(v, r)
      BY <3>1 DEF Numbers
    <3> QED
      BY <2>1, <3>1, <3>3, <3>4
  <2>4. \A a \in Numbers(v, r)' : a \in Numbers(v, r) /\ e.n <= a
    <3> SUFFICES ASSUME NEW a \in Numbers(v, r)' PROVE a \in Numbers(v, r) /\ e.n <= a
      OBVIOUS
    <3>1. a = e.n \/ \E j \in Waiting(v, r)' : a = inbox'[v][j].n
      BY <2>1 DEF Numbers
    <3>2. CASE a = e.n
      BY <1>4, <2>2, <3>2
    <3>3. ASSUME NEW j \in Waiting(v, r)', a = inbox'[v][j].n PROVE a \in Numbers(v, r) /\ e.n <= a
      <4>1. a \in Numbers(v, r) /\ e.n < a
        BY <2>3, <3>3
      <4>2. a \in 1 .. told[r]
        BY <2>0, <4>1 DEF InOrder
      <4> QED
        BY <1>4, <4>1, <4>2
    <3> QED
      BY <3>1, <3>2, <3>3
  <2>5. \A a \in Numbers(v, r) : a # last[v][r] => a \in Numbers(v, r)'
    <3> SUFFICES ASSUME NEW a \in Numbers(v, r), a # last[v][r] PROVE a \in Numbers(v, r)'
      OBVIOUS
    <3>1. PICK i \in Waiting(v, r) : a = inbox[v][i].n
      BY DEF Numbers
    <3>2. CASE i = 1
      <4>1. a = last'[v][r] /\ a # 0
        BY <1>4, <2>0, <2>1, <2>2, <3>1, <3>2
      <4> QED
        BY <4>1 DEF Numbers
    <3>3. CASE i # 1
      <4>1. i - 1 \in Waiting(v, r)' /\ (i - 1) + 1 = i
        BY <1>6, <3>3
      <4>2. inbox'[v][i - 1].n = a
        BY <1>6, <3>1, <4>1 DEF buffer
      <4> QED
        BY <4>1, <4>2 DEF Numbers
    <3> QED
      BY <3>2, <3>3
  <2>6. v \notin lost' => \A a, b \in Numbers(v, r)' : a .. b \subseteq Numbers(v, r)'
    <3> SUFFICES ASSUME v \notin lost, NEW a \in Numbers(v, r)', NEW b \in Numbers(v, r)',
                        NEW x \in a .. b
                 PROVE  x \in Numbers(v, r)'
      BY <1>1
    <3>1. a \in Numbers(v, r) /\ b \in Numbers(v, r) /\ e.n <= a /\ a \in 1 .. told[r]
      BY <2>0, <2>4 DEF InOrder
    <3>2. x \in Numbers(v, r)
      BY <2>0, <3>1 DEF InOrder
    <3>3. b \in 1 .. told[r]
      BY <2>0, <3>1 DEF InOrder
    <3>4. x # last[v][r]
      BY <1>4, <2>0, <2>2, <3>1, <3>3
    <3> QED
      BY <2>5, <3>2, <3>4
  <2>7. /\ told[r] \in Numbers(v, r) => told[r] \in Numbers(v, r)'
        /\ Numbers(v, r) \subseteq 1 .. told[r] - 1 /\ told[r] - 1 \in Numbers(v, r)
             => told[r] - 1 \in Numbers(v, r)'
    <3>1. told[r] # last[v][r]
      BY <1>4, <2>0, <2>2
    <3>2. Numbers(v, r) \subseteq 1 .. told[r] - 1 => told[r] - 1 # last[v][r]
      <4> SUFFICES ASSUME Numbers(v, r) \subseteq 1 .. told[r] - 1 PROVE told[r] - 1 # last[v][r]
        OBVIOUS
      <4>1. e.n \in 1 .. told[r] - 1
        BY <2>2
      <4> QED
        BY <1>4, <2>0, <2>2, <4>1
    <3> QED
      BY <2>5, <3>1, <3>2
  <2>8. InOrder(v, r)'
    <3>1. Numbers(v, r)' \subseteq 1 .. told'[r]
      BY <1>1, <2>0, <2>4 DEF InOrder
    <3>2. \A j \in Waiting(v, r)' : last'[v][r] < inbox'[v][j].n
      BY <2>1, <2>3
    <3>3. viewer'[v] = "open" /\ v \in registered' \ (lost' \union ended' \union publishing'[r])
            => told'[r] \in Numbers(v, r)'
      BY <1>1, <2>0, <2>2, <2>7 DEF InOrder
    <3> QED
      BY <1>7, <2>0, <2>6, <3>1, <3>2, <3>3 DEF InOrder
  <2>9. Present(v, r)' /\ Watched(v, r)'
    BY <1>1, <2>0, <2>2 DEF Pair, Present, Watched, Watches, buffer
  <2>10. Expected(v, r)'
    BY <1>1, <2>0, <2>2, <2>4, <2>7 DEF Pair, Expected, Watches
  <2> QED
    BY <2>8, <2>9, <2>10 DEF Pair
<1>10. ASSUME NEW w \in Viewers, w # v, NEW q \in Runs PROVE Pair(w, q)'
  BY <1>1, <1>5, <1>10, SamePair DEF LiveInv
<1>11. \A w \in Viewers : Delivered(w)'
  BY <1>1, <1>5 DEF LiveInv, Delivered, buffer
<1> QED
  BY <1>8, <1>9, <1>10, <1>11 DEF LiveInv

(* An offer that nobody takes, one that is delivered, or one that throws:  *)
(* who is left out by it is not there, or is known to have missed events.  *)
LEMMA OfferKeeps ==
  ASSUME TypeInv, LiveInv, NEW r \in Runs, NEW v \in Viewers,
         OfferPasses(r, v) \/ Offer(r, v) \/ OfferThrows(r, v)
  PROVE  LiveInv'
<1>1. ASSUME UNCHANGED <<viewer, filter, inbox, deliverer, ended, registered, told, last>>,
             lost \subseteq lost',
             \A w \in Viewers, q \in Runs :
               /\ w \in publishing'[q] => w \in publishing[q]
               /\ w \in publishing[q] /\ w \notin publishing'[q]
                    => viewer[w] # "open" \/ w \in lost'
      PROVE  LiveInv'
  <2>1. ASSUME NEW w \in Viewers, NEW q \in Runs PROVE Pair(w, q)'
    BY <1>1, SamePair DEF LiveInv
  <2> QED
    BY <1>1, <2>1 DEF LiveInv, Delivered
<1>2. ASSUME publishing' = [publishing EXCEPT ![r] = publishing[r] \ {v}],
             viewer[v] # "open" \/ v \in lost'
      PROVE  \A w \in Viewers, q \in Runs :
               /\ w \in publishing'[q] => w \in publishing[q]
               /\ w \in publishing[q] /\ w \notin publishing'[q]
                    => viewer[w] # "open" \/ w \in lost'
  BY <1>2 DEF TypeInv, TypeOK
<1>3. CASE OfferPasses(r, v)
  BY <1>1, <1>2, <1>3 DEF OfferPasses, Offered
<1>4. CASE Offer(r, v)
  BY <1>4, AcceptKeeps DEF Offer, Offered, Accepts, OffersTo
<1>5. CASE OfferThrows(r, v)
  <2>1. /\ publishing' = [publishing EXCEPT ![r] = {}]
        /\ lost' = lost \union {w \in publishing[r] : viewer[w] = "open"}
        /\ UNCHANGED <<viewer, filter, inbox, deliverer, ended, registered, told, last>>
    BY <1>5 DEF OfferThrows
  <2>2. \A w \in Viewers, q \in Runs :
          /\ w \in publishing'[q] => w \in publishing[q]
          /\ w \in publishing[q] /\ w \notin publishing'[q] => viewer[w] # "open" \/ w \in lost'
    BY <2>1 DEF TypeInv, TypeOK
  <2> QED
    BY <1>1, <2>1, <2>2
<1> QED
  BY <1>3, <1>4, <1>5

(* A viewer that leaves, or whose publisher has delivered everything and   *)
(* completes, starts from nothing.                                         *)
LEMMA BecomesKeeps ==
  ASSUME TypeInv, LiveInv, NEW v \in Viewers, NEW state \in {"gone", "completed"},
         ViewerBecomes(v, state), inbox'[v] = <<>>,
         \A w \in Viewers \ {v} : inbox'[w] = inbox[w] /\ deliverer'[w] = deliverer[w],
         registered' \subseteq registered, ended \subseteq ended',
         UNCHANGED <<filter, told, publishing>>
  PROVE  LiveInv'
<1>1. /\ viewer'[v] = state /\ \A w \in Viewers \ {v} : viewer'[w] = viewer[w]
      /\ \A w \in Viewers \ {v} : last'[w] = last[w] /\ (w \in lost => w \in lost')
  BY DEF ViewerBecomes, TypeInv, TypeOK, FunInv
<1>2. \A r \in Runs : last'[v][r] = 0
  BY DEF ViewerBecomes, TypeInv, FunInv
<1>3. ASSUME NEW r \in Runs PROVE Pair(v, r)'
  BY <1>1, <1>2, EmptyPair DEF LiveInv
<1>4. ASSUME NEW w \in Viewers, w # v, NEW r \in Runs PROVE Pair(w, r)'
  BY <1>1, <1>4, SamePair DEF LiveInv
<1>5. ASSUME NEW w \in Viewers PROVE Delivered(w)'
  BY DEF LiveInv, Delivered
<1> QED
  BY <1>3, <1>4, <1>5 DEF LiveInv

(* What viewers and the feed do.                                           *)
LEMMA ViewerKeeps ==
  ASSUME TypeInv, LiveInv, NEW v \in Viewers,
         \/ LiveDelivered(v) \/ ViewerLeaves(v) \/ CloseViewer(v)
         \/ \E f \in Filters : Watch(v, f)
  PROVE  LiveInv'
<1>1. CASE ViewerLeaves(v)
  <2>1. /\ ViewerBecomes(v, "gone") /\ inbox' = [inbox EXCEPT ![v] = <<>>]
        /\ UNCHANGED <<filter, deliverer, ended, registered, told, publishing>>
    BY <1>1 DEF ViewerLeaves, thread
  <2>2. inbox'[v] = <<>> /\ \A w \in Viewers \ {v} : inbox'[w] = inbox[w]
    BY <2>1 DEF TypeInv, FunInv
  <2> QED
    BY <2>1, <2>2, BecomesKeeps
<1>2. CASE LiveDelivered(v)
  <2>1. /\ inbox[v] = <<>> /\ deliverer' = [deliverer EXCEPT ![v] = None]
        /\ UNCHANGED <<viewer, filter, inbox, ended, registered, told, last, lost, publishing>>
    BY <1>2 DEF LiveDelivered, thread
  <2>2. \A w \in Viewers \ {v} : deliverer'[w] = deliverer[w]
    BY <2>1 DEF TypeInv, TypeOK
  <2>3. ASSUME NEW w \in Viewers, NEW r \in Runs PROVE Pair(w, r)'
    BY <2>1, SamePair DEF LiveInv
  <2>4. ASSUME NEW w \in Viewers PROVE Delivered(w)'
    BY <2>1, <2>2 DEF LiveInv, Delivered
  <2> QED
    BY <2>3, <2>4 DEF LiveInv
<1>3. CASE CloseViewer(v)
  <2>1. /\ deliverer[v] = None /\ ended' = ended \union {v}
        /\ UNCHANGED <<filter, inbox, deliverer, told, publishing>>
    BY <1>3 DEF CloseViewer, thread
  <2>2. CASE viewer[v] = "open"
    <3>1. ViewerBecomes(v, "completed") /\ registered' = registered \ {v}
      BY <1>3, <2>2 DEF CloseViewer
    <3>2. inbox'[v] = <<>>
      BY <2>1 DEF LiveInv, Delivered
    <3> QED
      BY <2>1, <3>1, <3>2, BecomesKeeps
  <2>3. CASE viewer[v] # "open"
    <3>1. UNCHANGED <<viewer, registered, last, lost>>
      BY <1>3, <2>3 DEF CloseViewer
    <3>2. ASSUME NEW w \in Viewers, NEW r \in Runs PROVE Pair(w, r)'
      BY <2>1, <3>1, SamePair DEF LiveInv
    <3> QED
      BY <2>1, <3>2 DEF LiveInv, Delivered
  <2> QED
    BY <2>2, <2>3
<1>4. ASSUME NEW f \in Filters, Watch(v, f) PROVE LiveInv'
  <2>1. /\ viewer[v] = "none" /\ viewer' = [viewer EXCEPT ![v] = "open"]
        /\ filter' = [filter EXCEPT ![v] = f] /\ registered' = registered \union {v}
        /\ UNCHANGED <<inbox, deliverer, ended, told, last, lost, publishing>>
    BY <1>4 DEF Watch, thread
  <2>2. /\ viewer'[v] = "open"
        /\ \A w \in Viewers \ {v} : viewer'[w] = viewer[w] /\ filter'[w] = filter[w]
    BY <2>1 DEF TypeInv, TypeOK
  <2>3. ASSUME NEW r \in Runs PROVE Pair(v, r)'
    <3>1. inbox[v] = <<>> /\ last[v][r] = 0 /\ v \notin publishing[r]
      BY <2>1 DEF LiveInv, Pair, Present
    <3> QED
      BY <2>1, <2>2, <3>1, EmptyPair DEF LiveInv
  <2>4. ASSUME NEW w \in Viewers, w # v, NEW r \in Runs PROVE Pair(w, r)'
    BY <2>1, <2>2, <2>4, SamePair DEF LiveInv
  <2> QED
    BY <2>1, <2>3, <2>4 DEF LiveInv, Delivered
<1> QED
  BY <1>1, <1>2, <1>3, <1>4

(* A step of the streams, or of the feed as a whole, that publishes        *)
(* nothing: at most the subscriptions are cleared.                         *)
LEMMA QuietKeeps ==
  ASSUME LiveInv, registered' \subseteq registered,
         UNCHANGED <<viewer, filter, inbox, deliverer, ended, told, last, lost, publishing>>
  PROVE  LiveInv'
<1>1. ASSUME NEW v \in Viewers, NEW r \in Runs PROVE Pair(v, r)'
  BY SamePair DEF LiveInv
<1> QED
  BY <1>1 DEF LiveInv, Delivered

(* Every step keeps what is known of the feed.                             *)
LEMMA LiveNext == TypeInv /\ WaitInv /\ LiveInv /\ [Next]_vars => LiveInv'
<1> SUFFICES ASSUME TypeInv, WaitInv, LiveInv, [Next]_vars PROVE LiveInv'
  OBVIOUS
<1>1. ASSUME NEW r \in Runs, TellsSome(r) PROVE LiveInv'
  <2>1. PICK place \in Places \ {"waiting"}, es \in Seq(Event) :
          publishing[r] = {} /\ Tells(r, place, es)
    BY <1>1, TellingSteps DEF WaitInv
  <2>2. CASE Head(es) = ToStream
    BY <2>1, <2>2, QuietKeeps DEF Tells, live
  <2>3. CASE Head(es) # ToStream
    BY <2>1, <2>3, PublishKeeps DEF Tells
  <2> QED
    BY <2>2, <2>3
<1>2. ASSUME NEW r \in Runs,
             OfferFailed(r) \/ CloseNormally(r) \/ CloseExceptionally(r) \/ RunEnds(r)
      PROVE  LiveInv'
  BY <1>2, QuietKeeps
  DEF OfferFailed, CloseNormally, CloseExceptionally, RunEnds, Close, live
<1>3. ASSUME NEW r \in Runs, Delivery(r) \/ Subscribe(r) \/ Disconnect(r) PROVE LiveInv'
  BY <1>3, QuietKeeps
  DEF Delivery, Deliver, OnComplete, OnError, Subscribe, Disconnect, ClientLeaves, thread, live
<1>4. ASSUME NEW r \in Runs, Execution(r) PROVE LiveInv'
  BY <1>1, <1>2, <1>4, OfferKeeps DEF Execution, TellsSome
<1>5. CASE CloseFeed \/ ClearFeed
  BY <1>5, QuietKeeps DEF CloseFeed, ClearFeed, thread, live
<1>6. CASE UNCHANGED vars
  BY <1>6, QuietKeeps DEF vars, thread, live
<1> QED
  BY <1>3, <1>4, <1>5, <1>6, LiveDeliverKeeps, ViewerKeeps DEF Next, LiveDelivery

(* At first.                                                               *)
LEMMA LiveInit == Init => LiveInv
<1> SUFFICES ASSUME Init PROVE LiveInv
  OBVIOUS
<1>1. ASSUME NEW v \in Viewers, NEW r \in Runs PROVE Pair(v, r)
  <2>1. Waiting(v, r) = {} /\ Numbers(v, r) = {}
    BY NoNumbers DEF Init
  <2> QED
    BY <2>1 DEF Init, Pair, InOrder, Watched, Present, Expected
<1> QED
  BY <1>1 DEF LiveInv, Delivered, Init

(* Whichever thread delivers to it, a viewer gets the events of every      *)
(* execution that it watches in their order, without a gap unless it is    *)
(* known to have missed some when the feed was closed, and up to the last  *)
(* one; none ever waits in its buffer behind another.                      *)
THEOREM ViewersGetEventsInOrder == Spec => []LiveInOrder
<1>1. LiveInv => LiveInOrder
  BY DEF LiveInv, Pair, Delivered, LiveInOrder
<1> QED
  BY <1>1, TypeInit, TypeNext, WaitInit, WaitNext, LiveInit, LiveNext, PTL DEF Spec

-----------------------------------------------------------------------------
(* Who waits for whom: what StreamsEnd needs besides fairness              *)

(* A client always has its whole credit; an execution that ended has       *)
(* nothing to tell and has closed its stream.                              *)
EndInv == \A r \in Runs :
  /\ client[r] = "open" => demand[r] = Credit
  /\ at[r] = "ended" => todo[r] = <<>> /\ publishing[r] = {}
  /\ at[r] = "ended" /\ r \in Streamed => closed[r] # "no"
  /\ at[r] # "ended" => closed[r] = "no"

(* A step of one execution, or of its client, leaves the others alone.     *)
LEMMA SameEnd ==
  ASSUME EndInv, NEW r \in Runs,
         at'[r] = at[r], closed'[r] = closed[r], todo'[r] = todo[r],
         publishing'[r] \subseteq publishing[r],
         client'[r] = "open" => demand'[r] = Credit
  PROVE  /\ client'[r] = "open" => demand'[r] = Credit
         /\ at'[r] = "ended" => todo'[r] = <<>> /\ publishing'[r] = {}
         /\ at'[r] = "ended" /\ r \in Streamed => closed'[r] # "no"
         /\ at'[r] # "ended" => closed'[r] = "no"
  BY DEF EndInv

(* The thread of an execution that goes on has not ended, and closes its   *)
(* stream when it does.                                                    *)
LEMMA ExecutionKeepsEnd ==
  ASSUME TypeInv, WaitInv, EndInv, NEW r \in Runs, Execution(r)
  PROVE  EndInv'
<1> USE DEF TypeInv, TypeOK
<1>1. UNCHANGED <<client, demand>>
  BY DEF Execution, Begin, EnterNode, RetryNode, NodeSucceeds, Fails, Throws, Returns, OfferFailed,
         CloseNormally, CloseExceptionally, RunEnds, TellsNext, OfferPasses, Offer, OfferThrows,
         Offered, Tells, Submit, Close, stream
<1>2. ASSUME NEW q \in Runs, q # r
      PROVE  /\ at'[q] = at[q] /\ closed'[q] = closed[q] /\ todo'[q] = todo[q]
             /\ publishing'[q] = publishing[q]
  <2>1. CASE TellsSome(r)
    <3>1. PICK place, es : Tells(r, place, es)
      BY <2>1
      DEF TellsSome, Begin, EnterNode, RetryNode, NodeSucceeds, Fails, Throws, Returns, TellsNext
    <3> QED
      BY <1>2, <3>1 DEF Tells, Submit, Publish, stream
  <2>2. CASE OfferFailed(r)
    BY <1>2, <2>2 DEF OfferFailed
  <2>3. CASE CloseNormally(r) \/ CloseExceptionally(r) \/ RunEnds(r)
    BY <1>2, <2>3 DEF CloseNormally, CloseExceptionally, RunEnds, Close
  <2>4. ASSUME NEW v \in Viewers, OfferPasses(r, v) \/ Offer(r, v) \/ OfferThrows(r, v)
        PROVE  /\ at'[q] = at[q] /\ closed'[q] = closed[q] /\ todo'[q] = todo[q]
               /\ publishing'[q] = publishing[q]
    BY <1>2, <2>4 DEF OfferPasses, Offer, OfferThrows, Offered, stream
  <2> QED
    BY <2>1, <2>2, <2>3, <2>4 DEF Execution, TellsSome
<1>3. /\ at'[r] = "ended" => todo'[r] = <<>> /\ publishing'[r] = {}
      /\ at'[r] = "ended" /\ r \in Streamed => closed'[r] # "no"
      /\ at'[r] # "ended" => closed'[r] = "no"
  <2>1. CASE TellsSome(r)
    <3>1. at[r] # "ended"
      BY <2>1
      DEF TellsSome, Begin, EnterNode, RetryNode, NodeSucceeds, Fails, Throws, Returns, TellsNext,
          MayFail, EndInv
    <3>2. PICK place, es : Tells(r, place, es) /\ place # "ended"
      BY <2>1, <3>1
      DEF TellsSome, Begin, EnterNode, RetryNode, NodeSucceeds, Fails, Throws, Returns, TellsNext
    <3>3. at'[r] # "ended" /\ closed' = closed
      BY <3>2 DEF Tells, Submit, stream
    <3> QED
      BY <3>1, <3>3 DEF EndInv
  <2>2. CASE OfferFailed(r)
    BY <2>2 DEF OfferFailed, EndInv
  <2>3. CASE CloseNormally(r) \/ CloseExceptionally(r) \/ RunEnds(r)
    BY <2>3 DEF CloseNormally, CloseExceptionally, RunEnds, Close, CanGoOn
  <2>4. ASSUME NEW v \in Viewers, OfferPasses(r, v) \/ Offer(r, v) \/ OfferThrows(r, v)
        PROVE  at'[r] # "ended" /\ closed'[r] = "no"
    <3>1. at[r] # "ended" /\ closed[r] = "no"
      BY <2>4 DEF OfferPasses, Offer, OfferThrows, Accepts, OffersTo, EndInv
    <3> QED
      BY <2>4, <3>1 DEF OfferPasses, Offer, OfferThrows, Offered, stream
  <2> QED
    BY <2>1, <2>2, <2>3, <2>4 DEF Execution, TellsSome
<1> QED
  BY <1>1, <1>2, <1>3 DEF EndInv

(* Every event that is delivered is asked for again.                       *)
LEMMA ClientKeepsEnd ==
  ASSUME TypeInv, EndInv, NEW r \in Runs, Delivery(r) \/ Subscribe(r) \/ Disconnect(r)
  PROVE  EndInv'
<1>1. UNCHANGED <<at, todo, publishing, closed>>
  BY DEF Delivery, Deliver, OnComplete, OnError, Subscribe, Disconnect, ClientLeaves,
         ClientBecomes, thread
<1>2. ASSUME NEW q \in Runs, client'[q] = "open" PROVE demand'[q] = Credit
  BY <1>2 DEF Delivery, Deliver, OnComplete, OnError, Subscribe, Disconnect, ClientLeaves,
              ClientBecomes, EndInv, TypeInv, TypeOK, FunInv
<1> QED
  BY <1>1, <1>2 DEF EndInv

(* Viewers and the feed have no part in it.                                *)
LEMMA EndNext == TypeInv /\ WaitInv /\ EndInv /\ [Next]_vars => EndInv'
<1> SUFFICES ASSUME TypeInv, WaitInv, EndInv, [Next]_vars PROVE EndInv'
  OBVIOUS
<1>1. ASSUME UNCHANGED <<thread, stream>> PROVE EndInv'
  BY <1>1 DEF thread, stream, EndInv
<1>2. ASSUME NEW v \in Viewers,
             \/ LiveDelivery(v) \/ ViewerLeaves(v) \/ CloseViewer(v)
             \/ \E f \in Filters : Watch(v, f)
      PROVE  EndInv'
  BY <1>1, <1>2 DEF LiveDelivery, LiveDeliver, LiveDelivered, ViewerLeaves, CloseViewer, Watch
<1>3. CASE CloseFeed \/ ClearFeed
  BY <1>1, <1>3 DEF CloseFeed, ClearFeed
<1>4. CASE UNCHANGED vars
  BY <1>1, <1>4 DEF vars
<1> QED
  BY <1>2, <1>3, <1>4, ExecutionKeepsEnd, ClientKeepsEnd DEF Next

(* A thread delivers to one viewer at a time: it holds one lock.           *)
OneLock == \A v, w \in Viewers :
  deliverer[v] # None /\ deliverer[v] = deliverer[w] => v = w

(* It gives up the lock of a viewer before it is offered to another.       *)
LEMMA OneLockNext == TypeInv /\ OneLock /\ [Next]_vars => OneLock'
<1> SUFFICES ASSUME TypeInv, OneLock, [Next]_vars PROVE OneLock'
  OBVIOUS
<1>1. ASSUME NEW r \in Runs, NEW v \in Viewers, Offer(r, v) PROVE OneLock'
  <2>1. /\ deliverer' = [deliverer EXCEPT ![v] = r]
        /\ \A w \in Viewers : deliverer[w] # r
    BY <1>1 DEF Offer, Accepts, OffersTo, Delivers
  <2> QED
    BY <2>1 DEF OneLock, TypeInv, TypeOK
<1>2. ASSUME NEW v \in Viewers, LiveDelivered(v) PROVE OneLock'
  BY <1>2 DEF LiveDelivered, OneLock, TypeInv, TypeOK
<1>3. CASE UNCHANGED deliverer
  BY <1>3 DEF OneLock
<1>4. ASSUME NEW r \in Runs, TellsSome(r) PROVE UNCHANGED deliverer
  BY <1>4
  DEF TellsSome, Begin, EnterNode, RetryNode, NodeSucceeds, Fails, Throws, Returns, TellsNext,
      Tells, Publish, live
<1>5. ASSUME NEW r \in Runs,
             \/ OfferFailed(r) \/ CloseNormally(r) \/ CloseExceptionally(r) \/ RunEnds(r)
             \/ (\E v \in Viewers : OfferPasses(r, v) \/ OfferThrows(r, v))
             \/ Delivery(r) \/ Subscribe(r) \/ Disconnect(r)
      PROVE  UNCHANGED deliverer
  BY <1>5
  DEF OfferFailed, CloseNormally, CloseExceptionally, RunEnds, Close, OfferPasses, OfferThrows,
      Delivery, Deliver, OnComplete, OnError, Subscribe, Disconnect, ClientLeaves, live
<1>6. ASSUME NEW v \in Viewers,
             \/ LiveDeliver(v) \/ ViewerLeaves(v) \/ CloseViewer(v)
             \/ \E f \in Filters : Watch(v, f)
      PROVE  UNCHANGED deliverer
  BY <1>6 DEF LiveDeliver, ViewerLeaves, CloseViewer, Watch
<1>7. CASE CloseFeed \/ ClearFeed \/ UNCHANGED vars
  BY <1>3, <1>7 DEF CloseFeed, ClearFeed, vars, live
<1> QED
  BY <1>1, <1>2, <1>3, <1>4, <1>5, <1>6, <1>7 DEF Next, Execution, TellsSome, LiveDelivery

(* No stream waits for an event that is not delivered, for credit that is  *)
(* not given, for an execution that has ended, or in a circle of threads   *)
(* that wait for each other's locks; all that can keep it besides its own  *)
(* client is a viewer of the feed, as the documents say it cannot.         *)
THEOREM StreamsGoOn == Spec => []StreamGoesOn
<1>1. TypeInv /\ WaitInv /\ EndInv /\ OneLock => StreamGoesOn
  <2> SUFFICES ASSUME TypeInv, WaitInv, EndInv, OneLock, NEW r \in Streamed, client[r] = "open",
                      ~ClientGoesOn(r), ~WaitsForViewer(r)
               PROVE  ThreadGoesOn(r)
    BY DEF StreamGoesOn
  <2>0. r \in Runs /\ publishing[r] \subseteq Viewers
    BY StreamingAssumption DEF TypeInv, TypeOK
  <2>1. demand[r] = Credit /\ Credit > 0
    BY <2>0, StreamingAssumption DEF EndInv
  <2>2. closed[r] # "error" => queue[r] = <<>>
    BY <2>1 DEF ClientGoesOn, CanDeliver
  <2>3. at[r] # "ended"
    <3> SUFFICES ASSUME at[r] = "ended" PROVE FALSE
      OBVIOUS
    <3>1. closed[r] \in {"complete", "error"}
      BY <2>0 DEF EndInv, TypeInv, TypeOK
    <3> QED
      BY <2>2, <3>1 DEF ClientGoesOn
  <2>4. Room(r)
    <3>1. queue[r] = <<>>
      BY <2>0, <2>2, <2>3 DEF EndInv
    <3> QED
      BY <3>1, StreamingAssumption DEF Room
  <2>5. ~Delivers(r) /\ \A v \in publishing[r] : deliverer[v] = None
    <3>1. ASSUME NEW v \in Viewers, deliverer[v] # None, deliverer[v] = r \/ v \in publishing[r]
          PROVE  FALSE
      BY <3>1 DEF OneLock, WaitsForViewer
    <3>2. r # None
      BY <2>0, StreamingAssumption
    <3> QED
      BY <2>0, <3>1, <3>2 DEF Delivers
  <2>6. CASE publishing[r] # {} \/ todo[r] # <<>>
    BY <2>4, <2>5, <2>6 DEF ThreadGoesOn
  <2>7. CASE publishing[r] = {} /\ todo[r] = <<>>
    BY <2>0, <2>3, <2>4, <2>5, <2>7 DEF ThreadGoesOn, CanGoOn, TypeInv, TypeOK, Places
  <2> QED
    BY <2>6, <2>7
<1>2. Init => EndInv /\ OneLock
  BY DEF Init, EndInv, OneLock
<1> QED
  BY <1>1, <1>2, TypeInit, TypeNext, WaitInit, WaitNext, EndNext, OneLockNext, PTL DEF Spec
=============================================================================
