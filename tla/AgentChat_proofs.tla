-------------------------- MODULE AgentChat_proofs --------------------------
(***************************************************************************)
(* What is proved of an agent with a memory, for any number of calls and   *)
(* any time to live: the types, that a reply reaches its call, and, for an *)
(* agent with one ChatSession object, that what was answered is            *)
(* remembered.                                                             *)
(***************************************************************************)
EXTENDS AgentChat, TLAPS

(* The messages of a history.                                              *)
Messages(history) == {history[i] : i \in 1 .. Len(history)}

Holds(t) == chat[t].at \in {"looking", "evicting", "ending"}

(* How far a call, its worker and the deliveries of its reply are.         *)
BusInv ==
  /\ \A k \in Calls : call[k] \in {"new", "subscribed"} => worker[k] = "none"
  /\ \A k \in Calls : call[k] \in {"subscribed", "waiting"} => k \in awaiting
  /\ \A d \in threads : worker[d.about] = "replied"
  /\ \A k \in reply : worker[k] = "replied"
  /\ \A k \in Calls : call[k] \in {"received", "returned"} => k \in reply

(* A reply is sent only when the node has appended the message.            *)
RepliedInv == \A k \in Calls : worker[k] \in {"replying", "replied"} => chat[k].at = "done"

(* Who is in append holds the lock of its object.                          *)
LockInv == \A t \in Writers : Holds(t) => lock[Object[t]] = t

(* What was appended is there or was forgotten; the history that an append *)
(* is about to put back has all that is there and was not forgotten.       *)
MemoryInv ==
  /\ \A t \in Writers : chat[t].at = "done" => t \in Messages(entry.value) \union forgotten
  /\ \A t \in Writers : chat[t].at = "evicting" => Messages(entry.value) \subseteq forgotten
  /\ \A t \in Writers : chat[t].at = "ending" =>
       Messages(entry.value) \subseteq Messages(chat[t].history) \union forgotten
  /\ \A t \in Readers : chat[t].at # "evicting"
  /\ ~Expires => ~Expired

(* One ChatSession object for the writers, as an agent that is given its   *)
(* session has; and nobody reads while entries can expire, since a reader  *)
(* that finds an expired entry evicts whatever is there by then.           *)
OneSession ==
  /\ \A s, t \in Writers : Object[s] = Object[t]
  /\ Expires => Readers = {}

-----------------------------------------------------------------------------
(* Types                                                                   *)

(* No entry is an entry.                                                   *)
LEMMA AbsentType == Absent \in [stored : BOOLEAN, value : Seq(Writers), left : 0 .. Ttl]
<1>1. <<>> \in Seq(Writers) /\ 0 \in 0 .. Ttl
  BY MemoryAssumption
<1> QED
  BY <1>1 DEF Absent

(* What an entry holds was written by writers.                             *)
LEMMA ContentsWritten == MemoryTypeOK => Contents(entry) \subseteq Writers
<1> SUFFICES ASSUME MemoryTypeOK, NEW i \in 1 .. Len(entry.value)
             PROVE  entry.value[i] \in Writers
  BY DEF Contents
<1>1. entry.value \in Seq(Writers)
  BY DEF MemoryTypeOK
<1> QED
  BY <1>1

(* At first.                                                               *)
LEMMA TypeInit == Init => TypeOK
<1> SUFFICES ASSUME Init PROVE TypeOK
  OBVIOUS
<1>1. BusTypeOK
  BY DEF Init, BusInit, BusTypeOK
<1>2. entry \in [stored : BOOLEAN, value : Seq(Writers), left : 0 .. Ttl]
  BY MemoryAssumption, AbsentType DEF Init, MemoryInit
<1>3. <<>> \in Seq(Writers)
  OBVIOUS
<1>4. MemoryTypeOK
  BY <1>2, <1>3 DEF Init, MemoryInit, MemoryTypeOK
<1> QED
  BY <1>1, <1>4 DEF TypeOK

(* The bus keeps its types.                                                *)
LEMMA BusStepTypes == BusTypeOK /\ BusStep => BusTypeOK'
<1> SUFFICES ASSUME BusTypeOK, BusStep PROVE BusTypeOK'
  OBVIOUS
<1> USE DEF BusTypeOK
<1>1. CASE StartsOrStops
  BY <1>1 DEF StartsOrStops
<1>2. ASSUME NEW k \in Calls, CallStep(k) PROVE BusTypeOK'
  <2>1. CASE Subscribe(k)
    BY <2>1 DEF Subscribe
  <2>2. CASE Send(k)
    BY <2>2 DEF Send
  <2>3. CASE Receives(k) \/ TimesOut(k) \/ Interrupted(k)
    BY <2>3 DEF Receives, TimesOut, Interrupted, Awaited
  <2>4. CASE Cancels(k)
    BY <2>4 DEF Cancels, Outcome
  <2> QED
    BY <1>2, <2>1, <2>2, <2>3, <2>4 DEF CallStep
<1>3. ASSUME NEW k \in Calls, Reply(k) PROVE BusTypeOK'
  <2>1. {[to |-> c, about |-> k] : c \in awaiting} \subseteq Delivery
    BY DEF Delivery
  <2> QED
    BY <1>3, <2>1 DEF Reply
<1>4. ASSUME NEW d \in threads, Handle(d) PROVE BusTypeOK'
  BY <1>4 DEF Handle, Delivery
<1> QED
  BY <1>1, <1>2, <1>3, <1>4 DEF BusStep

(* So do the threads that use the memory.                                  *)
LEMMA ThreadStepTypes == ASSUME MemoryTypeOK, NEW t \in Threads, ThreadStep(t)
                         PROVE  MemoryTypeOK'
<1> USE MemoryAssumption DEF MemoryTypeOK, Threads
<1>1. CASE Begins(t)
  BY <1>1 DEF Begins
<1>2. CASE Looks(t)
  BY <1>2 DEF Looks, Reads
<1>3. CASE LooksTooLate(t)
  BY <1>3, ContentsWritten DEF LooksTooLate
<1>4. CASE Evicts(t)
  BY <1>4, AbsentType DEF Evicts, Reads
<1>5. CASE Ends(t)
  <2>1. chat[t].history \in Seq(Writers)
    OBVIOUS
  <2>2. t \in Writers => Append(chat[t].history, t) \in Seq(Writers)
    BY <2>1
  <2>3. entry' \in [stored : BOOLEAN, value : Seq(Writers), left : 0 .. Ttl]
    <3>1. CASE t \in Writers
      <4>1. [stored |-> TRUE, value |-> Append(chat[t].history, t), left |-> Ttl]
              \in [stored : BOOLEAN, value : Seq(Writers), left : 0 .. Ttl]
        BY <2>2, <3>1
      <4> QED
        BY <1>5, <3>1, <4>1 DEF Ends, Puts
    <3>2. CASE t \notin Writers
      BY <1>5, <3>2 DEF Ends
    <3> QED
      BY <3>1, <3>2
  <2>4. lock' \in [Objects -> Threads \union {Nobody}]
    BY <1>5 DEF Ends, Unlocked
  <2> QED
    BY <1>5, <2>3, <2>4 DEF Ends
<1>6. CASE StoreThrows(t)
  BY <1>6 DEF StoreThrows, Unlocked
<1> QED
  BY <1>1, <1>2, <1>3, <1>4, <1>5, <1>6 DEF ThreadStep

(* And the clock and those who empty the store.                            *)
LEMMA StoreStepTypes == MemoryTypeOK /\ StoreStep => MemoryTypeOK'
<1> SUFFICES ASSUME MemoryTypeOK, StoreStep PROVE MemoryTypeOK'
  OBVIOUS
<1>1. CASE Removes
  BY <1>1, AbsentType, ContentsWritten DEF Removes, MemoryTypeOK
<1>2. CASE Tick
  <2>1. entry \in [stored : BOOLEAN, value : Seq(Writers), left : 0 .. Ttl]
    BY DEF MemoryTypeOK
  <2>2. entry.left - 1 \in 0 .. Ttl
    BY <1>2, <2>1, MemoryAssumption DEF Tick
  <2>3. entry' \in [stored : BOOLEAN, value : Seq(Writers), left : 0 .. Ttl]
    BY <1>2, <2>1, <2>2 DEF Tick
  <2> QED
    BY <1>2, <2>3 DEF Tick, MemoryTypeOK
<1> QED
  BY <1>1, <1>2 DEF StoreStep, Clear, EvictExpired

(* Every step of the agent keeps the types.                                *)
LEMMA TypeNext == TypeOK /\ [Next]_vars => TypeOK'
<1> SUFFICES ASSUME TypeOK, [Next]_vars PROVE TypeOK'
  OBVIOUS
<1>1. UNCHANGED bus => BusTypeOK'
  BY DEF TypeOK, BusTypeOK, bus
<1>2. UNCHANGED memory => MemoryTypeOK'
  BY DEF TypeOK, MemoryTypeOK, memory
<1>3. CASE BusStep /\ UNCHANGED memory
  BY <1>2, <1>3, BusStepTypes DEF TypeOK
<1>4. ASSUME NEW t \in Threads, SessionStep(t) PROVE TypeOK'
  BY <1>1, <1>4, ThreadStepTypes DEF TypeOK, SessionStep
<1>5. ASSUME NEW k \in Calls, NodeDone(k) \/ NodeFailed(k) PROVE TypeOK'
  <2>1. BusTypeOK'
    BY <1>5 DEF TypeOK, BusTypeOK, NodeDone, NodeFailed, GraphRan
  <2> QED
    BY <1>2, <1>5, <2>1 DEF TypeOK, NodeDone, NodeFailed
<1>6. CASE StoreStep /\ UNCHANGED bus
  BY <1>1, <1>6, StoreStepTypes DEF TypeOK
<1>7. CASE UNCHANGED vars
  BY <1>1, <1>2, <1>7 DEF TypeOK, vars
<1> QED
  BY <1>3, <1>4, <1>5, <1>6, <1>7 DEF Next

(* Type correctness of the agent, of the bus and of its memory.            *)
THEOREM TypeCorrect == Spec => []TypeOK
  BY TypeInit, TypeNext, PTL DEF Spec

-----------------------------------------------------------------------------
(* A reply reaches its call                                                *)

(* At first no call is there.                                              *)
LEMMA BusInvInit == Init => BusInv /\ RepliesReach
  BY DEF Init, BusInit, BusInv, RepliesReach

(* The worker's thread goes from working to replying, or fails.            *)
LEMMA GraphRanKeepsBusInv ==
  ASSUME TypeOK, BusInv, RepliesReach, NEW k \in Calls,
         GraphRan(k, "replying") \/ GraphRan(k, "failed")
  PROVE  BusInv' /\ RepliesReach'
<1>1. worker[k] = "working" /\ UNCHANGED <<started, awaiting, call, reply, threads>>
  BY DEF GraphRan
<1>2. \A j \in Calls : j # k => worker'[j] = worker[j]
  BY DEF GraphRan, TypeOK, BusTypeOK
<1>3. worker'[k] \in {"replying", "failed"}
  BY DEF GraphRan, TypeOK, BusTypeOK
<1>4. \A d \in threads : d.about \in Calls
  BY DEF TypeOK, BusTypeOK, Delivery
<1> QED
  BY <1>1, <1>2, <1>3, <1>4 DEF BusInv, RepliesReach, TypeOK, BusTypeOK

(* Each step of a call keeps to BusInv, and loses no reply.                *)
LEMMA CallStepKeepsBusInv ==
  ASSUME TypeOK, BusInv, RepliesReach, NEW k \in Calls, CallStep(k)
  PROVE  BusInv' /\ RepliesReach'
<1> USE DEF BusInv, RepliesReach, TypeOK, BusTypeOK
<1>1. CASE Subscribe(k)
  BY <1>1 DEF Subscribe
<1>2. CASE Send(k)
  <2>1. worker[k] = "none" /\ k \in awaiting /\ UNCHANGED <<awaiting, reply, threads>>
    BY <1>2 DEF Send
  <2>2. \A j \in Calls : j # k => worker'[j] = worker[j] /\ call'[j] = call[j]
    BY <1>2 DEF Send
  <2>3. call'[k] = "waiting" /\ worker'[k] \in {"none", "working"}
    BY <1>2, <2>1 DEF Send
  <2>4. \A d \in threads : d.about \in Calls /\ d.about # k
    BY <2>1 DEF Delivery
  <2>5. \A j \in reply : j \in Calls /\ j # k
    BY <2>1
  <2> QED
    BY <2>1, <2>2, <2>3, <2>4, <2>5
<1>3. CASE Receives(k) \/ TimesOut(k) \/ Interrupted(k)
  BY <1>3 DEF Receives, TimesOut, Interrupted, Awaited
<1>4. CASE Cancels(k)
  BY <1>4 DEF Cancels, Outcome
<1> QED
  BY <1>1, <1>2, <1>3, <1>4 DEF CallStep

(* So do the reply and its deliveries.                                     *)
LEMMA BusStepKeepsBusInv ==
  TypeOK /\ BusInv /\ RepliesReach /\ BusStep => BusInv' /\ RepliesReach'
<1> SUFFICES ASSUME TypeOK, BusInv, RepliesReach, BusStep PROVE BusInv' /\ RepliesReach'
  OBVIOUS
<1>1. CASE StartsOrStops
  BY <1>1 DEF StartsOrStops, BusInv, RepliesReach
<1>2. ASSUME NEW k \in Calls, CallStep(k) PROVE BusInv' /\ RepliesReach'
  BY <1>2, CallStepKeepsBusInv
<1>3. ASSUME NEW k \in Calls, Reply(k) PROVE BusInv' /\ RepliesReach'
  <2>1. worker[k] = "replying" /\ UNCHANGED <<awaiting, call, reply>>
    BY <1>3 DEF Reply
  <2>2. worker'[k] = "replied" /\ \A j \in Calls : j # k => worker'[j] = worker[j]
    BY <1>3 DEF Reply, TypeOK, BusTypeOK
  <2>3. \A d \in threads' : d.about \in Calls /\ worker'[d.about] = "replied"
    <3> SUFFICES ASSUME NEW d \in threads' PROVE d.about \in Calls /\ worker'[d.about] = "replied"
      OBVIOUS
    <3>1. CASE d \in threads
      BY <2>2, <3>1 DEF BusInv, TypeOK, BusTypeOK, Delivery
    <3>2. CASE d \in {[to |-> c, about |-> k] : c \in awaiting}
      BY <2>2, <3>2
    <3> QED
      BY <1>3, <3>1, <3>2 DEF Reply
  <2>4. \A j \in Calls : call[j] = "waiting" /\ worker'[j] = "replied" /\ j \notin reply
          => [to |-> j, about |-> j] \in threads'
    BY <1>3, <2>1, <2>2 DEF Reply, BusInv, RepliesReach
  <2> QED
    BY <2>1, <2>2, <2>3, <2>4 DEF BusInv, RepliesReach, TypeOK, BusTypeOK
<1>4. ASSUME NEW d \in threads, Handle(d) PROVE BusInv' /\ RepliesReach'
  <2>1. d \in Delivery /\ worker[d.about] = "replied"
    BY DEF TypeOK, BusTypeOK, BusInv
  <2>2. UNCHANGED <<awaiting, call, worker>> /\ threads' = threads \ {d} /\ reply \subseteq reply'
    BY <1>4 DEF Handle
  <2>3. \A k \in reply' : worker[k] = "replied"
    BY <1>4, <2>1 DEF Handle, BusInv
  <2>4. \A k \in Calls : [to |-> k, about |-> k] = d => k \in reply'
    BY <1>4, <2>1 DEF Handle
  <2> QED
    BY <2>2, <2>3, <2>4 DEF BusInv, RepliesReach
<1> QED
  BY <1>1, <1>2, <1>3, <1>4 DEF BusStep

(* And every other step, none of which touches a call.                     *)
LEMMA BusInvNext ==
  TypeOK /\ BusInv /\ RepliesReach /\ [Next]_vars => BusInv' /\ RepliesReach'
<1> SUFFICES ASSUME TypeOK, BusInv, RepliesReach, [Next]_vars PROVE BusInv' /\ RepliesReach'
  OBVIOUS
<1>1. CASE UNCHANGED bus
  BY <1>1 DEF bus, BusInv, RepliesReach
<1>2. CASE BusStep
  BY <1>2, BusStepKeepsBusInv
<1>3. ASSUME NEW k \in Calls, NodeDone(k) \/ NodeFailed(k) PROVE BusInv' /\ RepliesReach'
  BY <1>3, GraphRanKeepsBusInv DEF NodeDone, NodeFailed
<1> QED
  BY <1>1, <1>2, <1>3 DEF Next, SessionStep, vars

(* A reply that is sent while its call waits is on its way to it, for any  *)
(* number of calls of the one agent id.                                    *)
THEOREM RepliesReachTheirCalls == Spec => []RepliesReach
<1>1. TypeOK /\ (BusInv /\ RepliesReach) /\ [Next]_vars => (BusInv /\ RepliesReach)'
  BY BusInvNext
<1> QED
  BY <1>1, BusInvInit, TypeCorrect, PTL DEF Spec

-----------------------------------------------------------------------------
(* What was answered is remembered                                         *)

(* A history with one more message has what it had, and the message.       *)
LEMMA MessagesAppended ==
  ASSUME NEW h \in Seq(Writers), NEW t \in Writers
  PROVE  Messages(Append(h, t)) = Messages(h) \union {t}
<1>1. Len(Append(h, t)) = Len(h) + 1 /\ Len(h) \in Nat
  OBVIOUS
<1>2. \A i \in 1 .. Len(h) + 1 : Append(h, t)[i] = IF i = Len(h) + 1 THEN t ELSE h[i]
  OBVIOUS
<1> QED
  BY <1>1, <1>2 DEF Messages

(* No history has no message.                                              *)
LEMMA NoMessages == Messages(<<>>) = {} /\ Contents(entry) = Messages(entry.value)
  BY DEF Messages, Contents

(* At first nobody is in append and nothing was answered.                  *)
LEMMA MemoryInvInit == Init => RepliedInv /\ LockInv /\ MemoryInv
  BY DEF Init, BusInit, MemoryInit, RepliedInv, LockInv, MemoryInv, Holds, Absent, Expired, Threads

(* A worker answers when its node is done, and a node that is done stays so. *)
LEMMA RepliedNext == TypeOK /\ BusInv /\ RepliedInv /\ [Next]_vars => RepliedInv'
<1> SUFFICES ASSUME TypeOK, BusInv, RepliedInv, [Next]_vars PROVE RepliedInv'
  OBVIOUS
<1> USE DEF TypeOK, BusTypeOK, MemoryTypeOK, RepliedInv
<1>1. CASE BusStep /\ UNCHANGED memory
  <2>1. \A k \in Calls : worker'[k] \in {"replying", "replied"} =>
                         worker[k] \in {"replying", "replied"}
    <3>1. CASE StartsOrStops \/ \E d \in threads : Handle(d)
      BY <3>1 DEF StartsOrStops, Handle
    <3>2. ASSUME NEW k \in Calls, CallStep(k)
          PROVE  \A j \in Calls : worker'[j] \in {"replying", "replied"} =>
                                  worker[j] \in {"replying", "replied"}
      BY <3>2 DEF CallStep, Subscribe, Send, Receives, TimesOut, Interrupted, Awaited, Cancels
    <3>3. ASSUME NEW k \in Calls, Reply(k)
          PROVE  \A j \in Calls : worker'[j] \in {"replying", "replied"} =>
                                  worker[j] \in {"replying", "replied"}
      BY <3>3 DEF Reply
    <3> QED
      BY <1>1, <3>1, <3>2, <3>3 DEF BusStep
  <2> QED
    BY <1>1, <2>1 DEF memory
<1>2. ASSUME NEW t \in Threads, SessionStep(t) PROVE RepliedInv'
  <2>1. worker' = worker
    BY <1>2 DEF SessionStep, bus
  <2>2. \A s \in Threads : s # t => chat'[s] = chat[s]
    BY <1>2 DEF SessionStep, ThreadStep, Begins, Looks, LooksTooLate, Evicts, Ends, StoreThrows
  <2>3. t \in Calls => worker[t] = "working"
    BY <1>2 DEF SessionStep
  <2> QED
    BY <2>1, <2>2, <2>3, OneMessageACall DEF Threads
<1>3. ASSUME NEW k \in Calls, NodeDone(k) \/ NodeFailed(k) PROVE RepliedInv'
  BY <1>3 DEF NodeDone, NodeFailed, GraphRan, memory
<1>4. CASE StoreStep /\ UNCHANGED bus
  BY <1>4 DEF StoreStep, Clear, EvictExpired, Removes, Tick, bus
<1>5. CASE UNCHANGED vars
  BY <1>5 DEF vars, bus, memory
<1> QED
  BY <1>1, <1>2, <1>3, <1>4, <1>5 DEF Next

(* An append holds the lock of its object from its first step to its last. *)
LEMMA LockKept ==
  ASSUME MemoryTypeOK, LockInv, NEW t \in Threads, ThreadStep(t)
  PROVE  LockInv'
<1> USE MemoryAssumption DEF MemoryTypeOK, Threads
<1> SUFFICES ASSUME NEW s \in Writers, Holds(s)' PROVE lock'[Object[s]] = s
  BY DEF LockInv
<1>1. s \in Threads /\ Object[s] \in Objects
  OBVIOUS
<1>2. CASE Begins(t)
  BY <1>1, <1>2 DEF Begins, LockInv, Holds
<1>3. CASE Looks(t) \/ LooksTooLate(t) \/ Evicts(t)
  BY <1>1, <1>3 DEF Looks, LooksTooLate, Evicts, Reads, LockInv, Holds
<1>4. CASE Ends(t) \/ StoreThrows(t)
  <2>1. s # t
    BY <1>4 DEF Ends, StoreThrows, Holds
  <2>2. Holds(s) /\ lock[Object[s]] = s
    BY <1>4, <2>1 DEF Ends, StoreThrows, Holds, LockInv
  <2>3. t \in Writers => Holds(t) /\ lock[Object[t]] = t
    BY <1>4 DEF Ends, StoreThrows, Holds, LockInv
  <2> QED
    BY <1>1, <1>4, <2>1, <2>2, <2>3 DEF Ends, StoreThrows, Unlocked
<1> QED
  BY <1>2, <1>3, <1>4 DEF ThreadStep

(* A step of a thread keeps to MemoryInv when the writers share an object. *)
LEMMA MemoryKept ==
  ASSUME OneSession, MemoryTypeOK, LockInv, MemoryInv, NEW t \in Threads, ThreadStep(t)
  PROVE  MemoryInv'
<1> USE MemoryAssumption DEF MemoryTypeOK, Threads
<1>0. \A s, u \in Writers : Holds(s) /\ Holds(u) => s = u
  BY DEF OneSession, LockInv
<1>1. CASE Begins(t)
  BY <1>1 DEF Begins, MemoryInv, Expired
<1>2. CASE Looks(t)
  BY <1>2 DEF Looks, Reads, MemoryInv, Expired
<1>3. CASE LooksTooLate(t)
  <2>1. t \in Writers
    BY <1>3 DEF LooksTooLate, MemoryInv, OneSession
  <2>2. forgotten' = forgotten \union Messages(entry.value) /\ entry' = entry
    BY <1>3, NoMessages DEF LooksTooLate
  <2>3. chat'[t].at = "evicting" /\ \A s \in Threads : s # t => chat'[s] = chat[s]
    BY <1>3 DEF LooksTooLate
  <2>4. \A s \in Readers : s # t
    BY <1>3 DEF LooksTooLate, MemoryInv, OneSession
  <2>5. \A s \in Writers : chat'[s].at = "ending" =>
           Messages(entry.value) \subseteq Messages(chat'[s].history) \union forgotten
    BY <2>3 DEF MemoryInv
  <2>6. \A s \in Writers : chat'[s].at = "done" => s \in Messages(entry.value) \union forgotten
    BY <2>3 DEF MemoryInv
  <2>7. \A s \in Readers : chat'[s].at # "evicting"
    BY <2>3, <2>4 DEF MemoryInv
  <2>8. ~Expires => ~Expired'
    BY <2>2 DEF MemoryInv, Expired
  <2> QED
    BY <2>2, <2>5, <2>6, <2>7, <2>8 DEF MemoryInv
<1>4. CASE Evicts(t)
  <2>1. t \in Writers /\ Messages(entry.value) \subseteq forgotten
    BY <1>4 DEF Evicts, MemoryInv
  <2>2. entry' = Absent /\ forgotten' = forgotten /\ chat' = [chat EXCEPT ![t] = Reads(<<>>)]
    BY <1>4 DEF Evicts
  <2>3. Messages(entry'.value) = {} /\ ~entry'.stored
    BY <2>2, NoMessages DEF Absent
  <2> QED
    BY <2>1, <2>2, <2>3 DEF MemoryInv, Expired, Reads
<1>5. CASE Ends(t)
  <2>1. CASE t \in Writers
    <3>1. entry' = [stored |-> TRUE, value |-> Append(chat[t].history, t), left |-> Ttl]
      BY <1>5, <2>1 DEF Ends, Puts
    <3>2. Messages(entry'.value) = Messages(chat[t].history) \union {t}
      BY <2>1, <3>1, MessagesAppended
    <3>3. Messages(entry.value) \subseteq Messages(chat[t].history) \union forgotten
      BY <1>5, <2>1 DEF Ends, MemoryInv
    <3>4. \A s \in Writers : s # t => ~Holds(s)
      BY <1>0, <1>5, <2>1 DEF Ends, Holds
    <3>5. /\ chat' = [chat EXCEPT ![t] = [at |-> "done", history |-> <<>>]]
          /\ forgotten' = forgotten
      BY <1>5, <2>1 DEF Ends
    <3>6. ~Expired'
      BY <3>1 DEF Expired
    <3>7. \A s \in Threads : s # t => chat'[s] = chat[s]
      BY <3>5
    <3>8. chat'[t].at = "done"
      BY <3>5
    <3>9. \A s \in Writers : chat'[s].at \notin {"evicting", "ending"}
      BY <3>4, <3>7, <3>8 DEF Holds
    <3>10. \A s \in Writers : chat'[s].at = "done" => s \in Messages(entry'.value) \union forgotten'
      BY <3>2, <3>3, <3>5, <3>7 DEF MemoryInv
    <3>11. \A s \in Readers : chat'[s].at # "evicting"
      BY <3>7, <3>8 DEF MemoryInv
    <3> QED
      BY <3>6, <3>9, <3>10, <3>11 DEF MemoryInv
  <2>2. CASE t \notin Writers
    <3>1. /\ chat' = [chat EXCEPT ![t] = [at |-> "out", history |-> <<>>]]
          /\ UNCHANGED <<entry, forgotten>>
      BY <1>5, <2>2 DEF Ends
    <3>2. chat'[t].at = "out" /\ \A s \in Threads : s # t => chat'[s] = chat[s]
      BY <3>1
    <3>3. \A s \in Writers : chat'[s] = chat[s]
      BY <2>2, <3>2
    <3> QED
      BY <3>1, <3>2, <3>3 DEF MemoryInv, Expired
  <2> QED
    BY <2>1, <2>2
<1>6. CASE StoreThrows(t)
  BY <1>6 DEF StoreThrows, MemoryInv, Expired
<1> QED
  BY <1>1, <1>2, <1>3, <1>4, <1>5, <1>6 DEF ThreadStep

(* So do the clock, and a clear or an eviction at any time.                *)
LEMMA MemoryKeptByStore ==
  ASSUME MemoryTypeOK, MemoryInv, StoreStep
  PROVE  MemoryInv'
<1>1. CASE Removes
  <2>1. /\ entry' = Absent /\ UNCHANGED <<lock, chat>>
        /\ forgotten' = forgotten \union Messages(entry.value)
    BY <1>1, NoMessages DEF Removes
  <2>2. Messages(entry'.value) = {} /\ ~entry'.stored
    BY <2>1, NoMessages DEF Absent
  <2> QED
    BY <2>1, <2>2 DEF MemoryInv, Expired
<1>2. CASE Tick
  <2>1. Expires /\ UNCHANGED <<lock, chat, forgotten>>
    BY <1>2 DEF Tick
  <2>2. entry'.value = entry.value
    BY <1>2 DEF Tick, MemoryTypeOK
  <2> QED
    BY <2>1, <2>2 DEF MemoryInv
<1> QED
  BY <1>1, <1>2 DEF StoreStep, Clear, EvictExpired

(* Whatever step is taken, appends do not overwrite one another.           *)
LEMMA MemoryInvNext ==
  OneSession /\ TypeOK /\ LockInv /\ MemoryInv /\ [Next]_vars => LockInv' /\ MemoryInv'
<1> SUFFICES ASSUME OneSession, TypeOK, LockInv, MemoryInv, [Next]_vars
             PROVE  LockInv' /\ MemoryInv'
  OBVIOUS
<1>1. CASE UNCHANGED memory
  BY <1>1 DEF memory, LockInv, MemoryInv, Holds, Expired
<1>2. ASSUME NEW t \in Threads, SessionStep(t) PROVE LockInv' /\ MemoryInv'
  BY <1>2, LockKept, MemoryKept DEF SessionStep, TypeOK
<1>3. CASE StoreStep
  <2>1. UNCHANGED <<lock, chat>>
    BY <1>3 DEF StoreStep, Clear, EvictExpired, Removes, Tick
  <2> QED
    BY <1>3, <2>1, MemoryKeptByStore DEF TypeOK, LockInv, Holds
<1> QED
  BY <1>1, <1>2, <1>3 DEF Next, NodeDone, NodeFailed, vars

(* An agent with one ChatSession remembers every message it answered until *)
(* the history expires or is cleared, however its runs, the clock and the  *)
(* clears interleave.                                                      *)
THEOREM AnswersAreRemembered == ASSUME OneSession PROVE Spec => []AnsweredIsRemembered
<1> DEFINE IInv == BusInv /\ RepliesReach /\ RepliedInv /\ LockInv /\ MemoryInv
<1>1. Init => IInv
  BY BusInvInit, MemoryInvInit
<1>2. TypeOK /\ IInv /\ [Next]_vars => IInv'
  BY OneSession, BusInvNext, RepliedNext, MemoryInvNext
<1>3. TypeOK /\ IInv => AnsweredIsRemembered
  <2> SUFFICES ASSUME TypeOK, IInv, NEW k \in Calls, call[k] = "returned"
               PROVE  k \in Contents(entry) \union forgotten
    BY DEF AnsweredIsRemembered
  <2>1. worker[k] = "replied"
    BY DEF BusInv
  <2>2. chat[k].at = "done"
    BY <2>1 DEF RepliedInv
  <2> QED
    BY <2>2, NoMessages, OneMessageACall DEF MemoryInv
<1> QED
  BY <1>1, <1>2, <1>3, TypeCorrect, PTL DEF Spec

-----------------------------------------------------------------------------
(* No handler is left behind: what CallsEnd needs besides fairness         *)

UnderWay == {"subscribed", "waiting", "received", "timedOut", "interrupted"}

(* The handlers that the bus has for the callers' id are those of the      *)
(* calls under way.                                                        *)
HandlersOfCalls == \A k \in Calls : k \in awaiting <=> call[k] \in UnderWay

(* A step of a call touches its own handler only.                          *)
LEMMA CallStepKeepsHandlers ==
  ASSUME TypeOK, HandlersOfCalls, NEW k \in Calls, CallStep(k)
  PROVE  HandlersOfCalls'
<1> USE DEF HandlersOfCalls, UnderWay, TypeOK, BusTypeOK
<1>1. CASE Subscribe(k)
  BY <1>1 DEF Subscribe
<1>2. CASE Send(k)
  BY <1>2 DEF Send
<1>3. CASE Receives(k) \/ TimesOut(k) \/ Interrupted(k)
  BY <1>3 DEF Receives, TimesOut, Interrupted, Awaited
<1>4. CASE Cancels(k)
  BY <1>4 DEF Cancels, Outcome
<1> QED
  BY <1>1, <1>2, <1>3, <1>4 DEF CallStep

(* A call that ended, with an answer, late, or interrupted, has left no    *)
(* handler behind, and no other call's end has taken away the handler of   *)
(* one that waits.                                                         *)
THEOREM NoHandlerIsLeft == Spec => []HandlersOfCalls
<1>1. Init => HandlersOfCalls
  BY DEF Init, BusInit, HandlersOfCalls, UnderWay
<1>2. TypeOK /\ HandlersOfCalls /\ [Next]_vars => HandlersOfCalls'
  <2> SUFFICES ASSUME TypeOK, HandlersOfCalls, [Next]_vars PROVE HandlersOfCalls'
    OBVIOUS
  <2>1. CASE UNCHANGED <<awaiting, call>>
    BY <2>1 DEF HandlersOfCalls
  <2>2. CASE BusStep
    BY <2>1, <2>2, CallStepKeepsHandlers DEF BusStep, StartsOrStops, Reply, Handle
  <2>3. ASSUME NEW k \in Calls, NodeDone(k) \/ NodeFailed(k) PROVE HandlersOfCalls'
    BY <2>1, <2>3 DEF NodeDone, NodeFailed, GraphRan
  <2> QED
    BY <2>1, <2>2, <2>3 DEF Next, SessionStep, bus, vars
<1> QED
  BY <1>1, <1>2, TypeCorrect, PTL DEF Spec
=============================================================================
