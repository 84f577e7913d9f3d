----------------------------- MODULE ChatMemory -----------------------------
(***************************************************************************)
(* The history of one conversation: ChatSession over a TtlMemoryStore, or  *)
(* over a store that forgets nothing.  append reads the history and writes *)
(* it back, one message longer, under the lock of its ChatSession object;  *)
(* messages and clear take no lock.  The store is shared by every object   *)
(* for the session's id, and has one entry for it.                         *)
(*                                                                         *)
(* A writer appends one message, which goes by the writer's name.  What    *)
(* the clock tells is how much of its time to live an entry has left.      *)
(***************************************************************************)
EXTENDS Naturals, Sequences, FiniteSets

CONSTANTS
  Writers,    \* threads that append
  Readers,    \* threads that read the messages
  Objects,    \* ChatSession objects for the one session id
  Object,     \* Object[t]: which of them thread t uses
  Expires,    \* the store is a TtlMemoryStore
  Ttl,        \* its time to live, in ticks
  Nobody      \* no thread

Threads == Writers \union Readers

ASSUME MemoryAssumption ==
  /\ Nobody \notin Threads
  /\ Object \in [Threads -> Objects]
  /\ Expires \in BOOLEAN
  /\ Ttl \in Nat \ {0}

VARIABLES
  entry,      \* what the store has for the session
  lock,       \* lock[o]: who holds the appendLock of object o
  chat,       \* chat[t]: how far thread t is, and the history that it read
  forgotten   \* history: messages that expired or were cleared

memory == <<entry, lock, chat, forgotten>>

Absent == [stored |-> FALSE, value |-> <<>>, left |-> 0]
Contents(e) == {e.value[i] : i \in 1 .. Len(e.value)}
Expired == entry.stored /\ entry.left = 0
Reads(history) == [at |-> "ending", history |-> history]

MemoryTypeOK ==
  /\ entry \in [stored : BOOLEAN, value : Seq(Writers), left : 0 .. Ttl]
  /\ lock \in [Objects -> Threads \union {Nobody}]
  /\ chat \in [Threads -> [at : {"out", "looking", "evicting", "ending", "done", "failed"},
                           history : Seq(Writers)]]
  /\ forgotten \subseteq Writers

MemoryInit ==
  /\ entry = Absent
  /\ lock = [o \in Objects |-> Nobody]
  /\ chat = [t \in Threads |-> [at |-> "out", history |-> <<>>]]
  /\ forgotten = {}

-----------------------------------------------------------------------------
Unlocked(t) ==
  lock' = IF t \in Writers THEN [lock EXCEPT ![Object[t]] = Nobody] ELSE lock

(* Wrong: the history is read before the lock is taken.                    *)
BeginsAnyway(t) ==
  /\ chat[t].at = "out"
  /\ chat' = [chat EXCEPT ![t].at = "looking"]
  /\ UNCHANGED <<entry, lock, forgotten>>

(* append takes the lock, messages does not.                               *)
Begins(t) ==
  /\ chat[t].at = "out"
  /\ t \in Writers => lock[Object[t]] = Nobody
  /\ lock' = IF t \in Writers THEN [lock EXCEPT ![Object[t]] = t] ELSE lock
  /\ chat' = [chat EXCEPT ![t].at = "looking"]
  /\ UNCHANGED <<entry, forgotten>>

(* TtlMemoryStore.get: an entry that is not there or has not expired.      *)
Looks(t) ==
  /\ chat[t].at = "looking"
  /\ ~Expired
  /\ chat' = [chat EXCEPT ![t] = Reads(entry.value)]
  /\ UNCHANGED <<entry, lock, forgotten>>

(* One that has: it is forgotten, and goes in a second step.               *)
LooksTooLate(t) ==
  /\ chat[t].at = "looking"
  /\ Expired
  /\ chat' = [chat EXCEPT ![t].at = "evicting"]
  /\ forgotten' = forgotten \union Contents(entry)
  /\ UNCHANGED <<entry, lock>>

(* TtlMemoryStore.evict removes whatever is there by now.                  *)
Evicts(t) ==
  /\ chat[t].at = "evicting"
  /\ entry' = Absent
  /\ chat' = [chat EXCEPT ![t] = Reads(<<>>)]
  /\ UNCHANGED <<lock, forgotten>>

Puts(history) == entry' = [stored |-> TRUE, value |-> history, left |-> Ttl]

(* append puts the history it read, with its message, and unlocks.         *)
Ends(t) ==
  /\ chat[t].at = "ending"
  /\ IF t \in Writers THEN Puts(Append(chat[t].history, t)) ELSE UNCHANGED entry
  /\ chat' = [chat EXCEPT ![t] = [at |-> IF t \in Writers THEN "done" ELSE "out",
                                  history |-> <<>>]]
  /\ Unlocked(t)
  /\ UNCHANGED forgotten

(* The store throws, reading or writing.                                   *)
StoreThrows(t) ==
  /\ chat[t].at \in {"looking", "ending"}
  /\ chat' = [chat EXCEPT ![t] = [at |-> "failed", history |-> <<>>]]
  /\ Unlocked(t)
  /\ UNCHANGED <<entry, forgotten>>

Removes ==
  /\ entry' = Absent
  /\ forgotten' = forgotten \union Contents(entry)
  /\ UNCHANGED <<lock, chat>>

(* ChatSession.clear, at any time.                                         *)
Clear == entry.stored /\ Removes

(* TtlMemoryStore.evictExpired, at any time.                               *)
EvictExpired == Expired /\ Removes

Tick ==
  /\ Expires
  /\ entry.left > 0
  /\ entry' = [entry EXCEPT !.left = @ - 1]
  /\ UNCHANGED <<lock, chat, forgotten>>

ThreadStep(t) ==
  Begins(t) \/ Looks(t) \/ LooksTooLate(t) \/ Evicts(t) \/ Ends(t) \/ StoreThrows(t)

StoreStep == Clear \/ EvictExpired \/ Tick
=============================================================================
