---------------------------- MODULE OfflineQueue ----------------------------
(***************************************************************************)
(* The write queue of the web client: client/src/lib/offline.ts, its       *)
(* callers in client/src/lib/api.ts, and the triggers in main.tsx and      *)
(* sw.ts.  A write made offline is kept in IndexedDB under its method and  *)
(* path; a later write to the same path replaces it.  On reconnection the  *)
(* page sends what is stored, and deletes each record once its request has *)
(* been answered.                                                          *)
(*                                                                         *)
(* Two events start a flush, the browser's "online" and the sync message   *)
(* of the service worker, and nothing keeps two flushes apart: each is a   *)
(* process here.  Sending, the answer and the deletion are separate steps, *)
(* and the user goes on writing between them.                              *)
(***************************************************************************)
EXTENDS Integers, Sequences, FiniteSets

CONSTANTS
    Keys,        \* method and path of a write
    Flushes,     \* flushes that may run at once (a bound)
    MaxWrites,   \* bound on the writes the user makes
    Direct       \* whether the user also writes while online

ASSUME QueueAssumption ==
    /\ MaxWrites \in Nat
    /\ Direct \in BOOLEAN

VARIABLES
    online,      \* navigator.onLine
    triggers,    \* events whose listeners will call flushQueuedApi
    sync,        \* the service worker's sync is registered
    written,     \* number of writes the user has made; each is a number
    saved,       \* writes told "Saved offline"
    store,       \* the object store 'queue', ordered by createdAt
    server,      \* the newest write each resource of the server holds
    received,    \* writes the server has carried out
    pc, todo     \* the flushes, and the records each has still to send

queue  == <<triggers, sync, store>>
remote == <<server, received>>
flush  == <<pc, todo>>
user   == <<written, saved>>
vars   == <<online, queue, remote, flush, user>>

Write == [key : Keys, number : 1..MaxWrites]

Init ==
    /\ online \in BOOLEAN
    /\ triggers = {}
    /\ sync = FALSE
    /\ written = 0
    /\ saved = {}
    /\ store = <<>>
    /\ server = [k \in Keys |-> 0]
    /\ received = {}
    /\ pc = [f \in Flushes |-> "idle"]
    /\ todo = [f \in Flushes |-> <<>>]

-----------------------------------------------------------------------------
(* enqueue, and the writes of the user *)

PlacesOf(k) == {n \in 1..Len(store) : store[n].key = k}
Without(k) ==
    IF PlacesOf(k) = {} THEN store
    ELSE LET n == CHOOSE n \in PlacesOf(k) : TRUE
         IN  SubSeq(store, 1, n - 1) \o SubSeq(store, n + 1, Len(store))

\* Mutant: every record gets an id of its own.
Put_Appends(w) ==
    /\ store' = Append(store, w)
    /\ sync' \in {sync, TRUE}

\* The put replaces the record of the key and gives it a new createdAt; then
\* the background sync is registered, where the browser has it and allows it.
Put(w) ==
    /\ store' = Append(Without(w.key), w)
    /\ sync' \in {sync, TRUE}

NewWrite(k) == [key |-> k, number |-> written + 1]

\* api while offline.
WriteOffline(k) ==
    /\ ~online
    /\ written < MaxWrites
    /\ written' = written + 1
    /\ saved' = saved \cup {NewWrite(k)}
    /\ Put(NewWrite(k))
    /\ UNCHANGED <<online, triggers, remote, flush>>

Apply(w) ==
    /\ server' = [server EXCEPT ![w.key] = w.number]
    /\ received' = received \cup {w}

\* api while online never touches the queue.
WriteOnline(k) ==
    /\ Direct
    /\ online
    /\ written < MaxWrites
    /\ written' = written + 1
    /\ Apply(NewWrite(k))
    /\ UNCHANGED <<online, queue, flush, saved>>

-----------------------------------------------------------------------------
(* The connection, and what starts a flush *)

GoOffline ==
    /\ online
    /\ online' = FALSE
    /\ UNCHANGED <<queue, remote, flush, user>>

\* Mutant: nobody listens to the event.
GoOnline_Unheard ==
    /\ ~online
    /\ online' = TRUE
    /\ UNCHANGED <<triggers, sync, store, remote, flush, user>>

GoOnline ==
    /\ ~online
    /\ online' = TRUE
    /\ triggers' = triggers \cup {"online"}
    /\ UNCHANGED <<sync, store, remote, flush, user>>

\* The browser fires the registered sync; a page the service worker controls
\* is told to flush.
SyncFires ==
    /\ online
    /\ sync
    /\ sync' = FALSE
    /\ triggers' \in {triggers, triggers \cup {"sync"}}
    /\ UNCHANGED <<online, store, remote, flush, user>>

\* flushQueuedApi returns at once when it finds the page offline again.
SkipFlush(t) ==
    /\ ~online
    /\ triggers' = triggers \ {t}
    /\ UNCHANGED <<online, sync, store, remote, flush, user>>

\* flushQueue reads the whole store.
BeginFlush(f, t) ==
    /\ online
    /\ pc[f] = "idle"
    /\ triggers' = triggers \ {t}
    /\ IF store = <<>> THEN UNCHANGED flush
       ELSE /\ pc' = [pc EXCEPT ![f] = "send"]
            /\ todo' = [todo EXCEPT ![f] = store]
    /\ UNCHANGED <<online, sync, store, remote, user>>

-----------------------------------------------------------------------------
(* The loop of flushQueue, oldest record first *)

Goto(f, label) == pc' = [pc EXCEPT ![f] = label] /\ UNCHANGED todo

NextRecord(f) ==
    /\ todo' = [todo EXCEPT ![f] = Tail(@)]
    /\ pc' = [pc EXCEPT ![f] = IF Len(todo[f]) = 1 THEN "idle" ELSE "send"]

\* The request reaches the server, which carries it out ...
Send(f) ==
    /\ pc[f] = "send"
    /\ online
    /\ Apply(Head(todo[f]))
    /\ Goto(f, "wait")
    /\ UNCHANGED <<online, queue, user>>

\* Mutant: the record is deleted although the request failed.
SendFails_Deletes(f) ==
    /\ pc[f] = "send"
    /\ online
    /\ store' = Without(Head(todo[f]).key)
    /\ NextRecord(f)
    /\ UNCHANGED <<online, triggers, sync, remote, user>>

\* ... or refuses it, or the network fails: the record is kept.
SendFails(f) ==
    /\ pc[f] = "send"
    /\ online
    /\ NextRecord(f)
    /\ UNCHANGED <<online, queue, remote, user>>

\* api finds the page offline once more and queues the old body again, over
\* whatever the key holds by now.
SendQueuesAgain(f) ==
    /\ pc[f] = "send"
    /\ ~online
    /\ Put(Head(todo[f]))
    /\ NextRecord(f)
    /\ UNCHANGED <<online, triggers, remote, user>>

\* The answer is lost with the connection.
AnswerLost(f) ==
    /\ pc[f] = "wait"
    /\ NextRecord(f)
    /\ UNCHANGED <<online, queue, remote, user>>

\* The answer arrives, and the record is deleted by its key.
Delete(f) ==
    /\ pc[f] = "wait"
    /\ store' = Without(Head(todo[f]).key)
    /\ NextRecord(f)
    /\ UNCHANGED <<online, triggers, sync, remote, user>>

\* The page is closed or reloaded: its flushes and pending events are gone.
Reload ==
    /\ triggers' = {}
    /\ pc' = [f \in Flushes |-> "idle"]
    /\ todo' = [f \in Flushes |-> <<>>]
    /\ UNCHANGED <<online, sync, store, remote, user>>

-----------------------------------------------------------------------------
Start == \E f \in Flushes, t \in triggers : BeginFlush(f, t)

Work(f) ==
    \/ Send(f) \/ SendFails(f) \/ SendQueuesAgain(f)
    \/ AnswerLost(f) \/ Delete(f)

Next ==
    \/ \E k \in Keys : WriteOffline(k) \/ WriteOnline(k)
    \/ GoOffline \/ GoOnline \/ SyncFires
    \/ \E t \in triggers : SkipFlush(t)
    \/ Start
    \/ \E f \in Flushes : Work(f)
    \/ Reload

Spec == Init /\ [][Next]_vars

(* Fairness *)

OfKey(f, k) == Head(todo[f]).key = k

\* The connection comes and goes, and time and again the page and the connection
\* hold long enough for a flush to begin, for a request of each key to be carried
\* out and for its answer to arrive.
Reliable ==
    /\ SF_vars(GoOffline) /\ WF_vars(GoOnline)
    /\ SF_vars(Start)
    /\ \A f \in Flushes, k \in Keys :
           /\ SF_vars(Send(f) /\ OfKey(f, k))
           /\ SF_vars(Delete(f) /\ OfKey(f, k))

FairSpec == Spec /\ Reliable

-----------------------------------------------------------------------------
(* What the code keeps true *)

\* Store, server and flushes hold what their code puts there; the store has one
\* record for a key.
TypeOK ==
    /\ online \in BOOLEAN
    /\ triggers \in SUBSET {"online", "sync"}
    /\ sync \in BOOLEAN
    /\ written \in 0..MaxWrites
    /\ saved \in SUBSET Write
    /\ store \in Seq(Write)
    /\ \A m, n \in 1..Len(store) : store[m].key = store[n].key => m = n
    /\ server \in [Keys -> 0..MaxWrites]
    /\ received \in SUBSET Write
    /\ pc \in [Flushes -> {"idle", "send", "wait"}]
    /\ todo \in [Flushes -> Seq(Write)]

Stored(w) == \E n \in 1..Len(store) : store[n] = w

\* Failing requests, lost answers, reloads, a connection that goes in the middle
\* of a flush and overlapping flushes never drop a resource from the queue: once
\* a write to it was saved, its key is stored until the server has carried out
\* one of the saved writes.
NoKeyLost ==
    \A w \in saved :
        \/ \E n \in 1..Len(store) : store[n].key = w.key
        \/ \E v \in received : v.key = w.key /\ v \in saved

\* A stored write is sent in the end, or is replaced, however often requests
\* fail, answers are lost and the page is reloaded in between.
StoredIsSent ==
    \A w \in Write : Stored(w) ~> (w \in received \/ ~Stored(w))

(* The inductive invariant of OfflineQueueProofs *)

\* What is stored or being sent was saved, and a record waits for its answer only
\* when its request has been carried out.
QueueInv ==
    /\ TypeOK
    /\ \A n \in 1..Len(store) : store[n] \in saved
    /\ \A f \in Flushes : \A n \in 1..Len(todo[f]) : todo[f][n] \in saved
    /\ \A f \in Flushes : pc[f] # "idle" => todo[f] # <<>>
    /\ \A f \in Flushes : pc[f] = "wait" => Head(todo[f]) \in received
    /\ NoKeyLost

(* What the code says, and does not keep *)

Busy(k) == \E f \in Flushes : \E n \in 1..Len(todo[f]) : todo[f][n].key = k

\* "last-write-wins already used same id" (flushQueue): when nothing is stored
\* or under way for a resource, the server holds the newest write to it.
LastWriteWins ==
    \A k \in Keys :
        (~Busy(k) /\ \A n \in 1..Len(store) : store[n].key # k) =>
            \A w \in saved \cup received : w.key = k => w.number <= server[k]
=============================================================================
