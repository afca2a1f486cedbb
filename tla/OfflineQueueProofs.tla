------------------------- MODULE OfflineQueueProofs -------------------------
(***************************************************************************)
(* The offline queue forgets no resource, for any number of keys, writes   *)
(* and overlapping flushes.                                                *)
(***************************************************************************)
EXTENDS OfflineQueue, SequenceTheorems, TLAPS

OnePerKey(s) == \A m, n \in 1..Len(s) : s[m].key = s[n].key => m = n

\* Without a key the store keeps the records of the other keys, and no more.
LEMMA WithoutKey ==
  ASSUME store \in Seq(Write), OnePerKey(store), NEW k
  PROVE  /\ Without(k) \in Seq(Write)
         /\ OnePerKey(Without(k))
         /\ \A n \in 1..Len(Without(k)) :
                Without(k)[n].key # k /\ \E m \in 1..Len(store) : Without(k)[n] = store[m]
         /\ \A m \in 1..Len(store) :
                store[m].key # k => \E n \in 1..Len(Without(k)) : Without(k)[n] = store[m]
  <1>1. CASE PlacesOf(k) = {}
    BY <1>1 DEF Without, PlacesOf, OnePerKey
  <1>2. CASE PlacesOf(k) # {}
    <2> DEFINE i == CHOOSE n \in PlacesOf(k) : TRUE
               a == SubSeq(store, 1, i - 1)
               b == SubSeq(store, i + 1, Len(store))
    <2>1. i \in 1..Len(store) /\ store[i].key = k /\ Len(store) \in Nat
      BY <1>2 DEF PlacesOf
    <2>2. Without(k) = a \o b
      BY <1>2 DEF Without
    <2> HIDE DEF i
    <2>3. \A n \in 1..Len(store) : store[n] \in Write
      BY ElementOfSeq
    <2>4. a \in Seq(Write) /\ Len(a) = i - 1 /\ \A n \in 1..i - 1 : a[n] = store[n]
      <3>1. i - 1 \in Int /\ \A n \in 1..i - 1 : store[n] \in Write
        BY <2>1, <2>3
      <3>2. /\ SubSeq(store, 1, i - 1) \in Seq(Write)
            /\ Len(SubSeq(store, 1, i - 1)) = IF 1 <= i - 1 THEN i - 1 - 1 + 1 ELSE 0
            /\ \A n \in 1..i - 1 - 1 + 1 : SubSeq(store, 1, i - 1)[n] = store[1 + n - 1]
        BY <3>1, SubSeqProperties
      <3>3. QED
        BY <2>1, <3>2
    <2>5. b \in Seq(Write) /\ Len(b) = Len(store) - i
          /\ \A n \in 1..Len(store) - i : b[n] = store[n + i]
      <3>1. i + 1 \in Int /\ Len(store) \in Int /\ \A n \in i + 1..Len(store) : store[n] \in Write
        BY <2>1, <2>3
      <3>2. /\ b \in Seq(Write)
            /\ Len(b) = IF i + 1 <= Len(store) THEN Len(store) - (i + 1) + 1 ELSE 0
            /\ \A n \in 1..Len(store) - (i + 1) + 1 : b[n] = store[i + 1 + n - 1]
        BY <3>1, SubSeqProperties
      <3>3. QED
        BY <2>1, <3>2
    <2> HIDE DEF a, b
    <2>6. /\ a \o b \in Seq(Write)
          /\ Len(a \o b) = Len(store) - 1
          /\ \A n \in 1..Len(store) - 1 : (a \o b)[n] = IF n < i THEN store[n] ELSE store[n + 1]
      <3>1. /\ a \o b \in Seq(Write) /\ Len(a \o b) = Len(a) + Len(b)
            /\ \A n \in 1..Len(a) + Len(b) : (a \o b)[n] = IF n <= Len(a) THEN a[n] ELSE b[n - Len(a)]
        BY <2>4, <2>5, ConcatProperties
      <3>2. \A n \in 1..Len(store) - 1 : (a \o b)[n] = IF n < i THEN store[n] ELSE store[n + 1]
        <4> TAKE n \in 1..Len(store) - 1
        <4>1. CASE n < i
          BY <4>1, <2>1, <2>4, <2>5, <3>1
        <4>2. CASE ~(n < i)
          <5>1. n - (i - 1) \in 1..Len(store) - i /\ n - (i - 1) + i = n + 1
            BY <4>2, <2>1
          <5>2. (a \o b)[n] = b[n - (i - 1)]
            BY <4>2, <2>1, <2>4, <2>5, <3>1
          <5>3. QED
            BY <5>1, <5>2, <4>2, <2>5
        <4>3. QED
          BY <4>1, <4>2
      <3>3. QED
        BY <2>1, <2>4, <2>5, <3>1, <3>2
    <2> DEFINE place(n) == IF n < i THEN n ELSE n + 1
    <2>7. \A n \in 1..Len(store) - 1 :
             /\ place(n) \in 1..Len(store) /\ place(n) # i
             /\ (a \o b)[n] = store[place(n)]
             /\ \A m \in 1..Len(store) - 1 : place(m) = place(n) => m = n
      BY <2>1, <2>6
    <2>8. \A m \in 1..Len(store) : m # i =>
             \E n \in 1..Len(store) - 1 : place(n) = m
      <3> TAKE m \in 1..Len(store)
      <3>1. CASE m < i
        <4>1. m \in 1..Len(store) - 1 /\ place(m) = m
          BY <3>1, <2>1
        <4>2. QED
          BY <4>1
      <3>2. CASE m > i
        <4>1. m - 1 \in 1..Len(store) - 1 /\ place(m - 1) = m
          BY <3>2, <2>1
        <4>2. QED
          BY <4>1
      <3>3. m < i \/ m > i \/ m = i
        BY <2>1
      <3>4. QED
        BY <3>1, <3>2, <3>3
    <2> HIDE DEF place
    <2> DEFINE t == a \o b
    <2>9. t \in Seq(Write) /\ Len(t) = Len(store) - 1 /\ Without(k) = t
      BY <2>2, <2>6
    <2>10. \A n \in 1..Len(t) :
             /\ place(n) \in 1..Len(store) /\ place(n) # i /\ t[n] = store[place(n)]
             /\ \A m \in 1..Len(t) : place(m) = place(n) => m = n
      BY <2>9, <2>7
    <2>11. \A m \in 1..Len(store) : m # i => \E n \in 1..Len(t) : place(n) = m
      BY <2>9, <2>8
    <2> HIDE DEF t
    <2>12. OnePerKey(t)
      <3> SUFFICES ASSUME NEW m \in 1..Len(t), NEW n \in 1..Len(t), t[m].key = t[n].key
                   PROVE  m = n
        BY DEF OnePerKey
      <3>1. place(m) = place(n)
        BY <2>10 DEF OnePerKey
      <3>2. QED
        BY <3>1, <2>10
    <2>13. \A m \in 1..Len(store) : store[m].key = k => m = i
      BY <2>1 DEF OnePerKey
    <2>14. \A n \in 1..Len(t) :
              t[n].key # k /\ \E m \in 1..Len(store) : t[n] = store[m]
      BY <2>10, <2>13
    <2>15. \A m \in 1..Len(store) :
              store[m].key # k => \E n \in 1..Len(t) : t[n] = store[m]
      BY <2>1, <2>10, <2>11
    <2>16. QED
      BY <2>9, <2>12, <2>14, <2>15
  <1>3. QED
    BY <1>1, <1>2

\* A put leaves the records of the other keys and one of its own.
LEMMA PutKeeps ==
  ASSUME store \in Seq(Write), OnePerKey(store), sync \in BOOLEAN, NEW w \in Write, Put(w)
  PROVE  /\ store' \in Seq(Write) /\ OnePerKey(store') /\ sync' \in BOOLEAN
         /\ \A n \in 1..Len(store') :
                store'[n] = w \/ \E m \in 1..Len(store) : store'[n] = store[m]
         /\ \E n \in 1..Len(store') : store'[n] = w
         /\ \A m \in 1..Len(store) : \E n \in 1..Len(store') : store'[n].key = store[m].key
  <1> DEFINE s == Without(w.key)
  <1>1. /\ s \in Seq(Write) /\ OnePerKey(s)
        /\ \A n \in 1..Len(s) : s[n].key # w.key /\ \E m \in 1..Len(store) : s[n] = store[m]
        /\ \A m \in 1..Len(store) :
               store[m].key # w.key => \E n \in 1..Len(s) : s[n] = store[m]
    BY WithoutKey DEF OnePerKey
  <1>2. store' = Append(s, w) /\ sync' \in BOOLEAN
    BY DEF Put
  <1> HIDE DEF s
  <1>3. /\ Append(s, w) \in Seq(Write) /\ Len(Append(s, w)) = Len(s) + 1 /\ Len(s) \in Nat
        /\ \A n \in 1..Len(s) : Append(s, w)[n] = s[n]
        /\ Append(s, w)[Len(s) + 1] = w
    BY <1>1, AppendProperties
  <1>4. OnePerKey(store')
    <2>1. SUFFICES ASSUME NEW m \in 1..(Len(s) + 1), NEW n \in 1..(Len(s) + 1),
                          Append(s, w)[m].key = Append(s, w)[n].key
                   PROVE  m = n
      BY <1>2, <1>3 DEF OnePerKey
    <2>2. CASE m = Len(s) + 1 /\ n # Len(s) + 1
      <3>1. n \in 1..Len(s)
        BY <2>2, <1>3
      <3>2. QED
        BY <3>1, <2>1, <2>2, <1>1, <1>3
    <2>3. CASE n = Len(s) + 1 /\ m # Len(s) + 1
      <3>1. m \in 1..Len(s)
        BY <2>3, <1>3
      <3>2. QED
        BY <3>1, <2>1, <2>3, <1>1, <1>3
    <2>4. CASE m # Len(s) + 1 /\ n # Len(s) + 1
      <3>1. m \in 1..Len(s) /\ n \in 1..Len(s)
        BY <2>4, <1>3
      <3>2. s[m].key = s[n].key
        BY <3>1, <2>1, <1>3
      <3>3. QED
        BY <3>1, <3>2, <1>1 DEF OnePerKey
    <2>5. QED
      BY <2>2, <2>3, <2>4
  <1>5. \A m \in 1..Len(store) : \E n \in 1..Len(store') : store'[n].key = store[m].key
    <2> TAKE m \in 1..Len(store)
    <2>1. CASE store[m].key = w.key
      <3>1. Len(s) + 1 \in 1..Len(store')
        BY <1>2, <1>3
      <3>2. QED
        BY <2>1, <3>1, <1>2, <1>3
    <2>2. CASE store[m].key # w.key
      <3>1. PICK n \in 1..Len(s) : s[n] = store[m]
        BY <2>2, <1>1
      <3>2. n \in 1..Len(store') /\ store'[n] = store[m]
        BY <3>1, <1>2, <1>3
      <3>3. QED
        BY <3>2
    <2>3. QED
      BY <2>1, <2>2
  <1>6. QED
    BY <1>1, <1>2, <1>3, <1>4, <1>5

\* The flush goes on with the records that are left.
LEMMA NextRecordKeeps ==
  ASSUME QueueInv, NEW f \in Flushes, pc[f] # "idle", NextRecord(f)
  PROVE  /\ pc' \in [Flushes -> {"idle", "send", "wait"}]
         /\ todo' \in [Flushes -> Seq(Write)]
         /\ \A g \in Flushes : \A n \in 1..Len(todo'[g]) : todo'[g][n] \in saved
         /\ \A g \in Flushes : pc'[g] # "idle" => todo'[g] # <<>>
         /\ \A g \in Flushes : pc'[g] = "wait" => pc[g] = "wait" /\ Head(todo'[g]) = Head(todo[g])
  <1>1. todo[f] \in Seq(Write) /\ todo[f] # <<>>
    BY DEF QueueInv, TypeOK
  <1>2. /\ Tail(todo[f]) \in Seq(Write) /\ Len(Tail(todo[f])) = Len(todo[f]) - 1
        /\ \A n \in 1..Len(Tail(todo[f])) : Tail(todo[f])[n] = todo[f][n + 1]
    BY <1>1, HeadTailProperties
  <1>3. Len(todo[f]) \in Nat \ {0}
    BY <1>1, EmptySeq
  <1>4. Len(todo[f]) # 1 => Tail(todo[f]) # <<>>
    <2>1. Tail(todo[f]) = <<>> => Len(Tail(todo[f])) = 0
      BY EmptySeq
    <2>2. QED
      BY <2>1, <1>2, <1>3
  <1>5. \A n \in 1..Len(Tail(todo[f])) : Tail(todo[f])[n] \in saved
    BY <1>2, <1>3 DEF QueueInv
  <1>6. todo' = [todo EXCEPT ![f] = Tail(todo[f])]
        /\ pc' = [pc EXCEPT ![f] = IF Len(todo[f]) = 1 THEN "idle" ELSE "send"]
    BY DEF NextRecord
  <1>7. QED
    BY <1>2, <1>4, <1>5, <1>6 DEF QueueInv, TypeOK

\* The record a flush is at was saved.
LEMMA HeadWasSaved ==
  ASSUME QueueInv, NEW f \in Flushes, pc[f] # "idle"
  PROVE  Head(todo[f]) \in Write /\ Head(todo[f]) \in saved
  <1>1. todo[f] \in Seq(Write) /\ todo[f] # <<>>
    BY DEF QueueInv, TypeOK
  <1>2. Head(todo[f]) = todo[f][1] /\ 1 \in 1..Len(todo[f])
    BY <1>1, EmptySeq
  <1>3. QED
    BY <1>1, <1>2, HeadTailProperties DEF QueueInv

\* A write made offline is saved and stored at once.
LEMMA WriteOfflineKeeps ==
  ASSUME QueueInv, NEW k \in Keys, WriteOffline(k)
  PROVE  QueueInv'
  <1> DEFINE w == NewWrite(k)
  <1>1. w \in Write /\ written' \in 0..MaxWrites /\ saved' = saved \cup {w} /\ Put(w)
    BY QueueAssumption DEF WriteOffline, QueueInv, TypeOK, NewWrite, Write
  <1>2. store \in Seq(Write) /\ OnePerKey(store) /\ sync \in BOOLEAN
    BY DEF QueueInv, TypeOK, OnePerKey
  <1> HIDE DEF w
  <1>3. /\ store' \in Seq(Write) /\ OnePerKey(store') /\ sync' \in BOOLEAN
        /\ \A n \in 1..Len(store') :
               store'[n] = w \/ \E m \in 1..Len(store) : store'[n] = store[m]
        /\ \E n \in 1..Len(store') : store'[n] = w
        /\ \A m \in 1..Len(store) : \E n \in 1..Len(store') : store'[n].key = store[m].key
    BY <1>1, <1>2, PutKeeps
  <1>4. UNCHANGED <<online, triggers, server, received, pc, todo>>
    BY DEF WriteOffline, remote, flush
  <1>5. TypeOK'
    BY <1>1, <1>3, <1>4 DEF QueueInv, TypeOK, OnePerKey
  <1>6. NoKeyLost'
    BY <1>1, <1>3, <1>4 DEF QueueInv, NoKeyLost
  <1>7. QED
    BY <1>1, <1>3, <1>4, <1>5, <1>6 DEF QueueInv

\* A flush that finds the page offline stores its record again.
LEMMA QueuesAgainKeeps ==
  ASSUME QueueInv, NEW f \in Flushes, SendQueuesAgain(f)
  PROVE  QueueInv'
  <1> DEFINE w == Head(todo[f])
  <1>1. /\ pc[f] # "idle" /\ Put(w) /\ NextRecord(f)
        /\ UNCHANGED <<online, triggers, server, received, written, saved>>
    BY DEF SendQueuesAgain, remote, user
  <1>2. w \in Write /\ w \in saved
    BY <1>1, HeadWasSaved
  <1>3. store \in Seq(Write) /\ OnePerKey(store) /\ sync \in BOOLEAN
    BY DEF QueueInv, TypeOK, OnePerKey
  <1> HIDE DEF w
  <1>4. /\ store' \in Seq(Write) /\ OnePerKey(store') /\ sync' \in BOOLEAN
        /\ \A n \in 1..Len(store') :
               store'[n] = w \/ \E m \in 1..Len(store) : store'[n] = store[m]
        /\ \A m \in 1..Len(store) : \E n \in 1..Len(store') : store'[n].key = store[m].key
    BY <1>1, <1>2, <1>3, PutKeeps
  <1>5. /\ pc' \in [Flushes -> {"idle", "send", "wait"}]
        /\ todo' \in [Flushes -> Seq(Write)]
        /\ \A g \in Flushes : \A n \in 1..Len(todo'[g]) : todo'[g][n] \in saved
        /\ \A g \in Flushes : pc'[g] # "idle" => todo'[g] # <<>>
        /\ \A g \in Flushes : pc'[g] = "wait" => pc[g] = "wait" /\ Head(todo'[g]) = Head(todo[g])
    BY <1>1, NextRecordKeeps
  <1>6. TypeOK'
    BY <1>1, <1>4, <1>5 DEF QueueInv, TypeOK, OnePerKey
  <1>7. NoKeyLost'
    BY <1>1, <1>4 DEF QueueInv, NoKeyLost
  <1>8. QED
    BY <1>1, <1>2, <1>4, <1>5, <1>6, <1>7 DEF QueueInv

\* A record is deleted with its key when its request was carried out.
LEMMA DeleteKeeps ==
  ASSUME QueueInv, NEW f \in Flushes, Delete(f)
  PROVE  QueueInv'
  <1> DEFINE w == Head(todo[f])
             s == Without(w.key)
  <1>1. /\ pc[f] = "wait" /\ store' = s /\ NextRecord(f)
        /\ UNCHANGED <<online, triggers, sync, server, received, written, saved>>
    BY DEF Delete, remote, user
  <1>2. w \in Write /\ w \in saved /\ w \in received
    BY <1>1, HeadWasSaved DEF QueueInv
  <1>3. /\ s \in Seq(Write) /\ OnePerKey(s)
        /\ \A n \in 1..Len(s) : s[n].key # w.key /\ \E m \in 1..Len(store) : s[n] = store[m]
        /\ \A m \in 1..Len(store) :
               store[m].key # w.key => \E n \in 1..Len(s) : s[n] = store[m]
    BY WithoutKey DEF QueueInv, TypeOK, OnePerKey
  <1> HIDE DEF s, w
  <1>4. /\ pc' \in [Flushes -> {"idle", "send", "wait"}]
        /\ todo' \in [Flushes -> Seq(Write)]
        /\ \A g \in Flushes : \A n \in 1..Len(todo'[g]) : todo'[g][n] \in saved
        /\ \A g \in Flushes : pc'[g] # "idle" => todo'[g] # <<>>
        /\ \A g \in Flushes : pc'[g] = "wait" => pc[g] = "wait" /\ Head(todo'[g]) = Head(todo[g])
    BY <1>1, NextRecordKeeps
  <1>5. TypeOK'
    BY <1>1, <1>3, <1>4 DEF QueueInv, TypeOK, OnePerKey
  <1>6. NoKeyLost'
    <2> SUFFICES ASSUME NEW v \in saved
                 PROVE  \/ \E n \in 1..Len(store') : store'[n].key = v.key
                        \/ \E u \in received : u.key = v.key /\ u \in saved
      BY <1>1 DEF NoKeyLost
    <2>1. CASE v.key = w.key
      BY <2>1, <1>2
    <2>2. CASE v.key # w.key
      BY <2>2, <1>1, <1>3 DEF QueueInv, NoKeyLost
    <2>3. QED
      BY <2>1, <2>2
  <1>7. QED
    BY <1>1, <1>3, <1>4, <1>5, <1>6 DEF QueueInv

\* The steps that leave the store alone.
LEMMA OthersKeep ==
  ASSUME QueueInv, NEW f \in Flushes,
         Send(f) \/ SendFails(f) \/ AnswerLost(f) \/ (\E t \in triggers : BeginFlush(f, t))
  PROVE  QueueInv'
  <1>1. CASE Send(f)
    <2>1. Head(todo[f]) \in Write
      BY <1>1, HeadWasSaved DEF Send
    <2>2. Head(todo[f]).key \in Keys /\ Head(todo[f]).number \in 0..MaxWrites
      BY <2>1, QueueAssumption DEF Write
    <2>3. QED
      BY <1>1, <2>1, <2>2 DEF Send, Apply, Goto, queue, user, QueueInv, TypeOK, NoKeyLost
  <1>2. CASE SendFails(f) \/ AnswerLost(f)
    <2>1. pc[f] # "idle" /\ NextRecord(f)
          /\ UNCHANGED <<online, triggers, sync, store, server, received, written, saved>>
      BY <1>2 DEF SendFails, AnswerLost, queue, remote, user
    <2>2. QED
      BY <2>1, NextRecordKeeps DEF QueueInv, TypeOK, NoKeyLost
  <1>3. ASSUME NEW t \in triggers, BeginFlush(f, t)
        PROVE  QueueInv'
    <2>1. UNCHANGED <<online, sync, store, server, received, written, saved>>
          /\ triggers' \in SUBSET {"online", "sync"}
      BY <1>3 DEF BeginFlush, remote, user, QueueInv, TypeOK
    <2>2. CASE store = <<>>
      BY <2>1, <2>2, <1>3 DEF BeginFlush, flush, QueueInv, TypeOK, NoKeyLost
    <2>3. CASE store # <<>>
      <3>1. pc' = [pc EXCEPT ![f] = "send"] /\ todo' = [todo EXCEPT ![f] = store]
        BY <2>3, <1>3 DEF BeginFlush
      <3>2. TypeOK'
        BY <2>1, <3>1 DEF QueueInv, TypeOK
      <3>3. NoKeyLost'
        BY <2>1 DEF QueueInv, NoKeyLost
      <3>4. QED
        BY <2>1, <2>3, <3>1, <3>2, <3>3 DEF QueueInv, TypeOK
    <2>4. QED
      BY <2>2, <2>3
  <1>4. QED
    BY <1>1, <1>2, <1>3

LEMMA QueueStep ==
  ASSUME QueueInv, [Next]_vars
  PROVE  QueueInv'
  <1>1. ASSUME NEW k \in Keys, WriteOnline(k)
        PROVE  QueueInv'
    <2>1. NewWrite(k) \in Write /\ written' \in 0..MaxWrites
      BY <1>1, QueueAssumption DEF WriteOnline, NewWrite, Write, QueueInv, TypeOK
    <2>2. /\ received' = received \cup {NewWrite(k)}
          /\ server' = [server EXCEPT ![k] = written + 1]
          /\ UNCHANGED <<online, triggers, sync, store, pc, todo, saved>>
      BY <1>1 DEF WriteOnline, Apply, NewWrite, queue, flush
    <2>3. server' \in [Keys -> 0..MaxWrites]
      BY <1>1, <2>2, QueueAssumption DEF WriteOnline, QueueInv, TypeOK
    <2>4. TypeOK'
      BY <2>1, <2>2, <2>3 DEF QueueInv, TypeOK
    <2>5. NoKeyLost'
      BY <2>2 DEF QueueInv, NoKeyLost
    <2>6. QED
      BY <2>2, <2>4, <2>5 DEF QueueInv
  <1>2. CASE GoOffline \/ GoOnline \/ SyncFires \/ \E t \in triggers : SkipFlush(t)
    BY <1>2 DEF GoOffline, GoOnline, SyncFires, SkipFlush, queue, remote, flush, user,
       QueueInv, TypeOK, NoKeyLost
  <1>3. CASE Reload
    BY <1>3, EmptySeq DEF Reload, remote, user, QueueInv, TypeOK, NoKeyLost
  <1>4. CASE UNCHANGED vars
    BY <1>4 DEF vars, queue, remote, flush, user, QueueInv, TypeOK, NoKeyLost
  <1>5. QED
    BY <1>1, <1>2, <1>3, <1>4, WriteOfflineKeeps, QueuesAgainKeeps, DeleteKeeps, OthersKeep
       DEF Next, Start, Work

\* The invariant holds in an empty page.
LEMMA QueueInit == Init => QueueInv
  <1>1. <<>> \in Seq(Write) /\ 1..Len(<<>>) = {}
    BY EmptySeq
  <1>2. SUFFICES ASSUME Init PROVE QueueInv
    OBVIOUS
  <1>3. TypeOK
    <2>1. /\ online \in BOOLEAN /\ triggers \in SUBSET {"online", "sync"} /\ sync \in BOOLEAN
          /\ written \in 0..MaxWrites /\ server \in [Keys -> 0..MaxWrites]
      <3>1. 0 \in 0..MaxWrites
        BY QueueAssumption
      <3>2. QED
        BY <3>1, <1>2 DEF Init
    <2>2. /\ saved \in SUBSET Write /\ received \in SUBSET Write
          /\ pc \in [Flushes -> {"idle", "send", "wait"}]
      BY <1>2 DEF Init
    <2>3. /\ store \in Seq(Write) /\ todo \in [Flushes -> Seq(Write)]
          /\ \A m, n \in 1..Len(store) : store[m].key = store[n].key => m = n
      BY <1>1, <1>2 DEF Init
    <2>4. QED
      BY <2>1, <2>2, <2>3 DEF TypeOK
  <1>4. QED
    BY <1>1, <1>2, <1>3 DEF Init, QueueInv, NoKeyLost

\* What the store, the server and the flushes hold; one record for a key.
THEOREM QueueTypes == Spec => []TypeOK
  <1>1. QueueInv => TypeOK
    BY DEF QueueInv
  <1>2. QED
    BY <1>1, QueueInit, QueueStep, PTL DEF Spec

\* A resource written offline stays queued until the server has carried out one
\* of the saved writes to it, for any keys, writes and overlapping flushes.
THEOREM NothingIsForgotten == Spec => []NoKeyLost
  <1>1. QueueInv => NoKeyLost
    BY DEF QueueInv
  <1>2. QED
    BY <1>1, QueueInit, QueueStep, PTL DEF Spec
=============================================================================
