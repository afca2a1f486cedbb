------------------------------- MODULE Streaks -------------------------------
(***************************************************************************)
(* The days in a row on which a user was here, and learned: heartbeat of   *)
(* services/communityService.ts, which the community page and the course   *)
(* player call.                                                            *)
(*                                                                         *)
(* A heartbeat reads the user's row, works out both streaks from it and    *)
(* the day, and writes both, with the days they were counted to: pages     *)
(* open at once, and one at midnight, write over each other's.             *)
(***************************************************************************)
EXTENDS Integers

CONSTANTS
    Slots,   \* heartbeats in flight at once (a bound)
    Days     \* the last day (a bound)

VARIABLES
    today,   \* the day of the server's clock
    login, learning,   \* User.loginStreak with lastSeenOn, learnStreak with lastLearnOn
    beats,   \* heartbeats in flight
    visits, lessons,   \* history: the days of stored heartbeats, and of those that learn
    overlaid \* history: a heartbeat was written over what another wrote since it read

streakVars == <<today, login, learning, beats, visits, lessons, overlaid>>

Never == 0   \* no day yet
Streak == [length : 0..Days, last : 0..Days]
Unseen == [length |-> 0, last |-> Never]
Still == [pc |-> "idle", learn |-> FALSE, day |-> Never, login |-> Unseen, learning |-> Unseen, late |-> FALSE]

Init ==
    /\ today = 1
    /\ login = Unseen /\ learning = Unseen
    /\ beats = [b \in Slots |-> Still]
    /\ visits = {} /\ lessons = {}
    /\ overlaid = FALSE

\* Mutant: any later day counts as the next.
Counted_Gaps(streak, day) ==
    IF streak.last = day THEN streak
    ELSE [length |-> IF streak.last # Never THEN streak.length + 1 ELSE 1, last |-> day]

\* A streak with one more day: the same day counts once, the next goes on, and any
\* other begins anew.
Counted(streak, day) ==
    IF streak.last = day THEN streak
    ELSE [length |-> IF streak.last # Never /\ streak.last + 1 = day THEN streak.length + 1 ELSE 1, last |-> day]

Midnight == /\ today < Days
            /\ today' = today + 1
            /\ UNCHANGED <<login, learning, beats, visits, lessons, overlaid>>

\* The row is read.
Read(b, learn) ==
    /\ beats[b].pc = "idle"
    /\ beats' = [beats EXCEPT ![b] = [Still EXCEPT !.pc = "read", !.learn = learn,
                                                   !.login = login, !.learning = learning]]
    /\ UNCHANGED <<today, login, learning, visits, lessons, overlaid>>

\* Its answer comes: the day is asked for now, and the update sent.
Count(b) ==
    /\ beats[b].pc = "read"
    /\ beats' = [beats EXCEPT ![b].pc = "sent", ![b].day = today,
                              ![b].login = Counted(beats[b].login, today),
                              ![b].learning = IF beats[b].learn THEN Counted(beats[b].learning, today)
                                                                ELSE beats[b].learning]
    /\ UNCHANGED <<today, login, learning, visits, lessons, overlaid>>

\* The heartbeats that read the row before another was written.
Late == [c \in Slots |-> [beats[c] EXCEPT !.late = beats[c].pc # "idle"]]

\* Both streaks are written, changed or not.
Write(b) ==
    /\ beats[b].pc = "sent"
    /\ login' = beats[b].login
    /\ learning' = beats[b].learning
    /\ visits' = visits \cup {beats[b].day}
    /\ lessons' = IF beats[b].learn THEN lessons \cup {beats[b].day} ELSE lessons
    /\ overlaid' = (overlaid \/ beats[b].late)
    /\ beats' = [Late EXCEPT ![b] = Still]
    /\ UNCHANGED today

\* A statement fails.
Fail(b) ==
    /\ beats[b].pc # "idle"
    /\ beats' = [beats EXCEPT ![b] = Still]
    /\ UNCHANGED <<today, login, learning, visits, lessons, overlaid>>

Next ==
    \/ Midnight
    \/ \E b \in Slots :
           \/ \E learn \in BOOLEAN : Read(b, learn)
           \/ Count(b) \/ Write(b) \/ Fail(b)

Spec == Init /\ [][Next]_streakVars

-----------------------------------------------------------------------------
(* What the code keeps true *)

\* Every day of a streak is a day on which the user was here.
Covers(streak, days) == \A k \in 0..(streak.length - 1) : streak.last - k \in days

\* It is counted to the last day, and begins after a day without.
Exact(streak, days) ==
    /\ \A d \in days : d <= streak.last
    /\ days # {} => streak.length > 0
    /\ streak.last - streak.length \notin days

\* A streak shown counts only days in a row on which the user was here, or learned,
\* whatever heartbeats run together and whenever midnight comes; and all of them, up
\* to the last, until a heartbeat is written over another's.
StreaksAreDays ==
    /\ Covers(login, visits) /\ Covers(learning, lessons)
    /\ ~overlaid => Exact(login, visits) /\ Exact(learning, lessons)

-----------------------------------------------------------------------------
(* The inductive invariant of SessionsProofs *)

Beat == [pc : {"idle", "read", "sent"}, learn : BOOLEAN, day : 0..Days,
         login : Streak, learning : Streak, late : BOOLEAN]

TypeOK ==
    /\ today \in 1..Days
    /\ login \in Streak /\ learning \in Streak
    /\ beats \in [Slots -> Beat]
    /\ visits \subseteq 1..today /\ lessons \subseteq visits
    /\ overlaid \in BOOLEAN

Sound(streak) == streak.length <= streak.last /\ (streak.length = 0 => streak.last = Never)

\* What a heartbeat is to write, or has read: it covers the days it will count, and
\* unless it is late it is of the row as it is.
BeatIsSound(q) ==
    /\ Sound(q.login) /\ Sound(q.learning)
    /\ q.login.last <= today /\ q.learning.last <= today
    /\ q.pc = "read" =>
           /\ Covers(q.login, visits) /\ Covers(q.learning, lessons)
           /\ ~q.late => q.login = login /\ q.learning = learning
    /\ q.pc = "sent" =>
           /\ q.day \in 1..today
           /\ Covers(q.login, visits \cup {q.day})
           /\ Covers(q.learning, IF q.learn THEN lessons \cup {q.day} ELSE lessons)
           /\ ~q.late => /\ q.login = Counted(login, q.day)
                         /\ q.learning = IF q.learn THEN Counted(learning, q.day) ELSE learning
                         /\ \A d \in visits : d <= q.day

StreaksInv ==
    /\ TypeOK
    /\ Sound(login) /\ Sound(learning) /\ login.last <= today /\ learning.last <= today
    /\ \A b \in Slots : BeatIsSound(beats[b])
    /\ StreaksAreDays
=============================================================================
