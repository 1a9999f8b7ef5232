----------------------------- MODULE TimerQueue -----------------------------
(***************************************************************************)
(* pkg/event_loop/timer_queue.go: the timers of one event loop, kept in a  *)
(* container/heap array, and the timerfd that wakes the loop for them.     *)
(*                                                                         *)
(* The clock counts nanoseconds, the unit of time.Time and of the timerfd. *)
(* All of the code runs on the loop goroutine; `at' says where it is:      *)
(*   "idle"      between two rounds, or in a callback of a round in which  *)
(*               Poll() did not return the timerfd                         *)
(*   "ready"     in a round in which Poll() returned the timerfd, before   *)
(*               its callback                                              *)
(*   "expire"    in getExpired, "fire" between two timer callbacks         *)
(*   "callback"  in a timer callback                                       *)
(* User code, which calls RunAt and CancelTimer, runs at "idle", "ready"   *)
(* and "callback".  Time may pass anywhere, also between the two readings  *)
(* of the clock in getExpired.                                             *)
(***************************************************************************)
EXTENDS Integers, Sequences, FiniteSets

CONSTANTS
    Stamps,       \* trigger times that RunAt is called with
    Intervals,    \* intervals that RunAt is called with, 0 for once
    AddAt,        \* places where user code calls RunAt
    CancelAt,     \* places where user code calls CancelTimer
    CancelUpTo,   \* it does so while at most this many timers are pending
    Never,        \* the timerfd is disarmed
    MaxTimers,    \* bound: calls of RunAt
    MaxTime       \* bound: the clock

UserPlaces == {"idle", "ready", "callback"}
Ids == 1..MaxTimers

ASSUME TimerAssumption ==
    /\ Stamps \subseteq Nat
    /\ Intervals \subseteq Nat
    /\ AddAt \subseteq UserPlaces
    /\ CancelAt \subseteq UserPlaces
    /\ CancelUpTo \in Nat
    /\ Never \notin Nat
    /\ MaxTimers \in Nat
    /\ MaxTime \in Nat

Entry == [id : Ids, stamp : Nat, interval : Intervals]

VARIABLES
    now,          \* time.Now()
    heap,         \* tq.heap
    counter,      \* tq.timerIdCounter
    armed,        \* when the timerfd expires, or Never
    ticks,        \* the timerfd has expired and can be read
    at,           \* where the loop goroutine is
    since,        \* getExpired's first time.Now()
    expired,      \* getExpired's result, without the callbacks that have
                  \* returned: its head is the timer whose callback runs
    cancelled,    \* ids for which CancelTimer has returned true
    missed,       \* history: the time of the earliest timer came between or
                  \* at getExpired's two time.Now(), and AddTimer not since
    panicked      \* the timerfd's callback read nothing

vars == <<now, heap, counter, armed, ticks, at, since, expired, cancelled,
          missed, panicked>>

TypeOK ==
    /\ now \in 0..MaxTime
    /\ heap \in Seq(Entry)
    /\ counter \in 0..MaxTimers
    /\ armed \in Nat \cup {Never}
    /\ ticks \in BOOLEAN
    /\ at \in UserPlaces \cup {"expire", "fire"}
    /\ since \in 0..MaxTime
    /\ expired \in Seq(Entry)
    /\ at = "callback" => expired # << >>
    /\ cancelled \in SUBSET Ids
    /\ missed \in BOOLEAN
    /\ panicked \in BOOLEAN

Init ==
    /\ now = 0
    /\ heap = << >>
    /\ counter = 0
    /\ armed = Never
    /\ ticks = FALSE
    /\ at = "idle"
    /\ since = 0
    /\ expired = << >>
    /\ cancelled = {}
    /\ missed = FALSE
    /\ panicked = FALSE

-----------------------------------------------------------------------------
(* timerHeap under container/heap.  The parent of position i is i \div 2.  *)

Less(a, b) == IF a.stamp = b.stamp THEN a.id < b.id ELSE a.stamp < b.stamp

\* timerHeap.Push used instead of heap.Push.
Push_NoUp(h, x) == Append(h, x)

\* heap.Push: x is appended and swapped with its parent while it is less.
\* path[i] is the set of positions that x then visits from i; each of these
\* but the last takes over the entry of its parent.
Push(h, x) ==
    LET n == Len(h) + 1
        rises(i) == i > 1 /\ Less(x, h[i \div 2])
        path[i \in 1..n] == IF rises(i) THEN {i} \cup path[i \div 2] ELSE {i}
    IN  [i \in 1..n |-> IF i \notin path[n] THEN h[i]
                        ELSE IF rises(i) THEN h[i \div 2] ELSE x]

\* heap.Pop: the last entry replaces the root and is swapped with its lesser
\* child while that is less.
Pop(h) ==
    LET m == Len(h) - 1
        x == h[m + 1]
        child(i) == IF 2 * i + 1 <= m /\ Less(h[2 * i + 1], h[2 * i])
                    THEN 2 * i + 1 ELSE 2 * i
        sinks(i) == child(i) <= m /\ Less(h[child(i)], x)
        path[i \in 1..m] == IF sinks(i) THEN {i} \cup path[child(i)] ELSE {i}
    IN  [i \in 1..m |-> IF i \notin path[1] THEN h[i]
                        ELSE IF sinks(i) THEN h[child(i)] ELSE x]

-----------------------------------------------------------------------------
(* The clock and the timerfd.                                              *)

\* timerfd_settime(2) with a relative time: 0 disarms, and unread
\* expirations are gone in any case.
SetTime(nsec) ==
    /\ armed' = IF nsec = 0 THEN Never ELSE now + nsec
    /\ ticks' = FALSE

\* Time passes, and the timerfd expires.
Tick ==
    /\ ~panicked
    /\ now < MaxTime
    /\ now' = now + 1
    /\ armed' = IF armed # Never /\ armed <= now' THEN Never ELSE armed
    /\ ticks' = (ticks \/ (armed # Never /\ armed <= now'))
    /\ UNCHANGED <<heap, counter, at, since, expired, cancelled, missed,
                   panicked>>

-----------------------------------------------------------------------------
(* User code.                                                              *)

\* The mistake that AddTimer's comment warns of.
Remaining_Zero(h) == IF now < h[1].stamp THEN h[1].stamp - now ELSE 0

\* What AddTimer sets the timerfd to: the time that is left, or 1 when the
\* time has come already, because 0 would disarm it.
Remaining(h) == IF now < h[1].stamp THEN h[1].stamp - now ELSE 1

\* An AddTimer that takes the id before it counts up.
AddTimer_OldId(stamp, interval) ==
    /\ ~panicked
    /\ at \in AddAt
    /\ counter < MaxTimers
    /\ now < MaxTime - 1
    /\ counter' = counter + 1
    /\ heap' = Push(heap, [id |-> counter, stamp |-> stamp,
                           interval |-> interval])
    /\ SetTime(Remaining(heap'))
    /\ missed' = FALSE
    /\ UNCHANGED <<now, at, since, expired, cancelled, panicked>>

AddTimer(stamp, interval) ==
    /\ ~panicked
    /\ at \in AddAt
    /\ counter < MaxTimers
    /\ now < MaxTime - 1
    /\ counter' = counter + 1
    /\ heap' = Push(heap, [id |-> counter + 1, stamp |-> stamp,
                           interval |-> interval])
    /\ SetTime(Remaining(heap'))
    /\ missed' = FALSE
    /\ UNCHANGED <<now, at, since, expired, cancelled, panicked>>

\* CancelTimer's loop: the entries with other ids, in the order of the array.
Without(h, id) ==
    LET kept[i \in 0..Len(h)] ==
            IF i = 0 THEN << >>
            ELSE IF h[i].id = id THEN kept[i - 1] ELSE Append(kept[i - 1], h[i])
    IN  kept[Len(h)]

\* A CancelTimer that answers true for every id that was handed out.
CancelTimer_AlwaysOk(id) ==
    /\ ~panicked
    /\ at \in CancelAt
    /\ Len(heap) <= CancelUpTo
    /\ id \in 1..counter
    /\ heap' = Without(heap, id)
    /\ cancelled' = cancelled \cup {id}
    /\ UNCHANGED <<now, counter, armed, ticks, at, since, expired, missed,
                   panicked>>

\* The entry is filtered out of the array; the timerfd is left alone.
CancelTimer(id) ==
    /\ ~panicked
    /\ at \in CancelAt
    /\ Len(heap) <= CancelUpTo
    /\ id \in 1..counter
    /\ heap' = Without(heap, id)
    /\ cancelled' = IF heap' # heap THEN cancelled \cup {id} ELSE cancelled
    /\ UNCHANGED <<now, counter, armed, ticks, at, since, expired, missed,
                   panicked>>

-----------------------------------------------------------------------------
(* The timerfd's channel.                                                  *)

\* Poll() returns the timerfd.
Poll ==
    /\ ~panicked
    /\ at = "idle"
    /\ ticks
    /\ at' = "ready"
    /\ UNCHANGED <<now, heap, counter, armed, ticks, since, expired,
                   cancelled, missed, panicked>>

\* The read callback: read(2) takes the expirations, EAGAIN is a panic.
\* getExpired takes its first time.Now().
ReadTimerfd ==
    /\ ~panicked
    /\ at = "ready"
    /\ IF ticks
       THEN /\ ticks' = FALSE
            /\ at' = "expire"
            /\ since' = now
            /\ UNCHANGED panicked
       ELSE /\ panicked' = TRUE
            /\ UNCHANGED <<ticks, at, since>>
    /\ UNCHANGED <<now, heap, counter, armed, expired, cancelled, missed>>

\* getExpired takes one entry; a periodic one goes back for its next time.
IsDue == heap # << >> /\ heap[1].stamp < since
ExpireOne_Prepend ==
    /\ ~panicked
    /\ at = "expire"
    /\ IsDue
    /\ LET e == heap[1] IN
         /\ expired' = <<e>> \o expired
         /\ heap' = IF e.interval = 0 THEN Pop(heap)
                    ELSE Push(Pop(heap), [e EXCEPT !.stamp = @ + e.interval])
    /\ UNCHANGED <<now, counter, armed, ticks, at, since, cancelled, missed,
                   panicked>>
ExpireOne ==
    /\ ~panicked
    /\ at = "expire"
    /\ IsDue
    /\ LET e == heap[1] IN
         /\ expired' = Append(expired, e)
         /\ heap' = IF e.interval = 0 THEN Pop(heap)
                    ELSE Push(Pop(heap), [e EXCEPT !.stamp = @ + e.interval])
    /\ UNCHANGED <<now, counter, armed, ticks, at, since, cancelled, missed,
                   panicked>>


\* What getExpired sets the timerfd to, by a second time.Now().
RearmTime(h) == IF now < h[1].stamp THEN h[1].stamp - now ELSE 0

\* getExpired sets the timerfd again and returns.
Rearm ==
    /\ ~panicked
    /\ at = "expire"
    /\ ~IsDue
    /\ IF heap # << >> THEN SetTime(RearmTime(heap)) ELSE UNCHANGED <<armed, ticks>>
    /\ missed' = (heap # << >> /\ since <= heap[1].stamp /\ heap[1].stamp <= now)
    /\ at' = "fire"
    /\ UNCHANGED <<now, heap, counter, since, expired, cancelled, panicked>>

\* The next expired timer's onTimer is called, and returns.
Fire ==
    /\ ~panicked
    /\ at = "fire"
    /\ expired # << >>
    /\ at' = "callback"
    /\ UNCHANGED <<now, heap, counter, armed, ticks, since, expired,
                   cancelled, missed, panicked>>
Return ==
    /\ ~panicked
    /\ at = "callback"
    /\ expired' = Tail(expired)
    /\ at' = "fire"
    /\ UNCHANGED <<now, heap, counter, armed, ticks, since, cancelled, missed,
                   panicked>>
FireDone ==
    /\ ~panicked
    /\ at = "fire"
    /\ expired = << >>
    /\ at' = "idle"
    /\ UNCHANGED <<now, heap, counter, armed, ticks, since, expired,
                   cancelled, missed, panicked>>

LoopStep == Poll \/ ReadTimerfd \/ ExpireOne \/ Rearm \/ Fire \/ Return \/ FireDone

Next ==
    \/ Tick
    \/ LoopStep
    \/ \E stamp \in Stamps, interval \in Intervals : AddTimer(stamp, interval)
    \/ \E id \in Ids : CancelTimer(id)

Spec == Init /\ [][Next]_vars

\* Time passes and the loop goroutine is scheduled.
FairSpec == Spec /\ WF_vars(Tick) /\ WF_vars(LoopStep)

-----------------------------------------------------------------------------
(* Properties.                                                             *)

\* What AddTimer and getExpired rely on when they look at tq.heap[0] only
\* (timer_queue.go:125, 174, 193): it is the earliest timer.
EarliestFirst == \A i \in DOMAIN heap : heap[1].stamp <= heap[i].stamp

\* The timerfd is armed or readable already, and armed for no later than the
\* earliest timer, unless that is late by now.
Covered ==
    \/ ticks
    \/ /\ armed # Never
       /\ \A i \in DOMAIN heap : armed <= heap[i].stamp \/ armed <= now + 1

\* "reset the timerfd, set it to the earliest one" (timer_queue.go:188): it
\* covers the pending timers whenever the loop waits in epoll_wait.
ArmedForEarliest == at = "idle" /\ heap # << >> => Covered

\* The loop never waits with timers that the timerfd does not cover, whatever
\* user code has added and cancelled, but for the one mistake of
\* timer_queue.go:190-195: a time that comes between getExpired's two
\* readings of the clock, and then only until the next AddTimer.
NoForgottenTimer == at = "idle" /\ heap # << >> => Covered \/ missed

\* Timers that are due in the same round run in the order of their times
\* (timer_queue.go:174-177), although the periodic ones re-enter the heap.
DueOrder ==
    \A i, j \in DOMAIN expired : i < j => expired[i].stamp <= expired[j].stamp

\* evloop.go:115: a timer that CancelTimer has removed, answering true, does
\* not run any more.  It is never due again, and a one-shot timer is not among
\* those whose callback getExpired's caller still has to run.
CancelHolds ==
    /\ \A i \in DOMAIN heap : heap[i].id \notin cancelled
    /\ \A i \in DOMAIN expired :
         expired[i].interval = 0 => expired[i].id \notin cancelled

\* evloop.go:112: every timer that is set for a time within the bound runs its
\* own callback for that time, unless it is cancelled before, the process dies
\* of the read, or the loop is left to wait for ever on a missed time.
Pending(id, stamp) == \E i \in DOMAIN heap : heap[i].id = id /\ heap[i].stamp = stamp
Runs(id, stamp) ==
    at = "callback" /\ Head(expired).id = id /\ Head(expired).stamp = stamp

=============================================================================
