------------------------------ MODULE AsyncLog ------------------------------
(***************************************************************************)
(* pkg/async_log and pkg/cond: the goroutines that call Logf, the buffers  *)
(* they fill, and the background goroutine that writes the buffers to the  *)
(* file.                                                                   *)
(*                                                                         *)
(* Every stretch of code between lo.mu.Lock() and the next Unlock() is one *)
(* action: none of them blocks, and everything that they touch is guarded  *)
(* by lo.mu, apart from the buffers that the background goroutine is       *)
(* writing.  Buffers are pointers in the code and numbers here, so that a  *)
(* buffer could be in two lists.                                           *)
(***************************************************************************)
EXTENDS Integers, Sequences

CONSTANTS
    Producers,     \* goroutines that call Logf
    Sizes,         \* lengths of the lines they log
    BufferSize,    \* bufferSize
    BackupNums,    \* backupBufferNums
    DiskFails,     \* whether f.Write may fail
    MaxCalls,      \* bound: calls of Logf per producer
    MaxLines       \* bound: calls of Logf in all

\* A line: who logged it, and which of its lines it is.
Line == [from : Producers, n : 1..MaxCalls]

\* A buffer is allocated only in exchange for one that holds a line.
Buffers == 1..(1 + BackupNums + MaxLines)

ASSUME LogAssumption ==
    /\ BufferSize \in Nat \ {0}
    /\ Sizes \subseteq 1..BufferSize
    /\ BackupNums \in Nat \ {0}
    /\ DiskFails \in BOOLEAN
    /\ MaxCalls \in Nat
    /\ MaxLines \in Nat

VARIABLES
    currentBuffer, \* lo.currentBuffer
    backupBuffers, \* lo.backupBuffers
    fullBuffers,   \* lo.fullBuffers
    lines,         \* the lines in each buffer
    used,          \* len(data) of each buffer
    allocated,     \* buffers made so far
    chan,          \* the channel in lo.cond.n; the earlier ones are closed
    held,          \* the channel that WaitWithTimeout waits on
    at,            \* where the background goroutine is
    tobeWritten,   \* the slice that it writes
    next,          \* how far it is in that slice
    calls,         \* calls of Logf by each producer
    logged,        \* calls of Logf in all
    file           \* the lines in the file

shared == <<currentBuffer, backupBuffers, fullBuffers, allocated>>
contents == <<lines, used>>
background == <<held, at, tobeWritten, next>>
vars == <<shared, contents, chan, background, calls, logged, file>>

TypeOK ==
    /\ currentBuffer \in Buffers
    /\ backupBuffers \in Seq(Buffers)
    /\ fullBuffers \in Seq(Buffers)
    /\ lines \in [Buffers -> Seq(Line)]
    /\ used \in [Buffers -> 0..BufferSize]
    /\ allocated \in Buffers
    /\ chan \in 0..MaxLines
    /\ held \in 0..MaxLines
    /\ at \in {"lock", "wait", "relock", "write"}
    /\ tobeWritten \in Seq(Buffers)
    /\ next \in 1..(Len(tobeWritten) + 1)
    /\ calls \in [Producers -> 0..MaxCalls]
    /\ logged \in 0..MaxLines
    /\ file \in Seq(Line)

Init ==
    /\ currentBuffer = 1 + BackupNums
    /\ backupBuffers = [i \in 1..BackupNums |-> i]
    /\ fullBuffers = << >>
    /\ lines = [b \in Buffers |-> << >>]
    /\ used = [b \in Buffers |-> 0]
    /\ allocated = 1 + BackupNums
    /\ chan = 0
    /\ held = 0
    /\ at = "lock"
    /\ tobeWritten = << >>
    /\ next = 1
    /\ calls = [p \in Producers |-> 0]
    /\ logged = 0
    /\ file = << >>

Empty(b) == used[b] = 0
Fits_Always(b, size) == TRUE
Fits(b, size) == used[b] + size <= BufferSize

\* buffer.Append, whose answer is Fits.
AppendLine(b, line, size) ==
    IF Fits(b, size)
    THEN /\ lines' = [lines EXCEPT ![b] = Append(@, line)]
         /\ used' = [used EXCEPT ![b] = @ + size]
    ELSE UNCHANGED contents

\* A rotation that keeps the backup buffer that it takes.
TakeEmptyBuffer_Kept ==
    IF backupBuffers # << >>
    THEN /\ currentBuffer' = backupBuffers[Len(backupBuffers)]
         /\ UNCHANGED <<backupBuffers, allocated>>
    ELSE /\ currentBuffer' = allocated + 1
         /\ allocated' = allocated + 1
         /\ UNCHANGED backupBuffers

\* The current buffer is replaced by the last backup buffer or by a new one.
TakeEmptyBuffer ==
    IF backupBuffers # << >>
    THEN /\ currentBuffer' = backupBuffers[Len(backupBuffers)]
         /\ backupBuffers' = SubSeq(backupBuffers, 1, Len(backupBuffers) - 1)
         /\ UNCHANGED allocated
    ELSE /\ currentBuffer' = allocated + 1
         /\ allocated' = allocated + 1
         /\ UNCHANGED backupBuffers

\* Cond.Broadcast replaces the channel and closes the old one.
Broadcast_Missing == UNCHANGED chan
Broadcast == chan' = chan + 1

\* Logf of a line that the current buffer has room for, and of one for which
\* the buffer is set aside.
Logf(p, size) ==
    /\ calls[p] < MaxCalls
    /\ logged < MaxLines
    /\ calls' = [calls EXCEPT ![p] = @ + 1]
    /\ logged' = logged + 1
    /\ LET line == [from |-> p, n |-> calls[p] + 1] IN
       \/ /\ Fits(currentBuffer, size)
          /\ AppendLine(currentBuffer, line, size)
          /\ UNCHANGED <<shared, chan>>
       \/ /\ ~Fits(currentBuffer, size)
          /\ fullBuffers' = Append(fullBuffers, currentBuffer)
          /\ TakeEmptyBuffer
          /\ AppendLine(currentBuffer', line, size)
          /\ Broadcast
    /\ UNCHANGED <<background, file>>

-----------------------------------------------------------------------------
(* The background goroutine.                                               *)

\* With nothing to write it waits: it takes the channel and unlocks.
WaitWithTimeout ==
    /\ at = "lock"
    /\ Empty(currentBuffer)
    /\ held' = chan
    /\ at' = "wait"
    /\ UNCHANGED <<shared, contents, chan, tobeWritten, next, calls, logged, file>>

\* The wait ends when the channel is closed, or after three seconds.
Notified ==
    /\ at = "wait"
    /\ held < chan
    /\ at' = "relock"
    /\ UNCHANGED <<shared, contents, chan, held, tobeWritten, next, calls,
                   logged, file>>
TimedOut ==
    /\ at = "wait"
    /\ at' = "relock"
    /\ UNCHANGED <<shared, contents, chan, held, tobeWritten, next, calls,
                   logged, file>>

\* Taking the full buffers only.
TakeBuffers_FullOnly ==
    /\ \/ at = "lock" /\ ~Empty(currentBuffer)
       \/ at = "relock"
    /\ tobeWritten' = fullBuffers
    /\ fullBuffers' = << >>
    /\ next' = 1
    /\ at' = "write"
    /\ UNCHANGED <<currentBuffer, backupBuffers, allocated, contents, chan, held,
                   calls, logged, file>>

\* It takes the full buffers and the current one, unless that is empty.
TakeBuffers ==
    /\ \/ at = "lock" /\ ~Empty(currentBuffer)
       \/ at = "relock"
    /\ IF Empty(currentBuffer)
       THEN /\ tobeWritten' = fullBuffers
            /\ UNCHANGED <<currentBuffer, backupBuffers, allocated>>
       ELSE /\ tobeWritten' = Append(fullBuffers, currentBuffer)
            /\ TakeEmptyBuffer
    /\ fullBuffers' = << >>
    /\ next' = 1
    /\ at' = "write"
    /\ UNCHANGED <<contents, chan, held, calls, logged, file>>

\* A write after which the buffer is not reset.
WriteBuffer_NoReset ==
    /\ at = "write"
    /\ next <= Len(tobeWritten)
    /\ file' = file \o lines[tobeWritten[next]]
    /\ next' = next + 1
    /\ UNCHANGED <<shared, contents, chan, held, at, tobeWritten, calls, logged>>

\* f.Write, whose error is ignored, and Reset.
WriteBuffer ==
    /\ at = "write"
    /\ next <= Len(tobeWritten)
    /\ LET b == tobeWritten[next]
           n == Len(lines[b]) IN
         /\ \E k \in IF DiskFails THEN 0..n ELSE {n} :
              file' = file \o SubSeq(lines[b], 1, k)
         /\ lines' = [lines EXCEPT ![b] = << >>]
         /\ used' = [used EXCEPT ![b] = 0]
    /\ next' = next + 1
    /\ UNCHANGED <<shared, chan, held, at, tobeWritten, calls, logged>>

\* The buffers it has written are backup buffers again.
ReturnBuffers ==
    /\ at = "write"
    /\ next > Len(tobeWritten)
    /\ backupBuffers' = backupBuffers \o tobeWritten
    /\ tobeWritten' = << >>
    /\ next' = 1
    /\ at' = "lock"
    /\ UNCHANGED <<currentBuffer, fullBuffers, allocated, contents, chan, held,
                   calls, logged, file>>

BackgroundStep ==
    \/ WaitWithTimeout \/ Notified \/ TimedOut
    \/ TakeBuffers \/ WriteBuffer \/ ReturnBuffers

Next ==
    \/ \E p \in Producers, size \in Sizes : Logf(p, size)
    \/ BackgroundStep

Spec == Init /\ [][Next]_vars

\* The background goroutine is scheduled, and its timeout comes.
FairSpec == Spec /\ WF_vars(BackgroundStep)

-----------------------------------------------------------------------------
(* Properties.                                                             *)

\* A buffer is in one place only, so that nobody fills a buffer that is being
\* written, and the buffers that wait to be used are empty: Logf ignores the
\* answer of its second Append (log.go:141).
Places == <<currentBuffer>> \o backupBuffers \o fullBuffers \o tobeWritten
NoSharedBuffer ==
    /\ \A i, j \in DOMAIN Places : Places[i] = Places[j] => i = j
    /\ \A i \in DOMAIN backupBuffers : Empty(backupBuffers[i])

\* Logf's Broadcast is not lost (log.go:85-86 and :142): while full buffers
\* wait, the background goroutine does not wait for its timeout.
NoLostBroadcast == at = "wait" /\ fullBuffers # << >> => held < chan

\* The lines in these buffers, in their order.
LinesOf(bs) ==
    LET upTo[i \in 0..Len(bs)] ==
            IF i = 0 THEN << >> ELSE upTo[i - 1] \o lines[bs[i]]
    IN  upTo[Len(bs)]
Unwritten == SubSeq(tobeWritten, next, Len(tobeWritten))
Pending == LinesOf(Unwritten \o fullBuffers \o <<currentBuffer>>)

\* The logger writes the lines in the order of the Logf calls, none twice,
\* and loses none but by a failed write.
Stream == INSTANCE LogStream WITH pending <- Pending, written <- file
ImplementsStream == Stream!Spec

\* Every line is handed to f.Write in the end (log.go:81), also when nobody
\* logs any more and no buffer gets full.
EveryLineFlushed ==
    \A line \in Line :
        (\E i \in DOMAIN Pending : Pending[i] = line)
        ~> ~(\E i \in DOMAIN Pending : Pending[i] = line)

=============================================================================
