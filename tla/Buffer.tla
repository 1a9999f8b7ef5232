------------------------------- MODULE Buffer -------------------------------
(***************************************************************************)
(* pkg/buffer/buffer.go: the buffer that a connection reads into and       *)
(* writes from, a byte array with a read and a write index.  Go's indices  *)
(* count from 0 and those of a sequence from 1: position i of the array is *)
(* data[i + 1].                                                            *)
(***************************************************************************)
EXTENDS Integers, Sequences

CONSTANTS
    Byte,         \* bytes that are written
    Zero,         \* the byte of a fresh array
    Chunk,        \* 8192, the first size of the array and its headroom
    Extra,        \* the length of the loop's extrabuf
    MaxPut,       \* bound: bytes of one Append or waiting in the socket
    MaxLen,       \* bound: bytes in the buffer
    GrowAnyhow    \* whether the array may have to grow after a Retrieve

ASSUME BufferAssumption ==
    /\ Zero \notin Byte
    /\ {Chunk, Extra, MaxPut} \subseteq Nat \ {0}
    /\ MaxLen \in Nat
    /\ GrowAnyhow \in BOOLEAN

VARIABLES
    data,         \* buf.data
    readIndex,    \* buf.readIndex
    writeIndex,   \* buf.writeIndex
    panicked,
    given,        \* history: the bytes that the last call put in
    taken         \* history: how many bytes the last call took out

buffer == <<data, readIndex, writeIndex, panicked>>
vars == <<buffer, given, taken>>

Bytes(n) == UNION {[1..k -> Byte] : k \in 1..n}
ReadableBytes == writeIndex - readIndex
Peek == SubSeq(data, readIndex + 1, writeIndex)

TypeOK ==
    /\ data \in Seq(Byte \cup {Zero})
    /\ readIndex \in Nat
    /\ writeIndex \in Nat
    /\ panicked \in BOOLEAN
    /\ given \in Seq(Byte)
    /\ taken \in Nat

Fresh(n) == [i \in 1..n |-> Zero]

Init ==
    /\ data = Fresh(Chunk)
    /\ readIndex = 0
    /\ writeIndex = 0
    /\ panicked = FALSE
    /\ given = << >>
    /\ taken = 0

\* The call is given bs and takes n bytes, unless it panics.  These are the
\* call's arguments and results, whatever it does to the array.
Call(bs, n) ==
    /\ given' = IF panicked' THEN << >> ELSE bs
    /\ taken' = IF panicked' THEN 0 ELSE n

-----------------------------------------------------------------------------
\* Go's copy(dst[off:], src).
Copy(dst, off, src) ==
    [i \in DOMAIN dst |-> IF i > off /\ i <= off + Len(src) THEN src[i - off]
                                                            ELSE dst[i]]

\* An Append that finds room for one byte too many.
AppendTo_OffByOne(d, r, w, bs) ==
    LET sz == w - r + Len(bs)
        rest == SubSeq(d, r + 1, w)
        grown == Fresh(sz + Chunk)
    IN  CASE Len(d) - w + 1 >= Len(bs) ->
               [data |-> Copy(d, w, bs), r |-> r, w |-> w + Len(bs), ok |-> TRUE]
          [] Len(d) - w + 1 < Len(bs) /\ Len(d) >= sz ->
               [data |-> Copy(Copy(d, 0, rest), w - r, bs),
                r |-> 0, w |-> sz, ok |-> TRUE]
          [] Len(d) - w + 1 < Len(bs) /\ Len(d) < sz ->
               [data |-> Copy(Copy(grown, 0, rest), w, bs),
                r |-> 0, w |-> sz, ok |-> w <= sz + Chunk]

\* An Append that drops the unread bytes when it moves or grows.
AppendTo_NoRest(d, r, w, bs) ==
    LET sz == w - r + Len(bs)
        rest == << >>
        grown == Fresh(sz + Chunk)
    IN  CASE Len(d) - w >= Len(bs) ->
               [data |-> Copy(d, w, bs), r |-> r, w |-> w + Len(bs), ok |-> TRUE]
          [] Len(d) - w < Len(bs) /\ Len(d) >= sz ->
               [data |-> Copy(Copy(d, 0, rest), w - r, bs),
                r |-> 0, w |-> sz, ok |-> TRUE]
          [] Len(d) < sz ->
               [data |-> Copy(Copy(grown, 0, rest), w, bs),
                r |-> 0, w |-> sz, ok |-> w <= sz + Chunk]

\* buf.Append(bs) for a buffer with array d and indices r and w: the bytes
\* fit behind w, or fit once the rest is moved to the front, or a longer
\* array is made, in which they are copied to index w.  A slice from beyond
\* the end of that array is a panic.
AppendTo(d, r, w, bs) ==
    LET sz == w - r + Len(bs)
        rest == SubSeq(d, r + 1, w)
        grown == Fresh(sz + Chunk)
    IN  CASE Len(d) - w >= Len(bs) ->
               [data |-> Copy(d, w, bs), r |-> r, w |-> w + Len(bs), ok |-> TRUE]
          [] Len(d) - w < Len(bs) /\ Len(d) >= sz ->
               [data |-> Copy(Copy(d, 0, rest), w - r, bs),
                r |-> 0, w |-> sz, ok |-> TRUE]
          [] Len(d) < sz ->
               [data |-> Copy(Copy(grown, 0, rest), w, bs),
                r |-> 0, w |-> sz, ok |-> w <= sz + Chunk]

Becomes(b) ==
    /\ panicked' = ~b.ok
    /\ data' = IF b.ok THEN b.data ELSE data
    /\ readIndex' = IF b.ok THEN b.r ELSE readIndex
    /\ writeIndex' = IF b.ok THEN b.w ELSE writeIndex

\* The calls the clients of an instance make.  Once a part of the bytes has
\* been retrieved they put in no more than the array holds.
Room(n) ==
    /\ ReadableBytes + n <= MaxLen
    /\ GrowAnyhow \/ readIndex = 0 \/ ReadableBytes + n <= Len(data)

AppendBytes(bs) ==
    /\ ~panicked
    /\ Room(Len(bs))
    /\ Becomes(AppendTo(data, readIndex, writeIndex, bs))
    /\ Call(bs, 0)

\* ReadFD on a socket that has the bytes bs: readv(2) fills the room behind
\* writeIndex and then extrabuf, which is appended.  Without room it does
\* not read at all.
ReadFD(bs) ==
    LET writable == Len(data) - writeIndex
        size == IF Len(bs) < writable + Extra THEN Len(bs) ELSE writable + Extra
    IN  /\ ~panicked
        /\ Room(size)
        /\ \/ /\ writable = 0
              /\ UNCHANGED buffer
           \/ /\ writable > 0 /\ size <= writable
              /\ data' = Copy(data, writeIndex, SubSeq(bs, 1, size))
              /\ writeIndex' = writeIndex + size
              /\ UNCHANGED <<readIndex, panicked>>
           \/ /\ writable > 0 /\ size > writable
              /\ Becomes(AppendTo(Copy(data, writeIndex, SubSeq(bs, 1, writable)),
                                  readIndex, Len(data),
                                  SubSeq(bs, writable + 1, size)))
        /\ Call(IF writable = 0 THEN << >> ELSE SubSeq(bs, 1, size), 0)

\* ReadFD when readv(2) returns 0 at the end of the stream, or -1, which is
\* turned into 0.
ReadFDEnd ==
    /\ ~panicked
    /\ UNCHANGED buffer
    /\ Call(<< >>, 0)

\* Retrieve(i).  More than there is to read is a panic.
Retrieve(i) ==
    /\ ~panicked
    /\ panicked' = (ReadableBytes < i)
    /\ readIndex' = IF ReadableBytes < i THEN readIndex ELSE readIndex + i
    /\ Call(<< >>, i)
    /\ UNCHANGED <<data, writeIndex>>

\* RetrieveAll, and RetrieveAsString, which returns Peek first.
RetrieveAll ==
    /\ ~panicked
    /\ readIndex' = 0
    /\ writeIndex' = 0
    /\ UNCHANGED <<data, panicked>>
    /\ Call(<< >>, ReadableBytes)

Next ==
    \/ \E bs \in Bytes(MaxPut) : AppendBytes(bs) \/ ReadFD(bs)
    \/ \E i \in 0..MaxLen : Retrieve(i)
    \/ RetrieveAll \/ ReadFDEnd

Spec == Init /\ [][Next]_vars

-----------------------------------------------------------------------------
(* Properties.                                                             *)

\* The slices that Peek, Append and ReadFD take are within the array
\* (buffer.go:19, 49, 70), whatever sequence of calls came before.
IndicesInOrder == TypeOK /\ readIndex <= writeIndex /\ writeIndex <= Len(data)

\* The buffer is a queue of bytes: the bytes to read are exactly those that
\* Append was given and readv(2) took from the socket (buffer.go:42, 83) and
\* that Retrieve and RetrieveAll have not yet taken, in that order, however
\* the array was moved and replaced meanwhile.
Queue == INSTANCE ByteQueue WITH queue <- Peek
ImplementsQueue == Queue!Spec

=============================================================================
