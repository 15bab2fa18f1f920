---------------------------- MODULE StreamSession ----------------------------
(***************************************************************************)
(* struct stream_session (tools/server/server-stream.cpp): the ring buffer *)
(* behind a resumable stream.  The producer appends the bytes it sends to  *)
(* the client, readers copy them out from any offset, the oldest bytes are *)
(* dropped at the cap.  The operators are its methods on a record of the   *)
(* fields behind its mutex; StreamManager makes steps of them.             *)
(*                                                                         *)
(* A byte is known by its place in the stream: the k-th byte ever appended *)
(* is k.  "written", how many there are, is not a field of the code, which *)
(* only has prefix_dropped and the buffer to tell.                         *)
(***************************************************************************)
EXTENDS Naturals, Sequences

CONSTANT CapBytes       \* STREAM_SESSION_MAX_BYTES

ASSUME CapAssumption == CapBytes \in Nat \ {0}

StreamSession ==
    [buffer : Seq(Nat), prefix_dropped : Nat, done : BOOLEAN, cancelled : BOOLEAN,
     written : Nat]

FreshSession ==
    [buffer |-> <<>>, prefix_dropped |-> 0, done |-> FALSE, cancelled |-> FALSE,
     written |-> 0]

\* The next n bytes.
Chunk(s, n) == [i \in 1 .. n |-> s.written + i]

\* A chunk that fills the buffer by itself: only its tail is kept.
AppendLarge(s, n) ==
    [s EXCEPT !.buffer = SubSeq(Chunk(s, n), n - CapBytes + 1, n),
              !.prefix_dropped = @ + Len(s.buffer) + (n - CapBytes),
              !.written = @ + n]

\* How much of the front has to go before n bytes fit.
ToDrop(s, n) ==
    IF Len(s.buffer) + n > CapBytes THEN Len(s.buffer) + n - CapBytes ELSE 0

AppendSmall(s, n) ==
    [s EXCEPT !.buffer = SubSeq(@, ToDrop(s, n) + 1, Len(@)) \o Chunk(s, n),
              !.prefix_dropped = @ + ToDrop(s, n),
              !.written = @ + n]

AppendToDone(s, n) ==                    \* mutant: done is not looked at
    IF n = 0 THEN s
    ELSE IF n >= CapBytes THEN AppendLarge(s, n) ELSE AppendSmall(s, n)

AppendUncounted(s, n) ==                 \* mutant: the front goes and is not counted
    IF n = 0 \/ s.done THEN s
    ELSE IF n >= CapBytes THEN AppendLarge(s, n)
    ELSE [AppendSmall(s, n) EXCEPT !.prefix_dropped = s.prefix_dropped]

\* append of n bytes; a finished session takes no more.
AppendBytes(s, n) ==
    IF n = 0 \/ s.done THEN s
    ELSE IF n >= CapBytes THEN AppendLarge(s, n) ELSE AppendSmall(s, n)

Finalized(s) == [s EXCEPT !.done = TRUE]

Cancelled(s) == [s EXCEPT !.cancelled = TRUE]

\* total_size
LogicalEnd(s) == s.prefix_dropped + Len(s.buffer)

BytesFromStart(s, offset) == s.buffer    \* mutant: replays the whole buffer

\* What read_from copies out: everything from offset on.
BytesFrom(s, offset) == SubSeq(s.buffer, offset - s.prefix_dropped + 1, Len(s.buffer))

\* The buffer is the window on the stream it should be: the last CapBytes bytes (all
\* of them while there are fewer), in order, at the offsets the readers count with.
IsWindow(s) ==
    /\ s.prefix_dropped = IF s.written > CapBytes THEN s.written - CapBytes ELSE 0
    /\ Len(s.buffer) = s.written - s.prefix_dropped
    /\ \A i \in 1 .. Len(s.buffer) : s.buffer[i] = s.prefix_dropped + i

=============================================================================
