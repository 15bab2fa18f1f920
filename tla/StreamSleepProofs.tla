--------------------------- MODULE StreamSleepProofs ---------------------------
(***************************************************************************)
(* Proofs about two components of the server that share nothing but the    *)
(* HTTP handlers.                                                          *)
(*                                                                         *)
(* StreamManager, for any number of requests, readers and conversations,   *)
(* any chunk sizes and any size of the buffer.                             *)
(*                                                                         *)
(* ServerSleep, for any number of handlers: the types, that the wakeup a   *)
(* handler asks for reaches the main thread, and that the model is there   *)
(* when it is used.  The wakeup depends on what is known of the other      *)
(* threads in the one condition variable: as long as nobody has asked,     *)
(* nobody but the main thread waits there, so notify_one can only reach it.*)
(***************************************************************************)
EXTENDS StreamManager, ServerSleep, SequenceTheorems, TLAPS

-----------------------------------------------------------------------------
(* The methods of a session                                                *)

\* The new bytes of an append are a sequence of naturals numbered from written + 1.
LEMMA ChunkProperties ==
    ASSUME NEW s \in StreamSession, NEW n \in Nat
    PROVE  /\ Chunk(s, n) \in Seq(Nat)
           /\ Len(Chunk(s, n)) = n
           /\ \A i \in 1 .. n : Chunk(s, n)[i] = s.written + i
<1>1. s.written \in Nat
  BY DEF StreamSession
<1>2. Chunk(s, n) \in [1 .. n -> Nat]
  BY <1>1 DEF Chunk
<1>3. Chunk(s, n) \in Seq(Nat) /\ Len(Chunk(s, n)) = n
  BY <1>2
<1> QED
  BY <1>3 DEF Chunk

\* A chunk that replaces the whole buffer keeps the session well-typed and its buffer
\* a window on the stream (append, first branch).
LEMMA AppendLargeKeepsWindow ==
    ASSUME NEW s \in StreamSession, NEW n \in Nat, n >= CapBytes
    PROVE  /\ AppendLarge(s, n) \in StreamSession
           /\ IsWindow(s) => IsWindow(AppendLarge(s, n))
<1> DEFINE tail == SubSeq(Chunk(s, n), n - CapBytes + 1, n)
           t == AppendLarge(s, n)
<1>1. CapBytes \in Nat \ {0}
  BY CapAssumption
<1>2. /\ s.buffer \in Seq(Nat) /\ Len(s.buffer) \in Nat
      /\ s.prefix_dropped \in Nat /\ s.written \in Nat
  BY LenProperties DEF StreamSession
<1>3. /\ tail \in Seq(Nat)
      /\ Len(tail) = CapBytes
      /\ \A i \in 1 .. CapBytes : tail[i] = s.written + (n - CapBytes) + i
  <2>1. ASSUME NEW i \in n - CapBytes + 1 .. n PROVE Chunk(s, n)[i] \in Nat
    <3>1. i \in 1 .. n
      BY <1>1
    <3> QED
      BY <3>1, ChunkProperties, ElementOfSeq
  <2>2. /\ tail \in Seq(Nat)
        /\ Len(tail) = CapBytes
        /\ \A i \in 1 .. CapBytes : tail[i] = Chunk(s, n)[n - CapBytes + 1 + i - 1]
    <3>1. n - CapBytes + 1 \in Int /\ n \in Int
      BY <1>1
    <3>2. /\ tail \in Seq(Nat)
          /\ Len(tail) = IF n - CapBytes + 1 <= n THEN n - (n - CapBytes + 1) + 1 ELSE 0
          /\ \A i \in 1 .. n - (n - CapBytes + 1) + 1 :
                 tail[i] = Chunk(s, n)[(n - CapBytes + 1) + i - 1]
      BY <2>1, <3>1, SubSeqProperties
    <3> HIDE DEF tail
    <3> QED
      BY <1>1, <3>2
  <2> HIDE DEF tail
  <2>3. \A i \in 1 .. CapBytes :
            /\ n - CapBytes + 1 + i - 1 \in 1 .. n
            /\ n - CapBytes + 1 + i - 1 = (n - CapBytes) + i
    BY <1>1
  <2>4. \A i \in 1 .. CapBytes :
            Chunk(s, n)[n - CapBytes + 1 + i - 1] = s.written + ((n - CapBytes) + i)
    BY <2>3, ChunkProperties
  <2>5. ASSUME NEW i \in 1 .. CapBytes
        PROVE  tail[i] = s.written + (n - CapBytes) + i
    <3>1. tail[i] = s.written + ((n - CapBytes) + i)
      BY <2>2, <2>4
    <3>2. n - CapBytes \in Int /\ i \in Int
      BY <1>1
    <3> QED
      BY <1>2, <3>1, <3>2
  <2> QED
    BY <2>2, <2>5
<1>4. /\ t.buffer = tail
      /\ t.prefix_dropped = s.prefix_dropped + Len(s.buffer) + (n - CapBytes)
      /\ t.written = s.written + n
      /\ t.done = s.done /\ t.cancelled = s.cancelled
  BY DEF AppendLarge, StreamSession
<1>5. t \in StreamSession
  <2>1. s.prefix_dropped + Len(s.buffer) + (n - CapBytes) \in Nat /\ s.written + n \in Nat
    BY <1>1, <1>2
  <2> QED
    BY <1>3, <2>1 DEF AppendLarge, StreamSession
<1> HIDE DEF tail, t
<1>6. ASSUME IsWindow(s) PROVE IsWindow(t)
  <2>1. s.prefix_dropped + Len(s.buffer) = s.written
    BY <1>2, <1>6 DEF IsWindow
  <2>2. t.prefix_dropped = s.written + (n - CapBytes)
    BY <1>4, <2>1
  <2>3. t.prefix_dropped = IF t.written > CapBytes THEN t.written - CapBytes ELSE 0
    BY <1>1, <1>2, <1>4, <2>2
  <2>4. Len(t.buffer) = t.written - t.prefix_dropped
    <3>1. Len(t.buffer) = CapBytes
      BY <1>3, <1>4
    <3>2. t.written = s.written + n
      BY <1>4
    <3> QED
      BY <1>1, <1>2, <2>2, <3>1, <3>2
  <2>5. \A i \in 1 .. Len(t.buffer) : t.buffer[i] = t.prefix_dropped + i
    BY <1>1, <1>2, <1>3, <1>4, <2>2
  <2> QED
    BY <2>3, <2>4, <2>5 DEF IsWindow
<1> QED
  BY <1>5, <1>6 DEF t

\* A chunk that is appended behind what stays of the buffer does so too (append, second
\* branch): exactly as much is dropped as does not fit.
LEMMA AppendSmallKeepsWindow ==
    ASSUME NEW s \in StreamSession, NEW n \in Nat, n < CapBytes
    PROVE  /\ AppendSmall(s, n) \in StreamSession
           /\ IsWindow(s) => IsWindow(AppendSmall(s, n))
<1> DEFINE d == ToDrop(s, n)
           kept == SubSeq(s.buffer, d + 1, Len(s.buffer))
           t == AppendSmall(s, n)
<1>1. CapBytes \in Nat \ {0}
  BY CapAssumption
<1>2. /\ s.buffer \in Seq(Nat) /\ Len(s.buffer) \in Nat
      /\ s.prefix_dropped \in Nat /\ s.written \in Nat
  BY LenProperties DEF StreamSession
<1>3. d \in 0 .. Len(s.buffer)
  BY <1>1, <1>2 DEF ToDrop
<1> HIDE DEF d
<1>4. /\ kept \in Seq(Nat)
      /\ Len(kept) = Len(s.buffer) - d
      /\ \A i \in 1 .. Len(s.buffer) - d : kept[i] = s.buffer[d + i]
  <2>1. \A i \in d + 1 .. Len(s.buffer) : s.buffer[i] \in Nat
    BY <1>2, <1>3, ElementOfSeq
  <2>2. d + 1 \in Int /\ Len(s.buffer) \in Int
    BY <1>2, <1>3
  <2>3. /\ kept \in Seq(Nat)
        /\ Len(kept) = IF d + 1 <= Len(s.buffer) THEN Len(s.buffer) - (d + 1) + 1 ELSE 0
        /\ \A i \in 1 .. Len(s.buffer) - (d + 1) + 1 : kept[i] = s.buffer[(d + 1) + i - 1]
    BY <2>1, <2>2, SubSeqProperties
  <2> HIDE DEF kept
  <2>4. \A i \in 1 .. Len(s.buffer) - d : (d + 1) + i - 1 = d + i
    BY <1>3
  <2> QED
    BY <1>2, <1>3, <2>3, <2>4
<1> HIDE DEF kept
<1>5. /\ kept \o Chunk(s, n) \in Seq(Nat)
      /\ Len(kept \o Chunk(s, n)) = Len(s.buffer) - d + n
      /\ \A i \in 1 .. Len(s.buffer) - d + n :
            (kept \o Chunk(s, n))[i] =
                IF i <= Len(s.buffer) - d THEN kept[i] ELSE Chunk(s, n)[i - (Len(s.buffer) - d)]
  <2>1. /\ kept \o Chunk(s, n) \in Seq(Nat)
        /\ Len(kept \o Chunk(s, n)) = Len(kept) + Len(Chunk(s, n))
        /\ \A i \in 1 .. Len(kept) + Len(Chunk(s, n)) :
              (kept \o Chunk(s, n))[i] =
                  IF i <= Len(kept) THEN kept[i] ELSE Chunk(s, n)[i - Len(kept)]
    BY <1>4, ChunkProperties, ConcatProperties
  <2>2. Len(kept) = Len(s.buffer) - d /\ Len(Chunk(s, n)) = n
    BY <1>4, ChunkProperties
  <2> QED
    BY <2>1, <2>2
<1>6. /\ t.buffer = kept \o Chunk(s, n)
      /\ t.prefix_dropped = s.prefix_dropped + d
      /\ t.written = s.written + n
      /\ t.done = s.done /\ t.cancelled = s.cancelled
  BY DEF AppendSmall, StreamSession, kept, d
<1>7. t \in StreamSession
  <2>1. s.prefix_dropped + d \in Nat /\ s.written + n \in Nat
    BY <1>2, <1>3
  <2> QED
    BY <1>5, <2>1 DEF AppendSmall, StreamSession, kept, d
<1> HIDE DEF t
<1>8. ASSUME IsWindow(s) PROVE IsWindow(t)
  <2>1. /\ s.prefix_dropped + Len(s.buffer) = s.written
        /\ s.prefix_dropped = IF s.written > CapBytes THEN s.written - CapBytes ELSE 0
        /\ \A i \in 1 .. Len(s.buffer) : s.buffer[i] = s.prefix_dropped + i
    BY <1>2, <1>8 DEF IsWindow
  <2>2. d = IF Len(s.buffer) + n > CapBytes THEN Len(s.buffer) + n - CapBytes ELSE 0
    BY DEF d, ToDrop
  <2>3. t.prefix_dropped = IF t.written > CapBytes THEN t.written - CapBytes ELSE 0
    <3>1. /\ t.prefix_dropped = s.prefix_dropped + d
          /\ t.written = s.written + n
      BY <1>6
    <3>2. CASE s.written > CapBytes
      <4>1. s.prefix_dropped = s.written - CapBytes /\ Len(s.buffer) = CapBytes
        BY <1>1, <1>2, <2>1, <3>2
      <4>2. d = n
        BY <1>1, <2>2, <4>1
      <4>3. s.written + n > CapBytes
        BY <1>1, <1>2, <3>2
      <4> QED
        BY <1>1, <1>2, <3>1, <4>1, <4>2, <4>3
    <3>3. CASE s.written <= CapBytes
      BY <1>1, <1>2, <2>1, <2>2, <3>1, <3>3
    <3> QED
      BY <1>1, <1>2, <3>2, <3>3
  <2>4. Len(t.buffer) = t.written - t.prefix_dropped
    <3>1. Len(t.buffer) = Len(s.buffer) - d + n
      BY <1>5, <1>6
    <3>2. t.written - t.prefix_dropped = (s.written + n) - (s.prefix_dropped + d)
      BY <1>6
    <3>3. Len(s.buffer) - d + n = (s.written + n) - (s.prefix_dropped + d)
      BY <1>2, <1>3, <2>1
    <3> QED
      BY <3>1, <3>2, <3>3
  <2>5. ASSUME NEW i \in 1 .. Len(t.buffer) PROVE t.buffer[i] = t.prefix_dropped + i
    <3>0. i \in 1 .. Len(s.buffer) - d + n
      BY <1>5, <1>6, <2>5
    <3>1. CASE i <= Len(s.buffer) - d
      <4>1. t.buffer[i] = s.buffer[d + i]
        BY <1>2, <1>3, <1>4, <1>5, <1>6, <3>0, <3>1
      <4>2. d + i \in 1 .. Len(s.buffer)
        BY <1>2, <1>3, <3>0, <3>1
      <4> QED
        BY <1>2, <1>3, <1>6, <2>1, <3>0, <4>1, <4>2, SMTT(30)
    <3>2. CASE i > Len(s.buffer) - d
      <4>1. i - (Len(s.buffer) - d) \in 1 .. n
        BY <1>2, <1>3, <3>0, <3>2
      <4>2. t.buffer[i] = Chunk(s, n)[i - (Len(s.buffer) - d)]
        <5>1. ~(i <= Len(s.buffer) - d)
          BY <1>2, <1>3, <3>0, <3>2
        <5> QED
          BY <1>5, <1>6, <3>0, <5>1
      <4>3. t.buffer[i] = s.written + (i - (Len(s.buffer) - d))
        BY <4>1, <4>2, ChunkProperties
      <4> QED
        BY <1>2, <1>3, <1>6, <2>1, <3>0, <4>3
    <3> QED
      BY <1>2, <1>3, <3>0, <3>1, <3>2
  <2> QED
    BY <2>3, <2>4, <2>5 DEF IsWindow
<1> QED
  BY <1>7, <1>8 DEF t

\* append as a whole: a finished session is left alone, any other one stays a window;
\* neither of the two flags changes.
LEMMA AppendBytesProperties ==
    ASSUME NEW s \in StreamSession, NEW n \in Nat
    PROVE  /\ AppendBytes(s, n) \in StreamSession
           /\ IsWindow(s) => IsWindow(AppendBytes(s, n))
           /\ AppendBytes(s, n).done = s.done
           /\ AppendBytes(s, n).cancelled = s.cancelled
           /\ s.done => AppendBytes(s, n) = s
<1>1. CapBytes \in Nat \ {0}
  BY CapAssumption
<1>2. CASE n = 0 \/ s.done
  BY <1>2 DEF AppendBytes
<1>3. CASE ~(n = 0 \/ s.done) /\ n >= CapBytes
  <2>1. AppendBytes(s, n) = AppendLarge(s, n)
    BY <1>3 DEF AppendBytes
  <2>2. AppendLarge(s, n).done = s.done /\ AppendLarge(s, n).cancelled = s.cancelled
    BY DEF AppendLarge, StreamSession
  <2> QED
    BY <1>3, <2>1, <2>2, AppendLargeKeepsWindow
<1>4. CASE ~(n = 0 \/ s.done) /\ ~(n >= CapBytes)
  <2>1. AppendBytes(s, n) = AppendSmall(s, n)
    BY <1>4 DEF AppendBytes
  <2>2. AppendSmall(s, n).done = s.done /\ AppendSmall(s, n).cancelled = s.cancelled
    BY DEF AppendSmall, StreamSession
  <2>3. n < CapBytes
    BY <1>1, <1>4
  <2> QED
    BY <1>4, <2>1, <2>2, <2>3, AppendSmallKeepsWindow
<1> QED
  BY <1>2, <1>3, <1>4

\* finalize and cancel touch nothing but their flag.
LEMMA FlagProperties ==
    ASSUME NEW s \in StreamSession
    PROVE  /\ Finalized(s) \in StreamSession
           /\ Cancelled(s) \in StreamSession
           /\ Finalized(s).done /\ (Finalized(s).cancelled = s.cancelled)
           /\ Cancelled(s).cancelled /\ (Cancelled(s).done = s.done)
           /\ Finalized(s).written = s.written /\ Cancelled(s).written = s.written
           /\ IsWindow(s) => IsWindow(Finalized(s)) /\ IsWindow(Cancelled(s))
  BY DEF Finalized, Cancelled, StreamSession, IsWindow

\* What read_from copies out of a window, from an offset that is not lost, is the stream
\* from that offset to its end.
LEMMA BytesFromProperties ==
    ASSUME NEW s \in StreamSession, NEW o \in Nat,
           s.prefix_dropped <= o, o < LogicalEnd(s)
    PROVE  /\ BytesFrom(s, o) \in Seq(Nat)
           /\ Len(BytesFrom(s, o)) = LogicalEnd(s) - o
           /\ IsWindow(s) =>
                 \A i \in 1 .. LogicalEnd(s) - o : BytesFrom(s, o)[i] = o + i
<1> DEFINE m == o - s.prefix_dropped + 1
           b == BytesFrom(s, o)
<1>1. /\ s.buffer \in Seq(Nat) /\ Len(s.buffer) \in Nat /\ s.prefix_dropped \in Nat
  BY LenProperties DEF StreamSession
<1>2. m \in 1 .. Len(s.buffer)
  BY <1>1 DEF LogicalEnd
<1>3. LogicalEnd(s) - o = Len(s.buffer) - m + 1
  BY <1>1 DEF LogicalEnd
<1>4. /\ b \in Seq(Nat)
      /\ Len(b) = IF m <= Len(s.buffer) THEN Len(s.buffer) - m + 1 ELSE 0
      /\ \A i \in 1 .. Len(s.buffer) - m + 1 : b[i] = s.buffer[m + i - 1]
  <2>1. \A i \in m .. Len(s.buffer) : s.buffer[i] \in Nat
    BY <1>1, <1>2, ElementOfSeq, SMTT(30)
  <2>2. m \in Int /\ Len(s.buffer) \in Int
    BY <1>1, <1>2
  <2> HIDE DEF m
  <2>3. b = SubSeq(s.buffer, m, Len(s.buffer))
    BY DEF BytesFrom, m
  <2> QED
    BY <2>1, <2>2, <2>3, SubSeqProperties
<1>0. m = o - s.prefix_dropped + 1
  OBVIOUS
<1> HIDE DEF b, m
<1>5. ASSUME IsWindow(s), NEW i \in 1 .. LogicalEnd(s) - o
      PROVE  b[i] = o + i
  <2>0. i \in 1 .. Len(s.buffer) - m + 1
    BY <1>3, <1>5
  <2>1. m + i - 1 \in 1 .. Len(s.buffer)
    BY <1>1, <1>2, <2>0
  <2>2. b[i] = s.buffer[m + i - 1]
    BY <1>4, <2>0
  <2>3. s.buffer[m + i - 1] = s.prefix_dropped + (m + i - 1)
    BY <1>5, <2>1 DEF IsWindow
  <2>4. s.prefix_dropped + (m + i - 1) = o + i
    <3>1. s.prefix_dropped \in Int /\ o \in Int /\ i \in Int
      BY <1>1, <2>0
    <3> QED
      BY <1>0, <3>1
  <2> QED
    BY <2>2, <2>3, <2>4
<1> QED
  BY <1>1, <1>2, <1>3, <1>4, <1>5 DEF b

-----------------------------------------------------------------------------
(* Type correctness                                                        *)

\* A reader that has found a session holds it for good (its shared_ptr).
ReaderHasSession == \A r \in Reader : rpc[r] \notin {"new", "404"} => reads[r] \in Session

TypeInv == TypeOK /\ ReaderHasSession

\* Every step of a producer keeps the state well-typed.
LEMMA ProducerKeepsTypes ==
    ASSUME TypeInv, NEW s \in Session, Producer(s)
    PROVE  TypeInv'
<1> USE DEF TypeInv, TypeOK, ReaderHasSession, readerVars
<1>1. CASE CreateOrReplace(s)
  <2>1. sessions' \in [Conv -> Session \cup {NoSession}] /\ sessions[ConvOf[s]] \in Session \cup {NoSession}
    BY <1>1, ManagerAssumption DEF CreateOrReplace
  <2>2. closing' \subseteq Closing
    <3>1. CASE sessions[ConvOf[s]] = NoSession
      BY <1>1, <3>1 DEF CreateOrReplace
    <3>2. CASE sessions[ConvOf[s]] # NoSession
      <4>1. [s |-> sessions[ConvOf[s]], cancel |-> TRUE] \in Closing
        BY <2>1, <3>2 DEF Closing
      <4> QED
        BY <1>1, <3>2, <4>1 DEF CreateOrReplace
    <3> QED
      BY <3>1, <3>2
  <2> QED
    BY <1>1, <2>1, <2>2 DEF CreateOrReplace, GoTo
<1>2. CASE Replaced(s)
  BY <1>2 DEF Replaced, GoTo
<1>3. CASE FirstResult(s)
  BY <1>3 DEF FirstResult, GoTo
<1>4. CASE CheckStop(s)
  BY <1>4 DEF CheckStop, GoTo
<1>5. CASE Receive(s)
  <2>1. session' \in [Session -> StreamSession]
    <3>1. ASSUME NEW n \in ChunkLen[s] PROVE AppendBytes(session[s], n) \in StreamSession
      BY AppendBytesProperties, ManagerAssumption
    <3> QED
      BY <1>5, <3>1, ZenonT(40) DEF Receive
  <2>2. left' \in [Session -> 0 .. NResults]
    <3>1. left[s] \in 0 .. NResults /\ NResults \in Nat
      BY ManagerAssumption
    <3>2. CASE UNCHANGED left
      BY <3>2
    <3>3. CASE left[s] > 0 /\ left' = [left EXCEPT ![s] = @ - 1]
      <4>1. left[s] - 1 \in 0 .. NResults
        BY <3>1, <3>3
      <4> QED
        BY <3>3, <4>1
    <3> QED
      BY <1>5, <3>2, <3>3 DEF Receive
  <2> QED
    BY <1>5, <2>1, <2>2 DEF Receive, GoTo
<1>6. CASE ReceiveLast(s)
  <2>1. session' \in [Session -> StreamSession]
    <3>1. ASSUME NEW n \in ChunkLen[s] PROVE AppendBytes(session[s], n) \in StreamSession
      BY AppendBytesProperties, ManagerAssumption
    <3> QED
      BY <1>6, <3>1 DEF ReceiveLast
  <2> QED
    BY <1>6, <2>1 DEF ReceiveLast, GoTo
<1>7. CASE Drop(s)
  BY <1>7 DEF Drop
<1>8. CASE Complete(s)
  BY <1>8 DEF Complete, GoTo
<1>9. CASE Destroy(s)
  <2>1. session' \in [Session -> StreamSession]
    BY <1>9, FlagProperties DEF Destroy
  <2> QED
    BY <1>9, <2>1 DEF Destroy, GoTo
<1> QED
  BY <1>1, <1>2, <1>3, <1>4, <1>5, <1>6, <1>7, <1>8, <1>9 DEF Producer

\* So does every step of the manager,
LEMMA ManagerKeepsTypes ==
    ASSUME TypeInv, Manager
    PROVE  TypeInv'
<1> USE DEF TypeInv, TypeOK, ReaderHasSession, readerVars, producerVars
<1>0. ASSUME NEW c \in Conv, sessions[c] # NoSession, NEW b \in BOOLEAN
      PROVE  [s |-> sessions[c], cancel |-> b] \in Closing
  BY <1>0 DEF Closing
<1>1. ASSUME NEW c \in Conv, Delete(c) PROVE TypeInv'
  BY <1>0, <1>1, ManagerAssumption DEF Delete
<1>2. ASSUME NEW c \in Conv, Collect(c) PROVE TypeInv'
  BY <1>0, <1>2 DEF Collect
<1>3. ASSUME NEW x \in closing, Close(x) PROVE TypeInv'
  <2>1. x \in Closing /\ x.s \in Session
    BY DEF Closing
  <2>2. session' \in [Session -> StreamSession]
    <3>1. Cancelled(session[x.s]) \in StreamSession /\ Finalized(session[x.s]) \in StreamSession
      BY <2>1, FlagProperties
    <3> QED
      BY <1>3, <2>1, <3>1 DEF Close
  <2>3. [x EXCEPT !.cancel = FALSE] \in Closing
    BY <2>1 DEF Closing
  <2>4. closing' \subseteq Closing
    BY <1>3, <2>3 DEF Close
  <2> QED
    BY <1>3, <2>2, <2>4 DEF Close
<1>4. CASE StopManager
  <2>1. ASSUME NEW c \in Conv, sessions[c] # NoSession
        PROVE  [s |-> sessions[c], cancel |-> FALSE] \in Closing
    BY <1>0, <2>1
  <2>2. \A y \in closing' : y \in closing \/
            \E c \in Conv : sessions[c] # NoSession /\ y = [s |-> sessions[c], cancel |-> FALSE]
    BY <1>4 DEF StopManager
  <2>3. closing' \subseteq Closing
    BY <2>1, <2>2
  <2>4. sessions' \in [Conv -> Session \cup {NoSession}]
    BY <1>4 DEF StopManager
  <2> QED
    BY <1>4, <2>3, <2>4 DEF StopManager
<1> QED
  BY <1>1, <1>2, <1>3, <1>4 DEF Manager

\* and every step of a reader.
LEMMA ReaderKeepsTypes ==
    ASSUME TypeInv, NEW r \in Reader, ReaderStep(r)
    PROVE  TypeInv'
<1> USE DEF TypeInv, TypeOK, ReaderHasSession, producerVars
<1>1. CASE GetSession(r)
  <2>1. sessions[ConvRead[r]] \in Session \cup {NoSession}
    BY ManagerAssumption
  <2> QED
    BY <1>1, <2>1 DEF GetSession, RGoTo
<1>2. CASE CheckOffset(r)
  BY <1>2 DEF CheckOffset, RGoTo
<1>3. CASE ReadFrom(r)
  <2> DEFINE s == session[reads[r]]
  <2>1. s \in StreamSession /\ offset[r] \in Nat /\ got[r] \in Seq(Nat)
    BY <1>3 DEF ReadFrom
  <2>2. CASE offset[r] < s.prefix_dropped /\ RGoTo(r, "lost") /\ UNCHANGED <<offset, got>>
    BY <1>3, <2>2 DEF ReadFrom, RGoTo
  <2>3. CASE /\ s.prefix_dropped <= offset[r] /\ offset[r] < LogicalEnd(s)
             /\ got' = [got EXCEPT ![r] = @ \o BytesFrom(s, offset[r])]
             /\ offset' = [offset EXCEPT ![r] = @ + Len(BytesFrom(s, offset[r]))]
             /\ UNCHANGED rpc
    <3>1. BytesFrom(s, offset[r]) \in Seq(Nat)
      BY <2>1, <2>3, BytesFromProperties
    <3>2. Len(BytesFrom(s, offset[r])) \in Nat
      BY <3>1, LenProperties
    <3>3. got[r] \o BytesFrom(s, offset[r]) \in Seq(Nat)
      BY <2>1, <3>1, ConcatProperties
    <3>4. offset[r] + Len(BytesFrom(s, offset[r])) \in Nat
      BY <2>1, <3>2
    <3> HIDE DEF s
    <3>5. got' \in [Reader -> Seq(Nat)] /\ offset' \in [Reader -> Nat]
      BY <2>3, <3>3, <3>4
    <3> QED
      BY <1>3, <2>3, <3>5 DEF ReadFrom
  <2>4. CASE LogicalEnd(s) <= offset[r] /\ s.done /\ RGoTo(r, "eof") /\ UNCHANGED <<offset, got>>
    BY <1>3, <2>4 DEF ReadFrom, RGoTo
  <2> QED
    BY <1>3, <2>2, <2>3, <2>4 DEF ReadFrom
<1>4. CASE StopReading(r)
  BY <1>4 DEF StopReading, RGoTo
<1> QED
  BY <1>1, <1>2, <1>3, <1>4 DEF ReaderStep

\* The inductive form of type correctness: the guard of a reader's step has to say that
\* it reads a session.
LEMMA TypeInvariant == Spec => []TypeInv
<1>1. Init => TypeInv
  <2>1. FreshSession \in StreamSession
    BY EmptySeq DEF FreshSession, StreamSession
  <2>2. ASSUME Init PROVE TypeOK
    <3>1. from \in [Reader -> Nat] /\ offset = from
      BY <2>2, ManagerAssumption DEF Init
    <3>2. <<>> \in Seq(Nat)
      BY EmptySeq
    <3>3. got \in [Reader -> Seq(Nat)]
      BY <2>2, <3>2 DEF Init
    <3>4. session \in [Session -> StreamSession]
      BY <2>1, <2>2 DEF Init
    <3>5. left \in [Session -> 0 .. NResults]
      BY <2>2, ManagerAssumption DEF Init
    <3>6. /\ sessions \in [Conv -> Session \cup {NoSession}]
          /\ closing \subseteq Closing /\ stopped \in BOOLEAN
          /\ previous \in [Session -> Session \cup {NoSession}]
          /\ reads \in [Reader -> Session \cup {NoSession}]
          /\ onwire \in [Session -> BOOLEAN]
      BY <2>2 DEF Init
    <3>7. /\ ppc = [s \in Session |-> "new"] /\ rpc = [r \in Reader |-> "new"]
      BY <2>2 DEF Init
    <3> QED
      BY <3>1, <3>3, <3>4, <3>5, <3>6, <3>7 DEF TypeOK
  <2> QED
    BY <2>2 DEF Init, TypeInv, ReaderHasSession
<1>2. TypeInv /\ [Next]_vars => TypeInv'
  <2> SUFFICES ASSUME TypeInv, [Next]_vars PROVE TypeInv'
    OBVIOUS
  <2>1. CASE UNCHANGED vars
    BY <2>1 DEF TypeInv, TypeOK, ReaderHasSession, vars, producerVars, readerVars
  <2>2. CASE AllOver
    BY <2>2 DEF AllOver, TypeInv, TypeOK, ReaderHasSession, vars, producerVars, readerVars
  <2> QED
    BY <2>1, <2>2, ProducerKeepsTypes, ManagerKeepsTypes, ReaderKeepsTypes DEF Next
<1> QED
  BY <1>1, <1>2, PTL DEF Spec

\* The variables keep their types, for every value of the constants.
THEOREM TypeCorrect == Spec => []TypeOK
<1>1. TypeInv => TypeOK
  BY DEF TypeInv
<1> QED
  BY <1>1, TypeInvariant, PTL

-----------------------------------------------------------------------------
(* The buffers                                                             *)

\* Whatever step is taken, a session stays as it is or one of its methods is called.
LEMMA SessionSteps ==
    ASSUME TypeInv, Next, NEW s \in Session
    PROVE  \/ session'[s] = session[s]
           \/ \E n \in Nat : session'[s] = AppendBytes(session[s], n)
           \/ session'[s] = Finalized(session[s])
           \/ session'[s] = Cancelled(session[s])
<1>1. session \in [Session -> StreamSession] /\ closing \subseteq Closing
  BY DEF TypeInv, TypeOK
<1>2. ASSUME NEW p \in Session, Producer(p)
      PROVE  \/ session'[s] = session[s]
             \/ \E n \in Nat : session'[s] = AppendBytes(session[s], n)
             \/ session'[s] = Finalized(session[s])
  <2>0. ChunkLen[p] \subseteq Nat
    BY ManagerAssumption
  <2>1. CASE Receive(p)
    BY <1>1, <2>0, <2>1 DEF Receive
  <2>2. CASE ReceiveLast(p)
    BY <1>1, <2>0, <2>2 DEF ReceiveLast
  <2>3. CASE Destroy(p)
    BY <1>1, <2>3 DEF Destroy
  <2>4. CASE UNCHANGED session
    BY <2>4
  <2> QED
    BY <1>2, <2>1, <2>2, <2>3, <2>4
       DEF Producer, CreateOrReplace, Replaced, FirstResult, CheckStop, Drop, Complete
<1>3. ASSUME NEW x \in closing, Close(x)
      PROVE  \/ session'[s] = session[s]
             \/ session'[s] = Finalized(session[s])
             \/ session'[s] = Cancelled(session[s])
  BY <1>1, <1>3 DEF Close, Closing
<1>4. ASSUME NEW r \in Reader, ReaderStep(r) PROVE UNCHANGED session
  BY <1>4 DEF ReaderStep, GetSession, CheckOffset, ReadFrom, StopReading
<1>5. CASE Manager
  BY <1>3, <1>5 DEF Manager, Delete, Collect, StopManager
<1> QED
  BY <1>2, <1>4, <1>5 DEF Next, AllOver, vars

\* What no method of a session undoes: its flags, and the last byte once it is done.
LEMMA SessionKeeps ==
    ASSUME TypeInv, [Next]_vars, NEW s \in Session
    PROVE  /\ IsWindow(session[s]) => IsWindow(session'[s])
           /\ session[s].done => session'[s].done
           /\ session[s].cancelled => session'[s].cancelled
           /\ session[s].done => session'[s].written = session[s].written
<1>1. session[s] \in StreamSession
  BY DEF TypeInv, TypeOK
<1>2. CASE session'[s] = session[s]
  BY <1>2
<1>3. ASSUME NEW n \in Nat, session'[s] = AppendBytes(session[s], n)
      PROVE  /\ IsWindow(session[s]) => IsWindow(session'[s])
             /\ session'[s].done = session[s].done
             /\ session'[s].cancelled = session[s].cancelled
             /\ session[s].done => session'[s] = session[s]
  BY <1>1, <1>3, AppendBytesProperties, ManagerAssumption
<1>4. CASE session'[s] = Finalized(session[s]) \/ session'[s] = Cancelled(session[s])
  BY <1>1, <1>4, FlagProperties
<1>5. CASE UNCHANGED vars
  BY <1>2, <1>5 DEF vars
<1>6. CASE Next
  BY <1>2, <1>3, <1>4, <1>6, SessionSteps
<1> QED
  BY <1>5, <1>6

\* A session's buffer is the window on its stream it should be, whatever the sizes of
\* the chunks, the cap and the interleaving with readers and the manager (append).
THEOREM WindowsCorrect == Spec => []BuffersAreWindows
<1>1. Init => BuffersAreWindows
  <2>1. IsWindow(FreshSession)
    BY CapAssumption DEF FreshSession, IsWindow
  <2> QED
    BY <2>1 DEF Init, BuffersAreWindows
<1>2. TypeInv /\ BuffersAreWindows /\ [Next]_vars => BuffersAreWindows'
  BY SessionKeeps DEF BuffersAreWindows
<1> QED
  BY <1>1, <1>2, TypeInvariant, PTL DEF Spec

\* A reader's step sends the next bytes of the stream or none at all.
LEMMA ReaderAdvances ==
    ASSUME TypeInv, BuffersAreWindows, ReadsAreContiguous, NEW r \in Reader, ReadFrom(r)
    PROVE  ReadsAreContiguous'
<1> DEFINE s == session[reads[r]]
           b == BytesFrom(s, offset[r])
           o == offset[r]
           g == got[r]
<1>1. /\ reads[r] \in Session /\ s \in StreamSession /\ IsWindow(s)
      /\ offset \in [Reader -> Nat] /\ got \in [Reader -> Seq(Nat)]
      /\ from \in [Reader -> Nat]
  BY DEF ReadFrom, TypeInv, TypeOK, ReaderHasSession, BuffersAreWindows
<1>2. UNCHANGED from
  BY DEF ReadFrom
<1>3. CASE UNCHANGED <<offset, got>>
  BY <1>2, <1>3 DEF ReadsAreContiguous
<1>4. CASE /\ s.prefix_dropped <= o /\ o < LogicalEnd(s)
           /\ got' = [got EXCEPT ![r] = @ \o b]
           /\ offset' = [offset EXCEPT ![r] = @ + Len(b)]
  <2>1. /\ b \in Seq(Nat) /\ Len(b) \in Nat
        /\ \A i \in 1 .. Len(b) : b[i] = o + i
    BY <1>1, <1>4, BytesFromProperties, LenProperties
  <2>2. /\ o = from[r] + Len(g)
        /\ \A i \in 1 .. Len(g) : g[i] = from[r] + i
        /\ g \in Seq(Nat) /\ Len(g) \in Nat /\ from[r] \in Nat
    BY <1>1, LenProperties DEF ReadsAreContiguous
  <2> HIDE DEF b, g, o
  <2>3. /\ Len(g \o b) = Len(g) + Len(b)
        /\ \A i \in 1 .. Len(g) + Len(b) :
              (g \o b)[i] = IF i <= Len(g) THEN g[i] ELSE b[i - Len(g)]
    BY <2>1, <2>2, ConcatProperties
  <2>4. o + Len(b) = from[r] + Len(g \o b)
    BY <2>1, <2>2, <2>3
  <2>5. ASSUME NEW i \in 1 .. Len(g \o b) PROVE (g \o b)[i] = from[r] + i
    <3>1. i \in 1 .. Len(g) + Len(b)
      BY <2>3
    <3>2. CASE i <= Len(g)
      BY <2>2, <2>3, <3>1, <3>2
    <3>3. CASE ~(i <= Len(g))
      <4>1. i - Len(g) \in 1 .. Len(b)
        BY <2>1, <2>2, <3>1, <3>3
      <4>2. (g \o b)[i] = o + (i - Len(g))
        BY <2>1, <2>3, <3>1, <3>3, <4>1
      <4> QED
        BY <2>2, <3>1, <4>2
    <3> QED
      BY <3>2, <3>3
  <2>6. got'[r] = g \o b /\ offset'[r] = o + Len(b) /\ from'[r] = from[r]
    BY <1>1, <1>2, <1>4 DEF b, g, o
  <2>7. ASSUME NEW q \in Reader, q # r
        PROVE  got'[q] = got[q] /\ offset'[q] = offset[q] /\ from'[q] = from[q]
    BY <1>1, <1>2, <1>4, <2>7
  <2>8. ASSUME NEW q \in Reader
        PROVE  /\ offset'[q] = from'[q] + Len(got'[q])
               /\ \A i \in 1 .. Len(got'[q]) : got'[q][i] = from'[q] + i
    <3>1. CASE q = r
      BY <2>4, <2>5, <2>6, <3>1
    <3>2. CASE q # r
      BY <2>7, <3>2 DEF ReadsAreContiguous
    <3> QED
      BY <3>1, <3>2
  <2> QED
    BY <2>8 DEF ReadsAreContiguous
<1> QED
  BY <1>3, <1>4 DEF ReadFrom

\* What the client of a GET gets is the stream from the offset it asked for, without a
\* gap or a repetition, although the buffer loses its front between two reads.
THEOREM ReadsCorrect == Spec => []ReadsAreContiguous
<1>1. Init => ReadsAreContiguous
  <2> SUFFICES ASSUME Init, NEW r \in Reader
               PROVE  /\ offset[r] = from[r] + Len(got[r])
                      /\ \A i \in 1 .. Len(got[r]) : got[r][i] = from[r] + i
    BY DEF ReadsAreContiguous
  <2>1. got[r] = <<>> /\ offset[r] = from[r] /\ from[r] \in Nat
    BY ManagerAssumption DEF Init
  <2> QED
    BY <2>1
<1>2. TypeInv /\ BuffersAreWindows /\ ReadsAreContiguous /\ [Next]_vars => ReadsAreContiguous'
  <2> SUFFICES ASSUME TypeInv, BuffersAreWindows, ReadsAreContiguous, [Next]_vars
               PROVE  ReadsAreContiguous'
    OBVIOUS
  <2>1. ASSUME NEW r \in Reader, ReadFrom(r) PROVE ReadsAreContiguous'
    BY <2>1, ReaderAdvances
  <2>2. ASSUME UNCHANGED <<from, offset, got>> PROVE ReadsAreContiguous'
    BY <2>2 DEF ReadsAreContiguous
  <2>3. ASSUME NEW s \in Session, Producer(s) PROVE UNCHANGED <<from, offset, got>>
    BY <2>3 DEF Producer, CreateOrReplace, Replaced, FirstResult, CheckStop, Receive,
                ReceiveLast, Drop, Complete, Destroy, readerVars
  <2>4. ASSUME Manager PROVE UNCHANGED <<from, offset, got>>
    BY <2>4 DEF Manager, Delete, Collect, Close, StopManager, readerVars
  <2>5. ASSUME NEW r \in Reader, GetSession(r) \/ CheckOffset(r) \/ StopReading(r)
        PROVE  UNCHANGED <<from, offset, got>>
    BY <2>5 DEF GetSession, CheckOffset, StopReading
  <2>6. ASSUME UNCHANGED vars PROVE UNCHANGED <<from, offset, got>>
    BY <2>6 DEF vars, readerVars
  <2> QED
    BY <2>1, <2>2, <2>3, <2>4, <2>5, <2>6 DEF Next, ReaderStep, AllOver
<1> QED
  BY <1>1, <1>2, TypeInvariant, WindowsCorrect, PTL DEF Spec

-----------------------------------------------------------------------------
(* Who may end a session, and when: the map of the manager, the calls its  *)
(* removals owe, and the ends the readers see.                             *)

\* The program counters a step of the manager or of a reader leaves alone.
LEMMA ManagerSteps ==
    ASSUME Manager
    PROVE  UNCHANGED producerVars /\ UNCHANGED readerVars
  BY DEF Manager, Delete, Collect, Close, StopManager

\* Readers change no session and no producer.
LEMMA ReaderSteps ==
    ASSUME NEW r \in Reader, ReaderStep(r)
    PROVE  UNCHANGED <<session, sessions, closing, stopped, producerVars>>
  BY DEF ReaderStep, GetSession, CheckOffset, ReadFrom, StopReading

-----------------------------------------------------------------------------
(* OrphansAreClosed                                                        *)

\* A session that leaves the map in a step is put down for closing by that step.
LEMMA RemovedIsClosing ==
    ASSUME TypeInv, [Next]_vars, NEW s \in Session,
           sessions[ConvOf[s]] = s, sessions'[ConvOf[s]] # s
    PROVE  \E x \in closing' : x.s = s
<1> DEFINE c == ConvOf[s]
<1>1. c \in Conv /\ sessions[c] # NoSession
  BY ManagerAssumption
<1>2. sessions \in [Conv -> Session \cup {NoSession}]
  BY DEF TypeInv, TypeOK
<1>3. ASSUME NEW p \in Session, CreateOrReplace(p) PROVE \E x \in closing' : x.s = s
  <2>1. ConvOf[p] = c
    BY <1>2, <1>3, ManagerAssumption DEF CreateOrReplace
  <2>2. [s |-> s, cancel |-> TRUE] \in closing'
    BY <1>1, <1>3, <2>1 DEF CreateOrReplace
  <2> QED
    BY <2>2
<1>4. ASSUME NEW d \in Conv, Delete(d) PROVE \E x \in closing' : x.s = s
  <2>1. d = c
    BY <1>2, <1>4, ManagerAssumption DEF Delete
  <2>2. [s |-> s, cancel |-> TRUE] \in closing'
    BY <1>4, <2>1 DEF Delete
  <2> QED
    BY <2>2
<1>5. ASSUME NEW d \in Conv, Collect(d) PROVE \E x \in closing' : x.s = s
  <2>1. d = c
    BY <1>2, <1>5, ManagerAssumption DEF Collect
  <2>2. [s |-> s, cancel |-> FALSE] \in closing'
    BY <1>5, <2>1 DEF Collect
  <2> QED
    BY <2>2
<1>6. CASE StopManager
  <2>1. [s |-> s, cancel |-> FALSE] \in closing'
    BY <1>1, <1>6 DEF StopManager
  <2> QED
    BY <2>1
<1>7. ASSUME UNCHANGED sessions PROVE FALSE
  BY <1>7
<1>8. ASSUME NEW p \in Session, Producer(p), ~CreateOrReplace(p) PROVE UNCHANGED sessions
  BY <1>8 DEF Producer, Replaced, FirstResult, CheckStop, Receive, ReceiveLast, Drop,
              Complete, Destroy
<1>9. ASSUME NEW x \in closing, Close(x) PROVE UNCHANGED sessions
  BY <1>9 DEF Close
<1>10. CASE UNCHANGED vars \/ AllOver
  BY <1>7, <1>10 DEF vars, AllOver
<1> QED
  BY <1>3, <1>4, <1>5, <1>6, <1>7, <1>8, <1>9, <1>10, ReaderSteps DEF Next, Manager

\* A session that is being closed still is after the step, unless it is done by then.
LEMMA ClosingStays ==
    ASSUME TypeInv, [Next]_vars, NEW s \in Session, \E x \in closing : x.s = s
    PROVE  session'[s].done \/ \E x \in closing' : x.s = s
<1>1. PICK x \in closing : x.s = s
  OBVIOUS
<1>2. session[s] \in StreamSession /\ session \in [Session -> StreamSession] /\ x \in Closing
  BY DEF TypeInv, TypeOK
<1>3. ASSUME NEW y \in closing, Close(y) PROVE session'[s].done \/ \E z \in closing' : z.s = s
  <2>1. CASE y # x
    <3>1. x \in closing'
      BY <1>1, <1>3, <2>1 DEF Close
    <3> QED
      BY <1>1, <3>1
  <2>2. CASE y = x /\ x.cancel
    <3>1. [x EXCEPT !.cancel = FALSE] \in closing' /\ [x EXCEPT !.cancel = FALSE].s = s
      BY <1>1, <1>2, <1>3, <2>2 DEF Close, Closing
    <3> QED
      BY <3>1
  <2>3. CASE y = x /\ ~x.cancel
    <3>1. session'[s] = Finalized(session[s])
      BY <1>1, <1>2, <1>3, <2>3 DEF Close
    <3> QED
      BY <1>2, <3>1, FlagProperties
  <2> QED
    BY <2>1, <2>2, <2>3
<1>4. ASSUME closing \subseteq closing' PROVE \E z \in closing' : z.s = s
  BY <1>1, <1>4
<1>5. ASSUME NEW p \in Session, Producer(p) PROVE closing \subseteq closing'
  BY <1>5 DEF Producer, CreateOrReplace, Replaced, FirstResult, CheckStop, Receive,
              ReceiveLast, Drop, Complete, Destroy
<1>6. ASSUME Manager, \A y \in closing : ~Close(y) PROVE closing \subseteq closing'
  BY <1>6 DEF Manager, Delete, Collect, StopManager
<1>7. CASE UNCHANGED vars \/ AllOver
  BY <1>1, <1>7 DEF vars, AllOver
<1> QED
  BY <1>3, <1>4, <1>5, <1>6, <1>7, ReaderSteps DEF Next

\* A request that has not reached create_or_replace before the step, and has after it,
\* is in the map.
LEMMA CreatedIsInMap ==
    ASSUME TypeInv, [Next]_vars, NEW s \in Session, ppc[s] = "new", ppc'[s] # "new"
    PROVE  sessions'[ConvOf[s]] = s
<1>1. /\ ppc \in [Session -> {"new", "replace", "first", "check", "receive", "complete",
                              "destroy", "over"}]
      /\ sessions \in [Conv -> Session \cup {NoSession}]
      /\ ConvOf[s] \in Conv
  BY ManagerAssumption DEF TypeInv, TypeOK
<1>2. PICK p \in Session : Producer(p)
  <2>1. ASSUME UNCHANGED producerVars PROVE FALSE
    BY <2>1 DEF producerVars
  <2> QED
    BY <2>1, ManagerSteps, ReaderSteps DEF Next, AllOver, vars
<1>3. p = s
  BY <1>1, <1>2 DEF Producer, CreateOrReplace, Replaced, FirstResult, CheckStop, Receive,
                    ReceiveLast, Drop, Complete, Destroy, GoTo
<1>4. CreateOrReplace(s)
  BY <1>2, <1>3 DEF Producer, Replaced, FirstResult, CheckStop, Receive,
                    ReceiveLast, Drop, Complete, Destroy
<1> QED
  BY <1>1, <1>4 DEF CreateOrReplace

\* One conversation, one live session: a session outside the map is finished, or some
\* thread still owes it the calls that finish it (create_or_replace, evict, gc_loop).
THEOREM OrphansCorrect == Spec => []OrphansAreClosed
<1>1. Init => OrphansAreClosed
  BY DEF Init, OrphansAreClosed
<1>2. TypeInv /\ OrphansAreClosed /\ [Next]_vars => OrphansAreClosed'
  <2> SUFFICES ASSUME TypeInv, OrphansAreClosed, [Next]_vars, NEW s \in Session,
                      ppc'[s] # "new", sessions'[ConvOf[s]] # s
               PROVE  session'[s].done \/ \E x \in closing' : x.s = s
    BY DEF OrphansAreClosed
  <2>1. CASE sessions[ConvOf[s]] = s
    BY <2>1, RemovedIsClosing
  <2>2. CASE sessions[ConvOf[s]] # s
    <3>1. ppc[s] # "new"
      BY CreatedIsInMap
    <3>2. CASE session[s].done
      BY <3>2, SessionKeeps
    <3>3. CASE \E x \in closing : x.s = s
      BY <3>3, ClosingStays
    <3> QED
      BY <2>2, <3>1, <3>2, <3>3 DEF OrphansAreClosed
  <2> QED
    BY <2>1, <2>2
<1> QED
  BY <1>1, <1>2, TypeInvariant, PTL DEF Spec

-----------------------------------------------------------------------------
(* DoneMeansTold                                                           *)

\* The strengthening: a session about to be finalized has been cancelled before, or its
\* producer is over (only stop_gc finalizes without either).
FinalizeMeansTold ==
    \A x \in closing :
        ~x.cancel /\ ~stopped => ppc[x.s] = "over" \/ session[x.s].cancelled

ToldInv == DoneMeansTold /\ FinalizeMeansTold

Told(s) == ppc[s] = "over" \/ session[s].cancelled

\* Being over and being cancelled are for good.
LEMMA ToldStays ==
    ASSUME TypeInv, [Next]_vars, NEW s \in Session, Told(s)
    PROVE  Told(s)'
<1>1. CASE session[s].cancelled
  BY <1>1, SessionKeeps DEF Told
<1>2. CASE ppc[s] = "over"
  <2>1. ppc \in [Session -> {"new", "replace", "first", "check", "receive", "complete",
                             "destroy", "over"}]
    BY DEF TypeInv, TypeOK
  <2>2. ASSUME NEW p \in Session, Producer(p) PROVE ppc'[s] = "over"
    BY <1>2, <2>1, <2>2
       DEF Producer, CreateOrReplace, Replaced, FirstResult, CheckStop, Receive,
           ReceiveLast, Drop, Complete, Destroy, GoTo
  <2>3. ASSUME UNCHANGED producerVars PROVE ppc'[s] = "over"
    BY <1>2, <2>3 DEF producerVars
  <2> QED
    BY <2>2, <2>3, ManagerSteps, ReaderSteps DEF Next, AllOver, vars, Told
<1> QED
  BY <1>1, <1>2 DEF Told

\* Shutdown is for good.
LEMMA StoppedStays ==
    ASSUME [Next]_vars, stopped
    PROVE  stopped'
<1>1. ASSUME NEW p \in Session, Producer(p) PROVE stopped'
  BY <1>1 DEF Producer, CreateOrReplace, Replaced, FirstResult, CheckStop, Receive,
              ReceiveLast, Drop, Complete, Destroy
<1>2. ASSUME Manager PROVE stopped'
  BY <1>2 DEF Manager, Delete, Collect, Close, StopManager
<1> QED
  BY <1>1, <1>2, ReaderSteps DEF Next, AllOver, vars

\* A session becomes done in its producer's destructor or in a close.
LEMMA DoneSteps ==
    ASSUME TypeInv, [Next]_vars, NEW s \in Session, ~session[s].done, session'[s].done
    PROVE  \/ ppc'[s] = "over"
           \/ \E x \in closing : x.s = s /\ ~x.cancel
<1>1. /\ session \in [Session -> StreamSession] /\ closing \subseteq Closing
      /\ ppc \in [Session -> {"new", "replace", "first", "check", "receive", "complete",
                              "destroy", "over"}]
  BY DEF TypeInv, TypeOK
<1>2. ASSUME NEW p \in Session, Destroy(p) PROVE ppc'[s] = "over"
  BY <1>1, <1>2 DEF Destroy, GoTo
<1>3. ASSUME NEW x \in closing, Close(x) PROVE x.s = s /\ ~x.cancel
  <2>1. x \in Closing /\ session[s] \in StreamSession
    BY <1>1
  <2>2. Cancelled(session[s]).done = session[s].done
    BY <2>1, FlagProperties
  <2> QED
    BY <1>1, <1>3, <2>1, <2>2 DEF Close, Closing
<1>4. ASSUME NEW p \in Session, Receive(p) \/ ReceiveLast(p) PROVE FALSE
  <2>1. ASSUME NEW n \in Nat PROVE AppendBytes(session[s], n).done = session[s].done
    BY <1>1, AppendBytesProperties
  <2>2. ChunkLen[p] \subseteq Nat
    BY ManagerAssumption
  <2>3. session' = session \/ \E n \in ChunkLen[p] : session' = [session EXCEPT ![p] = AppendBytes(@, n)]
    BY <1>4 DEF Receive, ReceiveLast
  <2> QED
    BY <1>1, <2>1, <2>2, <2>3
<1>5. ASSUME UNCHANGED session PROVE FALSE
  BY <1>5
<1>6. ASSUME NEW p \in Session, Producer(p), ~Destroy(p), ~Receive(p), ~ReceiveLast(p)
      PROVE  UNCHANGED session
  BY <1>6 DEF Producer, CreateOrReplace, Replaced, FirstResult, CheckStop, Drop, Complete
<1>7. ASSUME Manager, \A x \in closing : ~Close(x) PROVE UNCHANGED session
  BY <1>7 DEF Manager, Delete, Collect, StopManager
<1> QED
  BY <1>2, <1>3, <1>4, <1>5, <1>6, <1>7, ReaderSteps DEF Next, AllOver, vars

\* Who puts down a session to be finalized at once has found it told.
LEMMA FinalizeSteps ==
    ASSUME TypeInv, DoneMeansTold, [Next]_vars, ~stopped', NEW x \in closing', ~x.cancel,
           x \notin closing
    PROVE  Told(x.s)'
<1>1. /\ session \in [Session -> StreamSession] /\ closing \subseteq Closing
      /\ sessions \in [Conv -> Session \cup {NoSession}]
  BY DEF TypeInv, TypeOK
<1>2. ~stopped
  BY StoppedStays
<1>3. ASSUME NEW c \in Conv, Collect(c) PROVE Told(x.s)'
  <2>1. x = [s |-> sessions[c], cancel |-> FALSE] /\ x.s \in Session /\ session[x.s].done
    BY <1>1, <1>3 DEF Collect
  <2>2. Told(x.s)
    BY <1>2, <2>1 DEF DoneMeansTold, Told
  <2> QED
    BY <2>1, <2>2, ToldStays
<1>4. ASSUME NEW y \in closing, Close(y) PROVE Told(x.s)'
  <2>1. y \in Closing /\ y.cancel /\ x = [y EXCEPT !.cancel = FALSE]
    BY <1>1, <1>4 DEF Close
  <2>2. x.s = y.s /\ y.s \in Session
    BY <2>1 DEF Closing
  <2>3. session'[x.s] = Cancelled(session[x.s]) /\ session[x.s] \in StreamSession
    BY <1>1, <1>4, <2>1, <2>2 DEF Close
  <2>4. session'[x.s].cancelled
    BY <2>3, FlagProperties
  <2> QED
    BY <2>4 DEF Told
<1>5. ASSUME NEW p \in Session, CreateOrReplace(p) PROVE FALSE
  BY <1>5 DEF CreateOrReplace
<1>6. ASSUME NEW p \in Session, Producer(p), ~CreateOrReplace(p) PROVE FALSE
  BY <1>6 DEF Producer, Replaced, FirstResult, CheckStop, Receive, ReceiveLast, Drop,
              Complete, Destroy
<1>7. ASSUME NEW c \in Conv, Delete(c) PROVE FALSE
  BY <1>7 DEF Delete
<1>8. ASSUME StopManager PROVE FALSE
  BY <1>8 DEF StopManager
<1> QED
  BY <1>3, <1>4, <1>5, <1>6, <1>7, <1>8, ReaderSteps DEF Next, Manager, AllOver, vars

\* Until the shutdown nobody ends a session behind its producer's back: it is over or
\* has been cancelled first, so its should_stop tells it (evict_and_cancel, gc_loop).
THEOREM ToldCorrect == Spec => []DoneMeansTold
<1>1. Init => ToldInv
  BY DEF Init, ToldInv, DoneMeansTold, FinalizeMeansTold, FreshSession
<1>2. TypeInv /\ ToldInv /\ [Next]_vars => ToldInv'
  <2> SUFFICES ASSUME TypeInv, ToldInv, [Next]_vars PROVE ToldInv'
    OBVIOUS
  <2>1. closing \subseteq Closing
    BY DEF TypeInv, TypeOK
  <2>2. ASSUME NEW s \in Session, session'[s].done, ~stopped' PROVE Told(s)'
    <3>1. ~stopped
      BY <2>2, StoppedStays
    <3>2. CASE session[s].done
      BY <3>1, <3>2, ToldStays DEF ToldInv, DoneMeansTold, Told
    <3>3. CASE ~session[s].done /\ ppc'[s] = "over"
      BY <3>3 DEF Told
    <3>4. ASSUME ~session[s].done, NEW x \in closing, x.s = s, ~x.cancel PROVE Told(s)'
      <4>1. Told(s)
        BY <3>1, <3>4 DEF ToldInv, FinalizeMeansTold, Told
      <4> QED
        BY <4>1, ToldStays
    <3> QED
      BY <2>2, <3>2, <3>3, <3>4, DoneSteps
  <2>3. ASSUME NEW x \in closing', ~x.cancel, ~stopped' PROVE Told(x.s)'
    <3>1. CASE x \in closing
      <4>1. Told(x.s) /\ x.s \in Session
        BY <2>1, <2>3, <3>1, StoppedStays DEF ToldInv, FinalizeMeansTold, Told, Closing
      <4> QED
        BY <4>1, ToldStays
    <3>2. CASE x \notin closing
      BY <2>3, <3>2, FinalizeSteps DEF ToldInv
    <3> QED
      BY <3>1, <3>2
  <2> QED
    BY <2>2, <2>3 DEF ToldInv, DoneMeansTold, FinalizeMeansTold, Told
<1>3. ToldInv => DoneMeansTold
  BY DEF ToldInv
<1> QED
  BY <1>1, <1>2, <1>3, TypeInvariant, PTL DEF Spec

-----------------------------------------------------------------------------
(* EndMeansAll                                                             *)

\* The strengthening: the end a reader has seen is the end of a session that is done.
EndInv == \A r \in Reader : rpc[r] = "eof" =>
              session[reads[r]].done /\ offset[r] >= session[reads[r]].written

\* A reader sees the end only of a session that is done, at or behind its last byte.
LEMMA EofSteps ==
    ASSUME TypeInv, BuffersAreWindows, [Next]_vars, NEW r \in Reader,
           rpc[r] # "eof", rpc'[r] = "eof"
    PROVE  /\ reads'[r] = reads[r] /\ reads[r] \in Session
           /\ session[reads[r]].done /\ offset'[r] >= session[reads[r]].written
           /\ UNCHANGED session
<1>1. /\ rpc \in [Reader -> {"new", "found", "reading", "404", "400", "eof", "lost", "gone"}]
      /\ offset \in [Reader -> Nat] /\ session \in [Session -> StreamSession]
  BY DEF TypeInv, TypeOK
<1>2. PICK q \in Reader : ReaderStep(q)
  <2>1. ASSUME UNCHANGED readerVars PROVE FALSE
    BY <2>1 DEF readerVars
  <2>2. ASSUME NEW p \in Session, Producer(p) PROVE UNCHANGED readerVars
    BY <2>2 DEF Producer, CreateOrReplace, Replaced, FirstResult, CheckStop, Receive,
                ReceiveLast, Drop, Complete, Destroy
  <2> QED
    BY <2>1, <2>2, ManagerSteps DEF Next, AllOver, vars
<1>3. q = r
  BY <1>1, <1>2 DEF ReaderStep, GetSession, CheckOffset, ReadFrom, StopReading, RGoTo
<1>4. ReadFrom(r)
  BY <1>1, <1>2, <1>3 DEF ReaderStep, GetSession, CheckOffset, StopReading, RGoTo
<1>5. /\ LogicalEnd(session[reads[r]]) <= offset[r] /\ session[reads[r]].done
      /\ UNCHANGED <<offset, reads, session>>
  BY <1>1, <1>4 DEF ReadFrom, RGoTo
<1>6. reads[r] \in Session
  BY <1>4 DEF ReadFrom, TypeInv, ReaderHasSession
<1>7. /\ IsWindow(session[reads[r]]) /\ session[reads[r]] \in StreamSession
      /\ offset[r] \in Nat
  BY <1>1, <1>6 DEF BuffersAreWindows
<1> DEFINE s == session[reads[r]]
<1>8. /\ s.written \in Nat /\ s.prefix_dropped \in Nat /\ Len(s.buffer) \in Nat
      /\ Len(s.buffer) = s.written - s.prefix_dropped
  BY <1>7, LenProperties DEF StreamSession, IsWindow
<1>9. s.prefix_dropped + Len(s.buffer) <= offset[r]
  BY <1>5 DEF LogicalEnd
<1> HIDE DEF s
<1>10. s.written <= offset[r]
  BY <1>7, <1>8, <1>9
<1> QED
  BY <1>5, <1>6, <1>7, <1>8, <1>10 DEF s

\* Whatever a reader has seen the end of stays as it is.
LEMMA EofStays ==
    ASSUME TypeInv, [Next]_vars, NEW r \in Reader, rpc[r] = "eof"
    PROVE  UNCHANGED <<reads[r], offset[r]>>
<1>1. /\ reads \in [Reader -> Session \cup {NoSession}] /\ offset \in [Reader -> Nat]
  BY DEF TypeInv, TypeOK
<1>2. ASSUME NEW q \in Reader, ReaderStep(q) PROVE UNCHANGED <<reads[r], offset[r]>>
  <2>1. q # r
    BY <1>2 DEF ReaderStep, GetSession, CheckOffset, ReadFrom, StopReading
  <2> QED
    BY <1>1, <1>2, <2>1 DEF ReaderStep, GetSession, CheckOffset, ReadFrom, StopReading
<1>3. ASSUME NEW p \in Session, Producer(p) PROVE UNCHANGED readerVars
  BY <1>3 DEF Producer, CreateOrReplace, Replaced, FirstResult, CheckStop, Receive,
              ReceiveLast, Drop, Complete, Destroy
<1>4. ASSUME UNCHANGED readerVars PROVE UNCHANGED <<reads[r], offset[r]>>
  BY <1>4 DEF readerVars
<1> QED
  BY <1>2, <1>3, <1>4, ManagerSteps DEF Next, AllOver, vars

\* A reader that sees the end of its stream has been sent the last byte there will ever
\* be (read_from, and append on a session that is done).
THEOREM EndCorrect == Spec => []EndMeansAll
<1>1. Init => EndInv
  BY DEF Init, EndInv
<1>2. TypeInv /\ BuffersAreWindows /\ EndInv /\ [Next]_vars => EndInv'
  <2> SUFFICES ASSUME TypeInv, BuffersAreWindows, EndInv, [Next]_vars, NEW r \in Reader,
                      rpc'[r] = "eof"
               PROVE  /\ session'[reads'[r]].done
                      /\ offset'[r] >= session'[reads'[r]].written
    BY DEF EndInv
  <2>1. CASE rpc[r] # "eof"
    BY <2>1, EofSteps
  <2>2. CASE rpc[r] = "eof"
    <3>1. reads[r] \in Session
      BY <2>2 DEF TypeInv, ReaderHasSession
    <3>2. session[reads[r]].done /\ offset[r] >= session[reads[r]].written
      BY <2>2 DEF EndInv
    <3> QED
      BY <2>2, <3>1, <3>2, SessionKeeps, EofStays
  <2> QED
    BY <2>1, <2>2
<1>3. EndInv => EndMeansAll
  BY DEF EndInv, EndMeansAll
<1> QED
  BY <1>1, <1>2, <1>3, TypeInvariant, WindowsCorrect, PTL DEF Spec

-----------------------------------------------------------------------------
(* The sleeping state: its inductive invariant                             *)

\* No handler is twice in the queue.
QueuedOnce == \A i, j \in DOMAIN queue_tasks : queue_tasks[i] = queue_tasks[j] => i = j

\* While start_loop runs, the server sleeps when its main thread says so; the model is
\* there whenever it does not.
SleepIsAsleep ==
    /\ model = ~sleeping
    /\ running => (sleeping <=> main = "asleep")
    /\ main = "start" => ~sleeping
    /\ ~boundary => \A h \in Handler : pc[h] = "use" => ~sleeping

\* Who waits: handlers do so only when the server sleeps and has been asked to wake up.
OnlyMainWaits ==
    /\ main = "asleep" /\ (~running \/ req_stop_sleeping) => Main \notin waiting
    /\ main # "asleep" /\ (running \/ main = "start") => waiting \subseteq {Main}
    /\ main = "asleep" /\ running /\ ~req_stop_sleeping =>
          waiting \subseteq {Main} /\ \A h \in Handler : pc[h] # "blocked"

SleepTypeInv == SleepTypeOK /\ QueuedOnce
SleepInv == SleepTypeInv /\ SleepIsAsleep
WakeInv == SleepInv /\ OnlyMainWaits

-----------------------------------------------------------------------------
(* The types                                                               *)

\* A notification wakes some of those that wait and puts nobody to wait.
LEMMA NotifiedIsSubset ==
    ASSUME NEW W, NEW X \in Notified(W)
    PROVE  X \subseteq W
  BY DEF Notified

\* The types hold at the start.
LEMMA InitTypes == SleepInit => SleepTypeInv
  <1> SUFFICES ASSUME SleepInit PROVE SleepTypeInv
    OBVIOUS
  <1> USE SleepAssumption
  <1>1. boundary \in BOOLEAN
    BY DEF SleepInit
  <1>2. queue_tasks \in Seq(Handler) /\ \A h \in ToSet(queue_tasks) : pc[h] = "await"
    BY DEF SleepInit, ToSet
  <1>3. {running, sleeping, req_stop_sleeping, model, terminated, boundary} \subseteq BOOLEAN
    BY <1>1 DEF SleepInit
  <1>4. SleepTypeOK
    BY <1>2, <1>3 DEF SleepInit, SleepTypeOK
  <1>5. QueuedOnce
    BY DEF SleepInit, QueuedOnce
  <1> QED
    BY <1>4, <1>5 DEF SleepTypeInv

\* post() puts a handler into the queue that is not in it.
LEMMA PostTypes ==
    ASSUME SleepTypeInv, NEW h \in Handler, PostTask(h)
    PROVE  SleepTypeInv'
  <1> USE DEF SleepTypeInv, SleepTypeOK, ToSet
  <1>1. queue_tasks' \in Seq(Handler) /\ pc' = [pc EXCEPT ![h] = "await"]
    BY DEF PostTask
  <1>2. \A i \in DOMAIN queue_tasks : queue_tasks[i] # h
    BY DEF PostTask
  <1>3. \A i \in DOMAIN queue_tasks' :
           \/ i \in DOMAIN queue_tasks /\ queue_tasks'[i] = queue_tasks[i]
           \/ i = Len(queue_tasks) + 1 /\ queue_tasks'[i] = h
    BY DEF PostTask
  <1>4. QueuedOnce'
    BY <1>2, <1>3 DEF QueuedOnce
  <1>5. \A x \in ToSet(queue_tasks)' : pc'[x] = "await"
    BY <1>1, <1>3
  <1>6. waiting' \subseteq Handler \cup {Main}
    BY NotifiedIsSubset DEF PostTask
  <1> QED
    BY <1>1, <1>4, <1>5, <1>6 DEF PostTask

\* The main thread takes the first handler of the queue, and no other entry is its own.
LEMMA PopTypes ==
    ASSUME SleepTypeInv, Main_Pop
    PROVE  SleepTypeInv'
  <1> USE DEF SleepTypeInv, SleepTypeOK, ToSet
  <1>1. CASE ~running \/ queue_tasks = <<>>
    BY <1>1 DEF Main_Pop, QueuedOnce
  <1>2. CASE running /\ queue_tasks # <<>>
    <2>1. /\ queue_tasks' = Tail(queue_tasks)
          /\ pc' = [pc EXCEPT ![Head(queue_tasks)] = "done"]
      BY <1>2 DEF Main_Pop
    <2>2. Head(queue_tasks) \in Handler /\ queue_tasks' \in Seq(Handler)
      BY <1>2, <2>1
    <2>3. \A i \in DOMAIN queue_tasks' :
             i + 1 \in DOMAIN queue_tasks /\ queue_tasks'[i] = queue_tasks[i + 1] /\ i + 1 # 1
      BY <1>2, <2>1
    <2>4. QueuedOnce'
      BY <2>3 DEF QueuedOnce
    <2>5. \A i \in DOMAIN queue_tasks' : queue_tasks'[i] # Head(queue_tasks)
      BY <1>2, <2>3 DEF QueuedOnce
    <2>6. \A x \in ToSet(queue_tasks)' : pc'[x] = "await"
      BY <2>1, <2>2, <2>3, <2>5
    <2> QED
      BY <1>2, <2>1, <2>2, <2>4, <2>6 DEF Main_Pop
  <1> QED
    BY <1>1, <1>2

\* The gate of the handlers (wait_until_no_sleep) keeps the types.
LEMMA GateTypes ==
    ASSUME SleepTypeInv, NEW h \in Handler, Gate(h) \/ GateAgain(h) \/ Tokenize(h)
    PROVE  SleepTypeInv'
  <1> USE DEF SleepTypeInv, SleepTypeOK, ToSet
  <1>1. pc[h] # "await" /\ pc' \in [Handler -> {"new", "blocked", "use", "post", "await", "done"}]
        /\ \A x \in Handler : pc[x] = "await" => pc'[x] = "await"
    BY DEF Gate, GateAgain, Tokenize
  <1>2. waiting' \subseteq Handler \cup {Main} /\ req_stop_sleeping' \in BOOLEAN
    <2>1. CASE Gate(h)
      <3>1. PICK W \in {waiting} \cup Notified(waiting) : waiting' \subseteq W \cup {h}
        BY <2>1 DEF Gate
      <3>2. W \subseteq waiting
        BY NotifiedIsSubset
      <3> QED
        BY <2>1, <3>1, <3>2 DEF Gate
    <2>2. CASE GateAgain(h) \/ Tokenize(h)
      BY <2>2 DEF GateAgain, Tokenize
    <2> QED
      BY <2>1, <2>2
  <1>3. UNCHANGED <<running, sleeping, queue_tasks, main, model, terminated, boundary>>
    BY DEF Gate, GateAgain, Tokenize
  <1> QED
    BY <1>1, <1>2, <1>3 DEF QueuedOnce

\* Every step keeps the types.
LEMMA StepTypes == SleepTypeInv /\ [SleepNext]_sleep_vars => SleepTypeInv'
  <1> SUFFICES ASSUME SleepTypeInv, [SleepNext]_sleep_vars PROVE SleepTypeInv'
    OBVIOUS
  <1> USE DEF SleepTypeInv, SleepTypeOK, QueuedOnce, ToSet
  <1>1. CASE Main_Start \/ Main_Check \/ Main_Timed
    BY <1>1 DEF Main_Start, Main_Check, Main_Timed
  <1>2. CASE Main_Wake \/ Main_Asleep
    BY <1>2 DEF Main_Wake, Main_Asleep
  <1>3. CASE Terminate
    BY <1>3 DEF Terminate
  <1>4. CASE UNCHANGED sleep_vars \/ AllQuiet
    BY <1>4 DEF sleep_vars, AllQuiet
  <1> QED
    BY <1>1, <1>2, <1>3, <1>4, PostTypes, PopTypes, GateTypes DEF SleepNext, HandlerStep, MainLoop

\* The state of the queue keeps its types, and the queue holds the handlers that await
\* their tasks, each once (server-queue.cpp:16-207).
THEOREM SleepTypeCorrect == SleepSpec => []SleepTypeOK
  <1>1. SleepTypeInv => SleepTypeOK
    BY DEF SleepTypeInv
  <1> QED
    BY <1>1, InitTypes, StepTypes, PTL DEF SleepSpec

-----------------------------------------------------------------------------
(* ModelIsThere                                                            *)

\* Every step keeps the model loaded for those that use it.
LEMMA StepSleep == SleepInv /\ [SleepNext]_sleep_vars => SleepInv'
  <1> SUFFICES ASSUME SleepInv, [SleepNext]_sleep_vars PROVE SleepIsAsleep'
    BY StepTypes DEF SleepInv
  <1> USE DEF SleepInv, SleepIsAsleep, SleepTypeInv, SleepTypeOK
  <1>1. ASSUME NEW h \in Handler, HandlerStep(h) PROVE SleepIsAsleep'
    <2>1. /\ UNCHANGED <<running, sleeping, main, model, boundary>>
          /\ \A x \in Handler : pc'[x] = "use" => pc[x] = "use" \/ ~sleeping
      BY <1>1 DEF HandlerStep, Gate, GateAgain, Tokenize, PostTask
    <2> QED
      BY <2>1
  <1>2. CASE Main_Start \/ Main_Timed \/ Terminate
    BY <1>2 DEF Main_Start, Main_Timed, Terminate
  <1>6. CASE Main_Wake
    BY <1>6 DEF Main_Wake
  <1>7. CASE Main_Asleep
    BY <1>7 DEF Main_Asleep
  <1>3. CASE Main_Pop
    <2>1. /\ UNCHANGED <<running, sleeping, model, boundary>>
          /\ main = "pop" /\ main' \in {"pop", "exit", "idle"}
          /\ \A x \in Handler : pc'[x] = "use" => pc[x] = "use"
      BY <1>3 DEF Main_Pop
    <2> QED
      BY <2>1
  <1>4. CASE Main_Check
    <2>1. main = "idle" /\ UNCHANGED <<running, pc, boundary>>
      BY <1>4 DEF Main_Check
    <2>2. CASE main' = "asleep"
      <3>1. model' = FALSE /\ sleeping' = TRUE
        BY <1>4, <2>2 DEF Main_Check
      <3>2. ~boundary => \A h \in Handler : pc[h] # "use"
        BY <1>4, <2>2 DEF Main_Check, IdleTimeExpired
      <3> QED
        BY <2>1, <2>2, <3>1, <3>2
    <2>3. CASE main' # "asleep"
      <3>1. main' \in {"pop", "timed"} /\ UNCHANGED <<sleeping, model>>
        BY <1>4, <2>3 DEF Main_Check
      <3> QED
        BY <2>1, <3>1
    <2> QED
      BY <2>2, <2>3
  <1>5. CASE UNCHANGED sleep_vars \/ AllQuiet
    BY <1>5 DEF sleep_vars, AllQuiet
  <1> QED
    BY <1>1, <1>2, <1>3, <1>4, <1>5, <1>6, <1>7 DEF SleepNext, MainLoop

\* The main thread takes tasks only when the model is loaded, and a handler that passed
\* wait_until_no_sleep finds it, if the idle time does not expire in between
\* (server-queue.cpp:104-124, 165-207).
THEOREM ModelCorrect == SleepSpec => []ModelIsThere
  <1>1. SleepInit => SleepInv
    BY InitTypes DEF SleepInit, SleepInv, SleepIsAsleep
  <1>2. SleepInv => ModelIsThere
    BY DEF SleepInv, SleepIsAsleep, ModelIsThere
  <1> QED
    BY <1>1, <1>2, StepSleep, PTL DEF SleepSpec

-----------------------------------------------------------------------------
(* NoLostWakeup                                                            *)

\* The request for a wakeup takes the main thread out of the wait.
LEMMA GateWakes ==
    ASSUME WakeInv, NEW h \in Handler, Gate(h)
    PROVE  OnlyMainWaits'
  <1> USE SleepAssumption DEF WakeInv, SleepInv, SleepIsAsleep, OnlyMainWaits, SleepTypeInv, SleepTypeOK
  <1>1. CASE ~sleeping
    BY <1>1 DEF Gate
  <1>2. CASE sleeping /\ (req_stop_sleeping \/ ~running)
    <2>1. PICK W \in {waiting} \cup Notified(waiting) : waiting' = W \cup {h}
      BY <1>2 DEF Gate
    <2>2. waiting' \subseteq waiting \cup {h}
      BY <2>1, NotifiedIsSubset
    <2>3. UNCHANGED <<main, running>> /\ req_stop_sleeping' = TRUE
      BY <1>2 DEF Gate
    <2>4. main # "start" /\ (running => main = "asleep") /\ h # Main
      BY <1>2
    <2>5. main = "asleep" => Main \notin waiting
      BY <1>2
    <2> QED
      BY <2>2, <2>3, <2>4, <2>5
  <1>3. CASE sleeping /\ ~req_stop_sleeping /\ running
    <2>1. main = "asleep" /\ waiting \subseteq {Main}
      BY <1>3
    <2>2. \A W \in Notified(waiting) : W = {}
      BY <2>1 DEF Notified
    <2>3. waiting' = {h} /\ UNCHANGED <<main, running>> /\ req_stop_sleeping' = TRUE
      BY <1>3, <2>2 DEF Gate
    <2> QED
      BY <2>1, <2>3
  <1> QED
    BY <1>1, <1>2, <1>3

\* While the server does not fall asleep again, every step keeps only the main loop
\* waiting while it runs.
LEMMA StepWake ==
    ASSUME ~SleepsOver
    PROVE  WakeInv /\ [SleepNext]_sleep_vars => WakeInv'
  <1> SUFFICES ASSUME WakeInv, [SleepNext]_sleep_vars PROVE OnlyMainWaits'
    BY StepSleep DEF WakeInv
  <1> USE SleepAssumption DEF WakeInv, SleepInv, SleepIsAsleep, OnlyMainWaits, SleepTypeInv, SleepTypeOK
  <1>1. ASSUME NEW h \in Handler, GateAgain(h) PROVE OnlyMainWaits'
    BY <1>1 DEF GateAgain
  <1>2. ASSUME NEW h \in Handler, Tokenize(h) PROVE OnlyMainWaits'
    BY <1>2 DEF Tokenize
  <1>3. ASSUME NEW h \in Handler, PostTask(h) PROVE OnlyMainWaits'
    <2>1. waiting' \subseteq waiting /\ \A x \in Handler : pc'[x] = "blocked" => pc[x] = "blocked"
      BY <1>3, NotifiedIsSubset DEF PostTask
    <2> QED
      BY <1>3, <2>1 DEF PostTask
  <1>4. CASE Main_Pop
    <2>1. main = "pop" /\ main' \in {"pop", "exit", "idle"} /\ UNCHANGED <<running, waiting>>
      BY <1>4 DEF Main_Pop
    <2> QED
      BY <2>1
  <1>5. CASE Main_Check
    <2>1. main = "idle" /\ UNCHANGED <<running, pc>>
      BY <1>5 DEF Main_Check
    <2>2. running => waiting \subseteq {Main}
      BY <2>1
    <2>3. waiting' \subseteq waiting \cup {Main}
      BY <1>5 DEF Main_Check
    <2>4. CASE main' = "asleep"
      <3>1. running /\ req_stop_sleeping' = FALSE
        BY <1>5, <2>4 DEF Main_Check
      <3>2. \A h \in Handler : pc[h] = "blocked" => h \in waiting
        BY <1>5, <2>4 DEF Main_Check, IdleTimeExpired
      <3>3. \A h \in Handler : pc[h] # "blocked"
        BY <2>2, <3>1, <3>2
      <3> QED
        BY <2>1, <2>2, <2>3, <2>4, <3>1, <3>3
    <2>5. CASE main' # "asleep"
      <3>1. main' \in {"pop", "timed"}
        BY <1>5, <2>5 DEF Main_Check
      <3> QED
        BY <2>1, <2>2, <2>3, <3>1
    <2> QED
      BY <2>4, <2>5
  <1>6. CASE Main_Start \/ Main_Timed
    BY <1>6 DEF Main_Start, Main_Timed
  <1>7. CASE Main_Wake \/ Main_Asleep
    BY <1>7 DEF Main_Wake, Main_Asleep
  <1>8. CASE Terminate
    BY <1>8 DEF Terminate
  <1>9. CASE UNCHANGED sleep_vars \/ AllQuiet
    BY <1>9 DEF sleep_vars, AllQuiet
  <1> QED
    BY <1>1, <1>2, <1>3, <1>4, <1>5, <1>6, <1>7, <1>8, <1>9, GateWakes DEF SleepNext, HandlerStep, MainLoop

\* While a wakeup is requested the main thread is not left waiting, though notify_one may
\* choose any thread that waits on condition_tasks (server-queue.cpp:110-118, 184-200): if
\* the server is not asleep again before a notified handler has run.
THEOREM WakeupCorrect ==
    ASSUME ~SleepsOver
    PROVE  SleepSpec => []NoLostWakeup
  <1>1. SleepInit => WakeInv
    BY InitTypes DEF SleepInit, WakeInv, SleepInv, SleepIsAsleep, OnlyMainWaits
  <1>2. WakeInv => NoLostWakeup
    BY DEF WakeInv, OnlyMainWaits, NoLostWakeup
  <1> QED
    BY <1>1, <1>2, StepWake, PTL DEF SleepSpec

=============================================================================
