---------------------------- MODULE StreamManager ----------------------------
(***************************************************************************)
(* Resumable streams (tools/server/server-stream.cpp, and the producer     *)
(* side in server-context.cpp and server-http.cpp): every completion       *)
(* request with an X-Conversation-Id header gets a stream_session, which   *)
(* its HTTP worker fills beside the socket; other HTTP workers replay it;  *)
(* DELETE, a newer request for the conversation, the GC thread and the     *)
(* shutdown of the server take it out of stream_session_manager.           *)
(*                                                                         *)
(* A step is one critical section of map_mu or of a session's mu (the      *)
(* cancelled flag is atomic by itself).  Whoever takes a session out of    *)
(* the map cancels and finalizes it after map_mu is free: "closing" holds  *)
(* those calls until they are made.                                        *)
(***************************************************************************)
EXTENDS StreamSession, Integers

CONSTANTS
    Session,        \* one per request, in the order the code creates them or any other
    NoSession,
    Conv,           \* conversation ids
    ConvOf,         \* [Session -> Conv]: the header of the request
    Reader,         \* GET requests
    ConvRead,       \* [Reader -> Conv]
    From,           \* the offsets they ask for
    ChunkLen,       \* [Session -> the sizes of the chunks its generation produces]
    NResults,       \* the results of a generation at most (n_predict, bound)
    MayDrop,        \* the requests whose client may disconnect while it streams
    MayHangUp,      \* the readers whose client may disconnect
    MayEndEarly,    \* the requests that may end before they stream
    MayDelete,      \* the sessions that a DELETE may meet
    MayStop         \* whether the server may shut down

ASSUME ManagerAssumption ==
    /\ NoSession \notin Session
    /\ ConvOf \in [Session -> Conv] /\ ConvRead \in [Reader -> Conv]
    /\ From \subseteq Nat /\ ChunkLen \in [Session -> SUBSET Nat] /\ NResults \in Nat
    /\ MayDelete \subseteq Session /\ MayStop \in BOOLEAN

VARIABLES
    session,    \* [Session -> StreamSession]
    sessions,   \* [Conv -> Session or NoSession]: the map of the manager
    closing,    \* removed sessions, and whether cancel() comes before finalize()
    stopped,    \* stop_gc() has emptied the map; the main loop is over
    ppc,        \* [Session -> where the HTTP worker of the request is]
    previous,   \* [Session -> the session it replaced, or NoSession]
    left,       \* [Session -> the results still to come at most]
    onwire,     \* [Session -> whether it still writes to the socket]
    rpc,        \* [Reader -> where the HTTP worker of the GET is]
    reads,      \* [Reader -> the session it holds, or NoSession]
    from,       \* [Reader -> the offset in the request]
    offset,     \* [Reader -> *offset_ptr]
    got         \* history: [Reader -> the bytes sent to its client]

producerVars == <<ppc, previous, left, onwire>>
readerVars == <<rpc, reads, from, offset, got>>
vars == <<session, sessions, closing, stopped, producerVars, readerVars>>

Closing == [s : Session, cancel : BOOLEAN]

TypeOK ==
    /\ session \in [Session -> StreamSession]
    /\ sessions \in [Conv -> Session \cup {NoSession}]
    /\ closing \subseteq Closing
    /\ stopped \in BOOLEAN
    /\ ppc \in [Session -> {"new", "replace", "first", "check", "receive", "complete",
                            "destroy", "over"}]
    /\ previous \in [Session -> Session \cup {NoSession}]
    /\ left \in [Session -> 0 .. NResults]
    /\ onwire \in [Session -> BOOLEAN]
    /\ rpc \in [Reader -> {"new", "found", "reading", "404", "400", "eof", "lost", "gone"}]
    /\ reads \in [Reader -> Session \cup {NoSession}]
    /\ from \in [Reader -> Nat]
    /\ offset \in [Reader -> Nat]
    /\ got \in [Reader -> Seq(Nat)]

Init ==
    /\ session = [s \in Session |-> FreshSession]
    /\ sessions = [c \in Conv |-> NoSession]
    /\ closing = {} /\ stopped = FALSE
    /\ ppc = [s \in Session |-> "new"]
    /\ previous = [s \in Session |-> NoSession]
    /\ left = [s \in Session |-> NResults]
    /\ onwire = [s \in Session |-> TRUE]
    /\ rpc = [r \in Reader |-> "new"]
    /\ reads = [r \in Reader |-> NoSession]
    /\ from \in [Reader -> From]
    /\ offset = from
    /\ got = [r \in Reader |-> <<>>]

-----------------------------------------------------------------------------
(* The producer: the HTTP worker of a completion request                   *)

GoTo(s, where) == ppc' = [ppc EXCEPT ![s] = where]

CreateOrReplace_NoClose(s) ==            \* mutant: the previous session is forgotten
    /\ ppc[s] = "new"
    /\ sessions' = [sessions EXCEPT ![ConvOf[s]] = s]
    /\ GoTo(s, "first")
    /\ UNCHANGED <<session, closing, stopped, previous, left, onwire,
                   readerVars>>

\* set_req: create_or_replace swaps the sessions under map_mu ...
CreateOrReplace(s) ==
    /\ ppc[s] = "new"
    /\ LET old == sessions[ConvOf[s]]
       IN  IF old = NoSession
           THEN GoTo(s, "first") /\ UNCHANGED closing
           ELSE /\ GoTo(s, "replace")
                /\ closing' = closing \cup {[s |-> old, cancel |-> TRUE]}
    /\ previous' = [previous EXCEPT ![s] = sessions[ConvOf[s]]]
    /\ sessions' = [sessions EXCEPT ![ConvOf[s]] = s]
    /\ UNCHANGED <<session, stopped, left, onwire, readerVars>>

\* ... and returns when it has cancelled and finalized the previous one.
Replaced(s) ==
    /\ ppc[s] = "replace"
    /\ \A x \in closing : x.s # previous[s]
    /\ GoTo(s, "first")
    /\ UNCHANGED <<session, sessions, closing, stopped, previous, left, onwire, readerVars>>

\* rd.next(req.should_stop): a first result starts the stream, an error is answered
\* like a request that does not stream, and a client that has gone ends it all.
FirstResult(s) ==
    /\ ppc[s] = "first"
    /\ \/ GoTo(s, "check")
       \/ s \in MayEndEarly /\ GoTo(s, "complete")
    /\ UNCHANGED <<session, sessions, closing, stopped, previous, left, onwire, readerVars>>

\* next (or the loop of on_complete, once the socket is gone): should_stop() is
\* is_cancelled() of the session.
CheckStop(s) ==
    /\ ppc[s] = "check"
    /\ GoTo(s, IF session[s].cancelled THEN "complete" ELSE "receive")
    /\ UNCHANGED <<session, sessions, closing, stopped, previous, left, onwire,
                   readerVars>>

ReceiveDeaf(s) ==                        \* mutant: rd.next does not poll should_stop
    /\ ppc[s] = "receive"
    /\ \E n \in ChunkLen[s] :
          /\ left[s] > 0
          /\ left' = [left EXCEPT ![s] = @ - 1]
          /\ session' = [session EXCEPT ![s] = AppendBytes(@, n)]
          /\ GoTo(s, "check")
    /\ UNCHANGED <<sessions, closing, stopped, previous, onwire, readerVars>>

\* rd.next: one more result (or a ping), written to the session beside the socket; or
\* a timeout finds the session cancelled.
Receive(s) ==
    /\ ppc[s] = "receive"
    /\ \/ \E n \in ChunkLen[s] :
             /\ left[s] > 0
             /\ left' = [left EXCEPT ![s] = @ - 1]
             /\ session' = [session EXCEPT ![s] = AppendBytes(@, n)]
             /\ GoTo(s, "check")
       \/ /\ session[s].cancelled
          /\ GoTo(s, "complete")
          /\ UNCHANGED <<left, session>>
    /\ UNCHANGED <<sessions, closing, stopped, previous, onwire, readerVars>>

\* The last result, an error or [DONE]: written too, and the stream is at its end.
ReceiveLast(s) ==
    /\ ppc[s] = "receive"
    /\ \E n \in ChunkLen[s] : session' = [session EXCEPT ![s] = AppendBytes(@, n)]
    /\ GoTo(s, "complete")
    /\ UNCHANGED <<sessions, closing, stopped, previous, left, onwire, readerVars>>

\* A failed write to the socket ends the content provider; on_complete drains the
\* rest of the generation into the session.
Drop(s) ==
    /\ ppc[s] = "check" /\ onwire[s] /\ s \in MayDrop
    /\ onwire' = [onwire EXCEPT ![s] = FALSE]
    /\ UNCHANGED <<session, sessions, closing, stopped, ppc, previous, left,
                   readerVars>>

\* on_complete with nothing to drain, or (where set_next was never called) with an
\* empty next_orig, whose exception ends it too.
Complete(s) ==
    /\ ppc[s] = "complete"
    /\ GoTo(s, "destroy")
    /\ UNCHANGED <<session, sessions, closing, stopped, previous, left, onwire,
                   readerVars>>

DestroyLeaves(s) ==                      \* mutant: the producer does not finalize
    /\ ppc[s] = "destroy"
    /\ GoTo(s, "over")
    /\ UNCHANGED <<session, sessions, closing, stopped, previous, left, onwire, readerVars>>

\* ~stream_pipe_producer, with the response.
Destroy(s) ==
    /\ ppc[s] = "destroy"
    /\ session' = [session EXCEPT ![s] = Finalized(@)]
    /\ GoTo(s, "over")
    /\ UNCHANGED <<sessions, closing, stopped, previous, left, onwire,
                   readerVars>>

Producer(s) ==
    \/ CreateOrReplace(s) \/ Replaced(s) \/ FirstResult(s) \/ CheckStop(s)
    \/ Receive(s) \/ ReceiveLast(s) \/ Drop(s) \/ Complete(s) \/ Destroy(s)

-----------------------------------------------------------------------------
(* The manager                                                             *)

\* DELETE: evict_and_cancel, up to the end of its critical section.
Delete(c) ==
    /\ sessions[c] \in MayDelete
    /\ closing' = closing \cup {[s |-> sessions[c], cancel |-> TRUE]}
    /\ sessions' = [sessions EXCEPT ![c] = NoSession]
    /\ UNCHANGED <<session, stopped, producerVars, readerVars>>

\* The calls made on a session that has been taken out: cancel(), then finalize().
Close(x) ==
    /\ x \in closing
    /\ IF x.cancel
       THEN /\ session' = [session EXCEPT ![x.s] = Cancelled(@)]
            /\ closing' = (closing \ {x}) \cup {[x EXCEPT !.cancel = FALSE]}
       ELSE /\ session' = [session EXCEPT ![x.s] = Finalized(@)]
            /\ closing' = closing \ {x}
    /\ UNCHANGED <<sessions, stopped, producerVars, readerVars>>

CollectAny(c) ==                         \* mutant: sessions are dropped alive
    /\ ~stopped
    /\ sessions[c] # NoSession
    /\ closing' = closing \cup {[s |-> sessions[c], cancel |-> FALSE]}
    /\ sessions' = [sessions EXCEPT ![c] = NoSession]
    /\ UNCHANGED <<session, stopped, producerVars, readerVars>>

\* gc_loop drops a session that was finalized long enough ago.
Collect(c) ==
    /\ ~stopped
    /\ sessions[c] # NoSession /\ session[sessions[c]].done
    /\ closing' = closing \cup {[s |-> sessions[c], cancel |-> FALSE]}
    /\ sessions' = [sessions EXCEPT ![c] = NoSession]
    /\ UNCHANGED <<session, stopped, producerVars, readerVars>>

\* stop_gc, called when start_loop has returned: the map is emptied.
StopManager ==
    /\ MayStop /\ ~stopped
    /\ stopped' = TRUE
    /\ closing' = closing
         \cup {[s |-> sessions[c], cancel |-> FALSE] : c \in {d \in Conv : sessions[d] # NoSession}}
    /\ sessions' = [c \in Conv |-> NoSession]
    /\ UNCHANGED <<session, producerVars, readerVars>>

Manager ==
    \/ \E c \in Conv : Delete(c) \/ Collect(c)
    \/ \E x \in closing : Close(x)
    \/ StopManager

-----------------------------------------------------------------------------
(* A reader: the HTTP worker of GET /v1/stream/<conv_id>?from=N             *)

RGoTo(r, where) == rpc' = [rpc EXCEPT ![r] = where]

GetSession(r) ==
    /\ rpc[r] = "new"
    /\ reads' = [reads EXCEPT ![r] = sessions[ConvRead[r]]]
    /\ RGoTo(r, IF sessions[ConvRead[r]] = NoSession THEN "404" ELSE "found")
    /\ UNCHANGED <<session, sessions, closing, stopped, producerVars, from, offset, got>>

CheckOffset(r) ==
    /\ rpc[r] = "found"
    /\ RGoTo(r, IF from[r] < session[reads[r]].prefix_dropped THEN "400" ELSE "reading")
    /\ UNCHANGED <<session, sessions, closing, stopped, producerVars, reads, from, offset, got>>

\* read_from, one critical section: bytes are copied out and sent (the sink asks it to
\* return, and next() calls it again), or they are lost, or there will be none.
ReadFrom(r) ==
    /\ rpc[r] = "reading"
    /\ LET s == session[reads[r]]
       IN  \/ /\ offset[r] < s.prefix_dropped
              /\ RGoTo(r, "lost")
              /\ UNCHANGED <<offset, got>>
           \/ /\ s.prefix_dropped <= offset[r] /\ offset[r] < LogicalEnd(s)
              /\ got' = [got EXCEPT ![r] = @ \o BytesFrom(s, offset[r])]
              /\ offset' = [offset EXCEPT ![r] = @ + Len(BytesFrom(s, offset[r]))]
              /\ UNCHANGED rpc
           \/ /\ LogicalEnd(s) <= offset[r] /\ s.done
              /\ RGoTo(r, "eof")
              /\ UNCHANGED <<offset, got>>
    /\ UNCHANGED <<session, sessions, closing, stopped, producerVars, reads, from>>

\* should_stop: the client of the reader has left; there is no more to send, whatever
\* the session has.
StopReading(r) ==
    /\ rpc[r] = "reading" /\ r \in MayHangUp
    /\ RGoTo(r, "gone")
    /\ UNCHANGED <<session, sessions, closing, stopped, producerVars, reads, from, offset, got>>

ReaderStep(r) == GetSession(r) \/ CheckOffset(r) \/ ReadFrom(r) \/ StopReading(r)

\* Every request is over, every reader has gone.
AllOver ==
    /\ \A s \in Session : ppc[s] = "over"
    /\ \A r \in Reader : rpc[r] \in {"404", "400", "eof", "lost", "gone"}
    /\ closing = {}
    /\ UNCHANGED vars

Next ==
    \/ \E s \in Session : Producer(s)
    \/ Manager
    \/ \E r \in Reader : ReaderStep(r)
    \/ AllOver

\* Threads run, and the main loop produces first results as long as it runs; no request
\* need come, no client need leave, no DELETE, GC or shutdown need happen.
Fairness ==
    /\ \A s \in Session :
          /\ WF_vars(Replaced(s) \/ CheckStop(s) \/ Complete(s) \/ Destroy(s))
          /\ WF_vars(~stopped /\ FirstResult(s))
          /\ WF_vars(session[s].cancelled /\ Receive(s))
    /\ WF_vars(\E x \in closing : Close(x))
    /\ \A r \in Reader : WF_vars(GetSession(r) \/ CheckOffset(r) \/ ReadFrom(r))

\* A generation ends (n_predict, the size of the context) if the main loop runs.
GenerationEnds == \A s \in Session : WF_vars(~stopped /\ (Receive(s) \/ ReceiveLast(s)))

Spec == Init /\ [][Next]_vars
FairSpec == Spec /\ Fairness

-----------------------------------------------------------------------------
(* Properties                                                              *)

\* Whatever the sizes of the chunks, a session holds exactly the last bytes of the
\* stream, at the offsets its readers count with (append).
BuffersAreWindows == \A s \in Session : IsWindow(session[s])

\* What a reader has sent its client is the stream from the offset asked for, without
\* a gap or a repetition, although the buffer loses its front between two reads
\* (read_from, the GET handler's next).
ReadsAreContiguous ==
    \A r \in Reader :
        /\ offset[r] = from[r] + Len(got[r])
        /\ \A i \in 1 .. Len(got[r]) : got[r][i] = from[r] + i

\* A reader that sees the end of the stream has seen all of it: nothing is appended
\* behind its back once the session is done.
EndMeansAll == \A r \in Reader : rpc[r] = "eof" => offset[r] >= session[reads[r]].written

\* One conversation, one live session: a session that is not (or no longer) in the map
\* is finished, or a thread is about to finish it.
OrphansAreClosed ==
    \A s \in Session :
        ppc[s] # "new" /\ sessions[ConvOf[s]] # s =>
            session[s].done \/ \E x \in closing : x.s = s

\* While the server runs, nobody but the producer ends a session without telling the
\* producer first: a reader that leaves, or a late GC, cannot cut a generation off.
DoneMeansTold ==
    \A s \in Session :
        session[s].done /\ ~stopped => ppc[s] = "over" \/ session[s].cancelled

\* An offset below the dropped prefix is answered with 400: no reader that was let in
\* finds its first byte gone.
LostMeans400 == \A r \in Reader : rpc[r] = "lost" => offset[r] > from[r]

\* Until the shutdown every reader comes to the end of its stream, whoever ends it, if
\* generations do.
EveryReaderEnds ==
    GenerationEnds => \A r \in Reader : rpc[r] = "reading" ~> rpc[r] # "reading" \/ stopped

\* A cancelled producer unwinds, even though nothing but its own polling tells it; only
\* the wait for a first result ends with the main loop.
CancelEndsProducer ==
    \A s \in Session :
        session[s].cancelled /\ ppc[s] # "over" ~> ppc[s] = "over" \/ (stopped /\ ppc[s] = "first")

=============================================================================
