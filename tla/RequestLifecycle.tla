--------------------------- MODULE RequestLifecycle ---------------------------
(***************************************************************************)
(* What the server promises the client of a request, whatever happens to   *)
(* queues and slots behind it (server_response_reader, tools/server/       *)
(* server-queue.h): every task of the request is answered at most once;    *)
(* streamed chunks come before the answer; the first error ends the        *)
(* request; after the request is closed nothing more is delivered for it.  *)
(***************************************************************************)
EXTENDS Naturals, Sequences, SequencesExt

CONSTANTS
    Request,    \* the requests
    Task,       \* the tasks
    Ids(_)      \* the tasks of a request

VARIABLES
    phase,      \* [Request -> "new" | "open" | "closed"]
    delivered   \* [Task -> sequence of "partial" | "final" | "error"]

lifeVars == <<phase, delivered>>

Answered(t) == \E i \in DOMAIN delivered[t] : delivered[t][i] # "partial"

LifeInit ==
    /\ phase = [r \in Request |-> "new"]
    /\ delivered = [t \in Task |-> <<>>]

Submit(r) ==
    /\ phase[r] = "new"
    /\ phase' = [phase EXCEPT ![r] = "open"]
    /\ UNCHANGED delivered

\* One result: a chunk leaves the request open, an error closes it, an answer
\* closes it if it was the last one missing.
Deliver(r, t, kind) ==
    /\ phase[r] = "open"
    /\ ~Answered(t)
    /\ delivered' = [delivered EXCEPT ![t] = Append(@, kind)]
    /\ phase' = [phase EXCEPT ![r] =
                    IF \/ kind = "error"
                       \/ kind = "final" /\ \A u \in Ids(r) \ {t} : Answered(u)
                    THEN "closed" ELSE "open"]

\* The client leaves before it has all its answers.
Leave(r) ==
    /\ phase[r] = "open"
    /\ phase' = [phase EXCEPT ![r] = "closed"]
    /\ UNCHANGED delivered

LifeNext ==
    \E r \in Request :
        \/ Submit(r)
        \/ \E t \in Ids(r), k \in {"partial", "final", "error"} : Deliver(r, t, k)
        \/ Leave(r)

LifeSpec == LifeInit /\ [][LifeNext]_lifeVars

=============================================================================
