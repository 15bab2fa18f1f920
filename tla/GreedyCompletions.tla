-------------------------- MODULE GreedyCompletions --------------------------
(***************************************************************************)
(* What the slots of the server promise to the clients, whatever is cached,*)
(* batched, drafted or retried: the tokens of an answer are those that the *)
(* network gives for the prompt and the answer so far, one after the other,*)
(* and an answer that is complete ends where it had to.                    *)
(***************************************************************************)
EXTENDS Naturals, Sequences, SequencesExt

CONSTANTS Eos, Continue(_, _)

VARIABLES
    tasks,      \* sequence of [tokens, lora, predict, ...]: the requests
    output,     \* [task -> the tokens sent]
    ended,      \* [task -> "" or how it ended]
    full        \* tasks whose context has been full: cut, or shifted

greedyVars == <<tasks, output, ended, full>>

GreedyInit ==
    /\ output = [t \in DOMAIN tasks |-> <<>>]
    /\ ended = [t \in DOMAIN tasks |-> ""]
    /\ full = {}

\* The tokens from the i-th on are the network's own.
FollowsFrom(t, i, tokens) ==
    \A j \in i .. Len(tokens) :
        tokens[j] = Continue(tasks[t].tokens \o SubSeq(tokens, 1, j - 1), tasks[t].lora)

\* Once the context of a task was shifted, the network no longer sees all of it.
Send(t) ==
    /\ ended[t] = "" /\ output'[t] # output[t]
    /\ IsPrefix(output[t], output'[t])
    /\ t \in full \/ FollowsFrom(t, Len(output[t]) + 1, output'[t])

\* A complete answer has its last token at the end of the text, at the limit, or where
\* the context ends; no token follows the end of the text.
End(t) ==
    /\ ended[t] = "" /\ ended'[t] # ""
    /\ ended'[t] = "done" =>
          \/ Len(output'[t]) = tasks[t].predict
          \/ output'[t] # <<>> /\ Last(output'[t]) = Eos
          \/ t \in full'

GreedyNext ==
    /\ UNCHANGED tasks /\ full \subseteq full'
    /\ \A t \in DOMAIN tasks :
          /\ output'[t] = output[t] \/ Send(t)
          /\ ended'[t] = ended[t] \/ End(t)
          /\ Len(output'[t]) <= tasks[t].predict
          /\ \A i \in 1 .. Len(output'[t]) - 1 : output'[t][i] # Eos

GreedySpec == GreedyInit /\ [][GreedyNext]_greedyVars

=============================================================================
