-------------------------- MODULE MCRecurrentMemory --------------------------
(* Three sequences, whose cells may come in any order.                     *)
EXTENDS RecurrentMemory

One(s) == <<{s}>>
Two(s) == <<{s}, {s}>>
Three(s) == <<{s}, {s}, {s}>>

Base == [n_rs_seq |-> 0, n_ubatch |-> 4, sequential |-> TRUE, careful |-> TRUE, calls |-> 4,
         shapes |-> {One(0), One(1), One(2), Two(0) \o One(2), One(1) \o Two(2)},
         ops |-> {"decode", "seq_rm", "seq_cp", "seq_keep"}]
\* rejected drafts, and checkpoints of sequences that were rolled back
Drafts == [Base EXCEPT !.n_rs_seq = 1, !.n_ubatch = 6, !.calls = 5,
                       !.shapes = {One(0), One(1), One(2), Two(1) \o Two(2), Two(0) \o Three(1) \o Three(2)},
                       !.ops = {"decode", "rollback", "seq_rm", "save"}]
Copies == [Base EXCEPT !.n_rs_seq = 2, !.sequential = FALSE, !.shapes = {One(0), One(1) \o Three(2), Two(2)},
                       !.ops = {"decode", "rollback", "seq_cp", "seq_rm"}]
\* a hybrid memory with a unified cache: tokens of several sequences
Hybrid == [Base EXCEPT !.sequential = FALSE, !.shapes = {One(1), <<{0, 2}, {0, 2}>>, One(2) \o One(0)},
                       !.ops = {"decode", "seq_cp", "seq_add", "clear"}]
Fails == [Base EXCEPT !.n_rs_seq = 1, !.shapes = {One(0), Two(1), One(2) \o One(1)},
                      !.ops = {"decode", "fail", "save", "seq_rm"}]
\* a graph fails whose cells have an empty one among them
Holes == [Base EXCEPT !.sequential = FALSE, !.shapes = {One(1), One(0) \o One(2), One(0) \o One(1) \o One(2)},
                      !.ops = {"decode", "fail", "seq_rm"}]
MCSetups == {Base, Drafts, Copies, Hybrid, Fails, Holes}
HolesOnly == {Holes}
MCDelta == {1}
DraftsOnly == {Drafts}
Careless == {[Drafts EXCEPT !.careful = FALSE, !.ops = {"decode", "rollback"}]}

==============================================================================
