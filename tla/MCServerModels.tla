---------------------------- MODULE MCServerModels ----------------------------
(* Instances of ServerModels for TLC: two handlers, two models, room for one.  *)
EXTENDS ServerModels

CONSTANTS A, B, D, c1, c2

R(n) == [op |-> "request", name |-> n]
Ld(n) == [op |-> "load", name |-> n]
Un(n) == [op |-> "unload", name |-> n]
Rm(n) == [op |-> "remove", name |-> n]
Dl(n) == [op |-> "download", name |-> n]
Ed(n) == [op |-> "edit", name |-> n]
Rl == [op |-> "reload"]
Two(p, q) == [c \in Client |-> IF c = c1 THEN p ELSE q]

\* What meets what: eviction against unload and
\* reload of the victim, reloads against reloads and loads, a download against itself,
\* its use, its deletion and a reload, sleep against unload, the last model
\* against a reload that finds none.
Workloads ==
    {Two(<<R(A), R(B)>>, <<Un(A), R(A)>>),
     Two(<<R(A), Rl>>, <<Ed(A), Rl, R(A)>>),
     Two(<<Dl(D), R(D)>>, <<Dl(D), Rm(D)>>),
     Two(<<Dl(D), Rl>>, <<R(A), Un(D)>>),
     Two(<<Ld(A), Un(A)>>, <<R(A)>>),
     Two(<<Ed(A), Ed(A), Ed(B), Ed(B), Rl, Rl, Ed(B), Rl>>, <<R(B)>>)}
DeleteADownload == {Two(<<Dl(D)>>, <<Rm(D)>>)}
Sources == [n \in Name |-> IF n = D THEN 0 ELSE 1]

=============================================================================
