---------------------------- MODULE MCOrderServer ----------------------------
(* Values for the constants of OrderServer.                                    *)
EXTENDS OrderServer, TLC

\* Clients are interchangeable, and so are connections.
Interchangeable == Permutations(Clients) \cup Permutations(Sockets)

\* What different times do is over when requests reach the engine, where answers
\* begin: a behaviour has the one or the other.
TimesOrAnswers == clock = 0 \/ answers = [c \in Clients |-> 0]
===============================================================================
