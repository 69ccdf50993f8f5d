--------------------------- MODULE MCRunnerServer ---------------------------
(* RunnerServer for TLC: the commands of runner/README.md.                 *)
EXTENDS RunnerServer

CONSTANTS a, b, c

MCRequest == [p \in Clients |->
                CASE p = a -> <<"RUN", "sum", "10", "20">>
                  [] p = b -> <<"RUN", "sum", "1", "two">>
                  [] p = c -> <<"RUN", "nope", "x">>]
=============================================================================
