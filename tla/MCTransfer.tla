----------------------------- MODULE MCTransfer -----------------------------
EXTENDS Transfer

CONSTANTS x, y

Scenario(nx, ny, r, c, l) ==
    [size |-> (x :> nx) @@ (y :> ny), retryLimit |-> r, commands |-> c, losses |-> l]

\* A file of two chunks and a command; small files with retries, with a lost
\* link, and behind one another in the queue.
MCScenarios == {Scenario(2, 0, 1, 1, 0), Scenario(1, 0, 2, 0, 0),
                Scenario(1, 0, 1, 0, 1), Scenario(1, 1, 1, 0, 0)}
=============================================================================
