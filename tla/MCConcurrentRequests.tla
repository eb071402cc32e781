------------------------ MODULE MCConcurrentRequests -------------------------
EXTENDS ConcurrentRequests

MCDelays == {1}

\* Only the first request is retried: its retries meet the others' first attempts.
MCRetries == [r \in 1 .. RequestCount |-> IF r = 1 THEN 2 ELSE 0]
\* The second request may end while those before and after it go on.
MCTimeout == [r \in 1 .. RequestCount |-> IF r = 2 THEN 1 ELSE 2]
=============================================================================
