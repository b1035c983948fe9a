---------------------------- MODULE MCRetryDelay ----------------------------
(* RetryDelay with 7-bit unsigned integers and eighths for percents.      *)
EXTENDS RetryDelay

MCPolicies ==
    {p \in [initial : {1, 2, 3, 5, 63, 127}, ceiling : {1, 2, 7, 40, 62, 63, 64, 126, 127},
            jitter : {0, 1, 2, 4}] : p.initial <= p.ceiling}

=============================================================================
