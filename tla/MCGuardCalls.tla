---------------------------- MODULE MCGuardCalls ----------------------------
(* Small instance of GuardCalls: two policies, every configuration of them. *)
EXTENDS GuardCalls

CONSTANTS injection, pii

MCPolicies == <<pii, injection>>
MCActions == [{pii, injection} -> {"block", "redact", "warn"}]

Found(p, blocked, verbatim) == [policy |-> p, blocked |-> blocked, verbatim |-> verbatim]

\* A match that blocks whatever the configuration, one that can be replaced, one that
\* is found in a normalised variant only.
MCMatches == {Found(injection, TRUE, TRUE), Found(pii, FALSE, TRUE), Found(pii, FALSE, FALSE)}
=============================================================================
