-------------------------- MODULE MCLangChainCalls --------------------------
(* Small instance of LangChainCalls: two policies, every configuration of them. *)
EXTENDS LangChainCalls

CONSTANTS injection, pii

MCPolicies == <<pii, injection>>
MCActions == [{pii, injection} -> {"block", "log"}]
MCMatches == {[policy |-> injection, blocked |-> TRUE], [policy |-> pii, blocked |-> FALSE]}
=============================================================================
