--------------------------- MODULE MCStreamGuard ---------------------------
(* Small instances of StreamGuard: one policy that blocks and one that does not. *)
EXTENDS StreamGuard

CONSTANTS injection, pii

MCPolicies == <<pii, injection>>
MCBlocking == {injection}

Occur(p, first, last, verbatim, near) ==
    [policy |-> p, first |-> first, last |-> last, verbatim |-> verbatim, near |-> near]

\* Refused, taken by windows that show what is near only, across the boundary of two
\* scan windows, at the end of the retained text, in a variant only, in the last
\* characters.
MCOccurrences ==
    {Occur(pii, 1, 1, TRUE, 0), Occur(pii, 3, 3, TRUE, 2), Occur(pii, 4, 4, TRUE, 4),
     Occur(pii, 6, 6, FALSE, 6), Occur(injection, 3, 4, TRUE, 3), Occur(injection, 5, 5, FALSE, 5)}
=============================================================================
