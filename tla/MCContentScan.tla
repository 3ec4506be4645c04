--------------------------- MODULE MCContentScan ----------------------------
(* Small instance of ContentScan: every text of at most MaxLen characters over an     *)
(* alphabet with the characters of two words that may overlap, a keyword and a        *)
(* character that looks like one of the words' own.                                   *)
EXTENDS ContentScan

CONSTANT MaxLen

Alphabet == {"u", "v", "w", "V", "k"}
MCTexts == UNION {[1 .. n -> Alphabet] : n \in 0 .. MaxLen}
MCChangedTexts == {<<"k", "u", "v", "w", "v", "w">>, <<"V", "w">>}
MCPolicies == <<"pii", "injection">>
MCWord == [pii |-> <<"u", "v">>, injection |-> <<"v", "w">>]
MCFold == [V |-> "v"]
=============================================================================
