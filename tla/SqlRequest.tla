------------------------------ MODULE SqlRequest ------------------------------
(***************************************************************************)
(* A request of a client from its text to its condition: SqlText, and then *)
(* WhereCondition for the tokens of a WHERE clause.  DbmsQueryEngine::     *)
(* execute makes all the tokens before the parser reads the first, so the  *)
(* two never overlap; the text is not needed any more then, and what the   *)
(* tokens of the clause are is left open.                                  *)
(***************************************************************************)
EXTENDS WhereCondition

CONSTANT MaxLength   \* bound: characters of a script

ASSUME LengthAssumption == MaxLength \in Nat

VARIABLES
    text,
    parsing   \* whether tokenize has returned

Text == INSTANCE SqlText

requestVars == <<vars, text, parsing>>

RequestInit == Init /\ Text!Init /\ parsing = FALSE

Write == ~parsing /\ (\E c \in Text!Characters : Text!Type(c)) /\ UNCHANGED <<vars, parsing>>

Tokenize ==
    /\ ~parsing
    /\ \E i \in DOMAIN Text!Sent : ~Text!Fails(Text!TokensOf(Text!Sent[i]))
    /\ parsing' = TRUE
    /\ text' = <<>>
    /\ UNCHANGED vars

Parse == parsing /\ Next /\ UNCHANGED <<text, parsing>>

RequestNext == Write \/ Tokenize \/ Parse

RequestSpec == RequestInit /\ [][RequestNext]_requestVars

\* Text!ReadersAgree, of every script.
ReadersAgree == Text!ReadersAgree

=============================================================================
