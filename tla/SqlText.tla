------------------------------- MODULE SqlText -------------------------------
(***************************************************************************)
(* The text of a script on its way to the parser.  Three readers look at   *)
(* it, each with rules of its own: the client cuts it into requests        *)
(* (client/main_client.cpp), the server decides from the first letters of  *)
(* a request whether it waits in the queue (executor/src/                  *)
(* query_classifier.cpp), and the lexer makes tokens of it                 *)
(* (server/parser/src/lexer.cpp).                                          *)
(*                                                                         *)
(* Abstracted: a character is its class; the letters of one of the words   *)
(* CREATE, DROP, INSERT, UPDATE and DELETE are one character.  What the    *)
(* escapes of a string become, and operators of two characters, are left   *)
(* out.                                                                    *)
(***************************************************************************)
EXTENDS Naturals, Sequences, FiniteSets, SequencesExt

CONSTANT MaxLength   \* bound: characters of a script

VARIABLE text   \* the script, as far as it is written

Letters == {"write", "letter"}

Quotes == {"quote", "apostrophe"}

\* Characters that readOperator has no case for.
Unknown == {"backslash", "unknown"}

Characters ==
    Letters \cup Quotes \cup Unknown \cup {"underscore", "digit", "space", "semicolon", "operator"}

\* The end of the run of characters of C that starts at i.
EndOfRun(s, i, C) ==
    CHOOSE j \in i..(Len(s) + 1) :
        /\ \A n \in i..(j - 1) : s[n] \in C
        /\ j = Len(s) + 1 \/ s[j] \notin C

-----------------------------------------------------------------------------
(* The lexer.                                                               *)

Token(type, s, i, j) == [type |-> type, chars |-> SubSeq(s, i, j)]

Semicolon == [type |-> "semicolon", chars |-> <<"semicolon">>]

\* In place of the ParseError for a string without an end.
Unclosed == [type |-> "unclosed", chars |-> <<>>]

\* readString, after the opening quote: where the closing one is.
RECURSIVE EndOfString(_, _, _)
EndOfString(s, i, quote) ==
    IF i > Len(s) \/ s[i] = quote THEN i
    ELSE EndOfString(s, IF s[i] = "backslash" THEN i + 2 ELSE i + 1, quote)

\* readOperator: no token for a character it has no case for.
Operator(s, i) ==
    IF s[i] = "semicolon" THEN <<Semicolon>>
    ELSE IF s[i] = "operator" THEN <<Token("operator", s, i, i)>> ELSE <<>>

\* tokenize, from character i on.  An unknown character takes the next one
\* with it: readOperator has passed it when tokenize skips a character.
RECURSIVE Tokens(_, _)
Tokens(s, i) ==
    IF i > Len(s) THEN <<>>
    ELSE LET c == s[i]
             run(type, C) == LET j == EndOfRun(s, i, C)
                             IN <<Token(type, s, i, j - 1)>> \o Tokens(s, j)
             close == EndOfString(s, i + 1, c)
         IN CASE c \in Letters \cup {"underscore"} ->
                     run("word", Letters \cup {"underscore", "digit"})
              [] c = "digit" -> run("number", {"digit"})
              [] c \in Quotes ->
                     IF close > Len(s) THEN <<Unclosed>>
                     ELSE <<Token("string", s, i, close)>> \o Tokens(s, close + 1)
              [] c = "space" -> Tokens(s, i + 1)
              [] OTHER -> Operator(s, i) \o Tokens(s, IF Operator(s, i) = <<>> THEN i + 2 ELSE i + 1)

Fails(tokens) == tokens # <<>> /\ Last(tokens) = Unclosed

-----------------------------------------------------------------------------
(* The client.                                                              *)

\* trimQuery.
RECURSIVE Trimmed(_)
Trimmed(s) == IF s # <<>> /\ Last(s) = "space" THEN Trimmed(Front(s)) ELSE s

\* A mistake for Pieces: what follows the last semicolon is not read.
RECURSIVE PiecesEnded(_)
PiecesEnded(s) ==
    LET ends == {i \in DOMAIN s : s[i] = "semicolon"}
        e == CHOOSE i \in ends : \A j \in ends : i <= j
    IN IF ends = {} THEN <<>> ELSE <<SubSeq(s, 1, e)>> \o PiecesEnded(SubSeq(s, e + 1, Len(s)))

\* readQuery, again and again: up to a semicolon, or to the end.
RECURSIVE Pieces(_)
Pieces(s) ==
    LET ends == {i \in DOMAIN s : s[i] = "semicolon" \/ i = Len(s)}
        e == CHOOSE i \in ends : \A j \in ends : i <= j
    IN IF s = <<>> THEN <<>> ELSE <<Trimmed(SubSeq(s, 1, e))>> \o Pieces(SubSeq(s, e + 1, Len(s)))

\* isIgnorableQuery, and a piece that is empty.
Ignorable(piece) == \A i \in DOMAIN piece : piece[i] \in {"space", "semicolon"}

\* The requests a script becomes.
Sent == SelectSeq(Pieces(text), LAMBDA piece : ~Ignorable(piece))

-----------------------------------------------------------------------------
(* The server.                                                              *)

\* with_semicolon_if_missing.
WithSemicolon(query) ==
    IF Trimmed(query) # <<>> /\ Last(Trimmed(query)) = "semicolon" THEN query
    ELSE Append(query, "semicolon")

TokensOf(request) == Tokens(WithSemicolon(request), 1)

\* trim, at the front.
FirstCharacter(query) == EndOfRun(query, 1, {"space"})

\* classifyExecutionMode: the letters in front decide.
Classify(query) ==
    LET i == FirstCharacter(query)
    IN IF SubSeq(query, i, EndOfRun(query, i, Letters) - 1) = <<"write">> THEN "Async" ELSE "Sync"

-----------------------------------------------------------------------------
Init == text = <<>>

Type(c) == Len(text) < MaxLength /\ text' = Append(text, c)

-----------------------------------------------------------------------------
(* What the readers agree on.                                               *)

NoSemicolon(tokens) == SelectSeq(tokens, LAMBDA t : t # Semicolon)

RECURSIVE Statements(_)
Statements(tokens) ==
    LET ends == {i \in DOMAIN tokens : tokens[i] = Semicolon \/ i = Len(tokens)}
        e == CHOOSE i \in ends : \A j \in ends : i <= j
    IN IF tokens = <<>> THEN <<>>
       ELSE SelectSeq(<<NoSemicolon(SubSeq(tokens, 1, e))>>, LAMBDA s : s # <<>>)
                \o Statements(SubSeq(tokens, e + 1, Len(tokens)))

\* Every semicolon of the script is a token: none is in a string, and none
\* follows an unknown character.
SemicolonsAreTokens(tokens) ==
    Len(SelectSeq(text, LAMBDA c : c = "semicolon")) = Len(SelectSeq(tokens, LAMBDA t : t = Semicolon))

\* The statements of the script are those of the requests, in order.
StatementsArrive ==
    LET tokens == Tokens(text, 1)
        arrived == [i \in DOMAIN Sent |-> NoSemicolon(TokensOf(Sent[i]))]
    IN ~Fails(tokens) /\ SemicolonsAreTokens(tokens) =>
           SelectSeq(arrived, LAMBDA s : s # <<>>) = Statements(tokens)

StartsUnknown(request) == request[FirstCharacter(request)] \in Unknown

Writes(tokens) == tokens # <<>> /\ tokens[1] = [type |-> "word", chars |-> <<"write">>]

\* A statement the parser takes for a write is in the queue of the writes.
WritesAreQueued ==
    \A request \in ToSet(Sent) :
        Writes(TokensOf(request)) => Classify(request) = "Async" \/ StartsUnknown(request)

\* Client, classifier and lexer take a script apart alike: though the client
\* knows no strings and the classifier no tokens, each statement arrives in a
\* request of its own, whole, and one that writes is executed asynchronously.
\* They differ where a semicolon stands in a string or after an unknown
\* character, and where a request starts with an unknown character.
ReadersAgree == StatementsArrive /\ WritesAreQueued

=============================================================================
