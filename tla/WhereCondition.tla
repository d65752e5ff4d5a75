---------------------------- MODULE WhereCondition ----------------------------
(***************************************************************************)
(* The WHERE clause: what server/parser/src/parser.cpp builds from AND, OR *)
(* and parentheses (parseOrCondition, parseAndCondition,                   *)
(* parsePrimaryCondition, combineConditions), and how evaluate_condition   *)
(* of executor/src/query_engine.cpp reads it for a row.                    *)
(*                                                                         *)
(* A step is one token of a legal clause.  The recursion of the parser is  *)
(* a stack of frames, one for each parenthesis that is open; with every    *)
(* condition a frame also keeps what SQL says it means.                    *)
(*                                                                         *)
(* Abstracted: a simple condition (a comparison, BETWEEN, LIKE) is an      *)
(* atom, and a row is the set of the atoms that are true of it.            *)
(***************************************************************************)
EXTENDS Naturals, Sequences

CONSTANTS
    MaxAtoms,    \* bound: simple conditions in a clause
    MaxDepth     \* bound: parentheses open at a time

ASSUME BoundsAssumption == MaxAtoms \in Nat /\ MaxDepth \in Nat

VARIABLES
    stack,    \* the frames, innermost last
    expect,   \* what the next token may be: "operand", "operator", "nothing"
    atoms     \* the simple conditions read so far

vars == <<stack, expect, atoms>>

\* Each atom is used once, so that no two operands are equal by chance.
Rows == SUBSET (1..MaxAtoms)

None == <<>>

(* A Condition: leftTree and next are sequences of at most one condition.   *)
Simple(a) == [atom |-> a, leftTree |-> None, op |-> "NONE", next |-> None, paren |-> FALSE]

\* right at the end of c's links, whatever conditions they lead through.
RECURSIVE Chained(_, _, _)
Chained(c, op, right) ==
    IF c.next = None
    THEN [c EXCEPT !.op = op, !.next = <<right>>]
    ELSE [c EXCEPT !.next = <<Chained(c.next[1], op, right)>>]

\* A mistake for IsSimple: the link is not looked at.
IsSimpleLinked(c) == c.leftTree = None /\ ~c.paren

IsSimple(c) == c.next = None /\ c.leftTree = None /\ ~c.paren

GoesOn(c, op) == ~c.paren /\ c.leftTree = None /\ c.next # None /\ c.op = op

\* A mistake for Combined: the connective of the chain is not compared.
CombinedWithAny(left, op, right) ==
    IF IsSimple(left) THEN [left EXCEPT !.op = op, !.next = <<right>>]
    ELSE IF GoesOn(left, left.op) THEN Chained(left, op, right)
    ELSE [Simple("tree") EXCEPT !.leftTree = <<left>>, !.op = op, !.next = <<right>>]

\* combineConditions.
Combined(left, op, right) ==
    IF IsSimple(left) THEN [left EXCEPT !.op = op, !.next = <<right>>]
    ELSE IF GoesOn(left, op) THEN Chained(left, op, right)
    ELSE [Simple("tree") EXCEPT !.leftTree = <<left>>, !.op = op, !.next = <<right>>]

\* evaluate_condition.
RECURSIVE Evaluate(_, _)
Evaluate(c, row) ==
    LET left == IF c.leftTree # None THEN Evaluate(c.leftTree[1], row) ELSE c.atom \in row
        right == c.next # None /\ Evaluate(c.next[1], row)
    IN CASE c.leftTree # None -> IF c.op = "AND" THEN left /\ right ELSE left \/ right
         [] c.leftTree = None /\ c.next = None -> left
         [] OTHER -> IF c.op = "AND" THEN left /\ right ELSE left \/ right

-----------------------------------------------------------------------------
(* A condition with its meaning: the rows the clause describes as written,  *)
(* and whether combineConditions has ever gone on along the links of an     *)
(* operand that holds the other connective.                                 *)

RECURSIVE Links(_)
Links(c) == IF c.next = None THEN {} ELSE {c.op} \cup Links(c.next[1])

Operand(c, rows, crossed) == [cond |-> c, rows |-> rows, crossed |-> crossed]

Join(left, op, right) ==
    Operand(Combined(left.cond, op, right.cond),
            IF op = "AND" THEN left.rows \cap right.rows ELSE left.rows \cup right.rows,
            \/ left.crossed \/ right.crossed
            \/ GoesOn(left.cond, op) /\ Links(left.cond) # {op})

\* The loop of parseOrCondition has read or, that of parseAndCondition and.
NewFrame == [or |-> None, and |-> None]

Frame == stack[Len(stack)]

WithFrame(s, f) == [s EXCEPT ![Len(s)] = f]

\* The primary condition o, in the innermost frame of s.
Primary(s, o) ==
    LET f == s[Len(s)] IN
    WithFrame(s, [f EXCEPT !.and = IF @ = None THEN <<o>> ELSE <<Join(@[1], "AND", o)>>])

\* parseOrCondition, when parseAndCondition has returned.
OrOf(f) == IF f.or = None THEN f.and[1] ELSE Join(f.or[1], "OR", f.and[1])

Init == stack = <<NewFrame>> /\ expect = "operand" /\ atoms = 0

Atom ==
    LET a == atoms + 1 IN
    /\ expect = "operand" /\ atoms < MaxAtoms
    /\ stack' = Primary(stack, Operand(Simple(a), {r \in Rows : a \in r}, FALSE))
    /\ atoms' = a
    /\ expect' = "operator"

Open ==
    /\ expect = "operand" /\ Len(stack) <= MaxDepth /\ atoms < MaxAtoms
    /\ stack' = Append(stack, NewFrame)
    /\ UNCHANGED <<expect, atoms>>

And ==
    /\ expect = "operator" /\ atoms < MaxAtoms
    /\ expect' = "operand"
    /\ UNCHANGED <<stack, atoms>>

Or ==
    /\ expect = "operator" /\ atoms < MaxAtoms
    /\ stack' = WithFrame(stack, [or |-> <<OrOf(Frame)>>, and |-> None])
    /\ expect' = "operand"
    /\ UNCHANGED atoms

Close ==
    /\ expect = "operator" /\ Len(stack) > 1
    /\ LET o == OrOf(Frame) IN
       stack' = Primary(SubSeq(stack, 1, Len(stack) - 1), [o EXCEPT !.cond.paren = TRUE])
    /\ UNCHANGED <<expect, atoms>>

\* The token after the clause.
End ==
    /\ expect = "operator" /\ Len(stack) = 1
    /\ stack' = <<[or |-> <<OrOf(Frame)>>, and |-> None]>>
    /\ expect' = "nothing"
    /\ UNCHANGED atoms

Next == Atom \/ Open \/ And \/ Or \/ Close \/ End

Spec == Init /\ [][Next]_vars

-----------------------------------------------------------------------------
Clause == stack[1].or[1]

Selected(c) == {r \in Rows : Evaluate(c, r)}

\* parser.h:170, 173: AND binds before OR and parentheses before both, so a
\* row is selected exactly when the clause as written holds of it.
ReadAsWritten == expect = "nothing" => Selected(Clause.cond) = Clause.rows

\* That much is true: combineConditions reads a clause right as long as it
\* never continues a chain of one connective along the links of an operand
\* that holds the other one (a OR b AND c OR d, a AND (b OR c) AND d).
WrongOnlyWhenCrossed == expect = "nothing" /\ ~Clause.crossed => Selected(Clause.cond) = Clause.rows

\* The simple conditions of a tree, from left to right.
RECURSIVE Leaves(_)
Leaves(c) ==
    (IF c.leftTree # None THEN Leaves(c.leftTree[1]) ELSE <<c.atom>>)
        \o (IF c.next # None THEN Leaves(c.next[1]) ELSE <<>>)

\* Wrong or right, combineConditions moves conditions from tree to tree and
\* loses, repeats and reorders none.
NoConditionLost == expect = "nothing" => Leaves(Clause.cond) = [i \in 1..atoms |-> i]

=============================================================================
