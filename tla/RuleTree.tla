------------------------------ MODULE RuleTree ------------------------------
(***************************************************************************)
(* The rules: how _eval_node (node.c) walks the tree that parse.y builds,  *)
(* for one line after the other, and which regex match the %{1-9} of a     *)
(* template refer to on the way.                                           *)
(*                                                                         *)
(* A rule is given as its statements in the order of the text, each with   *)
(* its depth of nesting.  Statement s is node s of the tree; the block it  *)
(* opens, a node of type NODE_PASSTHROUGH, is node -s, and node 0 is the   *)
(* block of the rule itself.                                               *)
(***************************************************************************)
EXTENDS Integers, Sequences

CONSTANTS Rules,   \* the rules that may be configured
          None     \* no node

Kinds == {"MATCH", "MATCHALL", "MELSE", "WRITE", "BREAK"}
Compound == {"MATCH", "MATCHALL", "MELSE"}
Results == {"TRUE", "FALSE", "BREAK", "ERROR"}

\* A statement: "WRITE" is a write or an assignment; captures says whether its
\* templates refer to a capture group.
Statements == [kind : Kinds, depth : Nat, captures : BOOLEAN]

\* Blocks belong to match, matchall and else.
IsRule(r) == /\ r \in Seq(Statements)
             /\ \A s \in DOMAIN r :
                   IF s = 1 THEN r[s].depth = 0
                   ELSE r[s].depth <= r[s-1].depth
                                         + (IF r[s-1].kind \in Compound THEN 1 ELSE 0)

ASSUME RulesAssumption == (\A r \in Rules : IsRule(r)) /\ None \notin Int

VARIABLES
    rule,         \* the configured rule
    stack,        \* the calls of _eval_node that are under way, innermost last
    ret,          \* what the last call that ended returned
    re_match,     \* ctx->re_match: the match node whose captures are in use
    prev_match,   \* prev_match[s]: context.match.prev_match of statement s
    held,         \* the match nodes whose cur_match holds captures
    crashed,      \* a null re_match was followed, or a string literal freed
    result        \* result[n]: what node n came to for this line, "-" if it was
                  \* not evaluated (history)

treeVars == <<rule, stack, ret, re_match, prev_match, held, crashed, result>>

Node == -Len(rule) .. Len(rule)
Kind(n) == IF n > 0 THEN rule[n].kind ELSE "PASSTHROUGH"

\* A call of _eval_node: its node, prev_res, topr, and where it stands.
Frame(n, prev) == [node |-> n, prev |-> prev, topr |-> "TRUE", at |-> "eval"]

TreeInit == /\ rule \in Rules
            /\ stack = <<Frame(0, "TRUE")>>
            /\ ret = "TRUE"
            /\ re_match = None
            /\ prev_match = [s \in 1 .. Len(rule) |-> None]
            /\ held = {}
            /\ crashed = FALSE
            /\ result = [n \in Node |-> "-"]

-----------------------------------------------------------------------------
(* The tree of parse.y.                                                     *)

DepthIn(n) == IF n = 0 THEN 0 ELSE rule[-n].depth + 1

\* n->child: the block of a statement, the first statement of a block.
Child(n) == IF n > 0 THEN (IF rule[n].kind \in Compound THEN -n ELSE None)
            ELSE IF 1 - n \in DOMAIN rule /\ rule[1 - n].depth = DepthIn(n) THEN 1 - n
            ELSE None

IsSibling(n, m) == /\ n > 0 /\ m \in n + 1 .. Len(rule)
                   /\ rule[m].depth = rule[n].depth
                   /\ \A k \in n + 1 .. m - 1 : rule[k].depth > rule[n].depth

\* n->sibling: the next statement of the same block.
Sibling(n) == IF \E m \in DOMAIN rule : IsSibling(n, m)
              THEN CHOOSE m \in DOMAIN rule : IsSibling(n, m)
              ELSE None

-----------------------------------------------------------------------------
(* _eval_node                                                               *)

Top == stack[Len(stack)]
Running(at) == stack # <<>> /\ Top.at = at /\ ~crashed

GoTo(at) == [stack EXCEPT ![Len(stack)].at = at]
Call(s, n, prev) == IF n = None THEN s ELSE Append(s, Frame(n, prev))

\* Bug: a break is not looked at.
StopsOnError(r) == r = "ERROR"

\* No handler lives to return EVAL_ERROR, as PatternFails shows: templates always
\* resolve, since the parser accepts none with an invalid part.
Stops(r) == r \in {"BREAK", "ERROR"}

\* What the handlers may return.  Whether a pattern matches, and whether the line
\* comes from the source that is asked for, is left open.
Outcomes(f) == CASE Kind(f.node) = "MATCH"    -> {"TRUE", "FALSE"}
                 [] Kind(f.node) = "MATCHALL" -> {"TRUE", "FALSE"}
                 [] Kind(f.node) = "MELSE"    -> {IF f.prev = "FALSE" THEN "TRUE" ELSE "FALSE"}
                 [] Kind(f.node) = "BREAK"    -> {"BREAK"}
                 [] OTHER                     -> {"TRUE"}

\* strpartial_resolve follows re_match for a capture group.
Crashes(n) == n > 0 /\ rule[n].captures /\ re_match = None

\* The handler of the node, and the call for its child if it returns EVAL_TRUE.
EvalNode ==
    /\ Running("eval") /\ ~Crashes(Top.node)
    /\ \E r \in Outcomes(Top) :
          LET n == Top.node
              down == r = "TRUE" /\ Child(n) # None
              s == [GoTo(CASE Stops(r) -> "end" [] down -> "child" [] OTHER -> "sibling")
                       EXCEPT ![Len(stack)].topr = r]
          IN /\ stack' = IF down THEN Call(s, Child(n), r) ELSE s
             /\ result' = [result EXCEPT ![n] = r]
             /\ IF Kind(n) = "MATCH"
                THEN /\ prev_match' = [prev_match EXCEPT ![n] = re_match]
                     /\ re_match' = IF r = "TRUE" THEN n ELSE re_match
                     /\ held' = IF r = "TRUE" THEN held \cup {n} ELSE held \ {n}
                ELSE UNCHANGED <<prev_match, re_match, held>>
    /\ UNCHANGED <<rule, ret, crashed>>

FollowsNull == /\ Running("eval") /\ Crashes(Top.node)
               /\ crashed' = TRUE
               /\ UNCHANGED <<rule, stack, ret, re_match, prev_match, held, result>>

\* str_match reports an error of the pattern by a string literal, and _eval_node_match
\* passes that to free.
PatternFails == /\ Running("eval") /\ ~Crashes(Top.node) /\ Kind(Top.node) = "MATCH"
                /\ crashed' = TRUE
                /\ UNCHANGED <<rule, stack, ret, re_match, prev_match, held, result>>

\* Bug: a block that ends leaves no captures to the statements behind it.
DropsMatch(n) == IF Kind(n) \in {"MATCH", "MATCHALL"} THEN None ELSE re_match

\* _match_outofscope: ctx->re_match = n->context.match.prev_match, which is never
\* set in the memory of a matchall node.
OutOfScope(n) == IF Kind(n) \in {"MATCH", "MATCHALL"} THEN prev_match[n] ELSE re_match

\* The call for the child is over: node_cleanup.
ChildDone == /\ Running("child")
             /\ re_match' = OutOfScope(Top.node)
             /\ held' = held \ {Top.node}
             /\ stack' = GoTo(IF Stops(ret) THEN "end" ELSE "sibling")
             /\ UNCHANGED <<rule, ret, prev_match, crashed, result>>

EvalSibling == /\ Running("sibling")
               /\ stack' = Call(GoTo("end"), Sibling(Top.node), Top.topr)
               /\ UNCHANGED <<rule, ret, re_match, prev_match, held, crashed, result>>

\* block_cleanup, and return topr.
Return == /\ Running("end")
          /\ held' = held \ {Top.node}
          /\ ret' = Top.topr
          /\ stack' = SubSeq(stack, 1, Len(stack) - 1)
          /\ UNCHANGED <<rule, re_match, prev_match, crashed, result>>

\* node_eval_root for the next line.
NextLine == /\ stack = <<>>
            /\ stack' = <<Frame(0, "TRUE")>>
            /\ re_match' = None
            /\ result' = [n \in Node |-> "-"]
            /\ UNCHANGED <<rule, ret, prev_match, held, crashed>>

TreeNext == \/ EvalNode \/ FollowsNull \/ PatternFails
            \/ ChildDone \/ EvalSibling \/ Return \/ NextLine

TreeSpec == TreeInit /\ [][TreeNext]_treeVars

-----------------------------------------------------------------------------
\* Calls are made for nodes of the tree, and captures are those of match nodes.
TreeTypeOK == /\ IsRule(rule)
              /\ \A k \in DOMAIN stack :
                    /\ stack[k].node \in Node
                    /\ {stack[k].prev, stack[k].topr} \subseteq Results
                    /\ stack[k].at \in {"eval", "child", "sibling", "end"}
              /\ ret \in Results
              /\ re_match \in DOMAIN rule \cup {None}
              /\ prev_match \in [DOMAIN rule -> DOMAIN rule \cup {None}]
              /\ held \subseteq DOMAIN rule
              /\ crashed \in BOOLEAN
              /\ result \in [Node -> Results \cup {"-"}]

Evaluated(n) == result[n] # "-"

\* Node p is evaluated right before n can be: n is its first child, or follows it.
Leads(p, n) == \/ Child(p) = n /\ result[p] = "TRUE"
               \/ Sibling(p) = n /\ result[p] \in {"TRUE", "FALSE"}

\* When a line is done, exactly these nodes were evaluated: the rule, the blocks of
\* statements that succeeded, and in a block all statements up to the first break.
\* A break leaves its own block and no other, as the comment in _eval_node has it;
\* README.md has it otherwise (BreakLeavesRule).
EvaluatedExactly ==
    stack = <<>> => \A n \in Node : Evaluated(n) <=> n = 0 \/ \E p \in Node : Leads(p, n)

\* Statement n is inside the block of statement s.
Inside(n, s) == /\ s < n
                /\ \A k \in s + 1 .. n : rule[k].depth > rule[s].depth

\* The innermost match around statement n.
Enclosing(n) == LET ms == {s \in 1 .. n - 1 : Kind(s) = "MATCH" /\ Inside(n, s)} IN
                IF ms = {} THEN None ELSE CHOOSE s \in ms : \A t \in ms : t <= s

\* A matchall block has ended before n, inside the match that encloses n.
Voided(n) == \E m \in 1 .. n - 1 :
                /\ Kind(m) = "MATCHALL" /\ result[m] = "TRUE" /\ ~Inside(n, m)
                /\ Enclosing(m) = Enclosing(n)

\* A template refers to the captures of the innermost match around it, whatever
\* was evaluated before, except where a matchall block has ended in between: then
\* it refers to none, to the end of the block of that match.  And whatever way a
\* block was left, re_match points to no match whose cur_match was released.  The
\* exception is what the code does; README.md knows of none (CapturesAvailable).
CapturesOfEnclosing ==
    /\ TreeTypeOK
    /\ Running("eval") /\ Top.node > 0 =>
          re_match = IF Voided(Top.node) THEN None ELSE Enclosing(Top.node)
    /\ re_match # None => re_match \in held

\* README.md: "The break statement will leave the current rule, not just the
\* enclosing block": no statement behind a break that was reached is evaluated.
BreakLeavesRule == \A b \in DOMAIN rule : result[b] = "BREAK" =>
                      \A s \in b + 1 .. Len(rule) : ~Evaluated(s)

\* README.md: "capture groups are made available to inner statements", those of a
\* match further in overriding them: the innermost match around a statement has the
\* captures, wherever the statement stands in its block.
CapturesAvailable == Running("eval") /\ Top.node > 0 => re_match = Enclosing(Top.node)
=============================================================================
