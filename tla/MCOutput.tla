------------------------------ MODULE MCOutput ------------------------------
(* The rule tree and a plain destination, which share no variable: each of   *)
(* them is explored while the other is at rest.  The rules are all those of  *)
(* up to MaxStatements statements, and those of one more that open blocks    *)
(* only and end with a template that refers to captures.                     *)
EXTENDS RuleTree, Destination

CONSTANT MaxStatements

\* Captures make a difference in write and match only.
MCStatements(kinds, d) ==
    {s \in [kind : kinds, depth : 0 .. d, captures : BOOLEAN] :
        s.captures => s.kind \in {"WRITE", "MATCH"}}

\* How deep the statement after r may be nested.
MaxDepth(r) == IF r = <<>> THEN 0
               ELSE r[Len(r)].depth + (IF r[Len(r)].kind \in Compound THEN 1 ELSE 0)

Longer(rs, kinds) == UNION {{Append(r, s) : s \in MCStatements(kinds, MaxDepth(r))} : r \in rs}

RulesOf[n \in Nat, kinds \in SUBSET Kinds] ==
    IF n = 0 THEN {<<>>} ELSE Longer(RulesOf[n-1, kinds], kinds)

Nested == {r \in RulesOf[MaxStatements, Compound] : \A s \in DOMAIN r : ~r[s].captures}

MCRules == UNION {RulesOf[n, Kinds] : n \in 0 .. MaxStatements}
           \cup {r \in Longer(Nested, {"WRITE"}) : r[Len(r)].captures}

TreeAtRest == rule = <<>> /\ stack = <<Frame(0, "TRUE")>> /\ ret = "TRUE" /\ ~crashed

TreeStep(A) == Init /\ A /\ UNCHANGED vars
WriteStep(A) == TreeAtRest /\ A /\ UNCHANGED treeVars

OutputInit == Init /\ TreeInit
OutputNext == TreeStep(TreeNext) \/ WriteStep(Next)

OutputSpec == OutputInit /\ [][OutputNext]_<<vars, treeVars>>
=============================================================================
