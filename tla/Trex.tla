-------------------------------- MODULE Trex --------------------------------
(***************************************************************************)
(* The regular expressions the field factories match type names with:      *)
(* trex_compile turns a pattern into nodes, trex_match walks the nodes     *)
(* along a text (trex.c), and regexp (cjson_regexp.h) gives the groups.    *)
(* There is no backtracking: a repetition stops at the first place where   *)
(* the node behind it matches.  Patterns and texts are sequences of        *)
(* characters; the search of a pattern inside a text is used by nobody.    *)
(***************************************************************************)
EXTENDS Text

NULL == 0     \* no node, and no place in the text

-----------------------------------------------------------------------------
\* trex_compile

\* p: the place in the pattern; ret: what the last function called returned
Start(pattern) ==
    [pattern |-> pattern, p |-> 1, nodes |-> <<>>, nsubexpr |-> 0, ret |-> NULL, error |-> FALSE]

Char(e) == IF e.p > Len(e.pattern) THEN NUL ELSE e.pattern[e.p]
Skip(e) == [e EXCEPT !.p = @ + 1]

\* longjmp: nothing of the pattern is read any more
trex_error(e) == [e EXCEPT !.error = TRUE, !.p = Len(e.pattern) + 1]

trex_expect(e, c) == IF Char(e) = c THEN Skip(e) ELSE trex_error(e)

trex_newnode(e, type) ==
    LET group == type = "OP_EXPR" IN
    [e EXCEPT
        !.nodes = Append(@, [type |-> type, left |-> NULL, next |-> NULL,
                             right |-> IF group THEN e.nsubexpr ELSE NULL]),
        !.nsubexpr = IF group THEN @ + 1 ELSE @,
        !.ret = Len(e.nodes) + 1]

Left(e, n, value)  == [e EXCEPT !.nodes[n].left = value]
Right(e, n, value) == [e EXCEPT !.nodes[n].right = value]
Link(e, n, node)   == [e EXCEPT !.nodes[n].next = node]

\* A class letter is kept as the left of a node
trex_charclass(e, letter) ==
    LET made == trex_newnode(e, "OP_CCLASS") IN Left(made, made.ret, letter)

ClassLetters == CharSet("aAwWsSdDxXcCpPlu")
Control == [n |-> "\n", t |-> "\t", r |-> "\r", f |-> "\f", v |-> "x0b"]
Escaped(c) == IF c \in DOMAIN Control THEN Control[c] ELSE c

trex_escapechar(e) ==
    IF Char(e) = "\\" THEN Skip([Skip(e) EXCEPT !.ret = Escaped(Char(Skip(e)))])
    ELSE IF isprint(Char(e)) THEN Skip([e EXCEPT !.ret = Char(e)]) ELSE trex_error(e)

trex_charnode(e, isclass) ==
    LET c == Char(e)
        next == Skip(e)
        d == Char(next)
    IN  IF c # "\\" THEN IF isprint(c) THEN trex_newnode(next, c) ELSE trex_error(e)
        ELSE IF d \in ClassLetters THEN trex_charclass(Skip(next), d)
        ELSE IF d \in {"b", "B"} /\ ~isclass
             THEN LET made == trex_newnode(Skip(next), "OP_WB") IN Left(made, made.ret, d)
        ELSE trex_newnode(Skip(next), Escaped(d))

\* The members of a class are chained behind its node; first is the member
\* that may still open a range; its number, and not its character, is held
\* against the one behind the '-'
RECURSIVE ClassMembers(_, _, _)

\* The range from a member of the type low; end has read its other end
ClassRange(end, range, chain, low) ==
    IF low = "OP_CCLASS" \/ end.error THEN trex_error(end)
    ELSE ClassMembers(Link(Right(Left(end, range, low), range, end.ret), chain, range), range, NULL)
OpenRange(made, chain, low) == ClassRange(trex_escapechar(made), made.ret, chain, low)
NextMember(made, chain, first) ==
    IF made.error THEN made
    ELSE IF first # NULL THEN ClassMembers(Link(made, chain, first), first, made.ret)
    ELSE ClassMembers(made, chain, made.ret)
ClassMembers(e, chain, first) ==
    IF Char(e) \in {"]", NUL} THEN IF first # NULL THEN Link(e, chain, first) ELSE e
    ELSE IF Char(e) = "-" /\ first # NULL
    THEN IF first - 1 > Code(Char(Skip(e))) THEN trex_error(e)
         ELSE OpenRange(trex_newnode(Skip(e), "OP_RANGE"), chain, e.nodes[first].type)
    ELSE NextMember(trex_charnode(e, TRUE), chain, first)

CloseClass(full, n) ==
    IF full.error THEN full
    ELSE [Link(Left(full, n, full.nodes[n].next), n, NULL) EXCEPT !.ret = n]
OpenClass(open) ==
    IF Char(open) = "]" THEN trex_error(open)
    ELSE CloseClass(ClassMembers(open, open.ret, NULL), open.ret)
trex_class(e) ==
    OpenClass(IF Char(e) = "^" THEN trex_newnode(Skip(e), "OP_NCLASS")
              ELSE trex_newnode(e, "OP_CLASS"))

trex_parsenumber(e) ==
    LET end == Behind(e.pattern, e.p, Digits) IN
    [e EXCEPT !.p = end, !.ret = NumberOf(SubSeq(e.pattern, e.p, end - 1))]

Unbounded == 65535

\* {n}, {n,} and {n,m}; ret is the pair of bounds
UpTo(low, high) == trex_expect([high EXCEPT !.ret = <<low, high.ret>>], "}")
AtLeast(low) ==
    CASE Char(low) = "}" -> UpTo(low.ret, low)
      [] Char(low) = "," /\ Char(Skip(low)) \in Digits -> UpTo(low.ret, trex_parsenumber(Skip(low)))
      [] Char(low) = "," -> UpTo(low.ret, [Skip(low) EXCEPT !.ret = Unbounded])
      [] OTHER -> trex_error(low)
Counted(e) == IF Char(e) \in Digits THEN AtLeast(trex_parsenumber(e)) ELSE trex_error(e)

Bounds(e) ==
    LET once(low, high) == [Skip(e) EXCEPT !.ret = <<low, high>>] IN
    CASE Char(e) = "*" -> once(0, Unbounded)
      [] Char(e) = "+" -> once(1, Unbounded)
      [] Char(e) = "?" -> once(0, 1)
      [] Char(e) = "{" -> Counted(Skip(e))

RECURSIVE trex_list(_), trex_element(_)

CloseGroup(inner, n) == [trex_expect(Left(inner, n, inner.ret), ")") EXCEPT !.ret = n]
OpenGroup(open) == CloseGroup(trex_list(open), open.ret)
Group(e) ==
    OpenGroup(IF Char(e) = "?" THEN trex_newnode(trex_expect(Skip(e), ":"), "OP_NOCAPEXPR")
              ELSE trex_newnode(e, "OP_EXPR"))

Atom(e) ==
    CASE Char(e) = "(" -> Group(Skip(e))
      [] Char(e) = "[" -> LET c == trex_class(Skip(e)) IN [trex_expect(c, "]") EXCEPT !.ret = c.ret]
      [] Char(e) = "$" -> trex_newnode(Skip(e), "OP_EOL")
      [] Char(e) = "." -> trex_newnode(Skip(e), "OP_DOT")
      [] OTHER -> trex_charnode(e, FALSE)

\* An atom, its repetition, and the element behind it
Greedy(made, atom, bounds) == Right(Left(made, made.ret, atom), made.ret, bounds)
Repeated(atom, bounds) ==
    IF bounds.error THEN bounds ELSE Greedy(trex_newnode(bounds, "OP_GREEDY"), atom, bounds.ret)
Quantified(atom) ==
    IF Char(atom) \in {"*", "+", "?", "{"} THEN Repeated(atom.ret, Bounds(atom)) ELSE atom
Chained(first, rest) ==
    IF rest.error THEN rest ELSE [Link(rest, first, rest.ret) EXCEPT !.ret = first]
Followed(item) ==
    IF Char(item) \in {"|", ")", "*", "+", NUL} THEN item ELSE Chained(item.ret, trex_element(item))
trex_element(e) == Followed(Quantified(Atom(e)))

Either(or, left, right) ==
    IF right.error THEN right ELSE [Right(Left(right, or, left), or, right.ret) EXCEPT !.ret = or]
Alternative(left, or) == Either(or.ret, left, trex_list(or))
Alternatives(branch) ==
    IF Char(branch) = "|" THEN Alternative(branch.ret, trex_newnode(Skip(branch), "OP_OR"))
    ELSE branch
Anchored(bol) == Alternatives(Chained(bol.ret, trex_element(bol)))
trex_list(e) ==
    IF Char(e) = "^" THEN Anchored(trex_newnode(Skip(e), "OP_BOL"))
    ELSE Alternatives(trex_element(e))

\* Node 1 is the group of the whole pattern
Whole(body) == IF Char(body) # NUL \/ body.error THEN trex_error(body) ELSE Left(body, 1, body.ret)
trex_compile(pattern) == Whole(trex_list(trex_newnode(Start(pattern), "OP_EXPR")))

-----------------------------------------------------------------------------
\* trex_match.  at: the place reached, NULL for no match; matches: the groups;
\* sub: _currsubexp

ClassOf(letter) ==
    CASE letter \in {"a", "A"} -> Lower \cup Upper
      [] letter \in {"w", "W"} -> Lower \cup Upper \cup Digits \cup {"_"}
      [] letter \in {"s", "S"} -> Spaces
      [] letter \in {"d", "D"} -> Digits
      [] letter \in {"x", "X"} -> Digits \cup CharSet("abcdefABCDEF")
      [] letter \in {"c", "C"} -> {ByteName[n] : n \in 0..31}
      [] letter \in {"p", "P"} -> Punct
      [] letter = "l" -> Lower
      [] letter = "u" -> Upper

trex_matchcclass(letter, c) == (c \in ClassOf(letter)) = (letter \notin CharSet("AWSDXCP"))

RECURSIVE trex_matchclass(_, _, _)
trex_matchclass(nodes, n, c) ==
    LET node == nodes[n] IN
    \/ CASE node.type = "OP_RANGE" -> Code(node.left) <= Code(c) /\ Code(c) <= Code(node.right)
         [] node.type = "OP_CCLASS" -> trex_matchcclass(node.left, c)
         [] OTHER -> c = node.type
    \/ node.next # NULL /\ trex_matchclass(nodes, node.next, c)

\* The character at a place; behind the terminator lies whatever memory holds
At(text, s) == IF s <= Len(text) THEN text[s] ELSE IF s = Len(text) + 1 THEN NUL ELSE "beyond"

RECURSIVE trex_matchnode(_, _, _, _, _), Repeat(_, _, _, _, _, _, _), Sequence(_, _, _, _, _),
          Branch(_, _, _, _)

\* What comes behind, tried at the place a repetition has reached; the groups it
\* opens stay opened
Looked(nodes, stop, text, m, next) ==
    LET node == nodes[stop]
        gnext == IF node.next # NULL THEN node.next
                 ELSE IF next # NULL THEN nodes[next].next ELSE NULL
    IN  IF stop = NULL \/ (node.type = "OP_GREEDY" /\ node.right[1] = 0)
        THEN [m EXCEPT !.at = NULL]
        ELSE trex_matchnode(nodes, stop, text, m, gnext)

\* The loop of OP_GREEDY after count matches
Repeat(nodes, n, text, m, next, stop, count) ==
    LET node == nodes[n]
        low == node.right[1]
        high == node.right[2]
        Ended(q, times) == IF low <= times THEN q ELSE [q EXCEPT !.at = NULL]
        once == trex_matchnode(nodes, node.left, text, m, stop)
        look == Looked(nodes, stop, text, once, next)
        now == [look EXCEPT !.at = once.at]
    IN  IF count # Unbounded /\ count >= high THEN Ended(m, count)
        ELSE IF once.at = NULL THEN Ended([once EXCEPT !.at = m.at], count)
        ELSE IF (low <= count + 1 /\ look.at # NULL) \/ once.at > Len(text)
        THEN Ended(now, count + 1)
        ELSE Repeat(nodes, n, text, now, next, stop, count + 1)

\* The nodes of a group, each told which node comes behind it
Sequence(nodes, n, text, m, next) ==
    LET node == nodes[n]
        then == IF node.next # NULL THEN node.next ELSE next
        done == trex_matchnode(nodes, n, text, m, then)
    IN  IF done.at = NULL \/ node.next = NULL THEN done
        ELSE Sequence(nodes, node.next, text, done, next)

\* One side of a |: its nodes are not told what comes behind them
Branch(nodes, n, text, m) ==
    LET done == trex_matchnode(nodes, n, text, m, NULL) IN
    IF done.at = NULL \/ nodes[n].next = NULL THEN done
    ELSE Branch(nodes, nodes[n].next, text, done)

\* A group that does not match forgets where it began, not that it was tried
Capture(nodes, n, text, m, next) ==
    LET node == nodes[n]
        captures == node.type = "OP_EXPR" /\ node.right = m.sub
        k == m.sub + 1
        open == IF captures THEN [m EXCEPT !.sub = @ + 1] ELSE m
        done == Sequence(nodes, node.left, text, open, next)
    IN  IF ~captures THEN done
        ELSE [done EXCEPT !.matches[k] = IF done.at = NULL THEN <<NULL, 0>>
                                         ELSE <<m.at, done.at - m.at>>]

IsSpace(c) == c \in Spaces
WordBoundary(text, s) ==
    \/ s = 1 /\ ~IsSpace(At(text, s))
    \/ s = Len(text) + 1 /\ ~IsSpace(At(text, s - 1))
    \/ IsSpace(At(text, s)) # IsSpace(At(text, s + 1))

\* OP_DOT takes any character, the terminator included
trex_matchnode(nodes, n, text, m, next) ==
    LET node == nodes[n]
        c == At(text, m.at)
        No == [m EXCEPT !.at = NULL]
        Take(test) == IF test THEN [m EXCEPT !.at = @ + 1] ELSE No
        Stay(test) == IF test THEN m ELSE No
    IN  CASE node.type = "OP_GREEDY" ->
               Repeat(nodes, n, text, m, next, IF node.next # NULL THEN node.next ELSE next, 0)
          [] node.type = "OP_OR" ->
               LET left == Branch(nodes, node.left, text, m) IN
               IF left.at # NULL THEN left
               ELSE Branch(nodes, node.right, text, [left EXCEPT !.at = m.at])
          [] node.type \in {"OP_EXPR", "OP_NOCAPEXPR"} -> Capture(nodes, n, text, m, next)
          [] node.type = "OP_WB" -> Stay(WordBoundary(text, m.at) = (node.left = "b"))
          [] node.type = "OP_BOL" -> Stay(m.at = 1)
          [] node.type = "OP_EOL" -> Stay(m.at = Len(text) + 1)
          [] node.type = "OP_DOT" -> Take(TRUE)
          [] node.type = "OP_CLASS" -> Take(trex_matchclass(nodes, node.left, c))
          [] node.type = "OP_NCLASS" -> Take(~trex_matchclass(nodes, node.left, c))
          [] node.type = "OP_CCLASS" -> Take(trex_matchcclass(node.left, c))
          [] OTHER -> Take(c = node.type)

\* The groups are those of the last match: <<place, length>>
trex_match(exp, text) ==
    LET none == [i \in 1..exp.nsubexpr |-> <<NULL, 0>>]
        m == trex_matchnode(exp.nodes, 1, text, [at |-> 1, matches |-> none, sub |-> 0], NULL)
    IN  [matched |-> m.at = Len(text) + 1, groups |-> m.matches]

\* regexp::matches and regexp::get
matches(exp, text) == trex_match(exp, text).matched
get(exp, text, i) ==
    LET g == trex_match(exp, text).groups[i + 1] IN SubSeq(text, g[1], g[1] + g[2] - 1)
=============================================================================
