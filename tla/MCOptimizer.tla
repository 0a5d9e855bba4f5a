----------------------------- MODULE MCOptimizer -----------------------------
(* Model of Optimizer for TLC. *)
EXTENDS Optimizer

MCDb == [a |-> <<<<0, 1>>, <<1, 0>>, <<1, 1>>, <<Null, 1>>>>,
         b |-> <<<<1, 0>>, <<0, 0>>, <<1, Null>>>>]
MCWidth == [a |-> 2, b |-> 2]

Table(t) == [k |-> "scan", table |-> t]
Eq(i, j) == Bin("eq", Col(i), Col(j))
Is(i, v) == Bin("eq", Col(i), Lit(v))
And2(x, y) == Bin("and", x, y)

Select(from, joins, where, proj, distinct, order, limit, offset) ==
  [k |-> "select", from |-> <<from>>, joins |-> joins, where |-> where, group |-> <<>>, having |-> <<>>,
   proj |-> proj, distinct |-> distinct, order |-> order, limit |-> limit, offset |-> offset]

Option(S) == {<<>>} \cup {<<x>> : x \in S}

(* Predicates on one side, on both, on none, one that is not shifted and   *)
(* one whose column is not collected.                                      *)
Predicates ==
  {Is(0, 1), Is(3, 0), Eq(1, 3), Un("isnull", Col(3)), Lit(0), And2(Is(0, 1), Is(2, 1)),
   And2(Is(0, 1), And2(Is(1, 1), Is(2, 1))),
   And2(Bin("or", Is(1, 1), Is(3, 0)), Un("not", Is(2, 0))), Between(Col(2), Lit(1), Lit(1)),
   Like(Col(3))}

(* Keys in and out of order, a key and a rest, no key, and USING. *)
Conditions ==
  {[k |-> "on", e |-> Eq(0, 2)], [k |-> "on", e |-> Eq(2, 0)], [k |-> "on", e |-> Eq(0, 1)],
   [k |-> "on", e |-> And2(Eq(0, 2), Is(3, 0))], [k |-> "on", e |-> Bin("le", Col(0), Col(2))],
   [k |-> "using", es |-> <<Eq(0, 2), Eq(1, 3)>>], [k |-> "none"]}

Joins == {[table |-> Table("b"), kind |-> kind, cond |-> c] :
            kind \in {"inner", "left", "right", "full", "cross"}, c \in Conditions}

All4 == <<Col(0), Col(1), Col(2), Col(3)>>
ByFirst == <<[e |-> Col(0), asc |-> FALSE]>>

JoinQueries ==
  {Select(Table("a"), <<j>>, w, All4, FALSE, <<>>, {}, {}) : j \in Joins, w \in Option(Predicates)}

(* Tables, and queries in the place of tables: plain, with the columns     *)
(* exchanged, sorted and cut, grouped.                                     *)
Sub(proj, distinct, order, limit, offset) == Select(Table("a"), <<>>, <<>>, proj, distinct, order, limit, offset)

Subqueries ==
  {Sub(<<Col(0), Col(1)>>, d, o, l, f) : d \in BOOLEAN, o \in {<<>>, ByFirst}, l \in {{}, {2}}, f \in {{}, {1}}}
    \cup {Sub(<<Col(1), Col(0)>>, FALSE, <<>>, {}, {})}
    \cup {[Sub(<<Col(0), Count(Col(1))>>, FALSE, <<>>, {}, {}) EXCEPT !.group = <<Col(0)>>, !.having = h] :
            h \in Option({Is(1, 1), Bin("le", Count(Col(0)), Lit(1))})}

NestedQueries ==
  {Select(q, js, w, <<Col(0), Col(1)>>, d, o, l, {}) :
     q \in Subqueries, w \in Option({Is(0, 1), And2(Is(1, 1), Is(0, 1))}), d \in BOOLEAN,
     o \in {<<>>, ByFirst}, l \in {{}, {1}},
     js \in {<<>>, <<[table |-> Table("b"), kind |-> "left", cond |-> [k |-> "on", e |-> Eq(0, 2)]]>>}}

Changes ==
  {[k |-> op, table |-> "a", where |-> w] : op \in {"update", "delete"}, w \in Option(Predicates)}
    \cup {[k |-> "insert", table |-> "b", source |-> q] : q \in Subqueries}
    \cup {[k |-> "insert", table |-> "b", source |-> Values(<<<<Lit(0), Lit(1)>>>>, 2)]}
    \cup {[k |-> "explain", stmt |-> [k |-> "delete", table |-> "a", where |-> <<Is(0, 1)>>]]}
    \cup {[Select(Table("a"), <<>>, <<Lit(0)>>, <<Lit(1)>>, FALSE, <<>>, {}, {}) EXCEPT !.from = <<>>]}

MCStatements == JoinQueries \cup NestedQueries \cup Changes
=============================================================================
