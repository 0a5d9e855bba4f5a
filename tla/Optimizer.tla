------------------------------ MODULE Optimizer ------------------------------
(***************************************************************************)
(* The way of a bound SELECT, INSERT, UPDATE or DELETE to a physical plan: *)
(* src/planner/planner.rs builds a logical plan, and optimize of           *)
(* src/optimizer/optimizer.rs pushes the predicates down, chooses the      *)
(* operators and fuses sort with limit.                                    *)
(*                                                                         *)
(* Plans and expressions are records with a field k.  A column is a        *)
(* position (scope_index, from 0); names and types are left out.  Options  *)
(* are sets of at most one element.  find_index_for_column answers None,   *)
(* so no plan has an index scan.  No code runs a physical plan yet: Rows   *)
(* gives plans their usual meaning, on which the properties rest.          *)
(*                                                                         *)
(* A definition ending in Fault is a wrong version of the one after it.    *)
(***************************************************************************)
EXTENDS Integers, Sequences, SequencesExt, FiniteSets

CONSTANTS
  Db,      \* the rows of every table: a function from tables to sequences
  Width,   \* the number of columns of every table
  Statements  \* the bound statements, see plan_statement

VARIABLES
  stmt,   \* the statement
  stage,  \* what has been done: "bound", "planned", "pushed", "chosen", "done"
  plan    \* the plan after that

optVars == <<stmt, stage, plan>>

-----------------------------------------------------------------------------
(* Expressions *)

Col(i) == [k |-> "col", i |-> i]
Lit(v) == [k |-> "lit", v |-> v]
Bin(op, l, r) == [k |-> "bin", op |-> op, l |-> l, r |-> r]
Un(op, e) == [k |-> "un", op |-> op, e |-> e]  \* NOT, IS NULL, IS NOT NULL
Between(e, lo, hi) == [k |-> "between", e |-> e, lo |-> lo, hi |-> hi]
Like(e) == [k |-> "like", e |-> e]             \* and subqueries
Count(e) == [k |-> "count", e |-> e]           \* an aggregate

(* The columns of LIKE, EXISTS and subqueries are not collected. *)
RECURSIVE collect_scope_indices(_)
collect_scope_indices(e) ==
  CASE e.k = "col" -> {e.i}
    [] e.k \in {"lit", "like"} -> {}
    [] e.k = "bin" -> collect_scope_indices(e.l) \cup collect_scope_indices(e.r)
    [] e.k \in {"un", "count"} -> collect_scope_indices(e.e)
    [] e.k = "between" -> UNION {collect_scope_indices(x) : x \in {e.e, e.lo, e.hi}}

(* BETWEEN, LIKE, IN, functions, CAST and CASE stay as they are. *)
RECURSIVE shift_scope_indices(_, _)
shift_scope_indices(e, delta) ==
  CASE e.k = "col" -> Col(e.i + delta)
    [] e.k = "bin" -> Bin(e.op, shift_scope_indices(e.l, delta), shift_scope_indices(e.r, delta))
    [] e.k = "un"  -> Un(e.op, shift_scope_indices(e.e, delta))
    [] OTHER -> e

(* Only the first AND is split. *)
split_conjunctions_Fault(e) == IF e.k = "bin" /\ e.op = "and" THEN <<e.l, e.r>> ELSE <<e>>

RECURSIVE split_conjunctions(_)
split_conjunctions(e) ==
  IF e.k = "bin" /\ e.op = "and" THEN split_conjunctions(e.l) \o split_conjunctions(e.r) ELSE <<e>>

conjoin(es) == FoldLeft(LAMBDA l, r : Bin("and", l, r), Head(es), Tail(es))

-----------------------------------------------------------------------------
(* Plans *)

Scan(t) == [k |-> "scan", table |-> t]
Values(rows, n) == [k |-> "values", rows |-> rows, width |-> n]
Filter(p, in) == [k |-> "filter", pred |-> p, in |-> in]
Projection(es, in) == [k |-> "proj", exprs |-> es, in |-> in]
Join(kind, l, r, c) == [k |-> "join", kind |-> kind, l |-> l, r |-> r, cond |-> c]
HashJoin(kind, l, r, keys) == [k |-> "hash", kind |-> kind, l |-> l, r |-> r, keys |-> keys]
Aggregate(gs, as, in) == [k |-> "agg", groups |-> gs, aggs |-> as, in |-> in]
Sort(keys, in) == [k |-> "sort", keys |-> keys, in |-> in]
Limit(n, off, in) == [k |-> "limit", n |-> n, off |-> off, in |-> in]
TopN(keys, n, off, in) == [k |-> "topn", keys |-> keys, n |-> n, off |-> off, in |-> in]
Distinct(in) == [k |-> "distinct", in |-> in]
Dml(op, t, in) == [k |-> op, table |-> t, in |-> in]

OneInput == {"filter", "proj", "agg", "sort", "limit", "topn", "distinct", "update", "delete", "insert"}

(* LogicalPlan::schema, as far as its length. *)
RECURSIVE schema_len(_)
schema_len(p) ==
  CASE p.k = "scan" -> Width[p.table]
    [] p.k = "values" -> p.width
    [] p.k = "proj" -> Len(p.exprs)
    [] p.k = "agg" -> Len(p.groups) + Len(p.aggs)
    [] p.k \in {"join", "hash"} -> schema_len(p.l) + schema_len(p.r)
    [] p.k \in {"insert", "update", "delete"} -> 1
    [] OTHER -> schema_len(p.in)

-----------------------------------------------------------------------------
(* The planner *)

(* collect_agg_from_expr: the first aggregate of an item, which its alias  *)
(* stands for; the aliases of a SELECT are taken to be different.          *)
RECURSIVE collect_agg_from_expr(_)
collect_agg_from_expr(e) ==
  CASE e.k = "count" -> <<e>>
    [] e.k = "bin" -> LET both == collect_agg_from_expr(e.l) \o collect_agg_from_expr(e.r)
                      IN  IF both = <<>> THEN <<>> ELSE <<Head(both)>>
    [] e.k = "un" /\ e.op = "not" -> collect_agg_from_expr(e.e)
    [] OTHER -> <<>>

collect_aggregates(projections, having) ==
  FlattenSeq([i \in DOMAIN projections |-> collect_agg_from_expr(projections[i])])
    \o FlattenSeq([i \in DOMAIN having |-> collect_agg_from_expr(having[i])])

(* The plan in, with a node for every element of the option es on top. *)
Over(es, in, Node(_, _)) == FoldLeft(LAMBDA acc, e : Node(e, acc), in, es)

(* A bound SELECT: from is a table or a SELECT, or empty; options are      *)
(* sequences of at most one element.  A join has a right table, a kind and *)
(* a condition.  plan_from, plan_table_ref and plan_select are one.        *)
RECURSIVE plan_select(_)
plan_select(s) ==
  LET table(t)  == IF t.k = "scan" THEN Scan(t.table) ELSE plan_select(t)
      from      == IF s.from = <<>> THEN Values(<<<<>>>>, 0)
                   ELSE FoldLeft(LAMBDA l, j : Join(j.kind, l, table(j.table), j.cond),
                                 table(s.from[1]), s.joins)
      filtered  == Over(s.where, from, Filter)
      aggs      == collect_aggregates(s.proj, s.having)
      grouped   == IF s.group # <<>> \/ aggs # <<>> THEN Aggregate(s.group, aggs, filtered) ELSE filtered
      projected == Projection(s.proj, Over(s.having, grouped, Filter))
      distinct  == IF s.distinct THEN Distinct(projected) ELSE projected
      sorted    == IF s.order # <<>> THEN Sort(s.order, distinct) ELSE distinct
  IN  IF s.limit # {} \/ s.offset # {} THEN Limit(s.limit, s.offset, sorted) ELSE sorted

(* plan_update and plan_delete. *)
plan_change(s) == Dml(s.k, s.table, Over(s.where, Scan(s.table), Filter))

plan_insert(s) ==
  Dml("insert", s.table, IF s.source.k = "select" THEN plan_select(s.source) ELSE s.source)

(* EXPLAIN is planned as the statement it holds. *)
RECURSIVE plan_statement(_)
plan_statement(s) ==
  CASE s.k = "select" -> plan_select(s)
    [] s.k = "insert" -> plan_insert(s)
    [] s.k \in {"update", "delete"} -> plan_change(s)
    [] s.k = "explain" -> plan_statement(s.stmt)

-----------------------------------------------------------------------------
(* The optimizer *)

(* Filters for the predicates ps on top of in, the first one outermost. *)
FilterAll(ps, in) == FoldRight(LAMBDA p, acc : Filter(p, acc), ps, in)

AllLeft(p, n)  == \A i \in collect_scope_indices(p) : i < n
AllRight(p, n) == \A i \in collect_scope_indices(p) : i >= n

(* A predicate for the right side keeps its positions in the join. *)
RightPredicates_Fault(ps, n) == SelectSeq(ps, LAMBDA p : AllRight(p, n) /\ ~AllLeft(p, n))

(* The predicates of a join that go to its right side, whose first column  *)
(* is at n in the join.                                                    *)
RightPredicates(ps, n) ==
  LET right == SelectSeq(ps, LAMBDA p : AllRight(p, n) /\ ~AllLeft(p, n))
  IN  [i \in DOMAIN right |-> shift_scope_indices(right[i], -n)]

(* The nodes predicates pass unchanged. *)
Passed == {"proj", "sort", "distinct", "update", "delete"}

RECURSIVE push_predicates(_, _)
push_predicates(p, ps) ==
  CASE p.k = "filter" -> push_predicates(p.in, ps \o split_conjunctions(p.pred))
    [] p.k \in Passed -> [p EXCEPT !.in = push_predicates(@, ps)]
    [] p.k = "join" ->
         LET n == schema_len(p.l)
             left  == SelectSeq(ps, LAMBDA q : AllLeft(q, n))
             both  == SelectSeq(ps, LAMBDA q : ~AllLeft(q, n) /\ ~AllRight(q, n))
         IN  FilterAll(both, [p EXCEPT !.l = push_predicates(@, left),
                                       !.r = push_predicates(@, RightPredicates(ps, n))])
    [] p.k \in {"agg", "limit"} ->
         FilterAll(ps, [p EXCEPT !.in = push_predicates(@, <<>>)])
    [] OTHER -> FilterAll(ps, p)

(* An equality between expressions on different columns is a key, whichever *)
(* side of the join the columns are on.                                    *)
IsKey(e) ==
  /\ e.k = "bin" /\ e.op = "eq"
  /\ collect_scope_indices(e.l) # {} /\ collect_scope_indices(e.r) # {}
  /\ collect_scope_indices(e.l) \cap collect_scope_indices(e.r) = {}

(* The keys and the rest of a condition, if it has a key; Using and        *)
(* Natural name equalities only.                                           *)
extract_equi_keys(c) ==
  LET parts == IF c.k = "on" THEN split_conjunctions(c.e) ELSE IF c.k = "using" THEN c.es ELSE <<>>
      keys  == IF c.k = "on" THEN SelectSeq(parts, IsKey) ELSE parts
      rest  == IF c.k = "on" THEN SelectSeq(parts, LAMBDA e : ~IsKey(e)) ELSE <<>>
  IN  IF keys = <<>> THEN {}
      ELSE {[keys |-> keys, rest |-> IF rest = <<>> THEN <<>> ELSE <<conjoin(rest)>>]}

RECURSIVE to_physical(_)
to_physical(p) ==
  CASE p.k = "filter" /\ p.in.k = "scan" -> Filter(conjoin(split_conjunctions(p.pred)), p.in)
    [] p.k = "join" ->
         LET l == to_physical(p.l)
             r == to_physical(p.r)
             n == schema_len(l)
             found == extract_equi_keys(p.cond)
         IN  IF found = {} THEN Join(p.kind, l, r, p.cond)
             ELSE LET f == CHOOSE x \in found : TRUE
                  IN  HashJoin(p.kind, l, r,
                        [left  |-> [i \in DOMAIN f.keys |-> f.keys[i].l],
                         right |-> [i \in DOMAIN f.keys |-> shift_scope_indices(f.keys[i].r, -n)],
                         rest  |-> f.rest])
    [] p.k \in OneInput -> [p EXCEPT !.in = to_physical(@)]
    [] OTHER -> p

RECURSIVE fuse_sort_limit(_)
fuse_sort_limit(p) ==
  CASE p.k = "limit" /\ p.n # {} /\ p.in.k = "sort" ->
         TopN(p.in.keys, p.n, p.off, fuse_sort_limit(p.in.in))
    [] p.k \in {"join", "hash"} -> [p EXCEPT !.l = fuse_sort_limit(@), !.r = fuse_sort_limit(@)]
    [] p.k \in OneInput -> [p EXCEPT !.in = fuse_sort_limit(@)]
    [] OTHER -> p

-----------------------------------------------------------------------------
(* The steps *)

NoPlan == [k |-> "nothing"]

Init ==
  /\ stmt \in Statements
  /\ stage = "bound"
  /\ plan = NoPlan

Plan ==
  /\ stage = "bound"
  /\ stage' = "planned"
  /\ plan' = plan_statement(stmt)
  /\ UNCHANGED stmt

PushPredicates ==
  /\ stage = "planned"
  /\ stage' = "pushed"
  /\ plan' = push_predicates(plan, <<>>)
  /\ UNCHANGED stmt

ChooseOperators ==
  /\ stage = "pushed"
  /\ stage' = "chosen"
  /\ plan' = to_physical(plan)
  /\ UNCHANGED stmt

FuseSortLimit ==
  /\ stage = "chosen"
  /\ stage' = "done"
  /\ plan' = fuse_sort_limit(plan)
  /\ UNCHANGED stmt

Next == Plan \/ PushPredicates \/ ChooseOperators \/ FuseSortLimit

Spec == Init /\ [][Next]_optVars
-----------------------------------------------------------------------------
(* The meaning of a plan: a sequence of rows.  Booleans are 1 and 0.       *)

Null == -1

Truth(b) == IF b THEN 1 ELSE 0

And(x, y) == IF x = 0 \/ y = 0 THEN 0 ELSE IF x = Null \/ y = Null THEN Null ELSE 1

Compare(op, x, y) ==
  IF x = Null \/ y = Null THEN Null
  ELSE Truth(CASE op = "eq" -> x = y [] op = "le" -> x <= y [] op = "or" -> x = 1 \/ y = 1)

RECURSIVE Eval(_, _)
Eval(e, row) ==
  CASE e.k = "col" -> IF e.i + 1 \in DOMAIN row THEN row[e.i + 1] ELSE Null
    [] e.k = "lit" -> e.v
    [] e.k = "bin" -> IF e.op = "and" THEN And(Eval(e.l, row), Eval(e.r, row))
                      ELSE Compare(e.op, Eval(e.l, row), Eval(e.r, row))
    [] e.k = "un" -> IF e.op = "isnull" THEN Truth(Eval(e.e, row) = Null)
                     ELSE IF Eval(e.e, row) = Null THEN Null ELSE 1 - Eval(e.e, row)
    [] e.k = "between" -> And(Compare("le", Eval(e.lo, row), Eval(e.e, row)),
                              Compare("le", Eval(e.e, row), Eval(e.hi, row)))
    [] e.k = "like" -> IF Eval(e.e, row) = Null THEN Null ELSE Truth(Eval(e.e, row) = 1)
    [] e.k = "count" -> Null

Holds(e, row) == Eval(e, row) = 1

Apply(es, row) == [i \in DOMAIN es |-> Eval(es[i], row)]

Nulls(n) == [i \in 1..n |-> Null]

(* A join of the rows ls and rs, of widths n and m. *)
JoinRows(kind, ls, n, rs, m, On(_, _)) ==
  LET with(l)   == SelectSeq(rs, LAMBDA r : On(l, r))
      pairs(l)  == [i \in DOMAIN with(l) |-> l \o with(l)[i]]
      alone     == IF kind \in {"right", "full"}
                   THEN SelectSeq(rs, LAMBDA r : ~\E i \in DOMAIN ls : On(ls[i], r)) ELSE <<>>
  IN  FlattenSeq([i \in DOMAIN ls |->
        IF with(ls[i]) = <<>> /\ kind \in {"left", "full"} THEN <<ls[i] \o Nulls(m)>> ELSE pairs(ls[i])])
        \o [i \in DOMAIN alone |-> Nulls(n) \o alone[i]]

CondHolds(c, row) ==
  CASE c.k = "on" -> Holds(c.e, row)
    [] c.k = "using" -> \A i \in DOMAIN c.es : Holds(c.es[i], row)
    [] c.k = "none" -> TRUE

KeysMatch(keys, l, r) ==
  /\ \A i \in DOMAIN keys.left : Compare("eq", Eval(keys.left[i], l), Eval(keys.right[i], r)) = 1
  /\ \A i \in DOMAIN keys.rest : Holds(keys.rest[i], l \o r)

(* Row a comes before row b by the first key on which they differ. *)
Before(keys, a, b) ==
  \E i \in DOMAIN keys :
    /\ \A j \in 1..(i - 1) : Eval(keys[j].e, a) = Eval(keys[j].e, b)
    /\ IF keys[i].asc THEN Eval(keys[i].e, a) < Eval(keys[i].e, b) ELSE Eval(keys[i].e, b) < Eval(keys[i].e, a)

SortRows(keys, rows) ==
  LET rank(i) == 1 + Cardinality({j \in DOMAIN rows :
                   Before(keys, rows[j], rows[i]) \/ (j < i /\ ~Before(keys, rows[i], rows[j]))})
  IN  [n \in DOMAIN rows |-> rows[CHOOSE i \in DOMAIN rows : rank(i) = n]]

Cut(n, off, rows) ==
  LET from == IF off = {} THEN 0 ELSE CHOOSE x \in off : TRUE
      to   == IF n = {} THEN Len(rows) ELSE from + (CHOOSE x \in n : TRUE)
  IN  [i \in 1..Cardinality({j \in DOMAIN rows : j > from /\ j <= to}) |-> rows[from + i]]

OnlyFirst(rows) == FoldLeft(LAMBDA acc, r : IF Contains(acc, r) THEN acc ELSE Append(acc, r), <<>>, rows)

GroupRows(gs, as, rows) ==
  LET keys == IF gs = <<>> THEN <<<<>>>> ELSE OnlyFirst([i \in DOMAIN rows |-> Apply(gs, rows[i])])
      of(key) == {i \in DOMAIN rows : Apply(gs, rows[i]) = key}
  IN  [n \in DOMAIN keys |-> keys[n] \o
         [a \in DOMAIN as |-> Cardinality({i \in of(keys[n]) : Eval(as[a].e, rows[i]) # Null})]]

RECURSIVE Rows(_)
Rows(p) ==
  CASE p.k = "scan" -> Db[p.table]
    [] p.k = "values" -> [i \in DOMAIN p.rows |-> Apply(p.rows[i], <<>>)]
    [] p.k = "filter" -> SelectSeq(Rows(p.in), LAMBDA row : Holds(p.pred, row))
    [] p.k = "proj" -> LET in == Rows(p.in) IN [i \in DOMAIN in |-> Apply(p.exprs, in[i])]
    [] p.k = "join" -> JoinRows(p.kind, Rows(p.l), schema_len(p.l), Rows(p.r), schema_len(p.r),
                                LAMBDA l, r : CondHolds(p.cond, l \o r))
    [] p.k = "hash" -> JoinRows(p.kind, Rows(p.l), schema_len(p.l), Rows(p.r), schema_len(p.r),
                                LAMBDA l, r : KeysMatch(p.keys, l, r))
    [] p.k = "agg" -> GroupRows(p.groups, p.aggs, Rows(p.in))
    [] p.k = "sort" -> SortRows(p.keys, Rows(p.in))
    [] p.k = "limit" -> Cut(p.n, p.off, Rows(p.in))
    [] p.k = "topn" -> Cut(p.n, p.off, SortRows(p.keys, Rows(p.in)))
    [] p.k = "distinct" -> OnlyFirst(Rows(p.in))
    [] p.k \in {"insert", "update", "delete"} -> Rows(p.in)

-----------------------------------------------------------------------------
(* Properties *)

RECURSIVE Parts(_)
Parts(e) ==
  {e} \cup (CASE e.k = "bin" -> Parts(e.l) \cup Parts(e.r)
              [] e.k = "between" -> UNION {Parts(x) : x \in {e.e, e.lo, e.hi}}
              [] e.k \in {"un", "like", "count"} -> Parts(e.e)
              [] OTHER -> {})

(* The expression has no part whose columns are not collected, or that     *)
(* shift_scope_indices leaves alone.                                       *)
Collectable(e) == \A x \in Parts(e) : x.k # "like"
Shiftable(e)   == \A x \in Parts(e) : x.k \in {"col", "lit", "bin", "un"}

(* The keys of a join of widths n and m are written with the left side     *)
(* first.                                                                  *)
SidesInOrder(c, n) ==
  \A f \in extract_equi_keys(c) : \A i \in DOMAIN f.keys :
    AllLeft(f.keys[i].l, n) /\ AllRight(f.keys[i].r, n) /\ Shiftable(f.keys[i].r)

(* The predicates ps, moved down in p, stay what they are: no projection   *)
(* renumbers their columns, no outer join fills the side they go to, and   *)
(* their columns are known and can be shifted.                             *)
RECURSIVE Straight(_, _)
Straight(p, ps) ==
  CASE p.k = "filter" -> Straight(p.in, ps \o split_conjunctions(p.pred))
    [] p.k = "proj" ->
         /\ \A q \in ToSet(ps) : \A x \in Parts(q) :
              x.k = "col" => x.i + 1 \in DOMAIN p.exprs /\ p.exprs[x.i + 1] = x
         /\ Straight(p.in, ps)
    [] p.k = "join" ->
         LET n == schema_len(p.l)
             left  == SelectSeq(ps, LAMBDA q : AllLeft(q, n))
             right == SelectSeq(ps, LAMBDA q : AllRight(q, n) /\ ~AllLeft(q, n))
         IN  /\ left = <<>> \/ p.kind \in {"inner", "cross", "left"}
             /\ right = <<>> \/ p.kind \in {"inner", "cross", "right"}
             /\ \A q \in ToSet(left) : Collectable(q)
             /\ \A q \in ToSet(right) : Shiftable(q)
             /\ SidesInOrder(p.cond, n)
             /\ Straight(p.l, left)
             /\ Straight(p.r, [i \in DOMAIN right |-> shift_scope_indices(right[i], -n)])
    [] p.k \in {"agg", "limit", "insert"} -> Straight(p.in, <<>>)
    [] p.k \in OneInput -> Straight(p.in, ps)
    [] OTHER -> TRUE

(* Pushing predicates, choosing operators and fusing sort with limit do    *)
(* not change the rows of a plan, in their order, when the predicates may  *)
(* be moved (Optimizer::optimize).                                         *)
RowsKept ==
  (stage \notin {"bound", "planned"} /\ Straight(plan_statement(stmt), <<>>)) =>
     Rows(plan) = Rows(plan_statement(stmt))

RECURSIVE Nodes(_)
Nodes(p) ==
  {p} \cup (CASE p.k \in {"join", "hash"} -> Nodes(p.l) \cup Nodes(p.r)
              [] p.k \in OneInput -> Nodes(p.in)
              [] OTHER -> {})

RECURSIVE BelowFilters(_)
BelowFilters(p) == IF p.k = "filter" THEN BelowFilters(p.in) ELSE p

(* Once predicates are pushed none is left where it could go further down: *)
(* a filter is above a table, a limit, groups, or, with one condition, a   *)
(* join it needs both sides of, unless it is the source of an INSERT       *)
(* (push_predicates).                                                      *)
PredicatesSettled ==
  (stage \in {"pushed", "chosen", "done"} /\ stmt.k # "insert") =>
    \A f \in {p \in Nodes(plan) : p.k = "filter"} :
      LET below == BelowFilters(f.in)
      IN  \/ below.k \in {"scan", "values", "agg", "limit", "topn"}
          \/ /\ below.k \in {"join", "hash"}
             /\ ~AllLeft(f.pred, schema_len(below.l)) /\ ~AllRight(f.pred, schema_len(below.l))
             /\ ~(f.pred.k = "bin" /\ f.pred.op = "and")
=============================================================================
