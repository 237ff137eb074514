----------------------------- MODULE GqlPackage -----------------------------
(***************************************************************************)
(* packages/oos-gql-ts: the client turns a data map into a mutation        *)
(* (client/build-mutation.ts), the schema admits its arguments             *)
(* (schema/mutation-args.ts), the resolvers turn them into statements with *)
(* positional parameters (sql/mutation.ts) and run them, in one round trip *)
(* or in two, depending on the dialect (resolvers/sql-resolvers.ts).  A    *)
(* query's arguments are column names with an operator's suffix            *)
(* (schema/filter-args.ts) and become a WHERE clause (sql/select.ts).      *)
(*                                                                         *)
(* A data map is a sequence of << key, value >> pairs, in the order of the *)
(* object's keys.  A JavaScript value is written as in the source: 2 is a  *)
(* number, '2' a string.  A row maps the columns to stored literals.  A    *)
(* filter is a sequence of << column, value, operator >>, "" being the     *)
(* bare name.                                                              *)
(***************************************************************************)
EXTENDS Naturals, Sequences

CONSTANTS
  Columns,     \* the columns of the domain in their order, each with type, readOnly and
               \* filterable
  Maps,        \* the data maps that are saved
  Filters,     \* the filters that are asked for
  Order,       \* the stored literals in the order of the database
  RowIds,      \* the ids the database gives out
  Returning,   \* the dialect supports RETURNING
  MaxCalls

Thrown == "thrown"

VARIABLES
  rows,    \* the table: id -> row or NoRow
  calls,   \* mutations under way: data, arguments, stage
  read,    \* what the callers got back: ids and rows, or only the id of a delete
  made     \* calls made

gqlPackage == << rows, calls, read, made >>

Cols == {Columns[i].name : i \in 1 .. Len(Columns)}
NoRow == [c \in Cols |-> "-"]
Column(n) == Columns[CHOOSE i \in 1 .. Len(Columns) : Columns[i].name = n]
Keys(m) == {m[i][1] : i \in 1 .. Len(m)}
ValueOf(m, k) == IF k \in Keys(m) THEN m[CHOOSE i \in 1 .. Len(m) : m[i][1] = k][2] ELSE "undefined"

Init ==
  /\ rows = [r \in RowIds |-> IF r = "2" THEN [c \in Cols |-> "old"] ELSE NoRow]
  /\ calls = {} /\ read = {} /\ made = 0

-----------------------------------------------------------------------------
\* build-mutation.ts: the literals.
IsEmptyId(v) == v \in {"undefined", "null", "0", "'0'", "''"}

FormatIntLiteral(v) ==
  CASE v \in {"0", "2", "3"} -> v
    [] v \in {"0.5", "'0'"} -> "0"
    [] v \in {"2.5", "'2'"} -> "2"
    [] v = "'3'" -> "3"
    [] OTHER -> Thrown

FormatFloatLiteral(v) ==
  CASE v \in {"0", "0.5", "2", "2.5", "3"} -> v
    [] v = "'2'" -> "2"
    [] v = "'3'" -> "3"
    [] v = "'0'" -> "0"
    [] OTHER -> Thrown

FormatBoolLiteral(v) ==
  CASE v \in {"true", "0.5", "2", "2.5", "3"} -> "true"
    [] v \in {"false", "0", "'0'", "''"} -> "false"
    [] OTHER -> Thrown

Stringify(v) ==
  CASE v \in {"null", "''"} -> ""
    [] v = "'0'" -> "0"
    [] v = "'2'" -> "2"
    [] v = "'3'" -> "3"
    [] v = "'x'" -> "x"
    [] OTHER -> v

FormatArg(type, v) ==
  CASE type = "int" -> FormatIntLiteral(v)
    [] type = "float" -> FormatFloatLiteral(v)
    [] type = "bool" -> FormatBoolLiteral(v)
    [] OTHER -> Stringify(v)

Formatted(m) ==
  LET settable(p) == p[1] \in Cols \ {"id"} /\ ~Column(p[1]).readOnly
      kept == SelectSeq(m, settable)
  IN [i \in 1 .. Len(kept) |-> << kept[i][1], FormatArg(Column(kept[i][1]).type, kept[i][2]) >>]

\* buildMutationFromMap: unknown fields throw, readonly ones are stripped.
BuildMutationFromMap(m) ==
  LET verb == IF IsEmptyId(ValueOf(m, "id")) THEN "insert" ELSE "update"
      id == FormatIntLiteral(ValueOf(m, "id"))
      args == (IF verb = "update" THEN << << "id", id >> >> ELSE << >>) \o Formatted(m)
      known == Keys(m) \subseteq Cols \cup {"id"}
  IN [ok |-> m # << >> /\ known /\ args # << >>
               /\ \A i \in 1 .. Len(args) : args[i][2] # Thrown,
      verb |-> verb, args |-> args]

\* buildDeleteMutation
BuildDeleteMutation(v) ==
  [ok |-> ~IsEmptyId(v) /\ FormatIntLiteral(v) # Thrown, verb |-> "delete",
   args |-> << << "id", FormatIntLiteral(v) >> >>]

-----------------------------------------------------------------------------
\* settableFieldNames
Settable == {c \in Cols : c # "id" /\ ~Column(c).readOnly}

OperatorsForType(type) ==
  CASE type \in {"string", "text"} -> {"_contains", "_eq", "_ne"}
    [] type \in {"int", "float"} -> {"_eq", "_ne", "_gt", "_gte", "_lt", "_lte"}
    [] type = "bool" -> {"_eq"}
    [] type \in {"date", "datetime"} -> {"_eq", "_gt", "_lt"}
    [] OTHER -> {}

\* buildQueryArgs: the id always, a filterable column by its name and with every
\* operator of its type.
QueryArgs ==
  {"id"} \cup UNION {{c \o op : op \in {""} \cup OperatorsForType(Column(c).type)} :
                     c \in {d \in Cols : Column(d).filterable}}

\* buildMutationArgs, buildInsertArgs, buildDeleteArgs
SchemaArgs(verb) ==
  CASE verb = "insert" -> Settable
    [] verb = "update" -> Settable \cup {"id"}
    [] verb = "delete" -> {"id"}
    [] verb = "query" -> QueryArgs

Supplied(args) == LET ok(p) == p[1] \in Settable IN SelectSeq(args, ok)

Seconds(s) == [i \in 1 .. Len(s) |-> s[i][2]]

\* Mutant: the id is bound first, where the statement has it last.
BuildUpdateIdFirst(args) ==
  LET s == Supplied(args)
  IN [verb |-> "update", cols |-> [i \in 1 .. Len(s) |-> s[i][1]],
      values |-> << ValueOf(args, "id") >> \o Seconds(s)]

\* buildUpdate: SET $1 ... $n WHERE id = $n+1.
BuildUpdate(args) ==
  LET s == Supplied(args)
  IN [verb |-> "update", cols |-> [i \in 1 .. Len(s) |-> s[i][1]],
      values |-> Append(Seconds(s), ValueOf(args, "id"))]

\* buildInsert
BuildInsert(args) ==
  LET s == Supplied(args)
  IN [verb |-> "insert", cols |-> [i \in 1 .. Len(s) |-> s[i][1]], values |-> Seconds(s)]

\* buildDelete
BuildDelete(args) == [verb |-> "delete", cols |-> << >>, values |-> << ValueOf(args, "id") >>]

Command(verb, args) ==
  CASE verb = "update" -> BuildUpdate(args)
    [] verb = "insert" -> BuildInsert(args)
    [] verb = "delete" -> BuildDelete(args)

\* The resolver's error: "requires id and at least one settable field".
Refused(cmd) == cmd.verb \in {"insert", "update"} /\ cmd.cols = << >>

\* The database binds the i-th value to the i-th marker.
Bound(cmd, row) ==
  [c \in Cols |-> IF \E i \in 1 .. Len(cmd.cols) : cmd.cols[i] = c
                  THEN cmd.values[CHOOSE i \in 1 .. Len(cmd.cols) : cmd.cols[i] = c]
                  ELSE row[c]]

Run(cmd, id) ==
  CASE cmd.verb = "insert" -> [rows EXCEPT ![id] = Bound(cmd, [c \in Cols |-> "default"])]
    [] cmd.verb = "update" /\ id \in RowIds ->
         [rows EXCEPT ![id] = IF @ = NoRow THEN @ ELSE Bound(cmd, @)]
    [] cmd.verb = "delete" /\ id \in RowIds -> [rows EXCEPT ![id] = NoRow]
    [] OTHER -> rows

-----------------------------------------------------------------------------
SUFFIXES == << "_contains", "_gte", "_lte", "_eq", "_ne", "_gt", "_lt" >>

\* decodeFilterArg: the column of the whole name, or the first suffix that leaves
\* a column; the empty set when there is none.
DecodeFilterArg(a) ==
  LET fits(i) == {c \in Cols : a = c \o SUFFIXES[i]}
      is == {i \in 1 .. Len(SUFFIXES) : fits(i) # {}}
  IN IF a \in Cols THEN {[col |-> a, op |-> "_eq"]}
     ELSE IF is = {} THEN {}
     ELSE LET first == CHOOSE i \in is : \A j \in is : i <= j
          IN {[col |-> c, op |-> SUFFIXES[first]] : c \in fits(first)}

\* buildWhereClause: a condition for the id first, a null one too, then for the
\* other arguments that have a value, in their order.
BuildWhereClause(args) ==
  LET isId(p) == p[1] = "id"
      other(p) == p[1] # "id" /\ p[2] # "null" /\ DecodeFilterArg(p[1]) # {}
      kept == SelectSeq(args, isId) \o SelectSeq(args, other)
  IN [conds |-> [i \in 1 .. Len(kept) |-> CHOOSE d \in DecodeFilterArg(kept[i][1]) : TRUE],
      values |-> Seconds(kept)]

Rank(v) == IF \E i \in 1 .. Len(Order) : Order[i] = v
           THEN CHOOSE i \in 1 .. Len(Order) : Order[i] = v ELSE 0

\* The database's comparisons; nothing compares with NULL.
Compares(stored, op, v) ==
  /\ v # "null"
  /\ CASE op \in {"", "_eq"} -> stored = v
       [] op = "_ne" -> stored # v
       [] op = "_gt" -> Rank(stored) > Rank(v)
       [] op = "_gte" -> Rank(stored) >= Rank(v)
       [] op = "_lt" -> Rank(stored) < Rank(v)
       [] op = "_lte" -> Rank(stored) <= Rank(v)
       [] op = "_contains" -> v \in {"", stored}

Stored(r, c) == IF c = "id" THEN r ELSE rows[r][c]

Matching(where) ==
  {r \in RowIds : /\ rows[r] # NoRow
                  /\ \A i \in 1 .. Len(where.conds) :
                       Compares(Stored(r, where.conds[i].col), where.conds[i].op, where.values[i])}

\* A query as it is sent: each argument under the column's name and the suffix.
RenderFilter(f) ==
  [ok |-> TRUE, verb |-> "query",
   args |-> [i \in 1 .. Len(f) |-> << f[i][1] \o f[i][3], f[i][2] >>]]

\* buildDetailQuery: every column of the row with the id.
BuildDetailQuery(id) == [ok |-> TRUE, verb |-> "query", args |-> << << "id", id >> >>]

-----------------------------------------------------------------------------
\* A caller saves a data map or deletes an id; what does not build is not sent.
Post(m, built) ==
  /\ made < MaxCalls
  /\ made' = made + 1
  /\ calls' = IF built.ok THEN calls \cup {[n |-> made, map |-> m, verb |-> built.verb,
                                           args |-> built.args, stage |-> "posted", id |-> "-"]}
              ELSE calls
  /\ UNCHANGED << rows, read >>

Save == \E m \in Maps : Post(m, BuildMutationFromMap(m))

Delete == \E r \in RowIds : Post(<< << "id", r >> >>, BuildDeleteMutation(r))

Query == \E f \in Filters : Post(f, RenderFilter(f))

Detail == \E r \in RowIds : Post(<< << "id", r, "" >> >>, BuildDetailQuery(r))

\* What a resolver returns at once: the row it wrote (rows[0], undefined if there is
\* none), or for a delete the id, which only RETURNING leaves out for an absent row.
Answer(q, id) ==
  LET there == id \in RowIds /\ rows[id] # NoRow
  IN IF q.verb = "delete"
     THEN [n |-> q.n, id |-> IF Returning /\ ~there THEN "-" ELSE id, row |-> NoRow]
     ELSE [n |-> q.n, id |-> id, row |-> IF id \in RowIds THEN rows'[id] ELSE NoRow]

\* makeUpdateResolver, makeInsertResolver, makeDeleteResolver: the statement, and
\* the row with it if the dialect returns it.  Without RETURNING an insert whose
\* driver names no id fails after the write ("insert did not return an id").
Execute ==
  \E q \in calls :
    /\ q.stage = "posted" /\ q.verb # "query"
    /\ LET cmd == Command(q.verb, q.args)
           last == IF cmd.values = << >> THEN "-" ELSE cmd.values[Len(cmd.values)]
           fresh == {r \in RowIds : rows[r] = NoRow}
       IN IF Keys(q.args) \subseteq SchemaArgs(q.verb) /\ ~Refused(cmd)
          THEN \E id \in IF q.verb = "insert" THEN fresh ELSE {last} :
                 /\ rows' = Run(cmd, id)
                 /\ IF Returning \/ q.verb = "delete"
                    THEN /\ calls' = calls \ {q}
                         /\ read' = read \cup {Answer(q, id)}
                    ELSE /\ \/ calls' = (calls \ {q}) \cup
                                          {[q EXCEPT !.stage = "written", !.id = id]}
                            \/ q.verb = "insert" /\ calls' = calls \ {q}
                         /\ UNCHANGED read
          ELSE calls' = calls \ {q} /\ UNCHANGED << rows, read >>
    /\ UNCHANGED made

\* The second round trip: SELECT ... WHERE id.
Reread ==
  \E q \in calls :
    /\ q.stage = "written"
    /\ calls' = calls \ {q}
    /\ read' = read \cup {[n |-> q.n, id |-> q.id,
                            row |-> IF q.id \in RowIds THEN rows[q.id] ELSE NoRow]}
    /\ UNCHANGED << rows, made >>

\* makeQueryResolver: the rows that meet the clause; an argument the schema does
\* not have fails the query.
Select ==
  \E q \in calls :
    /\ q.stage = "posted" /\ q.verb = "query"
    /\ calls' = calls \ {q}
    /\ read' = IF Keys(q.args) \subseteq SchemaArgs("query")
               THEN read \cup {[n |-> q.n, id |-> r, row |-> rows[r]] :
                                  r \in Matching(BuildWhereClause(q.args))}
               ELSE read
    /\ UNCHANGED << rows, made >>

Next == Save \/ Delete \/ Query \/ Detail \/ Execute \/ Reread \/ Select

Spec == Init /\ [][Next]_gqlPackage

-----------------------------------------------------------------------------
\* What the package promises of a data map, without parameters or positions: the
\* columns that are named and settable get their value, in the named row or in a
\* new one, and nothing else changes.
Overlay(m, row) ==
  [c \in Cols |-> IF c \in Keys(m) /\ c # "id" /\ ~Column(c).readOnly
                  THEN FormatArg(Column(c).type, ValueOf(m, c)) ELSE row[c]]

SavedAs(q, r) ==
  CASE q.verb = "delete" -> IF r = ValueOf(q.map, "id") THEN rows'[r] = NoRow
                            ELSE rows'[r] = rows[r]
    [] q.verb = "update" -> \/ rows'[r] = rows[r] /\ r # FormatIntLiteral(ValueOf(q.map, "id"))
                            \/ /\ r = FormatIntLiteral(ValueOf(q.map, "id"))
                               /\ rows'[r] = IF rows[r] = NoRow THEN NoRow
                                             ELSE Overlay(q.map, rows[r])
    [] q.verb = "insert" -> \/ rows'[r] = rows[r]
                            \/ rows[r] = NoRow /\ rows'[r] = Overlay(q.map, [c \in Cols |-> "default"])

\* What a filter asks for, without names or positions.
Meets(r, f) ==
  rows[r] # NoRow /\ \A i \in 1 .. Len(f) : (f[i][2] = "null" /\ f[i][1] # "id")
                                           \/ Compares(Stored(r, f[i][1]), f[i][3], f[i][2])

\* A statement does what its caller's data map or filter says: the parameters
\* reach their columns and the id its row, whatever the order of the keys and
\* however many readonly columns were dropped on the way, and a query that is not
\* refused returns the rows its filter names and no other.
StoreStep ==
  \A q \in calls : q \notin calls' /\ q.stage = "posted" =>
    /\ rows' # rows => \A r \in RowIds : SavedAs(q, r)
    /\ q.verb = "query" /\ Keys(q.args) \subseteq QueryArgs
         => {a.id : a \in {b \in read' : b.n = q.n}} = {r \in RowIds : Meets(r, q.map)}

StoredAsAsked == [][StoreStep]_gqlPackage
=============================================================================
