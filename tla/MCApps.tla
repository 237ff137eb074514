---------------------------- MODULE MCApps ----------------------------
(***************************************************************************)
(* A small instance of Apps, for TLC: the designer, the observer, the      *)
(* bench and the packages.                                                 *)
(***************************************************************************)
EXTENDS Apps

\* The GraphQL package: a table with a readonly column, and data maps with each of
\* their keys left out, well typed, coercible or not, in two orders.
PersonColumns ==
  << [name |-> "id", type |-> "int", readOnly |-> TRUE, filterable |-> FALSE],
     [name |-> "age", type |-> "int", readOnly |-> FALSE, filterable |-> TRUE],
     [name |-> "active", type |-> "bool", readOnly |-> FALSE, filterable |-> TRUE],
     [name |-> "created", type |-> "string", readOnly |-> TRUE, filterable |-> TRUE] >>
Pair(k, v) == IF v = "undefined" THEN << >> ELSE << << k, v >> >>
DataMaps ==
  LET ids == {"undefined", "0", "0.5", "'2'", "3"}
      ages == {"undefined", "2.5", "'x'", "'2'"}
      flags == {"undefined", "0", "'x'"}
      dates == {"undefined", "'x'"}
  IN {Pair("id", i) \o Pair("age", a) \o Pair("active", b) \o Pair("created", c) :
        i \in ids, a \in ages, b \in flags, c \in dates}
     \cup {Pair("active", b) \o Pair("created", c) \o Pair("age", a) \o Pair("id", i) :
        i \in ids, a \in ages, b \in flags, c \in dates}
     \cup {Pair("nosuch", "0")}
Literals == << "0", "default", "old", "2" >>
QueryFilters ==
  {<< << "age", v, op >> >> : v \in {"0", "2"}, op \in {"", "_gt", "_gte", "_lt", "_lte", "_ne"}}
    \cup {<< << "created", "old", "_contains" >>, << "age", v, "_eq" >>, << "id", i, "" >> >> :
             v \in {"2", "null"}, i \in {"2", "null"}}
    \cup {<< << "active", "true", "_gt" >> >>, << << "id", "2", "_eq" >> >>}

AdminPanels == {"kv", "types", "events", "mappings", "grammar", "iam", "demo"}

MCDesRowIds == [domain |-> {"a", "b"}, view |-> {"a"}]
MCObsBusOf == [n1 |-> "u", n2 |-> "v"]
=============================================================================
