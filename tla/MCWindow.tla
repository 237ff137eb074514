---------------------------- MODULE MCWindow ----------------------------
(***************************************************************************)
(* A small instance of Window, for TLC: the parts of the oos window.       *)
(***************************************************************************)
EXTENDS Window

\* The composer: "people" names no domain and is close to P, "order" names O.
NamedDomain == [people |-> "unknown", order |-> "O"]
SimilarDomain == [people |-> "P", order |-> "O"]
Views ==
  [P |-> << [name |-> "pd", default |-> FALSE, shape |-> "detail", namedBy |-> {}],
            [name |-> "pl", default |-> FALSE, shape |-> "list", namedBy |-> {}] >>,
   O |-> << [name |-> "ol", default |-> TRUE, shape |-> "list", namedBy |-> {}] >>]

MCTabPanels == << "connection" >>
MCTabTopics == << "index" >>
MCStrMappingOf == [s1 |-> "m1", s2 |-> "m2"]
MCUiMappingOf == [s1 |-> "m1", s2 |-> "m2"]
MCStoTitle == [a |-> "x", b |-> "x"]
MCComQuestion == [c1 |-> "people"]
MCComCaption == [c1 |-> "order"]
=============================================================================
