--------------------------- MODULE MCDomainCache ---------------------------
(* Small instances of DomainCache: two rows that may declare one domain,    *)
(* with the write granted, or denied by the first of two entries.           *)
EXTENDS DomainCache

CONSTANTS granted, denied

MCDefs == {granted, denied}
MCNameOf == [d \in MCDefs |-> "orders"]
MCPermissionsOf ==
    LET clerk(actions) == [role |-> "clerk", actions |-> actions]
    IN  [d \in MCDefs |->
            IF d = granted THEN <<clerk({"read", "write"})>>
                           ELSE <<clerk({"read"}), clerk({"read", "write"})>>]
MCIds == 1..2
MCReqs == {"insert"}
MCReqOf == [r \in MCReqs |-> [domain |-> "orders", role |-> "clerk", action |-> "write"]]
=============================================================================
