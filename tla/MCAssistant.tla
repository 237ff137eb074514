----------------------------- MODULE MCAssistant -----------------------------
(***************************************************************************)
(* The designer's assistant with two domains, one view and two drafts: the *)
(* words of "a" name both domains, those of "b" name nothing.              *)
(***************************************************************************)
EXTENDS Assistant

Named ==
  [a |-> [domains |-> {"d1", "d2"}, view |-> "v1"],
   b |-> [domains |-> {}, view |-> NoView]]

Close ==
  [a |-> [domain |-> "d1", dBand |-> "mid", view |-> "v1", vBand |-> "high"],
   b |-> [domain |-> "d2", dBand |-> "high", view |-> "v1", vBand |-> "mid"]]
=============================================================================
