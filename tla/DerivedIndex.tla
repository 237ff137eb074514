---------------------------- MODULE DerivedIndex ----------------------------
(***************************************************************************)
(* What oosai promises of a source table and the schema table derived from *)
(* it, whatever processes, tasks and failures produce the writes: a source *)
(* row is written by one save or delete at a time; a chunk is only ever    *)
(* derived from a text that is or was stored in a source row, and only     *)
(* under the name that text declares; it may lag behind the row, and it    *)
(* may be dropped, but it is never made up.                                *)
(***************************************************************************)
CONSTANTS Keys, Ids, Sources, NameOf, None

VARIABLES source, chunk, committed

Init ==
    /\ source \in [Ids -> Sources \cup {None}]
    /\ chunk = [k \in Keys |-> None]
    /\ committed = {source[i] : i \in Ids} \ {None}

Save(i, s) ==
    /\ source' = [source EXCEPT ![i] = s]
    /\ committed' = committed \cup {s}
    /\ UNCHANGED chunk

Delete(i) ==
    /\ source' = [source EXCEPT ![i] = None]
    /\ UNCHANGED <<chunk, committed>>

\* The chunk of a name is (re)derived from a stored text that declares it.
Derive(k, s) ==
    /\ s \in committed
    /\ NameOf[s] = k
    /\ chunk' = [chunk EXCEPT ![k] = s]
    /\ UNCHANGED <<source, committed>>

Drop(k) ==
    /\ chunk' = [chunk EXCEPT ![k] = None]
    /\ UNCHANGED <<source, committed>>

Next ==
    \/ \E i \in Ids : Delete(i) \/ \E s \in Sources : Save(i, s)
    \/ \E k \in Keys : Drop(k) \/ \E s \in Sources : Derive(k, s)

Spec == Init /\ [][Next]_<<source, chunk, committed>>
=============================================================================
