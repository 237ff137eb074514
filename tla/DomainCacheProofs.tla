------------------------- MODULE DomainCacheProofs -------------------------
(***************************************************************************)
(* Proofs about DomainCache for any number of rows, definitions, requests, *)
(* commits and waiting messages.                                           *)
(***************************************************************************)
EXTENDS DomainCache, SequenceTheorems, WellFoundedInduction, TLAPS

\* The least id of a set of ids is one of them.
LEMMA MinOfIds ==
    ASSUME NEW S \in SUBSET Nat, S # {}
    PROVE  Min(S) \in S
<1> DEFINE R == {ss \in Nat \X Nat : ss[1] < ss[2]}
<1>1. IsWellFoundedOn(R, Nat)
  BY NatLessThanWellFounded DEF OpToRel
<1> HIDE DEF R
<1>2. \E x \in S : \A y \in S : ~(<<y, x>> \in R)
  BY <1>1, WFMin
<1>3. \A x, y \in Nat : y < x => <<y, x>> \in R
  BY DEF R
<1>4. \E x \in S : \A y \in S : x =< y
  <2>1. PICK x \in S : \A y \in S : ~(<<y, x>> \in R)
    BY <1>2
  <2>2. \A y \in S : x =< y
    <3> SUFFICES ASSUME NEW y \in S PROVE x =< y
      OBVIOUS
    <3>1. x \in Nat /\ y \in Nat
      OBVIOUS
    <3>2. ~(y < x)
      BY <1>3, <2>1, <3>1
    <3>3. QED
      BY <3>1, <3>2
  <2>3. QED
    BY <2>2
<1>5. QED
  BY <1>4 DEF Min

-----------------------------------------------------------------------------
(* The inductive invariant.                                                *)

\* Messages are taken, and announced, only by a process that is ready.
QuietInv ==
    phase # "ready" =>
        /\ inbox = <<>>
        /\ reload = None
        /\ \A id \in Ids : told[id] = 0

\* A message announces a version the row has had.
ToldInv ==
    \A id \in Ids : told[id] <= Len(rows[id])

\* What load_all has read are versions of the rows, and it reads before the
\* service answers anything.
ScanInv ==
    scan # None =>
        /\ phase = "loading"
        /\ \A id \in Ids : \E v \in 1..Len(rows[id]) : scan[id] = rows[id][v]

\* What load_one has read is a version of the row, and not an older one than
\* the last message announced unless that message still waits; it is read
\* from the pool.
ReloadInv ==
    reload # None => pool /\
        \E v \in 1..Len(rows[reload.id]) :
            /\ reload.source = rows[reload.id][v]
            /\ (\A k \in DOMAIN inbox : inbox[k] # reload.id) => told[reload.id] <= v

\* AnnouncedVersionCached without its condition on the phase.
SettledInv ==
    \A id \in Ids : Settled(id) /\ told[id] > 0 =>
        \E v \in told[id]..Len(rows[id]) : cache[id] = Parsed(rows[id][v])

\* A cached definition is one its row has had.
HeldInv ==
    \A id \in Ids : cache[id] # None =>
        \E v \in 1..Len(rows[id]) : cache[id] = rows[id][v]

Inv ==
    /\ TypeOK
    /\ QuietInv
    /\ ToldInv
    /\ ScanInv
    /\ ReloadInv
    /\ SettledInv
    /\ HeldInv

-----------------------------------------------------------------------------
(* Types.                                                                  *)

(* The initial state is typed. *)
LEMMA TypeInit == Init => TypeOK
<1> SUFFICES ASSUME Init PROVE TypeOK
  OBVIOUS
<1> USE DEF Init
<1>1. PICK f \in [Ids -> Sources] : rows = [id \in Ids |-> <<f[id]>>]
  <2>1. \A id \in Ids : \E s \in Sources : rows[id] = <<s>>
    OBVIOUS
  <2> DEFINE g == [id \in Ids |-> rows[id][1]]
  <2>2. g \in [Ids -> Sources] /\ rows = [id \in Ids |-> <<g[id]>>]
    BY <2>1
  <2>3. QED
    BY <2>2
<1>2. /\ rows \in [Ids -> Seq(Sources)]
      /\ \A id \in Ids : Len(rows[id]) \in 1..(MaxVersions + 1)
  BY <1>1, BoundsAssumption
<1>3. /\ inbox \in Seq(Ids)
      /\ told \in [Ids -> 0..(MaxVersions + 1)]
  BY BoundsAssumption
<1>4. /\ scan = None
      /\ cache \in [Ids -> Defs \cup {None}]
      /\ reload = None
      /\ failed \in SUBSET Ids
      /\ gate \in [Reqs -> Defs \cup {"idle", "refused"}]
      /\ phase \in {"down", "loading", "loaded", "serving", "ready"}
      /\ pool \in BOOLEAN
  BY DEF EmptyCache
<1>5. QED
  BY <1>2, <1>3, <1>4 DEF TypeOK

\* The newest version of a row is one of its versions.
LEMMA LatestVersion ==
    ASSUME TypeOK, NEW id \in Ids
    PROVE  /\ Len(rows[id]) \in 1..Len(rows[id])
           /\ Latest(id) = rows[id][Len(rows[id])]
           /\ Latest(id) \in Sources
<1>1. rows[id] \in Seq(Sources) /\ Len(rows[id]) \in 1..(MaxVersions + 1)
  BY DEF TypeOK
<1>2. Len(rows[id]) \in 1..Len(rows[id])
  BY <1>1, BoundsAssumption
<1>3. QED
  BY <1>1, <1>2 DEF Latest

\* Taking the head of the inbox leaves ids, and none that was not there.
LEMMA InboxTail ==
    ASSUME TypeOK, inbox # <<>>
    PROVE  /\ Head(inbox) \in Ids
           /\ Tail(inbox) \in Seq(Ids)
           /\ \A id : (\A k \in DOMAIN Tail(inbox) : Tail(inbox)[k] # id) /\ Head(inbox) # id
                      => \A k \in DOMAIN inbox : inbox[k] # id
<1>1. inbox \in Seq(Ids)
  BY DEF TypeOK
<1>2. /\ Head(inbox) \in Ids /\ Head(inbox) = inbox[1]
      /\ Tail(inbox) \in Seq(Ids) /\ Len(Tail(inbox)) = Len(inbox) - 1
      /\ \A k \in 1..(Len(inbox) - 1) : Tail(inbox)[k] = inbox[k + 1]
      /\ Len(inbox) \in Nat
  BY <1>1
<1>3. ASSUME NEW id, \A k \in DOMAIN Tail(inbox) : Tail(inbox)[k] # id, Head(inbox) # id,
             NEW k \in DOMAIN inbox
      PROVE  inbox[k] # id
  <2>1. k \in 1..Len(inbox) /\ DOMAIN Tail(inbox) = 1..(Len(inbox) - 1)
    BY <1>1, <1>2
  <2>2. CASE k = 1
    BY <1>2, <1>3, <2>2
  <2>3. CASE k # 1
    <3>1. k - 1 \in 1..(Len(inbox) - 1) /\ (k - 1) + 1 = k
      BY <1>2, <2>1, <2>3
    <3>2. Tail(inbox)[k - 1] = inbox[k]
      BY <1>2, <3>1
    <3>3. QED
      BY <1>3, <2>1, <3>1, <3>2
  <2>4. QED
    BY <2>2, <2>3
<1>4. QED
  BY <1>2, <1>3

\* Every step leaves every variable with its type.
LEMMA TypeStep == TypeOK /\ [Next]_vars => TypeOK'
<1> SUFFICES ASSUME TypeOK, [Next]_vars PROVE TypeOK'
  OBVIOUS
<1> USE DEF TypeOK
<1>1. ASSUME NEW id \in Ids, NEW s \in Sources, Commit(id, s) PROVE TypeOK'
  <2>1. /\ rows[id] \in Seq(Sources) /\ Len(rows[id]) \in Nat
        /\ Len(rows[id]) <= MaxVersions
    BY <1>1 DEF Commit
  <2>2. /\ Append(rows[id], s) \in Seq(Sources)
        /\ Len(Append(rows[id], s)) = Len(rows[id]) + 1
    BY <2>1
  <2>3. rows' = [rows EXCEPT ![id] = Append(rows[id], s)]
    BY <1>1 DEF Commit
  <2>4. rows' \in [Ids -> Seq(Sources)]
    BY <2>2, <2>3
  <2>5. ASSUME NEW i \in Ids PROVE Len(rows'[i]) \in 1..(MaxVersions + 1)
    <3>1. CASE i = id
      BY <2>1, <2>2, <2>3, <3>1, BoundsAssumption
    <3>2. CASE i # id
      BY <2>3, <3>2
    <3>3. QED
      BY <3>1, <3>2
  <2>6. QED
    BY <1>1, <2>4, <2>5 DEF Commit
<1>2. ASSUME NEW id \in Ids, Publish(id) PROVE TypeOK'
  <2>1. inbox' \in Seq(Ids)
    BY <1>2 DEF Publish
  <2>2. told' \in [Ids -> 0..(MaxVersions + 1)]
    BY <1>2, BoundsAssumption DEF Publish
  <2>3. QED
    BY <1>2, <2>1, <2>2 DEF Publish
<1>3. ASSUME BootStep PROVE TypeOK'
  <2>1. CASE Boot
    BY <2>1 DEF Boot
  <2>2. CASE LoadAllSelect
    <3>1. scan' \in [Ids -> Sources]
      BY <2>2, LatestVersion DEF LoadAllSelect
    <3>2. QED
      BY <2>2, <3>1 DEF LoadAllSelect
  <2>3. CASE LoadAllApply
    <3>1. cache' \in [Ids -> Defs \cup {None}]
      BY <2>3 DEF LoadAllApply, Parsed
    <3>2. QED
      BY <2>3, <3>1 DEF LoadAllApply
  <2>4. CASE LoadAllSkipped
    BY <2>4 DEF LoadAllSkipped
  <2>5. CASE ServeCommands
    BY <2>5 DEF ServeCommands
  <2>6. CASE StartNotify
    BY <2>6 DEF StartNotify
  <2>7. QED
    BY <1>3, <2>1, <2>2, <2>3, <2>4, <2>5, <2>6 DEF BootStep
<1>4. ASSUME Stop PROVE TypeOK'
  <2>1. inbox' \in Seq(Ids) /\ told' \in [Ids -> 0..(MaxVersions + 1)]
    BY <1>4, BoundsAssumption DEF Stop
  <2>2. gate' \in [Reqs -> Defs \cup {"idle", "refused"}]
    BY <1>4 DEF Stop
  <2>3. QED
    BY <1>4, <2>1, <2>2 DEF Stop, EmptyCache
<1>5. ASSUME NotifyStep PROVE TypeOK'
  <2>1. CASE ReloadSelect
    <3>1. Head(inbox) \in Ids /\ Tail(inbox) \in Seq(Ids)
      BY <2>1, InboxTail DEF ReloadSelect
    <3>2. Latest(Head(inbox)) \in Sources
      BY <3>1, LatestVersion
    <3>3. reload' \in [id : Ids, source : Sources]
      BY <2>1, <3>1, <3>2 DEF ReloadSelect
    <3>4. QED
      BY <2>1, <3>1, <3>3 DEF ReloadSelect
  <2>2. CASE ReloadApply
    <3>1. reload \in [id : Ids, source : Sources]
      BY <2>2 DEF ReloadApply
    <3>2. cache' \in [Ids -> Defs \cup {None}]
      BY <2>2, <3>1 DEF ReloadApply, Parsed
    <3>3. QED
      BY <2>2, <3>2 DEF ReloadApply
  <2>3. CASE ReloadFails
    BY <2>3, InboxTail DEF ReloadFails
  <2>4. CASE ReloadNothing
    BY <2>4, InboxTail DEF ReloadNothing
  <2>5. QED
    BY <1>5, <2>1, <2>2, <2>3, <2>4 DEF NotifyStep
<1>6. ASSUME NEW r \in Reqs, Mutate(r) \/ MutateDone(r) PROVE TypeOK'
  <2>1. ASSUME MutateAccepted(r) PROVE Get(ReqOf[r].domain) \in Defs
    <3> DEFINE N == Named(ReqOf[r].domain)
    <3>1. N # {} /\ N \in SUBSET Nat
      BY <2>1, IdsAssumption DEF MutateAccepted, Get, Named
    <3>2. Min(N) \in N
      BY <3>1, MinOfIds
    <3>3. QED
      BY <3>1, <3>2 DEF Get, Named
  <2>2. gate' \in [Reqs -> Defs \cup {"idle", "refused"}]
    <3>1. CASE Mutate(r)
      BY <2>1, <3>1 DEF Mutate
    <3>2. CASE MutateDone(r)
      BY <3>2 DEF MutateDone
    <3>3. QED
      BY <1>6, <3>1, <3>2
  <2>3. UNCHANGED <<rows, phase, pool, scan, cache, inbox, reload, told, failed>>
    BY <1>6 DEF Mutate, MutateDone
  <2>4. QED
    BY <2>2, <2>3
<1>7. CASE UNCHANGED vars
  BY <1>7 DEF vars
<1>8. QED
  BY <1>1, <1>2, <1>3, <1>4, <1>5, <1>6, <1>7 DEF Next

-----------------------------------------------------------------------------
(* The parts of the invariant.                                             *)

\* A commit adds a version and takes none away.
LEMMA CommitKeeps ==
    ASSUME TypeOK, NEW id \in Ids, NEW s \in Sources, Commit(id, s)
    PROVE  \A i \in Ids :
              /\ Len(rows[i]) \in Nat /\ Len(rows'[i]) \in Nat
              /\ Len(rows[i]) <= Len(rows'[i])
              /\ \A v \in 1..Len(rows[i]) : rows'[i][v] = rows[i][v]
<1> SUFFICES ASSUME NEW i \in Ids
             PROVE  /\ Len(rows[i]) \in Nat /\ Len(rows'[i]) \in Nat
                    /\ Len(rows[i]) <= Len(rows'[i])
                    /\ \A v \in 1..Len(rows[i]) : rows'[i][v] = rows[i][v]
  OBVIOUS
<1>1. rows[i] \in Seq(Sources) /\ Len(rows[i]) \in Nat
  BY DEF TypeOK
<1>2. rows' = [rows EXCEPT ![id] = Append(rows[id], s)] /\ rows \in [Ids -> Seq(Sources)]
  BY DEF Commit, TypeOK
<1>3. CASE i = id
  <2>1. rows'[i] = Append(rows[i], s)
    BY <1>2, <1>3
  <2>2. /\ Len(Append(rows[i], s)) = Len(rows[i]) + 1
        /\ \A v \in 1..Len(rows[i]) : Append(rows[i], s)[v] = rows[i][v]
    BY <1>1
  <2>3. QED
    BY <1>1, <2>1, <2>2
<1>4. CASE i # id
  <2>1. rows'[i] = rows[i]
    BY <1>2, <1>4
  <2>2. QED
    BY <1>1, <2>1
<1>5. QED
  BY <1>3, <1>4

\* The announced version is never behind the row's versions, and both are
\* numbers.
LEMMA VersionNumbers ==
    ASSUME TypeOK, NEW id \in Ids
    PROVE  Len(rows[id]) \in Nat /\ told[id] \in Nat
<1>1. QED
  BY BoundsAssumption DEF TypeOK

(* Before the boot scan nothing is announced, selected or cached. *)
LEMMA InvInit == Init => Inv
<1> SUFFICES ASSUME Init PROVE Inv
  OBVIOUS
<1>1. TypeOK
  BY TypeInit
<1>2. QuietInv /\ ScanInv /\ ReloadInv /\ HeldInv
  BY DEF Init, QuietInv, ScanInv, ReloadInv, HeldInv, EmptyCache
<1>3. ToldInv /\ SettledInv
  BY <1>1, VersionNumbers DEF Init, ToldInv, SettledInv, Settled
<1>4. QED
  BY <1>1, <1>2, <1>3 DEF Inv

\* A commit adds a version behind those that were read or announced.
LEMMA CommitStep ==
    ASSUME Inv, NEW id \in Ids, NEW s \in Sources, Commit(id, s)
    PROVE  QuietInv' /\ ToldInv' /\ ScanInv' /\ ReloadInv' /\ SettledInv' /\ HeldInv'
<1>1. TypeOK
  BY DEF Inv
<1>2. UNCHANGED <<phase, pool, scan, cache, inbox, reload, told, failed, gate>>
  BY DEF Commit
<1>3. \A i \in Ids :
              /\ Len(rows[i]) \in Nat /\ Len(rows'[i]) \in Nat /\ told[i] \in Nat
              /\ Len(rows[i]) <= Len(rows'[i])
              /\ \A v \in 1..Len(rows[i]) : rows'[i][v] = rows[i][v]
  BY <1>1, CommitKeeps, VersionNumbers
<1>4. \A i \in Ids : \A v \in 1..Len(rows[i]) :
        v \in 1..Len(rows'[i]) /\ rows'[i][v] = rows[i][v]
  BY <1>3
<1>5. QuietInv'
  BY <1>2 DEF Inv, QuietInv
<1>6. ToldInv'
  BY <1>2, <1>3 DEF Inv, ToldInv
<1>7. ScanInv'
  BY <1>2, <1>4 DEF Inv, ScanInv
<1>8. ReloadInv'
  <2> SUFFICES ASSUME reload # None, pool
               PROVE  \E v \in 1..Len(rows'[reload.id]) :
                         /\ reload.source = rows'[reload.id][v]
                         /\ (\A k \in DOMAIN inbox : inbox[k] # reload.id)
                                => told[reload.id] <= v
    BY <1>2 DEF Inv, ReloadInv
  <2>1. reload.id \in Ids
    BY <1>1 DEF TypeOK
  <2>2. QED
    BY <1>4, <2>1 DEF Inv, ReloadInv
<1>9. SettledInv'
  <2> SUFFICES ASSUME NEW i \in Ids, Settled(i), told[i] > 0
               PROVE  \E v \in told[i]..Len(rows'[i]) : cache[i] = Parsed(rows'[i][v])
    BY <1>2 DEF SettledInv, Settled
  <2>1. PICK v \in told[i]..Len(rows[i]) : cache[i] = Parsed(rows[i][v])
    BY DEF Inv, SettledInv
  <2>2. v \in 1..Len(rows[i]) /\ v \in told[i]..Len(rows'[i])
    BY <1>3
  <2>3. QED
    BY <1>4, <2>1, <2>2
<1>10. HeldInv'
  BY <1>2, <1>4 DEF Inv, HeldInv
<1>11. QED
  BY <1>5, <1>6, <1>7, <1>8, <1>9, <1>10

\* A message in the inbox suspends what is promised about its row.
LEMMA PublishStep ==
    ASSUME Inv, NEW id \in Ids, Publish(id)
    PROVE  QuietInv' /\ ToldInv' /\ ScanInv' /\ ReloadInv' /\ SettledInv' /\ HeldInv'
<1>1. TypeOK
  BY DEF Inv
<1>2. /\ UNCHANGED <<rows, phase, pool, scan, cache, reload, failed, gate>>
      /\ phase = "ready"
      /\ inbox' = Append(inbox, id)
      /\ told' = [told EXCEPT ![id] = Len(rows[id])]
  BY DEF Publish
<1>3. /\ \A i \in Ids : i # id => told'[i] = told[i]
      /\ told'[id] = Len(rows[id])
  BY <1>1, <1>2 DEF TypeOK
<1>4. \A i : (\A k \in DOMAIN inbox' : inbox'[k] # i)
                => i # id /\ \A k \in DOMAIN inbox : inbox[k] # i
  <2>1. inbox \in Seq(Ids) /\ Len(inbox) \in Nat
    BY <1>1 DEF TypeOK
  <2>2. /\ DOMAIN inbox' = 1..(Len(inbox) + 1)
        /\ inbox'[Len(inbox) + 1] = id
        /\ DOMAIN inbox = 1..Len(inbox)
        /\ \A k \in 1..Len(inbox) : inbox'[k] = inbox[k]
    BY <1>2, <2>1
  <2>3. Len(inbox) + 1 \in DOMAIN inbox' /\ \A k \in DOMAIN inbox : k \in DOMAIN inbox'
    BY <2>1, <2>2
  <2>4. QED
    BY <2>2, <2>3
<1>5. QuietInv' /\ ScanInv' /\ HeldInv'
  BY <1>2 DEF Inv, QuietInv, ScanInv, HeldInv
<1>6. ToldInv'
  BY <1>1, <1>2, <1>3, VersionNumbers DEF Inv, ToldInv
<1>7. ReloadInv'
  <2> SUFFICES ASSUME reload # None, pool
               PROVE  \E v \in 1..Len(rows[reload.id]) :
                         /\ reload.source = rows[reload.id][v]
                         /\ (\A k \in DOMAIN inbox' : inbox'[k] # reload.id)
                                => told'[reload.id] <= v
    BY <1>2 DEF Inv, ReloadInv
  <2>1. reload.id \in Ids
    BY <1>1 DEF TypeOK
  <2>2. QED
    BY <1>3, <1>4, <2>1 DEF Inv, ReloadInv
<1>8. SettledInv'
  <2> SUFFICES ASSUME NEW i \in Ids, Settled(i)', told'[i] > 0
               PROVE  \E v \in told'[i]..Len(rows[i]) : cache[i] = Parsed(rows[i][v])
    BY <1>2 DEF SettledInv
  <2>1. i # id /\ Settled(i)
    BY <1>2, <1>4 DEF Settled
  <2>2. told'[i] = told[i]
    BY <1>3, <2>1
  <2>3. QED
    BY <2>1, <2>2 DEF Inv, SettledInv
<1>9. QED
  BY <1>5, <1>6, <1>7, <1>8

\* Until the subscription exists no version is announced.
LEMMA BootKeeps ==
    ASSUME Inv, BootStep \/ Stop
    PROVE  QuietInv' /\ ToldInv' /\ ScanInv' /\ ReloadInv' /\ SettledInv' /\ HeldInv'
<1>1. TypeOK
  BY DEF Inv
<1>2. /\ rows' = rows
      /\ inbox' = <<>> /\ reload' = None
      /\ \A id \in Ids : told'[id] = 0
  <2>1. CASE Stop
    BY <2>1 DEF Stop
  <2>2. CASE BootStep
    <3>1. phase # "ready"
      BY <2>2 DEF BootStep, Boot, LoadAllSelect, LoadAllApply, LoadAllSkipped, ServeCommands,
                  StartNotify, Inv, ScanInv
    <3>2. UNCHANGED <<rows, inbox, reload, told>>
      BY <2>2 DEF BootStep, Boot, LoadAllSelect, LoadAllApply, LoadAllSkipped, ServeCommands,
                  StartNotify
    <3>3. QED
      BY <3>1, <3>2 DEF Inv, QuietInv
  <2>3. QED
    BY <2>1, <2>2
<1>3. QuietInv' /\ ReloadInv'
  BY <1>2 DEF QuietInv, ReloadInv
<1>4. ToldInv' /\ SettledInv'
  BY <1>1, <1>2, VersionNumbers DEF ToldInv, SettledInv
<1>5. ScanInv'
  <2>1. CASE LoadAllSelect
    BY <1>1, <1>2, <2>1, LatestVersion DEF LoadAllSelect, ScanInv
  <2>2. CASE Stop \/ LoadAllApply
    BY <2>2 DEF Stop, LoadAllApply, ScanInv
  <2>3. CASE Boot \/ LoadAllSkipped \/ ServeCommands \/ StartNotify
    BY <2>3 DEF Boot, LoadAllSkipped, ServeCommands, StartNotify, Inv, ScanInv
  <2>4. QED
    BY <2>1, <2>2, <2>3 DEF BootStep
<1>6. HeldInv'
  <2>1. CASE LoadAllApply
    <3> SUFFICES ASSUME NEW id \in Ids, cache'[id] # None
                 PROVE  \E v \in 1..Len(rows[id]) : cache'[id] = rows[id][v]
      BY <1>2 DEF HeldInv
    <3>1. cache'[id] = Parsed(scan[id]) /\ scan # None
      BY <2>1 DEF LoadAllApply
    <3>2. cache'[id] = scan[id]
      BY <3>1 DEF Parsed
    <3>3. QED
      BY <3>1, <3>2 DEF Inv, ScanInv
  <2>2. CASE Stop
    BY <2>2 DEF Stop, EmptyCache, HeldInv
  <2>3. CASE Boot \/ LoadAllSelect \/ LoadAllSkipped \/ ServeCommands \/ StartNotify
    BY <2>3 DEF Boot, LoadAllSelect, LoadAllSkipped, ServeCommands, StartNotify, Inv, HeldInv
  <2>4. QED
    BY <2>1, <2>2, <2>3 DEF BootStep
<1>7. QED
  BY <1>3, <1>4, <1>5, <1>6

\* The notify task takes the messages in order; what it reads is as new as
\* the message, and what it writes is what it read.
LEMMA NotifyKeeps ==
    ASSUME Inv, NotifyStep
    PROVE  QuietInv' /\ ToldInv' /\ ScanInv' /\ ReloadInv' /\ SettledInv' /\ HeldInv'
<1>1. TypeOK
  BY DEF Inv
<1>2. UNCHANGED <<rows, phase, pool, scan, told>>
  BY DEF NotifyStep, ReloadSelect, ReloadApply, ReloadFails, ReloadNothing
<1>3. phase = "ready"
  BY DEF NotifyStep, ReloadSelect, ReloadApply, ReloadFails, ReloadNothing, Inv, QuietInv
<1>4. QuietInv' /\ ToldInv' /\ ScanInv'
  BY <1>2, <1>3 DEF Inv, QuietInv, ToldInv, ScanInv
<1>5. ASSUME ReloadSelect PROVE ReloadInv' /\ SettledInv' /\ HeldInv'
  <2> DEFINE id == Head(inbox)
  <2>1. /\ reload = None /\ inbox # <<>>
        /\ reload' = [id |-> id, source |-> Latest(id)]
        /\ inbox' = Tail(inbox)
        /\ pool /\ UNCHANGED <<cache, failed>>
    BY <1>5 DEF ReloadSelect
  <2>2. id \in Ids
    BY <1>1, <2>1, InboxTail
  <2>3. ReloadInv'
    <3>1. reload'.id = id /\ reload'.source = Latest(id)
      BY <2>1
    <3>2. Len(rows[id]) \in 1..Len(rows[id]) /\ Latest(id) = rows[id][Len(rows[id])]
      BY <1>1, <2>2, LatestVersion
    <3>3. told[id] <= Len(rows[id])
      BY <2>2 DEF Inv, ToldInv
    <3>4. QED
      BY <1>2, <2>1, <3>1, <3>2, <3>3 DEF ReloadInv
  <2>4. SettledInv'
    <3> SUFFICES ASSUME NEW i \in Ids, Settled(i)', told[i] > 0
                 PROVE  \E v \in told[i]..Len(rows[i]) : cache[i] = Parsed(rows[i][v])
      BY <1>2, <2>1 DEF SettledInv
    <3>1. i # id
      <4>1. reload' # None
        <5>1. reload' \in [id : Ids, source : Sources]
          BY <1>1, <2>1, <2>2, LatestVersion
        <5>2. QED
          BY <5>1, SourcesAssumption DEF Sources
      <4>2. reload'.id = id
        BY <2>1
      <4>3. QED
        BY <4>1, <4>2 DEF Settled
    <3>2. \A k \in DOMAIN inbox : inbox[k] # i
      BY <1>1, <2>1, <3>1, InboxTail DEF Settled
    <3>3. Settled(i)
      BY <1>2, <2>1, <3>2 DEF Settled
    <3>4. QED
      BY <3>3 DEF Inv, SettledInv
  <2>5. HeldInv'
    BY <1>2, <2>1 DEF Inv, HeldInv
  <2>6. QED
    BY <2>3, <2>4, <2>5
<1>6. ASSUME ReloadApply PROVE ReloadInv' /\ SettledInv' /\ HeldInv'
  <2> DEFINE id == reload.id
  <2>1. /\ reload # None /\ reload' = None
        /\ cache' = [cache EXCEPT ![id] = Parsed(reload.source)]
        /\ failed' = failed \ {id}
        /\ UNCHANGED inbox
    BY <1>6 DEF ReloadApply
  <2>2. id \in Ids /\ cache \in [Ids -> Defs \cup {None}]
    BY <1>1, <2>1 DEF TypeOK
  <2>3. /\ cache'[id] = Parsed(reload.source)
        /\ \A i \in Ids : i # id => cache'[i] = cache[i]
    BY <2>1, <2>2
  <2>4. PICK v \in 1..Len(rows[id]) :
            /\ reload.source = rows[id][v]
            /\ (\A k \in DOMAIN inbox : inbox[k] # id) => told[id] <= v
    BY <2>1 DEF Inv, ReloadInv
  <2>5. ReloadInv'
    BY <2>1 DEF ReloadInv
  <2>6. SettledInv'
    <3> SUFFICES ASSUME NEW i \in Ids, Settled(i)', told[i] > 0
                 PROVE  \E w \in told[i]..Len(rows[i]) : cache'[i] = Parsed(rows[i][w])
      BY <1>2, <2>1 DEF SettledInv
    <3>1. CASE i = id
      <4>1. told[id] <= v
        BY <2>1, <2>4, <3>1 DEF Settled
      <4>2. v \in told[id]..Len(rows[id])
        BY <1>1, <2>2, <4>1, VersionNumbers
      <4>3. QED
        BY <2>3, <2>4, <3>1, <4>2
    <3>2. CASE i # id
      <4>1. Settled(i)
        BY <1>2, <2>1, <3>2 DEF Settled
      <4>2. QED
        BY <2>3, <3>2, <4>1 DEF Inv, SettledInv
    <3>3. QED
      BY <3>1, <3>2
  <2>7. HeldInv'
    <3> SUFFICES ASSUME NEW i \in Ids, cache'[i] # None
                 PROVE  \E w \in 1..Len(rows[i]) : cache'[i] = rows[i][w]
      BY <1>2 DEF HeldInv
    <3>1. CASE i = id
      BY <2>3, <2>4, <3>1 DEF Parsed
    <3>2. CASE i # id
      BY <2>3, <3>2 DEF Inv, HeldInv
    <3>3. QED
      BY <3>1, <3>2
  <2>8. QED
    BY <2>5, <2>6, <2>7
<1>7. ASSUME ReloadFails PROVE ReloadInv' /\ SettledInv' /\ HeldInv'
  <2>1. /\ reload = None /\ inbox # <<>>
        /\ inbox' = Tail(inbox)
        /\ failed' = failed \cup {Head(inbox)}
        /\ UNCHANGED <<cache, reload>>
    BY <1>7 DEF ReloadFails
  <2>2. ReloadInv' /\ HeldInv'
    BY <1>2, <2>1 DEF Inv, ReloadInv, HeldInv
  <2>3. SettledInv'
    <3> SUFFICES ASSUME NEW i \in Ids, Settled(i)', told[i] > 0
                 PROVE  \E v \in told[i]..Len(rows[i]) : cache[i] = Parsed(rows[i][v])
      BY <1>2, <2>1 DEF SettledInv
    <3>1. Head(inbox) # i
      BY <2>1 DEF Settled
    <3>2. \A k \in DOMAIN inbox : inbox[k] # i
      BY <1>1, <2>1, <3>1, InboxTail DEF Settled
    <3>3. Settled(i)
      BY <1>2, <2>1, <3>2 DEF Settled
    <3>4. QED
      BY <3>3 DEF Inv, SettledInv
  <2>4. QED
    BY <2>2, <2>3
<1>8. ASSUME ReloadNothing PROVE ReloadInv' /\ SettledInv' /\ HeldInv'
  <2>1. ~pool /\ inbox # <<>> /\ inbox' = Tail(inbox) /\ UNCHANGED <<cache, reload>>
    BY <1>8 DEF ReloadNothing
  <2>2. SettledInv' /\ HeldInv'
    BY <1>2, <2>1 DEF Inv, SettledInv, HeldInv, Settled
  <2>3. ReloadInv'
    BY <1>2, <2>1 DEF Inv, ReloadInv
  <2>4. QED
    BY <2>2, <2>3
<1>9. QED
  BY <1>4, <1>5, <1>6, <1>7, <1>8 DEF NotifyStep

\* The inductive step.
LEMMA InvStep == Inv /\ [Next]_vars => Inv'
<1> SUFFICES ASSUME Inv, [Next]_vars PROVE Inv'
  OBVIOUS
<1>1. TypeOK'
  BY TypeStep DEF Inv
<1>2. QuietInv' /\ ToldInv' /\ ScanInv' /\ ReloadInv' /\ SettledInv' /\ HeldInv'
  <2>1. CASE \E id \in Ids, s \in Sources : Commit(id, s)
    BY <2>1, CommitStep
  <2>2. CASE \E id \in Ids : Publish(id)
    BY <2>2, PublishStep
  <2>3. CASE BootStep \/ Stop
    BY <2>3, BootKeeps
  <2>4. CASE NotifyStep
    BY <2>4, NotifyKeeps
  <2>5. CASE UNCHANGED vars \/ \E r \in Reqs : Mutate(r) \/ MutateDone(r)
    <3>1. UNCHANGED <<rows, phase, pool, scan, cache, inbox, reload, told, failed>>
      BY <2>5 DEF vars, Mutate, MutateDone
    <3>2. QED
      BY <3>1 DEF Inv, QuietInv, ToldInv, ScanInv, ReloadInv, SettledInv, Settled, HeldInv
  <2>6. QED
    BY <2>1, <2>2, <2>3, <2>4, <2>5 DEF Next
<1>3. QED
  BY <1>1, <1>2 DEF Inv

-----------------------------------------------------------------------------
(* The theorems.                                                           *)

\* The invariant holds in every state of every run of the service.
LEMMA InvHolds == Spec => []Inv
<1>1. QED
  BY InvInit, InvStep, PTL DEF Spec

\* Every variable always has its type (domain_store.rs:24-32: at most one
\* definition per row id, one reload at a time).
THEOREM TypeCorrect == Spec => []TypeOK
<1>1. Inv => TypeOK
  BY DEF Inv
<1>2. QED
  BY <1>1, InvHolds, PTL

\* Once the messages about a row are worked off the cache holds the row as it
\* was at the last message or later (domain_store.rs:60-88, notify.rs).
THEOREM CacheTheorem == Spec => []AnnouncedVersionCached
<1>1. Inv => AnnouncedVersionCached
  BY DEF Inv, SettledInv, AnnouncedVersionCached
<1>2. QED
  BY <1>1, InvHolds, PTL

\* Passing the role gate means passing it under a version of one row.
LEMMA GateStep ==
    ASSUME Inv, NEW r \in Reqs, Mutate(r), gate'[r] \in Defs
    PROVE  \E id \in Ids :
             \E v \in (IF Settled(id) /\ told[id] > 0 THEN told[id] ELSE 1)..Len(rows[id]) :
                /\ rows[id][v] = gate'[r]
                /\ NameOf[gate'[r]] = ReqOf[r].domain
                /\ IsActionAllowed(gate'[r], ReqOf[r].role, ReqOf[r].action)
<1> DEFINE N == Named(ReqOf[r].domain)
           id == Min(N)
<1>1. TypeOK
  BY DEF Inv
<1>2. MutateAccepted(r) /\ gate'[r] = Get(ReqOf[r].domain)
  BY <1>1, SourcesAssumption DEF Mutate, TypeOK
<1>3. N # {} /\ N \in SUBSET Nat
  BY <1>2, IdsAssumption DEF MutateAccepted, Get, Named
<1>4. id \in N
  BY <1>3, MinOfIds
<1>5. gate'[r] = cache[id]
  BY <1>2, <1>3 DEF Get
<1> HIDE DEF id
<1>6. id \in Ids /\ cache[id] # None /\ NameOf[cache[id]] = ReqOf[r].domain
  BY <1>4 DEF Named
<1>7. IsActionAllowed(gate'[r], ReqOf[r].role, ReqOf[r].action)
  BY <1>2 DEF MutateAccepted
<1>8. CASE Settled(id) /\ told[id] > 0
  <2>1. PICK v \in told[id]..Len(rows[id]) : cache[id] = Parsed(rows[id][v])
    BY <1>6, <1>8 DEF Inv, SettledInv
  <2>2. cache[id] = rows[id][v]
    BY <1>6, <2>1 DEF Parsed
  <2>3. QED
    BY <1>5, <1>6, <1>7, <1>8, <2>2
<1>9. CASE ~(Settled(id) /\ told[id] > 0)
  <2>1. PICK v \in 1..Len(rows[id]) : cache[id] = rows[id][v]
    BY <1>6 DEF Inv, HeldInv
  <2>2. QED
    BY <1>5, <1>6, <1>7, <1>9, <2>1
<1>10. QED
  BY <1>8, <1>9

\* A statement runs only under a definition some row really had, granting the
\* action to the role by its first entry, and not under one a worked-off
\* message had replaced (data.rs:111-142, 382-389).
THEOREM GateTheorem == Spec => PermissionNotOutdated
<1> DEFINE Since(id) == IF Settled(id) /\ told[id] > 0 THEN told[id] ELSE 1
           Grants(d, r) ==
              LET own == {k \in DOMAIN PermissionsOf[d] :
                             PermissionsOf[d][k].role = ReqOf[r].role}
              IN  /\ d = gate'[r]
                  /\ NameOf[d] = ReqOf[r].domain
                  /\ own # {}
                  /\ ReqOf[r].action \in PermissionsOf[d][Min(own)].actions
           Step ==
              \A r \in Reqs : gate'[r] \in Defs /\ gate[r] \notin Defs =>
                 \E id \in Ids : \E v \in Since(id)..Len(rows[id]) : Grants(rows[id][v], r)
<1>1. ASSUME Inv, [Next]_vars PROVE [Step]_vars
  <2> SUFFICES ASSUME Next PROVE Step
    BY <1>1
  <2> SUFFICES ASSUME NEW r \in Reqs, gate'[r] \in Defs, gate[r] \notin Defs
               PROVE  \E id \in Ids : \E v \in Since(id)..Len(rows[id]) :
                         Grants(rows[id][v], r)
    OBVIOUS
  <2>1. gate \in [Reqs -> Defs \cup {"idle", "refused"}]
    BY <1>1 DEF Inv, TypeOK
  <2>2. gate' # gate
    OBVIOUS
  <2>3. PICK q \in Reqs : Mutate(q)
    <3>1. CASE Stop
      BY <2>1, <3>1, SourcesAssumption DEF Stop
    <3>2. CASE \E q \in Reqs : MutateDone(q)
      BY <2>1, <3>2, SourcesAssumption DEF MutateDone
    <3>3. CASE (\E id \in Ids, s \in Sources : Commit(id, s)) \/ \E id \in Ids : Publish(id)
      BY <2>2, <3>3 DEF Commit, Publish
    <3>4. CASE BootStep
      BY <2>2, <3>4 DEF BootStep, Boot, LoadAllSelect, LoadAllApply, LoadAllSkipped,
                        ServeCommands, StartNotify
    <3>5. CASE NotifyStep
      BY <2>2, <3>5 DEF NotifyStep, ReloadSelect, ReloadApply, ReloadFails, ReloadNothing
    <3>6. QED
      BY <3>1, <3>2, <3>3, <3>4, <3>5 DEF Next
  <2>4. q = r
    BY <2>1, <2>3 DEF Mutate
  <2>5. PICK id \in Ids : \E v \in Since(id)..Len(rows[id]) :
            /\ rows[id][v] = gate'[r]
            /\ NameOf[gate'[r]] = ReqOf[r].domain
            /\ IsActionAllowed(gate'[r], ReqOf[r].role, ReqOf[r].action)
    BY <1>1, <2>3, <2>4, GateStep
  <2>6. PICK v \in Since(id)..Len(rows[id]) :
            /\ rows[id][v] = gate'[r]
            /\ NameOf[gate'[r]] = ReqOf[r].domain
            /\ IsActionAllowed(gate'[r], ReqOf[r].role, ReqOf[r].action)
    BY <2>5
  <2>7. Grants(gate'[r], r)
    BY <2>6 DEF IsActionAllowed
  <2>8. Grants(rows[id][v], r)
    BY <2>6, <2>7
  <2> HIDE DEF Grants
  <2>9. QED
    BY <2>8
<1>2. QED
  BY <1>1, InvHolds, PTL DEF Spec, PermissionNotOutdated

=============================================================================
