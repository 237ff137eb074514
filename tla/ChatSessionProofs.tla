------------------------- MODULE ChatSessionProofs -------------------------
(***************************************************************************)
(* Proofs about ChatSession for any number of sends of any kind, chats and *)
(* loads in flight.                                                        *)
(***************************************************************************)
EXTENDS ChatSession, TLAPS

Sent(s) == step[s] \notin {"idle", "resolving"}

\* A send has an id and a chat from its start and a result at its end; the ids
\* in use are those of sends that were made.
ProgressInv ==
    \A s \in Sends :
        /\ Sent(s) <=> ids[s] # None
        /\ ids[s] # None => Sent(ids[s])
        /\ step[s] # "settled" => outcome[s] = None
        /\ s \in overlapped => Sent(s)

\* A turn that overlaps no other has its id to itself; while it runs it runs
\* alone and busy is up, and once it is settled its bubble is not pending.
SoloInv ==
    \A s \in Sends \ overlapped :
        /\ Active(s) => busy /\ \A u \in Sends : Active(u) => u = s
        /\ Sent(s) => \A u \in Sends : ids[u] = ids[s] => u = s
        /\ step[s] = "settled" => pending # ids[s]

\* What a bubble in a kept scrollback tells: its send was made, and one that
\* overlapped no other is settled and shows its result.
Told(content, s) ==
    content[s] # "absent" =>
        /\ Sent(s)
        /\ s \notin overlapped =>
              /\ step[s] = "settled"
              /\ outcome[s] \in {"own", "error"} => content[s] = outcome[s]

Belongs(content, s, c) == content[s] # "absent" => c \in crossed \cup {sentIn[s]}

ShownInv ==
    \A s \in Sends : shown[s] # "absent" =>
        /\ Sent(s)
        /\ chatId # None
        /\ chatId \in crossed \cup {sentIn[s]}
        /\ s \notin overlapped /\ outcome[s] \in {"own", "error"} => shown[s] = outcome[s]

DueInv ==
    due => \A s \in Sends :
        /\ Told(screen.messages, s)
        /\ chatId # None => Belongs(screen.messages, s, chatId)

KeptInv ==
    \A s \in Sends :
        /\ \A c \in Chats : saved[c] # None => Told(saved[c], s) /\ Belongs(saved[c], s, c)
        /\ \A l \in loads : Told(l.content, s) /\ Belongs(l.content, s, l.chat)

Inv == TypeOK /\ ProgressInv /\ SoloInv /\ ShownInv /\ DueInv /\ KeptInv

(* Nothing was sent yet. *)
LEMMA InitInv == Init => Inv
<1> SUFFICES ASSUME Init PROVE Inv
  OBVIOUS
<1>1. TypeOK
  <2>1. Blank \in Scrollbacks
    BY DEF Blank, Scrollbacks, Texts
  <2>2. QED
    BY <2>1 DEF Init, TypeOK, Outcomes
<1>2. \A s \in Sends : shown[s] = "absent"
  BY DEF Init, Blank
<1>3. QED
  BY <1>1, <1>2 DEF Init, Inv, ProgressInv, SoloInv, ShownInv, DueInv, KeptInv, Sent, Active

-----------------------------------------------------------------------------
\* What steps never take back: a send that was made, its chat, its result, and
\* what the histories say.
Grows ==
    /\ \A s \in Sends : Sent(s) => Sent(s)' /\ sentIn'[s] = sentIn[s]
    /\ \A s \in Sends : step[s] = "settled" => step'[s] = "settled" /\ outcome'[s] = outcome[s]
    /\ overlapped \subseteq overlapped' /\ crossed \subseteq crossed'

(* What is told of a scrollback stays told. *)
LEMMA ToldGrows ==
    ASSUME Grows, NEW content, NEW s \in Sends, Told(content, s)
    PROVE  Told(content, s)'
BY DEF Grows, Told

(* What a scrollback's sends belong to stays so. *)
LEMMA BelongsGrows ==
    ASSUME Grows, NEW content, NEW s \in Sends, NEW c, Told(content, s), Belongs(content, s, c)
    PROVE  Belongs(content, s, c)'
BY DEF Grows, Told, Belongs

(* Rows and loads that a step leaves alone stay true of the turns. *)
LEMMA RowsGrow ==
    ASSUME Inv, Grows, saved' = saved, loads' \subseteq loads
    PROVE  KeptInv'
<1>1. ASSUME NEW s \in Sends, NEW c \in Chats, saved[c] # None
      PROVE  (Told(saved[c], s) /\ Belongs(saved[c], s, c))'
  <2>1. Told(saved[c], s) /\ Belongs(saved[c], s, c)
    BY <1>1 DEF Inv, KeptInv
  <2>2. QED
    BY <2>1 DEF Grows, Told, Belongs
<1>2. ASSUME NEW s \in Sends, NEW l \in loads
      PROVE  (Told(l.content, s) /\ Belongs(l.content, s, l.chat))'
  <2>1. Told(l.content, s) /\ Belongs(l.content, s, l.chat)
    BY DEF Inv, KeptInv
  <2>2. QED
    BY <2>1, ToldGrows, BelongsGrows
<1>3. QED
  BY <1>1, <1>2 DEF KeptInv

(* So does a render whose auto-save is due. *)
LEMMA DueGrows ==
    ASSUME Inv, Grows, screen' = screen, due' => due,
           due => chatId' \in {chatId, None} \cup crossed'
    PROVE  DueInv'
<1> SUFFICES ASSUME due', NEW s \in Sends
             PROVE  /\ Told(screen.messages, s)'
                    /\ chatId' # None => Belongs(screen.messages, s, chatId)'
  BY DEF DueInv
<1>1. due /\ Told(screen.messages, s) /\ (chatId # None => Belongs(screen.messages, s, chatId))
  BY DEF Inv, DueInv
<1>2. Told(screen.messages, s)'
  BY <1>1 DEF Grows, Told
<1>3. ASSUME chatId' # None
      PROVE  Belongs(screen.messages, s, chatId)'
  <2>1. CASE chatId' \in crossed'
    BY <2>1 DEF Belongs
  <2>2. CASE chatId' = chatId
    BY <1>1, <1>3, <2>2 DEF Grows, Told, Belongs
  <2>3. QED
    BY <1>1, <1>3, <2>1, <2>2
<1>4. QED
  BY <1>2, <1>3

(* A step that leaves the turns alone changes nothing of what they grew to. *)
LEMMA TurnsStay ==
    ASSUME Inv, UNCHANGED turns, UNCHANGED <<busy, pending>>, crossed \subseteq crossed'
    PROVE  ProgressInv' /\ SoloInv' /\ Grows
BY DEF turns, Inv, ProgressInv, SoloInv, Grows, Sent, Active

(* A scrollback that was patched is a scrollback, and only bubbles of one id changed. *)
LEMMA PatchedTyped ==
    ASSUME TypeOK, NEW i, NEW s, NEW text \in Texts
    PROVE  /\ Patched(i, s, text) \in Scrollbacks
           /\ \A u \in Sends : ids[u] # i => Patched(i, s, text)[u] = shown[u]
           /\ \A u \in Sends : shown[u] = "absent" => Patched(i, s, text)[u] = "absent"
           /\ s \in Sends => Patched(i, s, text)[s] \in {shown[s], text}
           /\ s \in Sends /\ ids[s] = i /\ shown[s] # "absent" => Patched(i, s, text)[s] = text
<1>1. \A u \in Sends : shown[u] \in Texts
  BY DEF TypeOK, Scrollbacks
<1>2. \A u \in Sends : Patched(i, s, text)[u] =
          IF shown[u] = "absent" \/ ids[u] # i THEN shown[u] ELSE IF u = s THEN text ELSE "other"
  BY DEF Patched
<1>3. Patched(i, s, text) \in [Sends -> Texts]
  <2>1. \A u \in Sends : Patched(i, s, text)[u] \in Texts
    BY <1>1, <1>2 DEF Texts
  <2>2. Patched(i, s, text) = [u \in Sends |-> Patched(i, s, text)[u]]
    BY DEF Patched
  <2>3. QED
    BY <2>1, <2>2
<1>4. QED
  BY <1>2, <1>3 DEF Scrollbacks

-----------------------------------------------------------------------------
\* The end of a send, however it came about.
LEMMA SettleInv ==
    ASSUME Inv, NEW s \in Sends, Active(s), NEW o \in Outcomes, Settle(s, o)
    PROVE  Inv'
<1> DEFINE new == SettledShown(s, o)
<1>1. /\ new \in Scrollbacks
      /\ \A u \in Sends : ids[u] # ids[s] => new[u] = shown[u]
      /\ \A u \in Sends : shown[u] = "absent" => new[u] = "absent"
      /\ new[s] # "absent" /\ o \in {"own", "error"} => new[s] = o
  <2>1. CASE o = "empty" /\ KindOf[s] = "chat"
    BY <2>1 DEF SettledShown, Inv, TypeOK
  <2>2. CASE ~(o = "empty" /\ KindOf[s] = "chat")
    <3> DEFINE text == IF o = "error" THEN "error" ELSE "own"
    <3>1. text \in Texts /\ (o \in {"own", "error"} => text = o)
      BY DEF Texts
    <3>2. new = Patched(ids[s], s, text)
      BY <2>2 DEF SettledShown
    <3> HIDE DEF text, new
    <3>3. QED
      BY <3>1, <3>2, PatchedTyped DEF Inv
  <2>3. QED
    BY <2>1, <2>2
<1>2. /\ step' = [step EXCEPT ![s] = "settled"] /\ outcome' = [outcome EXCEPT ![s] = o]
      /\ shown' = new /\ pending' = None /\ busy' = FALSE
      /\ UNCHANGED <<chatId, ids, agent, events, sentIn, overlapped, screen, due, saved, loads,
                     deleting, crossed>>
  BY DEF Settle, drawn, chats
<1> HIDE DEF new
<1>3. TypeOK'
  <2>1. logged' \in [Sends -> Chats \cup {None}]
    BY DEF Inv, TypeOK, Settle
  <2>2. QED
    BY <1>1, <1>2, <2>1 DEF Inv, TypeOK
<1>4. \A u \in Sends : step'[u] = IF u = s THEN "settled" ELSE step[u]
  BY <1>2 DEF Inv, TypeOK
<1>5. \A u \in Sends : outcome'[u] = IF u = s THEN o ELSE outcome[u]
  BY <1>2 DEF Inv, TypeOK
<1>6. step[s] # "settled" /\ Sent(s)
  BY DEF Active, Sent
<1>7. Grows
  BY <1>2, <1>4, <1>5, <1>6 DEF Grows, Sent
<1>8. ProgressInv'
  <2>1. \A u \in Sends : Sent(u)' <=> Sent(u)
    BY <1>4, <1>6 DEF Sent
  <2>2. \A u \in Sends : ids[u] \in Sends \cup {None}
    BY DEF Inv, TypeOK
  <2>3. QED
    BY <1>2, <1>4, <1>5, <2>1, <2>2 DEF Inv, ProgressInv
<1>9. SoloInv'
  <2>1. \A u \in Sends : (Active(u)' => Active(u) /\ u # s) /\ (Sent(u)' => Sent(u))
    BY <1>4, <1>6 DEF Sent, Active
  <2>2. \A u \in Sends \ overlapped : ~Active(u)'
    BY <2>1 DEF Inv, SoloInv
  <2>3. \A u \in Sends : step'[u] = "settled" => ids[u] # None
    BY <1>4, <1>6 DEF Inv, ProgressInv, Sent
  <2>4. QED
    BY <1>2, <2>1, <2>2, <2>3 DEF Inv, SoloInv
<1>10. ShownInv'
  <2> SUFFICES ASSUME NEW u \in Sends, new[u] # "absent"
               PROVE  /\ Sent(u)' /\ chatId # None /\ chatId \in crossed \cup {sentIn[u]}
                      /\ u \notin overlapped /\ outcome'[u] \in {"own", "error"} => new[u] = outcome'[u]
    BY <1>2 DEF ShownInv
  <2>1. shown[u] # "absent"
    BY <1>1
  <2>2. Sent(u)' /\ chatId # None /\ chatId \in crossed \cup {sentIn[u]}
    BY <1>7, <2>1 DEF Inv, ShownInv, Grows
  <2>3. CASE u = s
    BY <1>1, <1>5, <2>2, <2>3
  <2>4. ASSUME u # s, u \notin overlapped
        PROVE  ids[u] # ids[s]
    BY <2>1, <2>4 DEF Inv, SoloInv, ShownInv
  <2>5. ASSUME u # s, u \notin overlapped, outcome[u] \in {"own", "error"}
        PROVE  new[u] = outcome[u]
    <3>1. new[u] = shown[u]
      BY <1>1, <2>4, <2>5
    <3>2. QED
      BY <2>1, <2>5, <3>1 DEF Inv, ShownInv
  <2>6. QED
    BY <1>5, <2>2, <2>3, <2>5
<1>11. DueInv' /\ KeptInv'
  BY <1>2, <1>7, RowsGrow, DueGrows
<1>12. QED
  BY <1>3, <1>8, <1>9, <1>10, <1>11 DEF Inv

(* The start of a send, alone or beside others, keeps the invariant. *)
LEMMA SendInv ==
    ASSUME Inv, NEW s \in Sends, Send(s)
    PROVE  Inv'
<1> DEFINE active == {t \in Sends : Active(t)}
<1>1. PICK c \in Chats : /\ ChatFor(c)
                         /\ chatId' = c
                         /\ sentIn' = [sentIn EXCEPT ![s] = c]
                         /\ crossed' = IF due /\ chatId = None THEN crossed \cup {c} ELSE crossed
  BY DEF Send
<1>2. PICK i \in {s} \cup {ids[t] : t \in {t \in active : step[t] = "tuning"}} :
          ids' = [ids EXCEPT ![s] = i] /\ pending' = i
  BY DEF Send
<1>3. /\ step[s] = "resolving"
      /\ busy' = TRUE
      /\ shown' = [shown EXCEPT ![s] = "dots"]
      /\ step' = [step EXCEPT ![s] = "tuning"]
      /\ overlapped' = IF active = {} THEN overlapped ELSE overlapped \cup active \cup {s}
      /\ UNCHANGED <<outcome, agent, events, logged, saved, loads, deleting, screen, due>>
  BY DEF Send, drawn
<1>4. i \in Sends /\ (i = s \/ (active # {} /\ Sent(i)))
  <2>1. CASE i = s
    BY <2>1
  <2>2. ASSUME NEW t \in active, i = ids[t]
        PROVE  i \in Sends /\ active # {} /\ Sent(i)
    <3>1. ids[t] # None
      BY <2>2 DEF Inv, ProgressInv, Active, Sent
    <3>2. QED
      BY <2>2, <3>1 DEF Inv, ProgressInv, TypeOK
  <2>3. QED
    BY <1>2, <2>1, <2>2
<1>5. \A u \in Sends : step'[u] = IF u = s THEN "tuning" ELSE step[u]
  BY <1>3 DEF Inv, TypeOK
<1>6. \A u \in Sends : ids'[u] = IF u = s THEN i ELSE ids[u]
  BY <1>2 DEF Inv, TypeOK
<1>7. ~Sent(s) /\ ids[s] = None /\ outcome[s] = None /\ s \notin overlapped
  BY <1>3 DEF Inv, ProgressInv, Sent
<1>8. \A u \in Sends : ids[u] # s
  BY <1>7, NoneAssumption DEF Inv, ProgressInv
<1>9. Grows
  <2>1. \A u \in Sends : Sent(u) => u # s
    BY <1>7
  <2>2. \A u \in Sends : Sent(u) => Sent(u)' /\ sentIn'[u] = sentIn[u]
    BY <1>1, <1>5, <2>1 DEF Sent, Inv, TypeOK
  <2>3. \A u \in Sends : step[u] = "settled" => step'[u] = "settled" /\ outcome'[u] = outcome[u]
    BY <1>3, <1>5
  <2>4. QED
    BY <1>1, <1>3, <2>2, <2>3 DEF Grows
<1>10. TypeOK'
  <2>1. shown' \in Scrollbacks
    BY <1>3 DEF Inv, TypeOK, Scrollbacks, Texts
  <2>2. overlapped' \in SUBSET Sends /\ crossed' \in SUBSET Chats
    BY <1>1, <1>3 DEF Inv, TypeOK
  <2>3. QED
    BY <1>1, <1>2, <1>3, <1>4, <2>1, <2>2 DEF Inv, TypeOK
<1>11. ProgressInv'
  <2> SUFFICES ASSUME NEW u \in Sends
               PROVE  /\ Sent(u)' <=> ids'[u] # None
                      /\ ids'[u] # None => Sent(ids[u])'
                      /\ step'[u] # "settled" => outcome'[u] = None
                      /\ u \in overlapped' => Sent(u)'
    BY DEF ProgressInv
  <2>1. \A v \in Sends : Sent(v)' <=> (v = s \/ Sent(v))
    BY <1>5 DEF Sent
  <2>2. CASE u = s
    <3>1. ids'[u] = i /\ i # None /\ Sent(u)' /\ outcome'[u] = None
      BY <1>3, <1>4, <1>6, <1>7, <2>1, <2>2, NoneAssumption
    <3>2. step'[i] \notin {"idle", "resolving"}
      BY <1>4, <2>1 DEF Sent
    <3>3. Sent(ids[u])'
      BY <3>1, <3>2 DEF Sent
    <3>4. QED
      BY <3>1, <3>3
  <2>3. CASE u # s
    <3>1. ids'[u] = ids[u] /\ step'[u] = step[u] /\ outcome'[u] = outcome[u]
      BY <1>3, <1>5, <1>6, <2>3
    <3>2. ids[u] # None => ids[u] \in Sends /\ Sent(ids[u])
      BY DEF Inv, TypeOK, ProgressInv
    <3>3. ids[u] # None => step'[ids[u]] \notin {"idle", "resolving"}
      BY <2>1, <3>2 DEF Sent
    <3>4. ids'[u] # None => Sent(ids[u])'
      BY <3>1, <3>3 DEF Sent
    <3>5. u \in overlapped' => Sent(u)
      BY <1>3, <2>3 DEF Inv, ProgressInv, Active, Sent
    <3>6. Sent(u) <=> ids[u] # None
      BY DEF Inv, ProgressInv
    <3>7. step[u] # "settled" => outcome[u] = None
      BY DEF Inv, ProgressInv
    <3>8. QED
      BY <2>1, <2>3, <3>1, <3>4, <3>5, <3>6, <3>7
  <2>4. QED
    BY <2>2, <2>3
<1>12. SoloInv'
  <2> SUFFICES ASSUME NEW u \in Sends \ overlapped'
               PROVE  /\ Active(u)' => busy' /\ \A v \in Sends : Active(v)' => v = u
                      /\ Sent(u)' => \A v \in Sends : ids'[v] = ids'[u] => v = u
                      /\ step'[u] = "settled" => pending' # ids'[u]
    BY DEF SoloInv
  <2>1. u \notin overlapped /\ u \notin active
    BY <1>3 DEF Inv
  <2>2. \A v \in Sends : Active(v)' <=> (v = s \/ v \in active)
    BY <1>5, <1>7 DEF Active, Sent
  <2>3. CASE u = s
    <3>1. active = {} /\ i = s
      BY <1>3, <1>4, <2>3
    <3>2. QED
      BY <1>3, <1>5, <1>6, <1>8, <2>2, <2>3, <3>1
  <2>4. CASE u # s
    <3>1. ids'[u] = ids[u] /\ step'[u] = step[u] /\ ~Active(u)'
      BY <1>5, <1>6, <2>1, <2>2, <2>4
    <3>2. ASSUME Sent(u)
          PROVE  ids[u] # i
      <4>1. CASE i = s
        BY <1>8, <4>1
      <4>2. ASSUME NEW t \in active, i = ids[t]
            PROVE  ids[u] # i
        BY <2>1, <3>2, <4>2 DEF Inv, SoloInv
      <4>3. QED
        BY <1>2, <4>1, <4>2
    <3>3. Sent(u)' => Sent(u)
      BY <3>1 DEF Sent
    <3>4. step[u] = "settled" => Sent(u)
      BY DEF Sent
    <3>5. Sent(u) => \A v \in Sends : ids[v] = ids[u] => v = u
      BY <2>1 DEF Inv, SoloInv
    <3>6. QED
      BY <1>2, <1>6, <3>1, <3>2, <3>3, <3>4, <3>5
  <2>5. QED
    BY <2>3, <2>4
<1>13. ShownInv'
  <2> SUFFICES ASSUME NEW u \in Sends, shown'[u] # "absent"
               PROVE  /\ Sent(u)' /\ chatId' # None /\ chatId' \in crossed' \cup {sentIn'[u]}
                      /\ u \notin overlapped' /\ outcome'[u] \in {"own", "error"}
                            => shown'[u] = outcome'[u]
    BY DEF ShownInv
  <2>1. chatId' # None
    BY <1>1, NoneAssumption
  <2>2. CASE u = s
    <3>1. sentIn'[s] = c /\ Sent(s)' /\ outcome'[s] = None
      BY <1>1, <1>3, <1>5, <1>7 DEF Inv, TypeOK, Sent
    <3>2. QED
      BY <1>1, <2>1, <2>2, <3>1, NoneAssumption
  <2>3. CASE u # s
    <3>1. shown'[u] = shown[u] /\ shown[u] # "absent"
      BY <1>3, <2>3 DEF Inv, TypeOK, Scrollbacks
    <3>2. /\ Sent(u) /\ chatId # None /\ chatId \in crossed \cup {sentIn[u]}
          /\ u \notin overlapped /\ outcome[u] \in {"own", "error"} => shown[u] = outcome[u]
      BY <3>1 DEF Inv, ShownInv
    <3>3. chatId' = chatId
      BY <1>1, <3>2 DEF ChatFor
    <3>4. QED
      BY <1>3, <1>9, <2>1, <3>1, <3>2, <3>3 DEF Grows
  <2>4. QED
    BY <2>2, <2>3
<1>14. DueInv'
  <2>1. due => chatId' \in {chatId, None} \cup crossed'
    BY <1>1 DEF ChatFor
  <2>2. QED
    BY <1>3, <1>9, <2>1, DueGrows
<1>15. KeptInv'
  BY <1>3, <1>9, RowsGrow
<1>16. QED
  BY <1>10, <1>11, <1>12, <1>13, <1>14, <1>15 DEF Inv

-----------------------------------------------------------------------------
\* An event, of whichever turn, touches no settled bubble of a turn of its own.
LEMMA EventInv ==
    ASSUME Inv, NEW turn \in Sends \cup {None}, NEW text \in Outcomes,
           shown' = PatchPending(turn, text), events' \subseteq events,
           UNCHANGED <<busy, pending, chatId, turns, drawn, chats>>
    PROVE  Inv'
<1> USE DEF drawn, chats
<1>1. ProgressInv' /\ SoloInv' /\ Grows
  BY TurnsStay
<1>2. DueInv' /\ KeptInv'
  BY <1>1, RowsGrow, DueGrows
<1>3. /\ shown' \in Scrollbacks
      /\ \A u \in Sends : ids[u] # pending \/ pending = None => shown'[u] = shown[u]
      /\ \A u \in Sends : shown[u] = "absent" => shown'[u] = "absent"
  <2>1. text \in Texts
    BY DEF Outcomes, Texts
  <2>2. QED
    BY <2>1, PatchedTyped DEF PatchPending, Inv, TypeOK
<1>4. TypeOK'
  BY <1>3 DEF Inv, TypeOK, turns
<1>5. ShownInv'
  <2> SUFFICES ASSUME NEW u \in Sends, shown'[u] # "absent"
               PROVE  /\ Sent(u)' /\ chatId # None /\ chatId \in crossed \cup {sentIn[u]}
                      /\ u \notin overlapped /\ outcome[u] \in {"own", "error"}
                            => shown'[u] = outcome[u]
    BY DEF ShownInv, turns
  <2>1. shown[u] # "absent"
    BY <1>3
  <2>2. ASSUME u \notin overlapped, outcome[u] \in {"own", "error"}
        PROVE  shown'[u] = outcome[u]
    <3>1. step[u] = "settled"
      BY <2>2, NoneAssumption DEF Inv, ProgressInv
    <3>2. pending # ids[u]
      BY <2>2, <3>1 DEF Inv, SoloInv
    <3>3. QED
      BY <1>3, <2>1, <2>2, <3>2 DEF Inv, ShownInv
  <2>3. QED
    BY <1>1, <2>1, <2>2 DEF Inv, ShownInv, Grows
<1>6. QED
  BY <1>1, <1>2, <1>4, <1>5 DEF Inv

\* The steps of React: a render that ends a turn shows only settled bubbles of
\* turns that ran alone, and the auto-save keeps what that render showed.
LEMMA ReactInv ==
    ASSUME Inv, Render \/ AutoSave
    PROVE  Inv'
<1> USE DEF chats
<1>1. UNCHANGED <<busy, shown, pending, chatId, events, loads, deleting, crossed, turns>>
  BY DEF Render, AutoSave
<1>2. ProgressInv' /\ SoloInv' /\ Grows
  BY <1>1, TurnsStay
<1>3. ShownInv'
  BY <1>1 DEF Inv, ShownInv, turns, Sent
<1>4. CASE Render
  <2>1. saved' = saved /\ screen' = [messages |-> shown, busy |-> busy] /\ due' = (screen.busy /\ ~busy)
    BY <1>4 DEF Render
  <2>2. TypeOK'
    BY <1>1, <2>1 DEF Inv, TypeOK, turns
  <2>3. ASSUME ~busy, NEW s \in Sends
        PROVE  /\ Told(shown, s)
               /\ chatId # None => Belongs(shown, s, chatId)
    <3>1. s \notin overlapped => ~Active(s)
      BY <2>3 DEF Inv, SoloInv
    <3>2. s \notin overlapped /\ Sent(s) => step[s] = "settled"
      BY <3>1 DEF Inv, TypeOK, Active, Sent
    <3>3. QED
      BY <3>2 DEF Inv, ShownInv, Told, Belongs
  <2>4. ASSUME due', NEW s \in Sends
        PROVE  /\ Told(screen.messages, s)'
               /\ chatId' # None => Belongs(screen.messages, s, chatId)'
    <3>1. Told(shown, s) /\ (chatId # None => Belongs(shown, s, chatId)) /\ screen'.messages = shown
      BY <2>1, <2>3, <2>4
    <3>2. QED
      BY <1>1, <3>1 DEF Told, Belongs, Sent, turns
  <2>5. DueInv'
    BY <2>4 DEF DueInv
  <2>6. QED
    BY <1>1, <1>2, <1>3, <2>1, <2>2, <2>5, RowsGrow DEF Inv
<1>5. CASE AutoSave
  <2>1. /\ due /\ due' = FALSE /\ screen' = screen
        /\ \/ saved' = saved
           \/ chatId # None /\ saved' = [saved EXCEPT ![chatId] = screen.messages]
    BY <1>5 DEF AutoSave
  <2>2. chatId \in Chats \cup {None} /\ screen.messages \in Scrollbacks
    BY DEF Inv, TypeOK
  <2>3. TypeOK'
    BY <1>1, <2>1, <2>2 DEF Inv, TypeOK, turns
  <2>4. DueInv'
    BY <2>1 DEF DueInv
  <2>5. CASE saved' = saved
    BY <1>1, <1>2, <1>3, <2>3, <2>4, <2>5, RowsGrow DEF Inv
  <2>6. CASE chatId # None /\ saved' = [saved EXCEPT ![chatId] = screen.messages]
    <3>1. \A s \in Sends : Told(screen.messages, s) /\ Belongs(screen.messages, s, chatId)
      BY <2>1, <2>6 DEF Inv, DueInv
    <3>2. ASSUME NEW s \in Sends, NEW k \in Chats, saved'[k] # None
          PROVE  Told(saved'[k], s) /\ Belongs(saved'[k], s, k)
      <4>1. CASE k = chatId
        BY <2>2, <2>6, <3>1, <4>1 DEF Inv, TypeOK
      <4>2. CASE k # chatId
        BY <2>6, <3>2, <4>2 DEF Inv, TypeOK, KeptInv
      <4>3. QED
        BY <4>1, <4>2
    <3>3. KeptInv'
      BY <1>1, <3>2 DEF Inv, KeptInv, Told, Belongs, Sent, turns
    <3>4. QED
      BY <1>2, <1>3, <2>3, <2>4, <3>3 DEF Inv
  <2>7. QED
    BY <2>1, <2>5, <2>6
<1>6. QED
  BY <1>4, <1>5

\* Opening, deleting and clearing chats.
LEMMA ChatsInv ==
    ASSUME Inv, NewChat \/ ChatDeleted \/ (\E c \in Chats : OpenChat(c) \/ DeleteChat(c))
                \/ \E l \in loads : ChatOpened(l)
    PROVE  Inv'
<1> USE DEF drawn, chats
<1>1. UNCHANGED <<busy, pending, events, turns>> /\ crossed \subseteq crossed'
  BY DEF NewChat, ChatDeleted, OpenChat, DeleteChat, ChatOpened
<1>2. ProgressInv' /\ SoloInv' /\ Grows
  BY <1>1, TurnsStay
<1>3. CASE NewChat
  <2>1. /\ chatId' = None /\ shown' = Blank /\ due' = FALSE /\ UNCHANGED <<saved, loads, deleting, crossed>>
        /\ screen' = [messages |-> Blank, busy |-> busy]
    BY <1>3 DEF NewChat, Cleared
  <2>2. Blank \in Scrollbacks
    BY DEF Blank, Scrollbacks, Texts
  <2>3. TypeOK'
    BY <1>1, <2>1, <2>2 DEF Inv, TypeOK, turns
  <2>4. ShownInv' /\ DueInv'
    BY <2>1 DEF ShownInv, DueInv, Blank
  <2>5. QED
    BY <1>2, <2>1, <2>3, <2>4, RowsGrow DEF Inv
<1>4. CASE ChatDeleted
  <2>1. /\ deleting' = None /\ UNCHANGED <<screen, due, saved, loads, crossed>>
        /\ (chatId' = None /\ shown' = Blank) \/ UNCHANGED <<chatId, shown>>
    BY <1>4 DEF ChatDeleted, Cleared
  <2>2. Blank \in Scrollbacks
    BY DEF Blank, Scrollbacks, Texts
  <2>3. TypeOK'
    BY <1>1, <2>1, <2>2 DEF Inv, TypeOK, turns
  <2>4. ShownInv'
    BY <1>1, <2>1 DEF Inv, ShownInv, Blank, turns, Sent
  <2>5. DueInv' /\ KeptInv'
    BY <1>2, <2>1, RowsGrow, DueGrows
  <2>6. QED
    BY <1>2, <2>3, <2>4, <2>5 DEF Inv
<1>5. ASSUME NEW c \in Chats, OpenChat(c)
      PROVE  Inv'
  <2>1. /\ saved[c] # None /\ loads' = loads \cup {[chat |-> c, content |-> saved[c]]}
        /\ UNCHANGED <<shown, chatId, saved, deleting, crossed, screen, due>>
    BY <1>5 DEF OpenChat
  <2>2. saved[c] \in Scrollbacks
    BY <2>1 DEF Inv, TypeOK
  <2>3. TypeOK'
    BY <1>1, <2>1, <2>2 DEF Inv, TypeOK, turns
  <2>4. ASSUME NEW s \in Sends, NEW l \in loads'
        PROVE  Told(l.content, s) /\ Belongs(l.content, s, l.chat)
    <3>1. CASE l \in loads
      BY <3>1 DEF Inv, KeptInv
    <3>2. CASE l = [chat |-> c, content |-> saved[c]]
      BY <2>1, <3>2 DEF Inv, KeptInv
    <3>3. QED
      BY <2>1, <3>1, <3>2
  <2>5. KeptInv'
    BY <1>1, <2>1, <2>4 DEF Inv, KeptInv, Told, Belongs, Sent, turns
  <2>6. ShownInv'
    BY <1>1, <2>1 DEF Inv, ShownInv, turns, Sent
  <2>7. DueInv'
    BY <1>2, <2>1, DueGrows
  <2>8. QED
    BY <1>2, <2>3, <2>5, <2>6, <2>7 DEF Inv
<1>6. ASSUME NEW c \in Chats, DeleteChat(c)
      PROVE  Inv'
  <2>1. /\ saved' = [saved EXCEPT ![c] = None] /\ deleting' = [chat |-> c, active |-> c = chatId]
        /\ UNCHANGED <<shown, chatId, loads, crossed, screen, due>>
    BY <1>6 DEF DeleteChat
  <2>2. TypeOK'
    BY <1>1, <2>1 DEF Inv, TypeOK, turns
  <2>3. \A k \in Chats : saved'[k] # None => saved'[k] = saved[k]
    BY <2>1 DEF Inv, TypeOK
  <2>4. KeptInv'
    BY <1>1, <2>1, <2>3 DEF Inv, KeptInv, Told, Belongs, Sent, turns
  <2>5. ShownInv'
    BY <1>1, <2>1 DEF Inv, ShownInv, turns, Sent
  <2>6. DueInv'
    BY <1>2, <2>1, DueGrows
  <2>7. QED
    BY <1>2, <2>2, <2>4, <2>5, <2>6 DEF Inv
<1>7. ASSUME NEW l \in loads, ChatOpened(l)
      PROVE  Inv'
  <2>1. /\ loads' = loads \ {l} /\ chatId' = l.chat /\ shown' = l.content
        /\ crossed' = IF due /\ l.chat # chatId THEN crossed \cup {l.chat} ELSE crossed
        /\ UNCHANGED <<saved, deleting, screen, due>>
    BY <1>7 DEF ChatOpened
  <2>2. l.chat \in Chats /\ l.content \in Scrollbacks
    BY DEF Inv, TypeOK
  <2>3. TypeOK'
    BY <1>1, <2>1, <2>2 DEF Inv, TypeOK, turns
  <2>4. \A s \in Sends : Told(l.content, s) /\ Belongs(l.content, s, l.chat)
    BY DEF Inv, KeptInv
  <2>5. \A s \in Sends : Told(l.content, s)' /\ Belongs(l.content, s, l.chat)'
    BY <1>2, <2>4, ToldGrows, BelongsGrows
  <2>6. ShownInv'
    BY <2>1, <2>2, <2>5, NoneAssumption DEF ShownInv, Told, Belongs
  <2>7. DueInv' /\ KeptInv'
    BY <1>2, <2>1, RowsGrow, DueGrows
  <2>8. QED
    BY <1>2, <2>3, <2>6, <2>7 DEF Inv
<1>8. QED
  BY <1>3, <1>4, <1>5, <1>6, <1>7

(* The steps of a turn that change no text and no id. *)
LEMMA QuietInv ==
    ASSUME Inv, NEW s \in Sends,
           Enter(s) \/ RequestTurn(s) \/ \E o \in Outcomes : AgentEnds(s, o)
    PROVE  Inv'
<1> USE DEF drawn, chats
<1>1. /\ UNCHANGED <<busy, shown, screen, due, pending, chatId, ids, saved, outcome, loads, deleting,
                     sentIn, logged, overlapped, crossed>>
      /\ \A u \in Sends : Sent(u)' = Sent(u) /\ Active(u)' = Active(u)
      /\ \A u \in Sends : (step'[u] = "settled") = (step[u] = "settled")
  BY DEF Enter, RequestTurn, AgentEnds, Inv, TypeOK, Sent, Active
<1>2. TypeOK'
  BY DEF Enter, RequestTurn, AgentEnds, Inv, TypeOK
<1>3. Grows
  BY <1>1 DEF Grows
<1>4. ProgressInv'
  <2>1. \A u \in Sends : ids[u] \in Sends \cup {None}
    BY DEF Inv, TypeOK
  <2>2. \A u \in Sends : ids'[u] # None => Sent(ids[u])'
    BY <1>1, <2>1 DEF Inv, ProgressInv, Sent
  <2>3. QED
    BY <1>1, <2>2 DEF Inv, ProgressInv
<1>5. SoloInv' /\ ShownInv'
  BY <1>1 DEF Inv, SoloInv, ShownInv
<1>6. DueInv' /\ KeptInv'
  BY <1>1, <1>3, RowsGrow, DueGrows
<1>7. QED
  BY <1>2, <1>4, <1>5, <1>6 DEF Inv

(* The invariant is inductive. *)
LEMMA NextInv == Inv /\ [Next]_vars => Inv'
<1> SUFFICES ASSUME Inv, [Next]_vars PROVE Inv'
  OBVIOUS
<1>1. ASSUME NEW s \in Sends, EventTurn(s) \/ TurnReplied(s) \/ TurnTimesOut(s)
      PROVE  Inv'
  BY <1>1, SettleInv DEF EventTurn, TurnReplied, TurnTimesOut, Active, Outcomes
<1>2. ASSUME NEW e \in events, OnAgentEvent(e)
      PROVE  Inv'
  <2>1. e.turn \in Sends /\ e.text \in Outcomes
    BY DEF Inv, TypeOK
  <2>2. QED
    BY <1>2, <2>1, EventInv DEF OnAgentEvent
<1>3. ASSUME NEW e \in events, EventLost(e)
      PROVE  Inv'
  <2>1. UNCHANGED <<busy, shown, pending, chatId, turns, drawn, chats>> /\ events' \subseteq events
    BY <1>3 DEF EventLost
  <2>2. ProgressInv' /\ SoloInv' /\ Grows
    BY <2>1, TurnsStay DEF chats
  <2>3. DueInv' /\ KeptInv'
    BY <2>1, <2>2, RowsGrow, DueGrows DEF drawn, chats
  <2>4. TypeOK' /\ ShownInv'
    BY <2>1 DEF Inv, TypeOK, ShownInv, turns, drawn, chats, Sent
  <2>5. QED
    BY <2>2, <2>3, <2>4 DEF Inv
<1>4. CASE OnForeignEvent
  BY <1>4, EventInv DEF OnForeignEvent, Outcomes
<1>5. CASE UNCHANGED vars
  BY <1>5 DEF vars, Inv, TypeOK, ProgressInv, SoloInv, ShownInv, DueInv, KeptInv, Told, Belongs,
     Sent, Active
<1>6. QED
  BY <1>1, <1>2, <1>3, <1>4, <1>5, SendInv, QuietInv, ReactInv, ChatsInv DEF Next, SendStep

(* The invariant of the chat holds in every behaviour. *)
LEMMA Invariance == Spec => []Inv
BY InitInv, NextInv, PTL DEF Spec

-----------------------------------------------------------------------------
\* The variables of the hook, the table and the bus keep their types, for any
\* number of sends and chats.
THEOREM TypeCorrect == Spec => []TypeOK
<1>1. Inv => TypeOK
  BY DEF Inv
<1>2. QED
  BY <1>1, Invariance, PTL

\* Once a turn that overlapped no other is settled with a text or an error, its
\* bubble shows exactly that, in the scrollback, in every saved chat and in every
\* chat being opened, whatever events, chat switches and overlapping turns come
\* after it (the reply handling of useChat.ts).
THEOREM SettledTheorem == Spec => []SettledBubbleIsOwn
<1>1. Inv => SettledBubbleIsOwn
  BY DEF Inv, ShownInv, KeptInv, Told, SettledBubbleIsOwn
<1>2. QED
  BY <1>1, Invariance, PTL

\* What is shown or saved under a chat id was sent in that chat, however sends,
\* renders, auto-saves, loads, clearings and deletions interleave, unless the chat
\* became active while an auto-save was due (chatIdRef of useChat.ts).
THEOREM ChatsTheorem == Spec => []ChatsDoNotMix
<1>1. Inv => ChatsDoNotMix
  BY DEF Inv, ShownInv, KeptInv, Belongs, ChatsDoNotMix
<1>2. QED
  BY <1>1, Invariance, PTL
=============================================================================
