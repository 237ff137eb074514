------------------------------- MODULE LocalStore -------------------------------
(***************************************************************************)
(* What the oos webview keeps on the machine: the Dexie tables chats and   *)
(* turns (store/db.ts), the stores over them (store/chats.ts,              *)
(* store/turns.ts), the panels that list them (ChatHistoryPanel.tsx,       *)
(* ActivityListPanel.tsx) and the handlers of App.tsx that load and delete *)
(* chats.                                                                  *)
(*                                                                         *)
(* IndexedDB runs the transactions of a table in the order in which they   *)
(* are opened; a step of the model is a transaction and the promise that   *)
(* follows it. A row of chats is its updatedAt, the number of the save; the *)
(* rows of a list are in this order, newest first.                         *)
(***************************************************************************)
EXTENDS Naturals, FiniteSets, Sequences

CONSTANTS Ids,         \* ids of chats
          Title,       \* deriveTitle and normaliseTitle: the group of a chat
          MaxWrites,   \* bound: chats and turns written
          MaxOps       \* bound: transactions opened by the user

None == "none"

VARIABLES db,        \* the table chats: per id the updatedAt of its row, 0 if there is none
          turnRows,  \* the table turns: how many rows
          failing,   \* whether the last listing of chats failed
          txs,       \* open transactions of chats and turns, in order
          chatList,  \* useChats: chats, while the history is mounted
          turnList,  \* useTurns: turns, while the activity list is mounted
          mounted,   \* the panel shown: history, activity or None
          active,    \* useChat: activeChatId
          confirm,   \* the group a confirm modal asks about, as it was rendered
          writes, ops

store == <<db, turnRows, failing, txs, chatList, turnList, mounted, active, confirm, writes, ops>>

NoChats == [c \in Ids |-> 0]

(* ---- transactions of chats and turns ---- *)
Open(t) == txs' = Append(txs, t)
Tx(op, c) == [op |-> op, id |-> c, at |-> 0, then |-> FALSE]
List(kind) == Tx(kind, None)

InHistory == mounted = "history"
InActivity == mounted = "activity"

(* useChats and useTurns: refresh on mount. *)
MountPanel(p) ==
  /\ mounted # p /\ ops < MaxOps /\ ops' = ops + 1
  /\ mounted' = p
  /\ chatList' = NoChats /\ turnList' = 0 /\ failing' = FALSE
  /\ Open(List(IF p = "history" THEN "chats" ELSE "turns"))
  /\ UNCHANGED <<db, turnRows, active, confirm, writes>>

recordToRow(c) == Tx("putTurn", c)

(* useChat: the first send mints an id, and every finished turn saves the  *)
(* turn, then the chat when messages change.                               *)
saveChat(c) ==
  /\ active \in {None, c} /\ writes < MaxWrites /\ writes' = writes + 1
  /\ active = None => db[c] = 0 /\ \A i \in DOMAIN txs : txs[i].id # c
  /\ active' = c
  /\ txs' = txs \o <<recordToRow(c), [Tx("put", c) EXCEPT !.at = writes + 1]>>
  /\ UNCHANGED <<db, turnRows, failing, chatList, turnList, confirm, ops, mounted>>

newChat ==
  /\ active # None /\ active' = None
  /\ UNCHANGED <<db, turnRows, failing, txs, chatList, turnList, confirm, writes, ops, mounted>>

(* groupByTitle: a row of the history stands for every chat of its title,  *)
(* the newest first.                                                       *)
deriveTitle(c) == Title[c]
Listed == {c \in Ids : chatList[c] # 0}
groupByTitle(c) == {d \in Listed : deriveTitle(d) = deriveTitle(c)}
Rows == {c \in Listed : \A d \in groupByTitle(c) : chatList[d] <= chatList[c]}
Members(g) == {cs \in [1..Cardinality(g) -> g] :
                 \A i, j \in DOMAIN cs : i < j => chatList[cs[i]] > chatList[cs[j]]}

handleClick(c) ==
  /\ InHistory /\ c \in Rows /\ ops < MaxOps /\ ops' = ops + 1
  /\ Open(Tx("load", c))
  /\ UNCHANGED <<db, turnRows, failing, chatList, turnList, active, confirm, writes, mounted>>

(* App.tsx handleDeleteChat with the activeChatId its effect captured. *)
Deletes(cs) == [i \in DOMAIN cs |-> [Tx("delete", cs[i]) EXCEPT !.then = cs[i] = active]]

handleDelete(c) ==
  /\ InHistory /\ c \in Rows /\ ops < MaxOps /\ ops' = ops + 1
  /\ \E cs \in Members(groupByTitle(c)) :
       IF Len(cs) = 1 THEN txs' = txs \o Deletes(cs) /\ UNCHANGED confirm
                      ELSE confirm' = cs /\ UNCHANGED txs
  /\ UNCHANGED <<db, turnRows, failing, chatList, turnList, active, writes, mounted>>

onConfirm ==
  /\ confirm # <<>> /\ confirm' = <<>>
  /\ \/ txs' = txs \o Deletes(confirm)
     \/ UNCHANGED txs
  /\ UNCHANGED <<db, turnRows, failing, chatList, turnList, active, writes, ops, mounted>>

(* rpc.ts over Dexie. A write that fails is notified all the same; a       *)
(* listing that fails is the empty list; a load that finds nothing leaves  *)
(* the chat as it is.                                                      *)
Without(c) == [db EXCEPT ![c] = 0]

(* Mutant: nobody is told of a write. *)
NotifySilently(kind, panel) == txs' = Tail(txs)

Notify(kind, panel) == txs' = IF mounted = panel THEN Append(Tail(txs), List(kind)) ELSE Tail(txs)

Put(t) ==
  /\ db' \in {db, [db EXCEPT ![t.id] = t.at]}
  /\ Notify("chats", "history")
  /\ UNCHANGED <<turnRows, failing, chatList, turnList, active>>

Delete(t) ==
  /\ db' \in {db, Without(t.id)}
  /\ Notify("chats", "history")
  /\ active' = IF t.then THEN None ELSE active
  /\ UNCHANGED <<turnRows, failing, chatList, turnList>>

PutTurn ==
  /\ turnRows' \in {turnRows, turnRows + 1}
  /\ Notify("turns", "activity")
  /\ UNCHANGED <<db, failing, chatList, turnList, active>>

ListChats ==
  /\ txs' = Tail(txs)
  /\ IF InHistory THEN failing' \in BOOLEAN /\ chatList' = IF failing' THEN NoChats ELSE db
                  ELSE UNCHANGED <<failing, chatList>>
  /\ UNCHANGED <<db, turnRows, turnList, active>>

ListTurns ==
  /\ txs' = Tail(txs)
  /\ IF InActivity THEN failing' \in BOOLEAN /\ turnList' = IF failing' THEN 0 ELSE turnRows
                   ELSE UNCHANGED <<failing, turnList>>
  /\ UNCHANGED <<db, turnRows, chatList, active>>

loadChatById(t) ==
  /\ txs' = Tail(txs)
  /\ active' = IF db[t.id] # 0 THEN t.id ELSE active
  /\ UNCHANGED <<db, turnRows, failing, chatList, turnList>>

Transaction ==
  /\ txs # <<>>
  /\ LET t == Head(txs)
     IN CASE t.op = "put"     -> Put(t)
          [] t.op = "delete"  -> Delete(t)
          [] t.op = "putTurn" -> PutTurn
          [] t.op = "chats"   -> ListChats
          [] t.op = "turns"   -> ListTurns
          [] t.op = "load"    -> loadChatById(t)
  /\ UNCHANGED <<confirm, writes, ops, mounted>>

Init ==
  /\ db = NoChats /\ turnRows = 0 /\ failing = FALSE /\ txs = <<>> /\ chatList = NoChats /\ turnList = 0
  /\ mounted = None /\ active = None /\ confirm = <<>> /\ writes = 0 /\ ops = 0

Next ==
  \/ \E p \in {"history", "activity"} : MountPanel(p)
  \/ \E c \in Ids : saveChat(c) \/ handleClick(c) \/ handleDelete(c)
  \/ newChat \/ onConfirm \/ Transaction

Spec == Init /\ [][Next]_store

(* When no transaction is open, the history and the activity list that are *)
(* mounted show what the tables hold, in their order, unless the last      *)
(* listing failed: every write, of a group of chats too, is followed by a  *)
(* refresh that sees it (notify in chats.ts and turns.ts).                 *)
ListsShowTheTables ==
  txs = <<>> /\ ~failing => /\ InHistory => chatList = db
                            /\ InActivity => turnList = turnRows
================================================================================
