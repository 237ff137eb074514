---------------------------- MODULE LoginProofs ----------------------------
(***************************************************************************)
(* Proofs about Login for any number of attempts, users, group lists and   *)
(* codes, any code lifetime and any clock.                                 *)
(***************************************************************************)
EXTENDS Login, TLAPS

\* A page carries its own attempt's secret, the shell keeps it as long as the
\* attempt lasts, and a code is only presented by an attempt that received one.
SecretInv ==
    \A a \in Attempts :
        /\ secret[a] \in {None, a}
        /\ submit[a] # None => secret[a] = a
        /\ pc[a] \in {"waiting", "exchanging"} => secret[a] = a
        /\ pc[a] = "exchanging" => held[a] \in Codes

\* An outstanding code was issued, in the past, for the page whose secret it is
\* bound to.
CodeInv ==
    \A c \in Codes : codes[c] # None =>
        /\ c \in issued
        /\ codes[c].challenge = codes[c].page
        /\ codes[c].issued_at <= clock

\* A code that was presented is no longer outstanding, and was issued; what the
\* browser or an attempt holds was issued too.
GrantInv ==
    /\ \A t \in tokens : t.iat <= clock
    /\ \A c \in presented : c \in issued /\ codes[c] = None
    /\ \A cb \in callbacks : cb.code \in issued
    /\ \A a \in Attempts : held[a] \in issued \cup {None}
    /\ CodeGrantsOnce

\* A login that is not late reads, carries and grants groups the user has, or
\* has lost no earlier than the code was issued.
Lost(u, g, since) == goneAt[u][g] \in Times /\ since <= goneAt[u][g]

RevokeInv ==
    /\ \A a \in Attempts : submit[a] # None /\ ~submit[a].late =>
           users[submit[a].user] = submit[a].groups
    /\ \A c \in Codes : codes[c] # None /\ ~codes[c].late =>
           \/ users[codes[c].user] = codes[c].groups
           \/ Lost(codes[c].user, codes[c].groups, codes[c].issued_at)
    /\ \A t \in tokens : ~t.late =>
           \/ users[t.user] = t.groups
           \/ Lost(t.user, t.groups, t.iat - CodeTtl)

Inv == TypeOK /\ SecretInv /\ CodeInv /\ GrantInv /\ AnswerIsForThisLogin /\ RevokeInv

(* Before the first attempt no secret, code or token exists. *)
LEMMA InitInv == Init => Inv
BY UsersAssumption, NoneAssumption, TimesAssumption
   DEF Init, Inv, TypeOK, SecretInv, CodeInv, GrantInv, CodeGrantsOnce,
       AnswerIsForThisLogin, RevokeInv, Times

-----------------------------------------------------------------------------
\* What the token endpoint does when it grants, in one place: the code was
\* outstanding, young enough, and bound to the page whose verifier was sent.
LEMMA GrantStep ==
    ASSUME Inv, NEW c \in Codes, NEW v, NEW tok \in Outcomes(c, v), tok # None
    PROVE  /\ tok \in Tokens
           /\ codes[c] \in PendingCodes /\ codes[c] # None
           /\ tok.page = v
           /\ tok.user = codes[c].user /\ tok.groups = codes[c].groups
           /\ tok.late = codes[c].late
           /\ tok.iat = clock
           /\ ~tok.again
           /\ clock - codes[c].issued_at <= CodeTtl
<1>1. Grantable(codes[c], v) /\ tok = TokenFor(c)
  BY DEF Outcomes
<1>2. codes[c] \in PendingCodes /\ codes[c] # None
  BY <1>1 DEF Inv, TypeOK, Grantable
<1>3. codes[c].page = v
  BY <1>1, <1>2 DEF Inv, CodeInv, Grantable, VerifyS256
<1>4. c \notin presented
  BY <1>2 DEF Inv, GrantInv
<1>5. TokenFor(c) \in Tokens
  BY <1>2 DEF Inv, TypeOK, PendingCodes, Tokens, TokenFor
<1>6. clock - codes[c].issued_at <= CodeTtl
  BY <1>1 DEF Grantable
<1>7. /\ TokenFor(c).page = codes[c].page /\ TokenFor(c).user = codes[c].user
      /\ TokenFor(c).groups = codes[c].groups /\ TokenFor(c).late = codes[c].late
      /\ TokenFor(c).iat = clock /\ TokenFor(c).again = (c \in presented)
  BY DEF TokenFor
<1>8. QED
  BY <1>1, <1>2, <1>3, <1>4, <1>5, <1>6, <1>7

\* What a request to /token changes for the attempts: one that waits for the
\* reply gets it, or none does.
LEMMA ReplyStep ==
    ASSUME NEW c, NEW v, NEW tok, Reply(c, v, tok)
    PROVE  \/ UNCHANGED <<pc, answer>>
           \/ \E a \in Attempts :
                 /\ pc[a] = "exchanging" /\ secret[a] = v
                 /\ \E q \in {"failed", "answered"} : pc' = [pc EXCEPT ![a] = q]
                 /\ answer' = [answer EXCEPT ![a] = tok]
BY DEF Reply

(* Every step keeps the types. *)
LEMMA TypeStep ==
    ASSUME Inv, Next
    PROVE  TypeOK'
<1> USE UsersAssumption, NoneAssumption, TimesAssumption DEF Inv, grants
<1>1. ASSUME NEW a \in Attempts, StartLogin(a)
      PROVE  TypeOK'
  BY <1>1 DEF TypeOK, StartLogin, server
<1>0. ASSUME NEW a \in Attempts, StartLoginFails(a) \/ WaitFails(a) \/ ExchangeFails(a)
      PROVE  TypeOK'
  <2>1. /\ pc' = [pc EXCEPT ![a] = "failed"]
        /\ UNCHANGED <<clock, secret, held, answer, keychain, callbacks, server>>
    BY <1>0 DEF StartLoginFails, WaitFails, ExchangeFails
  <2>2. QED
    BY <2>1 DEF TypeOK, server
<1>2. ASSUME NEW a \in Attempts, Callback(a)
      PROVE  TypeOK'
  <2>1. PICK cb \in callbacks :
          IF cb.state = secret[a]
          THEN pc' = [pc EXCEPT ![a] = "exchanging"] /\ held' = [held EXCEPT ![a] = cb.code]
          ELSE pc' = [pc EXCEPT ![a] = "failed"] /\ UNCHANGED held
    BY <1>2 DEF Callback
  <2>2. cb.code \in Codes
    BY <2>1 DEF TypeOK
  <2>3. pc' \in [Attempts -> {"idle", "waiting", "exchanging", "answered", "done", "failed"}]
    BY <2>1 DEF TypeOK
  <2>4. held' \in [Attempts -> Codes \cup {None}]
    BY <2>1, <2>2 DEF TypeOK
  <2>5. QED
    BY <1>2, <2>3, <2>4 DEF TypeOK, Callback, server
<1>3. ASSUME NEW c \in Codes, NEW v \in Attempts \cup {None}, Token(c, v)
      PROVE  TypeOK'
  <2>1. PICK tok \in Outcomes(c, v) : tokens' = tokens \cup ({tok} \ {None}) /\ Reply(c, v, tok)
    BY <1>3 DEF Token
  <2>2. tok \in Tokens \cup {None}
    BY <2>1, GrantStep
  <2>3. codes' \in [Codes -> PendingCodes \cup {None}] /\ presented' \in SUBSET Codes
    BY <1>3 DEF TypeOK, Token
  <2>4. answer' \in [Attempts -> Tokens \cup {None}] /\ tokens' \in SUBSET Tokens
    BY <2>1, <2>2, ReplyStep DEF TypeOK
  <2>5. pc' \in [Attempts -> {"idle", "waiting", "exchanging", "answered", "done", "failed"}]
    BY <2>1, ReplyStep DEF TypeOK
  <2>6. QED
    BY <1>3, <2>3, <2>4, <2>5 DEF TypeOK, Token
<1>4. ASSUME NEW a \in Attempts, StoreToken(a)
      PROVE  TypeOK'
  BY <1>4 DEF TypeOK, StoreToken, server
<1>5. ASSUME NEW a \in Attempts, IssueCode(a)
      PROVE  TypeOK'
  <2>1. submit[a] \in Submits /\ secret[a] = a
    BY <1>5 DEF TypeOK, SecretInv, IssueCode
  <2>2. PICK c \in Codes \ issued :
          /\ codes' = [codes EXCEPT ![c] =
                [user |-> submit[a].user, groups |-> submit[a].groups,
                 challenge |-> secret[a], page |-> a, issued_at |-> clock,
                 late |-> submit[a].late]]
          /\ issued' = issued \cup {c}
          /\ callbacks' = callbacks \cup {[code |-> c, state |-> secret[a]]}
    BY <1>5 DEF IssueCode
  <2>3. [user |-> submit[a].user, groups |-> submit[a].groups, challenge |-> secret[a],
         page |-> a, issued_at |-> clock, late |-> submit[a].late] \in PendingCodes
    BY <2>1 DEF TypeOK, Submits, PendingCodes
  <2>4. codes' \in [Codes -> PendingCodes \cup {None}]
    BY <2>2, <2>3 DEF TypeOK
  <2>5. issued' \in SUBSET Codes /\ callbacks' \in SUBSET [code : Codes, state : Attempts]
    BY <2>1, <2>2 DEF TypeOK
  <2>6. QED
    BY <1>5, <2>4, <2>5 DEF TypeOK, IssueCode, client
<1>6. ASSUME NEW a \in Attempts, NEW u \in Users, VerifyLogin(a, u)
      PROVE  TypeOK'
  <2>1. [user |-> u, groups |-> users[u], late |-> FALSE] \in Submits
    BY <1>6 DEF TypeOK, VerifyLogin, Submits
  <2>2. QED
    BY <1>6, <2>1 DEF TypeOK, VerifyLogin, client
<1>7. ASSUME NEW u \in Users, NEW g \in Groups, CreateUser(u, g)
      PROVE  TypeOK'
  BY <1>7 DEF TypeOK, CreateUser, client
<1>8. ASSUME NEW u \in Users, users[u] # None, Lose(u)
      PROVE  /\ goneAt' \in [Users -> [Groups -> Times \cup {None}]]
             /\ submit' \in [Attempts -> Submits \cup {None}]
  <2>1. goneAt' \in [Users -> [Groups -> Times \cup {None}]]
    BY <1>8 DEF TypeOK, Lose
  <2>2. ASSUME NEW a \in Attempts, submit[a] # None
        PROVE  [submit[a] EXCEPT !.late = TRUE] \in Submits
    <3>1. submit[a] \in Submits
      BY <2>2 DEF TypeOK
    <3>2. QED
      BY <3>1 DEF Submits
  <2>3. QED
    BY <1>8, <2>1, <2>2 DEF TypeOK, Lose
<1>9. ASSUME NEW u \in Users, NEW g \in Groups, SetGroups(u, g)
      PROVE  TypeOK'
  BY <1>9, <1>8 DEF TypeOK, SetGroups, client
<1>10. ASSUME NEW u \in Users, DeleteUser(u)
       PROVE  TypeOK'
  BY <1>10, <1>8 DEF TypeOK, DeleteUser, client
<1>11. CASE Logout
  BY <1>11 DEF TypeOK, Logout, server
<1>12. CASE Restart
  BY <1>12 DEF TypeOK, Restart, client
<1>13. CASE Tick
  BY <1>13 DEF TypeOK, Tick, client, Times
<1>14. QED
  BY <1>0, <1>1, <1>2, <1>3, <1>4, <1>5, <1>6, <1>7, <1>9, <1>10, <1>11, <1>12, <1>13 DEF Next

(* Every step keeps the secret of an attempt its own. *)
LEMMA SecretStep ==
    ASSUME Inv, TypeOK', Next
    PROVE  SecretInv'
<1> USE NoneAssumption DEF Inv
<1>1. ASSUME NEW a \in Attempts, StartLogin(a)
      PROVE  SecretInv'
  BY <1>1 DEF TypeOK, SecretInv, StartLogin, server
<1>2. ASSUME NEW a \in Attempts, StartLoginFails(a) \/ WaitFails(a) \/ ExchangeFails(a) \/ StoreToken(a)
      PROVE  SecretInv'
  BY <1>2 DEF TypeOK, SecretInv, StartLoginFails, WaitFails, ExchangeFails, StoreToken, server
<1>3. ASSUME NEW a \in Attempts, Callback(a)
      PROVE  SecretInv'
  <2>1. PICK cb \in callbacks :
          IF cb.state = secret[a]
          THEN pc' = [pc EXCEPT ![a] = "exchanging"] /\ held' = [held EXCEPT ![a] = cb.code]
          ELSE pc' = [pc EXCEPT ![a] = "failed"] /\ UNCHANGED held
    BY <1>3 DEF Callback
  <2>2. cb.code \in Codes
    BY <2>1 DEF TypeOK
  <2>3. secret[a] = a
    BY <1>3 DEF SecretInv, Callback
  <2>4. QED
    BY <1>3, <2>1, <2>2, <2>3 DEF TypeOK, SecretInv, Callback, server
<1>4. ASSUME NEW c \in Codes, NEW v \in Attempts \cup {None}, Token(c, v)
      PROVE  SecretInv'
  <2>1. PICK tok \in Outcomes(c, v) : Reply(c, v, tok)
    BY <1>4 DEF Token
  <2>2. UNCHANGED <<secret, submit, held>>
    BY <1>4 DEF Token
  <2>3. QED
    BY <2>1, <2>2, ReplyStep DEF TypeOK, SecretInv
<1>5. ASSUME NEW a \in Attempts, IssueCode(a)
      PROVE  SecretInv'
  BY <1>5 DEF TypeOK, SecretInv, IssueCode, client
<1>6. ASSUME NEW a \in Attempts, NEW u \in Users, VerifyLogin(a, u)
      PROVE  SecretInv'
  BY <1>6 DEF TypeOK, SecretInv, VerifyLogin, client
<1>7. ASSUME UNCHANGED <<pc, secret, held>>, \A a \in Attempts : submit'[a] # None => submit[a] # None
      PROVE  SecretInv'
  BY <1>7 DEF SecretInv
<1>8. ASSUME NEW u \in Users, Lose(u)
      PROVE  \A a \in Attempts : submit'[a] # None => submit[a] # None
  BY <1>8 DEF Lose
<1>9. ASSUME NEW u \in Users, NEW g \in Groups, CreateUser(u, g) \/ SetGroups(u, g)
      PROVE  SecretInv'
  BY <1>9, <1>7, <1>8 DEF CreateUser, SetGroups, client
<1>10. ASSUME NEW u \in Users, DeleteUser(u)
       PROVE  SecretInv'
  BY <1>10, <1>7, <1>8 DEF DeleteUser, client
<1>11. CASE Logout \/ Restart \/ Tick
  BY <1>11, <1>7 DEF Logout, Restart, Tick, client, server
<1>12. QED
  BY <1>1, <1>2, <1>3, <1>4, <1>5, <1>6, <1>9, <1>10, <1>11 DEF Next

(* Every step keeps codes with the login they were issued for. *)
LEMMA CodeStep ==
    ASSUME Inv, TypeOK', Next
    PROVE  CodeInv' /\ GrantInv'
<1> USE TimesAssumption DEF Inv
<1>1. ASSUME NEW c \in Codes, NEW v \in Attempts \cup {None}, Token(c, v)
      PROVE  CodeInv' /\ GrantInv'
  <2>1. PICK tok \in Outcomes(c, v) : tokens' = tokens \cup ({tok} \ {None})
    BY <1>1 DEF Token
  <2>2. /\ UNCHANGED <<clock, issued, callbacks, held>>
        /\ codes' = [codes EXCEPT ![c] = None] /\ presented' = presented \cup {c}
        /\ codes \in [Codes -> PendingCodes \cup {None}] /\ clock \in Nat
    BY <1>1 DEF Token, TypeOK, Times
  <2>3. CodeInv'
    BY <2>2 DEF CodeInv
  <2>4. c \in issued
    BY <1>1, NoneAssumption DEF Token, Request, GrantInv
  <2>5. \A t \in tokens' : t.iat <= clock /\ ~t.again
    BY <2>1, <2>2, GrantStep DEF GrantInv, CodeGrantsOnce
  <2>6. \A d \in presented' : d \in issued' /\ codes'[d] = None
    BY <2>2, <2>4 DEF GrantInv, TypeOK
  <2>7. QED
    BY <2>2, <2>3, <2>5, <2>6 DEF GrantInv, CodeGrantsOnce
<1>2. ASSUME NEW a \in Attempts, IssueCode(a)
      PROVE  CodeInv' /\ GrantInv'
  <2>1. PICK c \in Codes \ issued :
          /\ codes' = [codes EXCEPT ![c] =
                [user |-> submit[a].user, groups |-> submit[a].groups,
                 challenge |-> secret[a], page |-> a, issued_at |-> clock,
                 late |-> submit[a].late]]
          /\ issued' = issued \cup {c}
          /\ callbacks' = callbacks \cup {[code |-> c, state |-> secret[a]]}
    BY <1>2 DEF IssueCode
  <2>2. secret[a] = a /\ UNCHANGED <<clock, presented, tokens, held>> /\ clock \in Nat
    BY <1>2 DEF SecretInv, IssueCode, TypeOK, Times, grants, client
  <2>3. CodeInv'
    BY <2>1, <2>2 DEF TypeOK, CodeInv
  <2>4. c \notin presented
    BY <2>1 DEF GrantInv
  <2>5. \A d \in presented' : d \in issued' /\ codes'[d] = None
    BY <2>1, <2>2, <2>4 DEF TypeOK, GrantInv
  <2>6. \A cb \in callbacks' : cb.code \in issued'
    BY <2>1 DEF GrantInv
  <2>7. QED
    BY <2>1, <2>2, <2>3, <2>5, <2>6 DEF GrantInv, CodeGrantsOnce
<1>3. ASSUME UNCHANGED <<issued, presented, tokens, callbacks>>, clock <= clock',
             UNCHANGED codes \/ codes' = [c \in Codes |-> None],
             \A a \in Attempts : held'[a] \in {held[a]} \cup {cb.code : cb \in callbacks}
      PROVE  CodeInv' /\ GrantInv'
  <2>1. clock \in Nat /\ clock' \in Nat
    BY DEF TypeOK, Times
  <2>2. CodeInv'
    BY <1>3, <2>1 DEF TypeOK, CodeInv, PendingCodes, Times
  <2>3. \A t \in tokens' : t.iat <= clock'
    BY <1>3, <2>1 DEF TypeOK, GrantInv, Tokens, Times
  <2>4. \A c \in presented' : c \in issued' /\ codes'[c] = None
    BY <1>3 DEF TypeOK, GrantInv
  <2>5. \A a \in Attempts : held'[a] \in issued' \cup {None}
    BY <1>3 DEF GrantInv
  <2>6. QED
    BY <1>3, <2>2, <2>3, <2>4, <2>5 DEF GrantInv, CodeGrantsOnce
<1>4. clock \in Nat
  BY DEF TypeOK, Times
<1>5. ASSUME NEW a \in Attempts,
             \/ StartLogin(a) \/ StartLoginFails(a) \/ Callback(a) \/ WaitFails(a)
             \/ StoreToken(a) \/ ExchangeFails(a) \/ \E u \in Users : VerifyLogin(a, u)
      PROVE  CodeInv' /\ GrantInv'
  <2>1. UNCHANGED <<clock, codes, issued, presented, tokens, callbacks>>
    BY <1>5 DEF StartLogin, StartLoginFails, Callback, WaitFails, StoreToken,
       ExchangeFails, VerifyLogin, server, grants
  <2>2. \A b \in Attempts : held'[b] \in {held[b]} \cup {cb.code : cb \in callbacks}
    BY <1>5 DEF StartLogin, StartLoginFails, Callback, WaitFails, StoreToken,
       ExchangeFails, VerifyLogin, client, TypeOK
  <2>3. QED
    BY <1>3, <1>4, <2>1, <2>2
<1>6. ASSUME NEW u \in Users,
             DeleteUser(u) \/ \E g \in Groups : CreateUser(u, g) \/ SetGroups(u, g)
      PROVE  CodeInv' /\ GrantInv'
  BY <1>3, <1>4, <1>6 DEF DeleteUser, CreateUser, SetGroups, grants, client
<1>7. CASE Logout \/ Restart \/ Tick
  BY <1>3, <1>4, <1>7 DEF Logout, Restart, Tick, server, grants, client
<1>8. QED
  BY <1>1, <1>2, <1>5, <1>6, <1>7 DEF Next

(* Every step keeps an answer with the attempt it answers. *)
LEMMA AnswerStep ==
    ASSUME Inv, Next
    PROVE  AnswerIsForThisLogin'
<1> USE DEF Inv
<1>1. ASSUME NEW c \in Codes, NEW v \in Attempts \cup {None}, Token(c, v)
      PROVE  AnswerIsForThisLogin'
  <2>1. PICK tok \in Outcomes(c, v) : Reply(c, v, tok)
    BY <1>1 DEF Token
  <2>2. CASE UNCHANGED answer
    BY <2>2 DEF AnswerIsForThisLogin
  <2>3. ASSUME NEW a \in Attempts, pc[a] = "exchanging", secret[a] = v,
               answer' = [answer EXCEPT ![a] = tok]
        PROVE  AnswerIsForThisLogin'
    <3>1. v = a
      BY <2>3 DEF SecretInv
    <3>2. tok # None => tok.page = a
      BY <2>1, <3>1, GrantStep
    <3>3. QED
      BY <2>3, <3>2 DEF TypeOK, AnswerIsForThisLogin
  <2>4. QED
    BY <2>1, <2>2, <2>3, ReplyStep
<1>2. ASSUME UNCHANGED answer
      PROVE  AnswerIsForThisLogin'
  BY <1>2 DEF AnswerIsForThisLogin
<1>3. QED
  BY <1>1, <1>2 DEF Next, StartLogin, StartLoginFails, Callback, WaitFails, StoreToken,
     ExchangeFails, VerifyLogin, IssueCode, DeleteUser, CreateUser, SetGroups, Logout, Restart,
     Tick, client

\* A step that gives or takes groups away keeps what RevokeInv says of the codes
\* and tokens: what is taken away is marked with the present moment, which is no
\* earlier than any code or token.
LEMMA GroupsChange ==
    ASSUME Inv, TypeOK', UNCHANGED <<clock, tokens>>,
           UNCHANGED codes \/ codes' = [c \in Codes |-> None],
           \A u \in Users, g \in Groups :
               \/ UNCHANGED goneAt[u][g] /\ (users[u] = g => users'[u] = g)
               \/ goneAt'[u][g] = clock
    PROVE  /\ \A c \in Codes : codes'[c] # None /\ ~codes'[c].late =>
                \/ users'[codes'[c].user] = codes'[c].groups
                \/ Lost(codes[c].user, codes[c].groups, codes[c].issued_at)'
           /\ \A t \in tokens' : ~t.late =>
                \/ users'[t.user] = t.groups
                \/ Lost(t.user, t.groups, t.iat - CodeTtl)'
<1> USE TimesAssumption DEF Inv
<1>1. ASSUME NEW c \in Codes, codes'[c] # None, ~codes'[c].late
      PROVE  \/ users'[codes'[c].user] = codes'[c].groups
             \/ Lost(codes[c].user, codes[c].groups, codes[c].issued_at)'
  <2>1. /\ UNCHANGED codes /\ codes[c] \in PendingCodes
        /\ codes[c].issued_at <= clock /\ clock \in Times
    BY <1>1 DEF TypeOK, CodeInv
  <2>2. codes[c].user \in Users /\ codes[c].groups \in Groups
    BY <2>1 DEF PendingCodes
  <2>3. QED
    BY <1>1, <2>1, <2>2 DEF RevokeInv, Lost
<1>2. ASSUME NEW t \in tokens, ~t.late
      PROVE  \/ users'[t.user] = t.groups
             \/ Lost(t.user, t.groups, t.iat - CodeTtl)'
  <2>1. t.user \in Users /\ t.groups \in Groups /\ t.iat \in Nat /\ t.iat - CodeTtl <= t.iat
    BY DEF TypeOK, Tokens, Times
  <2>2. t.iat <= clock /\ clock \in Times /\ clock \in Nat
    BY DEF GrantInv, TypeOK, Times
  <2>3. t.iat - CodeTtl <= clock
    BY <2>1, <2>2
  <2>4. QED
    BY <1>2, <2>1, <2>2, <2>3 DEF RevokeInv, Lost
<1>3. QED
  BY <1>1, <1>2

(* Every step keeps the groups of codes and tokens within what was granted in time. *)
LEMMA RevokeStep ==
    ASSUME Inv, TypeOK', Next
    PROVE  RevokeInv'
<1> USE NoneAssumption, TimesAssumption DEF Inv, grants
<1>1. ASSUME NEW k \in Codes, NEW v \in Attempts \cup {None}, Token(k, v)
      PROVE  RevokeInv'
  <2>0. PICK tok \in Outcomes(k, v) : tokens' = tokens \cup ({tok} \ {None})
    BY <1>1 DEF Token
  <2>1. /\ UNCHANGED <<clock, users, goneAt, submit>>
        /\ codes' = [codes EXCEPT ![k] = None]
        /\ codes \in [Codes -> PendingCodes \cup {None}]
    BY <1>1 DEF Token, TypeOK
  <2>2. \A c \in Codes : codes'[c] # None /\ ~codes'[c].late =>
            \/ users'[codes'[c].user] = codes'[c].groups
            \/ Lost(codes[c].user, codes[c].groups, codes[c].issued_at)'
    BY <2>1 DEF RevokeInv, Lost
  <2>3. ASSUME NEW t \in tokens', ~t.late
        PROVE  \/ users'[t.user] = t.groups
               \/ Lost(t.user, t.groups, t.iat - CodeTtl)'
    <3>1. CASE t \in tokens
      BY <2>1, <2>3, <3>1 DEF RevokeInv, Lost
    <3>2. CASE t \notin tokens
      <4> DEFINE p == codes[k]
      <4>1. /\ p \in PendingCodes /\ p # None
            /\ t.user = p.user /\ t.groups = p.groups /\ t.late = p.late
            /\ t.iat = clock /\ clock - p.issued_at <= CodeTtl
        BY <2>0, <2>3, <3>2, GrantStep
      <4>2. p.issued_at \in Nat /\ clock \in Nat /\ Times \subseteq Nat
        BY <4>1 DEF TypeOK, PendingCodes, Times
      <4>3. users[p.user] = p.groups \/ Lost(p.user, p.groups, p.issued_at)
        BY <2>1, <2>3, <4>1 DEF RevokeInv
      <4>4. ASSUME Lost(p.user, p.groups, p.issued_at)
            PROVE  Lost(p.user, p.groups, clock - CodeTtl)
        <5> DEFINE n == goneAt[p.user][p.groups]
                   i == p.issued_at
        <5>1. n \in Times /\ n \in Nat /\ i <= n /\ i \in Nat /\ clock - i <= CodeTtl
          BY <4>1, <4>2, <4>4 DEF Lost
        <5> HIDE DEF n, i
        <5>2. clock - CodeTtl <= n
          BY <4>2, <5>1
        <5>3. QED
          BY <5>1, <5>2 DEF Lost, n
      <4>5. QED
        BY <2>1, <4>1, <4>3, <4>4 DEF Lost
    <3>3. QED
      BY <3>1, <3>2
  <2>4. QED
    BY <2>1, <2>2, <2>3 DEF RevokeInv
<1>2. ASSUME NEW a \in Attempts, IssueCode(a)
      PROVE  RevokeInv'
  <2>1. PICK c \in Codes \ issued : codes' = [codes EXCEPT ![c] =
                [user |-> submit[a].user, groups |-> submit[a].groups,
                 challenge |-> secret[a], page |-> a, issued_at |-> clock,
                 late |-> submit[a].late]]
    BY <1>2 DEF IssueCode
  <2>2. /\ UNCHANGED <<clock, users, goneAt, tokens>>
        /\ submit[a] # None /\ submit' = [submit EXCEPT ![a] = None]
    BY <1>2 DEF IssueCode
  <2>3. QED
    BY <2>1, <2>2 DEF TypeOK, RevokeInv, Lost
<1>3. ASSUME NEW a \in Attempts, NEW u \in Users, VerifyLogin(a, u)
      PROVE  RevokeInv'
  BY <1>3 DEF TypeOK, RevokeInv, Lost, VerifyLogin
<1>4. ASSUME NEW u \in Users, NEW g \in Groups, CreateUser(u, g)
      PROVE  RevokeInv'
  <2>1. /\ UNCHANGED <<clock, goneAt, submit, codes, tokens>>
        /\ users[u] = None /\ users' = [users EXCEPT ![u] = g]
    BY <1>4 DEF CreateUser
  <2>2. \A v \in Users, h \in Groups : users[v] = h => users'[v] = h
    BY <2>1 DEF TypeOK
  <2>3. \A a \in Attempts : submit'[a] # None /\ ~submit'[a].late =>
            users'[submit'[a].user] = submit'[a].groups
    BY <2>1, <2>2 DEF TypeOK, RevokeInv, Submits
  <2>4. QED
    BY <2>1, <2>2, <2>3, GroupsChange DEF RevokeInv
<1>5. ASSUME NEW u \in Users, SetGroups(u, users'[u]) \/ DeleteUser(u)
      PROVE  RevokeInv'
  <2>1. /\ UNCHANGED <<clock, codes, tokens>>
        /\ users[u] \in Groups /\ Lose(u)
        /\ \E g \in Groups \cup {None} : g # users[u] /\ users' = [users EXCEPT ![u] = g]
    BY <1>5 DEF SetGroups, DeleteUser, TypeOK
  <2>2. ASSUME NEW v \in Users, NEW h \in Groups
        PROVE  \/ UNCHANGED goneAt[v][h] /\ (users[v] = h => users'[v] = h)
               \/ goneAt'[v][h] = clock
    <3>1. CASE v = u /\ h = users[u]
      BY <2>1, <3>1 DEF Lose, TypeOK
    <3>2. CASE v # u \/ h # users[u]
      BY <2>1, <3>2 DEF Lose, TypeOK
    <3>3. QED
      BY <3>1, <3>2
  <2>3. ASSUME NEW a \in Attempts, submit'[a] # None, ~submit'[a].late
        PROVE  users'[submit'[a].user] = submit'[a].groups
    <3>1. submit'[a] = IF submit[a] # None /\ submit[a].user = u /\ submit[a].groups = users[u]
                       THEN [submit[a] EXCEPT !.late = TRUE] ELSE submit[a]
      BY <2>1 DEF Lose
    <3>2. submit[a] # None /\ submit[a] \in Submits
      BY <2>3, <3>1 DEF TypeOK
    <3>3. submit'[a] = submit[a] /\ (submit[a].user # u \/ submit[a].groups # users[u])
      BY <2>3, <3>1, <3>2 DEF Submits
    <3>4. submit[a].user # u
      BY <2>3, <3>2, <3>3 DEF RevokeInv
    <3>5. submit[a].user \in Users /\ users[submit[a].user] = submit[a].groups
      BY <2>3, <3>2, <3>3 DEF RevokeInv, Submits
    <3>6. \A v \in Users : v # u => users'[v] = users[v]
      BY <2>1 DEF TypeOK
    <3>7. QED
      BY <3>3, <3>4, <3>5, <3>6
  <2>4. QED
    BY <2>1, <2>2, <2>3, GroupsChange DEF RevokeInv
<1>6. CASE Restart
  <2>1. /\ UNCHANGED <<clock, goneAt, tokens>>
        /\ codes' = [c \in Codes |-> None] /\ submit' = [a \in Attempts |-> None]
    BY <1>6 DEF Restart
  <2>2. \A v \in Users, h \in Groups : users[v] = h => users'[v] = h
    BY <1>6 DEF Restart, TypeOK
  <2>3. QED
    BY <2>1, <2>2, GroupsChange DEF RevokeInv
<1>7. ASSUME UNCHANGED <<users, goneAt, submit, codes, tokens>>
      PROVE  RevokeInv'
  BY <1>7 DEF RevokeInv, Lost
<1>8. ASSUME NEW a \in Attempts,
             \/ StartLogin(a) \/ StartLoginFails(a) \/ Callback(a) \/ WaitFails(a)
             \/ StoreToken(a) \/ ExchangeFails(a)
      PROVE  RevokeInv'
  BY <1>7, <1>8 DEF StartLogin, StartLoginFails, Callback, WaitFails, StoreToken,
     ExchangeFails, server, grants
<1>9. CASE Logout \/ Tick
  BY <1>7, <1>9 DEF Logout, Tick, server, grants
<1>10. ASSUME NEW u \in Users, NEW g \in Groups, SetGroups(u, g)
       PROVE  SetGroups(u, users'[u])
  BY <1>10 DEF SetGroups, TypeOK
<1>11. QED
  BY <1>1, <1>2, <1>3, <1>4, <1>5, <1>6, <1>8, <1>9, <1>10 DEF Next

(* The parts together are inductive. *)
LEMMA NextInv == Inv /\ [Next]_vars => Inv'
<1> SUFFICES ASSUME Inv, [Next]_vars PROVE Inv'
  OBVIOUS
<1>1. CASE Next
  <2>1. TypeOK'
    BY <1>1, TypeStep
  <2>2. QED
    BY <1>1, <2>1, SecretStep, CodeStep, AnswerStep, RevokeStep DEF Inv
<1>2. CASE UNCHANGED vars
  BY <1>2 DEF vars, grants, Inv, TypeOK, SecretInv, CodeInv, GrantInv, CodeGrantsOnce,
     AnswerIsForThisLogin, RevokeInv, Lost
<1>3. QED
  BY <1>1, <1>2

(* The invariant of the login holds in every behaviour. *)
LEMMA Invariance == Spec => []Inv
BY InitInv, NextInv, PTL DEF Spec

-----------------------------------------------------------------------------
\* The variables of the shell, of oosiam and of the browser keep their types, for
\* any number of attempts, users and codes.
THEOREM TypeCorrect == Spec => []TypeOK
<1>1. Inv => TypeOK
  BY DEF Inv
<1>2. QED
  BY <1>1, Invariance, PTL

\* A token that ends an attempt was granted to the credentials typed into that
\* attempt's own page, whatever pages and callback URLs earlier and later attempts
\* left in the browser (start_login's state check, PKCE at /token).
THEOREM AnswerTheorem == Spec => []AnswerIsForThisLogin
<1>1. Inv => AnswerIsForThisLogin
  BY DEF Inv
<1>2. QED
  BY <1>1, Invariance, PTL

\* Only the first request that presents a code can be granted a token for it, for
\* any number of repeated and foreign requests: presenting a code removes it, and a
\* restart of oosiam forgets it (the code map of /auth and /token).
THEOREM CodeTheorem == Spec => []CodeGrantsOnce
<1>1. Inv => CodeGrantsOnce
  BY DEF Inv, GrantInv
<1>2. QED
  BY <1>1, Invariance, PTL

\* A user who lost groups gets no token with them later than the code lifetime
\* after the loss, except from a login whose row had been read before it.
THEOREM RevocationTheorem == Spec => []RevocationTakesHold
<1>1. Inv => RevocationTakesHold
  <2> SUFFICES ASSUME Inv, NEW t \in tokens, ~t.late, users[t.user] # t.groups
               PROVE  t.iat <= goneAt[t.user][t.groups] + CodeTtl
    BY DEF RevocationTakesHold
  <2>1. Lost(t.user, t.groups, t.iat - CodeTtl)
    BY DEF Inv, RevokeInv
  <2>2. t.iat \in Nat
    BY DEF Inv, TypeOK, Tokens, Times
  <2>3. QED
    BY <2>1, <2>2, TimesAssumption DEF Lost, Times
<1>2. QED
  BY <1>1, Invariance, PTL
=============================================================================
