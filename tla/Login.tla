------------------------------- MODULE Login -------------------------------
(***************************************************************************)
(* Signing in: the oos shell's OAuth2 + PKCE client (start_login), the     *)
(* user's browser, and oosiam, which checks the credentials at /auth,      *)
(* keeps the authorization codes in memory and turns one into a token at   *)
(* /token.  oosd's admin panel changes the users meanwhile, and oosiam may *)
(* be restarted at any point.                                              *)
(*                                                                         *)
(* An attempt draws a random verifier and state; here both are its secret. *)
(* Its login page stays open in the browser, and a callback URL stays in   *)
(* the browser's history, after the attempt is over: either can be used    *)
(* again while the next attempt listens on the same port.  /token serves   *)
(* whoever asks: the shell's request may arrive again, and a code that was *)
(* in a callback URL may be presented by a client that is not the shell.   *)
(* Wrong credentials and requests that lack a parameter change nothing and *)
(* are not actions.                                                        *)
(***************************************************************************)
EXTENDS Integers, FiniteSets

CONSTANTS
    Attempts,      \* calls of start_login on one machine
    Users,         \* e-mail addresses
    Admin,         \* the address seeded into an empty table
    Groups,        \* group lists
    Codes,         \* authorization codes the OS random source yields
    CodeTtl,       \* code_ttl_sec
    MaxClock,      \* bound on the clock
    None

ASSUME UsersAssumption == Admin \in Users /\ Groups # {}
ASSUME NoneAssumption == None \notin Groups \cup Codes \cup Attempts \cup Users
ASSUME TimesAssumption ==
    CodeTtl \in Nat /\ MaxClock \in Nat

VARIABLES
    clock,     \* seconds, shared by the shell and oosiam
    users,     \* iam.users: address -> group list, None without a row
    goneAt,    \* history: goneAt[u][g], when u last lost the groups g
    pc,        \* pc[a]: "idle", "waiting", "exchanging", "answered", "done", "failed"
    secret,    \* secret[a]: the verifier and the state of the attempt
    submit,    \* submit[a]: the credentials checked for a's page, code not yet issued
    codes,     \* AppState.codes: the outstanding codes
    issued,    \* codes ever issued
    presented, \* history: the codes some request to /token has named
    callbacks, \* the redirect URLs the browser has been sent to: [code, state]
    held,      \* held[a]: the code a received
    answer,    \* answer[a]: the token in the reply to a, None for an error
    keychain,  \* the stored id_token, None when signed out
    tokens     \* history: the tokens signed

vars == <<clock, users, goneAt, pc, secret, submit, codes, issued, presented,
          callbacks, held, answer, keychain, tokens>>

grants == <<presented, tokens>>
server == <<users, goneAt, submit, codes, issued, grants>>
client == <<pc, secret, held, answer, keychain>>

Times == 0..MaxClock
Submits == [user : Users, groups : Groups, late : BOOLEAN]
PendingCodes == [user : Users, groups : Groups, challenge : Attempts,
                 page : Attempts, issued_at : Times, late : BOOLEAN]
Tokens == [user : Users, groups : Groups, page : Attempts, code : Codes,
           iat : Times, late : BOOLEAN, again : BOOLEAN]

TypeOK ==
    /\ clock \in Times
    /\ users \in [Users -> Groups \cup {None}]
    /\ goneAt \in [Users -> [Groups -> Times \cup {None}]]
    /\ pc \in [Attempts -> {"idle", "waiting", "exchanging", "answered", "done", "failed"}]
    /\ secret \in [Attempts -> Attempts \cup {None}]
    /\ submit \in [Attempts -> Submits \cup {None}]
    /\ codes \in [Codes -> PendingCodes \cup {None}]
    /\ issued \in SUBSET Codes
    /\ presented \in SUBSET Codes
    /\ callbacks \in SUBSET [code : Codes, state : Attempts]
    /\ held \in [Attempts -> Codes \cup {None}]
    /\ answer \in [Attempts -> Tokens \cup {None}]
    /\ keychain \in Tokens \cup {None}
    /\ tokens \in SUBSET Tokens

\* ensure_schema has run and seed_admin_if_empty has found an empty table.
Init ==
    /\ clock = 0
    /\ \E g \in Groups : users = [u \in Users |-> IF u = Admin THEN g ELSE None]
    /\ goneAt = [u \in Users |-> [g \in Groups |-> None]]
    /\ pc = [a \in Attempts |-> "idle"]
    /\ secret = [a \in Attempts |-> None]
    /\ submit = [a \in Attempts |-> None]
    /\ codes = [c \in Codes |-> None]
    /\ issued = {}
    /\ presented = {}
    /\ callbacks = {}
    /\ held = [a \in Attempts |-> None]
    /\ answer = [a \in Attempts |-> None]
    /\ keychain = None
    /\ tokens = {}

-----------------------------------------------------------------------------
(* The shell.                                                              *)

PortFree == \A b \in Attempts : pc[b] # "waiting"

\* Mutant: every attempt sends the same verifier and state.
StartLoginFixedSecret(a) ==
    /\ pc[a] = "idle"
    /\ PortFree
    /\ pc' = [pc EXCEPT ![a] = "waiting"]
    /\ secret' = [secret EXCEPT ![a] = CHOOSE b \in Attempts : TRUE]
    /\ UNCHANGED <<clock, held, answer, keychain, callbacks, server>>

\* The endpoints are discovered, secrets drawn, the port bound and the browser
\* opened, in that order.
StartLogin(a) ==
    /\ pc[a] = "idle"
    /\ PortFree
    /\ pc' = [pc EXCEPT ![a] = "waiting"]
    /\ secret' = [secret EXCEPT ![a] = a]
    /\ UNCHANGED <<clock, held, answer, keychain, callbacks, server>>

\* Discovery fails, or another attempt holds the port.
StartLoginFails(a) ==
    /\ pc[a] = "idle"
    /\ pc' = [pc EXCEPT ![a] = "failed"]
    /\ UNCHANGED <<clock, secret, held, answer, keychain, callbacks, server>>

\* A callback reaches the port: with the attempt's own state its code is
\* taken, with any other the attempt is given up.
Callback(a) ==
    /\ pc[a] = "waiting"
    /\ \E cb \in callbacks :
          IF cb.state = secret[a]
          THEN /\ pc' = [pc EXCEPT ![a] = "exchanging"]
               /\ held' = [held EXCEPT ![a] = cb.code]
          ELSE /\ pc' = [pc EXCEPT ![a] = "failed"]
               /\ UNCHANGED held
    /\ UNCHANGED <<clock, secret, answer, keychain, callbacks, server>>

\* wait_for_code gives up: after its deadline, on a callback without a code, or
\* when accept fails.  Time is not tied to the deadline: it may come at any moment.
WaitFails(a) ==
    /\ pc[a] = "waiting"
    /\ pc' = [pc EXCEPT ![a] = "failed"]
    /\ UNCHANGED <<clock, secret, held, answer, keychain, callbacks, server>>

\* The reply holds a token: it goes into the keychain.
StoreToken(a) ==
    /\ pc[a] = "answered"
    /\ answer[a] # None
    /\ pc' = [pc EXCEPT ![a] = "done"]
    /\ keychain' = answer[a]
    /\ UNCHANGED <<clock, secret, held, answer, callbacks, server>>

\* The request or its reply is lost, the reply is an error, or the keychain
\* refuses the token.
ExchangeFails(a) ==
    /\ pc[a] \in {"exchanging", "answered"}
    /\ pc' = [pc EXCEPT ![a] = "failed"]
    /\ UNCHANGED <<clock, secret, held, answer, keychain, callbacks, server>>

Logout ==
    /\ keychain # None
    /\ keychain' = None
    /\ UNCHANGED <<clock, pc, secret, held, answer, callbacks, server>>

-----------------------------------------------------------------------------
(* oosiam's HTTP endpoints.                                                *)

\* POST /auth: the row is read and the password matches its hash.  The page of
\* an attempt that is over can still be submitted.
VerifyLogin(a, u) ==
    /\ secret[a] # None
    /\ submit[a] = None
    /\ users[u] # None
    /\ submit' = [submit EXCEPT ![a] = [user |-> u, groups |-> users[u], late |-> FALSE]]
    /\ UNCHANGED <<clock, users, goneAt, codes, issued, grants, callbacks, client>>

\* POST /auth, after the hash was checked: a fresh code is stored and the
\* browser redirected to the shell.
IssueCode(a) ==
    /\ submit[a] # None
    /\ \E c \in Codes \ issued :
          /\ codes' = [codes EXCEPT ![c] =
                [user |-> submit[a].user, groups |-> submit[a].groups,
                 challenge |-> secret[a], page |-> a, issued_at |-> clock,
                 late |-> submit[a].late]]
          /\ issued' = issued \cup {c}
          /\ callbacks' = callbacks \cup {[code |-> c, state |-> secret[a]]}
    /\ submit' = [submit EXCEPT ![a] = None]
    /\ UNCHANGED <<clock, users, goneAt, grants, client>>

\* A challenge is the hash of one verifier; each attempt's verifier stands for both.
VerifyS256(verifier, challenge) == verifier = challenge

\* Mutant: a code of any age is accepted.
GrantableAtAnyAge(p, verifier) == p # None /\ VerifyS256(verifier, p.challenge)

\* The checks of /token, in its order: known, not expired, verified by PKCE.
Grantable(p, verifier) ==
    /\ p # None
    /\ clock - p.issued_at <= CodeTtl
    /\ VerifyS256(verifier, p.challenge)

\* The requests /token may get: the shell's own, which can arrive more than once
\* and late, and one of a client that has a callback URL but not the verifier.
Request(c, v) ==
    \/ \E a \in Attempts : held[a] = c /\ secret[a] = v
    \/ v = None /\ \E cb \in callbacks : cb.code = c

\* The token signed for a code carries the groups read at /auth; the history
\* notes whether the code had been presented before.
TokenFor(c) ==
    [user |-> codes[c].user, groups |-> codes[c].groups, page |-> codes[c].page,
     code |-> c, iat |-> clock, late |-> codes[c].late, again |-> c \in presented]

\* The outcomes of a request: None is an error, of signing too.
Outcomes(c, v) == {None} \cup IF Grantable(codes[c], v) THEN {TokenFor(c)} ELSE {}

\* The reply reaches the attempt that is waiting for it, or nobody.
Reply(c, v, tok) ==
    \/ UNCHANGED <<pc, answer>>
    \/ \E a \in Attempts :
          /\ pc[a] = "exchanging" /\ held[a] = c /\ secret[a] = v
          /\ pc' = [pc EXCEPT ![a] = IF tok = None THEN "failed" ELSE "answered"]
          /\ answer' = [answer EXCEPT ![a] = tok]

\* Mutant: the code is removed only when it is granted.
TokenKeepsCode(c, v) ==
    /\ Request(c, v)
    /\ \E tok \in Outcomes(c, v) :
          /\ codes' = [codes EXCEPT ![c] = IF tok = None THEN @ ELSE None]
          /\ tokens' = tokens \cup ({tok} \ {None})
          /\ Reply(c, v, tok)
    /\ presented' = presented \cup {c}
    /\ UNCHANGED <<clock, users, goneAt, submit, issued, callbacks, secret, held, keychain>>

\* POST /token: the code is removed whatever happens next, then checked and
\* exchanged for a token.
Token(c, v) ==
    /\ Request(c, v)
    /\ \E tok \in Outcomes(c, v) :
          /\ tokens' = tokens \cup ({tok} \ {None})
          /\ Reply(c, v, tok)
    /\ codes' = [codes EXCEPT ![c] = None]
    /\ presented' = presented \cup {c}
    /\ UNCHANGED <<clock, users, goneAt, submit, issued, callbacks, secret, held, keychain>>

-----------------------------------------------------------------------------
(* The admin panel, a restart, and time.                                   *)

\* Creating an address that has a row is an error and changes nothing.
CreateUser(u, g) ==
    /\ users[u] = None
    /\ users' = [users EXCEPT ![u] = g]
    /\ UNCHANGED <<clock, goneAt, submit, codes, issued, grants, callbacks, client>>

\* The history of a user losing the groups of their row: a login whose row was
\* already read goes on, and is marked late.
Lose(u) ==
    /\ goneAt' = [goneAt EXCEPT ![u][users[u]] = clock]
    /\ submit' = [a \in Attempts |->
                     IF submit[a] # None /\ submit[a].user = u /\ submit[a].groups = users[u]
                     THEN [submit[a] EXCEPT !.late = TRUE] ELSE submit[a]]

SetGroups(u, g) ==
    /\ users[u] \notin {None, g}
    /\ users' = [users EXCEPT ![u] = g]
    /\ Lose(u)
    /\ UNCHANGED <<clock, codes, issued, grants, callbacks, client>>

DeleteUser(u) ==
    /\ users[u] # None
    /\ users' = [users EXCEPT ![u] = None]
    /\ Lose(u)
    /\ UNCHANGED <<clock, codes, issued, grants, callbacks, client>>

\* oosiam stops and starts: codes and requests in progress are gone, the users
\* and the signing key are not; an empty table gets its admin again.
Restart ==
    /\ codes' = [c \in Codes |-> None]
    /\ submit' = [a \in Attempts |-> None]
    /\ IF \A u \in Users : users[u] = None
       THEN \E g \in Groups : users' = [users EXCEPT ![Admin] = g]
       ELSE UNCHANGED users
    /\ UNCHANGED <<clock, goneAt, issued, grants, callbacks, client>>

Tick ==
    /\ clock < MaxClock
    /\ clock' = clock + 1
    /\ UNCHANGED <<users, goneAt, submit, codes, issued, grants, callbacks, client>>

-----------------------------------------------------------------------------

Next ==
    \/ \E a \in Attempts :
          \/ StartLogin(a) \/ StartLoginFails(a)
          \/ Callback(a) \/ WaitFails(a)
          \/ StoreToken(a) \/ ExchangeFails(a)
          \/ IssueCode(a)
          \/ \E u \in Users : VerifyLogin(a, u)
    \/ \E c \in Codes, v \in Attempts \cup {None} : Token(c, v)
    \/ \E u \in Users, g \in Groups : CreateUser(u, g) \/ SetGroups(u, g)
    \/ \E u \in Users : DeleteUser(u)
    \/ Logout
    \/ Restart
    \/ Tick

Spec == Init /\ [][Next]_vars

-----------------------------------------------------------------------------
(* Properties.                                                             *)

\* A token that ends an attempt was granted to the credentials typed into that
\* attempt's own page, whatever other page or callback the browser still has
\* (state check commands.rs:297-309, PKCE server.rs:216).
AnswerIsForThisLogin == \A a \in Attempts : answer[a] # None => answer[a].page = a

\* Only the first request that presents a code can be granted a token for it:
\* a repeated one, one after a failed PKCE check, one after the code expired and
\* one after a restart are refused (server.rs:208-218, 11-13).
CodeGrantsOnce == \A t \in tokens : ~t.again

\* A user who was deleted, or whose groups were changed, gets no token with
\* the old groups later than the code lifetime after the change, except from a
\* login whose row had been read before it (server.rs:155, 174, 213).
RevocationTakesHold ==
    \A t \in tokens :
        goneAt[t.user][t.groups] # None /\ ~t.late /\ users[t.user] # t.groups =>
            t.iat <= goneAt[t.user][t.groups] + CodeTtl
=============================================================================
