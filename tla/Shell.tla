--------------------------------- MODULE Shell ---------------------------------
(***************************************************************************)
(* The shell of the oos webview: the login screen (LoginScreen.tsx), the   *)
(* claims it sets (store/auth.ts), the settings every part of it reads     *)
(* (store/settings.ts over rpc.ts), the form that edits them               *)
(* (SettingsConnectionPanel.tsx) and the health of the endpoint in the     *)
(* footer (Footer.tsx).                                                    *)
(*                                                                         *)
(* The settings are the endpoint of the model and whether an issuer is     *)
(* configured. Calls of the native side are answered in the order they are *)
(* made; a login waits for the browser, and a ping for the endpoint. The   *)
(* login itself, behind start_login, is module Login.                      *)
(***************************************************************************)
EXTENDS Naturals, FiniteSets, Sequences, SequencesExt

CONSTANTS Urls,      \* endpoints
          Default,   \* DEFAULT_APP_SETTINGS.llmBaseUrl, one of Urls
          MaxCalls,  \* bound: calls of the native side
          MaxPings,  \* bound: pings
          MaxLogins  \* bound: logins under way

DEFAULT_APP_SETTINGS == [llm |-> Default, iam |-> FALSE]
Hooks == {"app", "footer", "panel"}

VARIABLES phase,      \* LoginScreen: phase
          loggedIn,   \* App
          claims,     \* store/auth.ts: whether there are claims
          token,      \* the keychain: whether there is a token
          logins,     \* startLogin under way: how many
          seen,       \* LoginScreen: settings
          disk,       \* settings.json as the plugin-store holds it
          torn,       \* whether the store was written and no consumer was told
          hook,       \* useAppSettings: settings of each consumer
          loaded,     \* useAppSettings: loaded
          mounted,    \* consumers that are mounted
          form,       \* SettingsConnectionPanel: llmBaseUrl
          ipc,        \* calls of the native side, in order
          issued,     \* how many calls there were
          health,     \* Footer: llmHealth, and the effect that set it
          effect,     \* Footer: the number of the running ping effect, 0 if none
          pings,      \* pings under way, with the effect each belongs to
          sentPings

auth == <<phase, loggedIn, claims, token, logins, seen>>
settings == <<disk, torn, hook, loaded, mounted, form>>
footer == <<health, effect, pings, sentPings>>
shell == <<auth, settings, ipc, issued, footer>>

Request(op, by) == [op |-> op, by |-> by, value |-> DEFAULT_APP_SETTINGS]
SaveRequest(by, v) == [Request("save", by) EXCEPT !.value = v]
Call(c) == issued < MaxCalls /\ issued' = issued + 1 /\ ipc' = Append(ipc, c)

(* ---- store/settings.ts ---- *)
(* useAppSettings: a consumer starts from the defaults, and loads.         *)
MountHook(h) ==
  /\ loggedIn /\ h \notin mounted
  /\ Call(Request("load", h))
  /\ mounted' = mounted \cup {h}
  /\ hook' = [hook EXCEPT ![h] = DEFAULT_APP_SETTINGS] /\ loaded' = loaded \ {h}
  /\ form' = IF h = "panel" THEN Default ELSE form
  /\ UNCHANGED <<auth, disk, torn, footer>>

(* The cleanup cancels the load: its answer still comes, and is dropped.   *)
Unloaded(hs) ==
  [i \in DOMAIN ipc |-> IF ipc[i].op = "load" /\ ipc[i].by \in hs
                          THEN Request("cancelled", ipc[i].by) ELSE ipc[i]]
UnmountPanel ==
  /\ "panel" \in mounted /\ mounted' = mounted \ {"panel"} /\ loaded' = loaded \ {"panel"}
  /\ ipc' = Unloaded({"panel"})
  /\ UNCHANGED <<auth, disk, torn, hook, form, issued, footer>>

(* A new value reaches a consumer: the form is seeded again, and the ping  *)
(* effect of the footer starts over when the endpoint changed.             *)
Reseeded(vs, ls) ==
  /\ hook' = vs /\ loaded' = ls
  /\ form' = IF "panel" \in ls /\ (vs["panel"] # hook["panel"] \/ "panel" \notin loaded)
               THEN vs["panel"].llm ELSE form
  /\ IF "footer" \in ls /\ (vs["footer"].llm # hook["footer"].llm \/ "footer" \notin loaded)
       THEN effect' = effect + 1 ELSE UNCHANGED effect
  /\ UNCHANGED <<health, pings, sentPings>>

(* readSettings: the stored settings over the defaults, the defaults when  *)
(* the store cannot be read.                                               *)
readSettings == {disk, DEFAULT_APP_SETTINGS}

Loaded(c) ==
  /\ \E v \in readSettings :
       Reseeded([hook EXCEPT ![c.by] = v], loaded \cup {c.by})
  /\ UNCHANGED <<auth, disk, torn, mounted>>

(* Mutant: the consumers other than the panel are not told. *)
NotifiedPanelOnly(v) == Reseeded([hook EXCEPT !["panel"] = v], loaded)

(* saveSettings: set, then save. A failure of either is an error, and      *)
(* nobody is notified; after a failure of the second the store holds the   *)
(* new value all the same.                                                 *)
Notified(v) == Reseeded([h \in Hooks |-> IF h \in mounted THEN v ELSE hook[h]], loaded)

Saved(c) ==
  /\ \/ /\ disk' = c.value /\ torn' = (c.by = "login" /\ mounted # {})
        /\ IF c.by = "panel" THEN Notified(c.value) ELSE UNCHANGED <<hook, loaded, form, footer>>
        /\ phase' = IF c.by = "login" THEN "ready" ELSE phase
     \/ /\ disk' \in {disk, c.value} /\ torn' = (disk' # disk \/ torn)
        /\ phase' = IF c.by = "login" THEN "ready" ELSE phase
        /\ UNCHANGED <<hook, loaded, form, footer>>
  /\ UNCHANGED <<loggedIn, claims, token, logins, seen, mounted>>

(* ---- SettingsConnectionPanel.tsx ---- *)
Editing == "panel" \in mounted

EditUrl(u) ==
  /\ Editing /\ form # u /\ form' = u
  /\ UNCHANGED <<auth, disk, torn, hook, loaded, mounted, ipc, issued, footer>>

(* submit: the settings of the hook, with the fields of the form.          *)
Submit ==
  /\ Editing
  /\ Call(SaveRequest("panel", [hook["panel"] EXCEPT !.llm = form]))
  /\ UNCHANGED <<auth, settings, footer>>

(* ---- LoginScreen.tsx, rpc.ts getInitialState, startLogin, logout ---- *)
(* An issuer is in the settings, or published in the oos-iam bucket.       *)
resolveIamConfig(s, published) == s.iam \/ published

(* A token that does not decode leaves no claims; the session goes on.     *)
setClaims == claims' \in BOOLEAN

Checked(configured) ==
  IF token THEN phase' = "done" /\ loggedIn' = TRUE /\ setClaims
  ELSE /\ phase' = IF configured THEN "ready" ELSE "setup"
       /\ UNCHANGED <<loggedIn, claims>>

InitialState(c) ==
  /\ seen' \in readSettings
  /\ \E published \in BOOLEAN : Checked(resolveIamConfig(seen', published))
  /\ UNCHANGED <<token, logins, settings, footer>>

ChangeIam ==
  /\ phase = "ready" /\ phase' = "setup"
  /\ UNCHANGED <<loggedIn, claims, token, logins, seen, settings, ipc, issued, footer>>

handleSaveIAM ==
  /\ phase = "setup"
  /\ Call(SaveRequest("login", [seen EXCEPT !.iam = TRUE]))
  /\ UNCHANGED <<auth, settings, footer>>

handleLogin ==
  /\ phase = "ready" /\ logins < MaxLogins
  /\ phase' = "logging-in" /\ logins' = logins + 1
  /\ UNCHANGED <<loggedIn, claims, token, seen, settings, ipc, issued, footer>>

CancelLogin ==
  /\ phase = "logging-in" /\ phase' = "ready"
  /\ UNCHANGED <<loggedIn, claims, token, logins, seen, settings, ipc, issued, footer>>

AuthCompleted == setClaims /\ loggedIn' = TRUE /\ phase' = "done"

(* start_login ends, in the browser, in a failure or by its timeout. The   *)
(* handler of a login screen that is gone is still registered.             *)
LoginEnds ==
  /\ logins > 0 /\ logins' = logins - 1
  /\ \/ token' = TRUE /\ AuthCompleted
     \/ /\ phase' = IF loggedIn THEN phase ELSE "ready"
        /\ UNCHANGED <<token, claims, loggedIn>>
  /\ UNCHANGED <<seen, settings, ipc, issued, footer>>

handleLogout ==
  /\ loggedIn /\ Call(Request("logout", "app"))
  /\ UNCHANGED <<auth, settings, footer>>

(* logout is best effort: claims and session end even when the keychain    *)
(* keeps the token. The login screen mounts, and asks for the state.       *)
LoggedOut(c) ==
  /\ token' \in {FALSE, token}
  /\ claims' = FALSE /\ loggedIn' = FALSE /\ phase' = "checking"
  /\ mounted' = {} /\ loaded' = {} /\ effect' = 0 /\ torn' = FALSE
  /\ UNCHANGED <<logins, seen, disk, hook, form, health, pings, sentPings>>

Native ==
  /\ ipc # <<>> /\ UNCHANGED issued
  /\ LET c == Head(ipc)
     IN /\ ipc' = IF c.op = "logout" THEN Append(Tail(Unloaded(Hooks)), Request("state", "login"))
                                     ELSE Tail(ipc)
        /\ CASE c.op = "load"   -> Loaded(c)
             [] c.op = "save"   -> Saved(c)
             [] c.op = "state"  -> InitialState(c)
             [] c.op = "logout" -> LoggedOut(c)
             [] c.op = "cancelled" -> UNCHANGED <<auth, settings, footer>>

(* ---- Footer.tsx ---- *)
Ping ==
  /\ "footer" \in loaded /\ sentPings < MaxPings
  /\ pings' = pings \cup {[n |-> sentPings, effect |-> effect, url |-> hook["footer"].llm]}
  /\ sentPings' = sentPings + 1
  /\ UNCHANGED <<auth, settings, ipc, issued, health, effect>>

Live(p) == p.effect = effect

Pong(p) ==
  /\ pings' = pings \ {p}
  /\ health' \in IF Live(p) THEN {[kind |-> k, of |-> p.effect] : k \in {"ok", "fail"}} ELSE {health}
  /\ UNCHANGED <<auth, settings, ipc, issued, effect, sentPings>>

Init ==
  /\ phase = "checking" /\ loggedIn = FALSE /\ claims = FALSE /\ token \in BOOLEAN /\ logins = 0
  /\ disk \in [llm : Urls, iam : BOOLEAN] /\ torn = FALSE /\ seen = DEFAULT_APP_SETTINGS
  /\ hook = [h \in Hooks |-> DEFAULT_APP_SETTINGS] /\ loaded = {} /\ mounted = {} /\ form = Default
  /\ ipc = <<Request("state", "login")>> /\ issued = 0
  /\ health = [kind |-> "loading", of |-> 0] /\ effect = 0 /\ pings = {} /\ sentPings = 0

Next ==
  \/ \E h \in Hooks : MountHook(h)
  \/ \E u \in Urls : EditUrl(u)
  \/ UnmountPanel \/ Submit \/ ChangeIam \/ handleSaveIAM \/ handleLogin \/ CancelLogin
  \/ LoginEnds \/ handleLogout \/ Native \/ Ping
  \/ \E p \in pings : Pong(p)

Spec == Init /\ [][Next]_shell

(* When no call is open and no save went untold, consumers that read the      *)
(* store show the same settings: a save reaches all of them                *)
(* (notifyListeners), whatever loads it crossed.                           *)
ConsumersAgree ==
  ipc = <<>> /\ ~torn => \A h, i \in loaded : hook[h] \in {hook[i], DEFAULT_APP_SETTINGS}
                                             \/ hook[i] = DEFAULT_APP_SETTINGS
================================================================================
