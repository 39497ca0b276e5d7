------------------------------ MODULE WebConsole ------------------------------
(***************************************************************************)
(* The operator console of apps/web in one browser tab, with the routes of *)
(* apps/api it calls.  Every handler of the page is a sequence of requests *)
(* and the page stays live meanwhile, so handlers overlap: the session     *)
(* that is restored from localStorage, a login, a logout, the three forms  *)
(* that change the protocol's state, and refreshes, each of which fetches  *)
(* all resources independently and shows them together.  A reload forgets  *)
(* the page's state, not localStorage and not what is on its way to the    *)
(* API; the network or a restart of the API may lose a request or an       *)
(* answer at any time.                                                     *)
(*                                                                         *)
(* The state of the protocol is `version`, the number of times it changed; *)
(* what changes, and in how many steps, is LocalNetwork's.  A restart of   *)
(* the API may change it too, since it forgets what was not saved.  The    *)
(* operator has one address and user name, which other clients may share.  *)
(* A second click while a login or the page's own refresh is under way is  *)
(* left out.                                                               *)
(***************************************************************************)
EXTENDS OperatorAuth

CONSTANTS
    Form,           \* the forms: proposal, bridge, transfer
    Page,           \* who refreshes for bootstrap and the button
    Resource,       \* what a refresh fetches
    OperatorKey,    \* the operator's address and user name
    None,           \* undefined
    Budget          \* bounds on the operator's and the environment's steps, by kind

Refresher == Form \cup {Page}

ASSUME ConsoleAssumption ==
    /\ OperatorKey \in Key /\ Page \notin Form
    /\ \A b \in Budget :
          b \in [{"logins", "guesses", "mutations", "clicks", "reloads", "restarts",
                "ticks"} -> Nat]

VARIABLES
    token, session, \* state.operatorToken, state.operatorSession
    stored,         \* localStorage["ffp.operatorToken"]
    login,          \* the login request: none, sent or answered
    restore,        \* GET /auth/operator/me of restoreOperatorSession
    form,           \* what each form's handler awaits
    fetched,        \* the refreshes under way and what each has got
    shown,          \* the version of each resource on display
    version,        \* of the protocol's state
    raced,          \* history: a login or a logout while the session is restored
    left            \* what is left of the budget

authState == <<token, session, stored>>
vars == <<authVars, authState, login, restore, form, fetched, shown, version, raced, left>>

Idle == [stage |-> "idle"]
Sent(t) == [stage |-> "sent", token |-> t]
Done(t, result) == [stage |-> "done", token |-> t, result |-> result]

Nothing == [x \in Resource |-> None]

\* refreshPublicData starts all its requests at once.
Refreshing(r) == r \in DOMAIN fetched
StartRefresh(r) ==
    fetched' = [q \in DOMAIN fetched \cup {r} |-> IF q = r THEN Nothing ELSE fetched[q]]
EndRefresh(r) == fetched' = [q \in DOMAIN fetched \ {r} |-> fetched[q]]

Has(kind) == left[kind] > 0
Spend(kind) == left' = [left EXCEPT ![kind] = @ - 1]

Init ==
    /\ AuthInit
    /\ token = None /\ session = None /\ stored = None
    /\ login = Idle /\ restore = Idle
    /\ form = [f \in Form |-> Idle]
    /\ fetched = [r \in {Page} |-> Nothing]
    /\ shown = Nothing
    /\ version = 0
    /\ raced = FALSE
    /\ left \in Budget

-----------------------------------------------------------------------------
(* The session *)

\* A new page (bootstrap).  A form's request that is on its way is still handled.
Reload ==
    /\ Has("reloads") /\ Spend("reloads")
    /\ token' = stored /\ session' = None
    /\ restore' = IF stored = None THEN Idle ELSE Sent(stored)
    /\ login' = Idle
    /\ form' = [f \in Form |-> IF form[f].stage \in {"sent", "gone"}
                               THEN [form[f] EXCEPT !.stage = "gone"] ELSE Idle]
    /\ fetched' = [r \in {Page} |-> Nothing]
    /\ shown' = Nothing
    /\ raced' = FALSE
    /\ UNCHANGED <<authVars, stored, version>>

\* The operator's password is right or wrong.
SubmitLogin ==
    /\ login = Idle
    /\ Has("logins") /\ Spend("logins")
    /\ \E right \in BOOLEAN : login' = Sent(right)
    /\ UNCHANGED <<authVars, authState, restore, form, fetched, shown, version, raced>>

\* POST /auth/operator/login
HandleLogin ==
    /\ login.stage = "sent"
    /\ \/ Locked(OperatorKey) /\ login' = Done(login.token, None) /\ UNCHANGED authVars
       \/ ~login.token /\ InvalidLogin(OperatorKey) /\ login' = Done(login.token, None)
       \/ login.token /\ ValidLogin(OperatorKey) /\ login' = Done(login.token, Token)
    /\ UNCHANGED <<authState, restore, form, fetched, shown, version, raced, left>>

ReceiveLogin ==
    /\ login.stage = "done"
    /\ IF login.result = None THEN UNCHANGED authState
       ELSE token' = login.result /\ session' = login.result /\ stored' = login.result
    /\ login' = Idle
    /\ raced' = (raced \/ restore # Idle)
    /\ UNCHANGED <<authVars, restore, form, fetched, shown, version, left>>

LoseLogin ==
    /\ login # Idle
    /\ login' = Idle
    /\ UNCHANGED <<authVars, authState, restore, form, fetched, shown, version, raced,
                   left>>

SignOut == token' = None /\ session' = None /\ stored' = None

\* With neither a token nor a session it changes nothing.
Logout ==
    /\ token # None \/ session # None
    /\ SignOut
    /\ raced' = (raced \/ restore # Idle)
    /\ UNCHANGED <<authVars, login, restore, form, fetched, shown, version, left>>

\* GET /auth/operator/me
HandleRestore ==
    /\ restore.stage = "sent"
    /\ restore' = Done(restore.token, Authenticate(restore.token))
    /\ UNCHANGED <<authVars, authState, login, form, fetched, shown, version, raced, left>>

\* Fault: a token that was refused is kept.
EndRestoreKeeping(ok) ==
    IF ok THEN session' = restore.token /\ UNCHANGED <<token, stored>>
    ELSE session' = None /\ UNCHANGED <<token, stored>>

\* The answer gives the session; any error drops the token, whatever it is by now.
EndRestore(ok) ==
    IF ok THEN session' = restore.token /\ UNCHANGED <<token, stored>> ELSE SignOut

ReceiveRestore ==
    /\ restore.stage = "done"
    /\ EndRestore(restore.result)
    /\ restore' = Idle
    /\ UNCHANGED <<authVars, login, form, fetched, shown, version, raced, left>>

LoseRestore ==
    /\ restore # Idle
    /\ EndRestore(FALSE)
    /\ restore' = Idle
    /\ UNCHANGED <<authVars, login, form, fetched, shown, version, raced, left>>

-----------------------------------------------------------------------------
(* The forms *)

\* api(..., true) raises at once when there is no token.
SubmitForm(f) ==
    /\ form[f] = Idle
    /\ ~Refreshing(f)
    /\ token # None
    /\ Has("mutations") /\ Spend("mutations")
    /\ form' = [form EXCEPT ![f] = Sent(token)]
    /\ UNCHANGED <<authVars, authState, login, restore, fetched, shown, version, raced>>

Answer(f, result) ==
    form' = [form EXCEPT ![f] = IF @.stage = "gone" THEN Idle ELSE Done(@.token, result)]

\* The route of a form: requireOperator, then the call.
ApplyForm(f) ==
    /\ form[f].stage \in {"sent", "gone"}
    /\ Authenticate(form[f].token)
    /\ version' = version + 1
    /\ Answer(f, version + 1)
    /\ UNCHANGED <<authVars, authState, login, restore, fetched, shown, raced, left>>

\* The route refuses, or the call raises, perhaps with part of its work done.
RefuseForm(f) ==
    /\ form[f].stage \in {"sent", "gone"}
    /\ \/ version' = version
       \/ Authenticate(form[f].token) /\ version' = version + 1
    /\ Answer(f, None)
    /\ UNCHANGED <<authVars, authState, login, restore, fetched, shown, raced, left>>

\* Fault: the handler of a form does not catch the error.
ReceiveFormUncaught(f) ==
    /\ form[f].stage = "done"
    /\ form[f].result # None
    /\ StartRefresh(f)
    /\ form' = [form EXCEPT ![f] = [@ EXCEPT !.stage = "refreshing"]]
    /\ UNCHANGED <<authVars, authState, login, restore, shown, version, raced, left>>

ReceiveForm(f) ==
    /\ form[f].stage = "done"
    /\ IF form[f].result = None
       THEN form' = [form EXCEPT ![f] = Idle] /\ UNCHANGED fetched
       ELSE /\ form' = [form EXCEPT ![f] = [@ EXCEPT !.stage = "refreshing"]]
            /\ StartRefresh(f)
    /\ UNCHANGED <<authVars, authState, login, restore, shown, version, raced, left>>

LoseForm(f) ==
    /\ form[f].stage \in {"sent", "gone", "done"}
    /\ form' = [form EXCEPT ![f] = Idle]
    /\ UNCHANGED <<authVars, authState, login, restore, fetched, shown, version, raced,
                   left>>

-----------------------------------------------------------------------------
(* Refreshes *)

Click ==
    /\ ~Refreshing(Page)
    /\ Has("clicks") /\ Spend("clicks")
    /\ StartRefresh(Page)
    /\ UNCHANGED <<authVars, authState, login, restore, form, shown, version, raced>>

\* The API reads one resource.
Read(r, x) ==
    /\ Refreshing(r) /\ fetched[r][x] = None
    /\ fetched' = [fetched EXCEPT ![r][x] = version]
    /\ UNCHANGED <<authVars, authState, login, restore, form, shown, version, raced, left>>

\* Fault: nobody waits for the refresh.
ReturnNever(r) == UNCHANGED form

\* Who awaited the refresh is done.
Return(r) == form' = IF r \in Form THEN [form EXCEPT ![r] = Idle] ELSE form

\* Fault: what is there already is kept.
ShowRefreshMissing(r) ==
    /\ Refreshing(r) /\ \A x \in Resource : fetched[r][x] # None
    /\ shown' = [x \in Resource |-> IF shown[x] = None THEN fetched[r][x] ELSE shown[x]]
    /\ EndRefresh(r) /\ Return(r)
    /\ UNCHANGED <<authVars, authState, login, restore, version, raced, left>>

ShowRefresh(r) ==
    /\ Refreshing(r) /\ \A x \in Resource : fetched[r][x] # None
    /\ shown' = fetched[r]
    /\ EndRefresh(r) /\ Return(r)
    /\ UNCHANGED <<authVars, authState, login, restore, version, raced, left>>

\* One request fails: nothing new is shown (renderFetchFailure).
FailRefresh(r) ==
    /\ Refreshing(r) /\ \E x \in Resource : fetched[r][x] = None
    /\ EndRefresh(r) /\ Return(r)
    /\ UNCHANGED <<authVars, authState, login, restore, shown, version, raced, left>>

-----------------------------------------------------------------------------
(* The environment *)

page == <<authState, login, restore, form, fetched, shown, raced>>

\* Another client of the same address tries the operator's name.
Guess ==
    /\ Has("guesses") /\ Spend("guesses")
    /\ \E k \in Key : InvalidLogin(k)
    /\ UNCHANGED <<page, version>>

\* The API starts again from what was saved, which may be less than there was.
Restart ==
    /\ Has("restarts") /\ Spend("restarts")
    /\ RestartAuth
    /\ version' \in {version, version + 1}
    /\ UNCHANGED page

Time ==
    /\ Has("ticks") /\ Spend("ticks")
    /\ Tick
    /\ UNCHANGED <<page, version>>

LoginStep == HandleLogin \/ ReceiveLogin
RestoreStep == HandleRestore \/ ReceiveRestore
FormStep(f) == ApplyForm(f) \/ RefuseForm(f) \/ ReceiveForm(f)
RefreshStep(r) == ShowRefresh(r) \/ \E x \in Resource : Read(r, x)

Next ==
    \/ LoginStep \/ RestoreStep
    \/ Reload \/ SubmitLogin \/ LoseLogin \/ Logout \/ LoseRestore \/ Click
    \/ \E f \in Form : FormStep(f) \/ SubmitForm(f) \/ LoseForm(f)
    \/ \E r \in Refresher : RefreshStep(r) \/ FailRefresh(r)
    \/ Guess \/ Restart \/ Time

Spec == Init /\ [][Next]_vars

\* The API and the browser run their handlers; a user need not do anything.
Fairness ==
    /\ WF_vars(LoginStep) /\ WF_vars(RestoreStep)
    /\ \A f \in Form : WF_vars(FormStep(f))
    /\ \A r \in Refresher : WF_vars(RefreshStep(r))

FairSpec == Spec /\ Fairness

-----------------------------------------------------------------------------
(* Properties *)

Tokens == issued \cup {None}

TypeOK ==
    /\ AuthTypeOK
    /\ {token, session, stored} \subseteq Tokens
    /\ login.stage \in {"idle", "sent", "done"} /\ restore.stage \in {"idle", "sent", "done"}
    /\ \A f \in Form :
          /\ form[f].stage \in {"idle", "sent", "gone", "done", "refreshing"}
          /\ form[f].stage = "refreshing" <=> Refreshing(f)
    /\ DOMAIN fetched \subseteq Refresher
    /\ \A x \in Resource : shown[x] \in 0 .. version \cup {None}

\* The session on display is that of the token the console sends, and the token is the
\* one a reload will find, unless a login or a logout came while the session was being
\* restored (raced): then the answer may show a session without a token, or drop the
\* token of the new login.
SessionIsOfToken ==
    /\ token = stored
    /\ restore = Idle /\ ~raced => session = token

\* "operator-authenticated routes handle mutation operations": what changes the
\* protocol's state, other than a restart, was asked for with a token of a successful
\* login, which has not expired when the API gets to it, however long the request was
\* on its way.
MutationsAreAuthorized ==
    [][version' > version /\ left'["restarts"] = left["restarts"]
         => \E f \in Form :
               /\ form'[f] # form[f]
               /\ form[f].token \in issued
               /\ now < form[f].token.iat + TokenTtl]_vars

\* The refresh of a form ends with all its answers, and not by a reload.
Shows(f) ==
    /\ form[f].stage = "refreshing" /\ form'[f] = Idle
    /\ \A x \in Resource : fetched[f][x] # None
    /\ left' = left

\* When the refresh that a form awaits is shown, every resource on display was read
\* from a state no older than the form's own change, whatever other refreshes,
\* changes and restarts go on.
OwnChangesAreShown ==
    [][\A f \in Form : \A x \in Resource :
         Shows(f) => shown'[x] >= form[f].result]_vars

\* No handler of the page hangs.
HandlersReturn ==
    /\ \A f \in Form : form[f] # Idle ~> form[f] = Idle
    /\ restore # Idle ~> restore = Idle
    /\ login # Idle ~> login = Idle
===============================================================================
