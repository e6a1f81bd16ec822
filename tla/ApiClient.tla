------------------------------ MODULE ApiClient ------------------------------
(***************************************************************************)
(* The browser side of Sessions: the API client of a tab                   *)
(* (frontend/src/lib/api.ts) and the user it shows                         *)
(* (frontend/src/auth/AuthContext.tsx).  The tabs share the cookie, and    *)
(* each has its own access token, its own refresh in flight and its own    *)
(* requests to the rest of the API.                                        *)
(*                                                                         *)
(* JavaScript runs one task at a time: what follows the arrival of an      *)
(* answer, with all the microtasks it queues, is one step.                 *)
(***************************************************************************)
EXTENDS Sessions

CONSTANTS
  Tabs,     \* pages of the application in one browser
  NoTab,    \* "this request slot is free"
  NoCall,   \* "nothing in flight"
  Requests  \* requests to paths outside /api/auth in flight at a time

ASSUME ClientAssumption == NoCall \notin Calls /\ NoTab \notin Tabs

VARIABLES
  access,  \* accessToken of each tab
  user,    \* what AuthContext shows
  flight,  \* refreshInFlight: the refresh all requests of the tab share
  dialog,  \* the register, login, demo or logout a tab waits for
  req      \* the requests

clientVars == <<access, user, flight, dialog, req>>

-----------------------------------------------------------------------------
Access == {"none", "valid", "expired"}

\* "loading" restores the session, "checking" asks for /api/auth/me.
User == {"closed", "loading", "checking", "in", "out"}

\* "waiting" is a request that was answered 401 and awaits the refresh.
Request == [tab : Tabs \cup {NoTab}, pc : {"idle", "sent", "waiting"},
            bearer : Access, retried : BOOLEAN]

IdleRequest == [tab |-> NoTab, pc |-> "idle", bearer |-> "none", retried |-> FALSE]

\* Mutant: the header is set although there is no token.
SentNull(tab, retried) ==
  [tab |-> tab, pc |-> "sent", retried |-> retried,
   bearer |-> IF access[tab] = "none" THEN "null" ELSE access[tab]]
Sent(tab, retried) ==
  [tab |-> tab, pc |-> "sent", bearer |-> access[tab], retried |-> retried]

Waiting(tab) == {r \in Requests : req[r].tab = tab /\ req[r].pc = "waiting"}

\* A 401 while a refresh is in flight awaits that one.
\* Mutant: every 401 sends a refresh of its own.
NeverShares(tab) == FALSE
Shares(tab) == flight[tab] # NoCall

RefreshAccessToken(tab) ==
  IF Shares(tab)
  THEN UNCHANGED <<token, cookie, call, faults, flight>>
  ELSE \E c \in Calls : Send(c, "refresh") /\ flight' = [flight EXCEPT ![tab] = c]

-----------------------------------------------------------------------------
(* The page.                                                               *)

\* A page is opened or reloaded; nothing but the cookie survives.
Load(tab) ==
  /\ user[tab] \in {"closed", "in", "out"}
  /\ flight[tab] = NoCall
  /\ dialog[tab] = NoCall
  /\ \A r \in Requests : req[r].tab # tab
  /\ RefreshAccessToken(tab)
  /\ access' = [access EXCEPT ![tab] = "none"]
  /\ user' = [user EXCEPT ![tab] = "loading"]
  /\ UNCHANGED <<dialog, req>>

\* The answer of /api/auth/me, which is never retried.
Me(tab) ==
  /\ user[tab] = "checking"
  /\ \/ access[tab] = "valid" /\ user' = [user EXCEPT ![tab] = "in"] /\ UNCHANGED faults
     \/ access[tab] # "valid" /\ user' = [user EXCEPT ![tab] = "out"] /\ UNCHANGED faults
     \/ Spend("loss") /\ user' = [user EXCEPT ![tab] = "out"]
  /\ UNCHANGED <<token, cookie, call, access, flight, dialog, req>>

\* The user signs in or out.
Click(tab, op) ==
  /\ dialog[tab] = NoCall
  /\ op = "open" => user[tab] = "out"
  /\ op = "logout" => user[tab] = "in"
  /\ \E c \in Calls : Send(c, op) /\ dialog' = [dialog EXCEPT ![tab] = c]
  /\ UNCHANGED <<access, user, flight, req>>

\* What follows when the dialog ends: a sign-out forgets the access token even
\* when it failed, and then throws before the user is cleared.
EndDialog(tab, op, ok) ==
  /\ dialog' = [dialog EXCEPT ![tab] = NoCall]
  /\ access' = CASE op = "logout" -> [access EXCEPT ![tab] = "none"]
                 [] op = "open" /\ ok -> [access EXCEPT ![tab] = "valid"]
                 [] OTHER -> access
  /\ user' = IF ok THEN [user EXCEPT ![tab] = IF op = "open" THEN "checking" ELSE "out"]
                   ELSE user
  /\ UNCHANGED <<flight, req>>

DialogAnswered(tab) ==
  LET c == dialog[tab] IN
  /\ c # NoCall
  /\ Receive(c)
  /\ EndDialog(tab, call[c].op, call[c].answer = "ok")

DialogLost(tab) ==
  LET c == dialog[tab] IN
  /\ c # NoCall
  /\ Lose(c)
  /\ EndDialog(tab, call[c].op, FALSE)

-----------------------------------------------------------------------------
(* Requests.                                                               *)

Ask(tab, r) ==
  /\ user[tab] = "in"
  /\ req[r] = IdleRequest
  /\ req' = [req EXCEPT ![r] = Sent(tab, FALSE)]
  /\ UNCHANGED <<token, cookie, call, faults, access, user, flight, dialog>>

\* Served, or failed for a reason that is not the access token.
Answered(r) ==
  /\ req[r].pc = "sent"
  /\ req[r].bearer = "valid" \/ req[r].retried
  /\ req' = [req EXCEPT ![r] = IdleRequest]
  /\ UNCHANGED <<token, cookie, call, faults, access, user, flight, dialog>>

\* 401: refresh once; the replay is not refreshed again.
Unauthorized(r) ==
  /\ req[r].pc = "sent"
  /\ req[r].bearer # "valid"
  /\ ~req[r].retried
  /\ req' = [req EXCEPT ![r].pc = "waiting"]
  /\ RefreshAccessToken(req[r].tab)
  /\ UNCHANGED <<access, user, dialog>>

\* The requests that awaited the refresh go on with its outcome.
\* Mutant: a rejected fetch is not caught, so nobody is told.
Unsettled(tab, ok) ==
  IF ok THEN [r \in Waiting(tab) |-> [Sent(tab, TRUE) EXCEPT !.bearer = "valid"]]
        ELSE [r \in {} |-> IdleRequest]
Settled(tab, ok) ==
  [r \in Waiting(tab) |->
     IF ok THEN [Sent(tab, TRUE) EXCEPT !.bearer = "valid"] ELSE IdleRequest]

\* What follows when the refresh ends: a restore shows the user or the login
\* page; a request that awaited a failed one reports the session lost.
EndRefresh(tab, ok) ==
  LET told == Settled(tab, ok)
      lost == ~ok /\ Waiting(tab) # {} IN
  /\ flight' = [flight EXCEPT ![tab] = NoCall]
  /\ req' = [r \in Requests |-> IF r \in DOMAIN told THEN told[r] ELSE req[r]]
  /\ access' = IF ok THEN [access EXCEPT ![tab] = "valid"]
               ELSE IF lost THEN [access EXCEPT ![tab] = "none"] ELSE access
  /\ user' = CASE user[tab] = "loading" ->
                    [user EXCEPT ![tab] = IF ok THEN "checking" ELSE "out"]
               [] user[tab] = "in" /\ lost -> [user EXCEPT ![tab] = "out"]
               [] OTHER -> user
  /\ UNCHANGED dialog

RefreshAnswered(tab) ==
  LET c == flight[tab] IN
  /\ c # NoCall
  /\ Receive(c)
  /\ EndRefresh(tab, call[c].answer = "ok")

RefreshLost(tab) ==
  LET c == flight[tab] IN
  /\ c # NoCall
  /\ Lose(c)
  /\ EndRefresh(tab, FALSE)

\* ACCESS_TOKEN_TTL_MINUTES go by, for the tab and for what it has sent.
ExpireAccess(tab) ==
  /\ access[tab] = "valid"
  /\ access' = [access EXCEPT ![tab] = "expired"]
  /\ req' = [r \in Requests |->
               IF req[r].tab = tab /\ req[r].bearer = "valid"
               THEN [req[r] EXCEPT !.bearer = "expired"] ELSE req[r]]
  /\ UNCHANGED <<token, cookie, call, faults, user, flight, dialog>>

-----------------------------------------------------------------------------
ClientInit ==
  /\ Init
  /\ access = [tab \in Tabs |-> "none"]
  /\ user = [tab \in Tabs |-> "closed"]
  /\ flight = [tab \in Tabs |-> NoCall]
  /\ dialog = [tab \in Tabs |-> NoCall]
  /\ req = [r \in Requests |-> IdleRequest]

TabStep(tab) ==
  \/ Load(tab) \/ Me(tab)
  \/ \E op \in {"open", "logout"} : Click(tab, op)
  \/ DialogAnswered(tab) \/ DialogLost(tab)
  \/ RefreshAnswered(tab) \/ RefreshLost(tab)
  \/ ExpireAccess(tab)
  \/ \E r \in Requests : Ask(tab, r)

ClientNext ==
  \/ \E tab \in Tabs : TabStep(tab)
  \/ \E r \in Requests : Answered(r) \/ Unauthorized(r)
  \/ ServerStep /\ UNCHANGED clientVars

ClientSpec == ClientInit /\ [][ClientNext]_<<vars, clientVars>>

-----------------------------------------------------------------------------
(* Properties.                                                             *)

\* Every variable stays in its domain.
ClientTypeOK ==
  /\ TypeOK
  /\ access \in [Tabs -> Access]
  /\ user \in [Tabs -> User]
  /\ flight \in [Tabs -> Calls \cup {NoCall}]
  /\ dialog \in [Tabs -> Calls \cup {NoCall}]
  /\ req \in [Requests -> Request]

\* As long as no answer is lost, one page keeps one usable token per family and
\* is never taken for a replay: when its refresh is refused as a reuse, the
\* session was over anyway.
ReuseCostsNothing ==
  faults["loss"] = 0 =>
    /\ OneLive
    /\ \A c \in Calls : call[c].op = "refresh" /\ call[c].pc = "revoke"
                         => Live(call[c].family) = {}

\* A request that waits has a refresh in flight to wait for.
WaitersAreServed == \A tab \in Tabs : Waiting(tab) # {} => flight[tab] # NoCall

=============================================================================
