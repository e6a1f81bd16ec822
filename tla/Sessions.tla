------------------------------- MODULE Sessions -------------------------------
(***************************************************************************)
(* Refresh tokens: the register, login, demo, refresh and logout handlers  *)
(* (backend/app/api/auth.py) over the refresh_tokens table, and the one    *)
(* cookie jar of a browser whose tabs call them.  A token is good for one  *)
(* refresh, which replaces it by another of the same family; presenting a  *)
(* token that was replaced revokes the family, and so does a logout.       *)
(*                                                                         *)
(* Each handler is one transaction at READ COMMITTED.  Its SELECTs, its    *)
(* writes and its commit are different steps, and so are the sending of    *)
(* the request, which carries the cookie of that moment, and the arrival   *)
(* of the answer, which may change it.                                     *)
(***************************************************************************)
EXTENDS Naturals, FiniteSets

CONSTANTS
  Tokens,       \* refresh tokens; secrets.token_urlsafe never gives one twice
  NoToken,      \* no cookie, no row
  Calls,        \* requests in flight at a time
  CommitFirst,  \* does get_db commit before the answer is sent?
  MaxFaults     \* how many faults of each kind a behaviour may contain

\* A database call raises; a request or its answer is lost.
FaultKinds == {"db", "loss"}

ASSUME ConstantsAssumption ==
  /\ NoToken \notin Tokens
  /\ CommitFirst \in BOOLEAN
  /\ MaxFaults \in [FaultKinds -> Nat]

VARIABLES
  token,   \* refresh_tokens, committed; a family is named by its first token
  cookie,  \* the refresh cookie of the browser
  call,    \* the requests in flight
  faults   \* faults so far, per kind

vars == <<token, cookie, call, faults>>

-----------------------------------------------------------------------------
MaybeToken == Tokens \cup {NoToken}

Row == [family : MaybeToken, revoked : BOOLEAN, expired : BOOLEAN]

NoRow == [family |-> NoToken, revoked |-> FALSE, expired |-> FALSE]

\* Mutant: revoked_at has no default.
UnsetRow(f) == [family |-> f, revoked |-> NoToken, expired |-> FALSE]
NewRow(f) == [family |-> f, revoked |-> FALSE, expired |-> FALSE]

Exists(t) == t \in Tokens /\ token[t].family # NoToken

Family(f) == {t \in Tokens : token[t].family = f}

Live(f) == {t \in Family(f) : ~token[t].revoked}

\* register, login and demo open a family alike; "open" stands for the three.
Op == {"none", "open", "refresh", "logout"}

\* "revoke" is before, "locking" inside the UPDATE of a family; "commit" has
\* flushed its writes; "closed" is a handler that has finished.
PC == {"idle", "select", "rotate", "revoke", "locking", "commit", "closed"}

\* "read": the client has the answer or has given up on it.
Answer == {"none", "ok", "refused", "error", "read"}

Call == [op : Op, pc : PC, answer : Answer,
         sent   : MaybeToken,      \* the cookie it carries
         family : MaybeToken,      \* the family of the row it selected
         hits   : SUBSET Tokens,   \* the rows its UPDATE revokes
         new    : MaybeToken]      \* the row its INSERT adds

IdleCall == [op |-> "none", pc |-> "idle", answer |-> "none", sent |-> NoToken,
             family |-> NoToken, hits |-> {}, new |-> NoToken]

\* A refresh that found its token unused and is about to replace it.
Rotating(k) ==
  /\ k.op = "refresh"
  /\ k.pc \in {"rotate", "commit"}
  /\ k.pc = "commit" => k.new # NoToken

\* Neither in the table nor about to be.
Unused(t) == ~Exists(t) /\ \A c \in Calls : call[c].new # t

\* Call c goes on with record k; its slot is free once the handler and the
\* client are both done with it.
Update(c, k) ==
  call' = [call EXCEPT ![c] =
             IF k.pc = "closed" /\ k.answer = "read" THEN IdleCall ELSE k]

\* The handler ends with an answer, unless the client has one already.
Close(c, answer) ==
  LET k == call[c] IN
  Update(c, [k EXCEPT !.pc = "closed",
                      !.answer = IF k.answer = "none" THEN answer ELSE k.answer])

\* The answer waits for the commit or overtakes it; a refused replay commits by
\* itself before it raises.
\* Mutant: every answer overtakes the commit.
AlwaysEarly(k) == IF k.answer = "none" THEN "ok" ELSE k.answer
EarlyAnswer(k) ==
  IF k.answer = "none" /\ ~CommitFirst /\ ~(k.op = "refresh" /\ k.new = NoToken)
  THEN "ok" ELSE k.answer

\* The writes of c are flushed.
Flush(c, k) == Update(c, [k EXCEPT !.pc = "commit", !.answer = EarlyAnswer(k)])

\* Uncommitted writes of another transaction to one of these rows.
Locked(c, rows) ==
  \E b \in Calls \ {c} : call[b].pc = "commit" /\ call[b].hits \cap rows # {}

Spend(kind) ==
  /\ faults[kind] < MaxFaults[kind]
  /\ faults' = [faults EXCEPT ![kind] = @ + 1]

-----------------------------------------------------------------------------
(* The browser sends a request with the cookie it holds.                   *)
Send(c, op) ==
  /\ call[c] = IdleCall
  /\ call' = [call EXCEPT ![c] =
                [IdleCall EXCEPT !.op = op, !.pc = "select", !.sent = cookie]]
  /\ UNCHANGED <<token, cookie, faults>>

-----------------------------------------------------------------------------
(* The handlers.                                                           *)

\* _issue_tokens with a new family.
OpenIssue(c) ==
  /\ call[c].op = "open"
  /\ call[c].pc = "select"
  /\ \E t \in Tokens : Unused(t) /\ Flush(c, [call[c] EXCEPT !.family = t, !.new = t])
  /\ UNCHANGED <<token, cookie, faults>>

\* Wrong password, e-mail taken, demo access disabled.
OpenRefused(c) ==
  /\ call[c].op = "open"
  /\ call[c].pc = "select"
  /\ Close(c, "refused")
  /\ UNCHANGED <<token, cookie, faults>>

\* Mutant: revoked_at is not looked at.
AnyReuse(t) == FALSE
IsReuse(t) == token[t].revoked

RefreshSelect(c) ==
  LET t == call[c].sent IN
  /\ call[c].op = "refresh"
  /\ call[c].pc = "select"
  /\ IF Exists(t) /\ (IsReuse(t) \/ ~token[t].expired)
     THEN Update(c, [call[c] EXCEPT !.pc = IF IsReuse(t) THEN "revoke" ELSE "rotate",
                                    !.family = token[t].family])
     ELSE Close(c, "refused")
  /\ UNCHANGED <<token, cookie, faults>>

\* The old row is updated by its key: revoked_at is not compared again.
RefreshRotate(c) ==
  LET t == call[c].sent IN
  /\ call[c].pc = "rotate"
  /\ ~Locked(c, {t})
  /\ \E n \in Tokens :
       Unused(n) /\ Flush(c, [call[c] EXCEPT !.hits = {t}, !.new = n])
  /\ UNCHANGED <<token, cookie, faults>>

LogoutSelect(c) ==
  LET t == call[c].sent IN
  /\ call[c].op = "logout"
  /\ call[c].pc = "select"
  /\ IF Exists(t)
     THEN Update(c, [call[c] EXCEPT !.pc = "revoke", !.family = token[t].family])
     ELSE Close(c, "ok")
  /\ UNCHANGED <<token, cookie, faults>>

\* UPDATE ... WHERE family_id = ... AND revoked_at IS NULL, of a logout or of a
\* replay: it finds the rows committed when it starts ...
Revoke(c) ==
  /\ call[c].pc = "revoke"
  /\ Update(c, [call[c] EXCEPT !.pc = "locking", !.hits = Live(call[c].family)])
  /\ UNCHANGED <<token, cookie, faults>>

\* ... and waits for the transactions that wrote them before it.
RevokeLock(c) ==
  /\ call[c].pc = "locking"
  /\ ~Locked(c, call[c].hits)
  /\ Flush(c, call[c])
  /\ UNCHANGED <<token, cookie, faults>>

\* What a transaction leaves in the table.
Committed(k) ==
  [t \in Tokens |-> IF t = k.new THEN NewRow(k.family)
                    ELSE IF t \in k.hits THEN [token[t] EXCEPT !.revoked = TRUE]
                    ELSE token[t]]

\* Mutant: the exception of the replay rolls its revocation back.
CommittedUnlessRaised(k) ==
  IF k.op = "refresh" /\ k.new = NoToken THEN token ELSE Committed(k)

Table(k) == Committed(k)

Commit(c) ==
  LET k == call[c] IN
  /\ k.pc = "commit"
  /\ token' = Table(k)
  /\ Close(c, IF k.op = "refresh" /\ k.new = NoToken THEN "refused" ELSE "ok")
  /\ UNCHANGED <<cookie, faults>>

\* A statement or the commit raises: everything is rolled back.
Abort(c) ==
  /\ call[c].pc \in PC \ {"idle", "closed"}
  /\ Spend("db")
  /\ Close(c, "error")
  /\ UNCHANGED <<token, cookie>>

HandlerStep(c) ==
  \/ OpenIssue(c) \/ OpenRefused(c) \/ RefreshSelect(c) \/ RefreshRotate(c)
  \/ LogoutSelect(c) \/ Revoke(c) \/ RevokeLock(c) \/ Commit(c)

-----------------------------------------------------------------------------
(* The answer.                                                             *)

\* The Set-Cookie headers of an answer.  A handler that raises loses the
\* delete_cookie it has called: FastAPI answers with a response of its own.
CookieAfter(k) ==
  CASE k.answer = "ok" /\ k.op = "logout"             -> NoToken
    [] k.answer = "ok" /\ k.op \in {"open", "refresh"} -> k.new
    [] OTHER                                           -> cookie

Receive(c) ==
  /\ call[c].answer \in {"ok", "refused", "error"}
  /\ cookie' = CookieAfter(call[c])
  /\ Update(c, [call[c] EXCEPT !.answer = "read"])
  /\ UNCHANGED <<token, faults>>

\* The request never arrives, or its answer does not; the client gives up and
\* the server does not notice.
Lose(c) ==
  /\ call[c].pc # "idle"
  /\ call[c].answer # "read"
  /\ Spend("loss")
  /\ \/ call[c].pc = "select" /\ call' = [call EXCEPT ![c] = IdleCall]
     \/ Update(c, [call[c] EXCEPT !.answer = "read"])
  /\ UNCHANGED <<token, cookie>>

\* REFRESH_TOKEN_TTL_DAYS go by.
Expire(t) ==
  /\ Exists(t)
  /\ ~token[t].expired
  /\ token' = [token EXCEPT ![t].expired = TRUE]
  /\ UNCHANGED <<cookie, call, faults>>

-----------------------------------------------------------------------------
Init ==
  /\ token = [t \in Tokens |-> NoRow]
  /\ cookie = NoToken
  /\ call = [c \in Calls |-> IdleCall]
  /\ faults = [kind \in FaultKinds |-> 0]

ServerStep ==
  \/ \E c \in Calls : HandlerStep(c) \/ Abort(c)
  \/ \E t \in Tokens : Expire(t)

Next ==
  \/ \E c \in Calls : \/ \E op \in Op \ {"none"} : Send(c, op)
                      \/ Receive(c) \/ Lose(c)
  \/ ServerStep

Spec == Init /\ [][Next]_vars

-----------------------------------------------------------------------------
(* Properties.                                                             *)

\* Every variable stays in its domain.
TypeOK ==
  /\ token \in [Tokens -> Row]
  /\ cookie \in MaybeToken
  /\ call \in [Calls -> Call]
  /\ faults \in [FaultKinds -> Nat]

\* A family with no token left that a refresh would accept, and no refresh on
\* its way to add one.
Ended(f) ==
  /\ Exists(f)
  /\ Live(f) = {}
  /\ \A c \in Calls : Rotating(call[c]) => call[c].family # f

\* A session that has ended stays ended, whatever its old tokens are used for
\* and however the calls of the tabs interleave.
NoRevival == \A f \in Tokens : Ended(f) => Ended(f)'

EndedStaysEnded == [][NoRevival]_vars

\* The browser never holds a token the table does not know, even when the
\* commit fails: its next refresh would be refused and the session lost.
CookieIsKnown == cookie # NoToken => Exists(cookie)

\* Rotation: a family has one token that can be used at a time.
OneLive == \A f \in Tokens : Cardinality(Live(f)) <= 1

\* "Revoke the presented token's entire family": when a logout or a replay of a
\* used token is answered, no token of the family can be used any more.
RevokeIsComplete ==
  \A c \in Calls :
    /\ call[c].pc = "closed"
    /\ \/ call[c].op = "logout" /\ call[c].answer = "ok"
       \/ call[c].op = "refresh" /\ call[c].answer = "refused"
    /\ call[c].family # NoToken
    => Live(call[c].family) = {}

=============================================================================
