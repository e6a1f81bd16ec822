---------------------------- MODULE SessionsProofs ----------------------------
(***************************************************************************)
(* Proofs about the sessions: the server alone (Sessions) for any sets of  *)
(* tokens and calls and any faults, then the pages that use it (ApiClient) *)
(* for any number of tabs, requests and faults.                            *)
(*                                                                         *)
(* One invariant carries the theorems about the server: Inv says of every  *)
(* call what it has established about the table at the point it has        *)
(* reached.  Its last two parts hold when the server takes the calls one   *)
(* at a time.  The theorems about the pages add to it, from the line       *)
(* "The pages" on.                                                         *)
(***************************************************************************)
EXTENDS ApiClient, FiniteSetTheorems, TLAPS

\* The server never has two calls in flight.
Solo == \A b, c \in Calls : b = c

\* What the record of a call says by itself.
WellFormed(k) ==
  /\ k.new # NoToken => k.pc \in {"commit", "closed"} /\ k.op \in {"open", "refresh"}
  /\ k.pc \in {"idle", "select"} => k.family = NoToken
  /\ k.pc = "rotate" => k.op = "refresh" /\ k.sent # NoToken
  /\ k.pc \in {"revoke", "locking"} => k.op \in {"refresh", "logout"}
  /\ k.pc = "commit" => k.op # "none"
  /\ k.pc = "commit" /\ k.op = "open" => k.new # NoToken /\ k.family = k.new
  /\ CommitFirst /\ k.pc # "closed" => k.answer \in {"none", "read"}
  /\ CommitFirst /\ k.answer = "ok" /\ k.op \in {"open", "refresh"} => k.new # NoToken

\* A row is inserted once, an answer given after the commit names a row that is
\* there, and the family a handler works on has its first row.
InTable(k) ==
  /\ k.pc = "commit" /\ k.new # NoToken => ~Exists(k.new)
  /\ CommitFirst /\ k.answer = "ok" /\ k.new # NoToken => Exists(k.new)
  /\ /\ k.op \in {"refresh", "logout"}
     /\ k.pc \in {"rotate", "revoke", "locking", "commit"}
     => Exists(k.family)

\* Undisturbed, a handler is about to revoke all that lives in its family.
Thorough(k) ==
  /\ k.pc = "rotate" => Live(k.family) \subseteq {k.sent}
  /\ k.pc \in {"locking", "commit"} /\ k.op # "open" => Live(k.family) \subseteq k.hits
  /\ /\ CommitFirst
     /\ k.pc = "closed"
     /\ \/ k.op = "logout" /\ k.answer = "ok"
        \/ k.op = "refresh" /\ k.answer = "refused"
     /\ k.family # NoToken
     => Live(k.family) = {}

FamilyKnown == \A t \in Tokens : Exists(t) => Exists(token[t].family)

NewOnce ==
  \A b, c \in Calls : b # c /\ call[b].new = call[c].new => call[b].new = NoToken

Single == \A f \in Tokens : \A s, t \in Live(f) : s = t

Inv ==
  /\ TypeOK
  /\ FamilyKnown
  /\ NewOnce
  /\ \A c \in Calls : WellFormed(call[c]) /\ InTable(call[c])
  /\ CommitFirst => CookieIsKnown
  /\ Solo => Single
  /\ Solo => \A c \in Calls : Thorough(call[c])

-----------------------------------------------------------------------------
(* Steps that leave the table alone.                                       *)

LEMMA IdleIsProper ==
  ASSUME TypeOK
  PROVE  /\ IdleCall \in Call
         /\ WellFormed(IdleCall)
         /\ InTable(IdleCall)
         /\ Thorough(IdleCall)
  BY DEF IdleCall, Call, Op, PC, Answer, MaybeToken, WellFormed, InTable, Thorough

\* What Update does to the calls.
LEMMA UpdateEffect ==
  ASSUME TypeOK, NEW c \in Calls, NEW k \in Call, Update(c, k)
  PROVE  /\ call' \in [Calls -> Call]
         /\ call'[c] = k \/ call'[c] = IdleCall
         /\ \A b \in Calls \ {c} : call'[b] = call[b]
<1>1. IdleCall \in Call
  BY IdleIsProper
<1> QED BY <1>1 DEF TypeOK, Update

\* The record k is one that call c may take on.
Proper(c, k) ==
  /\ k \in Call
  /\ WellFormed(k)
  /\ InTable(k)
  /\ Solo => Thorough(k)
  /\ k.new = NoToken \/ k.new = call[c].new \/ Unused(k.new)
  /\ Rotating(k) => \/ Rotating(call[c]) /\ k.family = call[c].family
                    \/ Live(k.family) # {}

LEMMA CallStep ==
  ASSUME Inv, NEW c \in Calls, NEW k, Proper(c, k), Update(c, k),
         UNCHANGED token,
         cookie' \in MaybeToken,
         faults' \in [FaultKinds -> Nat],
         CommitFirst => (cookie' # NoToken => Exists(cookie'))
  PROVE  Inv' /\ NoRevival
<1>0. TypeOK /\ k \in Call
  BY DEF Inv, Proper
<1>1. /\ call' \in [Calls -> Call]
      /\ call'[c] = k \/ call'[c] = IdleCall
      /\ \A b \in Calls \ {c} : call'[b] = call[b]
  BY <1>0, UpdateEffect
<1>2. /\ \A t : Exists(t)' <=> Exists(t)
      /\ \A f : Live(f)' = Live(f)
      /\ \A r : InTable(r) => InTable(r)'
      /\ \A r : WellFormed(r) => WellFormed(r)'
      /\ \A r : Thorough(r) => Thorough(r)'
  BY DEF Exists, Live, Family, InTable, WellFormed, Thorough
<1>3. TypeOK'
  BY <1>0, <1>1 DEF TypeOK
<1>4. FamilyKnown' /\ (CommitFirst => CookieIsKnown)' /\ (Solo => Single)'
  BY <1>2 DEF Inv, FamilyKnown, CookieIsKnown, Single, Solo, Exists, Live, Family
<1>5. \A b \in Calls : WellFormed(call'[b]) /\ InTable(call'[b])
  BY <1>0, <1>1, IdleIsProper DEF Inv, Proper
<1>6. Solo => \A b \in Calls : Thorough(call'[b])
  BY <1>0, <1>1, IdleIsProper DEF Inv, Proper
<1>7. NewOnce'
  <2>1. call'[c].new = NoToken \/ call'[c].new = call[c].new \/ Unused(call'[c].new)
    BY <1>1 DEF Proper, IdleCall
  <2>2. \A b \in Calls \ {c} : call[b].new = call'[c].new => call[b].new = NoToken
    BY <2>1 DEF Inv, NewOnce, Unused
  <2> QED BY <1>1, <2>2 DEF Inv, NewOnce
<1>8. NoRevival
  <2>1. Rotating(call'[c]) => \/ Rotating(call[c]) /\ call'[c].family = call[c].family
                             \/ Live(call'[c].family) # {}
    BY <1>1 DEF Proper, Rotating, IdleCall
  <2>2. \A f \in Tokens : Ended(f) =>
          \A b \in Calls : Rotating(call'[b]) => call'[b].family # f
    BY <1>1, <2>1 DEF Ended
  <2> QED BY <1>2, <2>2 DEF NoRevival, Ended, Rotating
<1> QED BY <1>2, <1>3, <1>4, <1>5, <1>6, <1>7, <1>8 DEF Inv, Solo

LEMMA SpendEffect ==
  ASSUME TypeOK, NEW kind \in FaultKinds, Spend(kind)
  PROVE  faults' \in [FaultKinds -> Nat]
  BY DEF TypeOK, Spend

\* A handler that ends without a commit.
LEMMA CloseStep ==
  ASSUME Inv, NEW c \in Calls, NEW answer \in {"ok", "refused", "error"},
         Close(c, answer),
         call[c].pc # "closed",
         answer = "error" \/ call[c].new = NoToken,
         answer = "error" \/ call[c].family = NoToken,
         answer = "ok" => call[c].op \notin {"open", "refresh"},
         UNCHANGED <<token, cookie>>,
         faults' \in [FaultKinds -> Nat]
  PROVE  Inv' /\ NoRevival
<1> DEFINE k == [call[c] EXCEPT !.pc = "closed",
                                !.answer = IF call[c].answer = "none" THEN answer
                                           ELSE call[c].answer]
<1>1. call[c] \in Call /\ cookie \in MaybeToken
  BY DEF Inv, TypeOK
<1>2. /\ k \in Call
      /\ k.pc = "closed"
      /\ k.new = call[c].new /\ k.op = call[c].op /\ k.family = call[c].family
      /\ k.answer = IF call[c].answer = "none" THEN answer ELSE call[c].answer
  BY <1>1 DEF Call, PC, Answer
<1>3. Update(c, k)
  BY DEF Close
<1> HIDE DEF k
<1>4. WellFormed(call[c]) /\ InTable(call[c])
  BY DEF Inv
<1>5. Proper(c, k)
  BY <1>2, <1>4 DEF Proper, WellFormed, InTable, Thorough, Rotating
<1>6. CommitFirst => (cookie' # NoToken => Exists(cookie'))
  BY DEF Inv, CookieIsKnown, Exists
<1> QED BY <1>1, <1>3, <1>5, <1>6, CallStep

LEMMA SendInv ==
  ASSUME Inv, NEW c \in Calls, NEW op \in Op \ {"none"}, Send(c, op)
  PROVE  Inv' /\ NoRevival
<1> DEFINE k == [IdleCall EXCEPT !.op = op, !.pc = "select", !.sent = cookie]
<1>1. /\ k \in Call /\ k.pc = "select" /\ k.op = op /\ k.new = NoToken
      /\ k.answer = "none" /\ k.family = NoToken
  BY DEF Inv, TypeOK, IdleCall, Call, Op, PC, Answer, MaybeToken
<1>2. Update(c, k)
  BY <1>1 DEF Send, Update
<1> HIDE DEF k
<1>3. Proper(c, k)
  BY <1>1 DEF Proper, WellFormed, InTable, Thorough, Rotating
<1>4. /\ UNCHANGED <<token, cookie, faults>>
      /\ cookie \in MaybeToken /\ faults \in [FaultKinds -> Nat]
      /\ CommitFirst => (cookie' # NoToken => Exists(cookie'))
  BY DEF Send, Inv, TypeOK, CookieIsKnown, Exists
<1> QED BY <1>2, <1>3, <1>4, CallStep

LEMMA OpenIssueInv ==
  ASSUME Inv, NEW c \in Calls, OpenIssue(c)
  PROVE  Inv' /\ NoRevival
<1>1. PICK t \in Tokens : Unused(t) /\ Flush(c, [call[c] EXCEPT !.family = t, !.new = t])
  BY DEF OpenIssue
<1> DEFINE j == [call[c] EXCEPT !.family = t, !.new = t]
           k == [j EXCEPT !.pc = "commit", !.answer = EarlyAnswer(j)]
<1>2. call[c] \in Call /\ call[c].op = "open" /\ call[c].pc = "select"
  BY DEF Inv, TypeOK, OpenIssue
<1>3. /\ j \in Call /\ j.op = "open" /\ j.new = t /\ j.family = t
      /\ j.answer = call[c].answer
  BY <1>2 DEF Call, MaybeToken
<1>4. EarlyAnswer(j) \in Answer /\ (CommitFirst => EarlyAnswer(j) = j.answer)
  BY <1>3 DEF EarlyAnswer, Call, Answer
<1>5. /\ k \in Call /\ k.pc = "commit" /\ k.op = "open" /\ k.new = t
      /\ k.family = t /\ k.answer = EarlyAnswer(j)
  BY <1>3, <1>4 DEF Call, PC
<1>6. Update(c, k)
  BY <1>1 DEF Flush
<1> HIDE DEF j, k
<1>7. t # NoToken /\ ~Exists(t)
  BY <1>1, ConstantsAssumption DEF Unused
<1>8. Proper(c, k)
  BY <1>1, <1>2, <1>3, <1>4, <1>5, <1>7 DEF Inv, Proper, WellFormed, InTable, Thorough, Rotating
<1>9. /\ UNCHANGED <<token, cookie, faults>>
      /\ cookie \in MaybeToken /\ faults \in [FaultKinds -> Nat]
      /\ CommitFirst => (cookie' # NoToken => Exists(cookie'))
  BY DEF OpenIssue, Inv, TypeOK, CookieIsKnown, Exists
<1> QED BY <1>6, <1>8, <1>9, CallStep

LEMMA OpenRefusedInv ==
  ASSUME Inv, NEW c \in Calls, OpenRefused(c)
  PROVE  Inv' /\ NoRevival
<1>1. WellFormed(call[c]) /\ faults \in [FaultKinds -> Nat]
  BY DEF Inv, TypeOK
<1>2. call[c].new = NoToken /\ call[c].family = NoToken
  BY <1>1 DEF OpenRefused, WellFormed
<1> QED BY <1>1, <1>2, CloseStep DEF OpenRefused

LEMMA RefreshSelectInv ==
  ASSUME Inv, NEW c \in Calls, RefreshSelect(c)
  PROVE  Inv' /\ NoRevival
<1> DEFINE t == call[c].sent
           k == [call[c] EXCEPT !.pc = IF IsReuse(t) THEN "revoke" ELSE "rotate",
                                !.family = token[t].family]
<1>1. /\ call[c] \in Call /\ WellFormed(call[c])
      /\ cookie \in MaybeToken /\ faults \in [FaultKinds -> Nat]
      /\ call[c].op = "refresh" /\ call[c].pc = "select"
      /\ UNCHANGED <<token, cookie, faults>>
      /\ CommitFirst => (cookie' # NoToken => Exists(cookie'))
  BY DEF Inv, TypeOK, RefreshSelect, CookieIsKnown, Exists
<1>2. call[c].new = NoToken /\ call[c].family = NoToken
  BY <1>1 DEF WellFormed
<1>3. CASE Exists(t) /\ (IsReuse(t) \/ ~token[t].expired)
  <2>1. t \in Tokens /\ t # NoToken /\ token[t] \in Row
    BY <1>3, ConstantsAssumption DEF Exists, Inv, TypeOK
  <2>2. /\ k \in Call /\ k.op = "refresh" /\ k.new = NoToken /\ k.sent = t
        /\ k.family = token[t].family /\ k.answer = call[c].answer
        /\ k.pc \in {"revoke", "rotate"}
        /\ k.pc = "rotate" => ~token[t].revoked
    BY <1>1, <1>2, <2>1 DEF Call, PC, Row, IsReuse
  <2>3. Update(c, k)
    BY <1>3 DEF RefreshSelect
  <2> HIDE DEF k
  <2>4. Exists(k.family)
    BY <1>3, <2>1, <2>2 DEF Inv, FamilyKnown
  <2>5. k.pc = "rotate" => t \in Live(k.family)
    BY <2>1, <2>2 DEF Live, Family
  <2>6. Solo /\ k.pc = "rotate" => Live(k.family) \subseteq {t}
    BY <2>4, <2>5 DEF Inv, Single, Exists
  <2>7. Proper(c, k)
    BY <1>1, <2>1, <2>2, <2>4, <2>5, <2>6 DEF Proper, WellFormed, InTable, Thorough, Rotating
  <2> QED BY <1>1, <2>3, <2>7, CallStep
<1>4. CASE ~(Exists(t) /\ (IsReuse(t) \/ ~token[t].expired))
  <2>1. Close(c, "refused")
    BY <1>4 DEF RefreshSelect
  <2> QED BY <1>1, <1>2, <2>1, CloseStep
<1> QED BY <1>3, <1>4

LEMMA RefreshRotateInv ==
  ASSUME Inv, NEW c \in Calls, RefreshRotate(c)
  PROVE  Inv' /\ NoRevival
<1>1. PICK n \in Tokens :
        Unused(n) /\ Flush(c, [call[c] EXCEPT !.hits = {call[c].sent}, !.new = n])
  BY DEF RefreshRotate
<1> DEFINE j == [call[c] EXCEPT !.hits = {call[c].sent}, !.new = n]
           k == [j EXCEPT !.pc = "commit", !.answer = EarlyAnswer(j)]
<1>2. /\ call[c] \in Call /\ WellFormed(call[c]) /\ InTable(call[c])
      /\ Solo => Thorough(call[c])
      /\ call[c].pc = "rotate" /\ call[c].op = "refresh"
  BY DEF Inv, TypeOK, RefreshRotate, WellFormed
<1>3. Exists(call[c].family)
  BY <1>2 DEF InTable
<1>4. call[c].sent \in Tokens
  BY <1>2 DEF Call, MaybeToken, WellFormed
<1>5. /\ j \in Call /\ j.op = "refresh" /\ j.new = n /\ j.family = call[c].family
      /\ j.answer = call[c].answer /\ j.hits = {call[c].sent}
  BY <1>2, <1>4 DEF Call, MaybeToken
<1>6. EarlyAnswer(j) \in Answer /\ (CommitFirst => EarlyAnswer(j) = j.answer)
  BY <1>5 DEF EarlyAnswer, Call, Answer
<1>7. /\ k \in Call /\ k.pc = "commit" /\ k.op = "refresh" /\ k.new = n
      /\ k.family = call[c].family /\ k.answer = EarlyAnswer(j)
      /\ k.hits = {call[c].sent}
  BY <1>5, <1>6 DEF Call, PC
<1>8. Update(c, k)
  BY <1>1 DEF Flush
<1> HIDE DEF j, k
<1>9. n # NoToken /\ ~Exists(n)
  BY <1>1, ConstantsAssumption DEF Unused
<1>10. Proper(c, k)
  BY <1>1, <1>2, <1>3, <1>5, <1>6, <1>7, <1>9 DEF Proper, WellFormed, InTable, Thorough, Rotating
<1>11. /\ UNCHANGED <<token, cookie, faults>>
       /\ cookie \in MaybeToken /\ faults \in [FaultKinds -> Nat]
       /\ CommitFirst => (cookie' # NoToken => Exists(cookie'))
  BY DEF RefreshRotate, Inv, TypeOK, CookieIsKnown, Exists
<1> QED BY <1>8, <1>10, <1>11, CallStep

LEMMA LogoutSelectInv ==
  ASSUME Inv, NEW c \in Calls, LogoutSelect(c)
  PROVE  Inv' /\ NoRevival
<1> DEFINE t == call[c].sent
           k == [call[c] EXCEPT !.pc = "revoke", !.family = token[t].family]
<1>1. /\ call[c] \in Call /\ WellFormed(call[c])
      /\ cookie \in MaybeToken /\ faults \in [FaultKinds -> Nat]
      /\ call[c].op = "logout" /\ call[c].pc = "select"
      /\ UNCHANGED <<token, cookie, faults>>
      /\ CommitFirst => (cookie' # NoToken => Exists(cookie'))
  BY DEF Inv, TypeOK, LogoutSelect, CookieIsKnown, Exists
<1>2. call[c].new = NoToken /\ call[c].family = NoToken
  BY <1>1 DEF WellFormed
<1>3. CASE Exists(t)
  <2>1. t \in Tokens /\ token[t] \in Row
    BY <1>3 DEF Exists, Inv, TypeOK
  <2>2. /\ k \in Call /\ k.op = "logout" /\ k.new = NoToken /\ k.pc = "revoke"
        /\ k.family = token[t].family /\ k.answer = call[c].answer
    BY <1>1, <1>2, <2>1 DEF Call, PC, Row
  <2>3. Update(c, k)
    BY <1>3 DEF LogoutSelect
  <2> HIDE DEF k
  <2>4. Exists(k.family)
    BY <1>3, <2>1, <2>2 DEF Inv, FamilyKnown
  <2>5. Proper(c, k)
    BY <1>1, <2>2, <2>4 DEF Proper, WellFormed, InTable, Thorough, Rotating
  <2> QED BY <1>1, <2>3, <2>5, CallStep
<1>4. CASE ~Exists(t)
  <2>1. Close(c, "ok")
    BY <1>4 DEF LogoutSelect
  <2> QED BY <1>1, <1>2, <2>1, CloseStep
<1> QED BY <1>3, <1>4

LEMMA RevokeInv ==
  ASSUME Inv, NEW c \in Calls, Revoke(c)
  PROVE  Inv' /\ NoRevival
<1> DEFINE k == [call[c] EXCEPT !.pc = "locking", !.hits = Live(call[c].family)]
<1>1. /\ call[c] \in Call /\ WellFormed(call[c]) /\ InTable(call[c])
      /\ call[c].pc = "revoke" /\ Live(call[c].family) \subseteq Tokens
  BY DEF Inv, TypeOK, Revoke, Live, Family
<1>2. /\ k \in Call /\ k.pc = "locking" /\ k.op = call[c].op
      /\ k.new = call[c].new /\ k.family = call[c].family
      /\ k.answer = call[c].answer /\ k.hits = Live(call[c].family)
  BY <1>1 DEF Call, PC
<1>3. Update(c, k)
  BY DEF Revoke
<1> HIDE DEF k
<1>4. Proper(c, k)
  BY <1>1, <1>2 DEF Proper, WellFormed, InTable, Thorough, Rotating
<1>5. /\ UNCHANGED <<token, cookie, faults>>
      /\ cookie \in MaybeToken /\ faults \in [FaultKinds -> Nat]
      /\ CommitFirst => (cookie' # NoToken => Exists(cookie'))
  BY DEF Revoke, Inv, TypeOK, CookieIsKnown, Exists
<1> QED BY <1>3, <1>4, <1>5, CallStep

LEMMA RevokeLockInv ==
  ASSUME Inv, NEW c \in Calls, RevokeLock(c)
  PROVE  Inv' /\ NoRevival
<1> DEFINE k == [call[c] EXCEPT !.pc = "commit", !.answer = EarlyAnswer(call[c])]
<1>1. /\ call[c] \in Call /\ WellFormed(call[c]) /\ InTable(call[c])
      /\ Solo => Thorough(call[c])
      /\ call[c].pc = "locking"
  BY DEF Inv, TypeOK, RevokeLock
<1>2. /\ EarlyAnswer(call[c]) \in Answer
      /\ CommitFirst => EarlyAnswer(call[c]) = call[c].answer
  BY <1>1 DEF EarlyAnswer, Call, Answer
<1>3. /\ k \in Call /\ k.pc = "commit" /\ k.op = call[c].op
      /\ k.new = call[c].new /\ k.family = call[c].family
      /\ k.answer = EarlyAnswer(call[c]) /\ k.hits = call[c].hits
  BY <1>1, <1>2 DEF Call, PC
<1>4. Update(c, k)
  BY DEF RevokeLock, Flush
<1> HIDE DEF k
<1>5. Proper(c, k)
  BY <1>1, <1>2, <1>3 DEF Proper, WellFormed, InTable, Thorough, Rotating
<1>6. /\ UNCHANGED <<token, cookie, faults>>
      /\ cookie \in MaybeToken /\ faults \in [FaultKinds -> Nat]
      /\ CommitFirst => (cookie' # NoToken => Exists(cookie'))
  BY DEF RevokeLock, Inv, TypeOK, CookieIsKnown, Exists
<1> QED BY <1>4, <1>5, <1>6, CallStep

LEMMA AbortInv ==
  ASSUME Inv, NEW c \in Calls, Abort(c)
  PROVE  Inv' /\ NoRevival
<1>1. faults' \in [FaultKinds -> Nat]
  BY SpendEffect DEF Inv, Abort, FaultKinds
<1> QED BY <1>1, CloseStep DEF Abort

LEMMA ReceiveInv ==
  ASSUME Inv, NEW c \in Calls, Receive(c)
  PROVE  Inv' /\ NoRevival
<1> DEFINE k == [call[c] EXCEPT !.answer = "read"]
<1>1. /\ call[c] \in Call /\ WellFormed(call[c]) /\ InTable(call[c])
      /\ Solo => Thorough(call[c])
  BY DEF Inv, TypeOK
<1>2. /\ k \in Call /\ k.pc = call[c].pc /\ k.op = call[c].op
      /\ k.new = call[c].new /\ k.family = call[c].family
      /\ k.answer = "read" /\ k.hits = call[c].hits /\ k.sent = call[c].sent
  BY <1>1 DEF Call, Answer
<1>3. Update(c, k)
  BY DEF Receive
<1> HIDE DEF k
<1>4. Proper(c, k)
  BY <1>1, <1>2 DEF Proper, WellFormed, InTable, Thorough, Rotating
<1>5. cookie' = cookie \/ cookie' = NoToken
        \/ /\ cookie' = call[c].new
           /\ call[c].answer = "ok"
  BY DEF Receive, CookieAfter
<1>6. cookie' \in MaybeToken
  BY <1>1, <1>5 DEF Inv, TypeOK, Call, MaybeToken
<1>7. /\ UNCHANGED <<token, faults>>
      /\ faults \in [FaultKinds -> Nat]
  BY DEF Receive, Inv, TypeOK
<1>8. CommitFirst => (cookie' # NoToken => Exists(cookie'))
  BY <1>1, <1>5 DEF Inv, CookieIsKnown, InTable
<1> QED BY <1>3, <1>4, <1>6, <1>7, <1>8, CallStep

LEMMA LoseInv ==
  ASSUME Inv, NEW c \in Calls, Lose(c)
  PROVE  Inv' /\ NoRevival
<1> DEFINE k == [call[c] EXCEPT !.answer = "read"]
<1>1. /\ call[c] \in Call /\ WellFormed(call[c]) /\ InTable(call[c])
      /\ Solo => Thorough(call[c])
      /\ UNCHANGED <<token, cookie>>
      /\ cookie \in MaybeToken
      /\ CommitFirst => (cookie' # NoToken => Exists(cookie'))
  BY DEF Inv, TypeOK, Lose, CookieIsKnown, Exists
<1>2. faults' \in [FaultKinds -> Nat]
  BY SpendEffect DEF Inv, Lose, FaultKinds
<1>3. CASE call' = [call EXCEPT ![c] = IdleCall]
  <2>1. Update(c, IdleCall)
    BY <1>3 DEF Update
  <2>2. Proper(c, IdleCall)
    BY IdleIsProper DEF Inv, Proper, Rotating, IdleCall
  <2> QED BY <1>1, <1>2, <2>1, <2>2, CallStep
<1>4. CASE Update(c, k)
  <2>1. /\ k \in Call /\ k.pc = call[c].pc /\ k.op = call[c].op
        /\ k.new = call[c].new /\ k.family = call[c].family
        /\ k.answer = "read" /\ k.hits = call[c].hits /\ k.sent = call[c].sent
    BY <1>1 DEF Call, Answer
  <2> HIDE DEF k
  <2>2. Proper(c, k)
    BY <1>1, <2>1 DEF Proper, WellFormed, InTable, Thorough, Rotating
  <2> QED BY <1>1, <1>2, <1>4, <2>2, CallStep
<1> QED BY <1>3, <1>4 DEF Lose

-----------------------------------------------------------------------------
(* Steps that change the table.                                            *)

LEMMA ExpireInv ==
  ASSUME Inv, NEW t \in Tokens, Expire(t)
  PROVE  Inv' /\ NoRevival
<1>1. /\ UNCHANGED <<cookie, call, faults>>
      /\ token' \in [Tokens -> Row]
      /\ \A s \in Tokens : /\ token'[s].family = token[s].family
                           /\ token'[s].revoked = token[s].revoked
  BY DEF Expire, Inv, TypeOK, Row
<1>2. /\ \A s : Exists(s)' <=> Exists(s)
      /\ \A f : Live(f)' = Live(f)
  BY <1>1 DEF Exists, Live, Family
<1>3. /\ \A r : InTable(r) => InTable(r)'
      /\ \A r : WellFormed(r) => WellFormed(r)'
      /\ \A r : Thorough(r) => Thorough(r)'
  BY <1>2 DEF InTable, WellFormed, Thorough
<1>4. TypeOK' /\ NewOnce'
  BY <1>1 DEF Inv, TypeOK, NewOnce
<1>5. FamilyKnown' /\ (CommitFirst => CookieIsKnown)' /\ (Solo => Single)'
  BY <1>1, <1>2 DEF Inv, FamilyKnown, CookieIsKnown, Single, Solo
<1>6. NoRevival
  BY <1>1, <1>2 DEF NoRevival, Ended, Rotating
<1> QED BY <1>1, <1>3, <1>4, <1>5, <1>6 DEF Inv, Solo

\* What a commit does to the table.
LEMMA CommitEffect ==
  ASSUME Inv, NEW c \in Calls, Commit(c)
  PROVE  LET k == call[c] IN
         /\ token' \in [Tokens -> Row]
         /\ k.new # NoToken => /\ k.new \in Tokens
                               /\ ~Exists(k.new)
                               /\ token'[k.new] = NewRow(k.family)
                               /\ k.family = k.new \/ Exists(k.family)
                               /\ k.family \in Tokens
         /\ \A t \in Tokens \ {k.new} :
              /\ token'[t].family = token[t].family
              /\ token'[t].revoked = (token[t].revoked \/ t \in k.hits)
         /\ \A t : Exists(t)' <=> Exists(t) \/ (t = k.new /\ t # NoToken)
<1> DEFINE k == call[c]
<1>1. /\ k \in Call /\ WellFormed(k) /\ InTable(k) /\ k.pc = "commit"
      /\ token \in [Tokens -> Row]
      /\ token' = Committed(k)
  BY DEF Inv, TypeOK, Commit, Table
<1>2. k.new \in MaybeToken /\ k.family \in MaybeToken /\ k.hits \subseteq Tokens
  BY <1>1 DEF Call
<1>3. k.new # NoToken => /\ k.new \in Tokens
                         /\ ~Exists(k.new)
                         /\ k.family = k.new \/ Exists(k.family)
                         /\ k.family \in Tokens
  BY <1>1, <1>2 DEF WellFormed, InTable, MaybeToken, Exists
<1> HIDE DEF k
<1>4. /\ k.new # NoToken => token'[k.new] = NewRow(k.family)
      /\ \A t \in Tokens \ {k.new} :
           token'[t] = IF t \in k.hits THEN [token[t] EXCEPT !.revoked = TRUE]
                       ELSE token[t]
  BY <1>1, <1>3 DEF Committed
<1>5. \A t \in Tokens \ {k.new} :
        /\ token'[t] \in Row
        /\ token'[t].family = token[t].family
        /\ token'[t].revoked = (token[t].revoked \/ t \in k.hits)
  BY <1>1, <1>4 DEF Row
<1>6. k.new # NoToken => token'[k.new] \in Row /\ token'[k.new].family = k.family
  <2>1. \A f \in Tokens : NewRow(f) \in Row /\ NewRow(f).family = f
    BY DEF NewRow, Row, MaybeToken
  <2> QED BY <1>3, <1>4, <2>1
<1>7. token' \in [Tokens -> Row]
  <2>1. \A t \in Tokens : token'[t] \in Row
    BY <1>5, <1>6, ConstantsAssumption
  <2>2. token' = [t \in Tokens |-> token'[t]]
    BY <1>1 DEF Committed
  <2> QED BY <2>1, <2>2
<1>8. \A t : Exists(t)' <=> Exists(t) \/ (t = k.new /\ t # NoToken)
  BY <1>3, <1>5, <1>6, ConstantsAssumption DEF Exists
<1> QED BY <1>3, <1>4, <1>5, <1>7, <1>8 DEF k

\* What it does to the tokens that can be used.
LEMMA CommitLive ==
  ASSUME Inv, NEW c \in Calls, Commit(c), NEW f
  PROVE  /\ call[c].new # NoToken /\ call[c].family = f
              => Live(f)' \subseteq (Live(f) \ call[c].hits) \cup {call[c].new}
         /\ ~(call[c].new # NoToken /\ call[c].family = f)
              => Live(f)' \subseteq Live(f) \ call[c].hits
<1>1. \A t \in Tokens \ {call[c].new} : t \in Live(f)' => t \in Live(f) \ call[c].hits
  BY CommitEffect DEF Live, Family
<1>2. /\ call[c].new \in Live(f)'
      /\ call[c].new \in Tokens
      => call[c].new # NoToken /\ call[c].family = f
  <2>1. \A t \in Tokens : t \in Live(f)' => token'[t].family = f
    BY DEF Live, Family
  <2>2. call[c].new # NoToken => token'[call[c].new] = NewRow(call[c].family)
    BY CommitEffect
  <2>3. NewRow(call[c].family).family = call[c].family
    BY DEF NewRow
  <2> QED BY <2>1, <2>2, <2>3, ConstantsAssumption
<1>3. \A t \in Live(f)' : t \in Tokens
  BY DEF Live, Family
<1> QED BY <1>1, <1>2, <1>3

\* The record that a commit leaves of its call.
LEMMA CommitClose ==
  ASSUME Inv, NEW c \in Calls, Commit(c)
  PROVE  \E k \in Call :
           /\ Update(c, k)
           /\ k.pc = "closed"
           /\ k.op = call[c].op /\ k.new = call[c].new /\ k.family = call[c].family
           /\ CommitFirst =>
                \/ k.answer = "read"
                \/ k.answer = IF k.op = "refresh" /\ k.new = NoToken THEN "refused"
                              ELSE "ok"
<1> DEFINE answer == IF call[c].op = "refresh" /\ call[c].new = NoToken
                     THEN "refused" ELSE "ok"
           k == [call[c] EXCEPT !.pc = "closed",
                                !.answer = IF call[c].answer = "none" THEN answer
                                           ELSE call[c].answer]
<1>1. call[c] \in Call /\ WellFormed(call[c]) /\ call[c].pc = "commit"
  BY DEF Inv, TypeOK, Commit
<1>2. /\ k \in Call /\ k.pc = "closed"
      /\ k.op = call[c].op /\ k.new = call[c].new /\ k.family = call[c].family
      /\ k.answer = IF call[c].answer = "none" THEN answer ELSE call[c].answer
  BY <1>1 DEF Call, PC, Answer
<1>3. Update(c, k)
  BY DEF Commit, Close
<1> HIDE DEF k
<1>4. CommitFirst => k.answer = "read" \/ k.answer = answer
  BY <1>1, <1>2 DEF WellFormed
<1> QED BY <1>2, <1>3, <1>4

LEMMA CommitInv ==
  ASSUME Inv, NEW c \in Calls, Commit(c)
  PROVE  Inv' /\ NoRevival
<1>1. PICK k \in Call :
        /\ Update(c, k)
        /\ k.pc = "closed"
        /\ k.op = call[c].op /\ k.new = call[c].new /\ k.family = call[c].family
        /\ CommitFirst =>
             \/ k.answer = "read"
             \/ k.answer = IF k.op = "refresh" /\ k.new = NoToken THEN "refused"
                           ELSE "ok"
  BY CommitClose
<1>2. /\ call' \in [Calls -> Call]
      /\ call'[c] = k \/ call'[c] = IdleCall
      /\ \A b \in Calls \ {c} : call'[b] = call[b]
  BY <1>1, UpdateEffect DEF Inv
<1>3. /\ call[c] \in Call /\ WellFormed(call[c]) /\ InTable(call[c])
      /\ Solo => Thorough(call[c])
      /\ call[c].pc = "commit"
      /\ UNCHANGED <<cookie, faults>>
  BY DEF Inv, TypeOK, Commit
<1>4. \A t : Exists(t) => Exists(t)'
  BY CommitEffect
<1>5. TypeOK'
  BY <1>2, <1>3, CommitEffect DEF Inv, TypeOK
<1>6. FamilyKnown'
  <2> SUFFICES ASSUME NEW t \in Tokens, Exists(t)', NEW f, f = token'[t].family
               PROVE  Exists(f)'
    BY DEF FamilyKnown
  <2>1. CASE t # call[c].new
    <3>1. Exists(t) /\ f = token[t].family
      BY <2>1, CommitEffect
    <3>2. Exists(f)
      BY <3>1 DEF Inv, FamilyKnown
    <3> QED BY <3>2, <1>4
  <2>2. CASE t = call[c].new
    <3>1. /\ t # NoToken
          /\ f = NewRow(call[c].family).family
          /\ call[c].family = t \/ Exists(call[c].family)
      BY <2>2, CommitEffect, ConstantsAssumption
    <3>2. f = t \/ Exists(f)
      BY <3>1 DEF NewRow
    <3> QED BY <1>4, <3>2
  <2> QED BY <2>1, <2>2
<1>7. NewOnce'
  BY <1>1, <1>2 DEF Inv, NewOnce, IdleCall
<1>8. (CommitFirst => CookieIsKnown)'
  BY <1>3, <1>4 DEF Inv, CookieIsKnown
<1>9. \A b \in Calls : WellFormed(call'[b])
  <2>1. WellFormed(k)
    BY <1>1, <1>3 DEF WellFormed
  <2> QED BY <1>2, <2>1, IdleIsProper DEF Inv
<1>10. \A b \in Calls : InTable(call[b])'
  <2>1. InTable(k)'
    <3>1. \A t : t = call[c].new /\ t # NoToken => Exists(t)'
      BY CommitEffect
    <3> QED BY <1>1, <3>1 DEF InTable
  <2>2. InTable(IdleCall)'
    BY DEF InTable, IdleCall
  <2>3. ASSUME NEW b \in Calls \ {c}, NEW j, j = call[b]
        PROVE  InTable(j)'
    <3>1. j.new # NoToken => j.new # call[c].new
      BY <2>3 DEF Inv, NewOnce
    <3>2. \A t : t = j.new /\ t # NoToken => (Exists(t)' <=> Exists(t))
      BY <3>1, CommitEffect
    <3>3. InTable(j)
      BY <2>3 DEF Inv
    <3> QED BY <1>4, <3>2, <3>3 DEF InTable
  <2> QED BY <1>2, <2>1, <2>2, <2>3
<1>11. Solo => Single'
  <2>1. ASSUME Solo, NEW f \in Tokens, call[c].new # NoToken, call[c].family = f
        PROVE  Live(f)' \subseteq {call[c].new}
    <3>1. CASE call[c].op = "open"
      <4>1. call[c].family = call[c].new /\ ~Exists(call[c].new)
        BY <1>3, <2>1, <3>1 DEF WellFormed, InTable
      <4>2. Live(f) = {}
        BY <2>1, <4>1, ConstantsAssumption
        DEF Inv, FamilyKnown, Live, Family, Exists
      <4> QED BY <2>1, <4>2, CommitLive
    <3>2. CASE call[c].op # "open"
      BY <1>3, <2>1, <3>2, CommitLive DEF Thorough
    <3> QED BY <3>1, <3>2
  <2>2. ASSUME NEW f \in Tokens, ~(call[c].new # NoToken /\ call[c].family = f)
        PROVE  Live(f)' \subseteq Live(f)
    BY <2>2, CommitLive
  <2> QED BY <2>1, <2>2 DEF Inv, Single
<1>12. Solo => \A b \in Calls : Thorough(call[b])'
  <2>1. ASSUME Solo PROVE Thorough(k)'
    <3>1. call[c].op = "open" \/ Live(call[c].family) \subseteq call[c].hits
      BY <1>3, <2>1 DEF Thorough
    <3>2. \A f : call[c].new = NoToken => Live(f)' \subseteq Live(f) \ call[c].hits
      BY CommitLive
    <3>3. call[c].op = "logout" => call[c].new = NoToken
      BY <1>3 DEF WellFormed
    <3> QED BY <1>1, <3>1, <3>2, <3>3 DEF Thorough
  <2>2. Thorough(IdleCall)'
    BY DEF Thorough, IdleCall
  <2>3. Solo => \A b \in Calls : b = c
    BY DEF Solo
  <2> QED BY <1>2, <2>1, <2>2, <2>3
<1>13. \A b \in Calls : WellFormed(call[b])'
  BY <1>9 DEF WellFormed
<1>14. NoRevival
  <2>1. \A b \in Calls : Rotating(call'[b]) => call'[b] = call[b]
    BY <1>1, <1>2 DEF Rotating, IdleCall
  <2>2. ASSUME NEW f \in Tokens, Ended(f), call[c].new # NoToken, call[c].family = f
        PROVE  FALSE
    <3>1. call[c].op = "refresh" => Rotating(call[c])
      BY <1>3, <2>2 DEF Rotating
    <3>2. call[c].op = "open" => ~Exists(f)
      BY <1>3, <2>2 DEF WellFormed, InTable
    <3> QED BY <1>3, <2>2, <3>1, <3>2 DEF Ended, WellFormed
  <2>3. \A f \in Tokens : Ended(f) => Live(f)' = {}
    BY <2>2, CommitLive DEF Ended
  <2> QED BY <1>4, <2>1, <2>3 DEF NoRevival, Ended, Rotating
<1> QED BY <1>5, <1>6, <1>7, <1>8, <1>10, <1>11, <1>12, <1>13, <1>14 DEF Inv, Solo

-----------------------------------------------------------------------------
(* The theorems.                                                           *)

LEMMA InvInit == Init => Inv
<1> SUFFICES ASSUME Init PROVE Inv
  OBVIOUS
<1>1. TypeOK
  BY ConstantsAssumption
  DEF Init, TypeOK, NoRow, Row, IdleCall, Call, Op, PC, Answer, MaybeToken
<1>2. \A t : ~Exists(t)
  BY ConstantsAssumption DEF Init, Exists, NoRow
<1>3. \A f \in Tokens : Live(f) = {}
  BY <1>2, ConstantsAssumption DEF Live, Family, Exists
<1>4. NewOnce /\ \A c \in Calls : call[c] = IdleCall
  BY DEF Init, NewOnce, IdleCall
<1>5. CookieIsKnown
  BY DEF Init, CookieIsKnown
<1> QED BY <1>1, <1>2, <1>3, <1>4, <1>5, IdleIsProper DEF Inv, FamilyKnown, Single

LEMMA InvNext == Inv /\ [Next]_vars => Inv' /\ [NoRevival]_vars
<1> SUFFICES ASSUME Inv, [Next]_vars PROVE Inv' /\ [NoRevival]_vars
  OBVIOUS
<1>1. CASE UNCHANGED vars
  BY <1>1 DEF vars, Inv, TypeOK, FamilyKnown, NewOnce, WellFormed, InTable, Thorough,
     CookieIsKnown, Single, Solo, Exists, Live, Family
<1>2. ASSUME NEW c \in Calls, HandlerStep(c)
      PROVE  Inv' /\ NoRevival
  BY <1>2, OpenIssueInv, OpenRefusedInv, RefreshSelectInv, RefreshRotateInv,
     LogoutSelectInv, RevokeInv, RevokeLockInv, CommitInv DEF HandlerStep
<1>3. CASE Next
  BY <1>2, <1>3, SendInv, ReceiveInv, LoseInv, AbortInv, ExpireInv DEF Next, ServerStep
<1> QED BY <1>1, <1>3

\* Every variable stays in its domain.
THEOREM SessionTypes == Spec => []TypeOK
<1>1. Inv => TypeOK
  BY DEF Inv
<1> QED BY <1>1, InvInit, InvNext, PTL DEF Spec

\* A session that has ended stays ended, with any number of calls in flight,
\* lost answers, rolled back transactions and answers that overtake commits.
THEOREM EndedForGood == Spec => EndedStaysEnded
<1> QED BY InvInit, InvNext, PTL DEF Spec, EndedStaysEnded

\* If the commit precedes the answer, the browser never holds a token that the
\* table does not know.
THEOREM CookieKnown == CommitFirst => (Spec => []CookieIsKnown)
<1> SUFFICES ASSUME CommitFirst PROVE Spec => []CookieIsKnown
  OBVIOUS
<1>1. Inv => CookieIsKnown
  BY DEF Inv
<1> QED BY <1>1, InvInit, InvNext, PTL DEF Spec

\* A server that takes the calls one at a time leaves one usable token in a
\* family, whatever is lost or rolled back.
THEOREM OneLiveAlone == Solo => (Spec => []OneLive)
<1> SUFFICES ASSUME Solo PROVE Spec => []OneLive
  OBVIOUS
<1>1. Inv => OneLive
  <2> SUFFICES ASSUME Inv, NEW f \in Tokens PROVE Cardinality(Live(f)) <= 1
    BY DEF OneLive
  <2>1. CASE Live(f) = {}
    BY <2>1, FS_EmptySet
  <2>2. CASE Live(f) # {}
    <3>1. PICK t : t \in Live(f)
      BY <2>2
    <3>2. Live(f) = {t}
      BY <3>1 DEF Inv, Single
    <3> QED BY <3>2, FS_Singleton
  <2> QED BY <2>1, <2>2
<1> QED BY <1>1, InvInit, InvNext, PTL DEF Spec

\* And if, besides, the commit precedes the answer, an answered logout or replay
\* has revoked all of its family.
THEOREM RevokeAlone == Solo /\ CommitFirst => (Spec => []RevokeIsComplete)
<1> SUFFICES ASSUME Solo, CommitFirst PROVE Spec => []RevokeIsComplete
  OBVIOUS
<1>1. Inv => RevokeIsComplete
  BY DEF Inv, RevokeIsComplete, Thorough
<1> QED BY <1>1, InvInit, InvNext, PTL DEF Spec

-----------------------------------------------------------------------------
(* The pages.                                                              *)

allVars == <<vars, clientVars>>

-----------------------------------------------------------------------------
(* Type correctness, on top of the invariant of Sessions.                  *)

\* A request that is under way belongs to a tab.
ReqHasTab == \A r \in Requests : req[r].pc # "idle" => req[r].tab \in Tabs

TabsTyped ==
  /\ access \in [Tabs -> Access]
  /\ user \in [Tabs -> User]
  /\ flight \in [Tabs -> Calls \cup {NoCall}]
  /\ dialog \in [Tabs -> Calls \cup {NoCall}]
  /\ req \in [Requests -> Request]
  /\ ReqHasTab

ClientInv == Inv /\ TabsTyped /\ WaitersAreServed

LEMMA IdleShape == IdleRequest \in Request /\ IdleRequest.pc = "idle"
BY DEF IdleRequest, Request, Access

LEMMA SentShape ==
  ASSUME TabsTyped, NEW tab \in Tabs, NEW retried \in BOOLEAN
  PROVE  /\ Sent(tab, retried) \in Request
         /\ Sent(tab, retried).pc = "sent"
         /\ Sent(tab, retried).tab = tab
BY DEF Request, Sent, TabsTyped, Access

\* A lost answer of /api/auth/me is no step of Sessions; it costs a fault only.
LEMMA FaultOnly ==
  ASSUME Inv, NEW kind \in FaultKinds, Spend(kind), UNCHANGED <<token, cookie, call>>
  PROVE  Inv' /\ NoRevival
<1>1. faults' \in [FaultKinds -> Nat]
  BY SpendEffect DEF Inv
<1> QED BY <1>1
        DEF Inv, TypeOK, FamilyKnown, NewOnce, WellFormed, InTable, Thorough,
            CookieIsKnown, Single, Solo, Exists, Live, Family, NoRevival, Ended, Rotating

LEMMA RefreshServer ==
  ASSUME Inv, NEW tab \in Tabs, RefreshAccessToken(tab)
  PROVE  Inv' /\ [NoRevival]_vars
<1>1. CASE UNCHANGED <<token, cookie, call, faults>>
  BY <1>1, InvNext DEF vars
<1>2. ASSUME NEW c \in Calls, Send(c, "refresh")
      PROVE  Inv' /\ NoRevival
  BY <1>2, SendInv DEF Op
<1> QED BY <1>1, <1>2 DEF RefreshAccessToken

\* Whatever a tab does, the server's side of it keeps the invariant of Sessions.
LEMMA ServerSide ==
  ASSUME Inv, TabsTyped, [ClientNext]_allVars
  PROVE  Inv' /\ [NoRevival]_vars
<1>1. ASSUME NEW tab \in Tabs, TabStep(tab)
      PROVE  Inv' /\ [NoRevival]_vars
  <2>0. dialog[tab] \in Calls \cup {NoCall} /\ flight[tab] \in Calls \cup {NoCall}
    BY DEF TabsTyped
  <2>1. CASE Load(tab)
    BY <2>1, RefreshServer DEF Load
  <2>2. CASE Me(tab)
    <3>1. CASE UNCHANGED faults
      BY <2>2, <3>1, InvNext DEF Me, vars
    <3>2. CASE Spend("loss")
      BY <2>2, <3>2, FaultOnly DEF Me, FaultKinds
    <3> QED BY <2>2, <3>1, <3>2 DEF Me
  <2>3. ASSUME NEW op \in {"open", "logout"}, Click(tab, op)
        PROVE  Inv' /\ NoRevival
    BY <2>3, SendInv DEF Click, Op
  <2>4. CASE DialogAnswered(tab)
    BY <2>0, <2>4, ReceiveInv DEF DialogAnswered
  <2>5. CASE DialogLost(tab)
    BY <2>0, <2>5, LoseInv DEF DialogLost
  <2>6. CASE RefreshAnswered(tab)
    BY <2>0, <2>6, ReceiveInv DEF RefreshAnswered
  <2>7. CASE RefreshLost(tab)
    BY <2>0, <2>7, LoseInv DEF RefreshLost
  <2>8. CASE ExpireAccess(tab) \/ \E r \in Requests : Ask(tab, r)
    BY <2>8, InvNext DEF ExpireAccess, Ask, vars
  <2> QED BY <1>1, <2>1, <2>2, <2>3, <2>4, <2>5, <2>6, <2>7, <2>8 DEF TabStep
<1>2. ASSUME NEW r \in Requests, Unauthorized(r)
      PROVE  Inv' /\ [NoRevival]_vars
  BY <1>2, RefreshServer DEF Unauthorized, TabsTyped, ReqHasTab
<1>3. ASSUME NEW r \in Requests, Answered(r)
      PROVE  Inv' /\ [NoRevival]_vars
  BY <1>3, InvNext DEF Answered, vars
<1>4. CASE ServerStep
  BY <1>4, InvNext DEF Next
<1>5. CASE UNCHANGED allVars
  BY <1>5, InvNext DEF allVars, vars
<1> QED BY <1>1, <1>2, <1>3, <1>4, <1>5 DEF ClientNext

-----------------------------------------------------------------------------
(* The tabs.                                                               *)

LEMMA RefreshTabs ==
  ASSUME TabsTyped, NEW tab \in Tabs, RefreshAccessToken(tab)
  PROVE  /\ flight' \in [Tabs -> Calls \cup {NoCall}]
         /\ flight'[tab] # NoCall
         /\ \A other \in Tabs : flight[other] # NoCall => flight'[other] # NoCall
BY ClientAssumption DEF RefreshAccessToken, Shares, TabsTyped

\* A refresh that ends takes every request that waits for it along.
LEMMA EndRefreshTabs ==
  ASSUME TabsTyped, WaitersAreServed, NEW tab \in Tabs, NEW ok \in BOOLEAN,
         EndRefresh(tab, ok)
  PROVE  TabsTyped' /\ WaitersAreServed'
<1> DEFINE settled == [Sent(tab, TRUE) EXCEPT !.bearer = "valid"]
<1>1. /\ settled \in Request /\ settled.pc = "sent" /\ settled.tab = tab
      /\ IdleRequest \in Request /\ IdleRequest.pc = "idle"
  <2>1. Sent(tab, TRUE) \in Request /\ Sent(tab, TRUE).pc = "sent" /\ Sent(tab, TRUE).tab = tab
    BY SentShape
  <2> QED BY <2>1, IdleShape DEF Request, Access
<1>2. req' = [r \in Requests |->
                IF r \in Waiting(tab) THEN IF ok THEN settled ELSE IdleRequest
                ELSE req[r]]
  BY DEF EndRefresh, Settled
<1> HIDE DEF settled
<1>3. /\ req' \in [Requests -> Request] /\ ReqHasTab'
      /\ \A r \in Requests : req'[r].pc = "waiting" =>
           r \notin Waiting(tab) /\ req'[r] = req[r]
  BY <1>1, <1>2 DEF TabsTyped, ReqHasTab, Waiting
<1>4. /\ flight' = [flight EXCEPT ![tab] = NoCall] /\ dialog' = dialog
      /\ access' \in [Tabs -> Access] /\ user' \in [Tabs -> User]
  BY DEF EndRefresh, TabsTyped, Access, User
<1>5. TabsTyped'
  BY <1>3, <1>4 DEF TabsTyped
<1>6. WaitersAreServed'
  BY <1>3, <1>4 DEF WaitersAreServed, Waiting, TabsTyped
<1> QED BY <1>5, <1>6

LEMMA EndDialogTabs ==
  ASSUME TabsTyped, WaitersAreServed, NEW tab \in Tabs, NEW ok \in BOOLEAN, NEW op,
         EndDialog(tab, op, ok)
  PROVE  TabsTyped' /\ WaitersAreServed'
<1>1. /\ dialog' \in [Tabs -> Calls \cup {NoCall}]
      /\ access' \in [Tabs -> Access] /\ user' \in [Tabs -> User]
      /\ UNCHANGED <<flight, req>>
  BY DEF EndDialog, TabsTyped, Access, User
<1> QED BY <1>1 DEF TabsTyped, ReqHasTab, WaitersAreServed, Waiting

LEMMA TabStepTabs ==
  ASSUME TabsTyped, WaitersAreServed, NEW tab \in Tabs, TabStep(tab)
  PROVE  TabsTyped' /\ WaitersAreServed'
<1>1. CASE Load(tab)
  <2>1. access' \in [Tabs -> Access] /\ user' \in [Tabs -> User] /\ UNCHANGED <<dialog, req>>
    BY <1>1 DEF Load, TabsTyped, Access, User
  <2> QED BY <1>1, <2>1, RefreshTabs DEF Load, TabsTyped, ReqHasTab, WaitersAreServed, Waiting
<1>2. CASE Me(tab)
  <2>1. user' \in [Tabs -> User] /\ UNCHANGED <<access, flight, dialog, req>>
    BY <1>2 DEF Me, TabsTyped, User
  <2> QED BY <2>1 DEF TabsTyped, ReqHasTab, WaitersAreServed, Waiting
<1>3. ASSUME NEW op \in {"open", "logout"}, Click(tab, op)
      PROVE  TabsTyped' /\ WaitersAreServed'
  <2>1. dialog' \in [Tabs -> Calls \cup {NoCall}] /\ UNCHANGED <<access, user, flight, req>>
    BY <1>3 DEF Click, TabsTyped
  <2> QED BY <2>1 DEF TabsTyped, ReqHasTab, WaitersAreServed, Waiting
<1>4. CASE DialogAnswered(tab) \/ DialogLost(tab)
  BY <1>4, EndDialogTabs DEF DialogAnswered, DialogLost
<1>5. CASE RefreshAnswered(tab) \/ RefreshLost(tab)
  BY <1>5, EndRefreshTabs DEF RefreshAnswered, RefreshLost
<1>6. CASE ExpireAccess(tab)
  <2>1. \A r \in Requests : /\ req[r] \in Request
                            /\ [req[r] EXCEPT !.bearer = "expired"] \in Request
                            /\ [req[r] EXCEPT !.bearer = "expired"].pc = req[r].pc
                            /\ [req[r] EXCEPT !.bearer = "expired"].tab = req[r].tab
    BY DEF TabsTyped, Request, Access
  <2>2. /\ req' \in [Requests -> Request]
        /\ \A r \in Requests : req'[r].pc = req[r].pc /\ req'[r].tab = req[r].tab
    BY <1>6, <2>1 DEF ExpireAccess
  <2>3. access' \in [Tabs -> Access] /\ UNCHANGED <<user, flight, dialog>>
    BY <1>6 DEF ExpireAccess, TabsTyped, Access
  <2> QED BY <2>2, <2>3 DEF TabsTyped, ReqHasTab, WaitersAreServed, Waiting
<1>7. ASSUME NEW r \in Requests, Ask(tab, r)
      PROVE  TabsTyped' /\ WaitersAreServed'
  <2>1. /\ Sent(tab, FALSE) \in Request
        /\ Sent(tab, FALSE).pc = "sent" /\ Sent(tab, FALSE).tab = tab
    BY SentShape
  <2>2. req' = [req EXCEPT ![r] = Sent(tab, FALSE)] /\ UNCHANGED <<access, user, flight, dialog>>
    BY <1>7 DEF Ask
  <2> QED BY <2>1, <2>2 DEF TabsTyped, ReqHasTab, WaitersAreServed, Waiting
<1> QED BY <1>1, <1>2, <1>3, <1>4, <1>5, <1>6, <1>7 DEF TabStep

LEMMA TabsInductive ==
  ASSUME TabsTyped, WaitersAreServed, [ClientNext]_allVars
  PROVE  TabsTyped' /\ WaitersAreServed'
<1>1. ASSUME NEW r \in Requests, Unauthorized(r)
      PROVE  TabsTyped' /\ WaitersAreServed'
  <2> DEFINE tab == req[r].tab
  <2>1. /\ req[r] \in Request /\ tab \in Tabs
        /\ RefreshAccessToken(tab) /\ UNCHANGED <<access, user, dialog>>
    BY <1>1 DEF Unauthorized, TabsTyped, ReqHasTab
  <2>2. /\ [req[r] EXCEPT !.pc = "waiting"] \in Request
        /\ [req[r] EXCEPT !.pc = "waiting"].tab = tab
    BY <2>1 DEF Request
  <2>3. req' = [req EXCEPT ![r] = [req[r] EXCEPT !.pc = "waiting"]]
    BY <1>1 DEF Unauthorized
  <2>4. /\ req' \in [Requests -> Request]
        /\ req'[r].tab = tab
        /\ \A q \in Requests \ {r} : req'[q] = req[q]
    BY <2>2, <2>3 DEF TabsTyped
  <2> HIDE DEF tab
  <2>5. /\ flight' \in [Tabs -> Calls \cup {NoCall}]
        /\ flight'[tab] # NoCall
        /\ \A other \in Tabs : flight[other] # NoCall => flight'[other] # NoCall
    BY <2>1, RefreshTabs
  <2>6. TabsTyped'
    BY <2>1, <2>4, <2>5 DEF TabsTyped, ReqHasTab
  <2>7. WaitersAreServed'
    BY <2>4, <2>5 DEF WaitersAreServed, Waiting
  <2> QED BY <2>6, <2>7
<1>2. ASSUME NEW r \in Requests, Answered(r)
      PROVE  TabsTyped' /\ WaitersAreServed'
  <2>2. req' = [req EXCEPT ![r] = IdleRequest] /\ UNCHANGED <<access, user, flight, dialog>>
    BY <1>2 DEF Answered
  <2> QED BY <2>2, IdleShape DEF TabsTyped, ReqHasTab, WaitersAreServed, Waiting
<1>3. CASE UNCHANGED clientVars
  BY <1>3 DEF clientVars, TabsTyped, ReqHasTab, WaitersAreServed, Waiting
<1> QED BY <1>1, <1>2, <1>3, TabStepTabs DEF ClientNext, allVars

LEMMA ClientInductive ==
  /\ ClientInit => ClientInv
  /\ ClientInv /\ [ClientNext]_allVars => ClientInv' /\ [NoRevival]_vars
<1>1. ASSUME ClientInit  PROVE ClientInv
  <2>1. Inv
    BY <1>1, InvInit DEF ClientInit
  <2>2. TabsTyped /\ WaitersAreServed
    <3> QED BY <1>1, IdleShape
            DEF ClientInit, TabsTyped, ReqHasTab, WaitersAreServed, Waiting, Access, User
  <2> QED BY <2>1, <2>2 DEF ClientInv
<1>2. ASSUME ClientInv, [ClientNext]_allVars  PROVE ClientInv' /\ [NoRevival]_vars
  BY <1>2, ServerSide, TabsInductive DEF ClientInv
<1> QED BY <1>1, <1>2

\* The state of the tabs and of their requests stays in its domain, for any number
\* of tabs and requests in flight.
THEOREM ClientTypeCorrect == ClientSpec => []ClientTypeOK
<1>1. ClientInv => ClientTypeOK
  BY DEF ClientInv, Inv, TabsTyped, ClientTypeOK
<1> QED BY <1>1, ClientInductive, PTL DEF ClientSpec, allVars

\* refreshInFlight (api.ts:51) is shared by every request of the tab that was
\* answered 401, and its end releases them all: nobody waits for a refresh that
\* is over.
THEOREM WaitersServed == ClientSpec => []WaitersAreServed
<1>1. ClientInv => WaitersAreServed
  BY DEF ClientInv
<1> QED BY <1>1, ClientInductive, PTL DEF ClientSpec, allVars

\* However the tabs share the cookie, a session that has ended stays ended.
THEOREM TabsReviveNothing == ClientSpec => EndedStaysEnded
<1> QED BY ClientInductive, PTL DEF ClientSpec, allVars, EndedStaysEnded

-----------------------------------------------------------------------------
(* One page, no answer lost.  What a refresh may rely on is that the token *)
(* it sends is the only one of its family that may still be used: the page *)
(* waits for the answer, and so for the new cookie, before it sends        *)
(* another, and what its dialogs do to the cookie meanwhile concerns other *)
(* families.                                                               *)

OneTab == \A a, b \in Tabs : a = b

Kept == faults["loss"] = 0

Refreshes == {c \in Calls : call[c].op = "refresh"}

OneRefresh == \A b, c \in Refreshes : b = c

\* Every call is the refresh or the dialog of a tab.
Owned ==
  \A c \in Calls :
    /\ call[c].op = "refresh" => \E tab \in Tabs : flight[tab] = c
    /\ call[c].op \in {"open", "logout"} => \E tab \in Tabs : dialog[tab] = c

\* No other token of its family can be used.
Sole(t) == Live(token[t].family) \subseteq {t}

\* The tokens, if s is one, are of different families.
Apart(s, t) == s # NoToken => token[s].family # token[t].family

\* With every answer read, a call whose handler is done is one whose answer is
\* on its way, and the cookie it carried is in the table.
Plain(k) ==
  /\ k.op = "none" => k = IdleCall
  /\ k.answer # "read"
  /\ k.pc = "closed" <=> k.answer # "none"
  /\ k.sent # NoToken => Exists(k.sent)

RefreshKnows(k) ==
  /\ k.pc \in {"rotate", "revoke", "locking", "commit"} =>
       k.sent # NoToken /\ k.family = token[k.sent].family
  /\ k.pc = "commit" /\ k.new # NoToken => k.hits = {k.sent}
  /\ \/ k.pc \in {"revoke", "locking"}
     \/ k.pc = "commit" /\ k.new = NoToken
     => Live(k.family) = {}
  /\ k.answer # "ok" /\ k.sent # NoToken => Sole(k.sent)
  /\ k.answer = "ok" => /\ k.sent # NoToken
                        /\ token[k.new].family = token[k.sent].family
                        /\ Sole(k.new)

\* Before its answer arrives, nothing of a new session has reached the browser.
OpenKnows(k) ==
  k.answer = "ok" => /\ Sole(k.new)
                     /\ token[k.new].family = k.new
                     /\ Apart(cookie, k.new)
                     /\ \A c \in Refreshes : Apart(call[c].sent, k.new)

CookieKnows ==
  cookie # NoToken =>
    /\ Refreshes = {} => Sole(cookie)
    /\ \A c \in Refreshes : \/ call[c].sent = cookie
                            \/ Sole(cookie) /\ Apart(call[c].sent, cookie)

PageTable ==
  /\ Single
  /\ \A c \in Calls : Plain(call[c])
  /\ \A c \in Refreshes : RefreshKnows(call[c])
  /\ \A c \in Calls : call[c].op = "open" => OpenKnows(call[c])
  /\ CookieKnows

\* A handler goes on without touching the table.
LEMMA LocalStep ==
  ASSUME TypeOK, PageTable, NEW c \in Calls, NEW k \in Call,
         call' = [call EXCEPT ![c] = k], UNCHANGED <<token, cookie>>,
         k.op = call[c].op, k.sent = call[c].sent, Plain(k),
         k.op = "refresh" => RefreshKnows(k),
         k.op = "open" => OpenKnows(k)
  PROVE  PageTable'
<1>1. /\ call'[c] = k
      /\ \A b \in Calls \ {c} : call'[b] = call[b]
  BY DEF TypeOK
<1>2. \A b \in Calls : call'[b].op = call[b].op /\ call'[b].sent = call[b].sent
  BY <1>1
<1>3. Refreshes' = Refreshes
  BY <1>2 DEF Refreshes
<1>4. /\ \A t : Exists(t)' <=> Exists(t)
      /\ \A f : Live(f)' = Live(f)
      /\ \A t : Sole(t)' <=> Sole(t)
      /\ \A s, t : Apart(s, t)' <=> Apart(s, t)
  BY DEF Exists, Live, Family, Sole, Apart
<1>5. /\ \A r : Plain(r) => Plain(r)'
      /\ \A r : RefreshKnows(r) => RefreshKnows(r)'
  BY <1>4 DEF Plain, RefreshKnows
<1>6. \A r : OpenKnows(r) => OpenKnows(r)'
  BY <1>2, <1>3, <1>4 DEF OpenKnows, Refreshes, Apart
<1>7. CookieKnows'
  BY <1>2, <1>3, <1>4 DEF PageTable, CookieKnows, Refreshes, Apart
<1>8. Single'
  BY <1>4 DEF PageTable, Single
<1>9. /\ \A b \in Calls : Plain(call'[b])
      /\ \A b \in Refreshes : RefreshKnows(call'[b])
      /\ \A b \in Calls : call'[b].op = "open" => OpenKnows(call'[b])
  BY <1>1 DEF PageTable, Refreshes
<1> QED BY <1>3, <1>5, <1>6, <1>7, <1>8, <1>9 DEF PageTable

\* The step of c is one that gives its call record k and leaves the rest alone.
Becomes(c, k) ==
  /\ k \in Call /\ k.op = call[c].op /\ k.sent = call[c].sent
  /\ call' = [call EXCEPT ![c] = k]

LEMMA UpdateBecomes ==
  ASSUME NEW c \in Calls, NEW k \in Call, Update(c, k), k.answer # "read",
         k.op = call[c].op, k.sent = call[c].sent
  PROVE  Becomes(c, k)
BY DEF Update, Becomes

LEMMA FlushRecord ==
  ASSUME CommitFirst, NEW c \in Calls, NEW j \in Call, Flush(c, j)
  PROVE  \E k \in Call :
           /\ Update(c, k) /\ k.pc = "commit" /\ k.answer = j.answer
           /\ k.op = j.op /\ k.sent = j.sent /\ k.family = j.family
           /\ k.hits = j.hits /\ k.new = j.new
<1> DEFINE k == [j EXCEPT !.pc = "commit", !.answer = EarlyAnswer(j)]
<1>1. EarlyAnswer(j) = j.answer
  BY DEF EarlyAnswer
<1>2. /\ k \in Call /\ k.pc = "commit" /\ k.answer = j.answer
      /\ k.op = j.op /\ k.sent = j.sent /\ k.family = j.family
      /\ k.hits = j.hits /\ k.new = j.new
  BY <1>1 DEF Call, PC
<1>3. Update(c, k)
  BY DEF Flush
<1> QED BY <1>2, <1>3

LEMMA ClosePage ==
  ASSUME TypeOK, PageTable, NEW c \in Calls, NEW answer \in {"ok", "refused", "error"},
         Close(c, answer), call[c].op # "none", call[c].pc # "closed",
         answer = "ok" => call[c].op \notin {"open", "refresh"},
         UNCHANGED <<token, cookie>>
  PROVE  PageTable' /\ \E k : Becomes(c, k)
<1> DEFINE k == [call[c] EXCEPT !.pc = "closed",
                                !.answer = IF call[c].answer = "none" THEN answer
                                           ELSE call[c].answer]
<1>1. call[c] \in Call /\ Plain(call[c])
  BY DEF TypeOK, PageTable
<1>2. call[c].answer = "none"
  BY <1>1 DEF Plain
<1>3. /\ k \in Call /\ k.pc = "closed" /\ k.answer = answer
      /\ k.op = call[c].op /\ k.sent = call[c].sent
  BY <1>1, <1>2 DEF Call, PC, Answer
<1>4. Update(c, k)
  BY DEF Close
<1> HIDE DEF k
<1>5. Becomes(c, k)
  BY <1>3, <1>4, UpdateBecomes
<1>6. Plain(k)
  BY <1>1, <1>3 DEF Plain
<1>7. k.op = "refresh" => RefreshKnows(k)
  BY <1>2, <1>3 DEF PageTable, Refreshes, RefreshKnows
<1>8. k.op = "open" => OpenKnows(k)
  BY <1>3 DEF OpenKnows
<1> QED BY <1>5, <1>6, <1>7, <1>8, LocalStep DEF Becomes

LEMMA OpenPage ==
  ASSUME CommitFirst, TypeOK, PageTable, NEW c \in Calls, OpenIssue(c) \/ OpenRefused(c)
  PROVE  PageTable' /\ \E k : Becomes(c, k)
<1>1. /\ call[c] \in Call /\ Plain(call[c]) /\ call[c].op = "open" /\ call[c].pc = "select"
      /\ UNCHANGED <<token, cookie>>
  BY DEF TypeOK, PageTable, OpenIssue, OpenRefused
<1>2. CASE OpenRefused(c)
  BY <1>1, <1>2, ClosePage DEF OpenRefused
<1>3. CASE OpenIssue(c)
  <2>1. PICK t \in Tokens : Flush(c, [call[c] EXCEPT !.family = t, !.new = t])
    BY <1>3 DEF OpenIssue
  <2> DEFINE j == [call[c] EXCEPT !.family = t, !.new = t]
  <2>2. j \in Call /\ j.op = "open" /\ j.sent = call[c].sent /\ j.answer = call[c].answer
    BY <1>1 DEF Call, MaybeToken
  <2>3. Flush(c, j)
    BY <2>1
  <2> HIDE DEF j
  <2>4. PICK k \in Call : /\ Update(c, k) /\ k.pc = "commit" /\ k.answer = j.answer
                          /\ k.op = j.op /\ k.sent = j.sent
    BY <2>2, <2>3, FlushRecord
  <2>5. k.answer = "none"
    BY <1>1, <2>2, <2>4 DEF Plain
  <2>6. Becomes(c, k)
    BY <1>1, <2>2, <2>4, <2>5, UpdateBecomes
  <2>7. Plain(k) /\ OpenKnows(k)
    BY <1>1, <2>2, <2>4, <2>5 DEF Plain, OpenKnows
  <2> QED BY <1>1, <2>2, <2>4, <2>6, <2>7, LocalStep DEF Becomes
<1> QED BY <1>2, <1>3

LEMMA RefreshSelectPage ==
  ASSUME Inv, PageTable, NEW c \in Calls, RefreshSelect(c)
  PROVE  PageTable' /\ \E k : Becomes(c, k)
<1> DEFINE t == call[c].sent
           k == [call[c] EXCEPT !.pc = IF IsReuse(t) THEN "revoke" ELSE "rotate",
                                !.family = token[t].family]
<1>1. /\ TypeOK /\ call[c] \in Call /\ Plain(call[c]) /\ RefreshKnows(call[c])
      /\ call[c].op = "refresh" /\ call[c].pc = "select"
      /\ WellFormed(call[c]) /\ UNCHANGED <<token, cookie>>
  BY DEF Inv, TypeOK, PageTable, Refreshes, RefreshSelect
<1>2. CASE Exists(t) /\ (IsReuse(t) \/ ~token[t].expired)
  <2>1. t \in Tokens /\ t # NoToken /\ token[t] \in Row
    BY <1>1, <1>2, ConstantsAssumption DEF Exists, TypeOK
  <2>2. /\ k \in Call /\ k.op = "refresh" /\ k.sent = t /\ k.new = call[c].new
        /\ k.family = token[t].family /\ k.answer = call[c].answer
        /\ k.pc = IF IsReuse(t) THEN "revoke" ELSE "rotate"
    BY <1>1, <2>1 DEF Call, PC, Row
  <2>3. Update(c, k)
    BY <1>2 DEF RefreshSelect
  <2> HIDE DEF k
  <2>4. k.answer = "none" /\ Sole(t)
    BY <1>1, <2>1, <2>2 DEF Plain, RefreshKnows
  <2>5. Becomes(c, k)
    BY <1>1, <2>2, <2>3, <2>4, UpdateBecomes
  <2>6. k.pc = "revoke" => Live(k.family) = {}
    BY <2>2, <2>4 DEF Sole, Live, IsReuse
  <2>7. Plain(k) /\ RefreshKnows(k)
    BY <1>1, <2>1, <2>2, <2>4, <2>6 DEF Plain, RefreshKnows
  <2> QED BY <1>1, <2>2, <2>5, <2>7, LocalStep DEF Becomes
<1>3. CASE ~(Exists(t) /\ (IsReuse(t) \/ ~token[t].expired))
  BY <1>1, <1>3, ClosePage DEF RefreshSelect
<1> QED BY <1>2, <1>3

LEMMA RefreshRotatePage ==
  ASSUME CommitFirst, Inv, PageTable, NEW c \in Calls, RefreshRotate(c)
  PROVE  PageTable' /\ \E k : Becomes(c, k)
<1>1. PICK n \in Tokens : Flush(c, [call[c] EXCEPT !.hits = {call[c].sent}, !.new = n])
  BY DEF RefreshRotate
<1>2. /\ TypeOK /\ call[c] \in Call /\ WellFormed(call[c]) /\ Plain(call[c])
      /\ call[c].pc = "rotate" /\ UNCHANGED <<token, cookie>>
  BY DEF Inv, TypeOK, PageTable, RefreshRotate
<1>3. call[c].op = "refresh" /\ call[c].sent \in Tokens /\ RefreshKnows(call[c])
  BY <1>2 DEF WellFormed, Call, MaybeToken, PageTable, Refreshes
<1> DEFINE j == [call[c] EXCEPT !.hits = {call[c].sent}, !.new = n]
<1>4. /\ j \in Call /\ j.op = "refresh" /\ j.sent = call[c].sent
      /\ j.answer = call[c].answer /\ j.family = call[c].family
      /\ j.hits = {call[c].sent} /\ j.new = n
  BY <1>2, <1>3 DEF Call, MaybeToken
<1>5. Flush(c, j)
  BY <1>1
<1> HIDE DEF j
<1>6. PICK k \in Call : /\ Update(c, k) /\ k.pc = "commit" /\ k.answer = j.answer
                        /\ k.op = j.op /\ k.sent = j.sent /\ k.family = j.family
                        /\ k.hits = j.hits /\ k.new = j.new
  BY <1>4, <1>5, FlushRecord
<1>7. k.answer = "none" /\ k.new # NoToken
  BY <1>2, <1>4, <1>6, ConstantsAssumption DEF Plain
<1>8. Becomes(c, k)
  BY <1>3, <1>4, <1>6, <1>7, UpdateBecomes
<1>9. Plain(k) /\ RefreshKnows(k)
  BY <1>2, <1>3, <1>4, <1>6, <1>7 DEF Plain, RefreshKnows
<1> QED BY <1>2, <1>4, <1>6, <1>8, <1>9, LocalStep DEF Becomes

LEMMA LogoutSelectPage ==
  ASSUME Inv, PageTable, NEW c \in Calls, LogoutSelect(c)
  PROVE  PageTable' /\ \E k : Becomes(c, k)
<1> DEFINE t == call[c].sent
           k == [call[c] EXCEPT !.pc = "revoke", !.family = token[t].family]
<1>1. /\ TypeOK /\ call[c] \in Call /\ Plain(call[c])
      /\ call[c].op = "logout" /\ call[c].pc = "select" /\ UNCHANGED <<token, cookie>>
  BY DEF Inv, TypeOK, PageTable, LogoutSelect
<1>2. CASE Exists(t)
  <2>1. token[t] \in Row
    BY <1>1, <1>2 DEF Exists, TypeOK
  <2>2. /\ k \in Call /\ k.op = "logout" /\ k.sent = t /\ k.pc = "revoke"
        /\ k.answer = call[c].answer
    BY <1>1, <2>1 DEF Call, PC, Row
  <2>3. Update(c, k)
    BY <1>2 DEF LogoutSelect
  <2> HIDE DEF k
  <2>4. Plain(k) /\ k.answer = "none"
    BY <1>1, <2>2 DEF Plain
  <2>5. Becomes(c, k)
    BY <1>1, <2>2, <2>3, <2>4, UpdateBecomes
  <2> QED BY <1>1, <2>2, <2>4, <2>5, LocalStep DEF Becomes
<1>3. CASE ~Exists(t)
  BY <1>1, <1>3, ClosePage DEF LogoutSelect
<1> QED BY <1>2, <1>3

LEMMA RevokePage ==
  ASSUME CommitFirst, Inv, PageTable, NEW c \in Calls, Revoke(c) \/ RevokeLock(c)
  PROVE  PageTable' /\ \E k : Becomes(c, k)
<1>1. /\ TypeOK /\ call[c] \in Call /\ WellFormed(call[c]) /\ Plain(call[c])
      /\ call[c].pc \in {"revoke", "locking"} /\ UNCHANGED <<token, cookie>>
  BY DEF Inv, TypeOK, PageTable, Revoke, RevokeLock
<1>2. /\ call[c].op \in {"refresh", "logout"} /\ call[c].new = NoToken
      /\ call[c].answer = "none"
      /\ call[c].op = "refresh" => RefreshKnows(call[c])
  BY <1>1 DEF WellFormed, Plain, PageTable, Refreshes
<1>3. ASSUME NEW k \in Call, Update(c, k), k.pc \in {"locking", "commit"},
             k.op = call[c].op, k.sent = call[c].sent, k.family = call[c].family,
             k.new = call[c].new, k.answer = call[c].answer
      PROVE  PageTable' /\ \E j : Becomes(c, j)
  <2>1. Becomes(c, k)
    BY <1>2, <1>3, UpdateBecomes
  <2>2. Plain(k)
    BY <1>1, <1>2, <1>3 DEF Plain
  <2>3. k.op = "refresh" => RefreshKnows(k)
    BY <1>1, <1>2, <1>3 DEF RefreshKnows
  <2> QED BY <1>1, <1>2, <1>3, <2>1, <2>2, <2>3, LocalStep DEF Becomes
<1>4. CASE Revoke(c)
  <2> DEFINE k == [call[c] EXCEPT !.pc = "locking", !.hits = Live(call[c].family)]
  <2>1. Live(call[c].family) \subseteq Tokens
    BY DEF Live, Family
  <2>2. /\ k \in Call /\ k.pc = "locking" /\ k.op = call[c].op /\ k.sent = call[c].sent
        /\ k.family = call[c].family /\ k.new = call[c].new /\ k.answer = call[c].answer
    BY <1>1, <2>1 DEF Call, PC
  <2>3. Update(c, k)
    BY <1>4 DEF Revoke
  <2> HIDE DEF k
  <2> QED BY <1>3, <2>2, <2>3
<1>5. CASE RevokeLock(c)
  <2>1. PICK k \in Call :
          /\ Update(c, k) /\ k.pc = "commit" /\ k.answer = call[c].answer
          /\ k.op = call[c].op /\ k.sent = call[c].sent /\ k.family = call[c].family
          /\ k.hits = call[c].hits /\ k.new = call[c].new
    BY <1>1, <1>5, FlushRecord DEF RevokeLock
  <2> QED BY <1>3, <2>1
<1> QED BY <1>4, <1>5

\* Every step of a handler but its commit.
LEMMA HandlerPage ==
  ASSUME CommitFirst, Inv, PageTable, NEW c \in Calls,
         HandlerStep(c) \/ Abort(c), ~Commit(c)
  PROVE  PageTable' /\ \E k : Becomes(c, k)
<1>1. CASE Abort(c)
  <2>1. TypeOK /\ call[c].pc \notin {"idle", "closed"} /\ Plain(call[c])
    BY <1>1 DEF Inv, Abort, PageTable
  <2>2. call[c].op # "none"
    BY <2>1 DEF Plain, IdleCall
  <2> QED BY <1>1, <2>1, <2>2, ClosePage DEF Abort
<1> QED
  BY <1>1, OpenPage, RefreshSelectPage, RefreshRotatePage, LogoutSelectPage, RevokePage
  DEF HandlerStep, Inv

-----------------------------------------------------------------------------

\* The row a transaction adds is the only one of its family that can be used.
LEMMA CommitSole ==
  ASSUME Inv, PageTable, NEW c \in Calls, Commit(c), NEW f, NEW n,
         f = call[c].family, n = call[c].new
  PROVE  /\ n # NoToken => Live(f)' \subseteq {n}
         /\ \A g : ~(n # NoToken /\ g = f) => Live(g)' \subseteq Live(g)
<1>1. /\ WellFormed(call[c]) /\ InTable(call[c]) /\ call[c].pc = "commit"
      /\ Plain(call[c])
  BY DEF Inv, Commit, PageTable
<1>2. \A g : ~(n # NoToken /\ g = f) => Live(g)' \subseteq Live(g)
  BY CommitLive
<1>3. n # NoToken => Live(f)' \subseteq (Live(f) \ call[c].hits) \cup {n}
  BY CommitLive
<1>4. CASE n # NoToken /\ call[c].op = "refresh"
  <2>1. RefreshKnows(call[c])
    BY <1>4 DEF PageTable, Refreshes
  <2>2. call[c].hits = {call[c].sent} /\ Live(f) \subseteq {call[c].sent}
    BY <1>1, <1>4, <2>1 DEF RefreshKnows, Plain, Sole
  <2> QED BY <1>2, <1>3, <2>2
<1>5. CASE n # NoToken /\ call[c].op # "refresh"
  <2>1. f = n /\ ~Exists(n)
    BY <1>1, <1>5 DEF WellFormed, InTable
  <2>2. ASSUME NEW t \in Live(f)  PROVE FALSE
    <3>1. t \in Tokens /\ token[t].family = n
      BY <2>1, <2>2 DEF Live, Family
    <3>2. Exists(t)
      BY <1>5, <3>1 DEF Exists
    <3> QED BY <2>1, <3>1, <3>2 DEF Inv, FamilyKnown
  <2> QED BY <1>2, <1>3, <2>2
<1>6. CASE n = NoToken
  BY <1>2, <1>6
<1> QED BY <1>4, <1>5, <1>6

\* The record a commit leaves of its call.
LEMMA CommitRecord ==
  ASSUME CommitFirst, Inv, PageTable, NEW c \in Calls, Commit(c)
  PROVE  \E k \in Call :
           /\ Becomes(c, k) /\ k.pc = "closed"
           /\ k.new = call[c].new /\ k.family = call[c].family
           /\ k.answer = IF k.op = "refresh" /\ k.new = NoToken THEN "refused" ELSE "ok"
<1> DEFINE answer == IF call[c].op = "refresh" /\ call[c].new = NoToken
                     THEN "refused" ELSE "ok"
           k == [call[c] EXCEPT !.pc = "closed",
                                !.answer = IF call[c].answer = "none" THEN answer
                                           ELSE call[c].answer]
<1>1. call[c] \in Call /\ call[c].answer = "none"
  BY DEF Inv, TypeOK, Commit, PageTable, Plain
<1>2. /\ k \in Call /\ k.pc = "closed" /\ k.op = call[c].op /\ k.sent = call[c].sent
      /\ k.new = call[c].new /\ k.family = call[c].family /\ k.answer = answer
  BY <1>1 DEF Call, PC, Answer
<1>3. Update(c, k)
  BY DEF Commit, Close
<1> HIDE DEF k
<1> QED BY <1>2, <1>3, UpdateBecomes

LEMMA CommitPage ==
  ASSUME CommitFirst, Inv, PageTable, OneRefresh, NEW c \in Calls, Commit(c)
  PROVE  PageTable' /\ \E k : Becomes(c, k)
<1>0. PICK f, n : f = call[c].family /\ n = call[c].new
  OBVIOUS
<1>1. PICK k \in Call :
        /\ Becomes(c, k) /\ k.pc = "closed" /\ k.new = n /\ k.family = f
        /\ k.answer = IF k.op = "refresh" /\ k.new = NoToken THEN "refused" ELSE "ok"
  BY <1>0, CommitRecord
<1>2. /\ call'[c] = k /\ k.op = call[c].op /\ k.sent = call[c].sent
      /\ \A b \in Calls \ {c} : call'[b] = call[b]
      /\ UNCHANGED cookie
  BY <1>1 DEF Becomes, Inv, TypeOK, Commit
<1>3. /\ \A b \in Calls : call'[b].op = call[b].op /\ call'[b].sent = call[b].sent
      /\ Refreshes' = Refreshes
  BY <1>2 DEF Refreshes
<1>4. /\ WellFormed(call[c]) /\ InTable(call[c]) /\ call[c].pc = "commit"
      /\ Plain(call[c])
      /\ call[c].op = "refresh" => RefreshKnows(call[c])
  BY DEF Inv, Commit, PageTable, Refreshes
<1>5. /\ n # NoToken => n \in Tokens /\ ~Exists(n) /\ token'[n].family = f
      /\ \A t : Exists(t) => /\ Exists(t)' /\ t # n
                             /\ token'[t].family = token[t].family
                             /\ Exists(token[t].family)
  <2>1. NewRow(f).family = f
    BY DEF NewRow
  <2>2. /\ n # NoToken => n \in Tokens /\ ~Exists(n) /\ token'[n] = NewRow(f)
        /\ \A t \in Tokens \ {n} : token'[t].family = token[t].family
        /\ \A t : Exists(t) => Exists(t)'
    BY <1>0, CommitEffect
  <2>3. \A t : Exists(t) => t \in Tokens /\ t # n /\ Exists(token[t].family)
    BY <2>2, ConstantsAssumption DEF Exists, Inv, FamilyKnown
  <2> QED BY <2>1, <2>2, <2>3
<1>6. /\ n # NoToken => Live(f)' \subseteq {n}
      /\ \A g : ~(n # NoToken /\ g = f) => Live(g)' \subseteq Live(g)
  BY <1>0, CommitSole
\* What the commit of a refresh or of a new session can touch is its own family.
<1>7. n # NoToken => \/ /\ call[c].op = "refresh" /\ call[c].sent # NoToken
                        /\ Exists(call[c].sent) /\ f = token[call[c].sent].family
                     \/ call[c].op = "open" /\ f = n
  BY <1>0, <1>4 DEF WellFormed, Plain, RefreshKnows
<1>8. \A t : Exists(t) /\ Sole(t) /\ ~(n # NoToken /\ token[t].family = f) => Sole(t)'
  BY <1>5, <1>6 DEF Sole
<1>9. \A s, t : (s # NoToken => Exists(s)) /\ Exists(t) /\ Apart(s, t) => Apart(s, t)'
  BY <1>5 DEF Apart
<1>10. cookie # NoToken => Exists(cookie)
  BY DEF Inv, CookieIsKnown
<1>11. \A b \in Calls : call[b].sent # NoToken => Exists(call[b].sent)
  BY DEF PageTable, Plain
<1>12. Single'
  <2> SUFFICES ASSUME NEW g \in Tokens, NEW s \in Live(g)', NEW t \in Live(g)'
               PROVE  s = t
    BY DEF Single
  <2>1. CASE n # NoToken /\ g = f
    BY <1>6, <2>1
  <2>2. CASE ~(n # NoToken /\ g = f)
    BY <1>6, <2>2 DEF PageTable, Single
  <2> QED BY <2>1, <2>2
<1>13. \A b \in Calls : Plain(call[b])'
  <2>1. Plain(k)'
    BY <1>1, <1>2, <1>4, <1>5 DEF Plain, WellFormed
  <2>2. \A r : Plain(r) => Plain(r)'
    BY <1>5 DEF Plain
  <2>3. \A b \in Calls \ {c} : Plain(call'[b])
    BY <1>2 DEF PageTable
  <2> QED BY <1>2, <2>1, <2>2, <2>3
<1>14. ASSUME NEW b \in Refreshes'
       PROVE  RefreshKnows(call[b])'
  <2>0. b \in Refreshes /\ b \in Calls
    BY <1>3 DEF Refreshes
  <2>1. CASE b = c
    <3>1. /\ k.op = "refresh" /\ k.pc = "closed" /\ RefreshKnows(call[c])
          /\ k.sent # NoToken /\ Exists(k.sent) /\ f = token[k.sent].family
      BY <1>0, <1>1, <1>2, <1>4, <2>0, <2>1 DEF Refreshes, RefreshKnows, Plain
    <3>2. ASSUME n # NoToken  PROVE RefreshKnows(k)'
      <4>1. token'[n].family = f /\ token'[k.sent].family = f
        BY <1>5, <3>1, <3>2
      <4>2. Sole(n)'
        BY <1>6, <3>2, <4>1 DEF Sole
      <4> QED BY <1>1, <3>1, <3>2, <4>1, <4>2 DEF RefreshKnows
    <3>3. ASSUME n = NoToken  PROVE RefreshKnows(k)'
      <4>1. Live(f) = {}
        BY <1>0, <1>4, <3>1, <3>3 DEF RefreshKnows
      <4>2. Sole(k.sent)'
        BY <1>5, <1>6, <3>1, <3>3, <4>1 DEF Sole
      <4> QED BY <1>1, <3>1, <3>3, <4>2 DEF RefreshKnows
    <3>4. RefreshKnows(k)'
      BY <3>2, <3>3
    <3> QED BY <1>2, <2>1, <3>4
  <2>2. CASE b # c
    <3>1. call[c].op # "refresh"
      BY <2>0, <2>2 DEF OneRefresh, Refreshes
    <3>2. \A t : Exists(t) /\ Sole(t) => Sole(t)'
      BY <1>5, <1>7, <1>8, <3>1
    <3>3. call'[b] = call[b] /\ RefreshKnows(call[b]) /\ InTable(call[b])
      BY <1>2, <2>0, <2>2 DEF PageTable, Inv
    <3>4. WellFormed(call[b]) /\ call[b].op = "refresh" /\ Plain(call[b])
      BY <2>0 DEF Inv, Refreshes, PageTable
    <3>5. call[b].answer = "ok" => Exists(call[b].new)
      BY <3>3, <3>4 DEF InTable, WellFormed
    <3>6. \A t : Exists(t) => Live(token[t].family)' \subseteq Live(token[t].family)
      BY <1>5, <1>6, <1>7, <3>1
    <3>7. PICK r : r = call[b]
      OBVIOUS
    <3>8. RefreshKnows(r)'
      BY <1>5, <3>2, <3>3, <3>4, <3>5, <3>6, <3>7 DEF RefreshKnows, Plain
    <3> QED BY <3>3, <3>7, <3>8
  <2> QED BY <2>1, <2>2
<1>15. ASSUME NEW b \in Calls, call'[b].op = "open"
       PROVE  OpenKnows(call[b])'
  <2> SUFFICES ASSUME call'[b].answer = "ok"
               PROVE  /\ Sole(call[b].new)'
                      /\ token'[call'[b].new].family = call'[b].new
                      /\ Apart(cookie, call[b].new)'
                      /\ \A a \in Refreshes' : Apart(call[a].sent, call[b].new)'
    BY DEF OpenKnows
  <2>1. CASE b = c
    <3>1. k.op = "open" /\ f = n /\ n # NoToken
      BY <1>0, <1>1, <1>2, <1>4, <1>15, <2>1 DEF WellFormed
    <3>2. Sole(k.new)' /\ token'[n].family = n
      BY <1>1, <1>5, <1>6, <3>1 DEF Sole
    <3>3. \A t : Exists(t) => Apart(t, n)'
      BY <1>5, <3>1 DEF Apart
    <3>4. /\ Apart(cookie, n)'
          /\ \A a \in Refreshes' : Apart(call[a].sent, n)'
      BY <1>2, <1>3, <1>10, <1>11, <3>3 DEF Apart, Refreshes
    <3> QED BY <1>1, <1>2, <2>1, <3>2, <3>4
  <2>2. CASE b # c
    <3> DEFINE m == call[b].new
    <3>1. /\ call'[b] = call[b] /\ call[b].op = "open" /\ call[b].answer = "ok"
          /\ InTable(call[b]) /\ WellFormed(call[b])
      BY <1>2, <1>15, <2>2 DEF Inv
    <3>2. /\ Exists(m) /\ token[m].family = m /\ Sole(m) /\ Apart(cookie, m)
          /\ \A a \in Refreshes : Apart(call[a].sent, m)
      BY <3>1 DEF InTable, WellFormed, PageTable, OpenKnows
    <3>3. Sole(m)'
      <4>1. ~(n # NoToken /\ token[m].family = f)
        BY <1>5, <1>7, <3>2 DEF Apart, Refreshes
      <4> QED BY <1>8, <3>1, <3>2, <4>1 DEF Sole
    <3>4. token'[m].family = m
      BY <1>5, <3>2
    <3>5. Apart(cookie, m)' /\ \A a \in Refreshes' : Apart(call[a].sent, m)'
      BY <1>2, <1>3, <1>5, <1>10, <1>11, <3>1, <3>2 DEF Apart, Refreshes
    <3> QED BY <3>1, <3>3, <3>4, <3>5
  <2> QED BY <2>1, <2>2
<1>16. CookieKnows'
  <2> SUFFICES ASSUME cookie # NoToken
               PROVE  /\ Refreshes' = {} => Sole(cookie)'
                      /\ \A b \in Refreshes' : \/ call'[b].sent = cookie
                                               \/ Sole(cookie)' /\ Apart(call[b].sent, cookie)'
    BY <1>2 DEF CookieKnows
  <2>1. Exists(cookie) /\ token'[cookie].family = token[cookie].family
    BY <1>5, <1>10
  <2>2. CASE Refreshes = {}
    <3>1. call[c].op # "refresh" /\ Sole(cookie)
      BY <2>2 DEF Refreshes, PageTable, CookieKnows
    <3>2. Sole(cookie)'
      BY <1>2, <1>5, <1>7, <1>8, <2>1, <3>1
    <3> QED BY <1>3, <2>2, <3>2
  <2>3. ASSUME NEW b \in Refreshes, call[b].sent # cookie
        PROVE  Sole(cookie)' /\ Apart(call[b].sent, cookie)'
    <3>1. Sole(cookie) /\ Apart(call[b].sent, cookie)
      BY <2>3 DEF PageTable, CookieKnows
    <3>2. call[c].op = "refresh" => c = b
      BY DEF OneRefresh, Refreshes
    <3>3. ~(n # NoToken /\ token[cookie].family = f)
      BY <1>5, <1>7, <2>1, <3>1, <3>2 DEF Apart
    <3>4. Sole(cookie)'
      BY <1>2, <1>8, <2>1, <3>1, <3>3
    <3>5. b \in Calls /\ call'[b].sent = call[b].sent
      BY <1>3 DEF Refreshes
    <3>6. Apart(call[b].sent, cookie)'
      BY <1>2, <1>5, <1>11, <2>1, <3>1, <3>5 DEF Apart
    <3> QED BY <3>4, <3>6
  <2>4. \A b \in Refreshes : b \in Calls
    BY DEF Refreshes
  <2> QED BY <1>3, <2>2, <2>3, <2>4
<1> QED BY <1>1, <1>12, <1>13, <1>14, <1>15, <1>16 DEF PageTable

LEMMA ExpirePage ==
  ASSUME CommitFirst, Inv, PageTable, NEW t \in Tokens, Expire(t)
  PROVE  PageTable'
<1>1. /\ UNCHANGED <<cookie, call>>
      /\ \A s \in Tokens : /\ token'[s].family = token[s].family
                           /\ token'[s].revoked = token[s].revoked
  BY DEF Expire, Inv, TypeOK, Row
<1>2. \A s : (Exists(s)' <=> Exists(s)) /\ (Exists(s) => s \in Tokens)
  BY <1>1 DEF Exists
<1>3. \A f : Live(f)' = Live(f)
  BY <1>1 DEF Live, Family
<1>4. /\ \A s : Exists(s) => (Sole(s)' <=> Sole(s))
      /\ \A r, s : (r # NoToken => Exists(r)) /\ Exists(s) => (Apart(r, s)' <=> Apart(r, s))
  BY <1>1, <1>2, <1>3 DEF Sole, Apart
<1>5. cookie # NoToken => Exists(cookie)
  BY DEF Inv, CookieIsKnown
<1>6. \A c \in Calls :
        /\ call[c].sent # NoToken => Exists(call[c].sent)
        /\ call[c].answer = "ok" /\ call[c].op \in {"open", "refresh"} => Exists(call[c].new)
  BY DEF Inv, PageTable, Plain, InTable, WellFormed
<1>7. Single' /\ \A c \in Calls : Plain(call[c])'
  BY <1>1, <1>2, <1>3 DEF PageTable, Single, Plain
<1>8. Refreshes' = Refreshes
  BY <1>1 DEF Refreshes
<1>9. ASSUME NEW c \in Refreshes, NEW k, k = call[c]
      PROVE  RefreshKnows(k)'
  <2>1. /\ RefreshKnows(k)
        /\ k.sent # NoToken => Exists(k.sent)
        /\ k.answer = "ok" => Exists(k.new)
    BY <1>6, <1>9 DEF PageTable, Refreshes
  <2>2. \A s : Exists(s) => token'[s].family = token[s].family
    BY <1>1, <1>2
  <2> QED BY <1>3, <1>4, <2>1, <2>2 DEF RefreshKnows
<1>10. ASSUME NEW c \in Calls, call[c].op = "open", NEW k, k = call[c]
       PROVE  OpenKnows(k)'
  <2> SUFFICES ASSUME k.answer = "ok"  PROVE OpenKnows(k)'
    BY DEF OpenKnows
  <2>1. OpenKnows(k) /\ Exists(k.new)
    BY <1>6, <1>10 DEF PageTable
  <2>2. Sole(k.new)' /\ token'[k.new].family = k.new /\ Apart(cookie, k.new)'
    BY <1>1, <1>2, <1>4, <1>5, <2>1 DEF OpenKnows, Apart
  <2>3. \A b \in Refreshes : Apart(call[b].sent, k.new)'
    BY <1>1, <1>2, <1>6, <2>1 DEF OpenKnows, Apart, Refreshes
  <2> QED BY <1>8, <2>2, <2>3 DEF OpenKnows
<1>11. CookieKnows'
  BY <1>1, <1>2, <1>4, <1>5, <1>6, <1>8 DEF PageTable, CookieKnows, Refreshes, Apart
<1> QED BY <1>1, <1>7, <1>8, <1>9, <1>10, <1>11 DEF PageTable

\* The page sends a refresh only when it waits for no other, so the cookie it
\* carries is the last one the server gave it.
LEMMA SendPage ==
  ASSUME CommitFirst, Inv, PageTable, OneRefresh', NEW c \in Calls,
         NEW op \in {"open", "refresh", "logout"}, Send(c, op)
  PROVE  PageTable'
<1> DEFINE new == [IdleCall EXCEPT !.op = op, !.pc = "select", !.sent = cookie]
<1>1. PICK k : k = new
  OBVIOUS
<1>2. /\ k.op = op /\ k.pc = "select" /\ k.sent = cookie /\ k.new = NoToken
      /\ k.answer = "none"
  BY <1>1 DEF IdleCall
<1>3. /\ call' = [call EXCEPT ![c] = k] /\ UNCHANGED <<token, cookie>>
      /\ call[c].op = "none"
  BY <1>1 DEF Send, IdleCall
<1>4. /\ call'[c] = k
      /\ \A b \in Calls \ {c} : call'[b] = call[b]
  BY <1>3 DEF Inv, TypeOK
<1> HIDE DEF new
<1>5. /\ \A t : Exists(t)' <=> Exists(t)
      /\ \A f : Live(f)' = Live(f)
      /\ \A t : Sole(t)' <=> Sole(t)
      /\ \A s, t : Apart(s, t)' <=> Apart(s, t)
  BY <1>3 DEF Exists, Live, Family, Sole, Apart
<1>6. /\ \A r : Plain(r) => Plain(r)'
      /\ \A r : RefreshKnows(r) => RefreshKnows(r)'
  BY <1>3, <1>5 DEF Plain, RefreshKnows
<1>7. /\ op = "refresh" => Refreshes' = {c} /\ Refreshes = {}
      /\ op # "refresh" => Refreshes' = Refreshes
  BY <1>2, <1>3, <1>4 DEF OneRefresh, Refreshes
<1>8. Plain(k) /\ (op = "refresh" => RefreshKnows(k)) /\ OpenKnows(k)
  <2>1. cookie # NoToken => Exists(cookie)
    BY DEF Inv, CookieIsKnown
  <2>2. op = "refresh" /\ cookie # NoToken => Sole(cookie)
    BY <1>7 DEF PageTable, CookieKnows
  <2> QED BY <1>2, <2>1, <2>2 DEF Plain, RefreshKnows, OpenKnows
<1>9. /\ \A b \in Calls : Plain(call'[b])
      /\ \A b \in Refreshes' : RefreshKnows(call'[b])
  BY <1>2, <1>4, <1>7, <1>8 DEF PageTable, Refreshes
<1>10. ASSUME NEW b \in Calls, call'[b].op = "open"
       PROVE  OpenKnows(call[b])'
  <2>1. OpenKnows(call'[b])
    BY <1>4, <1>8, <1>10 DEF PageTable
  <2>2. \A a \in Refreshes' : call'[a].sent = cookie \/ (a \in Refreshes /\ call'[a] = call[a])
    <3>1. CASE op = "refresh"
      <4>1. call'[c].sent = cookie
        BY <1>2, <1>4
      <4>2. \A a \in Refreshes' : a = c
        BY <1>7, <3>1
      <4> QED BY <4>1, <4>2
    <3>2. CASE op # "refresh"
      BY <1>2, <1>4, <1>7, <3>2 DEF Refreshes
    <3> QED BY <3>1, <3>2
  <2> QED BY <1>3, <1>5, <2>1, <2>2 DEF OpenKnows, Apart
<1>11. CookieKnows'
  <2>1. CASE op = "refresh"
    BY <1>2, <1>3, <1>4, <1>7, <2>1 DEF CookieKnows
  <2>2. CASE op # "refresh"
    <3>1. Refreshes' = Refreshes /\ \A b \in Refreshes : call'[b] = call[b]
      BY <1>3, <1>4, <1>7, <2>2 DEF Refreshes
    <3> QED BY <1>3, <1>5, <3>1 DEF PageTable, CookieKnows, Apart
  <2> QED BY <2>1, <2>2
<1>12. Single'
  BY <1>5 DEF PageTable, Single
<1> QED BY <1>6, <1>9, <1>10, <1>11, <1>12 DEF PageTable

\* An answer gives the browser the successor of the token it sent, or the first
\* token of a session none of its calls knows.
LEMMA ReceivePage ==
  ASSUME CommitFirst, Inv, PageTable, OneRefresh, NEW c \in Calls, Receive(c)
  PROVE  PageTable' /\ call' = [call EXCEPT ![c] = IdleCall]
<1>1. PICK k : k = call[c]
  OBVIOUS
<1>2. /\ k \in Call /\ Plain(k) /\ WellFormed(k) /\ k.answer \in {"ok", "refused", "error"}
      /\ k.op = "refresh" => RefreshKnows(k)
      /\ k.op = "open" => OpenKnows(k)
  BY <1>1 DEF Inv, TypeOK, PageTable, Refreshes, Receive
<1>3. k.pc = "closed" /\ k.op # "none"
  BY <1>2 DEF Plain, IdleCall
<1>4. call' = [call EXCEPT ![c] = IdleCall]
  <2> DEFINE j == [k EXCEPT !.answer = "read"]
  <2>1. j.pc = "closed" /\ j.answer = "read"
    BY <1>2, <1>3 DEF Call
  <2>2. Update(c, j)
    BY <1>1 DEF Receive
  <2> HIDE DEF j
  <2> QED BY <2>1, <2>2 DEF Update
<1>5. /\ call'[c] = IdleCall
      /\ \A b \in Calls \ {c} : call'[b] = call[b]
      /\ cookie' = CookieAfter(k)
      /\ UNCHANGED token
  BY <1>1, <1>4 DEF Inv, TypeOK, Receive
<1>6. /\ \A t : Exists(t)' <=> Exists(t)
      /\ \A f : Live(f)' = Live(f)
      /\ \A t : Sole(t)' <=> Sole(t)
      /\ \A s, t : Apart(s, t)' <=> Apart(s, t)
  BY <1>5 DEF Exists, Live, Family, Sole, Apart
<1>7. Refreshes' = Refreshes \ {c}
  BY <1>5 DEF Refreshes, IdleCall
<1>8. k.op = "refresh" => Refreshes' = {} /\ c \in Refreshes
  BY <1>1, <1>7 DEF OneRefresh, Refreshes
<1>9. \/ /\ k.op = "refresh" /\ k.answer = "ok" /\ cookie' = k.new
      \/ /\ k.op = "open" /\ k.answer = "ok" /\ cookie' = k.new /\ k.new # NoToken
      \/ cookie' = NoToken
      \/ cookie' = cookie /\ ~(k.op = "refresh" /\ k.answer = "ok")
  <2>1. cookie' = IF k.answer = "ok" /\ k.op = "logout" THEN NoToken
                  ELSE IF k.answer = "ok" /\ k.op \in {"open", "refresh"} THEN k.new
                  ELSE cookie
    BY <1>5 DEF CookieAfter
  <2> QED BY <1>2, <2>1 DEF WellFormed
<1>10. Single' /\ \A b \in Calls : Plain(call[b])'
  <2>1. \A r : Plain(r) => Plain(r)'
    BY <1>6 DEF Plain
  <2>2. Plain(IdleCall)
    BY DEF Plain, IdleCall
  <2> QED BY <1>5, <1>6, <2>1, <2>2 DEF PageTable, Single
<1>11. \A b \in Refreshes' : RefreshKnows(call[b])'
  <2>1. \A r : RefreshKnows(r) => RefreshKnows(r)'
    BY <1>5, <1>6 DEF RefreshKnows
  <2>2. \A b \in Refreshes' : b \in Calls \ {c} /\ RefreshKnows(call[b])
    BY <1>7 DEF PageTable, Refreshes
  <2> QED BY <1>5, <2>1, <2>2
<1>12. ASSUME NEW b \in Calls, call'[b].op = "open", NEW r, r = call[b]
       PROVE  OpenKnows(call[b])'
  <2>1. b # c /\ call'[b] = r /\ r.op = "open"
    BY <1>5, <1>12 DEF IdleCall
  <2> SUFFICES ASSUME r.answer = "ok"
               PROVE  OpenKnows(r)'
    BY <2>1 DEF OpenKnows
  <2>2. /\ Sole(r.new) /\ token[r.new].family = r.new /\ Apart(cookie, r.new)
        /\ \A a \in Refreshes : Apart(call[a].sent, r.new)
        /\ r.new # NoToken
    BY <1>12, <2>1 DEF PageTable, OpenKnows, Inv, WellFormed
  <2>3. Apart(cookie, r.new)'
    <3>1. CASE k.op = "refresh" /\ k.answer = "ok" /\ cookie' = k.new
      <4>1. Apart(k.sent, r.new) /\ k.sent # NoToken
            /\ token[k.new].family = token[k.sent].family
        BY <1>1, <1>2, <1>8, <2>2, <3>1 DEF RefreshKnows
      <4> QED BY <1>5, <3>1, <4>1 DEF Apart
    <3>2. CASE k.op = "open" /\ k.answer = "ok" /\ cookie' = k.new /\ k.new # NoToken
      <4>1. k.new # r.new
        BY <1>1, <1>12, <2>1, <2>2 DEF Inv, NewOnce
      <4>2. token[k.new].family = k.new
        BY <1>2, <3>2 DEF OpenKnows
      <4> QED BY <1>5, <2>2, <3>2, <4>1, <4>2 DEF Apart
    <3>3. CASE cookie' = NoToken
      BY <3>3 DEF Apart
    <3>4. CASE cookie' = cookie
      BY <1>5, <2>2, <3>4 DEF Apart
    <3> QED BY <1>9, <3>1, <3>2, <3>3, <3>4
  <2>4. \A a \in Refreshes' : Apart(call[a].sent, r.new)'
    <3>1. \A a \in Refreshes' : a \in Refreshes /\ a \in Calls \ {c}
      BY <1>7 DEF Refreshes
    <3> QED BY <1>5, <2>2, <3>1 DEF Apart
  <2> QED BY <1>5, <1>6, <2>2, <2>3, <2>4 DEF OpenKnows
<1>13. CookieKnows'
  <2>0. \A b \in Refreshes' : b \in Refreshes /\ b \in Calls \ {c}
    BY <1>7 DEF Refreshes
  <2>1. CASE k.op = "refresh" /\ k.answer = "ok" /\ cookie' = k.new
    BY <1>2, <1>5, <1>6, <1>8, <2>1 DEF CookieKnows, RefreshKnows, Sole
  <2>2. CASE k.op = "open" /\ k.answer = "ok" /\ cookie' = k.new
    BY <1>2, <1>5, <2>0, <2>2 DEF CookieKnows, OpenKnows, Sole, Live, Family, Apart
  <2>3. CASE cookie' = NoToken
    BY <2>3 DEF CookieKnows
  <2>4. CASE cookie' = cookie /\ ~(k.op = "refresh" /\ k.answer = "ok")
    <3>1. CASE k.op = "refresh"
      <4>1. cookie # NoToken => Sole(cookie)
        BY <1>1, <1>2, <1>8, <2>4, <3>1 DEF PageTable, CookieKnows, RefreshKnows
      <4> QED BY <1>5, <1>8, <2>4, <3>1, <4>1 DEF CookieKnows, Sole, Live, Family
    <3>2. CASE k.op # "refresh"
      <4>1. Refreshes' = Refreshes
        BY <1>1, <1>7, <3>2 DEF Refreshes
      <4>2. CookieKnows
        BY DEF PageTable
      <4> QED BY <1>5, <1>6, <2>0, <2>4, <4>1, <4>2 DEF CookieKnows, Apart, Sole, Live, Family
    <3> QED BY <3>1, <3>2
  <2> QED BY <1>9, <2>1, <2>2, <2>3, <2>4
<1>14. \A b \in Calls : call'[b].op = "open" => OpenKnows(call[b])'
  BY <1>12
<1> QED BY <1>4, <1>10, <1>11, <1>13, <1>14 DEF PageTable

-----------------------------------------------------------------------------
(* The page and the server together.                                       *)

PageInv == Kept => Owned /\ PageTable

LEMMA OwnedOnce ==
  ASSUME OneTab, Owned
  PROVE  OneRefresh
BY DEF OneTab, Owned, OneRefresh, Refreshes

\* A step that leaves what the server and the browser share.
LEMMA ElsewherePage ==
  ASSUME Owned, PageTable, UNCHANGED <<token, cookie, call, flight, dialog>>
  PROVE  Owned' /\ PageTable'
BY DEF Owned, PageTable, Single, Live, Family, Plain, Exists, Refreshes, RefreshKnows,
       OpenKnows, CookieKnows, Sole, Apart

\* The page shares its refresh, or sends one when it waits for none.
LEMMA RefreshPage ==
  ASSUME OneTab, CommitFirst, ClientInv, Owned, PageTable, NEW tab \in Tabs,
         RefreshAccessToken(tab), UNCHANGED dialog
  PROVE  Owned' /\ PageTable'
<1>1. CASE Shares(tab)
  BY <1>1, ElsewherePage DEF RefreshAccessToken
<1>2. CASE ~Shares(tab)
  <2>1. PICK c \in Calls : Send(c, "refresh") /\ flight' = [flight EXCEPT ![tab] = c]
    BY <1>2 DEF RefreshAccessToken
  <2>2. /\ call'[c].op = "refresh"
        /\ \A b \in Calls \ {c} : call'[b] = call[b]
    BY <2>1 DEF Send, IdleCall, ClientInv, Inv, TypeOK
  <2>3. /\ flight'[tab] = c /\ flight[tab] \notin Calls
        /\ \A other \in Tabs \ {tab} : flight'[other] = flight[other]
    BY <1>2, <2>1, ClientAssumption DEF Shares, ClientInv, TabsTyped
  <2>4. Owned'
    BY <2>2, <2>3 DEF Owned
  <2>5. OneRefresh'
    BY <2>4 DEF OneTab, Owned, OneRefresh, Refreshes
  <2> QED BY <2>1, <2>4, <2>5, SendPage DEF ClientInv
<1> QED BY <1>1, <1>2

LEMMA ClickPage ==
  ASSUME OneTab, CommitFirst, ClientInv, Owned, PageTable, NEW tab \in Tabs,
         NEW op \in {"open", "logout"}, Click(tab, op)
  PROVE  Owned' /\ PageTable'
<1>1. PICK c \in Calls : Send(c, op) /\ dialog' = [dialog EXCEPT ![tab] = c]
  BY DEF Click
<1>2. /\ call'[c].op = op
      /\ \A b \in Calls \ {c} : call'[b] = call[b]
  BY <1>1 DEF Send, IdleCall, ClientInv, Inv, TypeOK
<1>3. /\ dialog'[tab] = c /\ dialog[tab] \notin Calls /\ UNCHANGED flight
      /\ \A other \in Tabs \ {tab} : dialog'[other] = dialog[other]
  BY <1>1, ClientAssumption DEF Click, ClientInv, TabsTyped
<1>4. Owned'
  BY <1>2, <1>3 DEF Owned
<1>5. OneRefresh'
  BY <1>4 DEF OneTab, Owned, OneRefresh, Refreshes
<1> QED BY <1>1, <1>4, <1>5, SendPage DEF ClientInv

\* The answer of the refresh or of the dialog frees its call.
LEMMA AnsweredPage ==
  ASSUME OneTab, CommitFirst, ClientInv, Owned, PageTable, NEW tab \in Tabs,
         DialogAnswered(tab) \/ RefreshAnswered(tab)
  PROVE  Owned' /\ PageTable'
<1>1. OneRefresh
  BY OwnedOnce
<1>2. ASSUME NEW c \in Calls, Receive(c),
             \A other \in Tabs : /\ flight[other] # c => flight'[other] = flight[other]
                                 /\ dialog[other] # c => dialog'[other] = dialog[other]
      PROVE  Owned' /\ PageTable'
  <2>1. PageTable' /\ call' = [call EXCEPT ![c] = IdleCall]
    BY <1>1, <1>2, ReceivePage DEF ClientInv
  <2>2. /\ call'[c].op = "none"
        /\ \A b \in Calls \ {c} : call'[b] = call[b]
    BY <2>1 DEF IdleCall, ClientInv, Inv, TypeOK
  <2>3. Owned'
    BY <1>2, <2>2 DEF Owned
  <2> QED BY <2>1, <2>3
<1>3. CASE DialogAnswered(tab)
  <2>1. dialog[tab] \in Calls /\ Receive(dialog[tab])
    BY <1>3 DEF DialogAnswered, ClientInv, TabsTyped
  <2>2. dialog' = [dialog EXCEPT ![tab] = NoCall] /\ UNCHANGED flight
    BY <1>3 DEF DialogAnswered, EndDialog
  <2> QED BY <1>2, <2>1, <2>2 DEF ClientInv, TabsTyped
<1>4. CASE RefreshAnswered(tab)
  <2>1. flight[tab] \in Calls /\ Receive(flight[tab])
    BY <1>4 DEF RefreshAnswered, ClientInv, TabsTyped
  <2>2. flight' = [flight EXCEPT ![tab] = NoCall] /\ UNCHANGED dialog
    BY <1>4 DEF RefreshAnswered, EndRefresh
  <2> QED BY <1>2, <2>1, <2>2 DEF ClientInv, TabsTyped
<1> QED BY <1>3, <1>4

LEMMA ServerPage ==
  ASSUME OneTab, CommitFirst, ClientInv, Owned, PageTable,
         ServerStep, UNCHANGED clientVars
  PROVE  Owned' /\ PageTable'
<1>1. OneRefresh
  BY OwnedOnce
<1>2. ASSUME NEW c \in Calls, HandlerStep(c) \/ Abort(c)
      PROVE  Owned' /\ PageTable'
  <2>1. PageTable' /\ \E k : Becomes(c, k)
    BY <1>1, <1>2, HandlerPage, CommitPage DEF ClientInv
  <2>2. PICK k : Becomes(c, k)
    BY <2>1
  <2>3. \A b \in Calls : call'[b].op = call[b].op
    BY <2>2 DEF Becomes, ClientInv, Inv, TypeOK
  <2> QED BY <2>1, <2>3 DEF Owned, clientVars
<1>3. ASSUME NEW t \in Tokens, Expire(t)
      PROVE  Owned' /\ PageTable'
  BY <1>3, ExpirePage DEF ClientInv, Expire, Owned, clientVars
<1> QED BY <1>2, <1>3 DEF ServerStep

\* A lost answer is a fault.
LEMMA AnswersArrive ==
  ASSUME ClientInv, Kept', NEW tab \in Tabs
  PROVE  /\ ~DialogLost(tab)
         /\ ~RefreshLost(tab)
         /\ Me(tab) => UNCHANGED faults
<1>1. ~Spend("loss")
  BY DEF ClientInv, Inv, TypeOK, Spend, Kept, FaultKinds
<1> QED BY <1>1 DEF DialogLost, RefreshLost, Lose, Me

\* Faults are never taken back.
LEMMA KeptBefore ==
  ASSUME ClientInv, [ClientNext]_allVars, Kept'
  PROVE  Kept
<1>1. UNCHANGED faults \/ Spend("db")
  <2>1. ASSUME NEW tab \in Tabs, TabStep(tab)  PROVE UNCHANGED faults
    BY <2>1, AnswersArrive
    DEF TabStep, Load, RefreshAccessToken, Send, Click, DialogAnswered, RefreshAnswered,
        Receive, ExpireAccess, Ask
  <2>2. ASSUME NEW r \in Requests, Answered(r) \/ Unauthorized(r)  PROVE UNCHANGED faults
    BY <2>2 DEF Answered, Unauthorized, RefreshAccessToken, Send
  <2>3. CASE ServerStep
    BY <2>3 DEF ServerStep, HandlerStep, Abort, Expire, OpenIssue, OpenRefused, RefreshSelect,
                RefreshRotate, LogoutSelect, Revoke, RevokeLock, Commit
  <2> QED BY <2>1, <2>2, <2>3 DEF ClientNext, allVars, vars
<1> QED BY <1>1 DEF ClientInv, Inv, TypeOK, Spend, Kept, FaultKinds

LEMMA PageInit ==
  ASSUME ClientInit
  PROVE  PageInv
<1>1. /\ \A c \in Calls : call[c] = IdleCall
      /\ cookie = NoToken
      /\ \A f \in Tokens : Live(f) = {}
  BY ConstantsAssumption DEF ClientInit, Init, Live, Family, NoRow
<1>2. /\ IdleCall.op = "none" /\ IdleCall.answer = "none" /\ IdleCall.pc = "idle"
      /\ IdleCall.sent = NoToken
  BY DEF IdleCall
<1> QED BY <1>1, <1>2 DEF PageInv, Owned, PageTable, Single, Plain, Refreshes, CookieKnows

LEMMA PageNext ==
  ASSUME OneTab, CommitFirst, ClientInv, PageInv, [ClientNext]_allVars
  PROVE  PageInv'
<1> SUFFICES ASSUME Kept'
             PROVE  Owned' /\ PageTable'
  BY DEF PageInv
<1>1. Owned /\ PageTable
  BY KeptBefore DEF PageInv
<1>2. ASSUME NEW tab \in Tabs, TabStep(tab)
      PROVE  Owned' /\ PageTable'
  <2>1. CASE Load(tab)
    BY <1>1, <2>1, RefreshPage DEF Load
  <2>2. CASE Me(tab)
    BY <1>1, <2>2, AnswersArrive, ElsewherePage DEF Me
  <2>3. ASSUME NEW op \in {"open", "logout"}, Click(tab, op)
        PROVE  Owned' /\ PageTable'
    BY <1>1, <2>3, ClickPage
  <2>4. CASE DialogAnswered(tab) \/ RefreshAnswered(tab)
    BY <1>1, <2>4, AnsweredPage
  <2>5. CASE ExpireAccess(tab) \/ \E r \in Requests : Ask(tab, r)
    BY <1>1, <2>5, ElsewherePage DEF ExpireAccess, Ask
  <2>6. ~DialogLost(tab) /\ ~RefreshLost(tab)
    BY AnswersArrive
  <2> QED BY <1>2, <2>1, <2>2, <2>3, <2>4, <2>5, <2>6 DEF TabStep
<1>3. ASSUME NEW r \in Requests, Answered(r)
      PROVE  Owned' /\ PageTable'
  BY <1>1, <1>3, ElsewherePage DEF Answered
<1>4. ASSUME NEW r \in Requests, Unauthorized(r)
      PROVE  Owned' /\ PageTable'
  <2>1. req[r].tab \in Tabs
    BY <1>4 DEF Unauthorized, ClientInv, TabsTyped, ReqHasTab
  <2> QED BY <1>1, <1>4, <2>1, RefreshPage DEF Unauthorized
<1>5. CASE ServerStep /\ UNCHANGED clientVars
  BY <1>1, <1>5, ServerPage
<1>6. CASE UNCHANGED allVars
  BY <1>1, <1>6, ElsewherePage DEF allVars, vars, clientVars
<1> QED BY <1>2, <1>3, <1>4, <1>5, <1>6 DEF ClientNext

\* "A single in-flight refresh, shared by every request that gets a 401"
\* (api.ts:47), so that no page is taken for a thief of its own token: as long as
\* the answers arrive, one page has one usable token per session, and its refresh
\* is refused as a replay (auth.py:162) only where the session was over anyway.
\* The page may have any number of requests in flight and sessions behind it.
THEOREM ReuseIsFree == OneTab /\ CommitFirst => (ClientSpec => []ReuseCostsNothing)
<1> SUFFICES ASSUME OneTab, CommitFirst PROVE ClientSpec => []ReuseCostsNothing
  OBVIOUS
<1>1. ClientInv /\ PageInv => ReuseCostsNothing
  <2> SUFFICES ASSUME ClientInv, PageTable
               PROVE  /\ OneLive
                      /\ \A c \in Calls : call[c].op = "refresh" /\ call[c].pc = "revoke"
                                           => Live(call[c].family) = {}
    BY DEF PageInv, ReuseCostsNothing, Kept
  <2>1. ASSUME NEW f \in Tokens  PROVE Cardinality(Live(f)) <= 1
    <3>1. CASE Live(f) = {}
      BY <3>1, FS_EmptySet
    <3>2. CASE Live(f) # {}
      <4>1. PICK t : t \in Live(f)
        BY <3>2
      <4>2. Live(f) = {t}
        BY <4>1 DEF PageTable, Single
      <4> QED BY <4>2, FS_Singleton
    <3> QED BY <3>1, <3>2
  <2>2. \A c \in Calls : call[c].op = "refresh" /\ call[c].pc = "revoke"
                         => Live(call[c].family) = {}
    BY DEF PageTable, Refreshes, RefreshKnows
  <2> QED BY <2>1, <2>2 DEF OneLive
<1>2. ClientInit => ClientInv /\ PageInv
  BY ClientInductive, PageInit
<1>3. ClientInv /\ PageInv /\ [ClientNext]_allVars => (ClientInv /\ PageInv)'
  BY ClientInductive, PageNext
<1> QED BY <1>1, <1>2, <1>3, PTL DEF ClientSpec, allVars

=============================================================================
