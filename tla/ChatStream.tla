----------------------------- MODULE ChatStream -----------------------------
(***************************************************************************)
(* A streamed answer from end to end: the generator of POST /api/chat      *)
(* (backend/app/api/chat.py over stream_answer of rag/synthesize.py), the  *)
(* connection, which cuts the bytes anywhere, the parser of frontend/src/  *)
(* lib/sse.ts, the hook of lib/useChatStream.ts and the Ask and Stop       *)
(* buttons of routes/Chat.tsx.                                             *)
(*                                                                         *)
(* A handler of the browser runs to its next await.  An abort rejects a    *)
(* fetch or a read at once, so the catch and finally blocks run before the *)
(* next event; a refresh of the access token is not aborted.               *)
(***************************************************************************)
EXTENDS Integers, Sequences, FiniteSets, Filters

CONSTANTS
  Asks,       \* the questions, one turn each
  NoAsk,      \* abortRef.current is null
  MaxTokens   \* how many tokens a generated answer has at most

ASSUME ChatAssumption ==
  /\ NoAsk \notin Asks
  /\ MaxTokens \in Nat \ {0}

VARIABLES
  server,    \* per question: the generator, and the bytes not delivered yet
  ask,       \* per question: the call of ask in the browser
  turn,      \* per question: what the page shows
  streaming, \* the state the Ask and Stop buttons are drawn from
  abortRef   \* the question Stop would abort

vars == <<server, ask, turn, streaming, abortRef>>

-----------------------------------------------------------------------------
(* The wire.  A record is its event and data lines, one symbol because no *)
(* part of the code looks into half of them, and a blank line; a proxy may *)
(* write line ends as CR NL.                                               *)
Events == {"citations", "token", "error", "done"}

Lines == Events \X (0 .. MaxTokens)
NL == <<"NL", 0>>
CR == <<"CR", 0>>
Symbol == Lines \cup {NL, CR}

\* _sse(event, data): the payload of a token is its place in the answer.
Sse(event, data, crlf) ==
  <<<<event, data>>>> \o (IF crlf THEN <<CR, NL, CR, NL>> ELSE <<NL, NL>>)

\* Every CR NL becomes NL.
Lf(text) == At(text, {i \in DOMAIN text : text[i] # CR \/ i = Len(text) \/ text[i + 1] # NL})

\* Mutant: only the new bytes are normalised, so a CR NL may be cut in two.
NormaliseNew(buffer, packet) == buffer \o Lf(packet)
Normalise(buffer, packet) == Lf(buffer \o packet)

\* The records that end in a blank line, and what is left after the last.  No
\* response has a third NL behind the two, so the ends do not overlap.
Split(text) ==
  LET end == InOrder({i \in 1 .. Len(text) - 1 : text[i] = NL /\ text[i + 1] = NL})
      begin(k) == IF k = 1 THEN 1 ELSE end[k - 1] + 2
  IN  [records |-> [k \in DOMAIN end |-> SubSeq(text, begin(k), end[k] - 1)],
       rest |-> SubSeq(text, begin(Len(end) + 1), Len(text))]

\* parseRecord: a record without data is no event.
IsEvent(record) == \E i \in DOMAIN record : record[i] \in Lines

EventName(record) == record[1][1]

Payload(record) == record[1][2]

-----------------------------------------------------------------------------
(* The page.                                                               *)
ServerPC == {"idle", "citations", "answering", "failed", "over"}

Server == [pc : ServerPC, grounded : BOOLEAN, crlf : BOOLEAN, sent : 0 .. MaxTokens,
           wire : Seq(Symbol), end : {"open", "closed", "broken"}]

AskPC == {"new", "sending", "refreshing", "resending", "reading", "over"}

\* buffer holds what parseSse has read, buffered the text handled, frame whether
\* a flush is due; late says that the call was stopped during a refresh.
Ask == [pc : AskPC, aborted : BOOLEAN, late : BOOLEAN, buffer : Seq(Symbol),
        buffered : Seq(0 .. MaxTokens), frame : BOOLEAN]

Turn == [answer : Seq(0 .. MaxTokens), cited : BOOLEAN, grounded : BOOLEAN,
         streaming : BOOLEAN, error : BOOLEAN]

NewAsk == [pc |-> "new", aborted |-> FALSE, late |-> FALSE, buffer |-> <<>>,
           buffered |-> <<>>, frame |-> FALSE]

NewTurn == [answer |-> <<>>, cited |-> FALSE, grounded |-> FALSE,
            streaming |-> FALSE, error |-> FALSE]

IdleServer == [pc |-> "idle", grounded |-> FALSE, crlf |-> FALSE, sent |-> 0,
               wire |-> <<>>, end |-> "open"]

Init ==
  /\ server = [a \in Asks |-> IdleServer]
  /\ ask = [a \in Asks |-> NewAsk]
  /\ turn = [a \in Asks |-> NewTurn]
  /\ streaming = FALSE
  /\ abortRef = NoAsk

\* One event of the stream, over the pair of a call and its turn.
\* Mutant: a token replaces the text handled so far.
HandleLast(both, record) ==
  LET e == EventName(record) IN
  CASE e = "citations" -> [both EXCEPT !.turn.cited = TRUE, !.turn.grounded = Payload(record) = 1]
    [] e = "token" -> [both EXCEPT !.ask.buffered = <<Payload(record)>>, !.ask.frame = TRUE]
    [] e = "error" -> [both EXCEPT !.turn.error = TRUE]
    [] OTHER -> both
Handle(both, record) ==
  LET e == EventName(record) IN
  CASE e = "citations" -> [both EXCEPT !.turn.cited = TRUE, !.turn.grounded = Payload(record) = 1]
    [] e = "token" -> [both EXCEPT !.ask.buffered = Append(@, Payload(record)), !.ask.frame = TRUE]
    [] e = "error" -> [both EXCEPT !.turn.error = TRUE]
    [] OTHER -> both

\* A record that is no event is passed over.
HandleAll(both, records) ==
  LET after[n \in 0 .. Len(records)] ==
        IF n = 0 THEN both
        ELSE IF IsEvent(records[n]) THEN Handle(after[n - 1], records[n])
        ELSE after[n - 1]
  IN  after[Len(records)]

Both(a) == [ask |-> ask[a], turn |-> turn[a]]

\* The finally block: it does not ask whose state it resets.
Finally == streaming' = FALSE /\ abortRef' = NoAsk

\* The connection is closed, and the generator with it.
Hangup(a) ==
  server' = [server EXCEPT ![a] = [IdleServer EXCEPT !.pc = "over", !.end = "broken",
                                                     !.grounded = server[a].grounded]]

\* The catch block; a frame that is due stays due.
\* Mutant: a stopped turn is not told.
ThrowsQuietly(a, next, shown) ==
  /\ Hangup(a)
  /\ ask' = [ask EXCEPT ![a] = [next EXCEPT !.pc = "over", !.buffer = <<>>]]
  /\ turn' = [turn EXCEPT ![a] = [shown EXCEPT !.streaming = shown.streaming /\ next.aborted,
                                               !.error = shown.error \/ ~next.aborted]]
  /\ Finally
Throws(a, next, shown) ==
  /\ Hangup(a)
  /\ ask' = [ask EXCEPT ![a] = [next EXCEPT !.pc = "over", !.buffer = <<>>]]
  /\ turn' = [turn EXCEPT ![a] = [shown EXCEPT !.streaming = FALSE,
                                               !.error = shown.error \/ ~next.aborted]]
  /\ Finally

\* submit: a question can be asked unless one is streaming.
\* Mutant: the guard is forgotten.
AlwaysMayAsk == TRUE
MayAsk == ~streaming

Submit(a) ==
  /\ ask[a].pc = "new"
  /\ MayAsk
  /\ ask' = [ask EXCEPT ![a].pc = "sending"]
  /\ turn' = [turn EXCEPT ![a].streaming = TRUE]
  /\ streaming' = TRUE
  /\ abortRef' = a
  /\ UNCHANGED server

\* The Stop button.  A call that waits for a refresh notices when that is over.
Stop ==
  /\ streaming
  /\ abortRef # NoAsk
  /\ LET a == abortRef IN
     IF ask[a].pc = "refreshing"
     THEN /\ ask' = [ask EXCEPT ![a].aborted = TRUE, ![a].late = TRUE]
          /\ streaming' = FALSE
          /\ abortRef' = NoAsk
          /\ UNCHANGED <<server, turn>>
     ELSE Throws(a, [ask[a] EXCEPT !.aborted = TRUE], turn[a])

\* The page shows the text handled so far.
Flush(a) ==
  /\ ask[a].frame
  /\ ask' = [ask EXCEPT ![a].frame = FALSE]
  /\ turn' = [turn EXCEPT ![a].answer = ask[a].buffered]
  /\ UNCHANGED <<server, streaming, abortRef>>

-----------------------------------------------------------------------------
(* chat.stream, with the refresh of rawRequest.                            *)
Accepted(a) ==
  /\ ask[a].pc \in {"sending", "resending"}
  /\ ask' = [ask EXCEPT ![a].pc = "reading"]
  /\ \E grounded, crlf \in BOOLEAN :
       server' = [server EXCEPT ![a] = [@ EXCEPT !.pc = "citations",
                                                 !.grounded = grounded, !.crlf = crlf]]
  /\ UNCHANGED <<turn, streaming, abortRef>>

\* An HTTP error or none at all.
Refused(a) ==
  /\ ask[a].pc \in {"sending", "resending"}
  /\ Throws(a, ask[a], turn[a])

Unauthorized(a) ==
  /\ ask[a].pc = "sending"
  /\ ask' = [ask EXCEPT ![a].pc = "refreshing"]
  /\ UNCHANGED <<server, turn, streaming, abortRef>>

\* A fetch with an aborted signal rejects; a refused refresh throws anyway.
Refreshed(a) ==
  /\ ask[a].pc = "refreshing"
  /\ \/ /\ ~ask[a].aborted
        /\ ask' = [ask EXCEPT ![a].pc = "resending"]
        /\ UNCHANGED <<server, turn, streaming, abortRef>>
     \/ Throws(a, ask[a], turn[a])

-----------------------------------------------------------------------------
(* The generator.  Nothing happens once the client is gone.                *)
Yield(a, event, data, pc) ==
  LET s == server[a] IN
  server' = [server EXCEPT ![a] =
    [s EXCEPT !.pc = pc, !.wire = s.wire \o Sse(event, data, s.crlf),
              !.end = IF pc \in {"failed", "over"} THEN "closed" ELSE s.end,
              !.sent = IF event = "token" THEN data ELSE s.sent]]

Serving(a, pc) == ask[a].pc = "reading" /\ server[a].pc = pc

\* Mutant: the sources follow the answer.
CitationsLate(a) ==
  \/ /\ Serving(a, "citations")
     /\ server' = [server EXCEPT ![a].pc = "answering"]
  \/ /\ Serving(a, "answering") /\ server[a].sent > 0
     /\ Yield(a, "citations", IF server[a].grounded THEN 1 ELSE 0, "over")
SendCitations(a) ==
  /\ Serving(a, "citations")
  /\ Yield(a, "citations", IF server[a].grounded THEN 1 ELSE 0, "answering")

\* Mutant: the refusal is repeated.
SendTokenAgain(a) ==
  /\ Serving(a, "answering")
  /\ server[a].sent < IF server[a].grounded THEN MaxTokens ELSE MaxTokens + 1
  /\ Yield(a, "token", server[a].sent + 1, "answering")
\* Without usable context the refusal is the one token.
SendToken(a) ==
  /\ Serving(a, "answering")
  /\ server[a].sent < IF server[a].grounded THEN MaxTokens ELSE 1
  /\ Yield(a, "token", server[a].sent + 1, "answering")

\* No key, a failed call, or a failure in the middle of the answer.
SendError(a) ==
  /\ Serving(a, "answering")
  /\ server[a].grounded
  /\ Yield(a, "error", 0, "failed")

\* The model decides how long the answer is.
SendDone(a) ==
  /\ Serving(a, "answering")
  /\ server[a].grounded \/ server[a].sent = 1
  /\ Yield(a, "done", IF server[a].grounded THEN 1 ELSE 0, "over")

\* The server dies or the connection is cut: what is not delivered is lost.
Cut(a) ==
  /\ ask[a].pc = "reading"
  /\ server[a].end = "open"
  /\ \E n \in 0 .. Len(server[a].wire) :
       server' = [server EXCEPT ![a] =
                    [@ EXCEPT !.pc = "over", !.end = "broken",
                              !.wire = SubSeq(server[a].wire, 1, n)]]
  /\ UNCHANGED <<ask, turn, streaming, abortRef>>

Generate(a) ==
  /\ SendCitations(a) \/ SendToken(a) \/ SendError(a) \/ SendDone(a)
  /\ UNCHANGED <<ask, turn, streaming, abortRef>>

-----------------------------------------------------------------------------
(* One read of the body: any number of bytes, and every record that they   *)
(* complete is handled before the next event of the page.                  *)
Read(a) ==
  /\ ask[a].pc = "reading"
  /\ \E n \in 1 .. Len(server[a].wire) :
       \E text \in {Normalise(ask[a].buffer, SubSeq(server[a].wire, 1, n))} :
       \E split \in {Split(text)} :
       \E after \in {HandleAll(Both(a), split.records)} :
           /\ ask' = [ask EXCEPT ![a] = [@ EXCEPT !.buffer = split.rest,
                        !.buffered = after.ask.buffered, !.frame = after.ask.frame]]
           /\ turn' = [turn EXCEPT ![a] = after.turn]
           /\ server' = [server EXCEPT ![a].wire = SubSeq(@, n + 1, Len(@))]
  /\ UNCHANGED <<streaming, abortRef>>

\* The body has ended: a last record without a blank line still counts, and the
\* text is shown whether a frame is due or not.
ReadEnd(a) ==
  /\ ask[a].pc = "reading"
  /\ server[a].wire = <<>> /\ server[a].end = "closed"
  /\ \E after \in {HandleAll(Both(a), <<ask[a].buffer>>)} :
       /\ ask' = [ask EXCEPT ![a] = [@ EXCEPT !.pc = "over", !.frame = FALSE,
                        !.buffered = after.ask.buffered, !.buffer = <<>>]]
       /\ turn' = [turn EXCEPT ![a] = [after.turn EXCEPT !.streaming = FALSE,
                                         !.answer = after.ask.buffered]]
  /\ Finally
  /\ UNCHANGED server

ReadFails(a) ==
  /\ ask[a].pc = "reading"
  /\ server[a].wire = <<>> /\ server[a].end = "broken"
  /\ Throws(a, ask[a], turn[a])

Reading(a) == Read(a) \/ ReadEnd(a) \/ ReadFails(a)

Requesting(a) == Accepted(a) \/ Refused(a) \/ Unauthorized(a) \/ Refreshed(a)

Next ==
  \/ Stop
  \/ \E a \in Asks :
       Submit(a) \/ Flush(a) \/ Requesting(a) \/ Generate(a) \/ Cut(a) \/ Reading(a)

Spec == Init /\ [][Next]_vars

\* A request is answered or fails, the generator ends or the timeout of its
\* client ends it, what was sent arrives or the read fails.
Progress(a) == Requesting(a) \/ Generate(a) \/ Reading(a)

FairSpec == Spec /\ WF_vars(\E a \in Asks : Progress(a))

-----------------------------------------------------------------------------
TypeOK ==
  /\ server \in [Asks -> Server]
  /\ ask \in [Asks -> Ask]
  /\ turn \in [Asks -> Turn]
  /\ streaming \in BOOLEAN
  /\ abortRef \in Asks \cup {NoAsk}

UpTo(n) == [i \in 1 .. n |-> i]

\* However the bytes were cut, the page shows a beginning of the answer, every
\* token once and in order.
ShowsAPrefix == \A a \in Asks : turn[a].answer = UpTo(Len(turn[a].answer))

\* A response that was received to its end is shown to its end, text and error
\* alike, whatever was still buffered.
EndIsShown ==
  \A a \in Asks :
    ask[a].pc = "over" /\ ~ask[a].aborted /\ server[a].end = "closed" =>
      /\ turn[a].answer = UpTo(server[a].sent)
      /\ turn[a].cited
      /\ turn[a].error <=> server[a].pc = "failed"

\* The sources are there before the text (chat.py:81), so the remark that no
\* matching policy text was found (Chat.tsx:142) is shown for refusals only.
RefusalNoticeIsTrue ==
  \A a \in Asks :
    ~turn[a].streaming /\ ~turn[a].error /\ ~turn[a].grounded /\ turn[a].answer # <<>> =>
      ~server[a].grounded

Active == {a \in Asks : ask[a].pc \notin {"new", "over"}}

\* "Drives one streamed answer at a time" (useChatStream.ts:18), and the buttons
\* act on that one, unless a question was stopped while its request waited for a
\* refresh.
OneUnlessLate ==
  (\A a \in Asks : ~ask[a].late) =>
    /\ Cardinality(Active) <= 1
    /\ streaming <=> Active # {}
    /\ \A a \in Active : abortRef = a

\* Every turn stops streaming, with its answer or with an error.
TurnsSettle == \A a \in Asks : turn[a].streaming ~> ~turn[a].streaming
=============================================================================
