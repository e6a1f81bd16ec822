--------------------------- MODULE ChatStreamProofs ---------------------------
(* One answer at a time, and what a stream shows, for any number of         *)
(* questions and answers of any length.                                     *)
EXTENDS ChatStream, DataTheorems

-----------------------------------------------------------------------------
(* streaming and abortRef are shared by all calls of ask, and each call     *)
(* resets them when it ends.  That is harmless as long as the call that     *)
(* ends is the one they speak of.                                           *)

\* The fields of a call.  What its buffers hold does not matter here.
Fields == {"pc", "aborted", "late", "buffer", "buffered", "frame"}

IsCall(c) == c = [f \in Fields |-> c[f]]

Shape ==
  /\ ask = [a \in Asks |-> ask[a]]
  /\ \A a \in Asks :
       /\ IsCall(ask[a])
       /\ ask[a].pc \in AskPC
       /\ ask[a].late \in BOOLEAN

SharedTyped == streaming \in BOOLEAN /\ abortRef \in Asks \cup {NoAsk}

\* As long as no call was stopped during a refresh, only the call that Stop would
\* abort is active, and it is when streaming says so.
One ==
  (\A a \in Asks : ~ask[a].late) =>
    /\ \A a \in Active : abortRef = a
    /\ streaming <=> Active # {}

ChatInv == Shape /\ SharedTyped /\ One

LEMMA InitChatInv == Init => ChatInv
<1> SUFFICES ASSUME Init PROVE ChatInv
  OBVIOUS
<1>1. Shape
  BY DEF Init, Shape, IsCall, Fields, NewAsk, AskPC
<1>2. Active = {} /\ streaming = FALSE /\ abortRef = NoAsk
  BY DEF Init, Active, NewAsk
<1> QED BY <1>1, <1>2 DEF ChatInv, SharedTyped, One

\* What the invariant says of ask a step may change in one place.
LEMMA Replaced ==
  ASSUME Shape, NEW a \in Asks, NEW x, ask' = [ask EXCEPT ![a] = x],
         IsCall(x), x.pc \in AskPC, x.late \in BOOLEAN
  PROVE  /\ Shape'
         /\ ask'[a] = x
         /\ \A b \in Asks : b # a => ask'[b] = ask[b]
<1>1. ask'[a] = x /\ \A b \in Asks : b # a => ask'[b] = ask[b]
  BY DEF Shape
<1>2. ask' = [b \in Asks |-> ask'[b]]
  BY DEF Shape
<1>3. ASSUME NEW b \in Asks
      PROVE  /\ IsCall(ask'[b])
             /\ ask'[b].pc \in AskPC
             /\ ask'[b].late \in BOOLEAN
  BY <1>1, <1>3 DEF Shape
<1> QED BY <1>1, <1>2, <1>3 DEF Shape

\* A call that goes on, or a step that is not about how far it got.
LEMMA GoesOn ==
  ASSUME ChatInv, NEW a \in Asks, NEW x, ask' = [ask EXCEPT ![a] = x],
         IsCall(x), x.pc \in AskPC, x.late = ask[a].late,
         x.pc \in {"new", "over"} <=> ask[a].pc \in {"new", "over"},
         UNCHANGED <<streaming, abortRef>>
  PROVE  ChatInv'
<1>1. /\ Shape' /\ ask'[a] = x
      /\ \A b \in Asks : b # a => ask'[b] = ask[b]
  BY Replaced DEF ChatInv, Shape
<1>2. \A b \in Asks : ask'[b].late = ask[b].late
  BY <1>1
<1>3. Active' = Active
  BY <1>1 DEF Active
<1> QED BY <1>1, <1>2, <1>3 DEF ChatInv, SharedTyped, One

\* An active call that ends, and resets what it shares.
LEMMA Ends ==
  ASSUME ChatInv, NEW a \in Active, NEW x, ask' = [ask EXCEPT ![a] = x],
         IsCall(x), x.pc = "over", x.late = ask[a].late, Finally
  PROVE  ChatInv'
<1>1. a \in Asks
  BY DEF Active
<1>2. /\ Shape' /\ ask'[a] = x
      /\ \A b \in Asks : b # a => ask'[b] = ask[b]
  BY <1>1, Replaced DEF ChatInv, Shape, AskPC
<1>3. \A b \in Asks : ask'[b].late = ask[b].late
  BY <1>2
<1>4. Active' = Active \ {a}
  BY <1>1, <1>2 DEF Active
<1>5. SharedTyped'
  BY DEF Finally, SharedTyped
<1>6. One'
  <2> SUFFICES ASSUME \A b \in Asks : ~ask[b].late PROVE Active' = {} /\ streaming' = FALSE
    BY <1>3, <1>4 DEF One
  <2>1. \A b \in Active : abortRef = b
    BY DEF ChatInv, One
  <2> QED BY <1>4, <2>1 DEF Finally
<1> QED BY <1>2, <1>5, <1>6 DEF ChatInv

\* A call that throws, whatever it shows.
LEMMA ThrowsEnds ==
  ASSUME ChatInv, NEW a \in Active, NEW next, NEW shown, Throws(a, next, shown),
         IsCall(next),
         next.late = ask[a].late
  PROVE  ChatInv'
<1> DEFINE x == [next EXCEPT !.pc = "over", !.buffer = <<>>]
<1>1. /\ IsCall(x)
      /\ x.pc = "over" /\ x.late = ask[a].late
  BY DEF IsCall, Fields
<1>2. ask' = [ask EXCEPT ![a] = x] /\ Finally
  BY DEF Throws
<1> HIDE DEF x
<1> QED BY <1>1, <1>2, Ends

LEMMA NextChatInv == ChatInv /\ [Next]_vars => ChatInv'
<1> SUFFICES ASSUME ChatInv, [Next]_vars PROVE ChatInv'
  OBVIOUS
<1>0. \A a \in Asks :
        /\ IsCall(ask[a])
        /\ ask[a].pc \in AskPC
        /\ ask[a].late \in BOOLEAN
  BY DEF ChatInv, Shape
<1>1. ASSUME NEW a \in Asks, Submit(a) PROVE ChatInv'
  <2> DEFINE x == [ask[a] EXCEPT !.pc = "sending"]
  <2>1. /\ IsCall(x)
        /\ x.pc = "sending" /\ x.late = ask[a].late
    BY <1>0 DEF IsCall, Fields
  <2>2. ask' = [ask EXCEPT ![a] = x]
    BY <1>1 DEF Submit
  <2> HIDE DEF x
  <2>3. /\ Shape' /\ ask'[a] = x
        /\ \A b \in Asks : b # a => ask'[b] = ask[b]
    BY <1>0, <2>1, <2>2, Replaced DEF ChatInv, AskPC
  <2>4. Active' = Active \cup {a}
    BY <2>1, <2>3 DEF Active
  <2>5. ~streaming /\ streaming' = TRUE /\ abortRef' = a
    BY <1>1 DEF Submit, MayAsk
  <2>6. One'
    <3> SUFFICES ASSUME \A b \in Asks : ~ask'[b].late PROVE Active' = {a}
      BY <2>5 DEF One
    <3>1. \A b \in Asks : ~ask[b].late
      BY <2>1, <2>3
    <3> QED BY <2>4, <2>5, <3>1 DEF ChatInv, One
  <2> QED BY <2>3, <2>5, <2>6 DEF ChatInv, SharedTyped
<1>2. CASE Stop
  <2> DEFINE a == abortRef
  <2>1. a \in Asks /\ streaming
    BY <1>2 DEF Stop, ChatInv, SharedTyped
  <2>2. CASE ask[a].pc = "refreshing"
    <3> DEFINE x == [ask[a] EXCEPT !.aborted = TRUE, !.late = TRUE]
    <3>1. /\ IsCall(x)
          /\ x.pc \in AskPC /\ x.late = TRUE
      BY <1>0, <2>1 DEF IsCall, Fields
    <3>2. ask' = [ask EXCEPT ![a] = x]
      BY <1>2, <2>1, <2>2 DEF Stop, ChatInv, Shape
    <3>3. SharedTyped'
      BY <1>2, <2>2 DEF Stop, SharedTyped
    <3> HIDE DEF x, a
    <3>4. Shape' /\ ask'[a] = x
      BY <2>1, <3>1, <3>2, Replaced DEF ChatInv
    <3>5. One'
      BY <2>1, <3>1, <3>4 DEF One
    <3> QED BY <3>3, <3>4, <3>5 DEF ChatInv
  <2>3. CASE ask[a].pc # "refreshing"
    <3> DEFINE next == [ask[a] EXCEPT !.aborted = TRUE]
    <3>1. Throws(a, next, turn[a])
      BY <1>2, <2>3 DEF Stop
    <3>2. /\ IsCall(next)
          /\ next.late = ask[a].late
      BY <1>0, <2>1 DEF IsCall, Fields
    <3>3. CASE a \in Active
      <4> HIDE DEF a, next
      <4> QED BY <3>1, <3>2, <3>3, ThrowsEnds
    <3>4. CASE a \notin Active
      <4> DEFINE x == [next EXCEPT !.pc = "over", !.buffer = <<>>]
      <4>1. /\ IsCall(x)
            /\ x.pc = "over" /\ x.late = ask[a].late
        BY <3>2 DEF IsCall, Fields
      <4>2. ask' = [ask EXCEPT ![a] = x] /\ Finally
        BY <3>1 DEF Throws
      <4> HIDE DEF x, next
      <4>3. /\ Shape' /\ ask'[a] = x
            /\ \A b \in Asks : b # a => ask'[b] = ask[b]
        BY <1>0, <2>1, <4>1, <4>2, Replaced DEF ChatInv, AskPC
      <4>4. Active' = Active
        BY <2>1, <3>4, <4>1, <4>3 DEF Active
      <4>5. One'
        <5> SUFFICES ASSUME \A b \in Asks : ~ask'[b].late PROVE FALSE
          BY DEF One
        <5>1. \A b \in Asks : ~ask[b].late
          BY <4>1, <4>3
        <5>2. \E b \in Active : abortRef = b
          BY <2>1, <5>1 DEF ChatInv, One
        <5> QED BY <3>4, <5>2
      <4> QED BY <4>2, <4>3, <4>5 DEF ChatInv, SharedTyped, Finally
    <3> QED BY <3>3, <3>4
  <2> QED BY <2>2, <2>3
<1>3. ASSUME NEW a \in Asks, Flush(a) PROVE ChatInv'
  <2> DEFINE x == [ask[a] EXCEPT !.frame = FALSE]
  <2>1. ask' = [ask EXCEPT ![a] = x] /\ UNCHANGED <<streaming, abortRef>>
    BY <1>3 DEF Flush
  <2>2. /\ IsCall(x)
        /\ x.pc = ask[a].pc /\ x.late = ask[a].late
    BY <1>0 DEF IsCall, Fields
  <2> HIDE DEF x
  <2> QED BY <1>0, <2>1, <2>2, GoesOn
<1>4. ASSUME NEW a \in Asks, NEW pc \in {"reading", "refreshing", "resending"},
             ask[a].pc \in {"sending", "resending", "refreshing"},
             ask' = [ask EXCEPT ![a].pc = pc], UNCHANGED <<streaming, abortRef>>
      PROVE  ChatInv'
  <2> DEFINE x == [ask[a] EXCEPT !.pc = pc]
  <2>1. ask' = [ask EXCEPT ![a] = x] /\ UNCHANGED <<streaming, abortRef>>
    BY <1>4
  <2>2. /\ IsCall(x)
        /\ x.pc = pc /\ x.late = ask[a].late
    BY <1>0 DEF IsCall, Fields
  <2> HIDE DEF x
  <2>3. x.pc \in AskPC /\ (x.pc \in {"new", "over"} <=> ask[a].pc \in {"new", "over"})
    BY <1>4, <2>2 DEF AskPC
  <2> QED BY <2>1, <2>2, <2>3, GoesOn
<1>5. ASSUME NEW a \in Active, Throws(a, ask[a], turn[a]) PROVE ChatInv'
  BY <1>0, <1>5, ThrowsEnds DEF Active
<1>6. ASSUME NEW a \in Asks, Requesting(a) PROVE ChatInv'
  <2>1. CASE Accepted(a)
    BY <1>4, <2>1 DEF Accepted
  <2>2. CASE Refused(a)
    BY <1>5, <2>2 DEF Refused, Active
  <2>3. CASE Unauthorized(a)
    BY <1>4, <2>3 DEF Unauthorized
  <2>4. CASE Refreshed(a)
    BY <1>4, <1>5, <2>4 DEF Refreshed, Active
  <2> QED BY <1>6, <2>1, <2>2, <2>3, <2>4 DEF Requesting
<1>7. ASSUME UNCHANGED <<ask, streaming, abortRef>> PROVE ChatInv'
  BY <1>7 DEF ChatInv, Shape, SharedTyped, One, Active
<1>8. ASSUME NEW a \in Asks, Generate(a) \/ Cut(a) PROVE ChatInv'
  BY <1>7, <1>8 DEF Generate, Cut
<1>9. ASSUME NEW a \in Asks, Read(a) PROVE ChatInv'
  <2>1. PICK split, after :
          ask' = [ask EXCEPT ![a] = [@ EXCEPT !.buffer = split.rest,
                    !.buffered = after.ask.buffered, !.frame = after.ask.frame]]
    BY <1>9 DEF Read
  <2> DEFINE x == [ask[a] EXCEPT !.buffer = split.rest,
                     !.buffered = after.ask.buffered, !.frame = after.ask.frame]
  <2>2. ask' = [ask EXCEPT ![a] = x] /\ UNCHANGED <<streaming, abortRef>>
    BY <1>9, <2>1 DEF Read
  <2>3. /\ IsCall(x)
        /\ x.pc = ask[a].pc /\ x.late = ask[a].late
    BY <1>0 DEF IsCall, Fields
  <2> HIDE DEF x
  <2> QED BY <1>0, <2>2, <2>3, GoesOn
<1>10. ASSUME NEW a \in Asks, ReadEnd(a) PROVE ChatInv'
  <2>1. PICK buffered :
          ask' = [ask EXCEPT ![a] = [@ EXCEPT !.pc = "over", !.frame = FALSE,
                    !.buffered = buffered, !.buffer = <<>>]]
    BY <1>10 DEF ReadEnd
  <2> DEFINE x == [ask[a] EXCEPT !.pc = "over", !.frame = FALSE,
                     !.buffered = buffered, !.buffer = <<>>]
  <2>2. ask' = [ask EXCEPT ![a] = x] /\ Finally /\ a \in Active
    BY <1>10, <2>1 DEF ReadEnd, Active
  <2>3. /\ IsCall(x)
        /\ x.pc = "over" /\ x.late = ask[a].late
    BY <1>0 DEF IsCall, Fields
  <2> HIDE DEF x
  <2> QED BY <2>2, <2>3, Ends
<1>11. ASSUME NEW a \in Asks, ReadFails(a) PROVE ChatInv'
  BY <1>5, <1>11 DEF ReadFails, Active
<1>12. CASE UNCHANGED vars
  BY <1>7, <1>12 DEF vars
<1> QED BY <1>1, <1>2, <1>3, <1>6, <1>8, <1>9, <1>10, <1>11, <1>12 DEF Next, Reading

\* "Drives one streamed answer at a time" (useChatStream.ts:18), for any number of
\* questions: unless one was stopped while its request waited for a refresh, at
\* most one is active, and Stop aborts that one.
THEOREM OneAtATime == Spec => []OneUnlessLate
<1>1. ChatInv => OneUnlessLate
  <2> SUFFICES ASSUME ChatInv, \A a \in Asks : ~ask[a].late
               PROVE  /\ Cardinality(Active) <= 1
                      /\ streaming <=> Active # {}
                      /\ \A a \in Active : abortRef = a
    BY DEF OneUnlessLate
  <2>1. (\A a \in Active : abortRef = a) /\ (streaming <=> Active # {})
    BY DEF ChatInv, One
  <2>2. Active = {} \/ Active = {abortRef}
    BY <2>1
  <2>3. Cardinality(Active) <= 1
    <3>1. CASE Active = {}
      BY <3>1, FS_EmptySet
    <3>2. CASE Active = {abortRef}
      <4>1. Cardinality({abortRef}) = 1
        BY FS_Singleton
      <4> QED BY <3>2, <4>1
    <3> QED BY <2>2, <3>1, <3>2
  <2> QED BY <2>1, <2>3
<1>2. Spec => []ChatInv
  BY InitChatInv, NextChatInv, PTL DEF Spec
<1> QED BY <1>1, <1>2, PTL

-----------------------------------------------------------------------------
(* Every CR NL becomes NL (parseSse), one symbol after the other.          *)

\* The line ends are no lines of a record.
LEMMA Symbols ==
  /\ NL \in Symbol /\ CR \in Symbol /\ NL # CR
  /\ \A line \in Lines : line \in Symbol /\ line # NL /\ line # CR
<1>1. NL # CR
  BY DEF NL, CR
<1>2. ASSUME NEW line \in Lines  PROVE line # NL /\ line # CR
  <2>1. PICK e \in Events, d \in 0 .. MaxTokens : line = <<e, d>>
    BY DEF Lines
  <2>2. e # "NL" /\ e # "CR"
    BY DEF Events
  <2> QED BY <2>1, <2>2 DEF NL, CR
<1> QED BY <1>1, <1>2 DEF Symbol

\* Where a text keeps its symbols when its CR NL become NL.
Stays(text) == {i \in DOMAIN text : text[i] # CR \/ i = Len(text) \/ text[i + 1] # NL}

\* What normalisation returns: the symbols that stay, in order.
LEMMA LfIs ==
  ASSUME NEW text \in Seq(Symbol)
  PROVE  /\ Stays(text) \in SUBSET (1 .. Len(text))
         /\ Lf(text) = At(text, Stays(text))
         /\ Lf(text) \in Seq(Symbol)
<1>1. DOMAIN text = 1 .. Len(text)
  BY LenProperties
<1>2. Stays(text) \in SUBSET (1 .. Len(text))
  BY <1>1 DEF Stays
<1>3. Lf(text) = At(text, Stays(text))
  BY DEF Lf, Stays
<1>4. At(text, Stays(text)) \in Seq(Symbol)
  BY <1>2, AtIsSeq
<1> QED BY <1>2, <1>3, <1>4

\* Nothing stays nothing.
LEMMA LfOfNothing == Lf(<<>>) = <<>>
<1>1. <<>> \in Seq(Symbol) /\ Len(<<>>) = 0
  BY EmptySeq
<1>2. PICK text \in Seq(Symbol) : text = <<>>
  BY <1>1
<1>3. /\ Stays(text) \in SUBSET (1 .. Len(text)) /\ Lf(text) = At(text, Stays(text))
      /\ Lf(text) \in Seq(Symbol)
  BY LfIs
<1>4. Stays(text) = {}
  BY <1>1, <1>2, <1>3
<1>5. Len(At(text, {})) = 0
  <2>1. {} \in SUBSET (1 .. Len(text)) /\ Cardinality({}) = 0
    BY FS_EmptySet
  <2> QED BY <2>1, AtIsSeq
<1>6. Len(Lf(text)) = 0
  BY <1>3, <1>4, <1>5
<1> QED BY <1>2, <1>3, <1>6, EmptySeq

\* Which symbols stay when one more arrives: the one that was last is decided only
\* now.
LEMMA StaysGrows ==
  ASSUME NEW text \in Seq(Symbol), NEW x \in Symbol
  PROVE  Stays(Append(text, x)) =
           {i \in Stays(text) : ~(i = Len(text) /\ text[i] = CR /\ x = NL)} \cup {Len(text) + 1}
<1> DEFINE n == Len(text)
           more == Append(text, x)
<1>1. /\ n \in Nat /\ DOMAIN text = 1 .. n /\ DOMAIN more = 1 .. n + 1 /\ Len(more) = n + 1
      /\ \A i \in 1 .. n : more[i] = text[i]
      /\ more[n + 1] = x
  BY LenProperties, AppendProperties
<1>2. \A i : i \in Stays(text) <=> i \in 1 .. n /\ (text[i] # CR \/ i = n \/ text[i + 1] # NL)
  BY <1>1 DEF Stays
<1>3. \A i : i \in Stays(more) <=>
              i \in 1 .. n + 1 /\ (more[i] # CR \/ i = n + 1 \/ more[i + 1] # NL)
  BY <1>1 DEF Stays
<1> HIDE DEF n, more
<1>4. ASSUME NEW i
      PROVE  i \in Stays(more) <=>
               i \in {j \in Stays(text) : ~(j = n /\ text[j] = CR /\ x = NL)} \cup {n + 1}
  <2>1. CASE i \in 1 .. n
    <3>1. i \in 1 .. n + 1 /\ i # n + 1 /\ more[i] = text[i]
      BY <1>1, <2>1
    <3>2. CASE i = n
      BY <1>1, <1>2, <1>3, <2>1, <3>1, <3>2
    <3>3. CASE i # n
      <4>1. i + 1 \in 1 .. n
        BY <1>1, <2>1, <3>3
      <4>2. more[i + 1] = text[i + 1]
        BY <1>1, <4>1
      <4> QED BY <1>2, <1>3, <2>1, <3>1, <3>3, <4>2
    <3> QED BY <3>2, <3>3
  <2>2. CASE i = n + 1
    <3>1. i \in 1 .. n + 1
      BY <1>1, <2>2
    <3> QED BY <1>3, <2>2, <3>1
  <2>3. CASE i \notin 1 .. n /\ i # n + 1
    <3>1. i \notin 1 .. n + 1
      BY <1>1, <2>3
    <3> QED BY <1>2, <1>3, <2>3, <3>1
  <2> QED BY <2>1, <2>2, <2>3
<1> QED BY <1>4 DEF n, more

\* Normalisation symbol by symbol: one that completes a CR NL takes the place of the CR.
LEMMA LfGrows ==
  ASSUME NEW text \in Seq(Symbol), NEW x \in Symbol,
         ~(text # <<>> /\ text[Len(text)] = CR /\ x = NL)
  PROVE  Lf(Append(text, x)) = Append(Lf(text), x)
<1> DEFINE S == Stays(text)
           n == Len(text)
<1>0. n \in Nat /\ (n # 0 => text # <<>>)
  BY LenProperties, EmptySeq
<1>1. S \in SUBSET (1 .. Len(text)) /\ Lf(text) = At(text, S)
  BY LfIs
<1>2. Stays(Append(text, x)) = S \cup {Len(text) + 1}
  <2>1. \A i \in S : i = n => n # 0
    BY <1>1
  <2>2. \A i \in S : ~(i = Len(text) /\ text[i] = CR /\ x = NL)
    BY <1>0, <2>1
  <2>3. {i \in S : ~(i = Len(text) /\ text[i] = CR /\ x = NL)} = S
    BY <2>2
  <2> QED BY <2>3, StaysGrows
<1>3. PICK more \in Seq(Symbol) : more = Append(text, x)
  BY AppendProperties
<1>4. Lf(more) = At(more, Stays(more))
  BY LfIs
<1> HIDE DEF S, n
<1>5. At(Append(text, x), S \cup {Len(text) + 1}) = Append(At(text, S), x)
  BY <1>1, AtGrows
<1> QED BY <1>1, <1>2, <1>3, <1>4, <1>5

\* The text that ends in a CR and the one that ends in the NL it became.
LEMMA LfReplaces ==
  ASSUME NEW text \in Seq(Symbol), text # <<>>, text[Len(text)] = CR
  PROVE  \E front \in Seq(Symbol) :
           Lf(text) = Append(front, CR) /\ Lf(Append(text, NL)) = Append(front, NL)
<1>0. Len(text) \in Nat /\ CR \in Symbol /\ NL \in Symbol /\ CR # NL
  BY Symbols, LenProperties
<1>1. PICK q \in Seq(Symbol) : text = Append(q, CR)
  <2>1. PICK q \in Seq(Symbol), y \in Symbol : text = Append(q, y)
    BY SequenceEmptyOrAppend
  <2>2. y = text[Len(text)]
    BY <2>1, AppendProperties
  <2> QED BY <2>1, <2>2
<1>2. Len(q) \in Nat /\ Len(text) = Len(q) + 1
  BY <1>0, <1>1, LenProperties, AppendProperties
<1> DEFINE S == Stays(text) \ {Len(text)}
<1>3. /\ Stays(text) \in SUBSET (1 .. Len(text)) /\ Lf(text) = At(text, Stays(text))
      /\ Len(text) \in Stays(text)
  <2>1. Len(text) \in DOMAIN text
    BY <1>2, LenProperties
  <2> QED BY <2>1, LfIs DEF Stays
<1>4. S \in SUBSET (1 .. Len(q)) /\ S \in SUBSET (1 .. Len(text))
  <2>1. \A i \in S : i \in 1 .. Len(text) /\ i # Len(text)
    BY <1>3
  <2>2. \A i \in S : i \in 1 .. Len(q)
    BY <1>2, <2>1
  <2> QED BY <1>3, <2>2
<1>5. Stays(text) = S \cup {Len(q) + 1}
  BY <1>2, <1>3
<1>6. Stays(Append(text, NL)) = S \cup {Len(text) + 1}
  <2>1. Stays(Append(text, NL)) =
          {i \in Stays(text) : ~(i = Len(text) /\ text[i] = CR /\ NL = NL)} \cup {Len(text) + 1}
    BY <1>0, StaysGrows
  <2>2. {i \in Stays(text) : ~(i = Len(text) /\ text[i] = CR /\ NL = NL)} = S
    OBVIOUS
  <2> QED BY <2>1, <2>2
<1> HIDE DEF S
<1>7. At(text, S) = At(q, S) /\ Lf(text) = Append(At(q, S), CR)
  <2>1. PICK x \in Symbol : x = CR
    BY <1>0
  <2>2. /\ At(Append(q, x), S) = At(q, S)
        /\ At(Append(q, x), S \cup {Len(q) + 1}) = Append(At(q, S), x)
    <3>1. S \in SUBSET (1 .. Len(q))
      BY <1>4
    <3> QED BY <3>1, AtGrows
  <2> QED BY <1>1, <1>3, <1>5, <2>1, <2>2
<1>8. Lf(Append(text, NL)) = Append(At(q, S), NL)
  <2>1. PICK more \in Seq(Symbol) : more = Append(text, NL)
    BY <1>0, AppendProperties
  <2>2. Lf(more) = At(more, Stays(more))
    BY LfIs
  <2>3. PICK x \in Symbol : x = NL
    BY <1>0
  <2>4. PICK t \in Seq(Symbol) : t = text
    OBVIOUS
  <2>5. /\ At(Append(t, x), S) = At(t, S)
        /\ At(Append(t, x), S \cup {Len(t) + 1}) = Append(At(t, S), x)
    <3>1. S \in SUBSET (1 .. Len(t))
      BY <1>4, <2>4
    <3> QED BY <3>1, AtGrows, Zenon
  <2> QED BY <1>6, <1>7, <2>1, <2>2, <2>3, <2>4, <2>5
<1>9. At(q, S) \in Seq(Symbol)
  BY <1>4, AtIsSeq
<1> QED BY <1>7, <1>8, <1>9

\* The last symbol stays.
LEMMA LfLast ==
  ASSUME NEW text \in Seq(Symbol)
  PROVE  /\ Lf(text) \in Seq(Symbol)
         /\ text = <<>> <=> Lf(text) = <<>>
         /\ text # <<>> => text[Len(text)] = Lf(text)[Len(Lf(text))]
<1>1. Lf(text) \in Seq(Symbol)
  BY LfIs
<1>2. CASE text = <<>>
  BY <1>2, LfOfNothing
<1>3. CASE text # <<>>
  <2>1. PICK q \in Seq(Symbol), y \in Symbol : text = Append(q, y)
    BY <1>3, SequenceEmptyOrAppend
  <2>2. PICK front \in Seq(Symbol) : Lf(text) = Append(front, y)
    <3>1. CASE q # <<>> /\ q[Len(q)] = CR /\ y = NL
      BY <2>1, <3>1, LfReplaces
    <3>2. CASE ~(q # <<>> /\ q[Len(q)] = CR /\ y = NL)
      <4>1. Lf(text) = Append(Lf(q), y)
        BY <2>1, <3>2, LfGrows
      <4> QED BY <4>1, LfIs
    <3> QED BY <3>1, <3>2
  <2>3. /\ text[Len(text)] = y /\ Lf(text)[Len(Lf(text))] = y
    <3>1. \A s \in Seq(Symbol) : Append(s, y)[Len(Append(s, y))] = y
      BY AppendProperties
    <3> QED BY <2>1, <2>2, <3>1
  <2>4. Lf(text) # <<>>
    BY <2>2, AppendProperties, EmptySeq
  <2> QED BY <1>1, <1>3, <2>3, <2>4
<1> QED BY <1>2, <1>3

-----------------------------------------------------------------------------
(* The records of a text, and how one symbol more changes them.            *)

\* The places before the second half of a blank line, in order, and where the record
\* after so many of them begins.
Blank(text) == {i \in 1 .. Len(text) - 1 : text[i] = NL /\ text[i + 1] = NL}

Cuts(text) == InOrder(Blank(text))

From(text, k) == IF k = 1 THEN 1 ELSE Cuts(text)[k - 1] + 2

Records(text) == [k \in 1 .. Cardinality(Blank(text)) |->
                   SubSeq(text, From(text, k), Cuts(text)[k] - 1)]

Rest(text) == SubSeq(text, From(text, Cardinality(Blank(text)) + 1), Len(text))

\* What Split returns, in the terms above.
LEMMA SplitIs ==
  ASSUME NEW text \in Seq(Symbol)
  PROVE  /\ Split(text) = [records |-> Records(text), rest |-> Rest(text)]
         /\ Cardinality(Blank(text)) \in Nat
         /\ Blank(text) \in SUBSET Nat
         /\ IsFiniteSet(Blank(text))
         /\ Cuts(text) \in [1 .. Cardinality(Blank(text)) -> Blank(text)]
<1> DEFINE c == Cardinality(Blank(text))
<1>1. Len(text) \in Nat
  BY LenProperties
<1>2. Blank(text) \in SUBSET Nat /\ IsFiniteSet(Blank(text))
  <2>1. \A i \in 1 .. Len(text) - 1 : i \in Nat
    BY <1>1
  <2>2. IsFiniteSet(1 .. Len(text) - 1)
    <3>1. 1 \in Int /\ Len(text) - 1 \in Int
      BY <1>1
    <3> QED BY <3>1, FS_Interval
  <2> QED BY <2>1, <2>2, FS_Subset DEF Blank
<1>3. c \in Nat /\ Cuts(text) \in [1 .. c -> Blank(text)]
  BY <1>2, InOrderLists DEF Cuts
<1>4. DOMAIN Cuts(text) = 1 .. c /\ Len(Cuts(text)) = c
  <2>1. DOMAIN Cuts(text) = 1 .. c
    BY <1>3
  <2>2. Cuts(text) \in Seq(Blank(text))
    BY <1>3
  <2> QED BY <1>3, <2>1, <2>2, LenProperties
<1>5. Split(text) = [records |-> [k \in DOMAIN Cuts(text) |->
                                   SubSeq(text, From(text, k), Cuts(text)[k] - 1)],
                     rest |-> SubSeq(text, From(text, Len(Cuts(text)) + 1), Len(text))]
  BY DEF Split, Cuts, Blank, From
<1> QED BY <1>2, <1>3, <1>4, <1>5 DEF Records, Rest

\* A record begins in the text, or right behind it.
LEMMA FromIs ==
  ASSUME NEW text \in Seq(Symbol), NEW k \in 1 .. Cardinality(Blank(text)) + 1
  PROVE  /\ From(text, k) \in Nat \ {0}
         /\ From(text, k) <= Len(text) + 1
<1>1. /\ Cardinality(Blank(text)) \in Nat /\ Len(text) \in Nat
      /\ \A j \in 1 .. Cardinality(Blank(text)) :
           Cuts(text)[j] \in Nat /\ Cuts(text)[j] \in 1 .. Len(text) - 1
  BY SplitIs, LenProperties DEF Blank
<1>2. CASE k = 1
  BY <1>1, <1>2 DEF From
<1>3. CASE k # 1
  <2>1. k - 1 \in 1 .. Cardinality(Blank(text))
    BY <1>1, <1>3
  <2>2. Cuts(text)[k - 1] \in 1 .. Len(text) - 1
    BY <1>1, <2>1
  <2> QED BY <1>1, <1>3, <2>2 DEF From
<1> QED BY <1>2, <1>3

\* What is left over is the end of the text.
LEMMA RestEnds ==
  ASSUME NEW text \in Seq(Symbol)
  PROVE  /\ Rest(text) \in Seq(Symbol)
         /\ Rest(text) # <<>> =>
              text # <<>> /\ text[Len(text)] = Rest(text)[Len(Rest(text))]
<1> DEFINE b == From(text, Cardinality(Blank(text)) + 1)
<1>1. /\ Len(text) \in Nat /\ b \in Nat \ {0} /\ b <= Len(text) + 1
      /\ \A i \in 1 .. Len(text) : text[i] \in Symbol
  <2>1. Cardinality(Blank(text)) + 1 \in 1 .. Cardinality(Blank(text)) + 1
    BY SplitIs
  <2> QED BY <2>1, FromIs, LenProperties, ElementOfSeq
<1>2. Rest(text) = SubSeq(text, b, Len(text))
  BY DEF Rest
<1> HIDE DEF b
<1>3. \A i \in b .. Len(text) : text[i] \in Symbol
  BY <1>1
<1>4. /\ Rest(text) \in Seq(Symbol)
      /\ Len(Rest(text)) = IF b <= Len(text) THEN Len(text) - b + 1 ELSE 0
      /\ \A i \in 1 .. Len(text) - b + 1 : Rest(text)[i] = text[b + i - 1]
  BY <1>1, <1>2, <1>3, SubSeqProperties
<1>5. ASSUME Rest(text) # <<>>
      PROVE  text # <<>> /\ text[Len(text)] = Rest(text)[Len(Rest(text))]
  <2>1. Len(Rest(text)) # 0
    BY <1>4, <1>5, EmptySeq
  <2>2. b <= Len(text) /\ Len(Rest(text)) = Len(text) - b + 1
    BY <1>1, <1>4, <2>1
  <2>3. b + (Len(text) - b + 1) - 1 = Len(text) /\ Len(text) - b + 1 \in 1 .. Len(text) - b + 1
    BY <1>1, <2>2
  <2>4. Len(text) # 0
    BY <1>1, <2>2
  <2> QED BY <1>4, <2>2, <2>3, <2>4, EmptySeq
<1> QED BY <1>4, <1>5

\* A symbol more ends a blank line or does not.
LEMMA BlankGrows ==
  ASSUME NEW text \in Seq(Symbol), NEW x \in Symbol
  PROVE  Blank(Append(text, x)) =
           Blank(text) \cup
             (IF text # <<>> /\ text[Len(text)] = NL /\ x = NL THEN {Len(text)} ELSE {})
<1> DEFINE n == Len(text)
           more == Append(text, x)
<1>1. /\ n \in Nat /\ Len(more) = n + 1
      /\ \A i \in 1 .. n : more[i] = text[i]
      /\ more[n + 1] = x /\ (text # <<>> <=> n # 0)
  BY LenProperties, AppendProperties, EmptySeq
<1>2. /\ Blank(text) = {i \in 1 .. n - 1 : text[i] = NL /\ text[i + 1] = NL}
      /\ Blank(more) = {i \in 1 .. n : more[i] = NL /\ more[i + 1] = NL}
  <2>1. n + 1 - 1 = n
    BY <1>1
  <2> QED BY <1>1, <2>1 DEF Blank
<1> HIDE DEF n, more
<1>3. ASSUME NEW i
      PROVE  i \in Blank(more) <=>
               i \in Blank(text) \/ (i = n /\ n # 0 /\ text[n] = NL /\ x = NL)
  <2>1. CASE i \in 1 .. n - 1
    <3>1. i \in 1 .. n /\ i + 1 \in 1 .. n /\ i # n
      BY <1>1, <2>1
    <3> QED BY <1>1, <1>2, <2>1, <3>1
  <2>2. CASE i = n /\ n # 0
    <3>1. n \in 1 .. n /\ n \notin 1 .. n - 1
      BY <1>1, <2>2
    <3> QED BY <1>1, <1>2, <2>2, <3>1
  <2>3. CASE i \notin 1 .. n - 1 /\ ~(i = n /\ n # 0)
    <3>1. i \notin 1 .. n
      BY <1>1, <2>3
    <3> QED BY <1>2, <2>3, <3>1
  <2> QED BY <2>1, <2>2, <2>3
<1> QED BY <1>1, <1>3 DEF n, more

\* A symbol that ends no blank line is left over.
LEMMA SplitKeeps ==
  ASSUME NEW text \in Seq(Symbol), NEW x \in Symbol,
         ~(text # <<>> /\ text[Len(text)] = NL /\ x = NL)
  PROVE  Split(Append(text, x)) =
           [records |-> Split(text).records, rest |-> Append(Split(text).rest, x)]
<1>1. PICK more \in Seq(Symbol) : more = Append(text, x)
  BY AppendProperties
<1>2. Blank(more) = Blank(text)
  BY <1>1, BlankGrows
<1>3. Cuts(more) = Cuts(text)
  BY <1>2 DEF Cuts
<1>4. \A k : From(more, k) = From(text, k)
  BY <1>3 DEF From
<1> DEFINE c == Cardinality(Blank(text))
           b == From(text, c + 1)
<1>5. /\ c \in Nat /\ Len(text) \in Nat /\ Len(more) = Len(text) + 1
      /\ \A k \in 1 .. c : Cuts(text)[k] \in Nat /\ Cuts(text)[k] <= Len(text) - 1
  <2>1. Len(text) \in Nat /\ Len(more) = Len(text) + 1
    BY <1>1, LenProperties, AppendProperties
  <2>2. \A k \in 1 .. c : Cuts(text)[k] \in 1 .. Len(text) - 1
    BY SplitIs DEF Blank
  <2> QED BY <2>1, <2>2, SplitIs
<1>6. Records(more) = Records(text)
  <2>1. ASSUME NEW k \in 1 .. c
        PROVE  SubSeq(more, From(text, k), Cuts(text)[k] - 1)
                 = SubSeq(text, From(text, k), Cuts(text)[k] - 1)
    <3>1. k \in 1 .. c + 1
      BY <1>5
    <3>2. PICK m \in Nat \ {0} : m = From(text, k)
      BY <3>1, FromIs
    <3>3. PICK n \in Int : n = Cuts(text)[k] - 1 /\ n <= Len(text)
      BY <1>5
    <3>4. SubSeq(Append(text, x), m, n) = SubSeq(text, m, n)
      BY <3>3, SubSeqOfAppend
    <3> QED BY <1>1, <3>2, <3>3, <3>4
  <2> QED BY <1>2, <1>3, <1>4, <2>1 DEF Records
<1>7. Rest(more) = Append(Rest(text), x)
  <2>1. b \in Nat \ {0} /\ b <= Len(text) + 1
    <3>1. c + 1 \in 1 .. c + 1
      BY <1>5
    <3> QED BY <3>1, FromIs
  <2>2. Rest(text) = SubSeq(text, b, Len(text)) /\ Rest(more) = SubSeq(more, b, Len(text) + 1)
    BY <1>2, <1>4, <1>5 DEF Rest
  <2>3. SubSeq(Append(text, x), b, Len(text)) = SubSeq(text, b, Len(text))
    <3> HIDE DEF b
    <3>1. Len(text) \in Int /\ Len(text) <= Len(text)
      BY <1>5
    <3> QED BY <2>1, <3>1, SubSeqOfAppend
  <2>4. Rest(text) \in Seq(Symbol)
    BY RestEnds
  <2> HIDE DEF b
  <2>5. b \in 1 .. Len(more) /\ Len(text) + 1 \in b .. Len(more)
    BY <1>5, <2>1
  <2>6. SubSeq(more, b, Len(text) + 1) = SubSeq(more, b, (Len(text) + 1) - 1) \o << more[Len(text) + 1] >>
    BY <2>5, SubSeqRecursiveSecond
  <2>7. (Len(text) + 1) - 1 = Len(text) /\ more[Len(text) + 1] = x
    BY <1>1, <1>5, AppendProperties
  <2>8. Append(Rest(text), x) = Rest(text) \o <<x>>
    BY <2>4, AppendIsConcat
  <2> QED BY <1>1, <2>2, <2>3, <2>6, <2>7, <2>8
<1>8. /\ Split(text) = [records |-> Records(text), rest |-> Rest(text)]
      /\ Split(more) = [records |-> Records(more), rest |-> Rest(more)]
  BY SplitIs
<1> QED BY <1>1, <1>6, <1>7, <1>8

\* One that ends a blank line makes a record of what was left over.
LEMMA SplitCuts ==
  ASSUME NEW text \in Seq(Symbol), NEW left \in Seq(Symbol), Split(text).rest = Append(left, NL)
  PROVE  /\ Split(text).records \in Seq(Seq(Symbol))
         /\ Split(Append(text, NL)) =
              [records |-> Append(Split(text).records, left), rest |-> <<>>]
<1> DEFINE c == Cardinality(Blank(text))
           n == Len(text)
           b == From(text, c + 1)
<1>0. NL \in Symbol
  BY Symbols
<1>1. PICK more \in Seq(Symbol) : more = Append(text, NL)
  BY <1>0, AppendProperties
<1>2. Split(text) = [records |-> Records(text), rest |-> Rest(text)] /\ Rest(text) = Append(left, NL)
  BY SplitIs
<1>3. /\ c \in Nat /\ n \in Nat /\ Len(more) = n + 1
      /\ \A k \in 1 .. c : Cuts(text)[k] \in Nat /\ Cuts(text)[k] <= n - 1
  <2>1. n \in Nat /\ Len(more) = n + 1
    BY <1>0, <1>1, LenProperties, AppendProperties
  <2>2. \A k \in 1 .. c : Cuts(text)[k] \in 1 .. n - 1
    BY SplitIs DEF Blank
  <2> QED BY <2>1, <2>2, SplitIs
<1>4. b \in Nat \ {0} /\ b <= n + 1
  <2>1. c + 1 \in 1 .. c + 1
    BY <1>3
  <2> QED BY <2>1, FromIs
<1>5. /\ Len(left) \in Nat /\ Len(Append(left, NL)) = Len(left) + 1
      /\ \A i \in 1 .. Len(left) : Append(left, NL)[i] = left[i]
      /\ Append(left, NL)[Len(left) + 1] = NL
      /\ Append(left, NL) # <<>>
  BY <1>0, LenProperties, AppendProperties
<1>6. text # <<>> /\ text[n] = NL
  BY <1>2, <1>5, RestEnds
<1>7. Blank(more) = Blank(text) \cup {n}
  BY <1>0, <1>1, <1>6, BlankGrows
<1>8. /\ Cardinality(Blank(more)) = c + 1
      /\ Cuts(more) = [k \in 1 .. c + 1 |-> IF k = c + 1 THEN n ELSE Cuts(text)[k]]
  <2>1. \A m \in Blank(text) : m < n
    BY <1>3 DEF Blank
  <2>2. Blank(text) \in SUBSET Nat /\ IsFiniteSet(Blank(text))
    BY SplitIs
  <2>3. /\ Cardinality(Blank(text) \cup {n}) = c + 1
        /\ InOrder(Blank(text) \cup {n}) =
             [k \in 1 .. c + 1 |-> IF k = c + 1 THEN n ELSE InOrder(Blank(text))[k]]
    BY <1>3, <2>1, <2>2, InOrderGrows
  <2> QED BY <1>7, <2>3 DEF Cuts
<1>9. /\ From(more, c + 2) = n + 2
      /\ \A k \in 1 .. c + 1 : From(more, k) = From(text, k)
  <2>1. \A k \in 1 .. c : Cuts(more)[k] = Cuts(text)[k]
    BY <1>3, <1>8
  <2>2. Cuts(more)[c + 1] = n
    BY <1>3, <1>8
  <2>3. From(more, c + 2) = n + 2
    <3>1. c + 2 # 1 /\ (c + 2) - 1 = c + 1
      BY <1>3
    <3> QED BY <2>2, <3>1 DEF From
  <2>4. ASSUME NEW k \in 1 .. c + 1  PROVE From(more, k) = From(text, k)
    <3>1. k # 1 => k - 1 \in 1 .. c
      BY <1>3
    <3> QED BY <2>1, <3>1 DEF From
  <2> QED BY <2>3, <2>4
<1>10. Rest(more) = <<>>
  <2>1. Rest(more) = SubSeq(more, n + 2, n + 1)
    <3>1. (c + 1) + 1 = c + 2
      BY <1>3
    <3> QED BY <1>3, <1>8, <1>9, <3>1 DEF Rest
  <2>2. n + 2 \in Int /\ n + 1 \in Int /\ n + 1 < n + 2
    BY <1>3
  <2> QED BY <2>1, <2>2, SubSeqEmpty
<1>11. /\ Records(text) \in [1 .. c -> Seq(Symbol)]
       /\ \A k \in 1 .. c : /\ From(text, k) \in Nat \ {0}
                            /\ Records(text)[k] = SubSeq(text, From(text, k), Cuts(text)[k] - 1)
                            /\ SubSeq(more, From(text, k), Cuts(text)[k] - 1) = Records(text)[k]
  <2>1. ASSUME NEW k \in 1 .. c
        PROVE  /\ From(text, k) \in Nat \ {0}
               /\ SubSeq(text, From(text, k), Cuts(text)[k] - 1) \in Seq(Symbol)
               /\ SubSeq(more, From(text, k), Cuts(text)[k] - 1)
                    = SubSeq(text, From(text, k), Cuts(text)[k] - 1)
    <3>1. k \in 1 .. c + 1
      BY <1>3
    <3>2. PICK m \in Nat \ {0} : m = From(text, k)
      BY <3>1, FromIs
    <3>3. PICK j \in Int : j = Cuts(text)[k] - 1 /\ j <= n
      BY <1>3
    <3>4. SubSeq(Append(text, NL), m, j) = SubSeq(text, m, j)
      BY <1>0, <3>3, SubSeqOfAppend
    <3>5. SubSeq(text, m, j) \in Seq(Symbol)
      <4>1. \A i \in m .. j : i \in 1 .. n
        BY <1>3, <3>3
      <4>2. \A i \in m .. j : text[i] \in Symbol
        BY <4>1, ElementOfSeq
      <4>3. m \in Int
        OBVIOUS
      <4> QED BY <4>2, <4>3, SubSeqProperties
    <3> QED BY <1>1, <3>2, <3>3, <3>4, <3>5
  <2>2. Records(text) = [k \in 1 .. c |-> SubSeq(text, From(text, k), Cuts(text)[k] - 1)]
    BY DEF Records
  <2> QED BY <2>1, <2>2
<1>12. SubSeq(more, b, n - 1) = left
  <2> HIDE DEF b, c, n
  <2>1. /\ Rest(text) = SubSeq(text, b, n)
    BY DEF Rest, b, n, c
  <2>2. \A i \in b .. n : text[i] \in Symbol
    <3>1. \A i \in b .. n : i \in 1 .. n
      BY <1>3, <1>4
    <3> QED BY <3>1, ElementOfSeq DEF n
  <2>3. /\ Len(Rest(text)) = IF b <= n THEN n - b + 1 ELSE 0
        /\ \A i \in 1 .. n - b + 1 : Rest(text)[i] = text[b + i - 1]
    BY <1>3, <1>4, <2>1, <2>2, SubSeqProperties
  <2>4. b <= n /\ Len(left) = n - b
    <3>1. Len(left) \in Nat /\ Len(Rest(text)) = Len(left) + 1
      BY <1>2, <1>5
    <3>2. b \in Nat /\ n \in Nat
      BY <1>3, <1>4
    <3>3. b <= n
      BY <2>3, <3>1, <3>2
    <3>4. Len(Rest(text)) = n - b + 1
      BY <2>3, <3>3
    <3>5. Len(left) + 1 = n - b + 1
      BY <3>1, <3>4
    <3>6. \A i \in Nat : i + 1 = n - b + 1 => i = n - b
      BY <3>2
    <3> QED BY <3>1, <3>3, <3>5, <3>6
  <2>5. SubSeq(Append(text, NL), b, n - 1) = SubSeq(text, b, n - 1)
    <3>1. n - 1 \in Int /\ n - 1 <= Len(text)
      BY <1>3 DEF n
    <3> QED BY <1>0, <1>4, <3>1, SubSeqOfAppend
  <2>6. /\ SubSeq(text, b, n - 1) \in Seq(Symbol)
        /\ Len(SubSeq(text, b, n - 1)) = IF b <= n - 1 THEN (n - 1) - b + 1 ELSE 0
        /\ \A i \in 1 .. (n - 1) - b + 1 : SubSeq(text, b, n - 1)[i] = text[b + i - 1]
    <3>1. n - 1 \in Int /\ b \in Int
      BY <1>3, <1>4
    <3>2. \A i \in b .. n - 1 : i \in b .. n
      BY <1>3, <1>4
    <3>3. PICK m \in Int : m = n - 1
      BY <3>1
    <3>4. \A i \in b .. m : text[i] \in Symbol
      BY <2>2, <3>2, <3>3
    <3>5. /\ SubSeq(text, b, m) \in Seq(Symbol)
          /\ Len(SubSeq(text, b, m)) = IF b <= m THEN m - b + 1 ELSE 0
          /\ \A i \in 1 .. m - b + 1 : SubSeq(text, b, m)[i] = text[b + i - 1]
      BY <3>1, <3>4, SubSeqProperties
    <3> QED BY <3>3, <3>5
  <2>7. Len(SubSeq(text, b, n - 1)) = Len(left)
    BY <1>3, <1>4, <2>4, <2>6
  <2>8. ASSUME NEW i \in 1 .. Len(left)  PROVE left[i] = SubSeq(text, b, n - 1)[i]
    <3>1. i \in 1 .. n - b + 1 /\ i \in 1 .. (n - 1) - b + 1
      BY <1>3, <1>4, <2>4
    <3> QED BY <1>2, <1>5, <2>3, <2>6, <3>1
  <2>9. left = SubSeq(text, b, n - 1)
    BY <2>6, <2>7, <2>8, SeqEqual
  <2> QED BY <1>1, <2>5, <2>9
<1>13. Records(more) = [k \in 1 .. c + 1 |-> IF k = c + 1 THEN left ELSE Records(text)[k]]
  <2>1. Records(more) = [k \in 1 .. c + 1 |-> SubSeq(more, From(more, k), Cuts(more)[k] - 1)]
    BY <1>8 DEF Records
  <2>2. ASSUME NEW k \in 1 .. c + 1
        PROVE  SubSeq(more, From(more, k), Cuts(more)[k] - 1)
                 = IF k = c + 1 THEN left ELSE Records(text)[k]
    <3>1. CASE k = c + 1
      BY <1>8, <1>9, <1>12, <3>1
    <3>2. CASE k # c + 1
      <4>1. k \in 1 .. c
        BY <1>3, <3>2
      <4> QED BY <1>8, <1>9, <1>11, <3>2, <4>1
    <3> QED BY <3>1, <3>2
  <2> QED BY <2>1, <2>2
<1>14. /\ Records(text) \in Seq(Seq(Symbol)) /\ Records(more) = Append(Records(text), left)
  <2> HIDE DEF c
  <2>1. Records(text) \in Seq(Seq(Symbol)) /\ Len(Records(text)) = c
    <3>1. Records(text) \in Seq(Seq(Symbol))
      BY <1>3, <1>11
    <3> QED BY <1>3, <1>11, <3>1, LenProperties
  <2>2. Records(more) \in Seq(Seq(Symbol)) /\ Len(Records(more)) = c + 1
    <3>1. Records(more) \in [1 .. c + 1 -> Seq(Symbol)]
      <4>1. \A k \in 1 .. c + 1 : k # c + 1 => Records(text)[k] \in Seq(Symbol)
        BY <1>3, <1>11
      <4> QED BY <1>13, <4>1
    <3>2. Records(more) \in Seq(Seq(Symbol))
      BY <1>3, <3>1
    <3> QED BY <1>3, <3>1, <3>2, LenProperties
  <2>3. /\ Append(Records(text), left) \in Seq(Seq(Symbol))
        /\ Len(Append(Records(text), left)) = c + 1
        /\ \A i \in 1 .. c : Append(Records(text), left)[i] = Records(text)[i]
        /\ Append(Records(text), left)[c + 1] = left
    BY <2>1, AppendProperties
  <2>4. ASSUME NEW k \in 1 .. c + 1  PROVE Records(more)[k] = Append(Records(text), left)[k]
    <3>1. k # c + 1 => k \in 1 .. c
      BY <1>3
    <3> QED BY <1>13, <2>3, <3>1
  <2> QED BY <2>1, <2>2, <2>3, <2>4, SeqEqual
<1>15. Split(more) = [records |-> Records(more), rest |-> Rest(more)]
  BY SplitIs
<1> QED BY <1>1, <1>2, <1>10, <1>14, <1>15

-----------------------------------------------------------------------------
(* The parser as a machine that reads one symbol: what it has made of the  *)
(* bytes so far decides what it makes of the next.                         *)

\* What the parser has made of the bytes it was given.
Parsed(text, records, rest) ==
  /\ text \in Seq(Symbol)
  /\ Split(Lf(text)) = [records |-> records, rest |-> rest]

\* The last symbol that is left over is the last of what was given.
LEMMA ParsedEnds ==
  ASSUME NEW text, NEW records, NEW rest, Parsed(text, records, rest)
  PROVE  /\ text \in Seq(Symbol) /\ Lf(text) \in Seq(Symbol) /\ rest \in Seq(Symbol)
         /\ rest # <<>> =>
              /\ text # <<>> /\ text[Len(text)] = rest[Len(rest)]
              /\ Lf(text) # <<>> /\ Lf(text)[Len(Lf(text))] = rest[Len(rest)]
<1>1. text \in Seq(Symbol) /\ Split(Lf(text)).rest = rest
  BY DEF Parsed
<1>2. PICK lf \in Seq(Symbol) : lf = Lf(text)
  BY <1>1, LfIs
<1>3. Rest(lf) = rest
  BY <1>1, <1>2, SplitIs
<1>4. rest \in Seq(Symbol) /\ (rest # <<>> => lf # <<>> /\ lf[Len(lf)] = rest[Len(rest)])
  BY <1>3, RestEnds
<1>5. text # <<>> <=> lf # <<>>
  BY <1>1, <1>2, LfLast
<1>6. text # <<>> => text[Len(text)] = lf[Len(lf)]
  BY <1>1, <1>2, LfLast
<1> QED BY <1>1, <1>2, <1>4, <1>5, <1>6

\* Of nothing the parser makes nothing.
LEMMA ParsesNothing == Parsed(<<>>, <<>>, <<>>)
<1>1. PICK text \in Seq(Symbol) : text = <<>> /\ Len(text) = 0
  BY EmptySeq
<1>2. Blank(text) = {}
  BY <1>1 DEF Blank
<1>3. Cardinality(Blank(text)) = 0
  BY <1>2, FS_EmptySet
<1>4. Records(text) = <<>>
  BY <1>3 DEF Records
<1>5. Rest(text) = <<>>
  <2>1. Rest(text) = SubSeq(text, 1, 0)
    BY <1>1, <1>3 DEF Rest, From
  <2> QED BY <2>1, SubSeqEmpty
<1>6. Split(text) = [records |-> Records(text), rest |-> Rest(text)]
  BY SplitIs
<1> QED BY <1>1, <1>4, <1>5, <1>6, LfOfNothing DEF Parsed

\* A symbol is appended at the end.
LEMMA Appended ==
  ASSUME NEW left \in Seq(Symbol), NEW x \in Symbol
  PROVE  /\ Append(left, x) \in Seq(Symbol) /\ Append(left, x) # <<>>
         /\ Append(left, x)[Len(Append(left, x))] = x
BY LenProperties, AppendProperties

\* A symbol that completes neither a CR NL nor a blank line.
LEMMA ParsesOn ==
  ASSUME NEW text, NEW records, NEW rest, Parsed(text, records, rest), NEW x \in Symbol,
         x = NL => rest # <<>> /\ rest[Len(rest)] # NL /\ rest[Len(rest)] # CR
  PROVE  Parsed(Append(text, x), records, Append(rest, x))
<1>1. /\ text \in Seq(Symbol) /\ Lf(text) \in Seq(Symbol)
      /\ x = NL => /\ text # <<>> /\ text[Len(text)] # CR
                   /\ Lf(text) # <<>> /\ Lf(text)[Len(Lf(text))] # NL
  BY ParsedEnds
<1>2. Lf(Append(text, x)) = Append(Lf(text), x)
  BY <1>1, LfGrows
<1>3. PICK lf \in Seq(Symbol) : lf = Lf(text)
  BY <1>1
<1>4. Split(Append(lf, x)) = [records |-> Split(lf).records, rest |-> Append(Split(lf).rest, x)]
  BY <1>1, <1>3, SplitKeeps
<1>5. Split(lf) = [records |-> records, rest |-> rest]
  BY <1>3 DEF Parsed
<1>6. Append(text, x) \in Seq(Symbol)
  BY <1>1, AppendProperties
<1> QED BY <1>2, <1>3, <1>4, <1>5, <1>6 DEF Parsed

\* The NL of a CR NL: the parser knows what it would have known of an NL alone.
LEMMA ParsesCRNL ==
  ASSUME NEW text, NEW records, NEW left \in Seq(Symbol), Parsed(text, records, Append(left, CR))
  PROVE  \E front \in Seq(Symbol) :
           /\ Lf(Append(text, NL)) = Append(front, NL)
           /\ Split(front) = [records |-> records, rest |-> left]
<1>0. NL \in Symbol /\ CR \in Symbol /\ CR # NL
  BY Symbols
<1>1. Append(left, CR) # <<>> /\ Append(left, CR)[Len(Append(left, CR))] = CR
  BY <1>0, Appended
<1>2. text \in Seq(Symbol) /\ text # <<>> /\ text[Len(text)] = CR
  BY <1>1, ParsedEnds
<1>3. PICK front \in Seq(Symbol) :
        Lf(text) = Append(front, CR) /\ Lf(Append(text, NL)) = Append(front, NL)
  BY <1>2, LfReplaces
<1>4. Split(Append(front, CR)) =
        [records |-> Split(front).records, rest |-> Append(Split(front).rest, CR)]
  <2>1. PICK x \in Symbol : x = CR /\ x # NL
    BY <1>0
  <2> QED BY <2>1, SplitKeeps
<1>5. Split(Append(front, CR)) = [records |-> records, rest |-> Append(left, CR)]
  BY <1>3 DEF Parsed
<1>6. Split(front) = [records |-> Records(front), rest |-> Rest(front)] /\ Rest(front) \in Seq(Symbol)
  BY SplitIs, RestEnds
<1>7. Records(front) = records /\ Append(Rest(front), CR) = Append(left, CR)
  <2>1. /\ Split(Append(front, CR)).records = Records(front)
        /\ Split(Append(front, CR)).rest = Append(Rest(front), CR)
    BY <1>4, <1>6
  <2>2. /\ Split(Append(front, CR)).records = records
        /\ Split(Append(front, CR)).rest = Append(left, CR)
    BY <1>5
  <2> QED BY <2>1, <2>2
<1>8. Rest(front) = left
  BY <1>0, <1>6, <1>7, AppendInjective
<1> QED BY <1>3, <1>6, <1>7, <1>8

\* The NL of a CR NL that ends a line: one NL is kept for both.
LEMMA ParsesLineEnd ==
  ASSUME NEW text, NEW records, NEW left \in Seq(Symbol), Parsed(text, records, Append(left, CR)),
         left # <<>>, left[Len(left)] # NL
  PROVE  Parsed(Append(text, NL), records, Append(left, NL))
<1>0. NL \in Symbol /\ text \in Seq(Symbol)
  BY Symbols DEF Parsed
<1>1. PICK front \in Seq(Symbol) : /\ Lf(Append(text, NL)) = Append(front, NL)
                                   /\ Split(front) = [records |-> records, rest |-> left]
  BY ParsesCRNL
<1>2. Rest(front) = left
  BY <1>1, SplitIs
<1>3. front[Len(front)] # NL
  BY <1>2, RestEnds
<1>4. Split(Append(front, NL)) = [records |-> Split(front).records, rest |-> Append(Split(front).rest, NL)]
  BY <1>0, <1>3, SplitKeeps
<1> QED BY <1>0, <1>1, <1>4, AppendProperties DEF Parsed

\* The NL that ends a blank line.
LEMMA ParsesBlankLine ==
  ASSUME NEW text, NEW records, NEW left \in Seq(Symbol),
         \/ Parsed(text, records, Append(left, NL))
         \/ Parsed(text, records, Append(Append(left, NL), CR))
  PROVE  records \in Seq(Seq(Symbol)) /\ Parsed(Append(text, NL), Append(records, left), <<>>)
<1>0. NL \in Symbol /\ CR \in Symbol /\ CR # NL /\ text \in Seq(Symbol)
  BY Symbols DEF Parsed
<1>1. \E front \in Seq(Symbol) : /\ Lf(Append(text, NL)) = Append(front, NL)
                                 /\ Split(front) = [records |-> records, rest |-> Append(left, NL)]
  <2>1. CASE Parsed(text, records, Append(left, NL))
    <3>1. Append(left, NL) # <<>> /\ Append(left, NL)[Len(Append(left, NL))] = NL
      BY <1>0, Appended
    <3>2. text[Len(text)] # CR /\ Lf(text) \in Seq(Symbol)
      BY <1>0, <2>1, <3>1, ParsedEnds
    <3>3. Lf(Append(text, NL)) = Append(Lf(text), NL)
      BY <1>0, <3>2, LfGrows
    <3> QED BY <2>1, <3>2, <3>3 DEF Parsed
  <2>2. CASE Parsed(text, records, Append(Append(left, NL), CR))
    <3>1. Append(left, NL) \in Seq(Symbol)
      BY <1>0, Appended
    <3> QED BY <2>2, <3>1, ParsesCRNL
  <2> QED BY <2>1, <2>2
<1>2. PICK front \in Seq(Symbol) :
        /\ Lf(Append(text, NL)) = Append(front, NL)
        /\ Split(front) = [records |-> records, rest |-> Append(left, NL)]
  BY <1>1
<1>3. /\ Split(front).records \in Seq(Seq(Symbol))
      /\ Split(Append(front, NL)) = [records |-> Append(Split(front).records, left), rest |-> <<>>]
  <2>1. Split(front).rest = Append(left, NL)
    BY <1>2
  <2> QED BY <2>1, SplitCuts
<1>4. Split(front).records = records
  BY <1>2
<1> QED BY <1>0, <1>2, <1>3, <1>4, AppendProperties DEF Parsed

-----------------------------------------------------------------------------
(* A record as it arrives.                                                 *)

\* How many symbols the record of a line has, and which.
Width(crlf) == IF crlf THEN 5 ELSE 3

Byte(line, crlf, j) == IF j = 1 THEN line ELSE IF crlf /\ j \in {2, 4} THEN CR ELSE NL

\* What the parser keeps of its first symbols.
Partial(line, crlf, o) ==
  CASE o = 0 -> <<>>
    [] o = 1 -> Append(<<>>, line)
    [] o = 2 /\ crlf -> Append(Append(<<>>, line), CR)
    [] o = 4 -> Append(Append(Append(<<>>, line), NL), CR)
    [] OTHER -> Append(Append(<<>>, line), NL)

\* Where the pieces of a record begin and end.
LEMMA PartialIs ==
  ASSUME NEW line, NEW crlf \in BOOLEAN
  PROVE  /\ Partial(line, crlf, 0) = <<>>
         /\ Partial(line, crlf, 1) = Append(<<>>, line)
         /\ crlf => Partial(line, crlf, 2) = Append(Append(<<>>, line), CR)
         /\ ~crlf => Partial(line, crlf, 2) = Append(Append(<<>>, line), NL)
         /\ Partial(line, crlf, 3) = Append(Append(<<>>, line), NL)
         /\ Partial(line, crlf, 4) = Append(Append(Append(<<>>, line), NL), CR)
BY DEF Partial

\* One symbol more.
LEMMA ParsesByte ==
  ASSUME NEW text, NEW records, NEW line \in Lines, NEW crlf \in BOOLEAN,
         NEW o \in 0 .. Width(crlf) - 1, Parsed(text, records, Partial(line, crlf, o))
  PROVE  LET more == Append(text, Byte(line, crlf, o + 1))
         IN  /\ o + 1 < Width(crlf) => Parsed(more, records, Partial(line, crlf, o + 1))
             /\ o + 1 = Width(crlf) =>
                  /\ records \in Seq(Seq(Symbol))
                  /\ Parsed(more, Append(records, Append(<<>>, line)), <<>>)
<1> DEFINE one == Append(<<>>, line)
           two == Append(one, NL)
<1>0. /\ NL \in Symbol /\ CR \in Symbol /\ NL # CR
      /\ line \in Symbol /\ line # NL /\ line # CR /\ <<>> \in Seq(Symbol)
  BY Symbols, EmptySeq
<1>1. /\ one \in Seq(Symbol) /\ one # <<>> /\ one[Len(one)] = line
  BY <1>0, Appended
<1>2. two \in Seq(Symbol) /\ two # <<>> /\ two[Len(two)] = NL
  <2> HIDE DEF one
  <2> QED BY <1>0, <1>1, Appended
<1>3. /\ Partial(line, crlf, 0) = <<>> /\ Partial(line, crlf, 1) = one
      /\ crlf => Partial(line, crlf, 2) = Append(one, CR)
      /\ ~crlf => Partial(line, crlf, 2) = two
      /\ Partial(line, crlf, 3) = two
      /\ Partial(line, crlf, 4) = Append(two, CR)
  BY PartialIs
<1> HIDE DEF one, two
<1>4. CASE o = 0
  <2>1. Byte(line, crlf, o + 1) = line /\ o + 1 < Width(crlf) /\ o + 1 # Width(crlf)
    BY <1>4 DEF Byte, Width
  <2>2. Parsed(Append(text, line), records, Append(<<>>, line))
    BY <1>0, <1>3, <1>4, ParsesOn
  <2>3. Partial(line, crlf, o + 1) = Append(<<>>, line)
    BY <1>3, <1>4 DEF one
  <2> QED BY <2>1, <2>2, <2>3
<1>5. CASE o = 1
  <2>1. PICK x \in Symbol : x = (IF crlf THEN CR ELSE NL)
    BY <1>0
  <2>2. Byte(line, crlf, o + 1) = x /\ o + 1 < Width(crlf) /\ o + 1 # Width(crlf)
    BY <1>5, <2>1 DEF Byte, Width
  <2>3. Parsed(Append(text, x), records, Append(one, x))
    BY <1>0, <1>1, <1>3, <1>5, ParsesOn
  <2>4. Partial(line, crlf, o + 1) = Append(one, x)
    <3>1. o + 1 = 2
      BY <1>5
    <3> QED BY <1>3, <2>1, <3>1 DEF two
  <2> QED BY <2>2, <2>3, <2>4
<1>6. CASE o = 2 /\ crlf
  <2>1. Byte(line, crlf, o + 1) = NL /\ o + 1 < Width(crlf) /\ o + 1 # Width(crlf)
    BY <1>6 DEF Byte, Width
  <2>2. Parsed(Append(text, NL), records, Append(one, NL))
    BY <1>0, <1>1, <1>3, <1>6, ParsesLineEnd
  <2>3. Partial(line, crlf, o + 1) = Append(one, NL)
    <3>1. o + 1 = 3
      BY <1>6
    <3> QED BY <1>3, <3>1 DEF two
  <2> QED BY <2>1, <2>2, <2>3
<1>7. CASE o = 3 /\ crlf
  <2>1. Byte(line, crlf, o + 1) = CR /\ o + 1 < Width(crlf) /\ o + 1 # Width(crlf)
    BY <1>7 DEF Byte, Width
  <2>2. Parsed(Append(text, CR), records, Append(two, CR))
    BY <1>0, <1>2, <1>3, <1>7, ParsesOn
  <2>3. Partial(line, crlf, o + 1) = Append(two, CR)
    <3>1. o + 1 = 4
      BY <1>7
    <3> QED BY <1>3, <3>1
  <2> QED BY <2>1, <2>2, <2>3
<1>8. CASE (o = 4 /\ crlf) \/ (o = 2 /\ ~crlf)
  <2>1. Byte(line, crlf, o + 1) = NL /\ o + 1 = Width(crlf)
    BY <1>8 DEF Byte, Width
  <2>2. Parsed(text, records, Append(one, NL)) \/ Parsed(text, records, Append(Append(one, NL), CR))
    BY <1>3, <1>8 DEF two
  <2>3. records \in Seq(Seq(Symbol)) /\ Parsed(Append(text, NL), Append(records, one), <<>>)
    BY <1>1, <2>2, ParsesBlankLine
  <2> QED BY <2>1, <2>3 DEF one
<1>9. o \in {0, 1, 2, 3, 4} /\ (~crlf => o \in {0, 1, 2})
  BY DEF Width
<1> QED BY <1>4, <1>5, <1>6, <1>7, <1>8, <1>9

\* What was kept is parsed again.
LEMMA ParsesPartial ==
  ASSUME NEW line \in Lines, NEW crlf \in BOOLEAN, NEW o \in 0 .. Width(crlf) - 1
  PROVE  Parsed(Partial(line, crlf, o), <<>>, Partial(line, crlf, o))
<1> DEFINE one == Append(<<>>, line)
           two == Append(one, NL)
<1>0. /\ NL \in Symbol /\ CR \in Symbol /\ NL # CR
      /\ line \in Symbol /\ line # NL /\ line # CR /\ <<>> \in Seq(Symbol)
  BY Symbols, EmptySeq
<1>1. Parsed(one, <<>>, one)
  BY <1>0, ParsesNothing, ParsesOn
<1>2. one # <<>> /\ one[Len(one)] = line
  BY <1>0, Appended
<1>3. Parsed(two, <<>>, two)
  <2> HIDE DEF one
  <2> QED BY <1>0, <1>1, <1>2, ParsesOn
<1>4. Parsed(Append(one, CR), <<>>, Append(one, CR)) /\ Parsed(Append(two, CR), <<>>, Append(two, CR))
  <2> HIDE DEF one, two
  <2> QED BY <1>0, <1>1, <1>3, ParsesOn
<1>5. o \in {0, 1, 2, 3, 4} /\ (~crlf => o \in {0, 1, 2})
  BY DEF Width
<1>6. \/ o = 0 /\ Partial(line, crlf, o) = <<>>
      \/ Partial(line, crlf, o) = one
      \/ Partial(line, crlf, o) = Append(one, CR)
      \/ Partial(line, crlf, o) = two
      \/ Partial(line, crlf, o) = Append(two, CR)
  BY <1>5, PartialIs
<1> HIDE DEF one, two
<1> QED BY <1>1, <1>3, <1>4, <1>6, ParsesNothing

-----------------------------------------------------------------------------
(* A response is a list of lines, and its bytes are those of its lines, one*)
(* record after the other, all of the same width.                          *)

\* The lines of a response, one to a record: the sources, the answer token by token,
\* and how it ended.
LineAt(s, i) ==
  IF i = 1 THEN <<"citations", IF s.grounded THEN 1 ELSE 0>>
  ELSE IF i - 1 <= s.sent THEN <<"token", i - 1>>
  ELSE IF s.pc = "failed" THEN <<"error", 0>>
  ELSE <<"done", IF s.grounded THEN 1 ELSE 0>>

\* Every line of a response is one a record can carry.
LEMMA LineAtIsLine ==
  ASSUME NEW s \in Server, NEW i \in Nat \ {0}
  PROVE  LineAt(s, i) \in Lines
<1>1. MaxTokens \in Nat \ {0} /\ s.sent \in 0 .. MaxTokens /\ s.grounded \in BOOLEAN
  BY ChatAssumption DEF Server
<1>2. 0 \in 0 .. MaxTokens /\ 1 \in 0 .. MaxTokens
  BY <1>1
<1>3. \A d \in 0 .. MaxTokens :
        /\ <<"citations", d>> \in Lines /\ <<"token", d>> \in Lines
        /\ <<"error", d>> \in Lines /\ <<"done", d>> \in Lines
  BY DEF Lines, Events
<1>4. i - 1 <= s.sent => i - 1 \in 0 .. MaxTokens
  BY <1>1
<1>5. LineAt(s, i) \in {<<"citations", 0>>, <<"citations", 1>>, <<"error", 0>>,
                        <<"done", 0>>, <<"done", 1>>}
      \/ (i - 1 <= s.sent /\ LineAt(s, i) = <<"token", i - 1>>)
  BY DEF LineAt
<1> QED BY <1>2, <1>3, <1>4, <1>5

\* Places in a stream of records of equal width.
LEMMA Widths ==
  ASSUME NEW crlf \in BOOLEAN
  PROVE  LET w == Width(crlf) IN
         /\ w \in Nat \ {0}
         /\ \A i \in Nat : w * i \in Nat /\ w * (i + 1) = w * i + w
         /\ \A i, m \in Nat, j \in 0 .. w - 1, d \in 1 .. w :
              w * i + j + 1 = w * m + d => i = m /\ j + 1 = d
         /\ \A i, m \in Nat, j \in 0 .. w - 1 : w * i + j + 1 <= w * m => i + 1 <= m
         /\ \A i, m \in Nat, j \in 0 .. w - 1 : w * i + j = w * m => i = m /\ j = 0
         /\ \A i, m \in Nat, j \in 0 .. w - 1 :
              w * i + j <= w * m => i <= m /\ (j # 0 => i + 1 <= m)
<1>1. CASE crlf
  BY <1>1 DEF Width
<1>2. CASE ~crlf
  BY <1>2 DEF Width
<1> QED BY <1>1, <1>2

\* The bytes under way are those of the lines of s, from the place where c lines and
\* o symbols of the next were read.
Carries(s, c, o) ==
  \A k \in 1 .. Len(s.wire) : \A i \in Nat, j \in 0 .. Width(s.crlf) - 1 :
    Width(s.crlf) * i + j + 1 = Width(s.crlf) * c + o + k =>
      s.wire[k] = Byte(LineAt(s, i + 1), s.crlf, j + 1)

\* The records of the lines c + 1 to d.
Told(s, c, d) == [k \in 1 .. d - c |-> Append(<<>>, LineAt(s, c + k))]

\* One line more is one record more.
LEMMA ToldGrows ==
  ASSUME NEW s, NEW c \in Nat, NEW d \in Nat, c <= d, Told(s, c, d) \in Seq(Seq(Symbol)),
         Append(<<>>, LineAt(s, d + 1)) \in Seq(Symbol)
  PROVE  Append(Told(s, c, d), Append(<<>>, LineAt(s, d + 1))) = Told(s, c, d + 1)
<1> DEFINE x == Append(<<>>, LineAt(s, d + 1))
           R == Told(s, c, d)
           T == Told(s, c, d + 1)
<1>1. PICK n \in Nat : n = d - c
  OBVIOUS
<1>2. /\ R = [k \in 1 .. n |-> Append(<<>>, LineAt(s, c + k))]
      /\ T = [k \in 1 .. n + 1 |-> Append(<<>>, LineAt(s, c + k))]
  <2>1. d + 1 - c = n + 1
    BY <1>1
  <2> QED BY <1>1, <2>1 DEF Told
<1>3. Len(R) = n
  BY <1>1, <1>2, LenProperties
<1>4. /\ Append(R, x) \in Seq(Seq(Symbol)) /\ Len(Append(R, x)) = n + 1
      /\ \A k \in 1 .. n : Append(R, x)[k] = R[k]
      /\ Append(R, x)[n + 1] = x
  <2> HIDE DEF R, x
  <2>1. x \in Seq(Symbol)
    BY DEF x
  <2>2. R \in Seq(Seq(Symbol))
    BY DEF R
  <2> QED BY <1>3, <2>1, <2>2, AppendProperties
<1>5. ASSUME NEW k \in 1 .. n + 1  PROVE T[k] \in Seq(Symbol) /\ T[k] = Append(R, x)[k]
  <2>1. CASE k = n + 1
    <3>1. c + k = d + 1
      BY <1>1, <2>1
    <3>2. T[k] = x
      BY <1>2, <3>1
    <3> QED BY <1>4, <2>1, <3>2
  <2>2. CASE k # n + 1
    <3>1. k \in 1 .. n
      BY <1>1, <2>2
    <3>2. T[k] = R[k] /\ R[k] \in Seq(Symbol)
      BY <1>2, <1>3, <3>1, ElementOfSeq
    <3> QED BY <1>4, <3>1, <3>2
  <2> QED BY <2>1, <2>2
<1>6. T \in Seq(Seq(Symbol)) /\ Len(T) = n + 1
  <2>1. T \in [1 .. n + 1 -> Seq(Symbol)]
    BY <1>2, <1>5
  <2>2. n + 1 \in Nat
    OBVIOUS
  <2>3. T \in Seq(Seq(Symbol))
    BY <2>1, <2>2
  <2> HIDE DEF T
  <2> QED BY <2>1, <2>2, <2>3, LenProperties
<1> HIDE DEF T, R, x
<1>7. T = Append(R, x)
  BY <1>4, <1>5, <1>6, SeqEqual
<1> QED BY <1>7 DEF T, R, x

\* However many bytes arrive, the parser has made of them the records of whole lines,
\* and it keeps what the next one has begun with.
LEMMA ReadsLines ==
  ASSUME NEW s \in Server, NEW c \in Nat, NEW o \in 0 .. Width(s.crlf) - 1, Carries(s, c, o),
         NEW n \in 0 .. Len(s.wire)
  PROVE  \E d \in Nat, p \in 0 .. Width(s.crlf) - 1 :
           /\ c <= d
           /\ Width(s.crlf) * d + p = Width(s.crlf) * c + o + n
           /\ Parsed(Partial(LineAt(s, c + 1), s.crlf, o) \o SubSeq(s.wire, 1, n),
                     Told(s, c, d), Partial(LineAt(s, d + 1), s.crlf, p))
<1> DEFINE w == Width(s.crlf)
           wire == s.wire
           at == w * c + o
           kept == Partial(LineAt(s, c + 1), s.crlf, o)
           Reads(m, d, p) == /\ c <= d
                             /\ w * d + p = at + m
                             /\ Parsed(kept \o SubSeq(wire, 1, m),
                                       Told(s, c, d), Partial(LineAt(s, d + 1), s.crlf, p))
           A == {m \in Nat : m <= Len(wire) => \E d \in Nat, p \in 0 .. w - 1 : Reads(m, d, p)}
<1>0. /\ s.crlf \in BOOLEAN /\ wire \in Seq(Symbol) /\ Len(wire) \in Nat
      /\ \A i \in Nat : LineAt(s, i + 1) \in Lines
  BY LineAtIsLine, LenProperties DEF Server
<1>1. /\ w \in Nat \ {0} /\ at \in Nat
      /\ \A i \in Nat : w * i \in Nat /\ w * (i + 1) = w * i + w
  <2>1. w \in Nat \ {0} /\ \A i \in Nat : w * i \in Nat /\ w * (i + 1) = w * i + w
    BY <1>0, Widths
  <2>2. w * c \in Nat
    BY <2>1
  <2> HIDE DEF w
  <2> QED BY <2>1, <2>2
<1>2. Parsed(kept, <<>>, kept) /\ kept \in Seq(Symbol)
  BY <1>0, ParsesPartial DEF Parsed
<1>3. 0 \in A
  <2>1. SubSeq(wire, 1, 0) = <<>> /\ kept \o <<>> = kept
    BY <1>2, SubSeqEmpty, ConcatEmptySeq
  <2>2. Told(s, c, c) = <<>>
    <3>1. c - c = 0
      OBVIOUS
    <3> QED BY <3>1 DEF Told
  <2>3. w * c + o = at + 0
    <3> HIDE DEF w
    <3>1. w * c \in Nat
      BY <1>1
    <3> QED BY <3>1
  <2>4. Reads(0, c, o)
    <3>1. c <= c
      OBVIOUS
    <3> HIDE DEF w, at
    <3> QED BY <1>2, <2>1, <2>2, <2>3, <3>1
  <2>5. c \in Nat /\ o \in 0 .. w - 1 /\ 0 \in Nat
    OBVIOUS
  <2> HIDE DEF Reads, w
  <2> QED BY <2>4, <2>5
<1>4. ASSUME NEW m \in Nat, m \in A  PROVE m + 1 \in A
  <2> SUFFICES ASSUME m + 1 <= Len(wire)
               PROVE  \E d \in Nat, p \in 0 .. w - 1 : Reads(m + 1, d, p)
    OBVIOUS
  <2>1. \E d \in Nat, p \in 0 .. w - 1 : Reads(m, d, p)
    <3> HIDE DEF w, Reads
    <3> QED BY <1>0, <1>4
  <2>2. PICK d \in Nat : \E p \in 0 .. w - 1 : Reads(m, d, p)
    BY <2>1
  <2>3. PICK p \in 0 .. w - 1 : Reads(m, d, p)
    BY <2>2
  <2>4. c <= d /\ w * d + p = at + m
    BY <2>3
  <2>5. PICK text : /\ text = kept \o SubSeq(wire, 1, m) /\ text \in Seq(Symbol)
                    /\ Parsed(text, Told(s, c, d), Partial(LineAt(s, d + 1), s.crlf, p))
    BY <2>3 DEF Parsed
  <2> DEFINE x == Byte(LineAt(s, d + 1), s.crlf, p + 1)
  <2>6. m + 1 \in 1 .. Len(wire) /\ wire[m + 1] = x
    <3>1. m + 1 \in 1 .. Len(wire)
      BY <1>0
    <3>2. w * d + p + 1 = at + (m + 1)
      <4> HIDE DEF w, at
      <4>1. w * d \in Nat
        BY <1>1
      <4> QED BY <1>1, <2>4, <4>1
    <3> QED BY <3>1, <3>2 DEF Carries
  <2>7. kept \o SubSeq(wire, 1, m + 1) = Append(text, x)
    <3>1. SubSeq(wire, 1, m + 1) = SubSeq(wire, 1, m) \o <<x>>
      <4>1. 1 \in 1 .. Len(wire) /\ m + 1 \in 1 .. Len(wire) /\ (m + 1) - 1 = m
        BY <1>0, <2>6
      <4>2. SubSeq(wire, 1, m + 1) = SubSeq(wire, 1, (m + 1) - 1) \o <<wire[m + 1]>>
        BY <1>0, <4>1, SubSeqRecursiveSecond
      <4> QED BY <2>6, <4>1, <4>2
    <3>2. SubSeq(wire, 1, m) \in Seq(Symbol)
      <4>1. \A i \in 1 .. m : wire[i] \in Symbol
        <5>1. \A i \in 1 .. m : i \in 1 .. Len(wire)
          BY <1>0
        <5> QED BY <1>0, <5>1, ElementOfSeq
      <4>2. m \in Int /\ 1 \in Int
        OBVIOUS
      <4> QED BY <4>1, <4>2, SubSeqProperties
    <3>3. x \in Symbol
      BY <1>0, <2>6, ElementOfSeq
    <3> HIDE DEF x, kept
    <3>4. PICK y \in Seq(Symbol), z \in Symbol, u \in Seq(Symbol) :
            y = SubSeq(wire, 1, m) /\ z = x /\ u = kept
      BY <1>2, <3>2, <3>3
    <3>5. u \o Append(y, z) = Append(u \o y, z)
      BY AppendToConcat
    <3>6. Append(y, z) = y \o <<z>>
      BY AppendIsConcat
    <3> QED BY <2>5, <3>1, <3>4, <3>5, <3>6
  <2>8. LineAt(s, d + 1) \in Lines
    BY <1>0
  <2>9. /\ p + 1 < w => Parsed(Append(text, x), Told(s, c, d), Partial(LineAt(s, d + 1), s.crlf, p + 1))
        /\ p + 1 = w =>
             /\ Told(s, c, d) \in Seq(Seq(Symbol))
             /\ Parsed(Append(text, x), Append(Told(s, c, d), Append(<<>>, LineAt(s, d + 1))), <<>>)
    BY <1>0, <2>5, <2>8, ParsesByte
  <2>10. CASE p + 1 < w
    <3>1. p + 1 \in 0 .. w - 1 /\ w * d + (p + 1) = at + (m + 1)
      <4> HIDE DEF w, at
      <4>1. w * d \in Nat
        BY <1>1
      <4> QED BY <1>1, <2>4, <2>10, <4>1
    <3>2. Reads(m + 1, d, p + 1)
      <4> HIDE DEF w, at, kept, x
      <4> QED BY <2>4, <2>7, <2>9, <2>10, <3>1
    <3> HIDE DEF Reads
    <3> QED BY <3>1, <3>2
  <2>11. CASE p + 1 = w
    <3>1. 0 \in 0 .. w - 1 /\ w * (d + 1) + 0 = at + (m + 1) /\ c <= d + 1 /\ d + 1 \in Nat
      <4> HIDE DEF w, at
      <4>1. w * d \in Nat /\ w * (d + 1) = w * d + w
        BY <1>1
      <4> QED BY <1>1, <2>4, <2>11, <4>1
    <3>2. Append(Told(s, c, d), Append(<<>>, LineAt(s, d + 1))) = Told(s, c, d + 1)
      <4>1. Append(<<>>, LineAt(s, d + 1)) \in Seq(Symbol)
        BY <2>8, Symbols, EmptySeq, AppendProperties
      <4> QED BY <2>4, <2>9, <2>11, <4>1, ToldGrows
    <3>3. Partial(LineAt(s, (d + 1) + 1), s.crlf, 0) = <<>>
      BY <1>0, PartialIs
    <3>4. Reads(m + 1, d + 1, 0)
      <4> HIDE DEF w, at, kept, x
      <4> QED BY <2>7, <2>9, <2>11, <3>1, <3>2, <3>3
    <3> HIDE DEF Reads
    <3> QED BY <3>1, <3>4
  <2> QED
    <3> HIDE DEF w
    <3> QED BY <1>1, <2>10, <2>11
<1> HIDE DEF A
<1>5. n \in A
  <2>1. Nat \subseteq A
    BY <1>3, <1>4, NatInduct
  <2>2. n \in Nat
    BY <1>0
  <2> QED BY <2>1, <2>2
<1> QED BY <1>0, <1>5 DEF A

-----------------------------------------------------------------------------
(* The events of a read, handled in order over the pair of a call and its turn.*)

\* What an event is handled over (Handle).
Pair == [ask : Ask, turn : Turn]

\* The beginnings of an answer, token by token.
LEMMA UpToGrows ==
  ASSUME NEW n \in Nat
  PROVE  /\ n <= MaxTokens => UpTo(n) \in Seq(0 .. MaxTokens) /\ Len(UpTo(n)) = n
         /\ n + 1 <= MaxTokens => Append(UpTo(n), n + 1) = UpTo(n + 1)
<1>0. MaxTokens \in Nat
  BY ChatAssumption
<1>1. ASSUME NEW m \in Nat, m <= MaxTokens
      PROVE  /\ UpTo(m) \in Seq(0 .. MaxTokens) /\ Len(UpTo(m)) = m
             /\ \A i \in 1 .. m : UpTo(m)[i] = i
  <2>1. \A i \in 1 .. m : i \in 0 .. MaxTokens
    BY <1>0, <1>1
  <2>2. UpTo(m) \in [1 .. m -> 0 .. MaxTokens] /\ \A i \in 1 .. m : UpTo(m)[i] = i
    BY <2>1 DEF UpTo
  <2>3. UpTo(m) \in Seq(0 .. MaxTokens)
    <3> DEFINE V == 0 .. MaxTokens
    <3>1. UpTo(m) \in [1 .. m -> V]
      BY <2>2
    <3> HIDE DEF V
    <3>2. UpTo(m) \in Seq(V)
      BY <3>1
    <3> QED BY <3>2 DEF V
  <2>4. Len(UpTo(m)) = m
    <3>1. DOMAIN UpTo(m) = 1 .. m
      BY <2>2
    <3>2. PICK u \in Seq(0 .. MaxTokens) : u = UpTo(m)
      BY <2>3
    <3>3. Len(u) \in Nat /\ DOMAIN u = 1 .. Len(u)
      BY LenProperties
    <3> QED BY <3>1, <3>2, <3>3
  <2> QED BY <2>2, <2>3, <2>4
<1>2. ASSUME n + 1 <= MaxTokens  PROVE Append(UpTo(n), n + 1) = UpTo(n + 1)
  <2>1. n <= MaxTokens /\ n + 1 \in Nat /\ n + 1 \in 0 .. MaxTokens
    BY <1>0, <1>2
  <2>2. PICK u \in Seq(0 .. MaxTokens) : u = UpTo(n) /\ Len(u) = n /\ \A i \in 1 .. n : u[i] = i
    BY <1>1, <2>1
  <2>3. /\ Append(u, n + 1) \in Seq(0 .. MaxTokens) /\ Len(Append(u, n + 1)) = n + 1
        /\ \A i \in 1 .. n : Append(u, n + 1)[i] = u[i]
        /\ Append(u, n + 1)[n + 1] = n + 1
    BY <2>1, <2>2, AppendProperties
  <2>4. /\ UpTo(n + 1) \in Seq(0 .. MaxTokens) /\ Len(UpTo(n + 1)) = n + 1
        /\ \A i \in 1 .. n + 1 : UpTo(n + 1)[i] = i
    BY <1>1, <1>2, <2>1
  <2>5. ASSUME NEW i \in 1 .. n + 1  PROVE Append(u, n + 1)[i] = UpTo(n + 1)[i]
    <3>1. i \in 1 .. n \/ i = n + 1
      OBVIOUS
    <3> QED BY <2>2, <2>3, <2>4, <3>1
  <2>6. Append(u, n + 1) = UpTo(n + 1)
    BY <2>3, <2>4, <2>5, SeqEqual
  <2> QED BY <2>2, <2>6
<1> QED BY <1>1, <1>2

\* The fold over the events of a read, step by step.
LEMMA HandlesInTurn ==
  ASSUME NEW both \in Pair, NEW records, Len(records) \in Nat,
         \A k \in 1 .. Len(records) : \A b \in Pair :
           IsEvent(records[k]) => Handle(b, records[k]) \in Pair
  PROVE  \E g : /\ g[0] = both
                /\ \A k \in 1 .. Len(records) :
                     g[k] = IF IsEvent(records[k]) THEN Handle(g[k - 1], records[k]) ELSE g[k - 1]
                /\ HandleAll(both, records) = g[Len(records)]
<1> DEFINE n == Len(records)
           Is(g) == g = [k \in 0 .. n |->
                          IF k = 0 THEN both
                          ELSE IF IsEvent(records[k]) THEN Handle(g[k - 1], records[k])
                          ELSE g[k - 1]]
           g == CHOOSE f : Is(f)
           step == [k \in 1 .. n |->
                     [b \in Pair |-> IF IsEvent(records[k]) THEN Handle(b, records[k]) ELSE b]]
<1>1. HandleAll(both, records) = g[n]
  BY DEF HandleAll
<1>2. step \in [1 .. n -> [Pair -> Pair]]
  OBVIOUS
<1>3. \E f \in [0 .. n -> Pair] : Loop(f, n, both, step)
  <2>1. n \in Nat
    OBVIOUS
  <2> HIDE DEF step, n
  <2> QED BY <1>2, <2>1, LoopExists
<1>4. PICK f \in [0 .. n -> Pair] :
        \A k \in 0 .. n : f[k] = IF k = 0 THEN both ELSE step[k][f[k - 1]]
  BY <1>3 DEF Loop
<1>5. ASSUME NEW k \in 0 .. n
      PROVE  f[k] = IF k = 0 THEN both
                    ELSE IF IsEvent(records[k]) THEN Handle(f[k - 1], records[k])
                    ELSE f[k - 1]
  <2>1. CASE k = 0
    BY <1>4, <2>1
  <2>2. CASE k # 0
    <3>1. k \in 1 .. n /\ k - 1 \in 0 .. n
      BY <2>2
    <3>2. f[k - 1] \in Pair
      BY <3>1
    <3>3. step[k][f[k - 1]] = IF IsEvent(records[k]) THEN Handle(f[k - 1], records[k]) ELSE f[k - 1]
      BY <3>1, <3>2
    <3> HIDE DEF step
    <3> QED BY <1>4, <2>2, <3>3
  <2> QED BY <2>1, <2>2
<1>6. Is(f)
  BY <1>5
<1>7. Is(g)
  <2> HIDE DEF Is
  <2> QED BY <1>6
<1> HIDE DEF g
<1>8. g[0] = both
  BY <1>7
<1>9. ASSUME NEW k \in 1 .. n
      PROVE  g[k] = IF IsEvent(records[k]) THEN Handle(g[k - 1], records[k]) ELSE g[k - 1]
  <2>1. k \in 0 .. n /\ k # 0
    OBVIOUS
  <2> QED BY <1>7, <2>1
<1> QED BY <1>1, <1>8, <1>9

\* How many tokens the first c lines have.
Tokens(s, c) == IF c = 0 THEN 0 ELSE IF c - 1 <= s.sent THEN c - 1 ELSE s.sent

\* A call has handled the first c lines.
Shows(both, s, c) ==
  /\ both.ask.buffered = UpTo(Tokens(s, c))
  /\ both.turn.cited = (c >= 1)
  /\ both.turn.grounded = (c >= 1 /\ s.grounded)
  /\ both.turn.error = (s.pc = "failed" /\ c = s.sent + 2)

\* What no event of the stream changes.
Apart(both) ==
  <<both.ask.pc, both.ask.aborted, both.ask.late, both.ask.buffer,
    both.turn.answer, both.turn.streaming>>

\* A record of one line is an event with the name and payload of that line.
LEMMA RecordIs ==
  ASSUME NEW line \in Lines
  PROVE  /\ IsEvent(Append(<<>>, line))
         /\ EventName(Append(<<>>, line)) = line[1] /\ Payload(Append(<<>>, line)) = line[2]
         /\ Append(<<>>, line) \in Seq(Symbol)
<1>1. PICK none \in Seq(Symbol) : none = <<>> /\ Len(none) = 0
  BY EmptySeq
<1>2. line \in Symbol
  BY Symbols
<1>3. /\ Append(none, line) \in Seq(Symbol) /\ Len(Append(none, line)) = 1
      /\ Append(none, line)[1] = line
  BY <1>1, <1>2, AppendProperties
<1>4. 1 \in DOMAIN Append(none, line)
  <2>1. PICK r \in Seq(Symbol) : r = Append(none, line)
    BY <1>3
  <2>2. DOMAIN r = 1 .. Len(r)
    BY LenProperties
  <2> QED BY <1>3, <2>1, <2>2
<1> QED BY <1>1, <1>3, <1>4 DEF IsEvent, EventName, Payload

\* A record of two fields is made of the two.
LEMMA TwoSides ==
  ASSUME NEW both, DOMAIN both = {"ask", "turn"}, both = [x \in DOMAIN both |-> both[x]]
  PROVE  both = [ask |-> both.ask, turn |-> both.turn]
OBVIOUS

\* Each event touches one side of the pair.
LEMMA HandleIs ==
  ASSUME NEW both \in Pair, NEW line \in Lines
  PROVE  LET after == Handle(both, Append(<<>>, line))
         IN  /\ line[1] = "citations" =>
                  after = [ask |-> both.ask,
                           turn |-> [both.turn EXCEPT !.cited = TRUE, !.grounded = line[2] = 1]]
             /\ line[1] = "token" =>
                  after = [ask |-> [both.ask EXCEPT !.buffered = Append(both.ask.buffered, line[2]),
                                                    !.frame = TRUE],
                           turn |-> both.turn]
             /\ line[1] = "error" =>
                  after = [ask |-> both.ask, turn |-> [both.turn EXCEPT !.error = TRUE]]
             /\ line[1] = "done" => after = both
<1> DEFINE record == Append(<<>>, line)
           after == Handle(both, record)
<1>1. EventName(record) = line[1] /\ Payload(record) = line[2]
  BY RecordIs
<1>2. both = [ask |-> both.ask, turn |-> both.turn] /\ both.ask \in Ask /\ both.turn \in Turn
  BY DEF Pair
<1> HIDE DEF record
<1>3. ASSUME line[1] = "citations"
      PROVE  after = [ask |-> both.ask,
                      turn |-> [both.turn EXCEPT !.cited = TRUE, !.grounded = line[2] = 1]]
  <2>1. after = [both EXCEPT !.turn.cited = TRUE, !.turn.grounded = Payload(record) = 1]
    BY <1>1, <1>3 DEF Handle
  <2>2. PICK x : x = (Payload(record) = 1) /\ x = (line[2] = 1)
    BY <1>1
  <2>3. after = [both EXCEPT !.turn.cited = TRUE, !.turn.grounded = x]
    BY <2>1, <2>2
  <2>4. [both EXCEPT !.turn.cited = TRUE, !.turn.grounded = x]
          = [ask |-> both.ask, turn |-> [both.turn EXCEPT !.cited = TRUE, !.grounded = x]]
    <3> DEFINE e == [both EXCEPT !.turn.cited = TRUE, !.turn.grounded = x]
    <3>1. /\ e.ask = both.ask /\ e.turn = [both.turn EXCEPT !.cited = TRUE, !.grounded = x]
      BY DEF Pair
    <3>2. DOMAIN both = {"ask", "turn"}
      BY DEF Pair
    <3>3. DOMAIN e = {"ask", "turn"} /\ e = [z \in DOMAIN e |-> e[z]]
      BY <3>2
    <3> HIDE DEF e
    <3>4. e = [ask |-> e.ask, turn |-> e.turn]
      BY <3>3, TwoSides
    <3> QED BY <3>1, <3>4 DEF e
  <2> QED BY <2>2, <2>3, <2>4
<1>4. ASSUME line[1] = "token"
      PROVE  after = [ask |-> [both.ask EXCEPT !.buffered = Append(both.ask.buffered, line[2]),
                                               !.frame = TRUE],
                      turn |-> both.turn]
  <2>1. after = [both EXCEPT !.ask.buffered = Append(@, Payload(record)), !.ask.frame = TRUE]
    BY <1>1, <1>4 DEF Handle
  <2>2. [both EXCEPT !.ask.buffered = Append(@, Payload(record)), !.ask.frame = TRUE]
          = [ask |-> [both.ask EXCEPT !.buffered = Append(both.ask.buffered, Payload(record)),
                                      !.frame = TRUE],
             turn |-> both.turn]
    <3> DEFINE e == [both EXCEPT !.ask.buffered = Append(@, Payload(record)), !.ask.frame = TRUE]
    <3>1. /\ e.turn = both.turn
          /\ e.ask = [both.ask EXCEPT !.buffered = Append(both.ask.buffered, Payload(record)),
                                      !.frame = TRUE]
      BY DEF Pair
    <3>2. DOMAIN both = {"ask", "turn"}
      BY DEF Pair
    <3>3. DOMAIN e = {"ask", "turn"} /\ e = [z \in DOMAIN e |-> e[z]]
      BY <3>2
    <3> HIDE DEF e
    <3>4. e = [ask |-> e.ask, turn |-> e.turn]
      BY <3>3, TwoSides
    <3> QED BY <3>1, <3>4 DEF e
  <2> QED BY <1>1, <2>1, <2>2
<1>5. ASSUME line[1] = "error"
      PROVE  after = [ask |-> both.ask, turn |-> [both.turn EXCEPT !.error = TRUE]]
  <2>1. after = [both EXCEPT !.turn.error = TRUE]
    BY <1>1, <1>5 DEF Handle
  <2> QED BY <1>2, <2>1 DEF Turn
<1>6. ASSUME line[1] = "done"  PROVE after = both
  BY <1>1, <1>6 DEF Handle
<1> QED BY <1>3, <1>4, <1>5, <1>6 DEF record

\* An event keeps call and turn what they are.
LEMMA HandleTyped ==
  ASSUME NEW both \in Pair, NEW line \in Lines
  PROVE  Handle(both, Append(<<>>, line)) \in Pair
<1> DEFINE after == Handle(both, Append(<<>>, line))
<1>1. PICK e \in Events, v \in 0 .. MaxTokens : line = <<e, v>>
  BY DEF Lines
<1>2. both.ask \in Ask /\ both.turn \in Turn
  BY DEF Pair
<1>3. PICK more \in Seq(0 .. MaxTokens) : more = Append(both.ask.buffered, v)
  <2>1. both.ask.buffered \in Seq(0 .. MaxTokens)
    BY <1>2 DEF Ask
  <2> QED BY <2>1, AppendProperties
<1>4. [both.ask EXCEPT !.buffered = more, !.frame = TRUE] \in Ask
  BY <1>2 DEF Ask
<1>5. \A x \in BOOLEAN : [both.turn EXCEPT !.cited = TRUE, !.grounded = x] \in Turn
  BY <1>2 DEF Turn
<1>6. [both.turn EXCEPT !.error = TRUE] \in Turn
  BY <1>2 DEF Turn
<1>7. \A a \in Ask, t \in Turn : [ask |-> a, turn |-> t] \in Pair
  BY DEF Pair
<1>8. line[1] = e /\ line[2] = v /\ e \in {"citations", "token", "error", "done"}
  BY <1>1 DEF Events
<1>9. /\ line[1] = "citations" =>
           after = [ask |-> both.ask,
                    turn |-> [both.turn EXCEPT !.cited = TRUE, !.grounded = line[2] = 1]]
      /\ line[1] = "token" =>
           after = [ask |-> [both.ask EXCEPT !.buffered = Append(both.ask.buffered, line[2]),
                                             !.frame = TRUE],
                    turn |-> both.turn]
      /\ line[1] = "error" =>
           after = [ask |-> both.ask, turn |-> [both.turn EXCEPT !.error = TRUE]]
      /\ line[1] = "done" => after = both
  BY HandleIs, ZenonT(30)
<1> HIDE DEF after
<1>10. CASE line[1] = "citations"
  <2>1. PICK x \in BOOLEAN : x = (line[2] = 1)
    OBVIOUS
  <2>2. PICK t \in Turn : t = [both.turn EXCEPT !.cited = TRUE, !.grounded = x]
    BY <1>5
  <2>3. after = [ask |-> both.ask, turn |-> t]
    BY <1>9, <1>10, <2>1, <2>2
  <2> QED BY <1>2, <1>7, <2>3 DEF after
<1>11. CASE line[1] = "token"
  <2>1. PICK x \in Ask : x = [both.ask EXCEPT !.buffered = more, !.frame = TRUE]
    BY <1>4
  <2>2. after = [ask |-> x, turn |-> both.turn]
    BY <1>3, <1>8, <1>9, <1>11, <2>1
  <2> QED BY <1>2, <1>7, <2>2 DEF after
<1>12. CASE line[1] = "error"
  <2>1. PICK t \in Turn : t = [both.turn EXCEPT !.error = TRUE]
    BY <1>6
  <2>2. after = [ask |-> both.ask, turn |-> t]
    BY <1>9, <1>12, <2>1
  <2> QED BY <1>2, <1>7, <2>2 DEF after
<1>13. CASE line[1] = "done"
  BY <1>9, <1>13 DEF after
<1> QED BY <1>8, <1>10, <1>11, <1>12, <1>13

\* One line more.
LEMMA HandlesLine ==
  ASSUME NEW s \in Server, NEW c \in Nat, c <= s.sent + 1, NEW both \in Pair, Shows(both, s, c)
  PROVE  LET after == Handle(both, Append(<<>>, LineAt(s, c + 1)))
         IN  after \in Pair /\ Shows(after, s, c + 1) /\ Apart(after) = Apart(both)
<1> DEFINE line == LineAt(s, c + 1)
           after == Handle(both, Append(<<>>, line))
<1>0. /\ MaxTokens \in Nat \ {0} /\ s.sent \in 0 .. MaxTokens /\ s.grounded \in BOOLEAN
      /\ c + 1 # 0 /\ c + 1 >= 1 /\ (c + 1) - 1 = c /\ c + 1 \in Nat \ {0}
  BY ChatAssumption DEF Server
<1>1. line \in Lines
  BY <1>0, LineAtIsLine
<1>2. /\ EventName(Append(<<>>, line)) = line[1] /\ Payload(Append(<<>>, line)) = line[2]
  BY <1>1, RecordIs
<1>3. both.ask \in Ask /\ both.turn \in Turn /\ after \in Pair
  BY <1>1, HandleTyped DEF Pair
<1>4. CASE c = 0
  <2>1. line = <<"citations", IF s.grounded THEN 1 ELSE 0>>
    BY <1>4 DEF LineAt
  <2>2. line[1] = "citations" /\ (line[2] = 1) = s.grounded
    BY <1>0, <2>1
  <2>3. after = [ask |-> both.ask,
                 turn |-> [both.turn EXCEPT !.cited = TRUE, !.grounded = line[2] = 1]]
    BY <1>1, <2>2, HandleIs
  <2> HIDE DEF after
  <2>4. after = [ask |-> both.ask, turn |-> [both.turn EXCEPT !.cited = TRUE, !.grounded = s.grounded]]
    BY <2>2, <2>3
  <2>5. after.ask = both.ask /\ Apart(after) = Apart(both)
    BY <1>3, <2>4 DEF Turn, Apart
  <2>6. /\ after.turn.cited = TRUE /\ after.turn.grounded = s.grounded
        /\ after.turn.error = both.turn.error
    BY <1>3, <2>4 DEF Turn
  <2>7. Tokens(s, c + 1) = 0 /\ Tokens(s, c) = 0 /\ c + 1 # s.sent + 2 /\ c # s.sent + 2
    BY <1>0, <1>4 DEF Tokens
  <2>8. Shows(after, s, c + 1)
    BY <1>0, <2>5, <2>6, <2>7 DEF Shows
  <2> QED BY <1>3, <2>5, <2>8 DEF after
<1>5. CASE c # 0 /\ c <= s.sent
  <2>1. line[1] = "token" /\ line[2] = c
    BY <1>0, <1>5 DEF LineAt
  <2>2. /\ Tokens(s, c + 1) = c /\ Tokens(s, c) = c - 1 /\ c + 1 # s.sent + 2 /\ c # s.sent + 2
        /\ c - 1 \in Nat /\ c - 1 <= MaxTokens /\ (c - 1) + 1 = c /\ c <= MaxTokens
    BY <1>0, <1>5 DEF Tokens
  <2>3. Append(UpTo(c - 1), c) = UpTo(c) /\ UpTo(c) \in Seq(0 .. MaxTokens)
    BY <2>2, UpToGrows
  <2>4. both.ask.buffered = UpTo(c - 1)
    BY <2>2 DEF Shows
  <2>5. after = [ask |-> [both.ask EXCEPT !.buffered = Append(both.ask.buffered, line[2]),
                                          !.frame = TRUE],
                 turn |-> both.turn]
    BY <1>1, <2>1, HandleIs
  <2> HIDE DEF after
  <2>6. after = [ask |-> [both.ask EXCEPT !.buffered = UpTo(c), !.frame = TRUE], turn |-> both.turn]
    BY <2>1, <2>3, <2>4, <2>5
  <2>7. after.ask.buffered = UpTo(c) /\ after.turn = both.turn /\ Apart(after) = Apart(both)
    BY <1>3, <2>6 DEF Ask, Apart
  <2>8. Shows(after, s, c + 1)
    <3>1. (c >= 1) = (c + 1 >= 1)
      BY <1>5
    <3> QED BY <1>0, <1>5, <2>2, <2>7, <3>1 DEF Shows
  <2> QED BY <1>3, <2>7, <2>8 DEF after
<1>6. CASE c = s.sent + 1
  <2>1. /\ c + 1 = s.sent + 2 /\ c # 0 /\ Tokens(s, c) = s.sent /\ Tokens(s, c + 1) = s.sent
        /\ c # s.sent + 2 /\ ~(c <= s.sent) /\ c + 1 # 1 /\ c >= 1
    BY <1>0, <1>6 DEF Tokens
  <2>2. CASE s.pc = "failed"
    <3>1. line[1] = "error"
      BY <1>0, <2>1, <2>2 DEF LineAt
    <3>2. after = [ask |-> both.ask, turn |-> [both.turn EXCEPT !.error = TRUE]]
      BY <1>1, <3>1, HandleIs
    <3> HIDE DEF after
    <3>3. /\ Apart(after) = Apart(both) /\ after.ask = both.ask
          /\ after.turn.error = TRUE
          /\ after.turn.cited = both.turn.cited /\ after.turn.grounded = both.turn.grounded
      BY <1>3, <3>2 DEF Turn, Apart
    <3>4. TRUE = (s.pc = "failed" /\ c + 1 = s.sent + 2)
      BY <2>1, <2>2
    <3>5. Shows(after, s, c + 1)
      <4>1. after.turn.cited = (c + 1 >= 1) /\ after.turn.grounded = (c + 1 >= 1 /\ s.grounded)
        BY <1>0, <2>1, <3>3 DEF Shows
      <4>2. after.ask.buffered = UpTo(Tokens(s, c + 1))
        BY <2>1, <3>3 DEF Shows
      <4>3. after.turn.error = (s.pc = "failed" /\ c + 1 = s.sent + 2)
        BY <3>3, <3>4
      <4> QED BY <4>1, <4>2, <4>3 DEF Shows
    <3> QED BY <1>3, <3>3, <3>5 DEF after
  <2>3. CASE s.pc # "failed"
    <3>1. line[1] = "done"
      BY <1>0, <2>1, <2>3 DEF LineAt
    <3>2. after = both
      BY <1>1, <3>1, HandleIs
    <3> HIDE DEF after
    <3>3. Shows(after, s, c + 1)
      BY <1>0, <2>1, <2>3, <3>2 DEF Shows
    <3> QED BY <1>3, <3>2, <3>3 DEF after, line
  <2> QED BY <2>2, <2>3
<1> QED BY <1>0, <1>4, <1>5, <1>6

\* The lines of a read.
LEMMA HandlesLines ==
  ASSUME NEW s \in Server, NEW c \in Nat, NEW d \in Nat, c <= d, d <= s.sent + 2,
         NEW both \in Pair, Shows(both, s, c)
  PROVE  LET after == HandleAll(both, Told(s, c, d))
         IN  after \in Pair /\ Shows(after, s, d) /\ Apart(after) = Apart(both)
<1> DEFINE R == Told(s, c, d)
<1>1. PICK n \in Nat : n = d - c
  OBVIOUS
<1>2. /\ R = [k \in 1 .. n |-> Append(<<>>, LineAt(s, c + k))]
      /\ \A k \in 1 .. n : R[k] = Append(<<>>, LineAt(s, c + k))
  BY <1>1 DEF Told
<1>3. \A k \in 1 .. n : LineAt(s, c + k) \in Lines
  <2>1. \A k \in 1 .. n : c + k \in Nat \ {0}
    BY <1>1
  <2> QED BY <2>1, LineAtIsLine
<1>4. \A k \in 1 .. n : R[k] \in Seq(Symbol) /\ IsEvent(R[k])
  BY <1>2, <1>3, RecordIs
<1>5. Len(R) = n
  BY <1>2
<1>6. ASSUME NEW k \in 1 .. n, NEW b \in Pair  PROVE Handle(b, R[k]) \in Pair
  BY <1>2, <1>3, HandleTyped
<1> HIDE DEF R
<1>7. PICK g : /\ g[0] = both
               /\ \A k \in 1 .. n : g[k] = IF IsEvent(R[k]) THEN Handle(g[k - 1], R[k]) ELSE g[k - 1]
               /\ HandleAll(both, R) = g[n]
  <2>1. Len(R) \in Nat /\ \A k \in 1 .. Len(R) : \A b \in Pair :
                            IsEvent(R[k]) => Handle(b, R[k]) \in Pair
    BY <1>5, <1>6
  <2>2. \E g : /\ g[0] = both
               /\ \A k \in 1 .. Len(R) :
                    g[k] = IF IsEvent(R[k]) THEN Handle(g[k - 1], R[k]) ELSE g[k - 1]
               /\ HandleAll(both, R) = g[Len(R)]
    BY <2>1, HandlesInTurn
  <2> QED BY <1>5, <2>2
<1> DEFINE A == {k \in Nat : k <= n => /\ g[k] \in Pair /\ Shows(g[k], s, c + k)
                                       /\ Apart(g[k]) = Apart(both)}
<1>8. 0 \in A
  <2>1. c + 0 = c
    OBVIOUS
  <2> QED BY <1>7, <2>1
<1>9. ASSUME NEW k \in Nat, k \in A  PROVE k + 1 \in A
  <2> SUFFICES ASSUME k + 1 <= n
               PROVE  /\ g[k + 1] \in Pair /\ Shows(g[k + 1], s, c + (k + 1))
                      /\ Apart(g[k + 1]) = Apart(both)
    OBVIOUS
  <2>1. g[k] \in Pair /\ Shows(g[k], s, c + k) /\ Apart(g[k]) = Apart(both)
    BY <1>9
  <2>2. k + 1 \in 1 .. n /\ (k + 1) - 1 = k /\ c + (k + 1) = (c + k) + 1 /\ c + k \in Nat
    OBVIOUS
  <2>3. g[k + 1] = Handle(g[k], R[k + 1])
    BY <1>4, <1>7, <2>2
  <2>4. R[k + 1] = Append(<<>>, LineAt(s, (c + k) + 1))
    BY <1>2, <2>2
  <2>5. c + k <= s.sent + 1
    BY <1>1 DEF Server
  <2>6. PICK m \in Nat : m = c + k
    BY <2>2
  <2>7. LET after == Handle(g[k], Append(<<>>, LineAt(s, m + 1)))
        IN  after \in Pair /\ Shows(after, s, m + 1) /\ Apart(after) = Apart(g[k])
    BY <2>1, <2>5, <2>6, HandlesLine
  <2> QED BY <2>1, <2>2, <2>3, <2>4, <2>6, <2>7
<1> HIDE DEF A
<1>10. n \in A
  <2>1. Nat \subseteq A
    BY <1>8, <1>9, NatInduct
  <2> QED BY <2>1
<1>11. c + n = d
  BY <1>1
<1> QED BY <1>7, <1>10, <1>11 DEF A, R

\* Where a response ends nothing is left, and nothing is handled.
LEMMA HandlesNothing ==
  ASSUME NEW both \in Pair
  PROVE  HandleAll(both, <<<<>>>>) = both
<1>1. ~IsEvent(<<>>)
  BY DEF IsEvent
<1>2. Len(<<<<>>>>) = 1 /\ <<<<>>>>[1] = <<>>
  OBVIOUS
<1> DEFINE R == <<<<>>>>
<1>3. /\ Len(R) \in Nat /\ \A k \in 1 .. Len(R) : ~IsEvent(R[k])
  <2>1. \A k \in 1 .. 1 : k = 1
    OBVIOUS
  <2> QED BY <1>1, <1>2, <2>1
<1>4. Len(R) = 1
  BY <1>2
<1> HIDE DEF R
<1>5. PICK g : /\ g[0] = both
               /\ \A k \in 1 .. Len(R) :
                    g[k] = IF IsEvent(R[k]) THEN Handle(g[k - 1], R[k]) ELSE g[k - 1]
               /\ HandleAll(both, R) = g[Len(R)]
  BY <1>3, HandlesInTurn
<1>6. 1 \in 1 .. Len(R) /\ 1 - 1 = 0
  BY <1>4
<1>7. HandleAll(both, R) = both
  BY <1>3, <1>4, <1>5, <1>6
<1> QED BY <1>7 DEF R

-----------------------------------------------------------------------------
(* A call that reads has handled the first c lines of its response and kept*)
(* the first o symbols of the next; the bytes under way are what comes then.*)

\* How many lines the server has sent, and that they are on their way or were read.
Count(s) ==
  IF s.pc = "citations" THEN 0 ELSE IF s.end = "closed" THEN s.sent + 2 ELSE s.sent + 1

Reached(s, c, o) ==
  LET at == Width(s.crlf) * c + o + Len(s.wire)
      all == Width(s.crlf) * Count(s)
  IN  at <= all /\ (s.end # "broken" => at = all)

\* A call has read c lines of the response and o symbols of the next.
Follows(s, call, shown, c, o) ==
  /\ Reached(s, c, o)
  /\ Carries(s, c, o)
  /\ call.buffer = Partial(LineAt(s, c + 1), s.crlf, o)
  /\ Shows([ask |-> call, turn |-> shown], s, c)

\* The response has not begun.
Waiting(call) == call.pc \in {"new", "sending", "refreshing", "resending"}

\* How a generator can have ended, given how far it is.
Consistent(s) ==
  /\ s.pc = "citations" => s.sent = 0 /\ s.end = "open"
  /\ s.pc = "answering" => s.end = "open"
  /\ s.pc = "failed" => s.end = "closed"

\* What is shown is a beginning of the answer, with the sources it rests on.
Sound(s, call, shown) ==
  /\ call.buffered = UpTo(Len(call.buffered))
  /\ shown.answer = UpTo(Len(shown.answer))
  /\ call.buffered # <<>> \/ shown.answer # <<>> => shown.grounded = s.grounded

\* What holds of the generator, the call and the turn of one question: before the
\* response there is nothing, a call that reads follows its response, and one that
\* has read a response to its end shows all of it.
Good(s, call, shown) ==
  /\ s \in Server /\ call \in Ask /\ shown \in Turn
  /\ Consistent(s)
  /\ Waiting(call) => /\ s = IdleServer /\ call.buffer = <<>> /\ shown.answer = <<>>
                      /\ Shows([ask |-> call, turn |-> shown], s, 0)
  /\ call.pc = "reading" =>
       \E c \in Nat, o \in 0 .. Width(s.crlf) - 1 : Follows(s, call, shown, c, o)
  /\ Sound(s, call, shown)
  /\ call.pc = "over" /\ ~call.aborted /\ s.end = "closed" =>
       /\ shown.answer = UpTo(s.sent) /\ shown.cited /\ ~call.frame
       /\ shown.error = (s.pc = "failed")

\* The numbers a response is counted with.
LEMMA CountIs ==
  ASSUME NEW s \in Server
  PROVE  /\ s.crlf \in BOOLEAN /\ s.sent \in Nat /\ s.sent <= MaxTokens
         /\ Count(s) \in Nat /\ Count(s) <= s.sent + 2
         /\ s.end # "closed" => Count(s) <= s.sent + 1
         /\ Width(s.crlf) \in Nat \ {0}
         /\ Width(s.crlf) * Count(s) \in Nat
         /\ \A i \in Nat : Width(s.crlf) * i \in Nat
         /\ s.wire \in Seq(Symbol) /\ Len(s.wire) \in Nat
<1>1. /\ s.crlf \in BOOLEAN /\ s.sent \in Nat /\ s.sent <= MaxTokens
      /\ s.wire \in Seq(Symbol)
  BY ChatAssumption DEF Server
<1>2. /\ Count(s) \in Nat /\ Count(s) <= s.sent + 2
      /\ s.end # "closed" => Count(s) <= s.sent + 1
  BY <1>1 DEF Count
<1>3. Width(s.crlf) \in Nat \ {0} /\ \A i \in Nat : Width(s.crlf) * i \in Nat
  BY <1>1, Widths
<1>4. Len(s.wire) \in Nat
  BY <1>1, LenProperties
<1> QED BY <1>1, <1>2, <1>3, <1>4

\* What was read was sent.
LEMMA WasSent ==
  ASSUME NEW s \in Server, NEW c \in Nat, NEW o \in 0 .. Width(s.crlf) - 1, Reached(s, c, o)
  PROVE  /\ c <= Count(s) /\ (o # 0 => c + 1 <= Count(s))
         /\ s.end = "closed" /\ s.wire = <<>> => c = Count(s) /\ o = 0
<1> DEFINE w == Width(s.crlf)
<1>1. /\ w \in Nat \ {0} /\ w * c \in Nat /\ w * Count(s) \in Nat /\ Count(s) \in Nat
      /\ s.crlf \in BOOLEAN /\ Len(s.wire) \in Nat
  BY CountIs
<1>2. /\ \A i, m \in Nat, j \in 0 .. w - 1 : w * i + j = w * m => i = m /\ j = 0
      /\ \A i, m \in Nat, j \in 0 .. w - 1 :
           w * i + j <= w * m => i <= m /\ (j # 0 => i + 1 <= m)
  BY <1>1, Widths
<1>3. /\ w * c + o + Len(s.wire) <= w * Count(s)
      /\ s.end # "broken" => w * c + o + Len(s.wire) = w * Count(s)
  BY DEF Reached
<1>4. o \in 0 .. w - 1
  OBVIOUS
<1> HIDE DEF w
<1>5. w * c + o <= w * Count(s)
  <2>1. \A x, y, z \in Nat : x + o + z <= y => x + o <= y
    BY <1>1, <1>4
  <2> QED BY <1>1, <1>3, <2>1
<1>6. ASSUME s.end = "closed", s.wire = <<>>  PROVE w * c + o = w * Count(s)
  <2>1. Len(s.wire) = 0
    BY <1>6, EmptySeq
  <2> QED BY <1>1, <1>3, <1>4, <1>6, <2>1
<1> QED BY <1>1, <1>2, <1>4, <1>5, <1>6

\* The server goes on, and what it has sent stays as it is.
LEMMA FollowsOn ==
  ASSUME NEW s \in Server, NEW t \in Server, NEW call, NEW shown, NEW c \in Nat,
         NEW o \in 0 .. Width(s.crlf) - 1,
         Follows(s, call, shown, c, o), Reached(t, c, o), Carries(t, c, o),
         t.crlf = s.crlf, t.grounded = s.grounded, s.end = "open", s.pc # "failed",
         \A i \in 1 .. Count(s) : LineAt(t, i) = LineAt(s, i),
         s.sent <= t.sent, t.pc = "failed" => t.sent = s.sent
  PROVE  Follows(t, call, shown, c, o)
<1>1. c <= Count(s) /\ (o # 0 => c + 1 <= Count(s)) /\ Count(s) \in Nat /\ Count(s) <= s.sent + 1
  BY WasSent, CountIs DEF Follows
<1>2. Partial(LineAt(t, c + 1), t.crlf, o) = Partial(LineAt(s, c + 1), s.crlf, o)
  <2>1. CASE o = 0
    BY <2>1 DEF Partial
  <2>2. CASE o # 0
    <3>1. c + 1 \in 1 .. Count(s)
      BY <1>1, <2>2
    <3> QED BY <3>1
  <2> QED BY <2>1, <2>2
<1>3. Tokens(t, c) = Tokens(s, c)
  <2>1. s.sent \in Nat /\ t.sent \in Nat
    BY CountIs
  <2> QED BY <1>1, <2>1 DEF Tokens
<1>4. ~(s.pc = "failed" /\ c = s.sent + 2) /\ ~(t.pc = "failed" /\ c = t.sent + 2)
  <2>1. s.sent \in Nat
    BY CountIs
  <2> QED BY <1>1, <2>1
<1>5. Shows([ask |-> call, turn |-> shown], t, c)
  <2> DEFINE both == [ask |-> call, turn |-> shown]
  <2>1. Shows(both, s, c)
    BY DEF Follows
  <2> HIDE DEF both
  <2>2. both.ask.buffered = UpTo(Tokens(t, c)) /\ both.turn.cited = (c >= 1)
    BY <1>3, <2>1 DEF Shows
  <2>3. both.turn.grounded = (c >= 1 /\ t.grounded)
    BY <2>1 DEF Shows
  <2>4. both.turn.error = (t.pc = "failed" /\ c = t.sent + 2)
    <3>1. both.turn.error = FALSE
      BY <1>4, <2>1 DEF Shows
    <3> QED BY <1>4, <3>1
  <2>5. Shows(both, t, c)
    BY <2>2, <2>3, <2>4 DEF Shows
  <2> QED BY <2>5 DEF both
<1> QED BY <1>2, <1>5 DEF Follows

\* A symbol in front of a text.
LEMMA OneAndMore ==
  ASSUME NEW x \in Symbol, NEW more \in Seq(Symbol)
  PROVE  /\ <<x>> \o more \in Seq(Symbol) /\ Len(<<x>> \o more) = Len(more) + 1
         /\ (<<x>> \o more)[1] = x
         /\ \A k \in 1 .. Len(more) : (<<x>> \o more)[k + 1] = more[k]
<1>1. PICK one \in Seq(Symbol) : one = <<x>> /\ Len(one) = 1 /\ one[1] = x
  <2>1. <<x>> \in Seq(Symbol)
    OBVIOUS
  <2>2. Len(<<x>>) = 1 /\ <<x>>[1] = x
    OBVIOUS
  <2> QED BY <2>1, <2>2
<1>2. /\ one \o more \in Seq(Symbol) /\ Len(one \o more) = Len(one) + Len(more)
      /\ \A i \in 1 .. Len(one) + Len(more) :
           (one \o more)[i] = IF i <= Len(one) THEN one[i] ELSE more[i - Len(one)]
  BY ConcatProperties
<1>3. Len(more) \in Nat
  BY LenProperties
<1>4. 1 \in 1 .. 1 + Len(more)
  BY <1>3
<1>5. \A k \in 1 .. Len(more) : k + 1 \in 1 .. 1 + Len(more) /\ ~(k + 1 <= 1) /\ (k + 1) - 1 = k
  BY <1>3
<1>6. \A i \in 1 .. 1 + Len(more) : (one \o more)[i] = IF i <= 1 THEN x ELSE more[i - 1]
  <2>1. \A i \in 1 .. 1 + Len(more) : i <= 1 => i = 1
    OBVIOUS
  <2> QED BY <1>1, <1>2, <2>1
<1>7. (one \o more)[1] = x
  <2>1. 1 <= 1
    OBVIOUS
  <2> QED BY <1>4, <1>6, <2>1
<1>8. \A k \in 1 .. Len(more) : (one \o more)[k + 1] = more[k]
  BY <1>5, <1>6
<1> QED BY <1>1, <1>2, <1>3, <1>7, <1>8

\* The bytes of a record, one by one (_sse).
LEMMA SseIs ==
  ASSUME NEW e \in Events, NEW d \in 0 .. MaxTokens, NEW crlf \in BOOLEAN
  PROVE  /\ Sse(e, d, crlf) \in Seq(Symbol)
         /\ Len(Sse(e, d, crlf)) = Width(crlf)
         /\ \A k \in 1 .. Width(crlf) : Sse(e, d, crlf)[k] = Byte(<<e, d>>, crlf, k)
<1>1. <<e, d>> \in Symbol /\ CR \in Symbol /\ NL \in Symbol
  BY Symbols DEF Lines
<1>2. PICK x \in Symbol, cr \in Symbol, nl \in Symbol : x = <<e, d>> /\ cr = CR /\ nl = NL
  BY <1>1
<1>3. CASE crlf
  <2>1. PICK more \in Seq(Symbol) : /\ more = <<cr, nl, cr, nl>> /\ Len(more) = 4
                                    /\ more[1] = cr /\ more[2] = nl /\ more[3] = cr /\ more[4] = nl
    <3>1. <<cr, nl, cr, nl>> \in Seq(Symbol)
      OBVIOUS
    <3>2. /\ Len(<<cr, nl, cr, nl>>) = 4
          /\ <<cr, nl, cr, nl>>[1] = cr /\ <<cr, nl, cr, nl>>[2] = nl
          /\ <<cr, nl, cr, nl>>[3] = cr /\ <<cr, nl, cr, nl>>[4] = nl
      OBVIOUS
    <3> QED BY <3>1, <3>2
  <2>2. Sse(e, d, crlf) = <<x>> \o more
    BY <1>2, <1>3, <2>1 DEF Sse
  <2>3. /\ <<x>> \o more \in Seq(Symbol) /\ Len(<<x>> \o more) = 5
        /\ (<<x>> \o more)[1] = x
        /\ \A k \in 1 .. 4 : (<<x>> \o more)[k + 1] = more[k]
    BY <2>1, OneAndMore
  <2>4. Width(crlf) = 5
    BY <1>3 DEF Width
  <2>5. /\ Byte(x, crlf, 1) = x /\ Byte(x, crlf, 2) = cr /\ Byte(x, crlf, 3) = nl
        /\ Byte(x, crlf, 4) = cr /\ Byte(x, crlf, 5) = nl
    BY <1>2, <1>3 DEF Byte
  <2>6. \A k \in 1 .. 4 : more[k] = Byte(x, crlf, k + 1)
    <3>1. \A k \in 1 .. 4 : k = 1 \/ k = 2 \/ k = 3 \/ k = 4
      OBVIOUS
    <3> QED BY <2>1, <2>5, <3>1
  <2>7. \A k \in 1 .. 5 : (<<x>> \o more)[k] = Byte(x, crlf, k)
    <3>1. \A k \in 1 .. 5 : k = 1 \/ (k - 1 \in 1 .. 4 /\ (k - 1) + 1 = k)
      OBVIOUS
    <3> QED BY <2>3, <2>5, <2>6, <3>1
  <2> QED BY <1>2, <2>2, <2>3, <2>4, <2>7
<1>4. CASE ~crlf
  <2>1. PICK more \in Seq(Symbol) : /\ more = <<nl, nl>> /\ Len(more) = 2
                                    /\ more[1] = nl /\ more[2] = nl
    <3>1. <<nl, nl>> \in Seq(Symbol)
      OBVIOUS
    <3>2. Len(<<nl, nl>>) = 2 /\ <<nl, nl>>[1] = nl /\ <<nl, nl>>[2] = nl
      OBVIOUS
    <3> QED BY <3>1, <3>2
  <2>2. Sse(e, d, crlf) = <<x>> \o more
    BY <1>2, <1>4, <2>1 DEF Sse
  <2>3. /\ <<x>> \o more \in Seq(Symbol) /\ Len(<<x>> \o more) = 3
        /\ (<<x>> \o more)[1] = x
        /\ \A k \in 1 .. 2 : (<<x>> \o more)[k + 1] = more[k]
    BY <2>1, OneAndMore
  <2>4. Width(crlf) = 3
    BY <1>4 DEF Width
  <2>5. Byte(x, crlf, 1) = x /\ Byte(x, crlf, 2) = nl /\ Byte(x, crlf, 3) = nl
    BY <1>2, <1>4 DEF Byte
  <2>6. \A k \in 1 .. 2 : more[k] = Byte(x, crlf, k + 1)
    <3>1. \A k \in 1 .. 2 : k = 1 \/ k = 2
      OBVIOUS
    <3> QED BY <2>1, <2>5, <3>1
  <2>7. \A k \in 1 .. 3 : (<<x>> \o more)[k] = Byte(x, crlf, k)
    <3>1. \A k \in 1 .. 3 : k = 1 \/ (k - 1 \in 1 .. 2 /\ (k - 1) + 1 = k)
      OBVIOUS
    <3> QED BY <2>3, <2>5, <2>6, <3>1
  <2> QED BY <1>2, <2>2, <2>3, <2>4, <2>7
<1> QED BY <1>3, <1>4

\* A line more is on its way.
LEMMA SendsLine ==
  ASSUME NEW s \in Server, NEW t \in Server, NEW c \in Nat, NEW o \in 0 .. Width(s.crlf) - 1,
         NEW e \in Events, NEW d \in 0 .. MaxTokens, Reached(s, c, o), Carries(s, c, o),
         s.end # "broken", t.crlf = s.crlf, t.wire = s.wire \o Sse(e, d, s.crlf),
         Count(t) = Count(s) + 1, LineAt(t, Count(s) + 1) = <<e, d>>,
         \A i \in 1 .. Count(s) : LineAt(t, i) = LineAt(s, i)
  PROVE  Reached(t, c, o) /\ Carries(t, c, o)
<1> DEFINE w == Width(s.crlf)
           n == Count(s)
           l == Len(s.wire)
<1>1. /\ w \in Nat \ {0} /\ \A i \in Nat : w * i \in Nat
      /\ n \in Nat /\ s.crlf \in BOOLEAN /\ l \in Nat /\ s.wire \in Seq(Symbol)
  BY CountIs
<1>2. /\ \A i \in Nat : w * (i + 1) = w * i + w
      /\ \A i, m \in Nat, j \in 0 .. w - 1, x \in 1 .. w :
           w * i + j + 1 = w * m + x => i = m /\ j + 1 = x
      /\ \A i, m \in Nat, j \in 0 .. w - 1 : w * i + j + 1 <= w * m => i + 1 <= m
  BY <1>1, Widths
<1>3. /\ Sse(e, d, s.crlf) \in Seq(Symbol) /\ Len(Sse(e, d, s.crlf)) = w
      /\ \A k \in 1 .. w : Sse(e, d, s.crlf)[k] = Byte(<<e, d>>, s.crlf, k)
  BY <1>1, SseIs
<1>4. /\ Len(t.wire) = l + w
      /\ \A k \in 1 .. l : t.wire[k] = s.wire[k]
      /\ \A k \in 1 .. w : t.wire[l + k] = Byte(<<e, d>>, s.crlf, k)
  <2>1. PICK more \in Seq(Symbol) : more = Sse(e, d, s.crlf)
    BY <1>3
  <2>2. /\ Len(s.wire \o more) = Len(s.wire) + Len(more)
        /\ \A i \in 1 .. Len(s.wire) + Len(more) :
             (s.wire \o more)[i] = IF i <= Len(s.wire) THEN s.wire[i] ELSE more[i - Len(s.wire)]
    <3>1. PICK wire \in Seq(Symbol) : wire = s.wire
      BY <1>1
    <3>2. /\ Len(wire \o more) = Len(wire) + Len(more)
          /\ \A i \in 1 .. Len(wire) + Len(more) :
               (wire \o more)[i] = IF i <= Len(wire) THEN wire[i] ELSE more[i - Len(wire)]
      BY ConcatProperties
    <3> QED BY <3>1, <3>2
  <2>3. Len(more) = w /\ t.wire = s.wire \o more
    BY <1>3, <2>1
  <2> HIDE DEF w, l
  <2>4. /\ Len(t.wire) = l + w
        /\ \A i \in 1 .. l + w : t.wire[i] = IF i <= l THEN s.wire[i] ELSE more[i - l]
    BY <2>2, <2>3 DEF l
  <2>5. \A k \in 1 .. l : k \in 1 .. l + w /\ k <= l
    BY <1>1
  <2>6. \A k \in 1 .. w : l + k \in 1 .. l + w /\ ~(l + k <= l) /\ (l + k) - l = k
    BY <1>1
  <2>7. \A k \in 1 .. l : t.wire[k] = s.wire[k]
    BY <2>4, <2>5
  <2>8. \A k \in 1 .. w : t.wire[l + k] = more[k]
    BY <2>4, <2>6
  <2>9. \A k \in 1 .. w : more[k] = Byte(<<e, d>>, s.crlf, k)
    BY <1>3, <2>1 DEF w
  <2> QED BY <2>4, <2>7, <2>8, <2>9
<1>5. w * c + o + l = w * n
  BY DEF Reached
<1>6. o \in 0 .. w - 1 /\ c \in Nat
  OBVIOUS
<1>7. Reached(t, c, o)
  <2>1. Count(t) = n + 1
    OBVIOUS
  <2>2. Width(t.crlf) = w
    OBVIOUS
  <2> HIDE DEF w, n, l
  <2>3. w * c + o + Len(t.wire) = w * Count(t)
    <3>1. w * (n + 1) = w * n + w /\ w * n \in Nat /\ w * c \in Nat
      BY <1>1, <1>2, <1>6
    <3>2. \A x, y \in Nat : x + o + l = y => x + o + (l + w) = y + w
      BY <1>1, <1>6
    <3>3. w * c + o + (l + w) = w * n + w
      BY <1>5, <3>1, <3>2
    <3> QED BY <1>4, <2>1, <3>1, <3>3
  <2>4. w * c + o + Len(t.wire) <= w * Count(t)
    <3>1. w * Count(t) \in Nat
      BY <1>1, <2>1
    <3>2. \A x, y : x = y /\ y \in Nat => x <= y
      OBVIOUS
    <3> QED BY <2>3, <3>1, <3>2
  <2> QED BY <2>2, <2>3, <2>4 DEF Reached
<1>8. Carries(t, c, o)
  <2> SUFFICES ASSUME NEW k \in 1 .. Len(t.wire), NEW i \in Nat, NEW j \in 0 .. Width(t.crlf) - 1,
                      Width(t.crlf) * i + j + 1 = Width(t.crlf) * c + o + k
               PROVE  t.wire[k] = Byte(LineAt(t, i + 1), t.crlf, j + 1)
    BY DEF Carries
  <2>0. /\ k \in 1 .. l + w /\ j \in 0 .. w - 1 /\ w * i + j + 1 = w * c + o + k
        /\ t.crlf = s.crlf
    BY <1>4
  <2>1. CASE k \in 1 .. l
    <3>1. s.wire[k] = Byte(LineAt(s, i + 1), s.crlf, j + 1)
      BY <2>0, <2>1 DEF Carries
    <3>2. i + 1 \in 1 .. n
      <4> HIDE DEF w, n, l
      <4>1. w * i + j + 1 <= w * n
        <5>1. w * i \in Nat /\ w * c \in Nat /\ w * n \in Nat
          BY <1>1, <1>6
        <5>2. \A x \in Nat : x + o + k <= x + o + l
          BY <1>1, <1>6, <2>1
        <5> QED BY <1>5, <2>0, <5>1, <5>2
      <4>2. i + 1 <= n
        BY <1>1, <1>2, <2>0, <4>1
      <4> QED BY <1>1, <4>2
    <3>3. LineAt(t, i + 1) = LineAt(s, i + 1)
      BY <3>2
    <3> HIDE DEF w, n, l
    <3> QED BY <1>4, <2>0, <2>1, <3>1, <3>3
  <2>2. CASE k \notin 1 .. l
    <3> DEFINE x == k - l
    <3>1. x \in 1 .. w /\ k = l + x
      <4> HIDE DEF w, l
      <4> QED BY <1>1, <2>0, <2>2
    <3>2. i = n /\ j + 1 = x
      <4> HIDE DEF w, n, l, x
      <4>1. w * i + j + 1 = w * n + x
        <5>1. w * c \in Nat /\ w * n \in Nat /\ w * i \in Nat
          BY <1>1, <1>6
        <5>2. \A y \in Nat : y + o + k = (y + o + l) + x
          BY <1>1, <1>6, <3>1
        <5>3. w * c + o + k = (w * c + o + l) + x
          BY <5>1, <5>2
        <5>4. w * c + o + k = w * n + x
          BY <1>5, <5>3
        <5> QED BY <2>0, <5>4
      <4>2. n \in Nat /\ j \in 0 .. w - 1 /\ x \in 1 .. w
        BY <1>1, <2>0, <3>1
      <4>3. \A i1, m \in Nat, j1 \in 0 .. w - 1, x1 \in 1 .. w :
              w * i1 + j1 + 1 = w * m + x1 => i1 = m /\ j1 + 1 = x1
        BY <1>2
      <4> QED BY <4>1, <4>2, <4>3
    <3>3. LineAt(t, i + 1) = <<e, d>>
      BY <3>2
    <3> HIDE DEF w, n, l, x
    <3> QED BY <1>4, <2>0, <3>1, <3>2, <3>3
  <2> QED BY <2>1, <2>2
<1> QED BY <1>7, <1>8

\* Some of what is on its way is lost.
LEMMA LosesRest ==
  ASSUME NEW s \in Server, NEW t \in Server, NEW c \in Nat, NEW o \in 0 .. Width(s.crlf) - 1,
         NEW n \in 0 .. Len(s.wire), Reached(s, c, o), Carries(s, c, o),
         t.crlf = s.crlf, t.wire = SubSeq(s.wire, 1, n), t.end = "broken",
         Count(s) <= Count(t), \A i \in 1 .. Count(s) : LineAt(t, i) = LineAt(s, i)
  PROVE  Reached(t, c, o) /\ Carries(t, c, o)
<1> DEFINE w == Width(s.crlf)
           l == Len(s.wire)
           all == Count(s)
<1>1. /\ w \in Nat \ {0} /\ \A i \in Nat : w * i \in Nat
      /\ all \in Nat /\ s.crlf \in BOOLEAN /\ l \in Nat /\ s.wire \in Seq(Symbol)
      /\ Count(t) \in Nat
  BY CountIs
<1>2. /\ \A i, m \in Nat : i <= m => w * i <= w * m
      /\ \A i, m \in Nat, j \in 0 .. w - 1 : w * i + j + 1 <= w * m => i + 1 <= m
  <2>1. \A i, m \in Nat : i <= m => w * i <= w * m
    BY <1>1 DEF Width
  <2> QED BY <1>1, <2>1, Widths
<1>3. Len(t.wire) = n /\ \A k \in 1 .. n : k \in 1 .. l /\ t.wire[k] = s.wire[k]
  <2>1. 0 \in Nat /\ n \in Nat /\ 0 <= n /\ n <= Len(s.wire)
    BY <1>1
  <2>2. /\ Len(SubSeq(s.wire, 0 + 1, n)) = n - 0
        /\ \A i \in 1 .. n - 0 : SubSeq(s.wire, 0 + 1, n)[i] = s.wire[0 + i]
    BY <1>1, <2>1, SubSeqShape
  <2>3. 0 + 1 = 1 /\ n - 0 = n
    BY <2>1
  <2>4. \A i \in 1 .. n : 0 + i = i /\ i \in 1 .. l
    <3>1. \A x, y \in Nat : x <= y => \A i \in 1 .. x : 0 + i = i /\ i \in 1 .. y
      OBVIOUS
    <3>2. n \in Nat /\ l \in Nat /\ n <= l
      BY <1>1, <2>1
    <3> HIDE DEF l
    <3> QED BY <3>1, <3>2
  <2>5. Len(SubSeq(s.wire, 1, n)) = n /\ \A i \in 1 .. n : SubSeq(s.wire, 1, n)[i] = s.wire[0 + i]
    BY <2>2, <2>3
  <2> QED BY <2>4, <2>5
<1>4. w * c + o + l <= w * all
  BY DEF Reached
<1>5. o \in 0 .. w - 1 /\ c \in Nat
  OBVIOUS
<1>6. Width(t.crlf) = w /\ all <= Count(t)
  OBVIOUS
<1>7. n \in Nat /\ n <= l
  BY <1>1
<1>8. Reached(t, c, o)
  <2> HIDE DEF w, all, l
  <2>1. w * all <= w * Count(t) /\ w * c \in Nat /\ w * all \in Nat /\ w * Count(t) \in Nat
    BY <1>1, <1>2, <1>5, <1>6
  <2>2. w * c + o + n <= w * Count(t)
    BY <1>1, <1>4, <1>5, <1>7, <2>1
  <2> QED BY <1>3, <1>6, <2>2 DEF Reached
<1>9. Carries(t, c, o)
  <2> SUFFICES ASSUME NEW k \in 1 .. n, NEW i \in Nat, NEW j \in 0 .. w - 1,
                      w * i + j + 1 = w * c + o + k
               PROVE  t.wire[k] = Byte(LineAt(t, i + 1), s.crlf, j + 1)
    BY <1>3 DEF Carries
  <2>1. k \in 1 .. l
    BY <1>3
  <2>2. s.wire[k] = Byte(LineAt(s, i + 1), s.crlf, j + 1)
    BY <2>1 DEF Carries
  <2>3. i + 1 \in 1 .. all
    <3> HIDE DEF w, all, l
    <3>1. w * i \in Nat /\ w * c \in Nat /\ w * all \in Nat
      BY <1>1, <1>5
    <3>2. w * i + j + 1 <= w * all
      BY <1>1, <1>4, <1>5, <2>1, <3>1
    <3>3. i + 1 <= all
      BY <1>1, <1>2, <3>2
    <3> QED BY <1>1, <3>3
  <2>4. LineAt(t, i + 1) = LineAt(s, i + 1)
    BY <2>3
  <2> QED BY <1>3, <2>2, <2>4
<1> QED BY <1>8, <1>9

\* A place further on, in what is left.
LEMMA Shifted ==
  ASSUME NEW n \in Nat, NEW l \in Nat, NEW k \in 1 .. l - n
  PROVE  n + k \in 1 .. l
OBVIOUS

\* Some of it is read.
LEMMA ReadsSome ==
  ASSUME NEW s \in Server, NEW t \in Server, NEW c \in Nat, NEW o \in 0 .. Width(s.crlf) - 1,
         NEW d \in Nat, NEW p \in 0 .. Width(s.crlf) - 1, NEW n \in 0 .. Len(s.wire),
         Reached(s, c, o), Carries(s, c, o),
         Width(s.crlf) * d + p = Width(s.crlf) * c + o + n,
         t = [s EXCEPT !.wire = SubSeq(s.wire, n + 1, Len(s.wire))]
  PROVE  Reached(t, d, p) /\ Carries(t, d, p)
<1> DEFINE w == Width(s.crlf)
           l == Len(s.wire)
<1>1. /\ w \in Nat \ {0} /\ \A i \in Nat : w * i \in Nat
      /\ l \in Nat /\ s.wire \in Seq(Symbol) /\ n \in Nat /\ n <= l
  <2>1. /\ w \in Nat \ {0} /\ \A i \in Nat : w * i \in Nat
        /\ l \in Nat /\ s.wire \in Seq(Symbol)
    BY CountIs
  <2>2. n \in Nat /\ n <= l
    BY <2>1
  <2> QED BY <2>1, <2>2
<1>2. /\ t.wire = SubSeq(s.wire, n + 1, Len(s.wire)) /\ t.crlf = s.crlf /\ t.sent = s.sent
      /\ t.end = s.end /\ t.pc = s.pc /\ t.grounded = s.grounded
  BY DEF Server
<1>3. Len(t.wire) = l - n /\ \A k \in 1 .. l - n : t.wire[k] = s.wire[n + k]
  <2>1. l \in Nat /\ l <= Len(s.wire) /\ n \in Nat /\ n <= l
    <3>1. l \in Nat /\ n \in Nat /\ n <= l
      BY <1>1
    <3>2. PICK m \in Nat : m = l
      BY <3>1
    <3>3. m <= m
      OBVIOUS
    <3>4. l <= Len(s.wire)
      BY <3>2, <3>3
    <3> HIDE DEF l
    <3> QED BY <3>1, <3>4
  <2>2. /\ Len(SubSeq(s.wire, n + 1, l)) = l - n
        /\ \A i \in 1 .. l - n : SubSeq(s.wire, n + 1, l)[i] = s.wire[n + i]
    <3>1. PICK wire \in Seq(Symbol), x \in Nat, y \in Nat : wire = s.wire /\ x = n /\ y = l
      BY <1>1, <2>1
    <3> HIDE DEF l
    <3>2. x <= y /\ y <= Len(wire)
      BY <2>1, <3>1
    <3>3. /\ Len(SubSeq(wire, x + 1, y)) = y - x
          /\ \A i \in 1 .. y - x : SubSeq(wire, x + 1, y)[i] = wire[x + i]
      BY <3>2, SubSeqShape, SMTT(20)
    <3> QED BY <3>1, <3>3
  <2> QED BY <1>2, <2>2
<1>4. Count(t) = Count(s) /\ \A i : LineAt(t, i) = LineAt(s, i)
  BY <1>2 DEF Count, LineAt
<1>5. /\ w * c + o + l <= w * Count(s)
      /\ s.end # "broken" => w * c + o + l = w * Count(s)
  BY DEF Reached
<1>6. o \in 0 .. w - 1 /\ p \in 0 .. w - 1 /\ c \in Nat /\ d \in Nat /\ w * d + p = w * c + o + n
  OBVIOUS
<1>7. Reached(t, d, p)
  <2>1. Width(t.crlf) = w
    BY <1>2
  <2> HIDE DEF w, l
  <2>2. w * d + p + Len(t.wire) = w * c + o + l
    <3>1. w * d \in Nat /\ w * c \in Nat
      BY <1>1, <1>6
    <3>2. o \in Int /\ p \in Int /\ n \in Int /\ l \in Int
      BY <1>1, <1>6
    <3>3. \A x, y \in Int : y + p = x + o + n => y + p + (l - n) = x + o + l
      BY <3>2
    <3>4. w * d + p + (l - n) = w * c + o + l
      BY <1>6, <3>1, <3>3
    <3> QED BY <1>3, <3>4
  <2> QED BY <1>2, <1>4, <1>5, <2>1, <2>2 DEF Reached
<1>8. Carries(t, d, p)
  <2> SUFFICES ASSUME NEW k \in 1 .. Len(t.wire), NEW i \in Nat, NEW j \in 0 .. Width(t.crlf) - 1,
                      Width(t.crlf) * i + j + 1 = Width(t.crlf) * d + p + k
               PROVE  t.wire[k] = Byte(LineAt(t, i + 1), t.crlf, j + 1)
    BY DEF Carries
  <2>0. /\ k \in 1 .. l - n /\ j \in 0 .. w - 1 /\ w * i + j + 1 = w * d + p + k
        /\ t.crlf = s.crlf
    BY <1>2, <1>3
  <2>1. n + k \in 1 .. l
    <3>1. n \in Nat /\ l \in Nat /\ k \in 1 .. l - n
      BY <1>1, <2>0
    <3> HIDE DEF l
    <3> QED BY <3>1, Shifted
  <2>2. w * i + j + 1 = w * c + o + (n + k)
    <3> HIDE DEF w, l
    <3>1. w * d \in Nat /\ w * c \in Nat /\ w * i \in Nat
      BY <1>1, <1>6
    <3>2. o \in Nat /\ p \in Nat /\ n \in Nat /\ k \in Nat
      BY <1>1, <1>6, <2>0
    <3>3. \A x, y \in Nat : y + p = x + o + n => y + p + k = x + o + (n + k)
      BY <3>2
    <3>4. w * d + p + k = w * c + o + (n + k)
      BY <1>6, <3>1, <3>3
    <3> QED BY <2>0, <3>4
  <2>3. s.wire[n + k] = Byte(LineAt(s, i + 1), s.crlf, j + 1)
    BY <2>0, <2>1, <2>2 DEF Carries
  <2> QED BY <1>3, <1>4, <2>0, <2>3
<1> QED BY <1>7, <1>8

-----------------------------------------------------------------------------
(* What each handler does to the server, the call and the turn of a        *)
(* question.                                                               *)

\* A beginning of an answer is the one of its length.
LEMMA UpToIs ==
  ASSUME NEW n \in Nat, n <= MaxTokens
  PROVE  UpTo(n) \in Seq(0 .. MaxTokens) /\ UpTo(n) = UpTo(Len(UpTo(n)))
BY UpToGrows

\* A call that reads has handled a beginning of the lines sent.
LEMMA FollowsIs ==
  ASSUME NEW s \in Server, NEW call \in Ask, NEW shown \in Turn, NEW c \in Nat,
         NEW o \in 0 .. Width(s.crlf) - 1, Follows(s, call, shown, c, o)
  PROVE  /\ c <= Count(s) /\ c <= s.sent + 2
         /\ [ask |-> call, turn |-> shown] \in Pair
         /\ Shows([ask |-> call, turn |-> shown], s, c)
<1>1. c <= Count(s) /\ Count(s) <= s.sent + 2 /\ Count(s) \in Nat /\ s.sent \in Nat
  BY WasSent, CountIs DEF Follows
<1> QED BY <1>1 DEF Follows, Pair

\* How many tokens were handled, and that the sources came before them.
LEMMA TokensIs ==
  ASSUME NEW s \in Server, NEW c \in Nat
  PROVE  /\ Tokens(s, c) \in Nat /\ Tokens(s, c) <= MaxTokens
         /\ Tokens(s, c) # 0 => c >= 1
<1>1. s.sent \in Nat /\ s.sent <= MaxTokens /\ MaxTokens \in Nat
  BY CountIs, ChatAssumption
<1> QED BY <1>1 DEF Tokens

\* The catch block.
LEMMA GoodThrows ==
  ASSUME NEW s \in Server, NEW next \in Ask, NEW shown \in Turn, Sound(s, next, shown)
  PROVE  Good([IdleServer EXCEPT !.pc = "over", !.end = "broken", !.grounded = s.grounded],
              [next EXCEPT !.pc = "over", !.buffer = <<>>],
              [shown EXCEPT !.streaming = FALSE, !.error = shown.error \/ ~next.aborted])
<1> DEFINE t == [IdleServer EXCEPT !.pc = "over", !.end = "broken", !.grounded = s.grounded]
           call == [next EXCEPT !.pc = "over", !.buffer = <<>>]
           told == [shown EXCEPT !.streaming = FALSE, !.error = shown.error \/ ~next.aborted]
<1>0. MaxTokens \in Nat /\ <<>> \in Seq(Symbol)
  BY ChatAssumption, EmptySeq
<1>1. /\ t.pc = "over" /\ t.end = "broken" /\ t.grounded = s.grounded
      /\ t \in Server
  <2>1. 0 \in 0 .. MaxTokens
    BY <1>0
  <2>3. s.grounded \in BOOLEAN
    BY DEF Server
  <2>4. PICK idle \in Server : idle = IdleServer
    BY <1>0, <2>1 DEF IdleServer, Server, ServerPC
  <2>5. t = [idle EXCEPT !.pc = "over", !.end = "broken", !.grounded = s.grounded]
    BY <2>4
  <2>6. /\ t.pc = "over" /\ t.end = "broken" /\ t.grounded = s.grounded
        /\ t \in Server
    <3> HIDE DEF t
    <3> QED BY <2>3, <2>5 DEF Server, ServerPC
  <2> QED BY <2>6
<1>2. /\ call.pc = "over" /\ call.buffered = next.buffered
      /\ call \in Ask
  BY <1>0 DEF Ask, AskPC
<1>3. /\ told.answer = shown.answer /\ told.grounded = shown.grounded
      /\ told \in Turn
  <2>1. PICK x \in BOOLEAN : x = (shown.error \/ ~next.aborted)
    BY DEF Turn, Ask
  <2>2. told = [shown EXCEPT !.streaming = FALSE, !.error = x]
    BY <2>1 DEF Turn
  <2> QED BY <2>2 DEF Turn
<1> HIDE DEF t, call, told
<1>4. Good(t, call, told)
  BY <1>1, <1>2, <1>3 DEF Good, Consistent, Waiting, Sound
<1> QED BY <1>4 DEF t, call, told

\* A call that has not been answered goes on waiting, or the page shows nothing yet.
LEMMA GoodWaits ==
  ASSUME NEW s, NEW call, NEW shown, Good(s, call, shown), Waiting(call),
         NEW pc \in {"sending", "refreshing", "resending"}
  PROVE  /\ Good(s, [call EXCEPT !.pc = pc], shown)
         /\ Good(s, [call EXCEPT !.pc = pc], [shown EXCEPT !.streaming = TRUE])
         /\ Good(s, [call EXCEPT !.aborted = TRUE, !.late = TRUE], shown)
<1>1. ASSUME NEW next \in Ask, NEW told \in Turn, Waiting(next),
             next.buffer = call.buffer, next.buffered = call.buffered,
             told.answer = shown.answer, told.cited = shown.cited,
             told.grounded = shown.grounded, told.error = shown.error
      PROVE  Good(s, next, told)
  <2>1. Shows([ask |-> call, turn |-> shown], s, 0) = Shows([ask |-> next, turn |-> told], s, 0)
    BY <1>1 DEF Shows
  <2>2. next.pc # "reading" /\ next.pc # "over"
    BY <1>1 DEF Waiting
  <2> QED BY <1>1, <2>1, <2>2 DEF Good, Sound
<1>2. call \in Ask /\ shown \in Turn
  BY DEF Good
<1>3. /\ [call EXCEPT !.pc = pc] \in Ask /\ Waiting([call EXCEPT !.pc = pc])
      /\ [call EXCEPT !.pc = pc].buffer = call.buffer
      /\ [call EXCEPT !.pc = pc].buffered = call.buffered
  BY <1>2 DEF Ask, AskPC, Waiting
<1>4. /\ [call EXCEPT !.aborted = TRUE, !.late = TRUE] \in Ask
      /\ Waiting([call EXCEPT !.aborted = TRUE, !.late = TRUE])
      /\ [call EXCEPT !.aborted = TRUE, !.late = TRUE].buffer = call.buffer
      /\ [call EXCEPT !.aborted = TRUE, !.late = TRUE].buffered = call.buffered
  BY <1>2 DEF Ask, AskPC, Waiting
<1>5. /\ [shown EXCEPT !.streaming = TRUE] \in Turn
      /\ [shown EXCEPT !.streaming = TRUE].answer = shown.answer
      /\ [shown EXCEPT !.streaming = TRUE].cited = shown.cited
      /\ [shown EXCEPT !.streaming = TRUE].grounded = shown.grounded
      /\ [shown EXCEPT !.streaming = TRUE].error = shown.error
  BY <1>2 DEF Turn
<1> QED BY <1>1, <1>2, <1>3, <1>4, <1>5

\* The page shows what was handled.
LEMMA GoodFlush ==
  ASSUME NEW s, NEW call, NEW shown, Good(s, call, shown), call.frame
  PROVE  Good(s, [call EXCEPT !.frame = FALSE], [shown EXCEPT !.answer = call.buffered])
<1> DEFINE next == [call EXCEPT !.frame = FALSE]
           told == [shown EXCEPT !.answer = call.buffered]
<1>1. s \in Server /\ call \in Ask /\ shown \in Turn
  BY DEF Good
<1>2. /\ next \in Ask /\ next.pc = call.pc /\ next.buffer = call.buffer
      /\ next.buffered = call.buffered /\ next.aborted = call.aborted
  BY <1>1 DEF Ask
<1>3. /\ told \in Turn /\ told.answer = call.buffered /\ told.cited = shown.cited
      /\ told.grounded = shown.grounded /\ told.error = shown.error
  BY <1>1 DEF Ask, Turn
<1> HIDE DEF next, told
<1>4. \A c : Shows([ask |-> call, turn |-> shown], s, c) = Shows([ask |-> next, turn |-> told], s, c)
  BY <1>2, <1>3 DEF Shows
<1>5. Sound(s, next, told)
  BY <1>2, <1>3 DEF Good, Sound
<1>6. Waiting(next) => /\ s = IdleServer /\ next.buffer = <<>> /\ told.answer = <<>>
                       /\ Shows([ask |-> next, turn |-> told], s, 0)
  <2>1. ASSUME Waiting(call)  PROVE call.buffered = <<>>
    <3>1. call.buffered = UpTo(Tokens(s, 0))
      BY <2>1 DEF Good, Shows
    <3>2. Tokens(s, 0) = 0
      BY DEF Tokens
    <3> QED BY <3>1, <3>2 DEF UpTo
  <2>2. Waiting(next) <=> Waiting(call)
    BY <1>2 DEF Waiting
  <2> QED BY <1>2, <1>3, <1>4, <2>1, <2>2 DEF Good
<1>7. next.pc = "reading" =>
        \E c \in Nat, o \in 0 .. Width(s.crlf) - 1 : Follows(s, next, told, c, o)
  BY <1>2, <1>4 DEF Good, Follows
<1>8. ~(next.pc = "over" /\ ~next.aborted /\ s.end = "closed")
  BY <1>2 DEF Good
<1>9. Good(s, next, told)
  BY <1>1, <1>2, <1>3, <1>5, <1>6, <1>7, <1>8 DEF Good
<1> QED BY <1>9 DEF next, told

\* The response begins.
LEMMA GoodAccepted ==
  ASSUME NEW s, NEW call, NEW shown, Good(s, call, shown), Waiting(call),
         NEW grounded \in BOOLEAN, NEW crlf \in BOOLEAN
  PROVE  Good([s EXCEPT !.pc = "citations", !.grounded = grounded, !.crlf = crlf],
              [call EXCEPT !.pc = "reading"], shown)
<1> DEFINE t == [s EXCEPT !.pc = "citations", !.grounded = grounded, !.crlf = crlf]
           next == [call EXCEPT !.pc = "reading"]
<1>1. s \in Server /\ call \in Ask /\ shown \in Turn
  BY DEF Good
<1>2. s = IdleServer /\ call.buffer = <<>> /\ Shows([ask |-> call, turn |-> shown], s, 0)
  BY DEF Good
<1>3. /\ t \in Server /\ t.pc = "citations" /\ t.grounded = grounded /\ t.crlf = crlf
      /\ t.sent = 0 /\ t.wire = <<>> /\ t.end = "open"
  BY <1>1, <1>2 DEF Server, ServerPC, IdleServer
<1>4. /\ next \in Ask /\ next.pc = "reading" /\ next.buffer = <<>>
      /\ next.buffered = call.buffered
  BY <1>1, <1>2 DEF Ask, AskPC
<1> HIDE DEF t, next
<1>5. Consistent(t) /\ Count(t) = 0
  BY <1>3 DEF Consistent, Count
<1>6. /\ shown.cited = FALSE /\ shown.grounded = FALSE /\ shown.error = FALSE
      /\ call.buffered = UpTo(0)
  <2>1. /\ shown.cited = (0 >= 1) /\ shown.grounded = (0 >= 1 /\ s.grounded)
        /\ shown.error = (s.pc = "failed" /\ 0 = s.sent + 2)
        /\ call.buffered = UpTo(Tokens(s, 0))
    BY <1>2 DEF Shows
  <2>2. Tokens(s, 0) = 0 /\ s.pc # "failed"
    BY <1>2 DEF Tokens, IdleServer
  <2>3. (0 >= 1) = FALSE /\ (0 >= 1 /\ s.grounded) = FALSE
    OBVIOUS
  <2>4. (s.pc = "failed" /\ 0 = s.sent + 2) = FALSE
    BY <2>2
  <2> QED BY <2>1, <2>2, <2>3, <2>4, Zenon
<1>7. Shows([ask |-> next, turn |-> shown], t, 0)
  <2>1. Tokens(t, 0) = 0 /\ t.pc # "failed"
    BY <1>3 DEF Tokens
  <2>2. (0 >= 1) = FALSE /\ (0 >= 1 /\ t.grounded) = FALSE
    OBVIOUS
  <2>3. (t.pc = "failed" /\ 0 = t.sent + 2) = FALSE
    BY <2>1
  <2>4. next.buffered = UpTo(Tokens(t, 0))
    BY <1>4, <1>6, <2>1
  <2>5. /\ shown.cited = (0 >= 1) /\ shown.grounded = (0 >= 1 /\ t.grounded)
        /\ shown.error = (t.pc = "failed" /\ 0 = t.sent + 2)
    BY <1>6, <2>2, <2>3, Zenon
  <2> QED BY <2>4, <2>5 DEF Shows
<1>8. Follows(t, next, shown, 0, 0) /\ 0 \in 0 .. Width(t.crlf) - 1
  <2>1. Len(t.wire) = 0 /\ Width(t.crlf) \in Nat \ {0} /\ Width(t.crlf) * 0 = 0
    BY <1>3, EmptySeq DEF Width
  <2>2. Reached(t, 0, 0)
    BY <1>5, <2>1 DEF Reached
  <2>3. Carries(t, 0, 0)
    BY <2>1 DEF Carries
  <2>4. Partial(LineAt(t, 0 + 1), t.crlf, 0) = <<>>
    BY DEF Partial
  <2> QED BY <1>4, <1>7, <2>1, <2>2, <2>3, <2>4 DEF Follows
<1>9. Sound(t, next, shown)
  <2>1. call.buffered = <<>> /\ shown.answer = <<>>
    BY <1>6 DEF Good, UpTo
  <2> QED BY <1>4, <2>1 DEF Good, Sound
<1>10. ~Waiting(next) /\ next.pc # "over"
  BY <1>4 DEF Waiting
<1>11. Good(t, next, shown)
  BY <1>1, <1>3, <1>4, <1>5, <1>8, <1>9, <1>10 DEF Good
<1> QED BY <1>11 DEF t, next

\* The server of a call that reads goes on.
LEMMA GoodServes ==
  ASSUME NEW s, NEW call, NEW shown, Good(s, call, shown), call.pc = "reading",
         NEW t \in Server, Consistent(t), t.crlf = s.crlf, t.grounded = s.grounded,
         s.end = "open", s.pc # "failed", \A i \in 1 .. Count(s) : LineAt(t, i) = LineAt(s, i),
         s.sent <= t.sent, t.pc = "failed" => t.sent = s.sent,
         \A c \in Nat, o \in 0 .. Width(s.crlf) - 1 :
           Reached(s, c, o) /\ Carries(s, c, o) => Reached(t, c, o) /\ Carries(t, c, o)
  PROVE  Good(t, call, shown)
<1>1. s \in Server /\ call \in Ask /\ shown \in Turn
  BY DEF Good
<1>2. \E c \in Nat, o \in 0 .. Width(s.crlf) - 1 : Follows(s, call, shown, c, o)
  BY DEF Good
<1>3. PICK c \in Nat : \E o \in 0 .. Width(s.crlf) - 1 : Follows(s, call, shown, c, o)
  BY <1>2
<1>4. PICK o \in 0 .. Width(s.crlf) - 1 : Follows(s, call, shown, c, o)
  BY <1>3
<1>5. Reached(t, c, o) /\ Carries(t, c, o)
  BY <1>4 DEF Follows
<1>6. Follows(t, call, shown, c, o)
  BY <1>1, <1>4, <1>5, FollowsOn
<1>7. Sound(t, call, shown)
  BY DEF Good, Sound
<1>8. ~Waiting(call) /\ call.pc # "over"
  BY DEF Waiting
<1>9. o \in 0 .. Width(t.crlf) - 1
  OBVIOUS
<1> QED BY <1>1, <1>6, <1>7, <1>8, <1>9 DEF Good

\* One read.
LEMMA GoodRead ==
  ASSUME NEW s, NEW call, NEW shown, Good(s, call, shown), call.pc = "reading",
         NEW n \in 0 .. Len(s.wire)
  PROVE  LET split == Split(Normalise(call.buffer, SubSeq(s.wire, 1, n)))
             after == HandleAll([ask |-> call, turn |-> shown], split.records)
         IN  Good([s EXCEPT !.wire = SubSeq(s.wire, n + 1, Len(s.wire))],
                  [call EXCEPT !.buffer = split.rest, !.buffered = after.ask.buffered,
                               !.frame = after.ask.frame],
                  after.turn)
<1> DEFINE split == Split(Normalise(call.buffer, SubSeq(s.wire, 1, n)))
           both == [ask |-> call, turn |-> shown]
           after == HandleAll(both, split.records)
           t == [s EXCEPT !.wire = SubSeq(s.wire, n + 1, Len(s.wire))]
           next == [call EXCEPT !.buffer = split.rest, !.buffered = after.ask.buffered,
                                !.frame = after.ask.frame]
<1>1. s \in Server /\ call \in Ask /\ shown \in Turn
  BY DEF Good
<1>2. \E c \in Nat, o \in 0 .. Width(s.crlf) - 1 : Follows(s, call, shown, c, o)
  BY DEF Good
<1>3. PICK c \in Nat : \E o \in 0 .. Width(s.crlf) - 1 : Follows(s, call, shown, c, o)
  BY <1>2
<1>4. PICK o \in 0 .. Width(s.crlf) - 1 : Follows(s, call, shown, c, o)
  BY <1>3
<1>5. both \in Pair /\ Shows(both, s, c) /\ Reached(s, c, o) /\ Carries(s, c, o)
      /\ call.buffer = Partial(LineAt(s, c + 1), s.crlf, o)
  BY <1>1, <1>4, FollowsIs DEF Follows
<1>6. PICK d \in Nat, p \in 0 .. Width(s.crlf) - 1 :
        /\ c <= d
        /\ Width(s.crlf) * d + p = Width(s.crlf) * c + o + n
        /\ Parsed(Partial(LineAt(s, c + 1), s.crlf, o) \o SubSeq(s.wire, 1, n),
                  Told(s, c, d), Partial(LineAt(s, d + 1), s.crlf, p))
  BY <1>1, <1>5, ReadsLines
<1>7. split.records = Told(s, c, d) /\ split.rest = Partial(LineAt(s, d + 1), s.crlf, p)
      /\ split.rest \in Seq(Symbol)
  <2>1. split = [records |-> Told(s, c, d), rest |-> Partial(LineAt(s, d + 1), s.crlf, p)]
    BY <1>5, <1>6 DEF Normalise, Parsed
  <2>2. Partial(LineAt(s, d + 1), s.crlf, p) \in Seq(Symbol)
    BY <1>6, ParsedEnds
  <2> QED BY <2>1, <2>2
<1>8. t \in Server /\ t.pc = s.pc /\ t.grounded = s.grounded /\ t.crlf = s.crlf
      /\ t.sent = s.sent /\ t.end = s.end
  <2>1. SubSeq(s.wire, n + 1, Len(s.wire)) \in Seq(Symbol)
    <3>1. s.wire \in Seq(Symbol) /\ Len(s.wire) \in Nat
      BY <1>1, CountIs
    <3>2. n \in Nat /\ n <= Len(s.wire)
      BY <3>1
    <3>3. PICK wire \in Seq(Symbol) : wire = s.wire
      BY <3>1
    <3>4. PICK x \in Nat, y \in Nat : x = n /\ y = Len(s.wire)
      BY <3>1, <3>2
    <3>5. x <= y /\ y <= Len(wire)
      BY <3>1, <3>2, <3>3, <3>4
    <3>6. SubSeq(wire, x + 1, y) \in Seq(Symbol)
      BY <3>5, SubSeqShape
    <3> QED BY <3>3, <3>4, <3>6
  <2> QED BY <1>1, <2>1 DEF Server
<1>9. Reached(t, d, p) /\ Carries(t, d, p)
  BY <1>1, <1>5, <1>6, <1>8, ReadsSome
<1> HIDE DEF t
<1>10. d <= s.sent + 2
  <2>1. p \in 0 .. Width(t.crlf) - 1
    BY <1>8
  <2>2. d <= Count(t) /\ Count(t) <= t.sent + 2 /\ Count(t) \in Nat /\ t.sent \in Nat
    BY <1>8, <1>9, <2>1, WasSent, CountIs
  <2> QED BY <1>8, <2>2
<1>11. after \in Pair /\ Shows(after, s, d) /\ Apart(after) = Apart(both)
  <2> HIDE DEF both
  <2>1. LET told == HandleAll(both, Told(s, c, d))
        IN  told \in Pair /\ Shows(told, s, d) /\ Apart(told) = Apart(both)
    BY <1>1, <1>5, <1>6, <1>10, HandlesLines
  <2> QED BY <1>7, <2>1
<1>12. after.turn.answer = shown.answer
  BY <1>11 DEF Apart
<1> HIDE DEF after, split
<1>13. /\ next \in Ask /\ next.pc = "reading" /\ next.buffer = split.rest
       /\ next.buffered = after.ask.buffered
  BY <1>1, <1>7, <1>11 DEF Ask, Pair
<1>14. after.turn \in Turn
  BY <1>11 DEF Pair
<1> HIDE DEF next
<1>15. Shows([ask |-> next, turn |-> after.turn], t, d)
  <2>1. Tokens(t, d) = Tokens(s, d)
    BY <1>8 DEF Tokens
  <2> QED BY <1>8, <1>11, <1>13, <2>1 DEF Shows
<1>16. Follows(t, next, after.turn, d, p) /\ p \in 0 .. Width(t.crlf) - 1
  <2>1. LineAt(t, d + 1) = LineAt(s, d + 1)
    BY <1>8 DEF LineAt
  <2> QED BY <1>7, <1>8, <1>9, <1>13, <1>15, <2>1 DEF Follows
<1>17. Sound(t, next, after.turn)
  <2>1. next.buffered = UpTo(Tokens(s, d)) /\ after.turn.grounded = (d >= 1 /\ s.grounded)
    BY <1>11, <1>13 DEF Shows
  <2>2. next.buffered = UpTo(Len(next.buffered))
    BY <1>1, <2>1, TokensIs, UpToIs
  <2>3. ASSUME next.buffered # <<>>  PROVE after.turn.grounded = t.grounded
    <3>1. Tokens(s, d) # 0
      BY <2>1, <2>3 DEF UpTo
    <3>2. d >= 1
      BY <1>1, <3>1, TokensIs
    <3> QED BY <1>1, <1>8, <2>1, <3>2 DEF Server
  <2>4. ASSUME shown.answer # <<>>  PROVE after.turn.grounded = t.grounded
    <3>1. shown.grounded = s.grounded
      BY <2>4 DEF Good, Sound
    <3>2. shown.grounded = (c >= 1 /\ s.grounded)
      BY <1>5 DEF Shows
    <3>3. c >= 1 => d >= 1
      BY <1>6
    <3>4. s.grounded \in BOOLEAN
      BY <1>1 DEF Server
    <3> QED BY <1>8, <2>1, <3>1, <3>2, <3>3, <3>4
  <2> QED BY <1>12, <2>2, <2>3, <2>4 DEF Good, Sound
<1>18. ~Waiting(next) /\ next.pc # "over"
  BY <1>13 DEF Waiting
<1>19. Consistent(t)
  BY <1>8 DEF Good, Consistent
<1>20. Good(t, next, after.turn)
  BY <1>8, <1>13, <1>14, <1>16, <1>17, <1>18, <1>19 DEF Good
<1> QED BY <1>20 DEF t, next, after, split

\* The body has ended.
LEMMA GoodEnds ==
  ASSUME NEW s, NEW call, NEW shown, Good(s, call, shown), call.pc = "reading",
         s.wire = <<>>, s.end = "closed"
  PROVE  LET after == HandleAll([ask |-> call, turn |-> shown], <<call.buffer>>)
         IN  Good(s,
                  [call EXCEPT !.pc = "over", !.frame = FALSE,
                               !.buffered = after.ask.buffered, !.buffer = <<>>],
                  [after.turn EXCEPT !.streaming = FALSE, !.answer = after.ask.buffered])
<1> DEFINE both == [ask |-> call, turn |-> shown]
           after == HandleAll(both, <<call.buffer>>)
           next == [call EXCEPT !.pc = "over", !.frame = FALSE,
                                !.buffered = after.ask.buffered, !.buffer = <<>>]
           told == [after.turn EXCEPT !.streaming = FALSE, !.answer = after.ask.buffered]
<1>1. s \in Server /\ call \in Ask /\ shown \in Turn
  BY DEF Good
<1>2. \E c \in Nat, o \in 0 .. Width(s.crlf) - 1 : Follows(s, call, shown, c, o)
  BY DEF Good
<1>3. PICK c \in Nat : \E o \in 0 .. Width(s.crlf) - 1 : Follows(s, call, shown, c, o)
  BY <1>2
<1>4. PICK o \in 0 .. Width(s.crlf) - 1 : Follows(s, call, shown, c, o)
  BY <1>3
<1>5. both \in Pair /\ Shows(both, s, c) /\ Reached(s, c, o)
      /\ call.buffer = Partial(LineAt(s, c + 1), s.crlf, o)
  BY <1>1, <1>4, FollowsIs DEF Follows
<1>6. c = Count(s) /\ o = 0
  BY <1>1, <1>5, WasSent
<1>7. /\ s.sent \in Nat /\ s.sent <= MaxTokens /\ c = s.sent + 2
  <2>1. s.pc # "citations"
    BY DEF Good, Consistent
  <2> QED BY <1>1, <1>6, <2>1, CountIs DEF Count
<1>8. call.buffer = <<>>
  BY <1>5, <1>6 DEF Partial
<1>9. after = both
  <2> HIDE DEF both
  <2> QED BY <1>5, <1>8, HandlesNothing
<1>10. /\ call.buffered = UpTo(s.sent) /\ shown.cited = TRUE
       /\ shown.grounded = s.grounded /\ shown.error = (s.pc = "failed")
  <2>1. /\ call.buffered = UpTo(Tokens(s, c)) /\ shown.cited = (c >= 1)
        /\ shown.grounded = (c >= 1 /\ s.grounded)
        /\ shown.error = (s.pc = "failed" /\ c = s.sent + 2)
    BY <1>5 DEF Shows
  <2>2. Tokens(s, c) = s.sent /\ c >= 1 /\ s.grounded \in BOOLEAN
    BY <1>1, <1>7 DEF Tokens, Server
  <2> QED BY <1>7, <2>1, <2>2
<1>11. after.ask.buffered = call.buffered /\ after.turn = shown
  BY <1>9
<1> HIDE DEF after
<1>12. /\ next \in Ask /\ next.pc = "over" /\ ~next.frame /\ next.buffered = call.buffered
  BY <1>1, <1>11, EmptySeq DEF Ask, AskPC
<1>13. /\ told \in Turn /\ told.answer = call.buffered /\ told.cited = shown.cited
       /\ told.grounded = shown.grounded /\ told.error = shown.error
  BY <1>1, <1>11 DEF Ask, Turn
<1> HIDE DEF next, told
<1>14. Sound(s, next, told)
  <2>1. call.buffered = UpTo(Len(call.buffered))
    BY DEF Good, Sound
  <2> QED BY <1>10, <1>12, <1>13, <2>1 DEF Sound
<1>15. ~Waiting(next) /\ next.pc # "reading"
  BY <1>12 DEF Waiting
<1>16. /\ told.answer = UpTo(s.sent) /\ told.cited /\ told.error = (s.pc = "failed")
  BY <1>10, <1>13
<1>17. Consistent(s)
  BY DEF Good
<1>18. Good(s, next, told)
  BY <1>1, <1>12, <1>13, <1>14, <1>15, <1>16, <1>17 DEF Good
<1> QED BY <1>18 DEF next, told, after

\* The generator yields the next line of its response.
LEMMA GoodSends ==
  ASSUME NEW s, NEW call, NEW shown, Good(s, call, shown), call.pc = "reading",
         NEW e \in Events, NEW d \in 0 .. MaxTokens, NEW pc \in {"answering", "failed", "over"},
         \/ s.pc = "citations" /\ pc = "answering" /\ e = "citations"
              /\ d = (IF s.grounded THEN 1 ELSE 0)
         \/ s.pc = "answering" /\ pc = "answering" /\ e = "token" /\ d = s.sent + 1
         \/ s.pc = "answering" /\ pc = "failed" /\ e = "error" /\ d = 0
         \/ s.pc = "answering" /\ pc = "over" /\ e = "done"
              /\ d = (IF s.grounded THEN 1 ELSE 0)
  PROVE  Good([s EXCEPT !.pc = pc, !.wire = @ \o Sse(e, d, s.crlf),
                        !.end = IF pc \in {"failed", "over"} THEN "closed" ELSE @,
                        !.sent = IF e = "token" THEN d ELSE @],
              call, shown)
<1> DEFINE t == [s EXCEPT !.pc = pc, !.wire = @ \o Sse(e, d, s.crlf),
                          !.end = IF pc \in {"failed", "over"} THEN "closed" ELSE @,
                          !.sent = IF e = "token" THEN d ELSE @]
<1>1. s \in Server /\ Consistent(s)
  BY DEF Good
<1>2. s.sent \in Nat /\ s.crlf \in BOOLEAN /\ s.wire \in Seq(Symbol) /\ MaxTokens \in Nat
  BY <1>1, CountIs, ChatAssumption
<1>3. s.end = "open" /\ s.pc # "failed" /\ (s.pc = "citations" => s.sent = 0)
  BY <1>1 DEF Consistent
<1>4. PICK wire \in Seq(Symbol) : wire = s.wire \o Sse(e, d, s.crlf)
  <2>1. Sse(e, d, s.crlf) \in Seq(Symbol)
    BY <1>2, SseIs
  <2> QED BY <1>2, <2>1, ConcatProperties
<1>5. PICK end \in {"open", "closed", "broken"} :
        end = IF pc \in {"failed", "over"} THEN "closed" ELSE s.end
  BY <1>3
<1>6. PICK sent \in 0 .. MaxTokens : sent = IF e = "token" THEN d ELSE s.sent
  BY <1>1 DEF Server
<1>7. t = [s EXCEPT !.pc = pc, !.wire = wire, !.end = end, !.sent = sent]
  BY <1>1, <1>4, <1>5, <1>6 DEF Server
<1> HIDE DEF t
<1>8. /\ t \in Server /\ t.pc = pc /\ t.wire = wire /\ t.end = end /\ t.sent = sent
      /\ t.crlf = s.crlf /\ t.grounded = s.grounded
  BY <1>1, <1>7 DEF Server, ServerPC
<1>9. sent \in Nat /\ s.sent <= sent /\ (pc = "failed" => sent = s.sent)
  BY <1>2, <1>3, <1>6
<1>10. Consistent(t)
  BY <1>3, <1>5, <1>8 DEF Consistent
<1>11. Count(t) = Count(s) + 1
  BY <1>2, <1>3, <1>5, <1>6, <1>8 DEF Count
<1>12. LineAt(t, Count(s) + 1) = <<e, d>>
  <2>1. CASE s.pc = "citations"
    BY <1>8, <2>1 DEF LineAt, Count
  <2>2. CASE s.pc # "citations"
    <3>1. Count(s) + 1 = s.sent + 2
      BY <1>2, <1>3, <2>2 DEF Count
    <3>2. s.sent + 2 # 1 /\ (s.sent + 2) - 1 = s.sent + 1 /\ ~(s.sent + 1 <= s.sent)
      BY <1>2
    <3> QED BY <1>6, <1>8, <2>2, <3>1, <3>2 DEF LineAt
  <2> QED BY <2>1, <2>2
<1>13. ASSUME NEW i \in 1 .. Count(s)  PROVE LineAt(t, i) = LineAt(s, i)
  <2>1. Count(s) <= s.sent + 1
    BY <1>1, <1>3, CountIs
  <2>2. Count(s) \in Nat
    BY <1>1, CountIs
  <2>3. i - 1 <= s.sent
    BY <1>2, <2>1, <2>2
  <2>4. i - 1 <= sent
    BY <1>2, <1>9, <2>2, <2>3
  <2> QED BY <1>8, <2>3, <2>4 DEF LineAt
<1>14. ASSUME NEW c \in Nat, NEW o \in 0 .. Width(s.crlf) - 1, Reached(s, c, o), Carries(s, c, o)
       PROVE  Reached(t, c, o) /\ Carries(t, c, o)
  <2>1. s.end # "broken"
    BY <1>3
  <2>2. t.wire = s.wire \o Sse(e, d, s.crlf)
    BY <1>4, <1>8
  <2> QED BY <1>1, <1>8, <1>11, <1>12, <1>13, <1>14, <2>1, <2>2, SendsLine
<1>15. Good(t, call, shown)
  BY <1>3, <1>8, <1>9, <1>10, <1>13, <1>14, GoodServes
<1> QED BY <1>15 DEF t

\* The connection is cut.
LEMMA GoodCut ==
  ASSUME NEW s, NEW call, NEW shown, Good(s, call, shown), call.pc = "reading",
         s.end = "open", NEW n \in 0 .. Len(s.wire)
  PROVE  Good([s EXCEPT !.pc = "over", !.end = "broken", !.wire = SubSeq(@, 1, n)], call, shown)
<1> DEFINE t == [s EXCEPT !.pc = "over", !.end = "broken", !.wire = SubSeq(@, 1, n)]
<1>1. s \in Server /\ Consistent(s)
  BY DEF Good
<1>2. s.sent \in Nat /\ s.wire \in Seq(Symbol) /\ Len(s.wire) \in Nat /\ Count(s) \in Nat
  BY <1>1, CountIs
<1>3. s.pc # "failed" /\ (s.pc = "citations" => s.sent = 0)
  BY <1>1 DEF Consistent
<1>4. PICK wire \in Seq(Symbol) : wire = SubSeq(s.wire, 1, n)
  <2>1. n \in Nat /\ n <= Len(s.wire)
    BY <1>2
  <2>2. PICK x \in Nat : x = 0
    OBVIOUS
  <2>3. x <= n /\ x + 1 = 1
    BY <2>1, <2>2
  <2>4. SubSeq(s.wire, x + 1, n) \in Seq(Symbol)
    BY <1>2, <2>1, <2>3, SubSeqShape
  <2> QED BY <2>3, <2>4
<1>5. t = [s EXCEPT !.pc = "over", !.end = "broken", !.wire = wire]
  BY <1>1, <1>4 DEF Server
<1> HIDE DEF t
<1>6. /\ t \in Server /\ t.pc = "over" /\ t.wire = wire /\ t.end = "broken" /\ t.sent = s.sent
      /\ t.crlf = s.crlf /\ t.grounded = s.grounded
  BY <1>1, <1>5 DEF Server, ServerPC
<1>7. Consistent(t)
  BY <1>6 DEF Consistent
<1>8. Count(s) <= s.sent + 1 /\ Count(t) = s.sent + 1 /\ Count(s) <= Count(t)
  <2>1. Count(s) <= s.sent + 1
    BY <1>1, CountIs
  <2>2. Count(t) = s.sent + 1
    BY <1>6 DEF Count
  <2> QED BY <2>1, <2>2
<1>9. ASSUME NEW i \in 1 .. Count(s)  PROVE LineAt(t, i) = LineAt(s, i)
  <2>1. i - 1 <= s.sent
    BY <1>2, <1>8
  <2> QED BY <1>6, <2>1 DEF LineAt
<1>10. ASSUME NEW c \in Nat, NEW o \in 0 .. Width(s.crlf) - 1, Reached(s, c, o), Carries(s, c, o)
       PROVE  Reached(t, c, o) /\ Carries(t, c, o)
  <2>1. t.wire = SubSeq(s.wire, 1, n)
    BY <1>4, <1>6
  <2> QED BY <1>1, <1>6, <1>8, <1>9, <1>10, <2>1, LosesRest
<1>11. s.sent <= t.sent
  BY <1>2, <1>6
<1>12. Good(t, call, shown)
  BY <1>3, <1>6, <1>7, <1>9, <1>10, <1>11, GoodServes
<1> QED BY <1>12 DEF t

-----------------------------------------------------------------------------
(* The invariant, of every question apart: no handler touches what belongs *)
(* to another question, save streaming and abortRef.                       *)

StreamInv ==
  /\ server = [a \in Asks |-> server[a]]
  /\ ask = [a \in Asks |-> ask[a]]
  /\ turn = [a \in Asks |-> turn[a]]
  /\ SharedTyped
  /\ \A a \in Asks : Good(server[a], ask[a], turn[a])

\* A step changes one question.
LEMMA Changes ==
  ASSUME StreamInv, NEW a \in Asks, NEW s, NEW call, NEW shown,
         server' = [server EXCEPT ![a] = s], ask' = [ask EXCEPT ![a] = call],
         turn' = [turn EXCEPT ![a] = shown], Good(s, call, shown), SharedTyped'
  PROVE  StreamInv'
<1>1. /\ server' = [b \in Asks |-> server'[b]]
      /\ ask' = [b \in Asks |-> ask'[b]]
      /\ turn' = [b \in Asks |-> turn'[b]]
  BY DEF StreamInv
<1>2. /\ server'[a] = s /\ ask'[a] = call /\ turn'[a] = shown
      /\ \A b \in Asks : b # a => server'[b] = server[b] /\ ask'[b] = ask[b] /\ turn'[b] = turn[b]
  BY DEF StreamInv
<1>3. ASSUME NEW b \in Asks  PROVE Good(server'[b], ask'[b], turn'[b])
  <2>1. CASE b = a
    BY <1>2, <2>1
  <2>2. CASE b # a
    BY <1>2, <2>2 DEF StreamInv
  <2> QED BY <2>1, <2>2
<1> QED BY <1>1, <1>3 DEF StreamInv

\* What a step leaves alone.
LEMMA Same ==
  ASSUME StreamInv, NEW a \in Asks
  PROVE  /\ server = [server EXCEPT ![a] = server[a]]
         /\ ask = [ask EXCEPT ![a] = ask[a]]
         /\ turn = [turn EXCEPT ![a] = turn[a]]
BY DEF StreamInv

\* A call that throws.
LEMMA ThrowsGood ==
  ASSUME StreamInv, NEW a \in Asks, NEW next \in Ask, Throws(a, next, turn[a]),
         Sound(server[a], next, turn[a])
  PROVE  StreamInv'
<1> DEFINE s == [IdleServer EXCEPT !.pc = "over", !.end = "broken", !.grounded = server[a].grounded]
           call == [next EXCEPT !.pc = "over", !.buffer = <<>>]
           shown == [turn[a] EXCEPT !.streaming = FALSE, !.error = turn[a].error \/ ~next.aborted]
<1>1. server[a] \in Server /\ turn[a] \in Turn
  BY DEF StreamInv, Good
<1>2. Good(s, call, shown)
  BY <1>1, GoodThrows
<1>3. /\ server' = [server EXCEPT ![a] = s] /\ ask' = [ask EXCEPT ![a] = call]
      /\ turn' = [turn EXCEPT ![a] = shown] /\ SharedTyped'
  BY DEF Throws, Hangup, Finally, SharedTyped
<1> HIDE DEF s, call, shown
<1> QED BY <1>2, <1>3, Changes

\* Before any question is asked.
LEMMA InitStreamInv == Init => StreamInv
<1> SUFFICES ASSUME Init PROVE StreamInv
  OBVIOUS
<1>1. MaxTokens \in Nat /\ <<>> \in Seq(Symbol) /\ <<>> \in Seq(0 .. MaxTokens)
  BY ChatAssumption, EmptySeq
<1>2. 0 \in 0 .. MaxTokens
  BY <1>1
<1>3. IdleServer \in Server /\ NewAsk \in Ask /\ NewTurn \in Turn
  BY <1>1, <1>2 DEF IdleServer, NewAsk, NewTurn, Server, ServerPC, Ask, AskPC, Turn
<1>4. UpTo(0) = <<>> /\ Len(<<>>) = 0
  BY EmptySeq DEF UpTo
<1>5. Consistent(IdleServer) /\ Waiting(NewAsk) /\ NewAsk.pc = "new"
  BY DEF IdleServer, Consistent, NewAsk, Waiting
<1>6. Sound(IdleServer, NewAsk, NewTurn)
  BY <1>4 DEF Sound, NewAsk, NewTurn
<1>7. Shows([ask |-> NewAsk, turn |-> NewTurn], IdleServer, 0)
  <2>1. Tokens(IdleServer, 0) = 0
    BY DEF Tokens
  <2>2. (0 >= 1) = FALSE /\ (0 >= 1 /\ IdleServer.grounded) = FALSE
    OBVIOUS
  <2>3. (IdleServer.pc = "failed" /\ 0 = IdleServer.sent + 2) = FALSE
    BY DEF IdleServer
  <2>4. NewTurn.cited = FALSE /\ NewTurn.grounded = FALSE /\ NewTurn.error = FALSE
    BY DEF NewTurn
  <2>5. NewAsk.buffered = UpTo(Tokens(IdleServer, 0))
    BY <1>4, <2>1 DEF NewAsk
  <2>6. /\ NewTurn.cited = (0 >= 1) /\ NewTurn.grounded = (0 >= 1 /\ IdleServer.grounded)
        /\ NewTurn.error = (IdleServer.pc = "failed" /\ 0 = IdleServer.sent + 2)
    BY <2>2, <2>3, <2>4, Zenon
  <2> QED BY <2>5, <2>6 DEF Shows
<1>8. Good(IdleServer, NewAsk, NewTurn)
  <2>1. NewAsk.buffer = <<>> /\ NewTurn.answer = <<>>
    BY DEF NewAsk, NewTurn
  <2>2. NewAsk.pc # "reading" /\ NewAsk.pc # "over"
    BY <1>5
  <2> QED BY <1>3, <1>5, <1>6, <1>7, <2>1, <2>2 DEF Good
<1>9. SharedTyped
  BY DEF Init, SharedTyped
<1>10. \A a \in Asks : server[a] = IdleServer /\ ask[a] = NewAsk /\ turn[a] = NewTurn
  BY DEF Init
<1>11. /\ server = [a \in Asks |-> server[a]] /\ ask = [a \in Asks |-> ask[a]]
       /\ turn = [a \in Asks |-> turn[a]]
  BY DEF Init
<1> QED BY <1>8, <1>9, <1>10, <1>11 DEF StreamInv

\* Whatever happens next, in any order, to any question.
LEMMA NextStreamInv == StreamInv /\ [Next]_vars => StreamInv'
<1> SUFFICES ASSUME StreamInv, [Next]_vars PROVE StreamInv'
  OBVIOUS
<1>0. ASSUME NEW a \in Asks
      PROVE  /\ Good(server[a], ask[a], turn[a])
             /\ server[a] \in Server /\ ask[a] \in Ask /\ turn[a] \in Turn
             /\ Sound(server[a], ask[a], turn[a])
  BY DEF StreamInv, Good
<1>1. ASSUME NEW a \in Asks, Submit(a)  PROVE StreamInv'
  <2> DEFINE call == [ask[a] EXCEPT !.pc = "sending"]
             shown == [turn[a] EXCEPT !.streaming = TRUE]
  <2>1. Waiting(ask[a])
    BY <1>1 DEF Submit, Waiting
  <2>2. Good(server[a], call, shown)
    BY <1>0, <2>1, GoodWaits
  <2>3. /\ server' = [server EXCEPT ![a] = server[a]] /\ ask' = [ask EXCEPT ![a] = call]
        /\ turn' = [turn EXCEPT ![a] = shown] /\ SharedTyped'
    BY <1>1, Same DEF Submit, SharedTyped
  <2> HIDE DEF call, shown
  <2> QED BY <2>2, <2>3, Changes
<1>2. CASE Stop
  <2>1. PICK a \in Asks : a = abortRef
    BY <1>2 DEF Stop, StreamInv, SharedTyped
  <2>2. CASE ask[a].pc = "refreshing"
    <3> DEFINE call == [ask[a] EXCEPT !.aborted = TRUE, !.late = TRUE]
    <3>1. Waiting(ask[a])
      BY <2>2 DEF Waiting
    <3>2. Good(server[a], call, turn[a])
      BY <1>0, <3>1, GoodWaits
    <3>3. /\ ask' = [ask EXCEPT ![a].aborted = TRUE, ![a].late = TRUE]
          /\ streaming' = FALSE /\ abortRef' = NoAsk /\ UNCHANGED <<server, turn>>
      BY <1>2, <2>1, <2>2 DEF Stop
    <3>4. ask' = [ask EXCEPT ![a] = call]
      BY <3>3 DEF StreamInv
    <3>5. /\ server' = [server EXCEPT ![a] = server[a]]
          /\ turn' = [turn EXCEPT ![a] = turn[a]] /\ SharedTyped'
      BY <3>3, Same DEF SharedTyped
    <3> HIDE DEF call
    <3> QED BY <3>2, <3>4, <3>5, Changes
  <2>3. CASE ask[a].pc # "refreshing"
    <3> DEFINE next == [ask[a] EXCEPT !.aborted = TRUE]
    <3>1. Throws(a, next, turn[a])
      BY <1>2, <2>1, <2>3 DEF Stop
    <3>2. next \in Ask /\ next.buffered = ask[a].buffered
      BY <1>0 DEF Ask
    <3> HIDE DEF next
    <3>3. Sound(server[a], next, turn[a])
      BY <1>0, <3>2 DEF Sound
    <3> QED BY <3>1, <3>2, <3>3, ThrowsGood
  <2> QED BY <2>2, <2>3
<1>3. ASSUME NEW a \in Asks, Flush(a)  PROVE StreamInv'
  <2> DEFINE call == [ask[a] EXCEPT !.frame = FALSE]
             shown == [turn[a] EXCEPT !.answer = ask[a].buffered]
  <2>1. Good(server[a], call, shown)
    BY <1>0, <1>3, GoodFlush DEF Flush
  <2>2. /\ server' = [server EXCEPT ![a] = server[a]] /\ ask' = [ask EXCEPT ![a] = call]
        /\ turn' = [turn EXCEPT ![a] = shown] /\ SharedTyped'
    BY <1>3, Same DEF Flush, SharedTyped, StreamInv
  <2> HIDE DEF call, shown
  <2> QED BY <2>1, <2>2, Changes
<1>4. ASSUME NEW a \in Asks, NEW pc \in {"refreshing", "resending"}, Waiting(ask[a]),
             ask' = [ask EXCEPT ![a].pc = pc], UNCHANGED <<server, turn, streaming, abortRef>>
      PROVE  StreamInv'
  <2> DEFINE call == [ask[a] EXCEPT !.pc = pc]
  <2>1. Good(server[a], call, turn[a])
    BY <1>0, <1>4, GoodWaits
  <2>2. /\ server' = [server EXCEPT ![a] = server[a]] /\ ask' = [ask EXCEPT ![a] = call]
        /\ turn' = [turn EXCEPT ![a] = turn[a]] /\ SharedTyped'
    BY <1>4, Same DEF SharedTyped, StreamInv
  <2> HIDE DEF call
  <2> QED BY <2>1, <2>2, Changes
<1>5. ASSUME NEW a \in Asks, Throws(a, ask[a], turn[a])  PROVE StreamInv'
  BY <1>0, <1>5, ThrowsGood
<1>6. ASSUME NEW a \in Asks, Requesting(a)  PROVE StreamInv'
  <2>1. CASE Accepted(a)
    <3>1. PICK grounded \in BOOLEAN, crlf \in BOOLEAN :
            server' = [server EXCEPT ![a] = [@ EXCEPT !.pc = "citations",
                                                      !.grounded = grounded, !.crlf = crlf]]
      BY <2>1 DEF Accepted
    <3> DEFINE s == [server[a] EXCEPT !.pc = "citations", !.grounded = grounded, !.crlf = crlf]
               call == [ask[a] EXCEPT !.pc = "reading"]
    <3>2. Waiting(ask[a])
      BY <2>1 DEF Accepted, Waiting
    <3>3. Good(s, call, turn[a])
      BY <1>0, <3>2, GoodAccepted
    <3>4. /\ server' = [server EXCEPT ![a] = s] /\ ask' = [ask EXCEPT ![a] = call]
          /\ turn' = [turn EXCEPT ![a] = turn[a]] /\ SharedTyped'
      BY <2>1, <3>1, Same DEF Accepted, SharedTyped, StreamInv
    <3> HIDE DEF s, call
    <3> QED BY <3>3, <3>4, Changes
  <2>2. CASE Refused(a)
    BY <1>5, <2>2 DEF Refused
  <2>3. CASE Unauthorized(a)
    BY <1>4, <2>3 DEF Unauthorized, Waiting
  <2>4. CASE Refreshed(a)
    BY <1>4, <1>5, <2>4 DEF Refreshed, Waiting
  <2> QED BY <1>6, <2>1, <2>2, <2>3, <2>4 DEF Requesting
<1>7. ASSUME NEW a \in Asks, Generate(a)  PROVE StreamInv'
  <2>1. ASSUME NEW e \in Events, NEW d \in 0 .. MaxTokens,
               NEW pc \in {"answering", "failed", "over"}, ask[a].pc = "reading",
               \/ server[a].pc = "citations" /\ pc = "answering" /\ e = "citations"
                    /\ d = (IF server[a].grounded THEN 1 ELSE 0)
               \/ server[a].pc = "answering" /\ pc = "answering" /\ e = "token"
                    /\ d = server[a].sent + 1
               \/ server[a].pc = "answering" /\ pc = "failed" /\ e = "error" /\ d = 0
               \/ server[a].pc = "answering" /\ pc = "over" /\ e = "done"
                    /\ d = (IF server[a].grounded THEN 1 ELSE 0),
               Yield(a, e, d, pc)
        PROVE  StreamInv'
    <3> DEFINE s == [server[a] EXCEPT !.pc = pc, !.wire = @ \o Sse(e, d, server[a].crlf),
                       !.end = IF pc \in {"failed", "over"} THEN "closed" ELSE @,
                       !.sent = IF e = "token" THEN d ELSE @]
    <3>1. Good(s, ask[a], turn[a])
      <4>1. Good(server[a], ask[a], turn[a])
        BY <1>0
      <4> QED BY <2>1, <4>1, GoodSends, ZenonT(30)
    <3>2. server' = [server EXCEPT ![a] = s]
      BY <2>1 DEF Yield
    <3>3. /\ ask' = [ask EXCEPT ![a] = ask[a]] /\ turn' = [turn EXCEPT ![a] = turn[a]]
          /\ SharedTyped'
      BY <1>7, Same DEF Generate, SharedTyped, StreamInv
    <3> HIDE DEF s
    <3> QED BY <3>1, <3>2, <3>3, Changes
  <2>2. /\ 0 \in 0 .. MaxTokens /\ 1 \in 0 .. MaxTokens /\ MaxTokens \in Nat
        /\ server[a].sent \in Nat
    <3>1. server[a].sent \in Nat
      BY <1>0, CountIs
    <3>2. /\ 0 \in 0 .. MaxTokens /\ 1 \in 0 .. MaxTokens /\ MaxTokens \in Nat
      BY ChatAssumption
    <3> QED BY <3>1, <3>2
  <2>3. CASE SendCitations(a)
    BY <2>1, <2>2, <2>3 DEF SendCitations, Serving, Events
  <2>4. CASE SendToken(a)
    <3>1. server[a].sent + 1 \in 0 .. MaxTokens
      BY <2>2, <2>4, ChatAssumption DEF SendToken
    <3> QED BY <2>1, <2>4, <3>1 DEF SendToken, Serving, Events
  <2>5. CASE SendError(a)
    BY <2>1, <2>2, <2>5 DEF SendError, Serving, Events
  <2>6. CASE SendDone(a)
    BY <2>1, <2>2, <2>6 DEF SendDone, Serving, Events
  <2> QED BY <1>7, <2>3, <2>4, <2>5, <2>6 DEF Generate
<1>8. ASSUME NEW a \in Asks, Cut(a)  PROVE StreamInv'
  <2>1. PICK n \in 0 .. Len(server[a].wire) :
          server' = [server EXCEPT ![a] =
                       [@ EXCEPT !.pc = "over", !.end = "broken",
                                 !.wire = SubSeq(server[a].wire, 1, n)]]
    BY <1>8 DEF Cut
  <2> DEFINE s == [server[a] EXCEPT !.pc = "over", !.end = "broken", !.wire = SubSeq(@, 1, n)]
  <2>2. Good(s, ask[a], turn[a])
    BY <1>0, <1>8, GoodCut DEF Cut
  <2>3. server' = [server EXCEPT ![a] = s]
    BY <2>1
  <2>4. /\ ask' = [ask EXCEPT ![a] = ask[a]] /\ turn' = [turn EXCEPT ![a] = turn[a]]
        /\ SharedTyped'
    BY <1>8, Same DEF Cut, SharedTyped, StreamInv
  <2> HIDE DEF s
  <2> QED BY <2>2, <2>3, <2>4, Changes
<1>9. ASSUME NEW a \in Asks, Read(a)  PROVE StreamInv'
  <2>1. PICK n \in 1 .. Len(server[a].wire) :
          \E text \in {Normalise(ask[a].buffer, SubSeq(server[a].wire, 1, n))} :
          \E split \in {Split(text)} :
          \E after \in {HandleAll(Both(a), split.records)} :
            /\ ask' = [ask EXCEPT ![a] = [@ EXCEPT !.buffer = split.rest,
                         !.buffered = after.ask.buffered, !.frame = after.ask.frame]]
            /\ turn' = [turn EXCEPT ![a] = after.turn]
            /\ server' = [server EXCEPT ![a].wire = SubSeq(@, n + 1, Len(@))]
    BY <1>9, Zenon DEF Read
  <2> DEFINE split == Split(Normalise(ask[a].buffer, SubSeq(server[a].wire, 1, n)))
             after == HandleAll(Both(a), split.records)
             call == [ask[a] EXCEPT !.buffer = split.rest, !.buffered = after.ask.buffered,
                                    !.frame = after.ask.frame]
             s == [server[a] EXCEPT !.wire = SubSeq(server[a].wire, n + 1, Len(server[a].wire))]
  <2>2. n \in 0 .. Len(server[a].wire)
    BY <1>0, CountIs
  <2>3. Good(s, call, after.turn)
    BY <1>0, <1>9, <2>2, GoodRead DEF Read, Both
  <2>4. ask' = [ask EXCEPT ![a] = call] /\ turn' = [turn EXCEPT ![a] = after.turn]
    BY <2>1, Zenon
  <2>5. server' = [server EXCEPT ![a] = s]
    BY <2>1
  <2>6. SharedTyped'
    BY <1>9 DEF Read, SharedTyped, StreamInv
  <2> HIDE DEF s, call, after, split
  <2> QED BY <2>3, <2>4, <2>5, <2>6, Changes
<1>10. ASSUME NEW a \in Asks, ReadEnd(a)  PROVE StreamInv'
  <2> DEFINE after == HandleAll([ask |-> ask[a], turn |-> turn[a]], <<ask[a].buffer>>)
             call == [ask[a] EXCEPT !.pc = "over", !.frame = FALSE,
                                    !.buffered = after.ask.buffered, !.buffer = <<>>]
             shown == [after.turn EXCEPT !.streaming = FALSE, !.answer = after.ask.buffered]
  <2>1. Good(server[a], call, shown)
    BY <1>0, <1>10, GoodEnds DEF ReadEnd
  <2>2. ask' = [ask EXCEPT ![a] = call] /\ turn' = [turn EXCEPT ![a] = shown]
    BY <1>10 DEF ReadEnd, Both
  <2>3. server' = [server EXCEPT ![a] = server[a]] /\ SharedTyped'
    BY <1>10, Same DEF ReadEnd, Finally, SharedTyped, StreamInv
  <2> HIDE DEF call, shown, after
  <2> QED BY <2>1, <2>2, <2>3, Changes
<1>11. ASSUME NEW a \in Asks, ReadFails(a)  PROVE StreamInv'
  BY <1>5, <1>11 DEF ReadFails
<1>12. CASE UNCHANGED vars
  BY <1>12 DEF vars, StreamInv, SharedTyped
<1> QED BY <1>1, <1>2, <1>3, <1>6, <1>7, <1>8, <1>9, <1>10, <1>11, <1>12 DEF Next, Reading

\* In every reachable state.
LEMMA AlwaysStreamInv == Spec => []StreamInv
BY InitStreamInv, NextStreamInv, PTL DEF Spec

\* The types of the generator, the connection, the call and the turn, for answers of
\* any length: no token, buffer or text leaves its range.
THEOREM ChatTyped == Spec => []TypeOK
<1>1. StreamInv => TypeOK
  <2> SUFFICES ASSUME StreamInv PROVE TypeOK
    OBVIOUS
  <2>1. \A a \in Asks : server[a] \in Server /\ ask[a] \in Ask /\ turn[a] \in Turn
    BY DEF StreamInv, Good
  <2> HIDE DEF StreamInv
  <2>2. /\ server = [a \in Asks |-> server[a]] /\ ask = [a \in Asks |-> ask[a]]
        /\ turn = [a \in Asks |-> turn[a]] /\ SharedTyped
    BY DEF StreamInv
  <2>3. server \in [Asks -> Server] /\ ask \in [Asks -> Ask] /\ turn \in [Asks -> Turn]
    BY <2>1, <2>2
  <2> QED BY <2>2, <2>3 DEF TypeOK, SharedTyped
<1> QED BY <1>1, AlwaysStreamInv, PTL

\* However _sse's bytes were cut on their way, CR NL included, and wherever a stream was
\* cut or stopped: what parseSse and the hook put on the page is a beginning of the
\* answer, every token once and in order.
THEOREM NothingOutOfTurn == Spec => []ShowsAPrefix
<1>1. StreamInv => ShowsAPrefix
  BY DEF StreamInv, Good, Sound, ShowsAPrefix
<1> QED BY <1>1, AlwaysStreamInv, PTL

\* A response that was received to its end is shown to its end: ask waits for no frame
\* when the body ends (useChatStream.ts), and a stream that failed in the middle of the
\* answer ends with its error shown.
THEOREM WholeAnswerShown == Spec => []EndIsShown
<1>1. StreamInv => EndIsShown
  BY DEF StreamInv, Good, EndIsShown
<1> QED BY <1>1, AlwaysStreamInv, PTL

\* The sources are there before the text (chat.py:81), so the remark that no matching
\* policy text was found (Chat.tsx:142) is shown for refusals only.
THEOREM RefusalsOnly == Spec => []RefusalNoticeIsTrue
<1>1. StreamInv => RefusalNoticeIsTrue
  BY DEF StreamInv, Good, Sound, RefusalNoticeIsTrue
<1> QED BY <1>1, AlwaysStreamInv, PTL
=============================================================================
