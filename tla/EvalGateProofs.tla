---------------------------- MODULE EvalGateProofs ----------------------------
(***************************************************************************)
(* Proofs about the gate for any golden set, any cases and any number of   *)
(* saves, checks and failed runs.                                          *)
(*                                                                         *)
(* That the mean of a metric is a number at all rests on an induction over *)
(* the cases (SumIsNat); from then on one invariant, GateInv, says what    *)
(* the file holds and what the last check compared it with.                *)
(***************************************************************************)
EXTENDS EvalGate, DataTheorems

LEMMA Quotient == \A n \in Nat, d \in Nat \ {0} : n \div d \in Nat
OBVIOUS

LEMMA CreditIsNat ==
  ASSUME NEW metric \in Metrics, NEW c \in Cases, NEW hit \in Hits, NEW answer \in Answers
  PROVE  Credit(metric, c, hit, answer) \in Nat
<1>1. Rank(c, hit) \in 0 .. 10
  BY EvalAssumption DEF Rank
<1>2. Rank(c, hit) # 0 => Scale \div Rank(c, hit) \in Nat
  BY <1>1, Quotient DEF Scale
<1> QED BY <1>1, <1>2 DEF Credit, Metrics, AnswerMetrics, Scale

\* The credits of any of the cases add up to a number.
LEMMA SumIsNat ==
  ASSUME NEW metric \in Metrics, NEW hit \in [Cases -> Hits], NEW answer \in [Cases -> Answers],
         NEW over \in SUBSET Cases
  PROVE  Total(metric, over, hit, answer) \in Nat
<1> DEFINE credit(c) == Credit(metric, c, hit[c], answer[c])
           pick == [s \in SUBSET over |-> CHOOSE x \in s : TRUE]
           step == [x \in over |-> [v \in Nat |-> credit(x) + v]]
           Sums(g) == g = [s \in SUBSET over |->
                             IF s = {} THEN 0
                             ELSE credit(CHOOSE x \in s : TRUE)
                                    + g[s \ {CHOOSE x \in s : TRUE}]]
           sum == CHOOSE g : Sums(g)
<1>1. /\ IsFiniteSet(over)
      /\ \A x \in over : credit(x) \in Nat
  BY EvalAssumption, FS_Subset, CreditIsNat
<1>2. Total(metric, over, hit, answer) = sum[over]
  BY DEF Total, MapThenSumSet, MapThenFoldSet
<1> HIDE DEF credit
<1>3. step \in [over -> [Nat -> Nat]]
  BY <1>1
<1>4. \A s \in SUBSET over : s # {} => pick[s] = (CHOOSE x \in s : TRUE) /\ pick[s] \in s
  OBVIOUS
<1>5. \E g : Sums(g)
  <2>1. \E g \in [SUBSET over -> Nat] :
          Recursion(g, over, 0, step, pick)
    <3>1. IsFiniteSet(over) /\ 0 \in Nat /\ \A s \in SUBSET over : s # {} => pick[s] \in s
      BY <1>1, <1>4
    <3> HIDE DEF step, pick
    <3> QED BY <1>3, <3>1, SubsetRecursion
  <2>2. PICK g \in [SUBSET over -> Nat] :
          Recursion(g, over, 0, step, pick)
    BY <2>1
  <2>3. \A s \in SUBSET over : s # {} =>
          step[pick[s]][g[s \ {pick[s]}]] = credit(pick[s]) + g[s \ {pick[s]}]
    <3> SUFFICES ASSUME NEW s \in SUBSET over, s # {}
                 PROVE  step[pick[s]][g[s \ {pick[s]}]] = credit(pick[s]) + g[s \ {pick[s]}]
      OBVIOUS
    <3>1. pick[s] \in over /\ g[s \ {pick[s]}] \in Nat
      BY <1>4
    <3> HIDE DEF pick
    <3> QED BY <3>1
  <2>4. \A s \in SUBSET over :
          g[s] = IF s = {} THEN 0
                 ELSE credit(CHOOSE x \in s : TRUE) + g[s \ {CHOOSE x \in s : TRUE}]
    <3> HIDE DEF step, pick
    <3> QED BY <1>4, <2>2, <2>3 DEF Recursion
  <2>5. Sums(g)
    BY <2>4
  <2> QED BY <2>5
<1>6. Sums(sum)
  <2> HIDE DEF Sums
  <2> QED BY <1>5
<1> DEFINE A == {s \in SUBSET over : sum[s] \in Nat}
<1>7. ASSUME NEW s \in SUBSET over, \A x \in s : s \ {x} \in A
      PROVE  s \in A
  <2> HIDE DEF sum
  <2>1. sum[s] = IF s = {} THEN 0 ELSE credit(pick[s]) + sum[s \ {pick[s]}]
    BY <1>4, <1>6
  <2>2. s # {} => pick[s] \in over /\ sum[s \ {pick[s]}] \in Nat /\ credit(pick[s]) \in Nat
    BY <1>1, <1>4, <1>7
  <2> HIDE DEF pick
  <2> QED BY <2>1, <2>2
<1>8. over \in A
  <2> HIDE DEF A
  <2> QED BY <1>1, <1>7, FiniteSetInduct
<1> QED BY <1>2, <1>8

\* A summary is a number per metric, and 0 for a metric the run did not take.
LEMMA SummaryShape ==
  ASSUME NEW args \in Args, NEW hit \in [Cases -> Hits], NEW answer \in [Cases -> Answers]
  PROVE  /\ Summarise(args, hit, answer) \in [Metrics -> Nat]
         /\ \A metric \in Metrics \ TakenBy(args) : Summarise(args, hit, answer)[metric] = 0
<1> DEFINE over(metric) == IF metric \in TakenBy(args) THEN Denominator(metric, answer) ELSE {}
           share(metric) ==
             Frac(Total(metric, over(metric), hit, answer), Cardinality(over(metric)))
<1>1. Summarise(args, hit, answer) = [metric \in Metrics |-> share(metric)]
  BY DEF Summarise
<1>2. ASSUME NEW metric \in Metrics  PROVE share(metric) \in Nat
  <2>1. over(metric) \in SUBSET Cases
    BY <1>2, EvalAssumption DEF Denominator, Scored, Answerable, Metrics, AnswerMetrics
  <2>2. IsFiniteSet(over(metric)) /\ Cardinality(over(metric)) \in Nat
    BY <2>1, EvalAssumption, FS_Subset, FS_CardinalityType
  <2> HIDE DEF over
  <2>3. Total(metric, over(metric), hit, answer) \in Nat
    BY <1>2, <2>1, SumIsNat
  <2> QED BY <2>2, <2>3, Quotient DEF Frac
<1>3. ASSUME NEW metric \in Metrics \ TakenBy(args)  PROVE share(metric) = 0
  <2>1. Cardinality(over(metric)) = 0
    BY <1>3, FS_EmptySet
  <2> QED BY <2>1 DEF Frac
<1> HIDE DEF share
<1> QED BY <1>1, <1>2, <1>3

-----------------------------------------------------------------------------
\* The baseline holds, of every metric, what the last save of a run that took it
\* has recorded, and 0 before there was one.
Faithful ==
  IF baseline = NoBaseline THEN \A metric \in Metrics : known[metric] = NoBaseline
  ELSE /\ baseline \in [Metrics -> Nat]
       /\ \A metric \in Metrics :
            \/ known[metric] = baseline[metric]
            \/ known[metric] = NoBaseline /\ baseline[metric] = 0

GateInv ==
  /\ known \in [Metrics -> Nat \cup {NoBaseline}]
  /\ Faithful
  /\ MissesNothing
  /\ FailsWithReason

LEMMA TakenAreMetrics == \A args \in Args : TakenBy(args) \subseteq Metrics
BY DEF TakenBy

\* Whatever a save writes, it keeps the history of every metric.
LEMMA SaveFaithful ==
  ASSUME GateInv, NEW args \in Args, NEW now \in [Metrics -> Nat],
         \A metric \in Metrics \ TakenBy(args) : now[metric] = 0,
         baseline' = Merged(args, now),
         known' = [metric \in Metrics |->
                     IF metric \in TakenBy(args) THEN now[metric] ELSE known[metric]]
  PROVE  Faithful'
<1>1. Merged(args, now) \in [Metrics -> Nat]
  BY DEF GateInv, Faithful, Merged
<1>2. Merged(args, now) # NoBaseline
  BY <1>1, BaselineAssumption
<1>3. ASSUME NEW metric \in Metrics
      PROVE  \/ known'[metric] = Merged(args, now)[metric]
             \/ known'[metric] = NoBaseline /\ Merged(args, now)[metric] = 0
  <2>1. CASE metric \in TakenBy(args)
    BY <2>1 DEF Merged, TakenBy
  <2>2. CASE metric \notin TakenBy(args)
    <3>1. args.retrievalOnly /\ metric \in AnswerMetrics /\ known'[metric] = known[metric]
      BY <2>2 DEF TakenBy
    <3>2. CASE baseline = NoBaseline
      BY <2>2, <3>1, <3>2 DEF Merged, GateInv, Faithful
    <3>3. CASE baseline # NoBaseline
      BY <3>1, <3>3 DEF Merged, GateInv, Faithful
    <3> QED BY <3>2, <3>3
  <2> QED BY <2>1, <2>2
<1> QED BY <1>1, <1>2, <1>3 DEF Faithful

\* As far as the run measures it, the baseline and the history agree on what is
\* a regression.
LEMMA FlaggedIsWorse ==
  ASSUME GateInv, NEW args \in Args, NEW now \in [Metrics -> Nat]
  PROVE  Flagged(args, now) =
           {metric \in TakenBy(args) : known[metric] # NoBaseline /\ Below(now, known, metric)}
<1>1. CASE baseline = NoBaseline
  BY <1>1, TakenAreMetrics DEF GateInv, Faithful, Flagged
<1>2. CASE baseline # NoBaseline
  <2>1. ASSUME NEW metric \in TakenBy(args)
        PROVE  Below(now, baseline, metric)
                 <=> known[metric] # NoBaseline /\ Below(now, known, metric)
    <3>1. /\ metric \in Metrics /\ baseline[metric] \in Nat /\ now[metric] \in Nat
          /\ Tolerance(metric) \in Nat
      BY <1>2, <2>1, TakenAreMetrics DEF GateInv, Faithful, Tolerance
    <3>2. CASE known[metric] = baseline[metric]
      BY <3>1, <3>2, BaselineAssumption DEF Below
    <3>3. CASE known[metric] = NoBaseline /\ baseline[metric] = 0
      BY <3>1, <3>3 DEF Below
    <3> QED BY <1>2, <3>1, <3>2, <3>3 DEF GateInv, Faithful
  <2> QED BY <1>2, <2>1 DEF Flagged
<1> QED BY <1>1, <1>2

LEMMA MainGate ==
  ASSUME GateInv, NEW args \in Args, NEW hit \in [Cases -> Hits],
         NEW answer \in [Cases -> Answers], Main(args, hit, answer)
  PROVE  GateInv'
<1> DEFINE summary == Summarise(args, hit, answer)
<1>1. PICK now : now = summary
  OBVIOUS
<1>2. /\ now \in [Metrics -> Nat]
      /\ \A metric \in Metrics \ TakenBy(args) : now[metric] = 0
  BY <1>1, SummaryShape
<1> DEFINE checked == args.check /\ ~args.smoke
           flagged == IF checked THEN Flagged(args, now) ELSE {}
<1>3. /\ baseline' = IF args.save THEN Merged(args, now) ELSE baseline
      /\ known' = [metric \in Metrics |->
                     IF args.save /\ metric \in TakenBy(args) THEN now[metric] ELSE known[metric]]
      /\ run' =
           [checked |-> checked,
            exit |-> IF flagged # {} \/ (args.smoke /\ Empty(hit) # {}) THEN 1 ELSE 0,
            flagged |-> flagged,
            worse |-> {metric \in TakenBy(args) :
                         known[metric] # NoBaseline /\ Below(now, known, metric)}]
  BY <1>1 DEF Main
<1> HIDE DEF summary
<1>4. known' \in [Metrics -> Nat \cup {NoBaseline}]
  BY <1>2, <1>3 DEF GateInv
<1>5. Faithful'
  <2>1. CASE args.save
    <3>1. known' = [metric \in Metrics |->
                      IF metric \in TakenBy(args) THEN now[metric] ELSE known[metric]]
      BY <1>3, <2>1
    <3> QED BY <1>2, <1>3, <2>1, <3>1, SaveFaithful
  <2>2. CASE ~args.save
    BY <1>3, <2>2 DEF GateInv, Faithful
  <2> QED BY <2>1, <2>2
<1>6. run'.checked => run'.worse = flagged /\ (run'.exit = 1 <=> flagged # {})
  <2>1. Flagged(args, now) =
          {metric \in TakenBy(args) : known[metric] # NoBaseline /\ Below(now, known, metric)}
    BY <1>2, FlaggedIsWorse
  <2>2. run'.checked = checked /\ (checked => run'.worse = flagged)
    BY <1>3, <2>1
  <2>3. checked => (run'.exit = 1 <=> flagged # {})
    BY <1>3
  <2> HIDE DEF checked, flagged
  <2> QED BY <2>2, <2>3
<1>7. run'.exit \in {0, 1}
  BY <1>3
<1> HIDE DEF checked, flagged
<1> QED BY <1>4, <1>5, <1>6, <1>7 DEF GateInv, MissesNothing, FailsWithReason

LEMMA GateInductive ==
  /\ Init => GateInv
  /\ GateInv /\ [Next]_vars => GateInv'
<1>1. ASSUME Init  PROVE GateInv
  BY <1>1 DEF Init, GateInv, Faithful, MissesNothing, FailsWithReason, NoRun
<1>2. ASSUME GateInv, [Next]_vars  PROVE GateInv'
  <2>1. ASSUME UNCHANGED <<baseline, known>>, run'.checked = FALSE
        PROVE  GateInv'
    BY <1>2, <2>1 DEF GateInv, Faithful, MissesNothing, FailsWithReason
  <2>2. ASSUME NEW args \in Args, NEW keyed \in BOOLEAN, Usage(args, keyed) \/ Raises(args)
        PROVE  GateInv'
    BY <2>1, <2>2 DEF Usage, Raises, NoRun
  <2>3. CASE UNCHANGED vars
    BY <1>2, <2>3 DEF vars, GateInv, Faithful, MissesNothing, FailsWithReason
  <2> QED BY <1>2, <2>2, <2>3, MainGate DEF Next
<1> QED BY <1>1, <1>2

\* A check that passes has no metric that is worse than recorded, however
\* saves with and without answers, checks and failed runs follow each other
\* (run_eval.py:395-399 and 425-430), for any golden set.
THEOREM NothingMissed == Spec => []MissesNothing
<1>1. GateInv => MissesNothing
  BY DEF GateInv
<1> QED BY <1>1, GateInductive, PTL DEF Spec

\* And a check that fails has a metric to show that is: the zeros a save without
\* answers writes down are never what a run falls below.
THEOREM FailuresAreReal == Spec => []FailsWithReason
<1>1. GateInv => FailsWithReason
  BY DEF GateInv
<1> QED BY <1>1, GateInductive, PTL DEF Spec
=============================================================================
