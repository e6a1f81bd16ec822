------------------------------ MODULE EvalGate ------------------------------
(***************************************************************************)
(* The quality gate, backend/eval/run_eval.py: every invocation asks the   *)
(* golden set, scores what was retrieved and answered, and saves the       *)
(* summary as the baseline, or compares it with the baseline.  The state   *)
(* is what survives an invocation: baseline.json and the exit code.        *)
(*                                                                         *)
(* What retrieval and the model return is an input.  Shares are integers   *)
(* out of Scale, rounded down where the code rounds to four digits.        *)
(***************************************************************************)
EXTENDS Integers, FiniteSets, FiniteSetsExt

CONSTANTS
  Cases,      \* the golden set
  Refusals,   \* its cases with should_refuse
  Anchored,   \* its cases with expect_content
  Sourced,    \* its cases with expect_sources
  Termed,     \* its cases with expect_terms
  Hits,       \* the results of retrieval that may occur
  NoBaseline  \* baseline.json does not exist

ASSUME EvalAssumption ==
  /\ IsFiniteSet(Cases)
  /\ Refusals \cup Anchored \cup Sourced \cup Termed \subseteq Cases
  /\ Hits \subseteq [retrieved : BOOLEAN, anchor : 0 .. 10, source : 0 .. 10]

VARIABLES
  baseline,  \* the summary in baseline.json
  known,     \* history: per metric, the value of the last save of a run that measures it
  run        \* the last invocation, and what it should have found

vars == <<baseline, known, run>>

-----------------------------------------------------------------------------
Scale == 10000

AnswerMetrics == {"faithfulness", "term_accuracy", "refusal_accuracy"}
Metrics == AnswerMetrics \cup {"recall_at_5", "mrr"}

\* A missing file is neither a summary nor the value of a metric.
ASSUME BaselineAssumption == NoBaseline \notin Nat /\ NoBaseline \notin [Metrics -> Nat]

\* TOLERANCE
Tolerance(metric) ==
  CASE metric \in {"recall_at_5", "mrr"} -> 500
    [] metric = "refusal_accuracy" -> 100
    [] OTHER -> 1000

\* Args of the command line.
Args == [save : BOOLEAN, check : BOOLEAN, retrievalOnly : BOOLEAN, smoke : BOOLEAN]

\* The metrics that a run with these arguments takes.
TakenBy(args) == IF args.retrievalOnly THEN Metrics \ AnswerMetrics ELSE Metrics

-----------------------------------------------------------------------------
(* The answer to one case: refused, or with or without its terms and as    *)
(* the judge finds it.  Anything but "faithful" counts against it.         *)
Answers ==
  {[refused |-> TRUE, terms |-> FALSE, faithful |-> FALSE]}
    \cup [refused : {FALSE}, terms : BOOLEAN, faithful : BOOLEAN]

\* score_retrieval: the rank that counts, 0 for none.  An anchor is not replaced
\* by the file name when it is missed.
Rank(c, hit) == IF c \in Anchored THEN hit.anchor ELSE hit.source

Answerable == Cases \ Refusals

Scored == Answerable \cap (Anchored \cup Sourced)

\* The cases a metric is the share of.  Only answers that were given are judged.
Denominator(metric, answer) ==
  CASE metric \in {"recall_at_5", "mrr"} -> Scored
    [] metric = "faithfulness" -> {c \in Answerable : ~answer[c].refused}
    [] metric = "term_accuracy" -> Answerable \cap Termed
    [] metric = "refusal_accuracy" -> Cases

\* What one case adds to it.
Credit(metric, c, hit, answer) ==
  LET credit(b) == IF b THEN Scale ELSE 0 IN
  CASE metric = "recall_at_5" -> credit(Rank(c, hit) \in 1 .. 5)
    [] metric = "mrr" -> IF Rank(c, hit) = 0 THEN 0 ELSE Scale \div Rank(c, hit)
    [] metric = "faithfulness" -> credit(answer.faithful)
    [] metric = "term_accuracy" -> credit(answer.terms)
    [] metric = "refusal_accuracy" -> credit(answer.refused <=> c \in Refusals)

\* What some cases add up to.
Total(metric, over, hit, answer) ==
  MapThenSumSet(LAMBDA c : Credit(metric, c, hit[c], answer[c]), over)

Frac(n, d) == IF d = 0 THEN 0 ELSE n \div d

\* summarise: without answers their metrics are shares of nothing.
Summarise(args, hit, answer) ==
  [metric \in Metrics |->
     LET over == IF metric \in TakenBy(args) THEN Denominator(metric, answer) ELSE {} IN
     Frac(Total(metric, over, hit, answer), Cardinality(over))]

\* A summary that is worse than the reference by more than the tolerance.
Below(now, was, metric) == now[metric] - was[metric] < -Tolerance(metric)

\* Mutant: the zeros of a run without answers are compared.
FlaggedAll(args, now) ==
  IF baseline = NoBaseline THEN {} ELSE {metric \in Metrics : Below(now, baseline, metric)}
\* check_against_baseline: what is printed as a regression.
Flagged(args, now) ==
  IF baseline = NoBaseline THEN {}
  ELSE {metric \in TakenBy(args) : Below(now, baseline, metric)}

\* check_smoke: the answerable questions for which nothing came back.
Empty(hit) == {c \in Answerable : ~hit[c].retrieved}

\* --save: metrics that the run did not take are kept, if there are any.
\* Mutant: the summary is written as it is.
Overwritten(args, now) == now
Merged(args, now) ==
  IF args.retrievalOnly /\ baseline # NoBaseline
  THEN [metric \in Metrics |-> IF metric \in AnswerMetrics THEN baseline[metric] ELSE now[metric]]
  ELSE now

\* --save and --check exclude each other, and answers need an API key.
Allowed(args, keyed) == ~(args.save /\ args.check) /\ (args.retrievalOnly \/ keyed)

-----------------------------------------------------------------------------
NoRun == [checked |-> FALSE, exit |-> 0, flagged |-> {}, worse |-> {}]

Init ==
  /\ baseline = NoBaseline
  /\ known = [metric \in Metrics |-> NoBaseline]
  /\ run = NoRun

\* main: a run is checked unless --smoke decides its exit code.
Main(args, hit, answer) ==
  LET now == Summarise(args, hit, answer)
      saved == IF args.save THEN Merged(args, now) ELSE baseline
      checked == args.check /\ ~args.smoke
      flagged == IF checked THEN Flagged(args, now) ELSE {}
  IN  /\ Allowed(args, TRUE)
      /\ baseline' = saved
      /\ known' = [metric \in Metrics |->
                     IF args.save /\ metric \in TakenBy(args) THEN now[metric] ELSE known[metric]]
      /\ run' =
           [checked |-> checked,
            exit |-> IF flagged # {} \/ (args.smoke /\ Empty(hit) # {}) THEN 1 ELSE 0,
            flagged |-> flagged,
            worse |-> {metric \in TakenBy(args) :
                         known[metric] # NoBaseline /\ Below(now, known, metric)}]

Usage(args, keyed) ==
  /\ ~Allowed(args, keyed)
  /\ run' = [NoRun EXCEPT !.exit = 2]
  /\ UNCHANGED <<baseline, known>>

\* The database, the embeddings or the model fail: nothing is compared or saved.
Raises(args) ==
  /\ Allowed(args, TRUE)
  /\ run' = [NoRun EXCEPT !.exit = 1]
  /\ UNCHANGED <<baseline, known>>

Next ==
  \E args \in Args :
    \/ \E keyed \in BOOLEAN : Usage(args, keyed)
    \/ Raises(args)
    \/ \E hit \in [Cases -> Hits], answer \in [Cases -> Answers] : Main(args, hit, answer)

Spec == Init /\ [][Next]_vars

-----------------------------------------------------------------------------
\* A check that passes is not worse, in any metric it takes, than what the last
\* save that took the metric recorded: neither a save without answers nor the
\* run's own save comes between them (run_eval.py:395-399 and 425-430).
MissesNothing == run.checked /\ run.exit = 0 => run.worse = {}

\* A check that fails has found something worse than was recorded.
FailsWithReason == run.checked /\ run.exit = 1 => run.worse # {}
=============================================================================
