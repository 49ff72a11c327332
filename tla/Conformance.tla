---------------------------- MODULE Conformance ----------------------------
(***************************************************************************)
(* The conformance sweep (src/conformance): a pool of workers runs each    *)
(* discovered test in a child process of its own, the child stops a        *)
(* runaway script at a cooperative deadline it samples between             *)
(* instructions, the parent kills a child that has not exited at the hard  *)
(* kill, and two sweeps' reports are compared by faildiff.sh, which sets   *)
(* status changes near the kill window aside.                              *)
(*                                                                         *)
(* A test is what the runner can tell of it: its flags, the work its       *)
(* script does (steps at which the deadline is sampled, steps it cannot    *)
(* reach) and how the script ends.  Ticks are the stopwatch each parent    *)
(* keeps on its child; a tick without progress is a loaded machine.        *)
(***************************************************************************)
EXTENDS Integers, SequencesExt, FiniteSetsExt

CONSTANTS
    Workers,        \* the pool of normalize_jobs
    Tests,          \* discovered tests, in the order of their paths: a sequence
    Window,         \* --test-timeout-ms: the cooperative deadline
    Grace,          \* HARD_KILL_GRACE_MS
    Lag,            \* bound: ticks a poll may come late
    Sweeps,         \* bound: sweeps run; the reports of the first and the last are compared
    MaxFaults       \* bound: children that cannot be spawned

VARIABLES
    todo,       \* the tests no worker has taken in this sweep
    workers,    \* worker -> its child, or Idle
    outcomes,   \* test -> the row of its TestOutcome in this sweep, or Idle
    reports,    \* the reports of the sweeps before
    faults      \* children that could not be spawned so far

sweepVars == <<todo, workers, outcomes, reports, faults>>

\* What the proofs assume of the constants.  The defaults of the source are a
\* window of 30 seconds and a grace of 5; the comparison's margin, a fifth of the
\* hard kill, covers the grace as long as the window is four times as long.
TypeNames == {"SyntaxError", "TypeError", "ReferenceError", "Test262Error"}
TestSet ==
    [skip : BOOLEAN, raw : BOOLEAN, async : BOOLEAN, prints : SUBSET {"complete", "failure"},
     phase : {"none", "parse", "early", "resolution", "runtime"},
     type : TypeNames \cup {"none"}, work : Seq({"script", "native"}),
     end : TypeNames \cup {"ok", "panic", "abort", "text", "other"}]
ASSUME SweepAssumption ==
    /\ IsFiniteSet(Workers) /\ Tests \in Seq(TestSet)
    /\ Window \in Nat /\ Grace \in Nat /\ 4 * Grace <= Window
    /\ Lag \in Nat /\ Sweeps \in Nat /\ MaxFaults \in Nat

Ids == DOMAIN Tests
Idle == [test |-> 0]
hard_kill == Window + Grace

outcome(status, message, duration) ==
    [status |-> status, message |-> message, duration |-> duration]

-----------------------------------------------------------------------------
(* The verdict of one test.                                                *)

\* skip_reason_for and the include errors: decided before anything runs.
skipped(t) == t.skip

needs_async_verdict(t) == ~t.raw /\ t.async

\* The error text: a type's name, "text" a message with the word "expected" or
\* "unexpected" in it, "other" one with neither.
looks_like_syntax_error(thrown) == thrown \in {"SyntaxError", "text"}

type_matches(t, thrown) ==
    thrown = t.type \/ (t.type = "SyntaxError" /\ looks_like_syntax_error(thrown))

StaticPhases == {"parse", "early", "resolution"}

handle_thrown(t, thrown, d) ==
    IF \/ t.phase \in StaticPhases /\ type_matches(t, thrown)
       \/ t.phase \in StaticPhases /\ "SyntaxError" \in {t.type, thrown}
       \/ t.phase = "runtime" /\ type_matches(t, thrown)
    THEN outcome("pass", "", d)
    ELSE outcome("fail", "threw", d)

handle_positive_or_negative_ok(t, d) ==
    IF t.phase = "none" THEN outcome("pass", "", d) ELSE outcome("fail", "no error", d)

\* The completion marker is looked for first.
handle_async_ok(t, d) ==
    IF "complete" \in t.prints THEN handle_positive_or_negative_ok(t, d)
    ELSE IF "failure" \in t.prints THEN handle_thrown(t, "Test262Error", d)
    ELSE outcome("fail", "not done", d)

\* The end of run_single_test: `ran` is the time since the engine was made and
\* `end` how it ended.  The time is looked at before the result.
\* MUTANT: the advisory check is missing.
verdict_unchecked(t, end, ran, d) ==
    CASE end = "deadline" -> outcome("fail", "timeout", d)
      [] end = "panic" -> outcome("fail", "panic", d)
      [] end = "ok" -> IF needs_async_verdict(t) THEN handle_async_ok(t, d)
                       ELSE handle_positive_or_negative_ok(t, d)
      [] OTHER -> handle_thrown(t, end, d)

verdict(t, end, ran, d) ==
    IF ran > Window THEN outcome("fail", "timeout", d)
    ELSE CASE end = "deadline" -> outcome("fail", "timeout", d)
           [] end = "panic" -> outcome("fail", "panic", d)
           [] end = "ok" -> IF needs_async_verdict(t) THEN handle_async_ok(t, d)
                            ELSE handle_positive_or_negative_ok(t, d)
           [] OTHER -> handle_thrown(t, end, d)

-----------------------------------------------------------------------------
(* The child.                                                              *)

Child(w) == workers[w]
Test(w) == Tests[Child(w).test]
Live(w) == Child(w) # Idle /\ Child(w).state = "running"

\* What a child goes through: it reads and assembles its source, then the
\* script's own steps.  Spawning takes milliseconds: one stopwatch serves both.
plan(t) == <<"setup">> \o t.work

Exited(c, state, report) == [c EXCEPT !.state = state, !.report = report]

\* A step of the script: the dispatch loop samples the deadline, a parser or a
\* native does not.
Overdue(w) ==
    /\ plan(Test(w))[Child(w).at] = "script"
    /\ Child(w).now - Child(w).exec >= Window

\* The child exits: with its one line, or (an abort) without.
Reported(w, end) ==
    LET c == Child(w)
        t == Test(w)
    IN  CASE end = "abort" -> Exited(c, "crashed", Idle)
          [] end = "skip" -> Exited(c, "exited", outcome("skip", "skip", c.now))
          [] OTHER -> Exited(c, "exited",
                             verdict(t, end, c.now - c.exec, c.now))

\* One step of the child's plan; its last one ends the test.
Advance(w) ==
    /\ Live(w)
    /\ LET c == Child(w)
           t == Test(w)
           step == plan(t)[c.at]
           moved == [c EXCEPT !.at = @ + 1,
                              !.exec = IF step = "setup" THEN c.now ELSE @]
       IN  workers' = [workers EXCEPT ![w] =
             IF step = "setup" /\ skipped(t) THEN Reported(w, "skip")
             ELSE IF Overdue(w) THEN Reported(w, "deadline")
             ELSE IF c.at = Len(plan(t)) THEN Reported(w, t.end)
             ELSE moved]
    /\ UNCHANGED <<todo, outcomes, reports, faults>>

\* Time passes on the parent's stopwatch.
Tick(w) ==
    /\ Live(w) /\ Child(w).now < hard_kill + Lag
    /\ workers' = [workers EXCEPT ![w].now = @ + 1]
    /\ UNCHANGED <<todo, outcomes, reports, faults>>

is_stalled(o) == o.status = "fail" /\ o.message = "stalled"

\* MARGINAL_FRACTION is 4/5 of the window the report discloses, the hard kill.
\* MUTANT: only a killed test is near the window.
near_kill_stalled(o) == is_stalled(o)

near_kill(o) == is_stalled(o) \/ 5 * o.duration >= 4 * hard_kill

-----------------------------------------------------------------------------
(* The parent: run_single_test_isolated, once per test.                    *)

\* A row of the report: of the duration the gate only asks whether it is near
\* the kill window.
Row(o) == [status |-> o.status, message |-> o.message, near |-> near_kill(o)]

Answer(test, o) == outcomes' = [outcomes EXCEPT ![test] = Row(o)]

Spawn(w) ==
    /\ Child(w) = Idle /\ Len(reports) < Sweeps
    /\ \E test \in todo :
         /\ todo' = todo \ {test}
         /\ workers' = [workers EXCEPT ![w] =
                [test |-> test, state |-> "running", at |-> 1, now |-> 0,
                 exec |-> 0, report |-> Idle]]
    /\ UNCHANGED <<outcomes, reports, faults>>

SpawnFails(w) ==
    /\ Child(w) = Idle /\ Len(reports) < Sweeps /\ faults < MaxFaults
    /\ \E test \in todo : todo' = todo \ {test} /\ Answer(test, outcome("fail", "spawn", 0))
    /\ faults' = faults + 1
    /\ UNCHANGED <<workers, reports>>

\* try_wait found an exit: the child's own outcome, or a crash of this test only.
Collect(w) ==
    /\ Child(w) # Idle /\ Child(w).state # "running"
    /\ Answer(Child(w).test,
              IF Child(w).state = "exited" THEN Child(w).report
              ELSE outcome("fail", "crashed", Child(w).now))
    /\ workers' = [workers EXCEPT ![w] = Idle]
    /\ UNCHANGED <<todo, reports, faults>>

\* It did not, and the window is over.
Kill(w) ==
    /\ Live(w) /\ Child(w).now >= hard_kill
    /\ Answer(Child(w).test, outcome("fail", "stalled", Child(w).now))
    /\ workers' = [workers EXCEPT ![w] = Idle]
    /\ UNCHANGED <<todo, reports, faults>>

-----------------------------------------------------------------------------
(* The report, and the gate between two of them.                           *)

Summary(rows) ==
    [status \in {"pass", "fail", "skip"} |->
        Cardinality({k \in DOMAIN rows : rows[k].status = status})]

SweepOver == todo = {} /\ \A w \in Workers : Child(w) = Idle

\* The outcomes, sorted by path, become a report and the next sweep starts.
Report ==
    /\ SweepOver /\ Len(reports) < Sweeps
    /\ reports' = Append(reports, outcomes)
    /\ todo' = Ids /\ outcomes' = [k \in Ids |-> Idle]
    /\ UNCHANGED <<workers, faults>>

bucket(b, a) ==
    CASE b # "pass" /\ a = "pass" -> "FIXED"
      [] b = "pass" /\ a = "fail" -> "BROKE"
      [] b = "pass" /\ a = "skip" -> "REGRESSED"
      [] b = "fail" /\ a = "skip" -> "FIXED_BY_SKIP"
      [] OTHER -> "same"

\* A change of a test that was near the window in either run is set aside.
classify(b, a) ==
    IF bucket(b.status, a.status) # "same" /\ (b.near \/ a.near) THEN "MARGINAL"
    ELSE bucket(b.status, a.status)

\* faildiff.sh BEFORE AFTER: the tests in each bucket.
faildiff(before, after) == [k \in Ids |-> classify(before[k], after[k])]

SweepInit ==
    /\ todo = Ids
    /\ workers = [w \in Workers |-> Idle]
    /\ outcomes = [k \in Ids |-> Idle]
    /\ reports = <<>> /\ faults = 0

SweepNext ==
    \/ \E w \in Workers : Spawn(w) \/ SpawnFails(w) \/ Advance(w) \/ Tick(w)
                          \/ Collect(w) \/ Kill(w)
    \/ Report

SweepSpec == SweepInit /\ [][SweepNext]_sweepVars

-----------------------------------------------------------------------------
(* Properties.                                                             *)

\* No test is lost, run twice or answered by another's child, whatever crashes,
\* stalls or cannot be spawned: a test waits, is with exactly one worker, or has
\* its answer; a report has a verdict for each.
EachTestOnce ==
    /\ \A k \in Ids :
         Cardinality({w \in Workers : Child(w).test = k})
         + (IF k \in todo THEN 1 ELSE 0) + (IF outcomes[k] # Idle THEN 1 ELSE 0) = 1
    /\ \A r \in Range(reports) :
         LET s == Summary(r) IN s["pass"] + s["fail"] + s["skip"] = Len(Tests)

\* A pass was earned inside the window: it is no longer than the time its child
\* had, and a script that never lets the deadline be sampled cannot pass late.
PassedInTime ==
    \A w \in Workers :
      Child(w) # Idle /\ Child(w).state = "exited" /\ Child(w).report.status = "pass" =>
        /\ Child(w).now - Child(w).exec <= Window
        /\ Test(w).end # "panic" /\ ~skipped(Test(w))

\* The gate does not cry wolf: between sweeps of the same program the machine's
\* load alone moves no test into BROKE or REGRESSED, and moves none to FIXED.
LoadBreaksNothing ==
    Len(reports) >= 2 =>
      LET before == reports[1]
          after == Last(reports)
      IN  \A k \in Ids :
            "spawn" \notin {before[k].message, after[k].message} =>
                faildiff(before, after)[k] \in {"same", "MARGINAL"}

\* A sweep gives each test one verdict, earned in its window, and the machine's
\* load moves no test into a bucket of the comparison (main.rs, runner.rs and
\* faildiff.sh of the harness).
SweepSound == EachTestOnce /\ PassedInTime /\ LoadBreaksNothing

=============================================================================
