------------------------------ MODULE MCAsync ------------------------------
(***************************************************************************)
(* What runs after the script that asked for it, on small instances: an    *)
(* async generator with its queue of requests, promises with all their     *)
(* operations, and the microtask checkpoint of two evaluations.  They have *)
(* no state in common here: each behaviour is of one of them, its subject. *)
(* The variables of the last two are the same v1, v2, ...; the generator   *)
(* has the fairness of the checkpoint that drives it.                      *)
(***************************************************************************)
EXTENDS AsyncGenerators

CONSTANTS Unused,
          payload, undefined, typeError, inert, thenable, poisoned,    \* promises
          t1, plainAwait, readyPromise                                 \* checkpoint

VARIABLES subject,
          v1, v2, v3, v4, v5, v6, v7, v8, v9, v10, v11, v12, v13, v14, v15,
          v16, v17, v18, v19, v20, v21, v22

PromiseOperations == {"construct", "settle", "then", "finally", "resolve", "reject", "microtask"}

Reactions == INSTANCE Promises WITH
    count <- v1, state <- v2, result <- v3, reactions <- v4, jobs <- v5,
    adoptions <- v6, control <- v7, job <- v8, host <- v9, held <- v10,
    visible <- v11, ops <- v12, origin <- v13, asked <- v14, started <- v15,
    MaxPromises <- 3, MaxOps <- 3, Plain <- {payload}, Inert <- {inert},
    Thenables <- {thenable}, Poisoned <- {poisoned}, Undefined <- undefined,
    TypeErrorValue <- typeError, Operations <- PromiseOperations

Loop == INSTANCE Checkpoint WITH
    jobs <- v1, sink <- v2, made <- v3, numbered <- v4, settled <- v5,
    inner <- v6, watchers <- v7, awaits <- v8, completions <- v9,
    adoptions <- v10, cursor <- v11, timedOut <- v12, pc <- v13,
    caller <- v14, running <- v15, drained <- v16, progressed <- v17,
    attempts <- v18, started <- v19, parkings <- v20, runs <- v21,
    last <- v22, MaxQueue <- 1, MaxJobs <- 4, MaxAwaits <- 1, MaxRuns <- 2,
    Tasks <- {t1}, Others <- {plainAwait}, Ready <- readyPromise, MayTimeOut <- TRUE,
    MayNest <- TRUE

Past15 == <<v16, v17, v18, v19, v20, v21, v22>>
Idle15 == v16 = Unused /\ v17 = Unused /\ v18 = Unused /\ v19 = Unused /\
          v20 = Unused /\ v21 = Unused /\ v22 = Unused
Rest == <<v1, v2, v3, v4, v5, v6, v7, v8, v9, v10, v11, v12, v13, v14, v15, Past15>>
AllIdle == Idle15 /\ v1 = Unused /\ v2 = Unused /\ v3 = Unused /\ v4 = Unused /\
        v5 = Unused /\ v6 = Unused /\ v7 = Unused /\ v8 = Unused /\ v9 = Unused /\
        v10 = Unused /\ v11 = Unused /\ v12 = Unused /\ v13 = Unused /\
        v14 = Unused /\ v15 = Unused

AsyncInit ==
    /\ Init
    /\ \/ subject = "generator" /\ AllIdle
       \/ subject = "promises" /\ Reactions!Init /\ Idle15
       \/ subject = "checkpoint" /\ Loop!Init

OfGenerator(A) == subject = "generator" /\ A /\ UNCHANGED <<subject, Rest>>

AsyncNext ==
    \/ OfGenerator(Next)
    \/ subject = "promises" /\ Reactions!Next /\ UNCHANGED <<subject, vars, Past15>>
    \/ subject = "checkpoint" /\ Loop!Next /\ UNCHANGED <<subject, vars>>

asyncVars == <<subject, vars, Rest>>

\* The fairness is what FairSpec of AsyncGenerators says.
AsyncSpec ==
    /\ AsyncInit /\ [][AsyncNext]_asyncVars
    /\ WF_asyncVars(OfGenerator(BodyEnds))
    /\ WF_asyncVars(OfGenerator(ResumeAwait(TRUE) \/ ResumeAwait(FALSE)))
    /\ WF_asyncVars(OfGenerator(DrainPass \/ DrainEnd))

-----------------------------------------------------------------------------
(* Properties; the others are those of AsyncGenerators.                    *)

\* The promises with every operation of promise.rs, thenables and finally
\* watchers included: no wake-up is lost, none is fulfilled with something that
\* is yet to be adopted.  And the checkpoint of two evaluations, through a full
\* queue, a deadline or a cap that cuts it short and the next one that goes on
\* with it: jobs in order, each task in one place, nothing left behind
\* (drain_checkpoint).
AsyncSound ==
    /\ subject = "promises" =>
          Reactions!TypeOK /\ Reactions!NoStrandedRecord /\ Reactions!FulfilledIsFinal
    /\ subject = "checkpoint" =>
          /\ Loop!TypeOK /\ Loop!JobsRunInOrder /\ Loop!OneParkingPerTask
          /\ Loop!NothingLeftAtExit
=============================================================================
