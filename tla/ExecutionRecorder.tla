------------------------- MODULE ExecutionRecorder -------------------------
(***************************************************************************)
(* The execution history (z8run-api/src/execution_recorder.rs and the       *)
(* executions table of z8run-storage): a task subscribed to the engine's    *)
(* broadcast channel opens a row on FlowStarted and closes it on the        *)
(* terminal event.  The channel keeps the last Capacity events; a receiver  *)
(* that falls behind is told that it lagged and goes on with the oldest     *)
(* event that is left.  The server may crash; the next start closes the     *)
(* rows left running before it runs anything (bins/z8run-cli/src/main.rs).  *)
(*                                                                         *)
(* The engine is what ExecutionLifecycle promises, which the FlowEngine     *)
(* module is shown to implement; its log is what was broadcast.             *)
(***************************************************************************)
EXTENDS ExecutionLifecycle, Naturals, FiniteSets

CONSTANTS
    MaxReports,  \* bound on the node events of one server process
    Capacity,    \* of the broadcast channel (1024)
    MaxCrashes   \* bound on the crashes of the server

ASSUME ExecutionRecorderAssumption ==
    Capacity \in Nat \ {0} /\ MaxCrashes \in Nat /\ MaxReports \in Nat

VARIABLES
    up,        \* the server runs
    crashes,   \* number of crashes so far, and the number of this process
    bornIn,    \* history: the process that began each execution
    cursor,    \* events the recorder has received or lost
    inFlight,  \* executions whose row the recorder can close
    row,       \* status of each execution's row, "absent" without one;
               \* "interrupted" is stored as stopped, with a reason
    missed,    \* history: executions one of whose records was lost
    swept      \* history: this process closed what earlier ones left running

recorderVars == <<up, crashes, bornIn, cursor, inFlight, row, missed, swept>>
allVars == <<lifecycleVars, recorderVars>>

\* What the channel, the recorder and the table hold is of its type.
RecorderTypeOK ==
    /\ up \in BOOLEAN
    /\ crashes \in 0 .. MaxCrashes
    /\ bornIn \in [Trace -> 0 .. MaxCrashes]
    /\ cursor \in 0 .. Len(log)
    /\ inFlight \subseteq Trace
    /\ row \in [Trace -> {"absent", "running", "interrupted"} \cup Verdicts]
    /\ missed \subseteq Trace
    /\ swept \in BOOLEAN

RecorderInit ==
    /\ Init
    /\ up = TRUE
    /\ crashes = 0
    /\ bornIn = [t \in Trace |-> 0]
    /\ cursor = 0
    /\ inFlight = {}
    /\ row = [t \in Trace |-> "absent"]
    /\ missed = {}
    /\ swept = TRUE

\* A step A of the engine, which goes on whatever the recorder does.
Engine(A) ==
    /\ up
    /\ A
    /\ bornIn' = [t \in Trace |->
                    IF phase[t] = "new" /\ phase'[t] # "new" THEN crashes ELSE bornIn[t]]
    /\ UNCHANGED <<up, crashes, cursor, inFlight, row, missed, swept>>

----------------------------------------------------------------------------
(* The recorder: one turn of its loop, receiving and storing.              *)

Lagging == Len(log) - cursor > Capacity

\* Err(Lagged): the events that were overwritten are skipped.
Lag ==
    /\ up
    /\ Lagging
    /\ cursor' = Len(log) - Capacity
    /\ missed' = missed \cup {log[i].trace : i \in cursor + 1 .. Len(log) - Capacity}
    /\ UNCHANGED <<lifecycleVars, up, crashes, bornIn, inFlight, row, swept>>

NextIs(K) ==
    /\ up
    /\ cursor < Len(log)
    /\ ~Lagging
    /\ log[cursor + 1].kind \in K
    /\ cursor' = cursor + 1
    /\ UNCHANGED <<lifecycleVars, up, crashes, bornIn, swept>>

\* Faulty: the row is opened, but completions are not correlated with it.
RecordStartOnly ==
    /\ NextIs({"started"})
    /\ row' = [row EXCEPT ![log[cursor + 1].trace] = "running"]
    /\ UNCHANGED <<inFlight, missed>>

\* record_start inserts the row; without it the run is never recorded.
RecordStart ==
    /\ NextIs({"started"})
    /\ LET t == log[cursor + 1].trace
       IN  \/ /\ row' = [row EXCEPT ![t] = "running"]
              /\ inFlight' = inFlight \cup {t}
              /\ UNCHANGED missed
           \/ /\ missed' = missed \cup {t}      \* the statement failed
              /\ UNCHANGED <<row, inFlight>>

\* record_completion updates the row only while it is running.  The entry is
\* gone from in_flight whether that succeeds or not.
RecordCompletion ==
    /\ NextIs(Verdicts)
    /\ LET t == log[cursor + 1].trace
           v == log[cursor + 1].kind
       IN  IF t \in inFlight
           THEN /\ inFlight' = inFlight \ {t}
                /\ \/ /\ row' = [row EXCEPT ![t] = IF @ = "running" THEN v ELSE @]
                      /\ UNCHANGED missed
                   \/ /\ missed' = missed \cup {t}   \* the statement failed
                      /\ UNCHANGED row
           ELSE UNCHANGED <<inFlight, row, missed>>

\* Faulty: whatever happens to an execution becomes the status of its row.
StoreNodeEvent ==
    /\ NextIs({"node"})
    /\ row' = [row EXCEPT ![log[cursor + 1].trace] = log[cursor + 1].kind]
    /\ UNCHANGED <<inFlight, missed>>

\* Node events are received and not stored.
IgnoreNodeEvent ==
    /\ NextIs({"node"})
    /\ UNCHANGED <<inFlight, row, missed>>

Recorder == Lag \/ RecordStart \/ RecordCompletion \/ IgnoreNodeEvent

----------------------------------------------------------------------------
(* The server process.                                                     *)

\* Everything in memory goes; the rows stay.  Executions that had begun can
\* never go on.
Crash ==
    /\ up
    /\ crashes < MaxCrashes
    /\ up' = FALSE
    /\ crashes' = crashes + 1
    /\ swept' = FALSE
    /\ phase' = [t \in Trace |-> IF phase[t] = "new" THEN "new" ELSE "gone"]
    /\ log' = << >>
    /\ cursor' = 0
    /\ inFlight' = {}
    /\ UNCHANGED <<asked, verdict, bornIn, row, missed>>

\* Faulty: nothing is reconciled.
StartWithoutSweep ==
    /\ ~up
    /\ up' = TRUE
    /\ swept' = TRUE
    /\ UNCHANGED <<lifecycleVars, crashes, bornIn, cursor, inFlight, row, missed>>

\* interrupt_running, before the engine and its recorder exist.  A failure
\* is logged and the server starts all the same.
Start ==
    /\ ~up
    /\ up' = TRUE
    /\ \/ /\ row' = [t \in Trace |-> IF row[t] = "running" THEN "interrupted" ELSE row[t]]
          /\ swept' = TRUE
       \/ UNCHANGED <<row, swept>>
    /\ UNCHANGED <<lifecycleVars, crashes, bornIn, cursor, inFlight, missed>>

Reports == Cardinality({i \in DOMAIN log : log[i].kind = "node"})

\* The driver of an execution goes on; only a plan may run for ever.
DriverStep(t) == Begin(t) \/ Announce(t) \/ Leave(t)

EngineNext ==
    \/ \E t \in Trace : List(t) \/ Settle(t) \/ DriverStep(t)
    \/ /\ Reports < MaxReports
       /\ \E t \in Trace : bornIn[t] = crashes /\ Report(t)
    \/ \E S \in SUBSET Trace : Ask(S)

RecorderNext == Engine(EngineNext) \/ Recorder \/ Crash \/ Start

RecorderFairness ==
    /\ WF_allVars(Recorder)
    /\ \A t \in Trace : WF_allVars(Engine(DriverStep(t)))

RecorderSpec == RecorderInit /\ [][RecorderNext]_allVars /\ RecorderFairness

----------------------------------------------------------------------------
\* The history never lies: a row that is closed with a verdict has the one
\* the engine announced, and none shows an execution that never began.
RowTellsVerdict ==
    \A t \in Trace :
        /\ row[t] \in Verdicts => verdict[t] = row[t]
        /\ row[t] # "absent" => phase[t] \notin {"new", "listed"}

\* A row shows "running" only for an execution of the server that runs now,
\* unless closing the old ones failed when it started: no run is in progress
\* for ever (main.rs:408-410), and the sweep never closes a run that is.
NoGhostRuns ==
    \A t \in Trace :
        /\ (row[t] = "running" /\ up /\ swept) => bornIn[t] = crashes
        /\ (row[t] = "interrupted") => bornIn[t] < crashes

\* A run that was closed stays as it was closed.
ClosedRowsKept ==
    [][\A t \in Trace : row[t] \notin {"absent", "running"} => row'[t] = row[t]]_allVars

\* What the history shows of a run is what became of it, and it stays so.
HistoryIsHonest == [](RowTellsVerdict /\ NoGhostRuns) /\ ClosedRowsKept

\* The verdict of an execution gets to its row, if no event or statement of
\* it was lost and the server stays up.
VerdictReachesRow ==
    \A t \in Trace :
        (phase[t] = "announced" /\ bornIn[t] = MaxCrashes)
            ~> (row[t] = verdict[t] \/ t \in missed)
============================================================================
