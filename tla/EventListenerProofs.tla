----------------------- MODULE EventListenerProofs -----------------------
(***************************************************************************)
(* Theorems about the two parts that listen to the events of the engine.    *)
(*                                                                         *)
(* ExecutionRecorder, for any set of executions, any channel and any number *)
(* of crashes: type correctness, and that the history is honest.            *)
(* RowTellsVerdict and NoGhostRuns speak of rows alone; IInv adds what the  *)
(* events say that the recorder has yet to read, and in which process an    *)
(* execution can still be under way.                                        *)
(*                                                                         *)
(* EditorRun, for any nodes of the flow and any numbers of clicks, edits,   *)
(* runs and events under way: type correctness, and that what the canvas    *)
(* shows of the last run is true. EditorInv adds how the events of a run    *)
(* that are on the wire, waiting or shown follow each other.                *)
(***************************************************************************)
EXTENDS ExecutionRecorder, EditorRun, FiniteSetTheorems, SequenceTheorems,
        WellFoundedInduction, TLAPS

Numbers == INSTANCE FlowGraphProofs

----------------------------------------------------------------------------
(* The inductive invariant.                                                  *)

Phases == {"new", "listed", "running", "settled", "announced", "gone"}
Event == [kind : {"started", "node"} \cup Verdicts, trace : Trace]

LifecycleTypeOK ==
    /\ phase \in [Trace -> Phases]
    /\ verdict \in [Trace -> {"none"} \cup Verdicts]
    /\ log \in Seq(Event)

VerdictIsPhase ==
    \A t \in Trace :
        /\ phase[t] \in {"settled", "announced"} => verdict[t] \in Verdicts
        /\ phase[t] \in {"new", "listed", "running"} => verdict[t] = "none"

\* What is under way was begun by this process.
BornHere ==
    \A t \in Trace :
        /\ bornIn[t] <= crashes
        /\ phase[t] \notin {"new", "gone"} => bornIn[t] = crashes

\* Without a process there are no events, nothing is under way, and nobody has
\* swept yet.
DownIsQuiet ==
    ~up => /\ log = << >> /\ ~swept
           /\ \A t \in Trace : phase[t] # "new" => phase[t] = "gone" /\ bornIn[t] < crashes

\* An event is of this process, and it is true.
LogIsTrue ==
    \A i \in DOMAIN log :
        /\ log[i].kind = "started" =>
              phase[log[i].trace] \notin {"new", "listed"} /\ bornIn[log[i].trace] = crashes
        /\ log[i].kind \in Verdicts => verdict[log[i].trace] = log[i].kind

StartedOnce ==
    \A i, j \in DOMAIN log :
        log[i].kind = "started" /\ log[j].kind = "started" /\ log[i].trace = log[j].trace => i = j

\* A start the recorder has not read is of an execution without a row.
UnreadHasNoRow ==
    \A i \in DOMAIN log : i > cursor /\ log[i].kind = "started" => row[log[i].trace] = "absent"

IInv ==
    /\ RecorderTypeOK /\ LifecycleTypeOK
    /\ VerdictIsPhase /\ BornHere /\ DownIsQuiet
    /\ LogIsTrue /\ StartedOnce /\ UnreadHasNoRow
    /\ RowTellsVerdict /\ NoGhostRuns

----------------------------------------------------------------------------
(* The initial states, and lemmas about the log.                             *)

\* The empty log and the empty table satisfy it.
LEMMA InitEstablishes == RecorderInit => IInv
<1> SUFFICES ASSUME RecorderInit PROVE IInv
  OBVIOUS
<1> USE DEF RecorderInit, Init
<1>1. log = << >> /\ log \in Seq(Event) /\ Len(log) = 0 /\ DOMAIN log = {}
  OBVIOUS
<1>2. RecorderTypeOK
  BY <1>1, ExecutionRecorderAssumption DEF RecorderTypeOK
<1>3. LifecycleTypeOK /\ VerdictIsPhase /\ BornHere /\ DownIsQuiet
  BY <1>1, <1>2 DEF LifecycleTypeOK, VerdictIsPhase, BornHere, DownIsQuiet, Phases, RecorderTypeOK
<1>4. LogIsTrue /\ StartedOnce /\ UnreadHasNoRow
  BY <1>1 DEF LogIsTrue, StartedOnce, UnreadHasNoRow
<1>5. RowTellsVerdict /\ NoGhostRuns
  BY DEF RowTellsVerdict, NoGhostRuns, Verdicts
<1> QED
  BY <1>2, <1>3, <1>4, <1>5 DEF IInv

\* An event is what Ev makes of a kind and an execution.
LEMMA EventFields ==
    ASSUME NEW t \in Trace, NEW k \in {"started", "node"} \cup Verdicts
    PROVE  Ev(k, t) \in Event /\ Ev(k, t).kind = k /\ Ev(k, t).trace = t
BY DEF Ev, Event

\* The log after an event was sent.
LEMMA Sent ==
    ASSUME log \in Seq(Event), NEW e \in Event, log' = Append(log, e)
    PROVE  /\ log' \in Seq(Event)
           /\ Len(log) \in Nat /\ Len(log') = Len(log) + 1
           /\ DOMAIN log = 1 .. Len(log) /\ DOMAIN log' = 1 .. Len(log) + 1
           /\ \A i \in 1 .. Len(log) : log'[i] = log[i]
           /\ log'[Len(log) + 1] = e
OBVIOUS

\* The log as it is.
LEMMA Logged ==
    ASSUME log \in Seq(Event)
    PROVE  /\ Len(log) \in Nat /\ DOMAIN log = 1 .. Len(log)
           /\ \A i \in DOMAIN log : log[i] \in Event /\ log[i].trace \in Trace
<1>1. Len(log) \in Nat /\ DOMAIN log = 1 .. Len(log)
  OBVIOUS
<1>2. \A i \in DOMAIN log : log[i] \in Event
  BY <1>1
<1> QED
  BY <1>1, <1>2 DEF Event

----------------------------------------------------------------------------
(* The steps of the engine.                                                  *)

\* What an engine step leaves alone, and what becomes of bornIn.
Beside ==
    /\ up
    /\ bornIn' = [t \in Trace |->
                    IF phase[t] = "new" /\ phase'[t] # "new" THEN crashes ELSE bornIn[t]]
    /\ UNCHANGED <<up, crashes, cursor, inFlight, row, missed, swept>>

\* An engine step that sends nothing.
LEMMA SilentStep ==
    ASSUME IInv, Beside, log' = log,
           phase' \in [Trace -> Phases], verdict' \in [Trace -> {"none"} \cup Verdicts],
           VerdictIsPhase',
           \A t \in Trace :
              /\ phase[t] # "new" => phase'[t] # "new"
              /\ phase[t] \notin {"new", "listed"} => phase'[t] \notin {"new", "listed"}
              /\ phase[t] = "gone" => phase'[t] = "gone"
              /\ verdict[t] # "none" => verdict'[t] = verdict[t]
    PROVE  IInv'
<1> USE DEF IInv
<1>1. bornIn \in [Trace -> 0 .. MaxCrashes] /\ crashes \in 0 .. MaxCrashes
  BY DEF RecorderTypeOK
<1>2. \A t \in Trace : bornIn'[t] = IF phase[t] = "new" /\ phase'[t] # "new" THEN crashes ELSE bornIn[t]
  BY DEF Beside
<1>3. RecorderTypeOK'
  BY <1>1 DEF RecorderTypeOK, Beside
<1>4. LifecycleTypeOK'
  BY DEF LifecycleTypeOK
<1>5. BornHere'
  BY <1>1, <1>2 DEF BornHere, Beside, LifecycleTypeOK, Phases
<1>6. DownIsQuiet'
  BY DEF DownIsQuiet, Beside
<1>7. \A i \in DOMAIN log : log[i].trace \in Trace
  BY Logged DEF LifecycleTypeOK
<1>8. LogIsTrue'
  BY <1>2, <1>7 DEF LogIsTrue, Beside, Verdicts
<1>9. StartedOnce' /\ UnreadHasNoRow'
  BY DEF StartedOnce, UnreadHasNoRow, Beside
<1>10. RowTellsVerdict'
  BY DEF RowTellsVerdict, Beside, Verdicts
<1>11. NoGhostRuns'
  BY <1>2 DEF NoGhostRuns, Beside, RowTellsVerdict
<1> QED
  BY <1>3, <1>4, <1>5, <1>6, <1>8, <1>9, <1>10, <1>11

\* An engine step that sends one event, about an execution that has begun.
LEMMA SendingStep ==
    ASSUME IInv, Beside, NEW t \in Trace, NEW k \in {"started", "node"} \cup Verdicts,
           log' = Append(log, Ev(k, t)), verdict' = verdict,
           phase' \in [Trace -> Phases],
           \A u \in Trace : u # t => phase'[u] = phase[u],
           phase[t] # "new", phase'[t] \notin {"new", "listed"},
           phase[t] = "gone" => phase'[t] = "gone",
           VerdictIsPhase',
           k = "started" => phase[t] = "listed",
           k \in Verdicts => verdict[t] = k
    PROVE  IInv'
<1> USE DEF IInv
<1> DEFINE e == Ev(k, t)
<1>1. e \in Event /\ e.kind = k /\ e.trace = t
  BY EventFields
<1> HIDE DEF e
<1>2. /\ log' \in Seq(Event)
      /\ Len(log) \in Nat /\ Len(log') = Len(log) + 1
      /\ DOMAIN log = 1 .. Len(log) /\ DOMAIN log' = 1 .. Len(log) + 1
      /\ \A i \in 1 .. Len(log) : log'[i] = log[i]
      /\ log'[Len(log) + 1] = e
  BY <1>1, Sent DEF LifecycleTypeOK, e
<1>3. \A i \in 1 .. Len(log) : log[i].trace \in Trace
  BY <1>2, Logged DEF LifecycleTypeOK
<1>4. bornIn \in [Trace -> 0 .. MaxCrashes] /\ crashes \in 0 .. MaxCrashes /\ cursor \in 0 .. Len(log)
  BY DEF RecorderTypeOK
<1>5. bornIn' = bornIn
  BY <1>4 DEF Beside
<1>6. RecorderTypeOK'
  BY <1>2, <1>4, <1>5 DEF RecorderTypeOK, Beside
<1>7. LifecycleTypeOK'
  BY <1>2 DEF LifecycleTypeOK
<1>8. BornHere'
  BY <1>5 DEF BornHere, Beside, LifecycleTypeOK, Phases
<1>9. DownIsQuiet'
  BY DEF DownIsQuiet, Beside
<1>10. \A i \in DOMAIN log' : i \in 1 .. Len(log) \/ i = Len(log) + 1
  BY <1>2
<1>11. LogIsTrue'
  <2> SUFFICES ASSUME NEW i \in DOMAIN log'
               PROVE  /\ log'[i].kind = "started" =>
                            phase'[log'[i].trace] \notin {"new", "listed"}
                            /\ bornIn'[log'[i].trace] = crashes'
                      /\ log'[i].kind \in Verdicts => verdict'[log'[i].trace] = log'[i].kind
    BY DEF LogIsTrue, Verdicts
  <2>1. CASE i \in 1 .. Len(log)
    BY <1>2, <1>3, <1>5, <2>1 DEF LogIsTrue, Beside
  <2>2. CASE i = Len(log) + 1
    BY <1>1, <1>2, <1>5, <2>2 DEF BornHere, Beside, Verdicts
  <2> QED
    BY <1>10, <2>1, <2>2
<1>12. StartedOnce'
  <2>1. \A i \in 1 .. Len(log) :
            k = "started" /\ log[i].kind = "started" => log[i].trace # t
    BY <1>2 DEF LogIsTrue
  <2> QED
    BY <1>1, <1>2, <1>10, <2>1 DEF StartedOnce
<1>13. UnreadHasNoRow'
  <2>1. k = "started" => row[t] = "absent"
    BY DEF RowTellsVerdict
  <2> QED
    BY <1>1, <1>2, <1>10, <2>1 DEF UnreadHasNoRow, Beside
<1>14. RowTellsVerdict' /\ NoGhostRuns'
  BY <1>5 DEF RowTellsVerdict, NoGhostRuns, Beside
<1> QED
  BY <1>6, <1>7, <1>8, <1>9, <1>11, <1>12, <1>13, <1>14

\* Every step of the engine, one of its actions at a time.
LEMMA EngineStep == IInv /\ Engine(EngineNext) => IInv'
<1> SUFFICES ASSUME IInv, Engine(EngineNext) PROVE IInv'
  OBVIOUS
<1>0. /\ Beside /\ EngineNext
      /\ phase \in [Trace -> Phases] /\ verdict \in [Trace -> {"none"} \cup Verdicts]
      /\ VerdictIsPhase /\ BornHere
  BY DEF Engine, Beside, IInv, LifecycleTypeOK
<1>1. ASSUME NEW t \in Trace, List(t) PROVE IInv'
  <2>1. /\ phase' = [phase EXCEPT ![t] = "listed"] /\ verdict' = verdict /\ log' = log
        /\ phase[t] = "new"
    BY <1>1 DEF List
  <2>2. phase' \in [Trace -> Phases] /\ VerdictIsPhase'
    BY <1>0, <2>1 DEF VerdictIsPhase, Phases, Verdicts
  <2> QED
    BY <1>0, <2>1, <2>2, SilentStep
<1>2. ASSUME NEW t \in Trace, Settle(t) PROVE IInv'
  <2>1. PICK v \in Verdicts : verdict' = [verdict EXCEPT ![t] = v]
    BY <1>2 DEF Settle
  <2>2. phase' = [phase EXCEPT ![t] = "settled"] /\ log' = log /\ phase[t] = "running"
    BY <1>2 DEF Settle
  <2>3. /\ phase' \in [Trace -> Phases] /\ verdict' \in [Trace -> {"none"} \cup Verdicts]
        /\ VerdictIsPhase' /\ verdict[t] = "none"
    BY <1>0, <2>1, <2>2 DEF VerdictIsPhase, Phases
  <2> QED
    BY <1>0, <2>1, <2>2, <2>3, SilentStep
<1>3. ASSUME NEW t \in Trace, Leave(t) PROVE IInv'
  <2>1. /\ phase' = [phase EXCEPT ![t] = "gone"] /\ verdict' = verdict /\ log' = log
        /\ phase[t] = "announced"
    BY <1>3 DEF Leave
  <2>2. phase' \in [Trace -> Phases] /\ VerdictIsPhase'
    BY <1>0, <2>1 DEF VerdictIsPhase, Phases, Verdicts
  <2> QED
    BY <1>0, <2>1, <2>2, SilentStep
<1>4. ASSUME NEW S \in SUBSET Trace, Ask(S) PROVE IInv'
  <2>1. phase' = phase /\ verdict' = verdict /\ log' = log
    BY <1>4 DEF Ask
  <2>2. VerdictIsPhase'
    BY <1>0, <2>1 DEF VerdictIsPhase
  <2> QED
    BY <1>0, <2>1, <2>2, SilentStep
<1>5. ASSUME NEW t \in Trace, Begin(t) PROVE IInv'
  <2>1. /\ phase' = [phase EXCEPT ![t] = "running"] /\ verdict' = verdict
        /\ log' = Append(log, Ev("started", t)) /\ phase[t] = "listed"
    BY <1>5 DEF Begin
  <2>2. phase' \in [Trace -> Phases] /\ VerdictIsPhase'
    BY <1>0, <2>1 DEF VerdictIsPhase, Phases, Verdicts
  <2> QED
    BY <1>0, <2>1, <2>2, SendingStep DEF Verdicts
<1>6. ASSUME NEW t \in Trace, Announce(t) PROVE IInv'
  <2>1. /\ phase' = [phase EXCEPT ![t] = "announced"] /\ verdict' = verdict
        /\ log' = Append(log, Ev(verdict[t], t)) /\ phase[t] = "settled"
    BY <1>6 DEF Announce
  <2>2. phase' \in [Trace -> Phases] /\ VerdictIsPhase' /\ verdict[t] \in Verdicts
    BY <1>0, <2>1 DEF VerdictIsPhase, Phases, Verdicts
  <2> QED
    BY <1>0, <2>1, <2>2, SendingStep DEF Verdicts
<1>7. ASSUME NEW t \in Trace, bornIn[t] = crashes, Report(t) PROVE IInv'
  <2>1. /\ phase' = phase /\ verdict' = verdict /\ log' = Append(log, Ev("node", t))
        /\ phase[t] \notin {"new", "listed"}
    BY <1>7 DEF Report
  <2>2. VerdictIsPhase'
    BY <1>0, <2>1 DEF VerdictIsPhase
  <2> QED
    BY <1>0, <2>1, <2>2, SendingStep DEF Verdicts
<1> QED
  BY <1>0, <1>1, <1>2, <1>3, <1>4, <1>5, <1>6, <1>7 DEF EngineNext, DriverStep

----------------------------------------------------------------------------
(* The steps of the recorder and of the process.                             *)

\* A turn of the recorder that leaves the rows alone.
LEMMA RowsAlone ==
    ASSUME IInv, UNCHANGED <<phase, verdict, log, up, crashes, bornIn, row, swept>>,
           cursor' \in cursor .. Len(log), inFlight' \subseteq Trace, missed' \subseteq Trace
    PROVE  IInv'
<1>1. cursor \in 0 .. Len(log) /\ Len(log) \in Nat
  BY Logged DEF IInv, RecorderTypeOK, LifecycleTypeOK
<1>2. RecorderTypeOK'
  BY <1>1 DEF IInv, RecorderTypeOK
<1>3. UnreadHasNoRow'
  BY <1>1, Logged DEF IInv, UnreadHasNoRow, LifecycleTypeOK
<1> QED
  BY <1>2, <1>3 DEF IInv, LifecycleTypeOK, VerdictIsPhase, BornHere, DownIsQuiet, LogIsTrue,
     StartedOnce, RowTellsVerdict, NoGhostRuns

\* A turn that reads one event.
LEMMA ReadsOne ==
    ASSUME IInv, NEW K, NextIs(K)
    PROVE  /\ UNCHANGED <<phase, verdict, log, up, crashes, bornIn, swept>> /\ up
           /\ cursor + 1 \in DOMAIN log /\ cursor \in Nat /\ cursor' = cursor + 1
           /\ cursor' \in cursor .. Len(log)
           /\ log[cursor + 1].trace \in Trace /\ log[cursor + 1].kind \in K
<1>1. cursor \in 0 .. Len(log)
  BY DEF IInv, RecorderTypeOK
<1> QED
  BY <1>1, Logged DEF NextIs, IInv, LifecycleTypeOK, lifecycleVars

\* A turn that changes the row of the execution whose event it read.
LEMMA OneRow ==
    ASSUME IInv, NEW K, NextIs(K), inFlight' \subseteq Trace, missed' \subseteq Trace,
           NEW STATE t, t = log[cursor + 1].trace, NEW STATE s, row' = [row EXCEPT ![t] = s],
           s \in {"running"} \cup Verdicts,
           \/ log[cursor + 1].kind = "started" /\ s = "running"
           \/ row[t] = "running" /\ s = log[cursor + 1].kind
    PROVE  IInv' /\ row[t] \in {"absent", "running"}
<1>1. /\ UNCHANGED <<phase, verdict, log, up, crashes, bornIn, swept>> /\ up
      /\ cursor + 1 \in DOMAIN log /\ cursor \in Nat /\ cursor' = cursor + 1
      /\ cursor' \in cursor .. Len(log) /\ t \in Trace
  BY ReadsOne
<1>2. Len(log) \in Nat /\ DOMAIN log = 1 .. Len(log) /\ \A i \in DOMAIN log : log[i].trace \in Trace
  BY Logged DEF IInv, LifecycleTypeOK
<1>3. row \in [Trace -> {"absent", "running", "interrupted"} \cup Verdicts]
  BY DEF IInv, RecorderTypeOK
<1>4. RecorderTypeOK'
  BY <1>1, <1>2, <1>3 DEF IInv, RecorderTypeOK
<1>5. log[cursor + 1].kind = "started" => /\ row[t] = "absent" /\ bornIn[t] = crashes
                                           /\ phase[t] \notin {"new", "listed"}
  BY <1>1 DEF IInv, UnreadHasNoRow, LogIsTrue
<1>6. row[t] \in {"absent", "running"}
  BY <1>5
<1>7. RowTellsVerdict'
  <2>1. s \in Verdicts => verdict[t] = s
    BY <1>1 DEF IInv, LogIsTrue, Verdicts
  <2>2. phase[t] \notin {"new", "listed"}
    BY <1>1, <1>5 DEF IInv, RowTellsVerdict
  <2> QED
    BY <1>1, <1>3, <2>1, <2>2 DEF IInv, RowTellsVerdict
<1>8. NoGhostRuns'
  BY <1>1, <1>3, <1>5 DEF IInv, NoGhostRuns, Verdicts
<1>9. UnreadHasNoRow'
  <2> SUFFICES ASSUME NEW i \in DOMAIN log, i > cursor + 1, log[i].kind = "started"
               PROVE  row'[log[i].trace] = "absent"
    BY <1>1 DEF UnreadHasNoRow
  <2>1. row[log[i].trace] = "absent"
    BY <1>1, <1>2 DEF IInv, UnreadHasNoRow
  <2>2. log[i].trace # t
    BY <1>1, <1>2, <2>1 DEF IInv, StartedOnce
  <2> QED
    BY <1>2, <1>3, <2>1, <2>2
<1> QED
  BY <1>1, <1>4, <1>6, <1>7, <1>8, <1>9 DEF IInv, LifecycleTypeOK, VerdictIsPhase, BornHere,
     DownIsQuiet, LogIsTrue, StartedOnce

\* Every turn of the recorder; a row it changes was open.
LEMMA RecorderStep ==
    IInv /\ Recorder => /\ IInv'
                        /\ \A t \in Trace : row[t] \notin {"absent", "running"} => row'[t] = row[t]
<1> SUFFICES ASSUME IInv, Recorder
             PROVE  /\ IInv'
                    /\ \A t \in Trace : row[t] \notin {"absent", "running"} => row'[t] = row[t]
  OBVIOUS
<1>0. /\ cursor \in 0 .. Len(log) /\ Len(log) \in Nat /\ DOMAIN log = 1 .. Len(log)
      /\ \A i \in DOMAIN log : log[i].trace \in Trace
      /\ inFlight \subseteq Trace /\ missed \subseteq Trace
      /\ row \in [Trace -> {"absent", "running", "interrupted"} \cup Verdicts]
  BY Logged DEF IInv, RecorderTypeOK, LifecycleTypeOK
<1>1. CASE Lag
  <2>1. cursor' \in cursor .. Len(log)
    BY <1>0, <1>1, ExecutionRecorderAssumption DEF Lag, Lagging
  <2>2. missed' \subseteq Trace
    BY <1>0, <1>1, ExecutionRecorderAssumption DEF Lag
  <2> QED
    BY <1>0, <1>1, <2>1, <2>2, RowsAlone DEF Lag, lifecycleVars
<1>2. CASE RecordStart
  <2> DEFINE t == log[cursor + 1].trace
  <2>1. NextIs({"started"}) /\ t \in Trace /\ log[cursor + 1].kind = "started"
    BY <1>2, ReadsOne DEF RecordStart
  <2>2. CASE row' = [row EXCEPT ![t] = "running"] /\ inFlight' = inFlight \cup {t} /\ UNCHANGED missed
    <3>1. inFlight' \subseteq Trace /\ missed' \subseteq Trace
      BY <1>0, <2>1, <2>2
    <3> QED
      BY <1>0, <2>1, <2>2, <3>1, OneRow
  <2>3. CASE missed' = missed \cup {t} /\ UNCHANGED <<row, inFlight>>
    BY <1>0, <2>1, <2>3, ReadsOne, RowsAlone
  <2> QED
    BY <1>2, <2>2, <2>3 DEF RecordStart
<1>3. CASE RecordCompletion
  <2> DEFINE t == log[cursor + 1].trace
             v == log[cursor + 1].kind
  <2>1. NextIs(Verdicts) /\ t \in Trace /\ v \in Verdicts
    BY <1>3, ReadsOne DEF RecordCompletion
  <2>2. inFlight' \subseteq Trace /\ missed' \subseteq Trace
    BY <1>0, <1>3, <2>1 DEF RecordCompletion
  <2>3. CASE UNCHANGED row
    BY <2>1, <2>2, <2>3, ReadsOne, RowsAlone
  <2>4. CASE row' = [row EXCEPT ![t] = IF @ = "running" THEN v ELSE @]
    <3>1. CASE row[t] = "running"
      <4>1. row' = [row EXCEPT ![t] = v]
        BY <2>4, <3>1
      <4> QED
        BY <1>0, <2>1, <2>2, <3>1, <4>1, OneRow
    <3>2. CASE row[t] # "running"
      <4>1. row' = row
        BY <1>0, <2>4, <3>2
      <4> QED
        BY <2>1, <2>2, <4>1, ReadsOne, RowsAlone
    <3> QED
      BY <3>1, <3>2
  <2> QED
    BY <1>3, <2>3, <2>4 DEF RecordCompletion
<1>4. CASE IgnoreNodeEvent
  BY <1>0, <1>4, ReadsOne, RowsAlone DEF IgnoreNodeEvent
<1> QED
  BY <1>1, <1>2, <1>3, <1>4 DEF Recorder

\* A crash takes the events and what was under way.
LEMMA CrashStep == IInv /\ Crash => IInv'
<1> SUFFICES ASSUME IInv, Crash PROVE IInv'
  OBVIOUS
<1> USE DEF Crash
<1>1. /\ crashes \in 0 .. MaxCrashes /\ crashes < MaxCrashes /\ MaxCrashes \in Nat
      /\ bornIn \in [Trace -> 0 .. MaxCrashes] /\ bornIn' = bornIn
      /\ phase \in [Trace -> Phases]
  BY ExecutionRecorderAssumption DEF IInv, RecorderTypeOK, LifecycleTypeOK
<1>2. log' = << >> /\ log' \in Seq(Event) /\ Len(log') = 0 /\ DOMAIN log' = {}
  OBVIOUS
<1>3. RecorderTypeOK'
  <2>1. crashes' \in 0 .. MaxCrashes /\ cursor' \in 0 .. Len(log')
    BY <1>1, <1>2
  <2> QED
    BY <1>1, <2>1 DEF IInv, RecorderTypeOK
<1>4. LifecycleTypeOK' /\ VerdictIsPhase'
  BY <1>1, <1>2 DEF IInv, LifecycleTypeOK, VerdictIsPhase, Phases
<1>5. BornHere' /\ DownIsQuiet'
  BY <1>1, <1>2 DEF IInv, BornHere, DownIsQuiet
<1>6. LogIsTrue' /\ StartedOnce' /\ UnreadHasNoRow'
  BY <1>2 DEF LogIsTrue, StartedOnce, UnreadHasNoRow
<1>7. RowTellsVerdict' /\ NoGhostRuns'
  BY <1>1 DEF IInv, RowTellsVerdict, NoGhostRuns, BornHere
<1> QED
  BY <1>3, <1>4, <1>5, <1>6, <1>7 DEF IInv

\* The next start closes rows of earlier processes, and no others.
LEMMA StartStep == IInv /\ Start => IInv'
<1> SUFFICES ASSUME IInv, Start PROVE IInv'
  OBVIOUS
<1> USE DEF Start, lifecycleVars
<1>1. /\ row \in [Trace -> {"absent", "running", "interrupted"} \cup Verdicts]
      /\ log = << >> /\ DOMAIN log = {} /\ log' = log
      /\ bornIn' = bornIn /\ crashes' = crashes
      /\ \A t \in Trace : phase[t] # "new" => bornIn[t] < crashes
      /\ bornIn \in [Trace -> 0 .. MaxCrashes] /\ crashes \in 0 .. MaxCrashes
  BY DEF IInv, RecorderTypeOK, DownIsQuiet
<1>2. RecorderTypeOK'
  BY <1>1 DEF IInv, RecorderTypeOK
<1>3. LifecycleTypeOK' /\ VerdictIsPhase' /\ BornHere' /\ DownIsQuiet'
  BY DEF IInv, LifecycleTypeOK, VerdictIsPhase, BornHere, DownIsQuiet
<1>4. LogIsTrue' /\ StartedOnce' /\ UnreadHasNoRow'
  BY <1>1 DEF LogIsTrue, StartedOnce, UnreadHasNoRow
<1>5. RowTellsVerdict'
  BY <1>1 DEF IInv, RowTellsVerdict, Verdicts
<1>6. NoGhostRuns'
  BY <1>1 DEF IInv, NoGhostRuns, RowTellsVerdict, DownIsQuiet
<1> QED
  BY <1>2, <1>3, <1>4, <1>5, <1>6 DEF IInv

----------------------------------------------------------------------------
(* The theorems.                                                             *)

\* Every step keeps the invariant, and rows that are closed as they are.
LEMMA StepPreserves ==
    ASSUME IInv, [RecorderNext]_allVars
    PROVE  /\ IInv'
           /\ \A t \in Trace : row[t] \notin {"absent", "running"} => row'[t] = row[t]
<1>1. CASE Engine(EngineNext)
  BY <1>1, EngineStep DEF Engine
<1>2. CASE Recorder
  BY <1>2, RecorderStep
<1>3. CASE Crash
  BY <1>3, CrashStep DEF Crash
<1>4. CASE Start
  <2>1. row \in [Trace -> {"absent", "running", "interrupted"} \cup Verdicts]
    BY DEF IInv, RecorderTypeOK
  <2> QED
    BY <1>4, <2>1, StartStep DEF Start
<1>5. CASE UNCHANGED allVars
  BY <1>5 DEF allVars, lifecycleVars, recorderVars, IInv, RecorderTypeOK, LifecycleTypeOK,
     VerdictIsPhase, BornHere, DownIsQuiet, LogIsTrue, StartedOnce, UnreadHasNoRow,
     RowTellsVerdict, NoGhostRuns
<1> QED
  BY <1>1, <1>2, <1>3, <1>4, <1>5 DEF RecorderNext

\* The inductive invariant always holds.
THEOREM RecorderInvariant == RecorderSpec => []IInv
<1>1. IInv /\ [RecorderNext]_allVars => IInv'
  BY StepPreserves
<1> QED
  BY <1>1, InitEstablishes, PTL DEF RecorderSpec

\* Type correctness of the recorder and the history.
THEOREM RecorderTypeCorrect == RecorderSpec => []RecorderTypeOK
<1>1. IInv => RecorderTypeOK
  BY DEF IInv
<1> QED
  BY <1>1, RecorderInvariant, PTL

\* The history is honest, however far the recorder lags, whichever of its
\* statements fail and whenever the server dies: a row tells the verdict that
\* was announced, one that shows "running" is of the process that runs now, and
\* a row that is closed stays as it is.
THEOREM HistoryHonest == RecorderSpec => HistoryIsHonest
<1>1. IInv => RowTellsVerdict /\ NoGhostRuns
  BY DEF IInv
<1>2. IInv /\ [RecorderNext]_allVars =>
        [\A t \in Trace : row[t] \notin {"absent", "running"} => row'[t] = row[t]]_allVars
  BY StepPreserves
<1> QED
  BY <1>1, <1>2, RecorderInvariant, PTL DEF RecorderSpec, HistoryIsHonest, ClosedRowsKept
----------------------------------------------------------------------------
(* The editor, for any nodes of the flow and any numbers of clicks, edits,   *)
(* runs and events under way.                                                *)

EditorSpec == EditorInit /\ [][EditorNext]_editorVars

NodeEvent == [type : {"node"}, run : Nat, node : CanvasNode, now : Colour]
EditorEvent == [type : {"flow_started", "flow_ended"}, run : Nat] \cup NodeEvent
StartOf(r) == [type |-> "flow_started", run |-> r]
EndOf(r) == [type |-> "flow_ended", run |-> r]
Colouring == [CanvasNode -> Colour]

\* A set of indices has a greatest.
LEMMA GreatestIndex ==
    ASSUME NEW N \in Nat, NEW s \in SUBSET (1 .. N), s # {}
    PROVE  Max(s) \in s /\ \A y \in s : Max(s) >= y
<1> DEFINE Good(k) == \A t \in SUBSET (1 .. k) : t # {} => \E x \in t : \A y \in t : x >= y
           T == {k \in Nat : Good(k)}
<1>1. 0 \in T
  <2>1. 1 .. 0 = {}
    OBVIOUS
  <2> QED
    BY <2>1
<1>2. ASSUME NEW k \in Nat, k \in T PROVE k + 1 \in T
  <2> SUFFICES ASSUME NEW t \in SUBSET (1 .. k + 1), t # {} PROVE \E x \in t : \A y \in t : x >= y
    OBVIOUS
  <2>1. CASE k + 1 \in t
    BY <2>1
  <2>2. CASE k + 1 \notin t
    <3>1. t \in SUBSET (1 .. k)
      BY <2>2
    <3> QED
      BY <1>2, <3>1
  <2> QED
    BY <2>1, <2>2
<1>3. Nat \subseteq T
  <2> HIDE DEF T
  <2> QED
    BY <1>1, <1>2, Numbers!NumberInduction
<1>4. \E x \in s : \A y \in s : x >= y
  BY <1>3
<1> QED
  BY <1>4 DEF Max

\* The colours after the events with indices in s.
Shown(status, events, nodeMap, s) ==
    [n \in CanvasNode |->
        LET about == {i \in s : events[i].node = n}
        IN  IF n \notin nodeMap \/ about = {} THEN status[n] ELSE events[Max(about)].now]

\* A colour shown after some events is one more event applied to the others.
LEMMA ShownStep ==
    ASSUME NEW status \in Colouring, NEW events \in Seq(NodeEvent), NEW nodeMap,
           NEW s \in SUBSET (1 .. Len(events)), s # {}
    PROVE  /\ Shown(status, events, nodeMap, s)
                = ApplyNodeEvent(Shown(status, events, nodeMap, s \ {Max(s)}), events[Max(s)], nodeMap)
           /\ Shown(status, events, nodeMap, s) \in Colouring
<1>1. PICK x : x = Max(s)
  OBVIOUS
<1>2. x \in s /\ (\A y \in s : x >= y) /\ x \in 1 .. Len(events) /\ Len(events) \in Nat
  <2>1. PICK N \in Nat : N = Len(events)
    OBVIOUS
  <2>2. s \in SUBSET (1 .. N)
    BY <2>1
  <2>3. x \in s /\ \A y \in s : x >= y
    BY <1>1, <2>2, GreatestIndex
  <2> QED
    BY <2>1, <2>2, <2>3
<1> DEFINE old == Shown(status, events, nodeMap, s \ {x})
           About(n) == {i \in s : events[i].node = n}
<1>3. ASSUME NEW n \in CanvasNode, About(n) # {}
      PROVE  Max(About(n)) \in About(n) /\ \A y \in About(n) : Max(About(n)) >= y
  <2>1. About(n) \in SUBSET (1 .. Len(events))
    OBVIOUS
  <2> HIDE DEF About
  <2> QED
    BY <1>2, <1>3, <2>1, GreatestIndex
<1>4. \A n \in CanvasNode : Shown(status, events, nodeMap, s)[n] =
          IF n \notin nodeMap \/ About(n) = {} THEN status[n] ELSE events[Max(About(n))].now
  BY DEF Shown
<1>5. \A n \in CanvasNode : old[n] =
          IF n \notin nodeMap \/ About(n) \ {x} = {} THEN status[n] ELSE events[Max(About(n) \ {x})].now
  <2> SUFFICES ASSUME NEW n \in CanvasNode
               PROVE  old[n] = IF n \notin nodeMap \/ About(n) \ {x} = {} THEN status[n]
                               ELSE events[Max(About(n) \ {x})].now
    OBVIOUS
  <2>1. {i \in s \ {x} : events[i].node = n} = About(n) \ {x}
    OBVIOUS
  <2> HIDE DEF About
  <2> QED
    BY <2>1 DEF Shown
<1>6. events[x] \in NodeEvent
  BY <1>2
<1>7. ASSUME NEW n \in CanvasNode, n # events[x].node PROVE Shown(status, events, nodeMap, s)[n] = old[n]
  <2>1. About(n) \ {x} = About(n)
    BY <1>7
  <2> HIDE DEF About, old
  <2> QED
    BY <1>4, <1>5, <2>1
<1>8. ASSUME NEW n \in CanvasNode, n = events[x].node, n \in nodeMap
      PROVE  Shown(status, events, nodeMap, s)[n] = events[x].now
  <2>1. x \in About(n)
    BY <1>2, <1>8
  <2>2. Max(About(n)) = x
    <3>1. PICK m : m = Max(About(n))
      OBVIOUS
    <3>2. m \in About(n) /\ m >= x
      BY <1>3, <2>1, <3>1
    <3>3. m \in s /\ m \in Nat /\ x \in Nat
      BY <3>2, <1>2
    <3> QED
      BY <1>2, <3>1, <3>2, <3>3
  <2> HIDE DEF About
  <2> QED
    BY <1>4, <1>8, <2>1, <2>2
<1>9. ASSUME NEW n \in CanvasNode, n \notin nodeMap PROVE Shown(status, events, nodeMap, s)[n] = old[n]
  BY <1>4, <1>5, <1>9
<1>10. ASSUME NEW n \in CanvasNode PROVE Shown(status, events, nodeMap, s)[n] \in Colour
  <2>1. CASE n \notin nodeMap \/ About(n) = {}
    BY <1>4, <2>1 DEF Colouring
  <2>2. CASE n \in nodeMap /\ About(n) # {}
    <3>1. PICK m \in 1 .. Len(events) : m = Max(About(n))
      BY <1>3, <2>2
    <3>2. events[m] \in NodeEvent
      BY <3>1
    <3> QED
      BY <1>4, <2>2, <3>1, <3>2 DEF NodeEvent
  <2> QED
    BY <2>1, <2>2
<1>11. Shown(status, events, nodeMap, s) \in Colouring
  BY <1>10 DEF Shown, Colouring
<1>12. DOMAIN old = CanvasNode /\ old = [n \in CanvasNode |-> old[n]]
       /\ Shown(status, events, nodeMap, s) = [n \in CanvasNode |-> Shown(status, events, nodeMap, s)[n]]
  BY DEF Shown
<1> HIDE DEF old, About
<1>13. ApplyNodeEvent(old, events[x], nodeMap) = Shown(status, events, nodeMap, s)
  <2>1. CASE events[x].node \in nodeMap
    <3>1. ApplyNodeEvent(old, events[x], nodeMap) = [old EXCEPT ![events[x].node] = events[x].now]
      BY <2>1 DEF ApplyNodeEvent
    <3>2. \A n \in CanvasNode : [old EXCEPT ![events[x].node] = events[x].now][n]
                                = Shown(status, events, nodeMap, s)[n]
      BY <1>6, <1>7, <1>8, <1>12, <2>1 DEF NodeEvent
    <3> QED
      BY <1>12, <3>1, <3>2
  <2>2. CASE events[x].node \notin nodeMap
    <3>1. ApplyNodeEvent(old, events[x], nodeMap) = old
      BY <2>2 DEF ApplyNodeEvent
    <3>2. \A n \in CanvasNode : Shown(status, events, nodeMap, s)[n] = old[n]
      BY <1>7, <1>9, <2>2
    <3> QED
      BY <1>12, <3>1, <3>2
  <2> QED
    BY <2>1, <2>2
<1> QED
  BY <1>1, <1>11, <1>13 DEF old

\* What set_node_map makes of the events that waited.
LEMMA ReplayShows ==
    ASSUME NEW status \in Colouring, NEW events \in Seq(NodeEvent), NEW nodeMap
    PROVE  /\ Replayed(status, events, nodeMap) = Shown(status, events, nodeMap, 1 .. Len(events))
           /\ Replayed(status, events, nodeMap) \in Colouring
<1> DEFINE S == 1 .. Len(events)
           t == [s \in SUBSET S |-> Shown(status, events, nodeMap, s)]
           Step(g) == [s \in SUBSET S |-> IF s = {} THEN status
                                          ELSE ApplyNodeEvent(g[s \ {Max(s)}], events[Max(s)], nodeMap)]
<1>0. Len(events) \in Nat /\ DOMAIN events = S
  OBVIOUS
<1>1. Shown(status, events, nodeMap, {}) = status
  BY DEF Shown, Colouring
<1>2. t = Step(t)
  <2> SUFFICES ASSUME NEW s \in SUBSET S
               PROVE  t[s] = IF s = {} THEN status
                             ELSE ApplyNodeEvent(t[s \ {Max(s)}], events[Max(s)], nodeMap)
    OBVIOUS
  <2>1. CASE s = {}
    BY <1>1, <2>1
  <2>2. CASE s # {}
    <3>1. t[s \ {Max(s)}] = Shown(status, events, nodeMap, s \ {Max(s)})
      OBVIOUS
    <3>2. t[s] = Shown(status, events, nodeMap, s)
      OBVIOUS
    <3> QED
      BY <2>2, <3>1, <3>2, ShownStep
  <2> QED
    BY <2>1, <2>2
<1>3. PICK r : r = CHOOSE iter : iter = Step(iter)
  OBVIOUS
<1>4. Replayed(status, events, nodeMap) = r[S]
  BY <1>0, <1>3 DEF Replayed, FoldLeft, MapThenFoldSet
<1>5. r = Step(r)
  <2> HIDE DEF Step, t
  <2> QED
    BY <1>2, <1>3
<1>6. \A s \in SUBSET S : r[s] = IF s = {} THEN status
                                 ELSE ApplyNodeEvent(r[s \ {Max(s)}], events[Max(s)], nodeMap)
  <2>1. r = [s \in SUBSET S |-> IF s = {} THEN status
                                ELSE ApplyNodeEvent(r[s \ {Max(s)}], events[Max(s)], nodeMap)]
    BY <1>5
  <2> QED
    BY <2>1
<1> DEFINE T == {k \in Nat : k <= Len(events) => r[1 .. k] = Shown(status, events, nodeMap, 1 .. k)}
<1>7. 0 \in T
  <2>1. 1 .. 0 = {} /\ {} \in SUBSET S
    OBVIOUS
  <2>2. r[{}] = status
    BY <1>6, <2>1
  <2> QED
    BY <1>1, <2>1, <2>2
<1>8. ASSUME NEW k \in Nat, k \in T PROVE k + 1 \in T
  <2> SUFFICES ASSUME k + 1 <= Len(events) PROVE r[1 .. k + 1] = Shown(status, events, nodeMap, 1 .. k + 1)
    OBVIOUS
  <2>1. r[1 .. k] = Shown(status, events, nodeMap, 1 .. k)
    BY <1>0, <1>8
  <2>2. 1 .. k + 1 \in SUBSET S /\ 1 .. k + 1 # {} /\ (1 .. k + 1) \ {k + 1} = 1 .. k
    BY <1>0
  <2>3. Max(1 .. k + 1) = k + 1
    <3>1. Max(1 .. k + 1) \in 1 .. k + 1 /\ \A y \in 1 .. k + 1 : Max(1 .. k + 1) >= y
      <4>1. PICK N \in Nat : N = k + 1
        OBVIOUS
      <4>2. Max(1 .. N) \in 1 .. N /\ \A y \in 1 .. N : Max(1 .. N) >= y
        <5>1. 1 .. N \in SUBSET (1 .. N) /\ 1 .. N # {}
          BY <2>2, <4>1
        <5> HIDE DEF T
        <5> QED
          BY <5>1, GreatestIndex
      <4> QED
        BY <4>1, <4>2
    <3> QED
      BY <3>1
  <2>4. r[1 .. k + 1] = ApplyNodeEvent(r[1 .. k], events[k + 1], nodeMap)
    BY <1>6, <2>2, <2>3
  <2>5. Shown(status, events, nodeMap, 1 .. k + 1)
            = ApplyNodeEvent(Shown(status, events, nodeMap, 1 .. k), events[k + 1], nodeMap)
    BY <2>2, <2>3, ShownStep
  <2> QED
    BY <2>1, <2>4, <2>5
<1>9. Nat \subseteq T
  <2> HIDE DEF T
  <2> QED
    BY <1>7, <1>8, Numbers!NumberInduction
<1>10. r[S] = Shown(status, events, nodeMap, S)
  <2>1. Len(events) \in T
    BY <1>0, <1>9, Zenon
  <2>2. Len(events) <= Len(events)
    BY <1>0
  <2> QED
    BY <2>1, <2>2
<1>11. Shown(status, events, nodeMap, S) \in Colouring
  <2>1. CASE S = {}
    BY <1>1, <2>1
  <2>2. CASE S # {}
    BY <2>2, ShownStep
  <2> QED
    BY <2>1, <2>2
<1> QED
  BY <1>4, <1>10, <1>11

\* What the events q of run r will have shown, over status, is what its nodes did.
About(e, r, n) == e.type = "node" /\ e.run = r /\ e.node = n
LeadsOne(was, is, q, r, n) ==
    \/ was = is /\ \A i \in DOMAIN q : ~About(q[i], r, n)
    \/ \E i \in DOMAIN q : /\ About(q[i], r, n) /\ q[i].now = is
                           /\ \A j \in DOMAIN q : j > i => ~About(q[j], r, n)
Leads(status, is, q, r) == \A n \in CanvasNode : LeadsOne(status[n], is[n], q, r, n)

\* An event that goes out leads on to the colour it brings.
LEMMA LeadsAppend ==
    ASSUME NEW was, NEW is, NEW now, NEW q \in Seq(EditorEvent), NEW e \in EditorEvent, NEW r, NEW n,
           LeadsOne(was, is, q, r, n), IF About(e, r, n) THEN e.now = now ELSE now = is
    PROVE  LeadsOne(was, now, Append(q, e), r, n)
<1>1. /\ Len(q) \in Nat /\ DOMAIN q = 1 .. Len(q)
      /\ Len(Append(q, e)) = Len(q) + 1 /\ DOMAIN Append(q, e) = 1 .. Len(q) + 1
      /\ Append(q, e)[Len(q) + 1] = e /\ \A i \in 1 .. Len(q) : Append(q, e)[i] = q[i]
  OBVIOUS
<1>2. CASE About(e, r, n)
  <2>1. Len(q) + 1 \in DOMAIN Append(q, e) /\ ~ \E j \in DOMAIN Append(q, e) : j > Len(q) + 1
    BY <1>1
  <2> QED
    BY <1>1, <1>2, <2>1 DEF LeadsOne
<1>3. CASE ~About(e, r, n)
  <2>1. CASE was = is /\ \A i \in DOMAIN q : ~About(q[i], r, n)
    BY <1>1, <1>3, <2>1 DEF LeadsOne
  <2>2. CASE \E i \in DOMAIN q : /\ About(q[i], r, n) /\ q[i].now = is
                                 /\ \A j \in DOMAIN q : j > i => ~About(q[j], r, n)
    <3>1. PICK i \in DOMAIN q : /\ About(q[i], r, n) /\ q[i].now = is
                                /\ \A j \in DOMAIN q : j > i => ~About(q[j], r, n)
      BY <2>2
    <3>2. i \in DOMAIN Append(q, e) /\ Append(q, e)[i] = q[i]
      BY <1>1
    <3>3. \A j \in DOMAIN Append(q, e) : j > i => ~About(Append(q, e)[j], r, n)
      BY <1>1, <1>3, <3>1
    <3> QED
      BY <1>3, <3>1, <3>2, <3>3 DEF LeadsOne
  <2> QED
    BY <2>1, <2>2 DEF LeadsOne
<1> QED
  BY <1>2, <1>3

\* An event that was applied leaves the rest leading on from it.
LEMMA LeadsTail ==
    ASSUME NEW was, NEW is, NEW now, NEW q \in Seq(EditorEvent), q # <<>>, NEW r, NEW n,
           LeadsOne(was, is, q, r, n), IF About(Head(q), r, n) THEN now = Head(q).now ELSE now = was
    PROVE  LeadsOne(now, is, Tail(q), r, n)
<1>1. /\ Len(q) \in Nat \ {0} /\ DOMAIN q = 1 .. Len(q) /\ q[1] = Head(q)
      /\ DOMAIN Tail(q) = 1 .. Len(q) - 1 /\ \A i \in 1 .. Len(q) - 1 : Tail(q)[i] = q[i + 1]
  OBVIOUS
<1>2. \A i \in DOMAIN Tail(q) : i + 1 \in DOMAIN q /\ Tail(q)[i] = q[i + 1] /\ i \in Nat
  BY <1>1
<1>3. CASE was = is /\ \A i \in DOMAIN q : ~About(q[i], r, n)
  <2>1. ~About(Head(q), r, n)
    BY <1>1, <1>3
  <2> QED
    BY <1>2, <1>3, <2>1 DEF LeadsOne
<1>4. CASE \E i \in DOMAIN q : /\ About(q[i], r, n) /\ q[i].now = is
                               /\ \A j \in DOMAIN q : j > i => ~About(q[j], r, n)
  <2>1. PICK i \in DOMAIN q : /\ About(q[i], r, n) /\ q[i].now = is
                              /\ \A j \in DOMAIN q : j > i => ~About(q[j], r, n)
    BY <1>4
  <2>2. CASE i = 1
    <3>1. now = is
      BY <1>1, <2>1, <2>2
    <3>2. \A j \in DOMAIN Tail(q) : ~About(Tail(q)[j], r, n)
      <4> SUFFICES ASSUME NEW j \in DOMAIN Tail(q) PROVE ~About(Tail(q)[j], r, n)
        OBVIOUS
      <4>1. j + 1 \in DOMAIN q /\ j + 1 > i /\ Tail(q)[j] = q[j + 1]
        BY <1>1, <2>2
      <4> QED
        BY <2>1, <4>1
    <3> QED
      BY <3>1, <3>2 DEF LeadsOne
  <2>3. CASE i # 1
    <3>1. PICK k : k = i - 1
      OBVIOUS
    <3>2. k \in DOMAIN Tail(q) /\ Tail(q)[k] = q[i]
      <4>1. k \in 1 .. Len(q) - 1 /\ k + 1 = i
        BY <1>1, <2>3, <3>1
      <4> QED
        BY <1>1, <4>1
    <3>3. \A j \in DOMAIN Tail(q) : j > k => ~About(Tail(q)[j], r, n)
      <4> SUFFICES ASSUME NEW j \in DOMAIN Tail(q), j > k PROVE ~About(Tail(q)[j], r, n)
        OBVIOUS
      <4>1. j + 1 \in DOMAIN q /\ j + 1 > i /\ Tail(q)[j] = q[j + 1]
        BY <1>1, <3>1
      <4> QED
        BY <2>1, <4>1
    <3> QED
      BY <2>1, <3>2, <3>3 DEF LeadsOne
  <2> QED
    BY <2>2, <2>3
<1> QED
  BY <1>3, <1>4 DEF LeadsOne

\* What waited is applied at once.
LEMMA LeadsReplay ==
    ASSUME NEW status \in Colouring, NEW is, NEW p \in Seq(NodeEvent), NEW q \in Seq(EditorEvent), NEW r,
           \A i \in DOMAIN p : p[i].run = r, Leads(status, is, p \o q, r)
    PROVE  Leads(Shown(status, p, CanvasNode, 1 .. Len(p)), is, q, r)
<1>1. /\ Len(p) \in Nat /\ DOMAIN p = 1 .. Len(p) /\ Len(q) \in Nat /\ DOMAIN q = 1 .. Len(q)
      /\ DOMAIN (p \o q) = 1 .. Len(p) + Len(q)
      /\ \A i \in 1 .. Len(p) : (p \o q)[i] = p[i]
      /\ \A i \in 1 .. Len(q) : (p \o q)[Len(p) + i] = q[i]
  OBVIOUS
<1> DEFINE all == p \o q
<1> SUFFICES ASSUME NEW n \in CanvasNode
             PROVE  LeadsOne(Shown(status, p, CanvasNode, 1 .. Len(p))[n], is[n], q, r, n)
  BY DEF Leads
<1>2. LeadsOne(status[n], is[n], all, r, n)
  BY DEF Leads
<1> DEFINE about == {i \in 1 .. Len(p) : p[i].node = n}
           new == Shown(status, p, CanvasNode, 1 .. Len(p))[n]
<1>3. new = IF about = {} THEN status[n] ELSE p[Max(about)].now
  BY DEF Shown
<1>4. \A i \in 1 .. Len(p) : About(p[i], r, n) <=> i \in about
  <2>1. \A i \in 1 .. Len(p) : p[i] \in NodeEvent
    BY <1>1
  <2> QED
    BY <1>1, <2>1 DEF About, NodeEvent
<1>5. about # {} => Max(about) \in about /\ \A y \in about : Max(about) >= y
  <2>1. about \in SUBSET (1 .. Len(p)) /\ Len(p) \in Nat
    BY <1>1
  <2> HIDE DEF about
  <2> QED
    BY <2>1, GreatestIndex
<1> HIDE DEF all, about, new
<1>6. /\ DOMAIN all = 1 .. Len(p) + Len(q) /\ \A i \in 1 .. Len(p) : all[i] = p[i]
      /\ \A i \in 1 .. Len(q) : all[Len(p) + i] = q[i]
  BY <1>1 DEF all
<1>7. CASE \A i \in DOMAIN q : ~About(q[i], r, n)
  <2>1. \A i \in DOMAIN all : About(all[i], r, n) => i \in about
    <3> SUFFICES ASSUME NEW i \in DOMAIN all, About(all[i], r, n) PROVE i \in about
      OBVIOUS
    <3>1. CASE i \in 1 .. Len(p)
      BY <1>4, <1>6, <3>1
    <3>2. CASE i \notin 1 .. Len(p)
      <4>1. PICK k \in 1 .. Len(q) : i = Len(p) + k
        <5>1. i - Len(p) \in 1 .. Len(q) /\ i = Len(p) + (i - Len(p))
          BY <1>1, <1>6, <3>2
        <5> QED
          BY <5>1
      <4> QED
        BY <1>1, <1>6, <1>7, <4>1
    <3> QED
      BY <3>1, <3>2
  <2>2. \A i \in about : i \in 1 .. Len(p) /\ i \in DOMAIN all /\ About(all[i], r, n) /\ all[i] = p[i]
    <3>1. about \subseteq 1 .. Len(p)
      BY DEF about
    <3> QED
      BY <1>1, <1>4, <1>6, <3>1
  <2>3. CASE about = {}
    <3>1. status[n] = is[n]
      BY <1>2, <2>1, <2>3 DEF LeadsOne
    <3> QED
      BY <1>3, <1>7, <2>3, <3>1 DEF LeadsOne, new
  <2>4. CASE about # {}
    <3>1. PICK i \in DOMAIN all : /\ About(all[i], r, n) /\ all[i].now = is[n]
                                  /\ \A j \in DOMAIN all : j > i => ~About(all[j], r, n)
      BY <1>2, <2>2, <2>4 DEF LeadsOne
    <3>2. i \in about
      BY <2>1, <3>1
    <3>3. Max(about) = i
      <4>1. PICK m : m = Max(about)
        OBVIOUS
      <4>2. m \in about /\ m >= i
        BY <1>5, <2>4, <3>2, <4>1
      <4>3. ~(m > i)
        BY <2>2, <3>1, <4>2
      <4>4. m \in Nat /\ i \in Nat
        BY <2>2, <3>2, <4>2
      <4> QED
        BY <4>1, <4>2, <4>3, <4>4
    <3>4. new = is[n]
      BY <1>3, <2>2, <2>4, <3>1, <3>2, <3>3
    <3> QED
      BY <1>7, <3>4 DEF LeadsOne, new
  <2> QED
    BY <2>3, <2>4
<1>8. CASE \E i \in DOMAIN q : About(q[i], r, n)
  <2>1. PICK k \in 1 .. Len(q) : About(q[k], r, n)
    BY <1>1, <1>8
  <2>2. Len(p) + k \in DOMAIN all /\ About(all[Len(p) + k], r, n)
    BY <1>1, <1>6, <2>1
  <2>3. PICK i \in DOMAIN all : /\ About(all[i], r, n) /\ all[i].now = is[n]
                                /\ \A j \in DOMAIN all : j > i => ~About(all[j], r, n)
    BY <1>2, <2>2 DEF LeadsOne
  <2>4. i >= Len(p) + k
    BY <1>1, <1>6, <2>2, <2>3
  <2>5. PICK l \in 1 .. Len(q) : i = Len(p) + l
    <3>1. i - Len(p) \in 1 .. Len(q) /\ i = Len(p) + (i - Len(p))
      BY <1>1, <1>6, <2>4
    <3> QED
      BY <3>1
  <2>6. all[i] = q[l]
    BY <1>6, <2>5
  <2>7. \A j \in DOMAIN q : j > l => ~About(q[j], r, n)
    <3> SUFFICES ASSUME NEW j \in DOMAIN q, j > l PROVE ~About(q[j], r, n)
      OBVIOUS
    <3>1. Len(p) + j \in DOMAIN all /\ all[Len(p) + j] = q[j] /\ Len(p) + j > i
      BY <1>1, <1>6, <2>5
    <3> QED
      BY <2>3, <3>1
  <2> QED
    BY <1>1, <2>3, <2>5, <2>6, <2>7 DEF LeadsOne, new
<1> QED
  BY <1>7, <1>8

----------------------------------------------------------------------------
(* The events under way.                                                     *)

RunRecord == [own : BOOLEAN, going : BOOLEAN, nodes : Colouring]

IsStart(e) == e.type = "flow_started"
IsEnd(e) == e.type = "flow_ended"

KnownRuns(runs, q) == \A i \in DOMAIN q : q[i].run \in DOMAIN runs
StartsFollowed(runs, q) ==
    \A i \in DOMAIN q : IsStart(q[i]) =>
        runs[q[i].run].going \/ \E j \in DOMAIN q : j > i /\ q[j] = EndOf(q[i].run)
StartsInOrder(q) == \A i, j \in DOMAIN q : IsStart(q[i]) /\ j < i => q[j].run < q[i].run
LatestStart(runs, q) ==
    \A i \in DOMAIN q : IsStart(q[i]) => \E j \in DOMAIN q : q[j] = StartOf(Len(runs))
EndsLast(runs, q) ==
    \A i \in DOMAIN q : IsEnd(q[i]) =>
        ~runs[q[i].run].going /\ \A j \in DOMAIN q : j > i => q[j].run # q[i].run
Untold(runs, q) ==
    (\E i \in DOMAIN q : q[i] = StartOf(Len(runs))) =>
        Leads(AllIdle, runs[Len(runs)].nodes, q, Len(runs))

Wires(runs, q) ==
    /\ KnownRuns(runs, q) /\ StartsFollowed(runs, q) /\ StartsInOrder(q)
    /\ LatestStart(runs, q) /\ EndsLast(runs, q) /\ Untold(runs, q)

\* An empty wire carries what it should.
LEMMA WiresEmpty ==
    ASSUME NEW runs
    PROVE  Wires(runs, <<>>)
<1>1. DOMAIN <<>> = {}
  OBVIOUS
<1> QED
  BY <1>1 DEF Wires, KnownRuns, StartsFollowed, StartsInOrder, LatestStart, EndsLast, Untold

\* What an appended event leaves in place.
LEMMA AppendEvent ==
    ASSUME NEW q \in Seq(EditorEvent), NEW e \in EditorEvent
    PROVE  /\ Len(q) \in Nat /\ DOMAIN q = 1 .. Len(q)
           /\ Append(q, e) \in Seq(EditorEvent)
           /\ Len(Append(q, e)) = Len(q) + 1 /\ DOMAIN Append(q, e) = 1 .. Len(q) + 1
           /\ Append(q, e)[Len(q) + 1] = e /\ \A i \in DOMAIN q : Append(q, e)[i] = q[i]
           /\ \A i \in DOMAIN Append(q, e) : i \in DOMAIN q \/ i = Len(q) + 1
           /\ \A i \in DOMAIN q : i \in DOMAIN Append(q, e) /\ i < Len(q) + 1 /\ i \in Nat /\ q[i] \in EditorEvent
<1>1. Len(q) \in Nat /\ DOMAIN q = 1 .. Len(q) /\ \A i \in 1 .. Len(q) : q[i] \in EditorEvent
  OBVIOUS
<1>2. Append(q, e) \in Seq(EditorEvent) /\ Len(Append(q, e)) = Len(q) + 1
  OBVIOUS
<1>3. Append(q, e)[Len(q) + 1] = e /\ \A i \in 1 .. Len(q) : Append(q, e)[i] = q[i]
  OBVIOUS
<1>4. DOMAIN Append(q, e) = 1 .. Len(q) + 1
  BY <1>2
<1> QED
  BY <1>1, <1>2, <1>3, <1>4

\* What a removed first event leaves in place.
LEMMA TailEvents ==
    ASSUME NEW q \in Seq(EditorEvent), q # <<>>
    PROVE  /\ Len(q) \in Nat \ {0} /\ DOMAIN q = 1 .. Len(q) /\ 1 \in DOMAIN q /\ q[1] = Head(q)
           /\ Tail(q) \in Seq(EditorEvent) /\ Len(Tail(q)) = Len(q) - 1
           /\ \A i \in DOMAIN Tail(q) : i \in Nat /\ i + 1 \in DOMAIN q /\ i + 1 > 1 /\ Tail(q)[i] = q[i + 1]
           /\ \A i \in DOMAIN q : i = 1 \/ (i - 1 \in DOMAIN Tail(q) /\ Tail(q)[i - 1] = q[i] /\ i > 1 /\ i \in Nat)
<1>1. Len(q) \in Nat \ {0} /\ DOMAIN q = 1 .. Len(q) /\ q[1] = Head(q)
  OBVIOUS
<1>2. Tail(q) \in Seq(EditorEvent) /\ Len(Tail(q)) = Len(q) - 1 /\ DOMAIN Tail(q) = 1 .. Len(q) - 1
  OBVIOUS
<1>3. \A i \in 1 .. Len(q) - 1 : Tail(q)[i] = q[i + 1]
  OBVIOUS
<1> QED
  BY <1>1, <1>2, <1>3

\* An event starts a run, ends one or is a node's.
LEMMA EventKinds ==
    ASSUME NEW e \in EditorEvent
    PROVE  /\ IsStart(e) => e = StartOf(e.run)
           /\ IsEnd(e) => e = EndOf(e.run)
           /\ ~(IsStart(e) /\ IsEnd(e))
           /\ e.type = "node" => e \in NodeEvent /\ ~IsStart(e) /\ ~IsEnd(e)
           /\ e.type \in {"flow_started", "flow_ended", "node"} /\ e.run \in Nat
           /\ IsStart(e) \/ IsEnd(e) => \A r, n : ~About(e, r, n)
BY DEF EditorEvent, NodeEvent, IsStart, IsEnd, StartOf, EndOf, About

\* A wire is still right after its first event was taken.
LEMMA WiresTail ==
    ASSUME NEW runs \in Seq(RunRecord), NEW q \in Seq(EditorEvent), q # <<>>, Wires(runs, q)
    PROVE  Wires(runs, Tail(q))
<1> DEFINE t == Tail(q)
<1>1. /\ \A i \in DOMAIN t : i \in Nat /\ i + 1 \in DOMAIN q /\ i + 1 > 1 /\ t[i] = q[i + 1]
      /\ \A i \in DOMAIN q : i = 1 \/ (i - 1 \in DOMAIN t /\ t[i - 1] = q[i] /\ i > 1 /\ i \in Nat)
      /\ 1 \in DOMAIN q /\ q[1] = Head(q) /\ Len(runs) \in Nat /\ DOMAIN runs = 1 .. Len(runs)
      /\ \A i \in DOMAIN q : q[i] \in EditorEvent
  BY TailEvents
<1>w. /\ KnownRuns(runs, q) /\ StartsFollowed(runs, q) /\ StartsInOrder(q)
      /\ LatestStart(runs, q) /\ EndsLast(runs, q) /\ Untold(runs, q)
  BY DEF Wires
<1> HIDE DEF t
<1>2. KnownRuns(runs, t)
  BY <1>1, <1>w DEF KnownRuns
<1>3. StartsFollowed(runs, t)
  <2> SUFFICES ASSUME NEW i \in DOMAIN t, IsStart(t[i]), ~runs[t[i].run].going
               PROVE  \E j \in DOMAIN t : j > i /\ t[j] = EndOf(t[i].run)
    BY DEF StartsFollowed
  <2>1. PICK j \in DOMAIN q : j > i + 1 /\ q[j] = EndOf(q[i + 1].run)
    BY <1>1, <1>w DEF StartsFollowed
  <2>2. j - 1 \in DOMAIN t /\ j - 1 > i /\ t[j - 1] = q[j] /\ t[i] = q[i + 1]
    <3>1. i \in Nat /\ j # 1
      BY <1>1, <2>1
    <3> QED
      BY <1>1, <2>1, <3>1
  <2> QED
    BY <2>1, <2>2
<1>4. StartsInOrder(t)
  <2> SUFFICES ASSUME NEW i \in DOMAIN t, NEW j \in DOMAIN t, IsStart(t[i]), j < i PROVE t[j].run < t[i].run
    BY DEF StartsInOrder
  <2>1. i + 1 \in DOMAIN q /\ j + 1 \in DOMAIN q /\ j + 1 < i + 1 /\ t[i] = q[i + 1] /\ t[j] = q[j + 1]
    BY <1>1
  <2> QED
    BY <1>w, <2>1 DEF StartsInOrder
<1>5. LatestStart(runs, t)
  <2> SUFFICES ASSUME NEW i \in DOMAIN t, IsStart(t[i])
               PROVE  \E j \in DOMAIN t : t[j] = StartOf(Len(runs))
    BY DEF LatestStart
  <2>1. i + 1 \in DOMAIN q /\ i + 1 > 1 /\ IsStart(q[i + 1]) /\ q[1].run < q[i + 1].run
    <3>1. i + 1 \in DOMAIN q /\ i + 1 > 1 /\ IsStart(q[i + 1]) /\ 1 \in DOMAIN q /\ i \in Nat /\ 1 < i + 1
      BY <1>1
    <3> QED
      BY <1>w, <3>1 DEF StartsInOrder
  <2>2. PICK j \in DOMAIN q : q[j] = StartOf(Len(runs))
    BY <1>w, <2>1 DEF LatestStart
  <2>3. j # 1
    <3>1. q[i + 1].run \in 1 .. Len(runs) /\ q[j].run = Len(runs)
      BY <1>1, <1>w, <2>1, <2>2 DEF KnownRuns, StartOf
    <3> QED
      BY <1>1, <2>1, <3>1
  <2> QED
    BY <1>1, <2>2, <2>3
<1>6. EndsLast(runs, t)
  <2> SUFFICES ASSUME NEW i \in DOMAIN t, IsEnd(t[i])
               PROVE  ~runs[t[i].run].going /\ \A j \in DOMAIN t : j > i => t[j].run # t[i].run
    BY DEF EndsLast
  <2>1. i + 1 \in DOMAIN q /\ t[i] = q[i + 1] /\ i \in Nat
    BY <1>1
  <2>2. ~runs[t[i].run].going /\ \A j \in DOMAIN q : j > i + 1 => q[j].run # t[i].run
    BY <1>w, <2>1 DEF EndsLast
  <2>3. \A j \in DOMAIN t : j > i => j + 1 \in DOMAIN q /\ j + 1 > i + 1 /\ t[j] = q[j + 1]
    BY <1>1, <2>1
  <2> QED
    BY <2>2, <2>3
<1>7. Untold(runs, t)
  <2> SUFFICES ASSUME NEW k \in DOMAIN t, t[k] = StartOf(Len(runs))
               PROVE  Leads(AllIdle, runs[Len(runs)].nodes, t, Len(runs))
    BY DEF Untold
  <2>1. k + 1 \in DOMAIN q /\ q[k + 1] = StartOf(Len(runs)) /\ k + 1 > 1
    BY <1>1
  <2>2. q[1].run # Len(runs)
    <3>1. IsStart(q[k + 1]) /\ q[k + 1].run = Len(runs)
      BY <2>1 DEF IsStart, StartOf
    <3>2. q[1].run < Len(runs)
      <4>1. 1 < k + 1
        BY <1>1
      <4> QED
        BY <1>1, <1>w, <2>1, <3>1, <4>1 DEF StartsInOrder
    <3>3. q[1].run \in Nat
      BY <1>1, EventKinds
    <3> QED
      BY <1>1, <3>2, <3>3
  <2>3. \A n \in CanvasNode : ~About(Head(q), Len(runs), n)
    BY <1>1, <2>2 DEF About
  <2>4. Leads(AllIdle, runs[Len(runs)].nodes, q, Len(runs))
    BY <1>w, <2>1 DEF Untold
  <2> SUFFICES ASSUME NEW n \in CanvasNode
               PROVE  LeadsOne(AllIdle[n], runs[Len(runs)].nodes[n], t, Len(runs), n)
    BY DEF Leads
  <2>5. PICK was, is, r : was = AllIdle[n] /\ is = runs[Len(runs)].nodes[n] /\ r = Len(runs)
    OBVIOUS
  <2>6. LeadsOne(was, is, q, r, n) /\ ~About(Head(q), r, n)
    BY <2>3, <2>4, <2>5 DEF Leads
  <2>7. LeadsOne(was, is, Tail(q), r, n)
    BY <2>6, LeadsTail
  <2> QED
    BY <2>5, <2>7 DEF t
<1> QED
  BY <1>2, <1>3, <1>4, <1>5, <1>6, <1>7 DEF Wires, t

\* A run begins.
LEMMA WiresBegin ==
    ASSUME NEW runs \in Seq(RunRecord), NEW q \in Seq(EditorEvent), Wires(runs, q),
           NEW run \in RunRecord, run.going, run.nodes = AllIdle
    PROVE  Wires(Append(runs, run), Append(q, StartOf(Len(runs) + 1)))
<1> DEFINE runs2 == Append(runs, run)
           last == Len(runs) + 1
           e == StartOf(last)
           t == Append(q, e)
<1>1. /\ Len(runs) \in Nat /\ DOMAIN runs = 1 .. Len(runs) /\ Len(runs2) = last /\ DOMAIN runs2 = 1 .. last
      /\ runs2[last] = run /\ \A r \in DOMAIN runs : runs2[r] = runs[r] /\ r # last /\ r < last /\ r \in DOMAIN runs2
      /\ last \in DOMAIN runs2
  <2>1. Len(runs) \in Nat /\ DOMAIN runs = 1 .. Len(runs) /\ Len(runs2) = last /\ runs2 \in Seq(RunRecord)
    OBVIOUS
  <2>2. runs2[last] = run /\ \A r \in 1 .. Len(runs) : runs2[r] = runs[r]
    OBVIOUS
  <2>3. DOMAIN runs2 = 1 .. last
    BY <2>1
  <2> QED
    BY <2>1, <2>2, <2>3
<1>2. e \in EditorEvent /\ e.run = last /\ IsStart(e) /\ ~IsEnd(e) /\ e = StartOf(last) /\ e.type # "node"
  BY <1>1 DEF EditorEvent, StartOf, IsStart, IsEnd
<1> HIDE DEF e
<1>3. /\ Len(q) \in Nat /\ DOMAIN q = 1 .. Len(q) /\ t[Len(q) + 1] = e /\ Len(q) + 1 \in DOMAIN t
      /\ \A i \in DOMAIN t : (i \in DOMAIN q /\ t[i] = q[i] /\ i < Len(q) + 1) \/ i = Len(q) + 1
      /\ \A i \in DOMAIN q : i \in DOMAIN t /\ t[i] = q[i] /\ i < Len(q) + 1 /\ i \in Nat /\ q[i] \in EditorEvent
  BY <1>2, AppendEvent
<1>w. /\ KnownRuns(runs, q) /\ StartsFollowed(runs, q) /\ StartsInOrder(q)
      /\ LatestStart(runs, q) /\ EndsLast(runs, q) /\ Untold(runs, q)
  BY DEF Wires
<1> HIDE DEF t, runs2
<1>4. KnownRuns(runs2, t) /\ \A i \in DOMAIN q : q[i].run \in DOMAIN runs
  BY <1>1, <1>2, <1>3, <1>w DEF KnownRuns
<1>5. StartsFollowed(runs2, t)
  <2> SUFFICES ASSUME NEW i \in DOMAIN t, IsStart(t[i]), ~runs2[t[i].run].going
               PROVE  \E j \in DOMAIN t : j > i /\ t[j] = EndOf(t[i].run)
    BY DEF StartsFollowed
  <2>1. i \in DOMAIN q /\ t[i] = q[i]
    BY <1>1, <1>2, <1>3
  <2>2. runs2[q[i].run] = runs[q[i].run]
    BY <1>1, <1>4, <2>1
  <2>3. PICK j \in DOMAIN q : j > i /\ q[j] = EndOf(q[i].run)
    BY <1>w, <2>1, <2>2 DEF StartsFollowed
  <2> QED
    BY <1>3, <2>1, <2>3
<1>6. StartsInOrder(t)
  <2> SUFFICES ASSUME NEW i \in DOMAIN t, NEW j \in DOMAIN t, IsStart(t[i]), j < i PROVE t[j].run < t[i].run
    BY DEF StartsInOrder
  <2>1. j \in DOMAIN q /\ t[j] = q[j]
    BY <1>3
  <2>2. CASE i \in DOMAIN q /\ t[i] = q[i]
    BY <1>w, <2>1, <2>2 DEF StartsInOrder
  <2>3. CASE i = Len(q) + 1
    BY <1>1, <1>2, <1>3, <1>4, <2>1, <2>3
  <2> QED
    BY <1>3, <2>2, <2>3
<1>7. LatestStart(runs2, t)
  BY <1>1, <1>2, <1>3 DEF LatestStart
<1>8. EndsLast(runs2, t)
  <2> SUFFICES ASSUME NEW i \in DOMAIN t, IsEnd(t[i])
               PROVE  ~runs2[t[i].run].going /\ \A j \in DOMAIN t : j > i => t[j].run # t[i].run
    BY DEF EndsLast
  <2>1. i \in DOMAIN q /\ t[i] = q[i] /\ q[i].run \in DOMAIN runs
    BY <1>2, <1>3, <1>4
  <2>2. ~runs[q[i].run].going /\ \A j \in DOMAIN q : j > i => q[j].run # q[i].run
    BY <1>w, <2>1 DEF EndsLast
  <2>3. ~runs2[t[i].run].going
    BY <1>1, <2>1, <2>2
  <2>4. ASSUME NEW j \in DOMAIN t, j > i PROVE t[j].run # t[i].run
    <3>1. CASE j \in DOMAIN q /\ t[j] = q[j]
      BY <2>1, <2>2, <2>4, <3>1
    <3>2. CASE j = Len(q) + 1
      BY <1>1, <1>2, <1>3, <2>1, <3>2
    <3> QED
      BY <1>3, <3>1, <3>2
  <2> QED
    BY <2>3, <2>4
<1>9. Untold(runs2, t)
  <2>1. \A i \in DOMAIN t, n \in CanvasNode : ~About(t[i], last, n)
    BY <1>1, <1>2, <1>3, <1>4 DEF About
  <2> QED
    BY <1>1, <2>1 DEF Untold, Leads, LeadsOne
<1> QED
  BY <1>4, <1>5, <1>6, <1>7, <1>8, <1>9 DEF Wires, runs2, t, e

\* What runs2 differs from runs in, after a node of run r went on or r ended.
Goes(runs, runs2, r, n, now) ==
    /\ Len(runs2) = Len(runs)
    /\ \A s \in DOMAIN runs : runs2[s].going = runs[s].going
    /\ \A s \in DOMAIN runs, m \in CanvasNode :
          runs2[s].nodes[m] = IF s = r /\ m = n THEN now ELSE runs[s].nodes[m]
Ends(runs, runs2, r) ==
    /\ Len(runs2) = Len(runs)
    /\ \A s \in DOMAIN runs : runs2[s].going = (runs[s].going /\ s # r)
    /\ \A s \in DOMAIN runs, m \in CanvasNode : runs2[s].nodes[m] = runs[s].nodes[m]
NodeOf(r, n, now) == [type |-> "node", run |-> r, node |-> n, now |-> now]

\* A node that goes on sends the event that leads to its colour.
LEMMA LeadsGoesOn ==
    ASSUME NEW runs \in Seq(RunRecord), NEW runs2 \in Seq(RunRecord), NEW q \in Seq(EditorEvent),
           NEW r \in DOMAIN runs, NEW n \in CanvasNode, NEW now \in Colour, Goes(runs, runs2, r, n, now),
           NEW s \in DOMAIN runs, NEW status, Leads(status, runs[s].nodes, q, s)
    PROVE  Leads(status, runs2[s].nodes, Append(q, NodeOf(r, n, now)), s)
<1> SUFFICES ASSUME NEW m \in CanvasNode
             PROVE  LeadsOne(status[m], runs2[s].nodes[m], Append(q, NodeOf(r, n, now)), s, m)
  BY DEF Leads
<1>1. PICK was, is, is2, e : /\ was = status[m] /\ is = runs[s].nodes[m] /\ is2 = runs2[s].nodes[m]
                             /\ e = NodeOf(r, n, now)
  OBVIOUS
<1>2. LeadsOne(was, is, q, s, m)
  BY <1>1 DEF Leads
<1>3. e \in EditorEvent /\ e.now = now /\ (About(e, s, m) <=> s = r /\ m = n)
  <2>1. Len(runs) \in Nat /\ r \in Nat
    OBVIOUS
  <2> QED
    BY <1>1, <2>1 DEF EditorEvent, NodeEvent, NodeOf, About
<1>4. IF About(e, s, m) THEN e.now = is2 ELSE is2 = is
  BY <1>1, <1>3 DEF Goes
<1>5. LeadsOne(was, is2, Append(q, e), s, m)
  BY <1>2, <1>3, <1>4, LeadsAppend
<1> QED
  BY <1>1, <1>5

\* A run that ends changes no colour but sends its end.
LEMMA LeadsEnd ==
    ASSUME NEW runs \in Seq(RunRecord), NEW runs2 \in Seq(RunRecord), NEW q \in Seq(EditorEvent),
           NEW r \in DOMAIN runs, Ends(runs, runs2, r),
           NEW s \in DOMAIN runs, NEW status, Leads(status, runs[s].nodes, q, s)
    PROVE  Leads(status, runs2[s].nodes, Append(q, EndOf(r)), s)
<1> SUFFICES ASSUME NEW m \in CanvasNode
             PROVE  LeadsOne(status[m], runs2[s].nodes[m], Append(q, EndOf(r)), s, m)
  BY DEF Leads
<1>1. PICK was, is, is2, e : /\ was = status[m] /\ is = runs[s].nodes[m] /\ is2 = runs2[s].nodes[m]
                             /\ e = EndOf(r)
  OBVIOUS
<1>2. LeadsOne(was, is, q, s, m)
  BY <1>1 DEF Leads
<1>3. e \in EditorEvent /\ ~About(e, s, m)
  <2>1. Len(runs) \in Nat /\ r \in Nat
    OBVIOUS
  <2> QED
    BY <1>1, <2>1 DEF EditorEvent, EndOf, About
<1>4. is2 = is
  BY <1>1 DEF Ends
<1>5. LeadsOne(was, is2, Append(q, e), s, m)
  BY <1>2, <1>3, <1>4, LeadsAppend
<1> QED
  BY <1>1, <1>5

\* A node of a run goes on.
LEMMA WiresNode ==
    ASSUME NEW runs \in Seq(RunRecord), NEW runs2 \in Seq(RunRecord), NEW q \in Seq(EditorEvent), Wires(runs, q),
           NEW r \in DOMAIN runs, NEW n \in CanvasNode, NEW now \in Colour, Goes(runs, runs2, r, n, now),
           runs[r].going
    PROVE  Wires(runs2, Append(q, NodeOf(r, n, now)))
<1> DEFINE e == NodeOf(r, n, now)
           t == Append(q, e)
<1>1. /\ Len(runs) \in Nat /\ DOMAIN runs = 1 .. Len(runs) /\ DOMAIN runs2 = DOMAIN runs
      /\ Len(runs2) = Len(runs) /\ \A s \in DOMAIN runs : runs2[s].going = runs[s].going
  BY DEF Goes
<1>2. e \in EditorEvent /\ e.run = r /\ ~IsStart(e) /\ ~IsEnd(e)
  BY <1>1 DEF EditorEvent, NodeEvent, NodeOf, IsStart, IsEnd
<1> HIDE DEF e
<1>3. /\ t[Len(q) + 1] = e /\ Len(q) + 1 \in DOMAIN t
      /\ \A i \in DOMAIN t : (i \in DOMAIN q /\ t[i] = q[i] /\ i < Len(q) + 1) \/ i = Len(q) + 1
      /\ \A i \in DOMAIN q : i \in DOMAIN t /\ t[i] = q[i] /\ i < Len(q) + 1 /\ i \in Nat /\ q[i] \in EditorEvent
  BY <1>2, AppendEvent
<1>w. /\ KnownRuns(runs, q) /\ StartsFollowed(runs, q) /\ StartsInOrder(q)
      /\ LatestStart(runs, q) /\ EndsLast(runs, q) /\ Untold(runs, q)
  BY DEF Wires
<1> HIDE DEF t
<1>4. KnownRuns(runs2, t) /\ \A i \in DOMAIN q : q[i].run \in DOMAIN runs
  BY <1>1, <1>2, <1>3, <1>w DEF KnownRuns
<1>5. StartsFollowed(runs2, t)
  <2> SUFFICES ASSUME NEW i \in DOMAIN t, IsStart(t[i]), ~runs2[t[i].run].going
               PROVE  \E j \in DOMAIN t : j > i /\ t[j] = EndOf(t[i].run)
    BY DEF StartsFollowed
  <2>1. i \in DOMAIN q /\ t[i] = q[i]
    BY <1>2, <1>3
  <2>2. PICK j \in DOMAIN q : j > i /\ q[j] = EndOf(q[i].run)
    BY <1>1, <1>4, <1>w, <2>1 DEF StartsFollowed
  <2> QED
    BY <1>3, <2>1, <2>2
<1>6. StartsInOrder(t)
  <2> SUFFICES ASSUME NEW i \in DOMAIN t, NEW j \in DOMAIN t, IsStart(t[i]), j < i PROVE t[j].run < t[i].run
    BY DEF StartsInOrder
  <2>1. i \in DOMAIN q /\ t[i] = q[i] /\ i < Len(q) + 1 /\ i \in Nat /\ Len(q) \in Nat
    BY <1>2, <1>3
  <2>2. j \in DOMAIN q /\ t[j] = q[j]
    BY <1>3, <2>1
  <2> QED
    BY <1>w, <2>1, <2>2 DEF StartsInOrder
<1>7. LatestStart(runs2, t)
  <2> SUFFICES ASSUME NEW i \in DOMAIN t, IsStart(t[i]) PROVE \E j \in DOMAIN t : t[j] = StartOf(Len(runs))
    BY <1>1 DEF LatestStart
  <2>1. i \in DOMAIN q /\ t[i] = q[i]
    BY <1>2, <1>3
  <2> QED
    BY <1>3, <1>w, <2>1 DEF LatestStart
<1>8. EndsLast(runs2, t)
  <2> SUFFICES ASSUME NEW i \in DOMAIN t, IsEnd(t[i])
               PROVE  ~runs2[t[i].run].going /\ \A j \in DOMAIN t : j > i => t[j].run # t[i].run
    BY DEF EndsLast
  <2>1. i \in DOMAIN q /\ t[i] = q[i] /\ q[i].run \in DOMAIN runs
    BY <1>2, <1>3, <1>4
  <2>2. ~runs[q[i].run].going /\ \A j \in DOMAIN q : j > i => q[j].run # q[i].run
    BY <1>w, <2>1 DEF EndsLast
  <2>3. ASSUME NEW j \in DOMAIN t, j > i PROVE t[j].run # t[i].run
    <3>1. CASE j \in DOMAIN q /\ t[j] = q[j]
      BY <2>1, <2>2, <2>3, <3>1
    <3>2. CASE j = Len(q) + 1
      BY <1>2, <1>3, <2>1, <2>2, <3>2
    <3> QED
      BY <1>3, <3>1, <3>2
  <2> QED
    BY <1>1, <2>1, <2>2, <2>3
<1>9. Untold(runs2, t)
  <2> SUFFICES ASSUME NEW k \in DOMAIN t, t[k] = StartOf(Len(runs))
               PROVE  Leads(AllIdle, runs2[Len(runs)].nodes, t, Len(runs))
    BY <1>1 DEF Untold
  <2>1. k \in DOMAIN q /\ t[k] = q[k]
    BY <1>2, <1>3 DEF StartOf, IsStart
  <2>2. Leads(AllIdle, runs[Len(runs)].nodes, q, Len(runs))
    BY <1>w, <2>1 DEF Untold
  <2>3. PICK s : s = Len(runs)
    OBVIOUS
  <2>4. s \in DOMAIN runs
    BY <1>1, <2>3
  <2>5. Leads(AllIdle, runs2[s].nodes, Append(q, NodeOf(r, n, now)), s)
    BY <2>2, <2>3, <2>4, LeadsGoesOn
  <2> QED
    BY <2>3, <2>5 DEF t, e
<1> QED
  BY <1>4, <1>5, <1>6, <1>7, <1>8, <1>9 DEF Wires, t, e

\* A run ends.
LEMMA WiresEnd ==
    ASSUME NEW runs \in Seq(RunRecord), NEW runs2 \in Seq(RunRecord), NEW q \in Seq(EditorEvent), Wires(runs, q),
           NEW r \in DOMAIN runs, Ends(runs, runs2, r), runs[r].going
    PROVE  Wires(runs2, Append(q, EndOf(r)))
<1> DEFINE e == EndOf(r)
           t == Append(q, e)
<1>1. /\ Len(runs) \in Nat /\ DOMAIN runs = 1 .. Len(runs) /\ DOMAIN runs2 = DOMAIN runs
      /\ Len(runs2) = Len(runs) /\ \A s \in DOMAIN runs : runs2[s].going = (runs[s].going /\ s # r)
  BY DEF Ends
<1>2. e \in EditorEvent /\ e.run = r /\ ~IsStart(e) /\ e = EndOf(r)
  BY <1>1 DEF EditorEvent, EndOf, IsStart
<1> HIDE DEF e
<1>3. /\ t[Len(q) + 1] = e /\ Len(q) + 1 \in DOMAIN t /\ Len(q) \in Nat
      /\ \A i \in DOMAIN t : (i \in DOMAIN q /\ t[i] = q[i] /\ i < Len(q) + 1 /\ i \in Nat) \/ i = Len(q) + 1
      /\ \A i \in DOMAIN q : i \in DOMAIN t /\ t[i] = q[i] /\ i < Len(q) + 1 /\ i \in Nat /\ q[i] \in EditorEvent
  BY <1>2, AppendEvent
<1>w. /\ KnownRuns(runs, q) /\ StartsFollowed(runs, q) /\ StartsInOrder(q)
      /\ LatestStart(runs, q) /\ EndsLast(runs, q) /\ Untold(runs, q)
  BY DEF Wires
<1> HIDE DEF t
<1>4. KnownRuns(runs2, t) /\ \A i \in DOMAIN q : q[i].run \in DOMAIN runs
  BY <1>1, <1>2, <1>3, <1>w DEF KnownRuns
<1>5. StartsFollowed(runs2, t)
  <2> SUFFICES ASSUME NEW i \in DOMAIN t, IsStart(t[i]), ~runs2[t[i].run].going
               PROVE  \E j \in DOMAIN t : j > i /\ t[j] = EndOf(t[i].run)
    BY DEF StartsFollowed
  <2>1. i \in DOMAIN q /\ t[i] = q[i] /\ q[i].run \in DOMAIN runs
    BY <1>2, <1>3, <1>4
  <2>2. CASE q[i].run = r
    BY <1>2, <1>3, <2>1, <2>2
  <2>3. CASE q[i].run # r
    <3>1. ~runs[q[i].run].going
      BY <1>1, <2>1, <2>3
    <3>2. PICK j \in DOMAIN q : j > i /\ q[j] = EndOf(q[i].run)
      BY <1>w, <2>1, <3>1 DEF StartsFollowed
    <3> QED
      BY <1>3, <2>1, <3>2
  <2> QED
    BY <2>2, <2>3
<1>6. StartsInOrder(t)
  <2> SUFFICES ASSUME NEW i \in DOMAIN t, NEW j \in DOMAIN t, IsStart(t[i]), j < i PROVE t[j].run < t[i].run
    BY DEF StartsInOrder
  <2>1. i \in DOMAIN q /\ t[i] = q[i] /\ i < Len(q) + 1 /\ i \in Nat /\ Len(q) \in Nat
    BY <1>2, <1>3
  <2>2. j \in DOMAIN q /\ t[j] = q[j]
    BY <1>3, <2>1
  <2> QED
    BY <1>w, <2>1, <2>2 DEF StartsInOrder
<1>7. LatestStart(runs2, t)
  <2> SUFFICES ASSUME NEW i \in DOMAIN t, IsStart(t[i]) PROVE \E j \in DOMAIN t : t[j] = StartOf(Len(runs))
    BY <1>1 DEF LatestStart
  <2>1. i \in DOMAIN q /\ t[i] = q[i]
    BY <1>2, <1>3
  <2> QED
    BY <1>3, <1>w, <2>1 DEF LatestStart
<1>8. EndsLast(runs2, t)
  <2> SUFFICES ASSUME NEW i \in DOMAIN t, IsEnd(t[i])
               PROVE  ~runs2[t[i].run].going /\ \A j \in DOMAIN t : j > i => t[j].run # t[i].run
    BY DEF EndsLast
  <2>1. CASE i = Len(q) + 1
    <3>1. ~runs2[t[i].run].going
      BY <1>1, <1>2, <1>3, <2>1
    <3>2. \A j \in DOMAIN t : ~(j > i)
      BY <1>3, <2>1
    <3> QED
      BY <3>1, <3>2
  <2>2. CASE i \in DOMAIN q /\ t[i] = q[i]
    <3>1. ~runs[q[i].run].going /\ \A j \in DOMAIN q : j > i => q[j].run # q[i].run
      BY <1>w, <2>2 DEF EndsLast
    <3>2. ASSUME NEW j \in DOMAIN t, j > i PROVE t[j].run # t[i].run
      <4>1. CASE j \in DOMAIN q /\ t[j] = q[j]
        BY <2>2, <3>1, <3>2, <4>1
      <4>2. CASE j = Len(q) + 1
        BY <1>2, <1>3, <2>2, <3>1, <4>2
      <4> QED
        BY <1>3, <4>1, <4>2
    <3> QED
      BY <1>1, <1>4, <2>2, <3>1, <3>2
  <2> QED
    BY <1>3, <2>1, <2>2
<1>9. Untold(runs2, t)
  <2> SUFFICES ASSUME NEW k \in DOMAIN t, t[k] = StartOf(Len(runs))
               PROVE  Leads(AllIdle, runs2[Len(runs)].nodes, t, Len(runs))
    BY <1>1 DEF Untold
  <2>1. k \in DOMAIN q /\ t[k] = q[k]
    BY <1>2, <1>3 DEF StartOf, IsStart
  <2>2. Leads(AllIdle, runs[Len(runs)].nodes, q, Len(runs))
    BY <1>w, <2>1 DEF Untold
  <2>3. PICK s : s = Len(runs)
    OBVIOUS
  <2>4. s \in DOMAIN runs
    BY <1>1, <2>3
  <2>5. Leads(AllIdle, runs2[s].nodes, Append(q, EndOf(r)), s)
    BY <2>2, <2>3, <2>4, LeadsEnd
  <2> QED
    BY <2>3, <2>5 DEF t, e
<1> QED
  BY <1>4, <1>5, <1>6, <1>7, <1>8, <1>9 DEF Wires, t, e

----------------------------------------------------------------------------
(* What the page has heard of the last run.                                  *)

EditorRecord ==
    [status : Colouring, nodeMap : {{}, CanvasNode}, pending : Seq(NodeEvent), resetTimer : BOOLEAN,
     running : BOOLEAN, dirty : BOOLEAN, deployed : BOOLEAN, canvas : 0 .. MaxEdits, edits : 0 .. MaxEdits]

Begun(runs, q) == Len(runs) > 0 /\ \A i \in DOMAIN q : ~IsStart(q[i])

\* The timer has reset the colours of a run that is over.
Rested(ed, runs, q) ==
    /\ ~runs[Len(runs)].going /\ ~ed.resetTimer
    /\ ed.status = AllIdle /\ ed.pending = <<>> /\ q = <<>>
AllOfLast(runs, q) == \A i \in DOMAIN q : q[i].run = Len(runs)
Runs(ed, runs, q) == ed.running <=> (runs[Len(runs)].going \/ q # <<>>)
EndComes(runs, q) == ~runs[Len(runs)].going /\ q # <<>> => q[Len(q)] = EndOf(Len(runs))
Heard(ed, runs, q) ==
    /\ AllOfLast(runs, q) /\ AllOfLast(runs, ed.pending)
    /\ \A r \in DOMAIN runs : r # Len(runs) => ~runs[r].going
    /\ Runs(ed, runs, q) /\ EndComes(runs, q)
    /\ \/ Leads(ed.status, runs[Len(runs)].nodes, ed.pending \o q, Len(runs))
       \/ Rested(ed, runs, q)

Ending(ed, runs, q) ==
    ed.running => \/ \E r \in DOMAIN runs : runs[r].going
                  \/ \E i \in DOMAIN q : IsEnd(q[i])

EventsOK(ed, runs, q, exc) ==
    /\ ed \in EditorRecord /\ runs \in Seq(RunRecord) /\ q \in Seq(EditorEvent)
    /\ Wires(runs, q)
    /\ "colours" \notin exc /\ Begun(runs, q) => Heard(ed, runs, q)
    /\ ed.nodeMap # {} => ed.pending = <<>>
    /\ "running" \notin exc => Ending(ed, runs, q)

\* The parts of what is kept about events.
LEMMA EventsParts ==
    ASSUME NEW ed, NEW runs, NEW q, NEW exc, EventsOK(ed, runs, q, exc)
    PROVE  /\ ed \in EditorRecord /\ runs \in Seq(RunRecord) /\ q \in Seq(EditorEvent)
           /\ Wires(runs, q)
           /\ "colours" \notin exc /\ Begun(runs, q) => Heard(ed, runs, q)
           /\ ed.nodeMap # {} => ed.pending = <<>>
           /\ "running" \notin exc => Ending(ed, runs, q)
BY DEF EventsOK

\* Events that wait in the editor come before those on the wire.
LEMMA PendingFirst ==
    ASSUME NEW p \in Seq(NodeEvent), NEW q \in Seq(EditorEvent)
    PROVE  /\ p \in Seq(EditorEvent) /\ p \o q \in Seq(EditorEvent) /\ p \o <<>> = p
           /\ p = <<>> => p \o q = q
           /\ \A e \in EditorEvent : p \o Append(q, e) = Append(p \o q, e)
           /\ q # <<>> => /\ Append(p, Head(q)) \o Tail(q) = p \o q
                          /\ Tail(q) = <<>> => p \o q = Append(p, Head(q))
<1>1. NodeEvent \subseteq EditorEvent
  BY DEF EditorEvent
<1>2. p \in Seq(EditorEvent)
  BY <1>1
<1>3. p \o q \in Seq(EditorEvent) /\ Len(p \o q) = Len(p) + Len(q)
  BY <1>2
<1>4. p \o <<>> = p
  OBVIOUS
<1>5. p = <<>> => p \o q = q
  OBVIOUS
<1>6. ASSUME NEW e \in EditorEvent PROVE p \o Append(q, e) = Append(p \o q, e)
  BY <1>2
<1>7. ASSUME q # <<>>
      PROVE  /\ Append(p, Head(q)) \o Tail(q) = p \o q
             /\ Tail(q) = <<>> => p \o q = Append(p, Head(q))
  <2>1. Head(q) \in EditorEvent /\ Tail(q) \in Seq(EditorEvent) /\ Append(p, Head(q)) \in Seq(EditorEvent)
    BY <1>2, <1>7
  <2>2. /\ Len(Append(p, Head(q)) \o Tail(q)) = Len(p) + Len(q)
        /\ \A i \in 1 .. Len(p) + Len(q) : (Append(p, Head(q)) \o Tail(q))[i] = (p \o q)[i]
    BY <1>2, <1>7
  <2>3. Append(p, Head(q)) \o Tail(q) = p \o q
    BY <1>3, <2>1, <2>2
  <2>4. Append(p, Head(q)) \o <<>> = Append(p, Head(q))
    BY <2>1
  <2> QED
    BY <2>3, <2>4
<1> QED
  BY <1>2, <1>3, <1>4, <1>5, <1>6, <1>7

\* An event about something else leads nowhere.
LEMMA LeadsDrop ==
    ASSUME NEW was, NEW is, NEW q \in Seq(EditorEvent), NEW e \in EditorEvent, NEW r, NEW n,
           LeadsOne(was, is, Append(q, e), r, n), ~About(e, r, n)
    PROVE  LeadsOne(was, is, q, r, n)
<1> DEFINE t == Append(q, e)
<1>1. /\ t[Len(q) + 1] = e
      /\ \A i \in DOMAIN t : i \in DOMAIN q \/ i = Len(q) + 1
      /\ \A i \in DOMAIN q : i \in DOMAIN t /\ t[i] = q[i]
  BY AppendEvent
<1>2. CASE was = is /\ \A i \in DOMAIN t : ~About(t[i], r, n)
  <2> HIDE DEF t
  <2> QED
    BY <1>1, <1>2 DEF LeadsOne
<1>3. CASE \E i \in DOMAIN t : /\ About(t[i], r, n) /\ t[i].now = is
                               /\ \A j \in DOMAIN t : j > i => ~About(t[j], r, n)
  <2> HIDE DEF t
  <2>1. PICK i \in DOMAIN t : /\ About(t[i], r, n) /\ t[i].now = is
                              /\ \A j \in DOMAIN t : j > i => ~About(t[j], r, n)
    BY <1>3
  <2>2. i \in DOMAIN q /\ t[i] = q[i]
    BY <1>1, <2>1
  <2>3. \A j \in DOMAIN q : j > i => ~About(q[j], r, n)
    BY <1>1, <2>1
  <2> QED
    BY <2>1, <2>2, <2>3 DEF LeadsOne
<1> QED
  BY <1>2, <1>3 DEF LeadsOne, t

\* A run begins, of this page or elsewhere.
LEMMA BeginKept ==
    ASSUME NEW ed, NEW runs, NEW q, NEW exc, EventsOK(ed, runs, q, exc),
           NEW run \in RunRecord, run.going, run.nodes = AllIdle
    PROVE  EventsOK(ed, Append(runs, run), Append(q, StartOf(Len(runs) + 1)), exc)
<1>1. /\ ed \in EditorRecord /\ runs \in Seq(RunRecord) /\ q \in Seq(EditorEvent) /\ Wires(runs, q)
      /\ ed.nodeMap # {} => ed.pending = <<>>
  BY EventsParts
<1>2. PICK runs2, e : runs2 = Append(runs, run) /\ e = StartOf(Len(runs) + 1)
  OBVIOUS
<1>3. e \in EditorEvent /\ IsStart(e)
  <2>1. Len(runs) + 1 \in Nat
    BY <1>1
  <2> QED
    BY <1>2, <2>1 DEF EditorEvent, StartOf, IsStart
<1>4. PICK q2 : q2 = Append(q, e)
  OBVIOUS
<1>5. runs2 \in Seq(RunRecord) /\ q2 \in Seq(EditorEvent) /\ Wires(runs2, q2)
  <2>1. Wires(Append(runs, run), Append(q, StartOf(Len(runs) + 1)))
    BY <1>1, WiresBegin
  <2> QED
    BY <1>1, <1>2, <1>3, <1>4, <2>1
<1>6. ~Begun(runs2, q2)
  <2>1. Len(q) + 1 \in DOMAIN q2 /\ q2[Len(q) + 1] = e
    BY <1>1, <1>3, <1>4, AppendEvent
  <2> QED
    BY <1>3, <2>1 DEF Begun
<1>7. Ending(ed, runs2, q2)
  <2>1. Len(runs) + 1 \in DOMAIN runs2 /\ runs2[Len(runs) + 1] = run
    BY <1>1, <1>2
  <2> QED
    BY <2>1 DEF Ending
<1>8. EventsOK(ed, runs2, q2, exc)
  BY <1>1, <1>5, <1>6, <1>7 DEF EventsOK
<1> QED
  BY <1>2, <1>4, <1>8

\* The parts of Heard, with a name for the last run.
HeardFacts(ed, runs, q, last) ==
    /\ last \in DOMAIN runs /\ DOMAIN runs = 1 .. last /\ last \in Nat
    /\ \A i \in DOMAIN q : q[i].run = last /\ q[i] \in EditorEvent /\ ~IsStart(q[i])
    /\ \A i \in DOMAIN ed.pending : ed.pending[i].run = last
    /\ \A r \in DOMAIN runs : r # last => ~runs[r].going
    /\ ed.running <=> (runs[last].going \/ q # <<>>)
    /\ ~runs[last].going /\ q # <<>> => q[Len(q)] = EndOf(last)
    /\ ed.pending \in Seq(NodeEvent) /\ ed.pending \o q \in Seq(EditorEvent)
    /\ runs[last].going \/ q # <<>> => Leads(ed.status, runs[last].nodes, ed.pending \o q, last)
    /\ Leads(ed.status, runs[last].nodes, ed.pending \o q, last) \/ Rested(ed, runs, q)

\* What an editor that heard a run from its beginning knows of it.
LEMMA HeardParts ==
    ASSUME NEW ed \in EditorRecord, NEW runs \in Seq(RunRecord), NEW q \in Seq(EditorEvent), NEW last,
           last = Len(runs), Begun(runs, q), Heard(ed, runs, q)
    PROVE  HeardFacts(ed, runs, q, last)
<1>1. ed.pending \in Seq(NodeEvent)
  BY DEF EditorRecord
<1>2. ed.pending \o q \in Seq(EditorEvent)
  BY <1>1, PendingFirst
<1>3. last \in DOMAIN runs /\ DOMAIN runs = 1 .. last /\ last \in Nat
  BY DEF Begun
<1> QED
  BY <1>1, <1>2, <1>3 DEF HeardFacts, Heard, AllOfLast, Runs, EndComes, Rested, Begun

\* A node of a run goes on.
LEMMA NodeKept ==
    ASSUME NEW ed, NEW runs, NEW q, NEW exc, EventsOK(ed, runs, q, exc),
           NEW runs2 \in Seq(RunRecord), NEW r \in DOMAIN runs, NEW n \in CanvasNode, NEW now \in Colour,
           Goes(runs, runs2, r, n, now), runs[r].going
    PROVE  EventsOK(ed, runs2, Append(q, NodeOf(r, n, now)), exc)
<1>1. /\ ed \in EditorRecord /\ runs \in Seq(RunRecord) /\ q \in Seq(EditorEvent) /\ Wires(runs, q)
      /\ ed.nodeMap # {} => ed.pending = <<>>
      /\ "colours" \notin exc /\ Begun(runs, q) => Heard(ed, runs, q)
  BY EventsParts
<1>2. PICK e : e = NodeOf(r, n, now)
  OBVIOUS
<1>3. e \in EditorEvent /\ ~IsStart(e) /\ e.run = r
  <2>1. r \in Nat
    BY <1>1
  <2> QED
    BY <1>2, <2>1 DEF EditorEvent, NodeEvent, NodeOf, IsStart
<1>4. PICK q2 : q2 = Append(q, e)
  OBVIOUS
<1>5. q2 \in Seq(EditorEvent) /\ Wires(runs2, q2)
  <2>1. Wires(runs2, Append(q, NodeOf(r, n, now)))
    BY <1>1, WiresNode
  <2> QED
    BY <1>1, <1>2, <1>3, <1>4, <2>1
<1>6. DOMAIN runs2 = DOMAIN runs /\ Len(runs2) = Len(runs) /\ \A s \in DOMAIN runs : runs2[s].going = runs[s].going
  BY <1>1 DEF Goes
<1>7. /\ q2[Len(q) + 1] = e /\ Len(q2) = Len(q) + 1 /\ q2 # <<>>
      /\ \A i \in DOMAIN q2 : (i \in DOMAIN q /\ q2[i] = q[i]) \/ i = Len(q) + 1
      /\ \A i \in DOMAIN q : i \in DOMAIN q2 /\ q2[i] = q[i]
  <2>1. q2 # <<>>
    BY <1>1, <1>3, <1>4
  <2> QED
    BY <1>1, <1>3, <1>4, <2>1, AppendEvent
<1>8. Ending(ed, runs2, q2)
  BY <1>6 DEF Ending
<1>9. ASSUME "colours" \notin exc, Begun(runs2, q2) PROVE Heard(ed, runs2, q2)
  <2>1. Begun(runs, q)
    BY <1>6, <1>7, <1>9 DEF Begun
  <2>2. PICK last : last = Len(runs)
    OBVIOUS
  <2>3. Heard(ed, runs, q)
    BY <1>1, <1>9, <2>1
  <2>4. /\ last \in DOMAIN runs
        /\ \A i \in DOMAIN q : q[i].run = last
        /\ \A i \in DOMAIN ed.pending : ed.pending[i].run = last
        /\ \A s \in DOMAIN runs : s # last => ~runs[s].going
        /\ ed.running <=> (runs[last].going \/ q # <<>>)
        /\ ed.pending \in Seq(NodeEvent) /\ ed.pending \o q \in Seq(EditorEvent)
        /\ runs[last].going \/ q # <<>> => Leads(ed.status, runs[last].nodes, ed.pending \o q, last)
    <3>1. ed \in EditorRecord /\ runs \in Seq(RunRecord) /\ q \in Seq(EditorEvent)
      BY <1>1
    <3>2. HeardFacts(ed, runs, q, last)
      BY <2>1, <2>2, <2>3, <3>1, HeardParts
    <3> QED
      BY <3>2 DEF HeardFacts
  <2>5. r = last
    BY <2>4
  <2>6. AllOfLast(runs2, q2) /\ AllOfLast(runs2, ed.pending)
    BY <1>3, <1>6, <1>7, <2>2, <2>4, <2>5 DEF AllOfLast
  <2>7. \A s \in DOMAIN runs2 : s # Len(runs2) => ~runs2[s].going
    BY <1>6, <2>2, <2>4
  <2>8. Runs(ed, runs2, q2) /\ EndComes(runs2, q2)
    BY <1>6, <1>7, <2>2, <2>4, <2>5 DEF Runs, EndComes
  <2>9. Leads(ed.status, runs2[last].nodes, ed.pending \o q2, last)
    <3>1. Leads(ed.status, runs[last].nodes, ed.pending \o q, last)
      BY <2>4, <2>5
    <3>2. PICK all, status : all = ed.pending \o q /\ status = ed.status
      OBVIOUS
    <3>3. Leads(status, runs2[last].nodes, Append(all, NodeOf(r, n, now)), last)
      BY <1>1, <2>4, <3>1, <3>2, LeadsGoesOn
    <3>4. ed.pending \o q2 = Append(ed.pending \o q, e)
      <4>1. PICK p \in Seq(NodeEvent) : p = ed.pending
        BY <2>4
      <4>2. p \o Append(q, e) = Append(p \o q, e)
        BY <1>1, <1>3, PendingFirst
      <4> QED
        BY <1>4, <4>1, <4>2
    <3> QED
      BY <1>2, <3>2, <3>3, <3>4
  <2> QED
    BY <1>6, <2>2, <2>6, <2>7, <2>8, <2>9 DEF Heard
<1>10. EventsOK(ed, runs2, q2, exc)
  BY <1>1, <1>5, <1>8, <1>9 DEF EventsOK
<1> QED
  BY <1>2, <1>4, <1>10

\* A run ends.
LEMMA EndKept ==
    ASSUME NEW ed, NEW runs, NEW q, NEW exc, EventsOK(ed, runs, q, exc),
           NEW runs2 \in Seq(RunRecord), NEW r \in DOMAIN runs,
           Ends(runs, runs2, r), runs[r].going
    PROVE  EventsOK(ed, runs2, Append(q, EndOf(r)), exc)
<1>1. /\ ed \in EditorRecord /\ runs \in Seq(RunRecord) /\ q \in Seq(EditorEvent) /\ Wires(runs, q)
      /\ ed.nodeMap # {} => ed.pending = <<>>
      /\ "colours" \notin exc /\ Begun(runs, q) => Heard(ed, runs, q)
  BY EventsParts
<1>2. PICK e : e = EndOf(r)
  OBVIOUS
<1>3. e \in EditorEvent /\ ~IsStart(e) /\ IsEnd(e) /\ e.run = r
  <2>1. r \in Nat
    BY <1>1
  <2> QED
    BY <1>2, <2>1 DEF EditorEvent, EndOf, IsStart, IsEnd
<1>4. PICK q2 : q2 = Append(q, e)
  OBVIOUS
<1>5. q2 \in Seq(EditorEvent) /\ Wires(runs2, q2)
  <2>1. Wires(runs2, Append(q, EndOf(r)))
    BY <1>1, WiresEnd
  <2> QED
    BY <1>1, <1>2, <1>3, <1>4, <2>1
<1>6. /\ DOMAIN runs2 = DOMAIN runs /\ Len(runs2) = Len(runs)
      /\ \A s \in DOMAIN runs : runs2[s].going = (runs[s].going /\ s # r)
  BY <1>1 DEF Ends
<1>7. /\ q2[Len(q) + 1] = e /\ Len(q2) = Len(q) + 1 /\ q2 # <<>> /\ Len(q) + 1 \in DOMAIN q2
      /\ \A i \in DOMAIN q2 : (i \in DOMAIN q /\ q2[i] = q[i]) \/ i = Len(q) + 1
      /\ \A i \in DOMAIN q : i \in DOMAIN q2 /\ q2[i] = q[i]
  <2>1. q2 # <<>>
    BY <1>1, <1>3, <1>4
  <2> QED
    BY <1>1, <1>3, <1>4, <2>1, AppendEvent
<1>8. Ending(ed, runs2, q2)
  BY <1>3, <1>7 DEF Ending
<1>9. ASSUME "colours" \notin exc, Begun(runs2, q2) PROVE Heard(ed, runs2, q2)
  <2>1. Begun(runs, q)
    BY <1>6, <1>7, <1>9 DEF Begun
  <2>2. PICK last : last = Len(runs)
    OBVIOUS
  <2>3. Heard(ed, runs, q)
    BY <1>1, <1>9, <2>1
  <2>4. /\ last \in DOMAIN runs
        /\ \A i \in DOMAIN q : q[i].run = last
        /\ \A i \in DOMAIN ed.pending : ed.pending[i].run = last
        /\ \A s \in DOMAIN runs : s # last => ~runs[s].going
        /\ ed.running <=> (runs[last].going \/ q # <<>>)
        /\ ed.pending \in Seq(NodeEvent) /\ ed.pending \o q \in Seq(EditorEvent)
        /\ runs[last].going \/ q # <<>> => Leads(ed.status, runs[last].nodes, ed.pending \o q, last)
    <3>1. ed \in EditorRecord /\ runs \in Seq(RunRecord) /\ q \in Seq(EditorEvent)
      BY <1>1
    <3>2. HeardFacts(ed, runs, q, last)
      BY <2>1, <2>2, <2>3, <3>1, HeardParts
    <3> QED
      BY <3>2 DEF HeardFacts
  <2>5. r = last
    BY <2>4
  <2>6. AllOfLast(runs2, q2) /\ AllOfLast(runs2, ed.pending)
    BY <1>3, <1>6, <1>7, <2>2, <2>4, <2>5 DEF AllOfLast
  <2>7. \A s \in DOMAIN runs2 : s # Len(runs2) => ~runs2[s].going
    BY <1>6, <2>2, <2>4
  <2>8. Runs(ed, runs2, q2) /\ EndComes(runs2, q2)
    BY <1>2, <1>6, <1>7, <2>2, <2>4, <2>5 DEF Runs, EndComes
  <2>9. Leads(ed.status, runs2[last].nodes, ed.pending \o q2, last)
    <3>1. Leads(ed.status, runs[last].nodes, ed.pending \o q, last)
      BY <2>4, <2>5
    <3>2. PICK all, status : all = ed.pending \o q /\ status = ed.status
      OBVIOUS
    <3>3. Leads(status, runs2[last].nodes, Append(all, EndOf(r)), last)
      BY <1>1, <2>4, <3>1, <3>2, LeadsEnd
    <3>4. ed.pending \o q2 = Append(ed.pending \o q, e)
      <4>1. PICK p \in Seq(NodeEvent) : p = ed.pending
        BY <2>4
      <4>2. p \o Append(q, e) = Append(p \o q, e)
        BY <1>1, <1>3, PendingFirst
      <4> QED
        BY <1>4, <4>1, <4>2
    <3> QED
      BY <1>2, <3>2, <3>3, <3>4
  <2> QED
    BY <1>6, <2>2, <2>6, <2>7, <2>8, <2>9 DEF Heard
<1>10. EventsOK(ed, runs2, q2, exc)
  BY <1>1, <1>5, <1>8, <1>9 DEF EventsOK
<1> QED
  BY <1>2, <1>4, <1>10

\* The socket closes.
LEMMA CloseKept ==
    ASSUME NEW ed, NEW runs, NEW q, NEW exc, EventsOK(ed, runs, q, exc),
           NEW exc2, {"colours", "running"} \subseteq exc2
    PROVE  EventsOK(ed, runs, <<>>, exc2)
<1>1. <<>> \in Seq(EditorEvent)
  OBVIOUS
<1> QED
  BY <1>1, WiresEmpty DEF EventsOK

\* What the editor does with each kind of event.
LEMMA AddLogIs ==
    ASSUME NEW ed \in EditorRecord, NEW e \in EditorEvent
    PROVE  /\ IsStart(e) => AddLog(ed, e) = [ed EXCEPT !.running = TRUE, !.pending = <<>>, !.status = AllIdle]
           /\ IsEnd(e) => AddLog(ed, e) = [ed EXCEPT !.running = FALSE, !.resetTimer = TRUE]
           /\ e.type = "node" /\ ed.nodeMap = {} => AddLog(ed, e) = [ed EXCEPT !.pending = Append(@, e)]
           /\ e.type = "node" /\ ed.nodeMap # {} =>
                AddLog(ed, e) = [ed EXCEPT !.status = ApplyNodeEvent(@, e, ed.nodeMap)]
<1>1. CASE e.type = "flow_started"
  <2>1. AddLog(ed, e) = ResetAllNodeStatus([ed EXCEPT !.running = TRUE, !.pending = <<>>])
    BY <1>1 DEF AddLog
  <2>2. AddLog(ed, e) = [ed EXCEPT !.running = TRUE, !.pending = <<>>, !.status = AllIdle]
    BY <2>1 DEF ResetAllNodeStatus, EditorRecord
  <2> QED
    BY <1>1, <2>2 DEF IsEnd
<1>2. CASE e.type = "flow_ended"
  <2>1. AddLog(ed, e) = [ed EXCEPT !.running = FALSE, !.resetTimer = TRUE]
    BY <1>2 DEF AddLog
  <2> QED
    BY <1>2, <2>1 DEF IsStart
<1>3. CASE e.type = "node" /\ ed.nodeMap = {}
  <2>1. AddLog(ed, e) = [ed EXCEPT !.pending = Append(@, e)]
    BY <1>3 DEF AddLog
  <2> QED
    BY <1>3, <2>1 DEF IsStart, IsEnd
<1>4. CASE e.type = "node" /\ ed.nodeMap # {}
  <2>1. AddLog(ed, e) = [ed EXCEPT !.status = ApplyNodeEvent(@, e, ed.nodeMap)]
    BY <1>4 DEF AddLog
  <2> QED
    BY <1>4, <2>1 DEF IsStart, IsEnd
<1>5. e.type \in {"flow_started", "flow_ended", "node"}
  BY EventKinds
<1> QED
  BY <1>1, <1>2, <1>3, <1>4, <1>5

\* A run is alone.
AloneIn(runs, q, r) ==
    (\A s \in DOMAIN runs : s # r => ~runs[s].going) /\ \A i \in DOMAIN q : q[i].run = r

\* The page hears that a run began.
LEMMA StartHeard ==
    ASSUME NEW ed, NEW runs, NEW q, NEW exc, EventsOK(ed, runs, q, exc), q # <<>>, IsStart(Head(q)),
           NEW exc2, "colours" \in exc2 \/ AloneIn(runs, q, Head(q).run)
    PROVE  EventsOK(AddLog(ed, Head(q)), runs, Tail(q), exc2)
<1>1. /\ ed \in EditorRecord /\ runs \in Seq(RunRecord) /\ q \in Seq(EditorEvent) /\ Wires(runs, q)
  BY EventsParts
<1>2. PICK e, t, ed2 : e = Head(q) /\ t = Tail(q) /\ ed2 = AddLog(ed, e)
  OBVIOUS
<1>3. e \in EditorEvent /\ t \in Seq(EditorEvent) /\ Wires(runs, t)
  BY <1>1, <1>2, WiresTail
<1>4. /\ ed2 \in EditorRecord /\ ed2.running = TRUE /\ ed2.pending = <<>> /\ ed2.status = AllIdle
      /\ ed2.nodeMap = ed.nodeMap
  <2>1. ed2 = [ed EXCEPT !.running = TRUE, !.pending = <<>>, !.status = AllIdle]
    BY <1>1, <1>2, <1>3, AddLogIs
  <2>2. AllIdle \in Colouring /\ <<>> \in Seq(NodeEvent)
    BY DEF AllIdle, Colouring, Colour
  <2> QED
    BY <1>1, <2>1, <2>2 DEF EditorRecord
<1>5. /\ Len(q) \in Nat \ {0} /\ 1 \in DOMAIN q /\ q[1] = e /\ Len(t) = Len(q) - 1
      /\ \A i \in DOMAIN t : i \in Nat /\ i + 1 \in DOMAIN q /\ t[i] = q[i + 1]
      /\ \A i \in DOMAIN q : i = 1 \/ (i - 1 \in DOMAIN t /\ t[i - 1] = q[i] /\ i > 1 /\ i \in Nat)
  BY <1>1, <1>2, TailEvents
<1>6. e.run \in DOMAIN runs /\ e = StartOf(e.run) /\ e.run \in Nat
  <2>1. e.run \in DOMAIN runs
    BY <1>1, <1>5 DEF Wires, KnownRuns
  <2> QED
    BY <1>2, <1>3, <2>1, EventKinds
<1>7. runs[e.run].going \/ \E j \in DOMAIN q : j > 1 /\ q[j] = EndOf(e.run)
  BY <1>1, <1>2, <1>5 DEF Wires, StartsFollowed
<1>8. runs[e.run].going \/ \E j \in DOMAIN t : t[j] = EndOf(e.run)
  <2>1. CASE runs[e.run].going
    BY <2>1
  <2>2. CASE \E j \in DOMAIN q : j > 1 /\ q[j] = EndOf(e.run)
    <3>1. PICK j \in DOMAIN q : j > 1 /\ q[j] = EndOf(e.run)
      BY <2>2
    <3>2. j # 1
      BY <3>1
    <3>3. j - 1 \in DOMAIN t /\ t[j - 1] = EndOf(e.run)
      BY <1>5, <3>1, <3>2
    <3> QED
      BY <3>3
  <2> QED
    BY <1>7, <2>1, <2>2
<1>9. Ending(ed2, runs, t)
  <2>1. \A r : IsEnd(EndOf(r))
    BY DEF IsEnd, EndOf
  <2> QED
    BY <1>6, <1>8, <2>1 DEF Ending
<1>10. ASSUME "colours" \notin exc2, Begun(runs, t) PROVE Heard(ed2, runs, t)
  <2>1. AloneIn(runs, q, e.run)
    BY <1>2, <1>10
  <2>2. PICK last : last = Len(runs)
    OBVIOUS
  <2>3. e.run = last
    <3>1. PICK j \in DOMAIN q : q[j] = StartOf(Len(runs))
      BY <1>1, <1>2, <1>5 DEF Wires, LatestStart
    <3>2. q[j].run = e.run
      BY <2>1 DEF AloneIn
    <3> QED
      BY <2>2, <3>1, <3>2 DEF StartOf
  <2>4. AllOfLast(runs, t) /\ AllOfLast(runs, ed2.pending)
    <3>1. DOMAIN ed2.pending = {}
      BY <1>4
    <3> QED
      BY <1>5, <2>1, <2>2, <2>3, <3>1 DEF AllOfLast, AloneIn
  <2>5. \A s \in DOMAIN runs : s # Len(runs) => ~runs[s].going
    BY <2>1, <2>2, <2>3 DEF AloneIn
  <2>6. runs[last].going \/ \E j \in DOMAIN t : t[j] = EndOf(last)
    BY <1>8, <2>3
  <2>7. Runs(ed2, runs, t)
    <3>1. runs[last].going \/ t # <<>>
      BY <1>3, <2>6
    <3> QED
      BY <1>4, <2>2, <3>1 DEF Runs
  <2>8. EndComes(runs, t)
    <3> SUFFICES ASSUME ~runs[last].going PROVE t[Len(t)] = EndOf(last)
      BY <2>2 DEF EndComes
    <3>1. PICK j \in DOMAIN t : t[j] = EndOf(last)
      BY <2>6
    <3>2. \A i \in DOMAIN t : i > j => t[i].run # last
      <4>1. IsEnd(t[j]) /\ t[j].run = last
        BY <3>1 DEF IsEnd, EndOf
      <4> QED
        BY <1>3, <4>1 DEF Wires, EndsLast
    <3>3. \A i \in DOMAIN t : ~(i > j)
      BY <2>2, <2>4, <3>2 DEF AllOfLast
    <3>4. Len(t) \in DOMAIN t /\ DOMAIN t = 1 .. Len(t) /\ Len(t) \in Nat
      BY <1>3, <3>1
    <3>5. j = Len(t)
      BY <3>3, <3>4
    <3> QED
      BY <3>1, <3>5
  <2>9. Leads(ed2.status, runs[last].nodes, ed2.pending \o t, last)
    <3>1. Leads(AllIdle, runs[last].nodes, q, last)
      <4>1. q[1] = StartOf(Len(runs))
        BY <1>5, <1>6, <2>2, <2>3
      <4>2. Untold(runs, q)
        BY <1>1 DEF Wires
      <4>3. Leads(AllIdle, runs[Len(runs)].nodes, q, Len(runs))
        BY <1>5, <4>1, <4>2 DEF Untold
      <4> QED
        BY <2>2, <4>3
    <3>2. Leads(AllIdle, runs[last].nodes, t, last)
      <4> SUFFICES ASSUME NEW n \in CanvasNode PROVE LeadsOne(AllIdle[n], runs[last].nodes[n], t, last, n)
        BY DEF Leads
      <4>1. PICK was, is : was = AllIdle[n] /\ is = runs[last].nodes[n]
        OBVIOUS
      <4>2. LeadsOne(was, is, q, last, n) /\ ~About(Head(q), last, n)
        <5>1. ~About(Head(q), last, n)
          BY <1>2, <1>3, EventKinds
        <5> QED
          BY <3>1, <4>1, <5>1 DEF Leads
      <4>3. LeadsOne(was, is, Tail(q), last, n)
        BY <1>1, <4>2, LeadsTail
      <4> QED
        BY <1>2, <4>1, <4>3
    <3>3. ed2.pending \o t = t
      BY <1>3, <1>4
    <3> QED
      BY <1>4, <3>2, <3>3
  <2> QED
    BY <2>2, <2>4, <2>5, <2>7, <2>8, <2>9 DEF Heard
<1>11. EventsOK(ed2, runs, t, exc2)
  BY <1>1, <1>3, <1>4, <1>9, <1>10 DEF EventsOK
<1> QED
  BY <1>2, <1>11

\* The page hears that a run ended.
LEMMA EndHeard ==
    ASSUME NEW ed, NEW runs, NEW q, NEW exc, EventsOK(ed, runs, q, exc), q # <<>>, IsEnd(Head(q))
    PROVE  EventsOK(AddLog(ed, Head(q)), runs, Tail(q), exc)
<1>1. /\ ed \in EditorRecord /\ runs \in Seq(RunRecord) /\ q \in Seq(EditorEvent) /\ Wires(runs, q)
      /\ ed.nodeMap # {} => ed.pending = <<>>
      /\ "colours" \notin exc /\ Begun(runs, q) => Heard(ed, runs, q)
  BY EventsParts
<1>2. PICK e, t, ed2 : e = Head(q) /\ t = Tail(q) /\ ed2 = AddLog(ed, e)
  OBVIOUS
<1>3. e \in EditorEvent /\ t \in Seq(EditorEvent) /\ Wires(runs, t)
  BY <1>1, <1>2, WiresTail
<1>4. /\ ed2 \in EditorRecord /\ ed2.running = FALSE /\ ed2.pending = ed.pending /\ ed2.status = ed.status
      /\ ed2.nodeMap = ed.nodeMap
  <2>1. ed2 = [ed EXCEPT !.running = FALSE, !.resetTimer = TRUE]
    BY <1>1, <1>2, <1>3, AddLogIs
  <2> QED
    BY <1>1, <2>1 DEF EditorRecord
<1>5. /\ Len(q) \in Nat \ {0} /\ 1 \in DOMAIN q /\ q[1] = e /\ Len(t) = Len(q) - 1
      /\ \A i \in DOMAIN t : i \in Nat /\ i + 1 \in DOMAIN q /\ i + 1 > 1 /\ t[i] = q[i + 1]
      /\ \A i \in DOMAIN q : i = 1 \/ (i - 1 \in DOMAIN t /\ t[i - 1] = q[i] /\ i > 1 /\ i \in Nat)
  BY <1>1, <1>2, TailEvents
<1>6. Ending(ed2, runs, t)
  BY <1>4 DEF Ending
<1>7. ASSUME "colours" \notin exc, Begun(runs, t) PROVE Heard(ed2, runs, t)
  <2>1. ~IsStart(e)
    BY <1>2, <1>3, EventKinds
  <2>2. Begun(runs, q)
    <3> SUFFICES ASSUME NEW i \in DOMAIN q PROVE ~IsStart(q[i])
      BY <1>7 DEF Begun
    <3>1. CASE i = 1
      BY <1>5, <2>1, <3>1
    <3>2. CASE i # 1
      BY <1>5, <1>7, <3>2 DEF Begun
    <3> QED
      BY <3>1, <3>2
  <2>3. PICK last : last = Len(runs)
    OBVIOUS
  <2>4. Heard(ed, runs, q)
    BY <1>1, <1>7, <2>2
  <2>5. /\ last \in DOMAIN runs
        /\ \A i \in DOMAIN q : q[i].run = last
        /\ \A i \in DOMAIN ed.pending : ed.pending[i].run = last
        /\ \A s \in DOMAIN runs : s # last => ~runs[s].going
        /\ ed.pending \in Seq(NodeEvent) /\ ed.pending \o q \in Seq(EditorEvent)
        /\ runs[last].going \/ q # <<>> => Leads(ed.status, runs[last].nodes, ed.pending \o q, last)
    <3>1. ed \in EditorRecord /\ runs \in Seq(RunRecord) /\ q \in Seq(EditorEvent)
      BY <1>1
    <3>2. HeardFacts(ed, runs, q, last)
      BY <2>2, <2>3, <2>4, <3>1, HeardParts
    <3> QED
      BY <3>2 DEF HeardFacts
  <2>6. e.run = last
    BY <1>5, <2>5
  <2>7. ~runs[last].going /\ \A j \in DOMAIN q : j > 1 => q[j].run # last
    BY <1>1, <1>2, <1>5, <2>6 DEF Wires, EndsLast
  <2>8. t = <<>>
    <3>1. DOMAIN t = {}
      BY <1>5, <2>5, <2>7
    <3> QED
      BY <1>3, <3>1
  <2>9. AllOfLast(runs, t) /\ AllOfLast(runs, ed2.pending)
    BY <1>4, <1>5, <2>3, <2>5 DEF AllOfLast
  <2>10. Runs(ed2, runs, t) /\ EndComes(runs, t)
    BY <1>4, <2>3, <2>7, <2>8 DEF Runs, EndComes
  <2>11. Leads(ed2.status, runs[last].nodes, ed2.pending \o t, last)
    <3>1. PICK p \in Seq(NodeEvent) : p = ed.pending
      BY <2>5
    <3>2. p \in Seq(EditorEvent) /\ p \o <<>> = p /\ p \o q = Append(p, e)
      <4>1. q # <<>> /\ Tail(q) = <<>>
        BY <1>2, <2>8
      <4>2. p \in Seq(EditorEvent) /\ p \o <<>> = p
        BY <1>1, PendingFirst
      <4>3. Tail(q) = <<>> => p \o q = Append(p, Head(q))
        BY <1>1, <4>1, PendingFirst
      <4> QED
        BY <1>2, <4>1, <4>2, <4>3
    <3> SUFFICES ASSUME NEW n \in CanvasNode
                 PROVE  LeadsOne(ed2.status[n], runs[last].nodes[n], ed2.pending \o t, last, n)
      BY DEF Leads
    <3>3. PICK was, is : was = ed.status[n] /\ is = runs[last].nodes[n]
      OBVIOUS
    <3>4. LeadsOne(was, is, Append(p, e), last, n) /\ ~About(e, last, n)
      <4>1. ~About(e, last, n)
        BY <1>2, <1>3, EventKinds
      <4>2. Leads(ed.status, runs[last].nodes, ed.pending \o q, last)
        BY <1>5, <2>5
      <4> QED
        BY <3>1, <3>2, <3>3, <4>1, <4>2 DEF Leads
    <3>5. LeadsOne(was, is, p, last, n)
      BY <1>3, <3>2, <3>4, LeadsDrop
    <3> QED
      <4>1. ed2.pending \o t = p
        BY <1>4, <2>8, <3>1, <3>2
      <4>2. ed2.status[n] = was
        BY <1>4, <3>3
      <4> QED
        BY <3>3, <3>5, <4>1, <4>2
  <2> QED
    BY <2>3, <2>5, <2>9, <2>10, <2>11 DEF Heard
<1>8. EventsOK(ed2, runs, t, exc)
  BY <1>1, <1>3, <1>4, <1>6, <1>7 DEF EventsOK
<1> QED
  BY <1>2, <1>8

\* The page hears of a node.
LEMMA NodeHeard ==
    ASSUME NEW ed, NEW runs, NEW q, NEW exc, EventsOK(ed, runs, q, exc), q # <<>>, Head(q).type = "node"
    PROVE  EventsOK(AddLog(ed, Head(q)), runs, Tail(q), exc)
<1>1. /\ ed \in EditorRecord /\ runs \in Seq(RunRecord) /\ q \in Seq(EditorEvent) /\ Wires(runs, q)
      /\ ed.nodeMap # {} => ed.pending = <<>>
      /\ "colours" \notin exc /\ Begun(runs, q) => Heard(ed, runs, q)
      /\ "running" \notin exc => Ending(ed, runs, q)
  BY EventsParts
<1>2. PICK e, t, ed2 : e = Head(q) /\ t = Tail(q) /\ ed2 = AddLog(ed, e)
  OBVIOUS
<1>3. e \in EditorEvent /\ t \in Seq(EditorEvent) /\ Wires(runs, t)
  BY <1>1, <1>2, WiresTail
<1>4. e \in NodeEvent /\ ~IsStart(e) /\ ~IsEnd(e)
  BY <1>2, <1>3, EventKinds
<1>5. /\ Len(q) \in Nat \ {0} /\ 1 \in DOMAIN q /\ q[1] = e /\ Len(t) = Len(q) - 1
      /\ \A i \in DOMAIN t : i \in Nat /\ i + 1 \in DOMAIN q /\ i + 1 > 1 /\ t[i] = q[i + 1]
      /\ \A i \in DOMAIN q : i = 1 \/ (i - 1 \in DOMAIN t /\ t[i - 1] = q[i] /\ i > 1 /\ i \in Nat)
  BY <1>1, <1>2, TailEvents
<1>6. ed2.running = ed.running /\ ed2.nodeMap = ed.nodeMap /\ ed2.resetTimer = ed.resetTimer
      /\ (ed.nodeMap = {} => ed2.pending = Append(ed.pending, e) /\ ed2.status = ed.status)
      /\ (ed.nodeMap # {} => ed2.pending = ed.pending
                             /\ ed2.status = [ed.status EXCEPT ![e.node] = e.now])
      /\ ed2 \in EditorRecord
  <2>1. CASE ed.nodeMap = {}
    <3>1. ed2 = [ed EXCEPT !.pending = Append(@, e)]
      BY <1>1, <1>2, <1>3, <2>1, AddLogIs
    <3>2. ed.pending \in Seq(NodeEvent)
      BY <1>1 DEF EditorRecord
    <3>3. PICK p \in Seq(NodeEvent) : p = Append(ed.pending, e)
      <4>1. Append(ed.pending, e) \in Seq(NodeEvent)
        BY <1>4, <3>2
      <4> QED
        BY <4>1, Zenon
    <3>4. ed2 = [ed EXCEPT !.pending = p]
      BY <1>1, <3>1, <3>3 DEF EditorRecord
    <3> QED
      BY <1>1, <2>1, <3>3, <3>4 DEF EditorRecord
  <2>2. CASE ed.nodeMap # {}
    <3>1. ed2 = [ed EXCEPT !.status = ApplyNodeEvent(@, e, ed.nodeMap)]
      BY <1>1, <1>2, <1>3, <2>2, AddLogIs
    <3>2. e.node \in ed.nodeMap /\ e.node \in CanvasNode /\ e.now \in Colour /\ ed.status \in Colouring
      BY <1>1, <1>4, <2>2 DEF EditorRecord, NodeEvent
    <3>3. ApplyNodeEvent(ed.status, e, ed.nodeMap) = [ed.status EXCEPT ![e.node] = e.now]
      BY <3>2 DEF ApplyNodeEvent
    <3>4. [ed.status EXCEPT ![e.node] = e.now] \in Colouring
      BY <3>2 DEF Colouring
    <3>5. ed2 = [ed EXCEPT !.status = [ed.status EXCEPT ![e.node] = e.now]]
      BY <1>1, <3>1, <3>3 DEF EditorRecord
    <3> QED
      BY <1>1, <2>2, <3>4, <3>5 DEF EditorRecord
  <2> QED
    BY <2>1, <2>2
<1>7. ASSUME Ending(ed, runs, q) PROVE Ending(ed2, runs, t)
  <2> SUFFICES ASSUME NEW i \in DOMAIN q, IsEnd(q[i]) PROVE \E j \in DOMAIN t : IsEnd(t[j])
    BY <1>6, <1>7 DEF Ending
  <2>1. i # 1
    BY <1>4, <1>5
  <2> QED
    BY <1>5, <2>1
<1>8. ed2.nodeMap # {} => ed2.pending = <<>>
  BY <1>1, <1>6
<1>9. ASSUME "colours" \notin exc, Begun(runs, t) PROVE Heard(ed2, runs, t)
  <2>2. Begun(runs, q)
    <3> SUFFICES ASSUME NEW i \in DOMAIN q PROVE ~IsStart(q[i])
      BY <1>9 DEF Begun
    <3>1. CASE i = 1
      BY <1>4, <1>5, <3>1
    <3>2. CASE i # 1
      BY <1>5, <1>9, <3>2 DEF Begun
    <3> QED
      BY <3>1, <3>2
  <2>3. PICK last : last = Len(runs)
    OBVIOUS
  <2>4. Heard(ed, runs, q)
    BY <1>1, <1>9, <2>2
  <2>5. /\ last \in DOMAIN runs
        /\ \A i \in DOMAIN q : q[i].run = last
        /\ \A i \in DOMAIN ed.pending : ed.pending[i].run = last
        /\ \A s \in DOMAIN runs : s # last => ~runs[s].going
        /\ ed.running <=> (runs[last].going \/ q # <<>>)
        /\ ~runs[last].going /\ q # <<>> => q[Len(q)] = EndOf(last)
        /\ ed.pending \in Seq(NodeEvent)
        /\ runs[last].going \/ q # <<>> => Leads(ed.status, runs[last].nodes, ed.pending \o q, last)
    <3>1. ed \in EditorRecord /\ runs \in Seq(RunRecord) /\ q \in Seq(EditorEvent)
      BY <1>1
    <3>2. HeardFacts(ed, runs, q, last)
      BY <2>2, <2>3, <2>4, <3>1, HeardParts
    <3> QED
      BY <3>2 DEF HeardFacts
  <2>6. e.run = last
    BY <1>5, <2>5
  <2>7. ~runs[last].going => t # <<>> /\ t[Len(t)] = EndOf(last)
    <3> SUFFICES ASSUME ~runs[last].going PROVE t # <<>> /\ t[Len(t)] = EndOf(last)
      OBVIOUS
    <3>1. q[Len(q)] = EndOf(last) /\ Len(q) \in DOMAIN q
      BY <1>1, <1>5, <2>5
    <3>2. Len(q) # 1
      BY <1>4, <1>5, <3>1 DEF EndOf, IsEnd
    <3>3. Len(q) - 1 \in DOMAIN t /\ t[Len(q) - 1] = q[Len(q)]
      BY <1>5, <3>1, <3>2
    <3> QED
      BY <1>3, <1>5, <3>1, <3>3
  <2>8. AllOfLast(runs, t)
    BY <1>5, <2>3, <2>5 DEF AllOfLast
  <2>9. Runs(ed2, runs, t) /\ EndComes(runs, t)
    BY <1>6, <2>3, <2>5, <2>7 DEF Runs, EndComes
  <2>10. AllOfLast(runs, ed2.pending)
    <3>1. CASE ed.nodeMap # {}
      BY <1>6, <2>3, <2>5, <3>1 DEF AllOfLast
    <3>2. CASE ed.nodeMap = {}
      <4>1. PICK p \in Seq(NodeEvent) : p = ed.pending
        BY <2>5
      <4>2. p \in Seq(EditorEvent)
        BY <1>1, PendingFirst
      <4>3. /\ \A i \in DOMAIN Append(p, e) : i \in DOMAIN p \/ i = Len(p) + 1
            /\ Append(p, e)[Len(p) + 1] = e /\ \A i \in DOMAIN p : Append(p, e)[i] = p[i]
        BY <1>3, <4>2, AppendEvent
      <4>4. ed2.pending = Append(p, e) /\ \A i \in DOMAIN p : p[i].run = last
        BY <1>6, <2>5, <3>2, <4>1
      <4>5. ASSUME NEW i \in DOMAIN Append(p, e) PROVE Append(p, e)[i].run = last
        <5>1. CASE i \in DOMAIN p
          BY <4>3, <4>4, <5>1
        <5>2. CASE i = Len(p) + 1
          BY <2>6, <4>3, <5>2
        <5> QED
          BY <4>3, <5>1, <5>2
      <4> QED
        BY <2>3, <4>4, <4>5 DEF AllOfLast
    <3> QED
      BY <3>1, <3>2
  <2>11. Leads(ed2.status, runs[last].nodes, ed2.pending \o t, last)
    <3>1. PICK p \in Seq(NodeEvent) : p = ed.pending
      BY <2>5
    <3>2. Leads(ed.status, runs[last].nodes, p \o q, last)
      BY <2>5, <3>1
    <3>3. CASE ed.nodeMap = {}
      <4>1. Append(p, Head(q)) \o Tail(q) = p \o q
        BY <1>1, PendingFirst
      <4> QED
        BY <1>2, <1>6, <3>1, <3>2, <3>3, <4>1
    <3>4. CASE ed.nodeMap # {}
      <4>1. p \o q = q /\ ed2.pending \o t = t
        <5>1. p = <<>> /\ ed2.pending = <<>>
          BY <1>1, <1>6, <3>1, <3>4
        <5> QED
          BY <1>1, <1>3, <5>1
      <4> SUFFICES ASSUME NEW n \in CanvasNode PROVE LeadsOne(ed2.status[n], runs[last].nodes[n], t, last, n)
        BY <4>1 DEF Leads
      <4>2. PICK was, is, now : was = ed.status[n] /\ is = runs[last].nodes[n] /\ now = ed2.status[n]
        OBVIOUS
      <4>3. LeadsOne(was, is, q, last, n)
        BY <3>2, <4>1, <4>2 DEF Leads
      <4>4. About(e, last, n) <=> e.node = n
        BY <1>4, <2>6 DEF About, NodeEvent
      <4>5. ed.status \in Colouring /\ e.node \in CanvasNode
        BY <1>1, <1>4 DEF EditorRecord, NodeEvent
      <4>6. now = IF e.node = n THEN e.now ELSE was
        BY <1>6, <3>4, <4>2, <4>5 DEF Colouring
      <4>7. IF About(Head(q), last, n) THEN now = Head(q).now ELSE now = was
        BY <1>2, <4>4, <4>6
      <4>8. LeadsOne(now, is, Tail(q), last, n)
        BY <1>1, <4>3, <4>7, LeadsTail
      <4> QED
        BY <1>2, <4>2, <4>8
    <3> QED
      BY <3>3, <3>4
  <2> QED
    BY <2>3, <2>5, <2>8, <2>9, <2>10, <2>11 DEF Heard
<1>10. EventsOK(ed2, runs, t, exc)
  BY <1>1, <1>3, <1>6, <1>7, <1>8, <1>9 DEF EventsOK
<1> QED
  BY <1>2, <1>10

\* The page of which only what the events do not touch has changed.
SameColours(ed, ed2) ==
    /\ ed2.status = ed.status /\ ed2.nodeMap = ed.nodeMap /\ ed2.pending = ed.pending
    /\ ed2.resetTimer = ed.resetTimer /\ ed2.running = ed.running

\* Only the colours and the running flag matter to what is kept about events.
LEMMA OthersKept ==
    ASSUME NEW ed, NEW runs, NEW q, NEW exc, EventsOK(ed, runs, q, exc),
           NEW ed2 \in EditorRecord, SameColours(ed, ed2)
    PROVE  EventsOK(ed2, runs, q, exc)
<1>1. Heard(ed, runs, q) => Heard(ed2, runs, q)
  BY DEF SameColours, Heard, Runs, Rested
<1>2. Ending(ed, runs, q) => Ending(ed2, runs, q)
  BY DEF SameColours, Ending
<1> QED
  BY <1>1, <1>2 DEF EventsOK, SameColours

\* The timer fires after the end of a run and nothing waits for the map.
LEMMA ResetKept ==
    ASSUME NEW ed, NEW runs, NEW q, NEW exc, EventsOK(ed, runs, q, exc), NEW exc2, exc \subseteq exc2,
           ed.running \/ ed.pending # <<>> => "colours" \in exc2
    PROVE  EventsOK(ResetAllNodeStatus([ed EXCEPT !.resetTimer = FALSE]), runs, q, exc2)
<1>1. /\ ed \in EditorRecord /\ runs \in Seq(RunRecord) /\ q \in Seq(EditorEvent) /\ Wires(runs, q)
      /\ ed.nodeMap # {} => ed.pending = <<>>
      /\ "colours" \notin exc /\ Begun(runs, q) => Heard(ed, runs, q)
      /\ "running" \notin exc => Ending(ed, runs, q)
  BY EventsParts
<1>2. PICK ed2 : ed2 = ResetAllNodeStatus([ed EXCEPT !.resetTimer = FALSE])
  OBVIOUS
<1>3. /\ ed2 \in EditorRecord /\ ed2.status = AllIdle /\ ed2.resetTimer = FALSE
      /\ ed2.pending = ed.pending /\ ed2.nodeMap = ed.nodeMap /\ ed2.running = ed.running
  <2>1. AllIdle \in Colouring
    BY DEF AllIdle, Colouring, Colour
  <2> QED
    BY <1>1, <1>2, <2>1 DEF ResetAllNodeStatus, EditorRecord
<1>4. Ending(ed, runs, q) => Ending(ed2, runs, q)
  BY <1>3 DEF Ending
<1>5. ASSUME "colours" \notin exc2, Begun(runs, q) PROVE Heard(ed2, runs, q)
  <2>1. Heard(ed, runs, q) /\ ~ed.running /\ ed.pending = <<>>
    BY <1>1, <1>5
  <2>2. ~runs[Len(runs)].going /\ q = <<>>
    BY <2>1 DEF Heard, Runs
  <2> QED
    BY <1>3, <2>1, <2>2 DEF Heard, Runs, Rested
<1>6. EventsOK(ed2, runs, q, exc2)
  BY <1>1, <1>3, <1>4, <1>5 DEF EventsOK
<1> QED
  BY <1>2, <1>6

\* The page gets its map, and shows what waited for it.
LEMMA MapKept ==
    ASSUME NEW ed, NEW runs, NEW q, NEW exc, EventsOK(ed, runs, q, exc)
    PROVE  EventsOK(SetNodeMap(ed, CanvasNode), runs, q, exc)
<1>1. /\ ed \in EditorRecord /\ runs \in Seq(RunRecord) /\ q \in Seq(EditorEvent) /\ Wires(runs, q)
      /\ "colours" \notin exc /\ Begun(runs, q) => Heard(ed, runs, q)
      /\ "running" \notin exc => Ending(ed, runs, q)
  BY EventsParts
<1>2. PICK ed2 : ed2 = SetNodeMap(ed, CanvasNode)
  OBVIOUS
<1>3. PICK p \in Seq(NodeEvent), status \in Colouring : p = ed.pending /\ status = ed.status
  BY <1>1 DEF EditorRecord
<1>4. /\ Replayed(status, p, CanvasNode) = Shown(status, p, CanvasNode, 1 .. Len(p))
      /\ Replayed(status, p, CanvasNode) \in Colouring
  BY ReplayShows
<1>5. /\ ed2 \in EditorRecord /\ ed2.status = Replayed(status, p, CanvasNode) /\ ed2.pending = <<>>
      /\ ed2.nodeMap = CanvasNode /\ ed2.running = ed.running /\ ed2.resetTimer = ed.resetTimer
  <2>1. ed2 = [ed EXCEPT !.nodeMap = CanvasNode, !.pending = <<>>, !.status = Replayed(status, p, CanvasNode)]
    BY <1>1, <1>2, <1>3 DEF SetNodeMap, EditorRecord
  <2>2. PICK new \in Colouring : new = Replayed(status, p, CanvasNode)
    BY <1>4
  <2>3. ed2 = [ed EXCEPT !.nodeMap = CanvasNode, !.pending = <<>>, !.status = new]
    BY <2>1, <2>2
  <2> QED
    <3>1. PICK none \in Seq(NodeEvent) : none = <<>>
      <4>1. <<>> \in Seq(NodeEvent)
        OBVIOUS
      <4> QED
        BY <4>1, Zenon
    <3>2. ed2 = [ed EXCEPT !.nodeMap = CanvasNode, !.pending = none, !.status = new]
      BY <2>3, <3>1
    <3> QED
      BY <1>1, <2>2, <3>1, <3>2 DEF EditorRecord
<1>6. Ending(ed, runs, q) => Ending(ed2, runs, q)
  BY <1>5 DEF Ending
<1>7. ASSUME "colours" \notin exc, Begun(runs, q) PROVE Heard(ed2, runs, q)
  <2>1. PICK last : last = Len(runs)
    OBVIOUS
  <2>2. Heard(ed, runs, q)
    BY <1>1, <1>7
  <2>3. AllOfLast(runs, ed2.pending)
    BY <1>5 DEF AllOfLast
  <2>4. Leads(ed2.status, runs[last].nodes, ed2.pending \o q, last) \/ Rested(ed2, runs, q)
    <3>1. CASE Leads(ed.status, runs[last].nodes, ed.pending \o q, last)
      <4>1. \A i \in DOMAIN p : p[i].run = last
        BY <1>3, <2>1, <2>2 DEF Heard, AllOfLast
      <4>2. Leads(status, runs[last].nodes, p \o q, last)
        BY <1>3, <3>1
      <4>3. Leads(Shown(status, p, CanvasNode, 1 .. Len(p)), runs[last].nodes, q, last)
        <5>1. PICK is : is = runs[last].nodes
          OBVIOUS
        <5>2. Leads(Shown(status, p, CanvasNode, 1 .. Len(p)), is, q, last)
          BY <1>1, <4>1, <4>2, <5>1, LeadsReplay
        <5> QED
          BY <5>1, <5>2
      <4>4. ed2.pending \o q = q
        BY <1>1, <1>5
      <4> QED
        BY <1>4, <1>5, <4>3, <4>4
    <3>2. CASE Rested(ed, runs, q)
      <4>1. p = <<>> /\ status = AllIdle
        BY <1>3, <3>2 DEF Rested
      <4>2. Shown(status, p, CanvasNode, 1 .. Len(p)) = status
        <5>1. 1 .. Len(p) = {}
          BY <4>1
        <5> QED
          BY <5>1 DEF Shown, Colouring
      <4> QED
        BY <1>4, <1>5, <3>2, <4>1, <4>2 DEF Rested
    <3> QED
      BY <2>1, <2>2, <3>1, <3>2 DEF Heard
  <2> QED
    BY <1>5, <2>1, <2>2, <2>3, <2>4 DEF Heard, Runs
<1>8. EventsOK(ed2, runs, q, exc)
  BY <1>1, <1>5, <1>6, <1>7 DEF EventsOK
<1> QED
  BY <1>2, <1>8

\* The map is cleared, and what waited for it with it.
LEMMA ClearKept ==
    ASSUME NEW ed, NEW runs, NEW q, NEW exc, EventsOK(ed, runs, q, exc), NEW exc2, exc \subseteq exc2,
           ed.pending # <<>> => "colours" \in exc2
    PROVE  EventsOK(SetNodeMap(ed, {}), runs, q, exc2)
<1>1. /\ ed \in EditorRecord /\ runs \in Seq(RunRecord) /\ q \in Seq(EditorEvent) /\ Wires(runs, q)
      /\ "colours" \notin exc /\ Begun(runs, q) => Heard(ed, runs, q)
      /\ "running" \notin exc => Ending(ed, runs, q)
  BY EventsParts
<1>2. PICK ed2 : ed2 = SetNodeMap(ed, {})
  OBVIOUS
<1>3. PICK p \in Seq(NodeEvent), status \in Colouring : p = ed.pending /\ status = ed.status
  BY <1>1 DEF EditorRecord
<1>4. Replayed(status, p, {}) = status
  <2>1. Replayed(status, p, {}) = Shown(status, p, {}, 1 .. Len(p))
    BY ReplayShows
  <2>2. Shown(status, p, {}, 1 .. Len(p)) = status
    BY DEF Shown, Colouring
  <2> QED
    BY <2>1, <2>2
<1>5. /\ ed2 \in EditorRecord /\ ed2.status = ed.status /\ ed2.pending = <<>>
      /\ ed2.nodeMap = {} /\ ed2.running = ed.running /\ ed2.resetTimer = ed.resetTimer
  <2>1. ed2 = [ed EXCEPT !.nodeMap = {}, !.pending = <<>>, !.status = status]
    BY <1>1, <1>2, <1>3, <1>4 DEF SetNodeMap, EditorRecord
  <2> QED
    <3>1. PICK none \in Seq(NodeEvent) : none = <<>>
      <4>1. <<>> \in Seq(NodeEvent)
        OBVIOUS
      <4> QED
        BY <4>1, Zenon
    <3>2. ed2 = [ed EXCEPT !.nodeMap = {}, !.pending = none, !.status = status]
      BY <2>1, <3>1
    <3> QED
      BY <1>1, <1>3, <3>1, <3>2 DEF EditorRecord
<1>6. Ending(ed, runs, q) => Ending(ed2, runs, q)
  BY <1>5 DEF Ending
<1>7. ASSUME "colours" \notin exc2, Begun(runs, q) PROVE Heard(ed2, runs, q)
  <2>1. Heard(ed, runs, q) /\ ed.pending = <<>>
    BY <1>1, <1>7
  <2> QED
    BY <1>5, <2>1 DEF Heard, Runs, Rested
<1>8. EventsOK(ed2, runs, q, exc2)
  BY <1>1, <1>5, <1>6, <1>7 DEF EventsOK
<1> QED
  BY <1>2, <1>8

----------------------------------------------------------------------------
(* The steps.                                                                *)

BackendRecord == [canvas : 0 .. MaxEdits, live : BOOLEAN, runs : Seq(RunRecord)]
Place == {"none", "update", "updated", "start", "ran", "deployed", "stop", "stopped", "load", "loaded", "done"}
ClickRecord ==
    [kind : {"none", "save", "deploy", "stop", "load"}, at : Place,
     shown : 0 .. MaxEdits, saved : BOOLEAN]

RequestTypes ==
    /\ backend \in BackendRecord /\ Len(backend.runs) <= MaxRuns
    /\ clicks \in [Click -> ClickRecord] /\ excuse \subseteq {"colours", "running"} /\ strayed \in BOOLEAN

EventsInv == EventsOK(editor, backend.runs, inbox, excuse)

\* What a request knows of what it changes.
InStep(c) ==
    /\ clicks[c].at \in {"update", "updated"} => clicks[c].shown = editor.canvas /\ clicks[c].saved
    /\ clicks[c].at = "updated" => backend.canvas = editor.canvas
    /\ clicks[c].at \in {"start", "ran", "deployed"} /\ clicks[c].saved => backend.canvas = clicks[c].shown
    /\ clicks[c].at = "deployed" => backend.live
    /\ clicks[c].at \in {"ran", "stopped"} => ~backend.live
    /\ clicks[c].at = "loaded" => clicks[c].shown = backend.canvas /\ clicks[c].saved = backend.live
InTouch ==
    /\ \A c, d \in Click : InFlight(c) /\ InFlight(d) => c = d
    /\ ~editor.dirty => backend.canvas = editor.canvas
    /\ \A c \in Click : InStep(c)
    /\ (\A c \in Click : clicks[c].at \notin {"ran", "deployed", "stopped"}) => editor.deployed = backend.live

EditorInv == RequestTypes /\ EventsInv /\ (~strayed => InTouch)

\* The editor's invariant holds at first.
LEMMA EditorInitially == EditorInit => EditorInv
<1> SUFFICES ASSUME EditorInit PROVE EditorInv
  OBVIOUS
<1> USE EditorAssumption
<1>1. PICK none \in Seq(NodeEvent), idle \in Colouring : none = <<>> /\ idle = AllIdle
  <2>1. <<>> \in Seq(NodeEvent) /\ AllIdle \in Colouring
    <3>1. <<>> \in Seq(NodeEvent)
      OBVIOUS
    <3> QED
      BY <3>1 DEF AllIdle, Colouring, Colour
  <2> QED
    BY <2>1, Zenon
<1>2. 0 \in 0 .. MaxEdits /\ 0 <= MaxRuns
  OBVIOUS
<1>3. editor = [status |-> idle, nodeMap |-> {}, pending |-> none, resetTimer |-> FALSE,
                running |-> FALSE, dirty |-> FALSE, deployed |-> FALSE, canvas |-> 0, edits |-> 0]
  BY <1>1 DEF EditorInit
<1>4. editor \in EditorRecord
  BY <1>2, <1>3 DEF EditorRecord
<1>5. backend.runs = <<>> /\ backend \in BackendRecord /\ inbox = <<>>
  <2>1. <<>> \in Seq(RunRecord)
    OBVIOUS
  <2> QED
    BY <1>2, <2>1 DEF EditorInit, BackendRecord
<1>6. RequestTypes
  <2>1. clicks \in [Click -> ClickRecord]
    BY <1>2 DEF EditorInit, Clicked, ClickRecord, Place
  <2>2. Len(backend.runs) <= MaxRuns
    BY <1>2, <1>5
  <2>3. excuse \subseteq {"colours", "running"} /\ strayed \in BOOLEAN
    BY DEF EditorInit
  <2> QED
    BY <1>5, <2>1, <2>2, <2>3 DEF RequestTypes
<1>7. EventsInv
  <2>1. EventsOK(editor, <<>>, <<>>, excuse)
    <3>1. <<>> \in Seq(RunRecord) /\ <<>> \in Seq(EditorEvent)
      OBVIOUS
    <3>2. ~Begun(<<>>, <<>>)
      BY DEF Begun
    <3>3. Ending(editor, <<>>, <<>>) /\ editor.nodeMap = {}
      BY <1>3 DEF Ending
    <3> QED
      BY <1>4, <3>1, <3>2, <3>3, WiresEmpty DEF EventsOK
  <2> QED
    BY <1>5, <2>1 DEF EventsInv
<1>8. InTouch
  <2>1. editor.dirty = FALSE /\ editor.deployed = FALSE /\ editor.canvas = 0
    BY <1>3
  <2>2. backend.canvas = 0 /\ backend.live = FALSE /\ \A c \in Click : clicks[c].at = "none"
    BY DEF EditorInit, Clicked
  <2> QED
    BY <2>1, <2>2 DEF InTouch, InFlight, InStep
<1> QED
  BY <1>6, <1>7, <1>8 DEF EditorInv

\* Neither the stores nor the server's side of the flow have changed.
Untouched ==
    /\ editor'.dirty = editor.dirty /\ editor'.canvas = editor.canvas /\ editor'.deployed = editor.deployed
    /\ backend'.canvas = backend.canvas /\ backend'.live = backend.live
    /\ clicks' = clicks /\ strayed' = strayed

\* A step that leaves canvas and clicks alone leaves them in touch.
LEMMA UntouchedInTouch ==
    ASSUME InTouch, Untouched
    PROVE  InTouch'
BY DEF InTouch, Untouched, InStep, InFlight

\* Only request c is under way.
LEMMA OneInTouch ==
    ASSUME NEW c \in Click, \A d \in Click : d # c => ~InFlight(d) /\ clicks'[d] = clicks[d],
           ~editor'.dirty => backend'.canvas = editor'.canvas, InStep(c)',
           clicks'[c].at \notin {"ran", "deployed", "stopped"} => editor'.deployed = backend'.live
    PROVE  InTouch'
<1>1. \A d \in Click : d # c => clicks'[d].at \in {"none", "done"}
  BY DEF InFlight
<1>2. \A d \in Click : InStep(d)'
  <2> SUFFICES ASSUME NEW d \in Click, d # c PROVE InStep(d)'
    OBVIOUS
  <2> QED
    BY <1>1 DEF InStep
<1>3. \A d, f \in Click : InFlight(d)' /\ InFlight(f)' => d = f
  BY <1>1 DEF InFlight
<1> QED
  BY <1>2, <1>3 DEF InTouch

\* The parts of the editor's invariant.
LEMMA EditorParts ==
    ASSUME EditorInv
    PROVE  /\ editor \in EditorRecord /\ editor.status \in Colouring /\ editor.nodeMap \in {{}, CanvasNode}
           /\ editor.pending \in Seq(NodeEvent) /\ editor.dirty \in BOOLEAN /\ editor.deployed \in BOOLEAN
           /\ editor.canvas \in 0 .. MaxEdits
           /\ backend \in BackendRecord /\ backend.canvas \in 0 .. MaxEdits /\ backend.live \in BOOLEAN
           /\ backend.runs \in Seq(RunRecord) /\ Len(backend.runs) <= MaxRuns /\ inbox \in Seq(EditorEvent)
           /\ clicks \in [Click -> ClickRecord]
           /\ excuse \subseteq {"colours", "running"} /\ strayed \in BOOLEAN
           /\ EventsOK(editor, backend.runs, inbox, excuse)
<1>1. editor \in EditorRecord /\ EventsOK(editor, backend.runs, inbox, excuse) /\ inbox \in Seq(EditorEvent)
  BY DEF EditorInv, EventsInv, EventsOK
<1>2. RequestTypes
  BY DEF EditorInv
<1> QED
  BY <1>1, <1>2 DEF RequestTypes, EditorRecord, BackendRecord

\* A run that begins keeps what is known about events.
LEMMA BeginsRunStep ==
    ASSUME EditorInv, NEW own \in BOOLEAN, NEW live \in BOOLEAN, BeginsRun(own, live),
           editor' = editor, excuse' = excuse
    PROVE  /\ EventsInv' /\ backend' \in BackendRecord /\ Len(backend.runs)' <= MaxRuns
           /\ backend'.canvas = backend.canvas /\ backend'.live = live
<1>1. PICK ed, runs, q, exc : /\ ed = editor /\ runs = backend.runs /\ q = inbox /\ exc = excuse
                              /\ runs \in Seq(RunRecord) /\ EventsOK(ed, runs, q, exc)
  BY EditorParts
<1>2. PICK run \in RunRecord : run = [own |-> own, going |-> TRUE, nodes |-> AllIdle]
  <2>1. AllIdle \in Colouring
    BY DEF AllIdle, Colouring, Colour
  <2>2. [own |-> own, going |-> TRUE, nodes |-> AllIdle] \in RunRecord
    BY <2>1 DEF RunRecord
  <2> QED
    BY <2>2, Zenon
<1>3. backend \in BackendRecord /\ Len(runs) < MaxRuns /\ MaxRuns \in Nat
  BY <1>1, EditorParts, EditorAssumption DEF BeginsRun
<1>4. backend' = [backend EXCEPT !.live = live, !.runs = Append(runs, run)]
  BY <1>1, <1>2, <1>3 DEF BeginsRun, BackendRecord
<1>5. PICK runs2 \in Seq(RunRecord) : runs2 = Append(runs, run) /\ Len(runs2) <= MaxRuns
  <2>1. Append(runs, run) \in Seq(RunRecord) /\ Len(Append(runs, run)) <= MaxRuns
    BY <1>1, <1>3
  <2> QED
    BY <2>1, Zenon
<1>6. backend' = [backend EXCEPT !.live = live, !.runs = runs2]
  BY <1>4, <1>5
<1>7. backend'.runs = runs2 /\ backend'.canvas = backend.canvas /\ backend'.live = live /\ backend' \in BackendRecord
  BY <1>3, <1>6 DEF BackendRecord
<1>8. inbox' = Append(q, StartOf(Len(runs) + 1))
  BY <1>1 DEF BeginsRun, Sends, StartOf
<1>9. EventsOK(ed, Append(runs, run), Append(q, StartOf(Len(runs) + 1)), exc)
  BY <1>1, <1>2, BeginKept
<1>10. EventsInv'
  BY <1>1, <1>5, <1>7, <1>8, <1>9 DEF EventsInv
<1> QED
  BY <1>5, <1>7, <1>10

\* So does a run that some other client begins.
LEMMA RunElsewhereStep ==
    ASSUME EditorInv, RunElsewhere
    PROVE  EditorInv'
<1>1. PICK own \in BOOLEAN : BeginsRun(own, backend.live)
  BY DEF RunElsewhere
<1>2. editor' = editor /\ clicks' = clicks /\ excuse' = excuse /\ strayed' = strayed
  BY DEF RunElsewhere
<1>3. PICK live \in BOOLEAN : live = backend.live
  BY EditorParts
<1>4. /\ EventsInv' /\ backend' \in BackendRecord /\ Len(backend.runs)' <= MaxRuns
      /\ backend'.canvas = backend.canvas /\ backend'.live = live
  BY <1>1, <1>2, <1>3, BeginsRunStep
<1>5. RequestTypes'
  BY <1>2, <1>4 DEF EditorInv, RequestTypes
<1>6. Untouched
  BY <1>2, <1>3, <1>4 DEF Untouched
<1> QED
  BY <1>2, <1>4, <1>5, <1>6, UntouchedInTouch DEF EditorInv

\* A node that goes on keeps the invariant.
LEMMA NodeStep ==
    ASSUME EditorInv, NEW r \in DOMAIN backend.runs, NEW n \in CanvasNode, NodeGoesOn(r, n)
    PROVE  EditorInv'
<1>1. PICK ed, runs, q, exc : /\ ed = editor /\ runs = backend.runs /\ q = inbox /\ exc = excuse
                              /\ runs \in Seq(RunRecord) /\ EventsOK(ed, runs, q, exc)
  BY EditorParts
<1>2. editor' = editor /\ clicks' = clicks /\ excuse' = excuse /\ strayed' = strayed
  BY DEF NodeGoesOn
<1>3. PICK now \in Colour : /\ backend' = [backend EXCEPT !.runs[r].nodes[n] = now]
                            /\ Sends([type |-> "node", run |-> r, node |-> n, now |-> now])
  <2>1. PICK now : /\ now \in CASE backend.runs[r].nodes[n] = "idle" -> {"running", "over"}
                                [] backend.runs[r].nodes[n] = "running" -> {"over"}
                                [] OTHER -> {}
                   /\ backend' = [backend EXCEPT !.runs[r].nodes[n] = now]
                   /\ Sends([type |-> "node", run |-> r, node |-> n, now |-> now])
    BY Zenon DEF NodeGoesOn
  <2>2. now \in Colour
    <3>1. CASE backend.runs[r].nodes[n] = "idle"
      BY <2>1, <3>1 DEF Colour
    <3>2. CASE backend.runs[r].nodes[n] = "running"
      BY <2>1, <3>2 DEF Colour
    <3>3. CASE backend.runs[r].nodes[n] # "idle" /\ backend.runs[r].nodes[n] # "running"
      BY <2>1, <3>3
    <3> QED
      BY <3>1, <3>2, <3>3
  <2> QED
    BY <2>1, <2>2
<1>4. backend \in BackendRecord /\ r \in DOMAIN runs /\ runs[r] \in RunRecord /\ runs[r].nodes \in Colouring
      /\ runs[r].going
  <2>1. backend \in BackendRecord /\ r \in DOMAIN runs /\ runs[r].going
    BY <1>1, EditorParts DEF NodeGoesOn, Going
  <2>2. runs[r] \in RunRecord
    BY <1>1, <2>1
  <2> QED
    BY <2>1, <2>2 DEF RunRecord
<1>5. PICK nodes \in Colouring : nodes = [runs[r].nodes EXCEPT ![n] = now]
  BY <1>4 DEF Colouring
<1>6. PICK run \in RunRecord : run = [runs[r] EXCEPT !.nodes = nodes]
  BY <1>4 DEF RunRecord
<1>7. PICK runs2 \in Seq(RunRecord) : runs2 = [runs EXCEPT ![r] = run]
  <2>1. [runs EXCEPT ![r] = run] \in Seq(RunRecord)
    BY <1>1, <1>4
  <2> QED
    BY <2>1, Zenon
<1>8. backend' = [backend EXCEPT !.runs = runs2]
  <2>1. backend' = [backend EXCEPT !.runs = [runs EXCEPT ![r] = [runs[r] EXCEPT !.nodes =
                       [runs[r].nodes EXCEPT ![n] = now]]]]
    BY <1>1, <1>3, <1>4 DEF BackendRecord, RunRecord, Colouring
  <2>2. backend' = [backend EXCEPT !.runs = [runs EXCEPT ![r] = [runs[r] EXCEPT !.nodes = nodes]]]
    BY <1>5, <2>1
  <2> QED
    BY <1>6, <1>7, <2>2
<1>9. /\ backend' \in BackendRecord /\ backend'.runs = runs2
      /\ backend'.canvas = backend.canvas /\ backend'.live = backend.live
  BY <1>4, <1>8 DEF BackendRecord
<1>10. Len(runs2) = Len(runs) /\ DOMAIN runs2 = DOMAIN runs
  BY <1>1, <1>7
<1>11. Goes(runs, runs2, r, n, now)
  <2>1. \A s \in DOMAIN runs : runs2[s] = IF s = r THEN run ELSE runs[s]
    BY <1>1, <1>7
  <2>2. run.going = runs[r].going /\ \A m \in CanvasNode : run.nodes[m] = IF m = n THEN now ELSE runs[r].nodes[m]
    BY <1>4, <1>5, <1>6 DEF RunRecord, Colouring
  <2> QED
    BY <1>10, <2>1, <2>2 DEF Goes
<1>12. inbox' = Append(q, NodeOf(r, n, now))
  BY <1>1, <1>3 DEF Sends, NodeOf
<1>13. EventsOK(ed, runs2, Append(q, NodeOf(r, n, now)), exc)
  BY <1>1, <1>4, <1>11, NodeKept
<1>14. EventsInv'
  BY <1>1, <1>2, <1>9, <1>12, <1>13 DEF EventsInv
<1>15. RequestTypes'
  BY <1>1, <1>2, <1>9, <1>10 DEF EditorInv, RequestTypes
<1>16. Untouched
  BY <1>2, <1>9 DEF Untouched
<1> QED
  BY <1>2, <1>14, <1>15, <1>16, UntouchedInTouch DEF EditorInv

\* A run that is over keeps it.
LEMMA EndStep ==
    ASSUME EditorInv, NEW r \in DOMAIN backend.runs, RunIsOver(r)
    PROVE  EditorInv'
<1>1. PICK ed, runs, q, exc : /\ ed = editor /\ runs = backend.runs /\ q = inbox /\ exc = excuse
                              /\ runs \in Seq(RunRecord) /\ EventsOK(ed, runs, q, exc)
  BY EditorParts
<1>2. editor' = editor /\ clicks' = clicks /\ excuse' = excuse /\ strayed' = strayed
  BY DEF RunIsOver
<1>4. backend \in BackendRecord /\ r \in DOMAIN runs /\ runs[r] \in RunRecord /\ runs[r].going
  <2>1. backend \in BackendRecord /\ r \in DOMAIN runs /\ runs[r].going
    BY <1>1, EditorParts DEF RunIsOver, Going
  <2> QED
    BY <1>1, <2>1
<1>6. PICK run \in RunRecord : run = [runs[r] EXCEPT !.going = FALSE]
  BY <1>4 DEF RunRecord
<1>7. PICK runs2 \in Seq(RunRecord) : runs2 = [runs EXCEPT ![r] = run]
  <2>1. [runs EXCEPT ![r] = run] \in Seq(RunRecord)
    BY <1>1, <1>4
  <2> QED
    BY <2>1, Zenon
<1>8. backend' = [backend EXCEPT !.runs = runs2]
  <2>1. backend' = [backend EXCEPT !.runs[r].going = FALSE]
    BY DEF RunIsOver
  <2>2. runs2 = [runs EXCEPT ![r] = [@ EXCEPT !.going = FALSE]]
    BY <1>4, <1>6, <1>7
  <2> QED
    BY <1>1, <1>4, <2>1, <2>2 DEF BackendRecord
<1>9. /\ backend' \in BackendRecord /\ backend'.runs = runs2
      /\ backend'.canvas = backend.canvas /\ backend'.live = backend.live
  BY <1>4, <1>8 DEF BackendRecord
<1>10. Len(runs2) = Len(runs) /\ DOMAIN runs2 = DOMAIN runs
  BY <1>1, <1>7
<1>11. Ends(runs, runs2, r)
  <2>1. \A s \in DOMAIN runs : runs2[s] = IF s = r THEN run ELSE runs[s]
    BY <1>1, <1>7
  <2>2. run.going = FALSE /\ run.nodes = runs[r].nodes
    BY <1>4, <1>6 DEF RunRecord
  <2>3. \A s \in DOMAIN runs : runs[s].going \in BOOLEAN
    <3>1. \A s \in DOMAIN runs : runs[s] \in RunRecord
      BY <1>1
    <3> QED
      BY <3>1 DEF RunRecord
  <2>4. \A s \in DOMAIN runs : runs2[s].going = (runs[s].going /\ s # r)
    <3> SUFFICES ASSUME NEW s \in DOMAIN runs PROVE runs2[s].going = (runs[s].going /\ s # r)
      OBVIOUS
    <3>1. CASE s = r
      BY <2>1, <2>2, <3>1
    <3>2. CASE s # r
      BY <2>1, <2>3, <3>2
    <3> QED
      BY <3>1, <3>2
  <2>5. \A s \in DOMAIN runs, m \in CanvasNode : runs2[s].nodes[m] = runs[s].nodes[m]
    BY <2>1, <2>2
  <2> QED
    BY <1>10, <2>4, <2>5 DEF Ends
<1>12. inbox' = Append(q, EndOf(r))
  BY <1>1 DEF RunIsOver, Sends, EndOf
<1>13. EventsOK(ed, runs2, Append(q, EndOf(r)), exc)
  BY <1>1, <1>4, <1>11, EndKept
<1>14. EventsInv'
  BY <1>1, <1>2, <1>9, <1>12, <1>13 DEF EventsInv
<1>15. RequestTypes'
  BY <1>1, <1>2, <1>9, <1>10 DEF EditorInv, RequestTypes
<1>16. Untouched
  BY <1>2, <1>9 DEF Untouched
<1> QED
  BY <1>2, <1>14, <1>15, <1>16, UntouchedInTouch DEF EditorInv

\* A message that reaches the editor keeps it.
LEMMA MessageStep ==
    ASSUME EditorInv, OnMessage
    PROVE  EditorInv'
<1>1. PICK ed, runs, q, exc : /\ ed = editor /\ runs = backend.runs /\ q = inbox /\ exc = excuse
                              /\ runs \in Seq(RunRecord) /\ EventsOK(ed, runs, q, exc)
                              /\ ed \in EditorRecord /\ q \in Seq(EditorEvent)
  BY EditorParts
<1>2. PICK e : e = Head(q)
  OBVIOUS
<1>3. /\ q # <<>> /\ editor' = AddLog(ed, Head(q)) /\ inbox' = Tail(q) /\ e \in EditorEvent
      /\ backend' = backend /\ clicks' = clicks /\ strayed' = strayed
  <2>1. q # <<>> /\ editor' = AddLog(ed, Head(q)) /\ inbox' = Tail(q)
        /\ backend' = backend /\ clicks' = clicks /\ strayed' = strayed
    BY <1>1, <1>2 DEF OnMessage
  <2> QED
    BY <1>1, <1>2, <2>1
<1>4. /\ e.type # "flow_started" => excuse' = excuse
      /\ e.type = "flow_started" /\ Alone(e.run) => excuse' = {}
      /\ e.type = "flow_started" /\ ~Alone(e.run) => excuse' = {"colours"}
  BY <1>1, <1>2 DEF OnMessage
<1>5. EventsOK(AddLog(ed, Head(q)), runs, Tail(q), excuse')
  <2>1. CASE IsStart(e)
    <3>1. PICK exc2 : exc2 = excuse'
      OBVIOUS
    <3>2. Alone(e.run) => AloneIn(runs, q, Head(q).run)
      BY <1>1, <1>2 DEF Alone, AloneIn, Going
    <3>3. "colours" \in exc2 \/ AloneIn(runs, q, Head(q).run)
      BY <1>4, <2>1, <3>1, <3>2 DEF IsStart
    <3> QED
      BY <1>1, <1>2, <1>3, <2>1, <3>1, <3>3, StartHeard
  <2>2. CASE IsEnd(e)
    <3>1. excuse' = exc
      BY <1>1, <1>4, <2>2 DEF IsEnd
    <3> QED
      BY <1>1, <1>2, <1>3, <2>2, <3>1, EndHeard
  <2>3. CASE e.type = "node"
    <3>1. excuse' = exc
      BY <1>1, <1>4, <2>3
    <3> QED
      BY <1>1, <1>2, <1>3, <2>3, <3>1, NodeHeard
  <2>4. e.type \in {"flow_started", "flow_ended", "node"}
    BY <1>3, EventKinds
  <2> QED
    BY <2>1, <2>2, <2>3, <2>4 DEF IsStart, IsEnd
<1>6. EventsInv'
  BY <1>1, <1>3, <1>5 DEF EventsInv
<1>7. RequestTypes'
  BY <1>3, <1>4 DEF EditorInv, RequestTypes
<1>8. editor'.dirty = editor.dirty /\ editor'.canvas = editor.canvas /\ editor'.deployed = editor.deployed
  <2>1. PICK ed2 : ed2 = AddLog(ed, e)
    OBVIOUS
  <2>2. ed2.dirty = ed.dirty /\ ed2.canvas = ed.canvas /\ ed2.deployed = ed.deployed
    <3>1. e.type \in {"flow_started", "flow_ended", "node"}
      BY <1>3, EventKinds
    <3>2. CASE IsStart(e)
      <4>1. ed2 = [ed EXCEPT !.running = TRUE, !.pending = <<>>, !.status = AllIdle]
        BY <1>1, <1>3, <2>1, <3>2, AddLogIs
      <4> QED
        BY <1>1, <4>1 DEF EditorRecord
    <3>3. CASE IsEnd(e)
      <4>1. ed2 = [ed EXCEPT !.running = FALSE, !.resetTimer = TRUE]
        BY <1>1, <1>3, <2>1, <3>3, AddLogIs
      <4> QED
        BY <1>1, <4>1 DEF EditorRecord
    <3>4. CASE e.type = "node" /\ ed.nodeMap = {}
      <4>1. ed2 = [ed EXCEPT !.pending = Append(@, e)]
        BY <1>1, <1>3, <2>1, <3>4, AddLogIs
      <4> QED
        BY <1>1, <4>1 DEF EditorRecord
    <3>5. CASE e.type = "node" /\ ed.nodeMap # {}
      <4>1. ed2 = [ed EXCEPT !.status = ApplyNodeEvent(@, e, ed.nodeMap)]
        BY <1>1, <1>3, <2>1, <3>5, AddLogIs
      <4> QED
        BY <1>1, <4>1 DEF EditorRecord
    <3> QED
      BY <3>1, <3>2, <3>3, <3>4, <3>5 DEF IsStart, IsEnd
  <2> QED
    BY <1>1, <1>2, <1>3, <2>1, <2>2
<1>9. Untouched
  BY <1>3, <1>8 DEF Untouched
<1> QED
  BY <1>3, <1>6, <1>7, <1>9, UntouchedInTouch DEF EditorInv

\* A socket that closes keeps it.
LEMMA CloseStep ==
    ASSUME EditorInv, OnClose
    PROVE  EditorInv'
<1>1. PICK ed, runs, q, exc : /\ ed = editor /\ runs = backend.runs /\ q = inbox /\ exc = excuse
                              /\ EventsOK(ed, runs, q, exc)
  BY EditorParts
<1>2. /\ editor' = editor /\ backend' = backend /\ clicks' = clicks /\ strayed' = strayed /\ inbox' = <<>>
      /\ excuse' = excuse \cup {"colours", "running"}
  BY DEF OnClose
<1>3. PICK exc2 : exc2 = exc \cup {"colours", "running"}
  OBVIOUS
<1>4. EventsOK(ed, runs, <<>>, exc2)
  BY <1>1, <1>3, CloseKept
<1>5. EventsInv'
  BY <1>1, <1>2, <1>3, <1>4 DEF EventsInv
<1>6. RequestTypes' /\ Untouched
  BY <1>2 DEF EditorInv, RequestTypes, Untouched
<1> QED
  BY <1>2, <1>5, <1>6, UntouchedInTouch DEF EditorInv

\* The timer that resets the colours keeps it.
LEMMA TimerStep ==
    ASSUME EditorInv, ResetTimerFires
    PROVE  EditorInv'
<1>1. PICK ed, runs, q, exc : /\ ed = editor /\ runs = backend.runs /\ q = inbox /\ exc = excuse
                              /\ EventsOK(ed, runs, q, exc) /\ ed \in EditorRecord
  BY EditorParts
<1>2. /\ editor' = ResetAllNodeStatus([ed EXCEPT !.resetTimer = FALSE])
      /\ backend' = backend /\ clicks' = clicks /\ strayed' = strayed /\ inbox' = inbox
      /\ excuse' = excuse \/ excuse' = excuse \cup {"colours"}
      /\ editor.running \/ editor.pending # <<>> => excuse' = excuse \cup {"colours"}
  BY <1>1 DEF ResetTimerFires
<1>3. PICK exc2 : exc2 = excuse'
  OBVIOUS
<1>4. EventsOK(ResetAllNodeStatus([ed EXCEPT !.resetTimer = FALSE]), runs, q, exc2)
  <2>1. exc \subseteq exc2 /\ (ed.running \/ ed.pending # <<>> => "colours" \in exc2)
    BY <1>1, <1>2, <1>3
  <2> QED
    BY <1>1, <2>1, ResetKept
<1>5. EventsInv'
  BY <1>1, <1>2, <1>3, <1>4 DEF EventsInv
<1>6. RequestTypes'
  BY <1>2 DEF EditorInv, RequestTypes
<1>7. editor'.dirty = editor.dirty /\ editor'.canvas = editor.canvas /\ editor'.deployed = editor.deployed
  BY <1>1, <1>2 DEF ResetAllNodeStatus, EditorRecord
<1>8. Untouched
  BY <1>2, <1>7 DEF Untouched
<1> QED
  BY <1>2, <1>5, <1>6, <1>8, UntouchedInTouch DEF EditorInv

\* What a step that only writes to the stores keeps of the events.
LEMMA StoresStep ==
    ASSUME EditorInv, editor' \in EditorRecord,
           editor'.status = editor.status, editor'.nodeMap = editor.nodeMap, editor'.pending = editor.pending,
           editor'.resetTimer = editor.resetTimer, editor'.running = editor.running,
           backend'.runs = backend.runs, inbox' = inbox, excuse' = excuse
    PROVE  EventsInv'
<1>1. PICK ed, runs, q, exc, ed2 : /\ ed = editor /\ runs = backend.runs /\ q = inbox /\ exc = excuse
                                   /\ EventsOK(ed, runs, q, exc) /\ ed2 = editor'
  BY EditorParts
<1>2. ed2 \in EditorRecord /\ SameColours(ed, ed2)
  BY <1>1 DEF SameColours
<1>3. EventsOK(ed2, runs, q, exc)
  BY <1>1, <1>2, OthersKept
<1> QED
  BY <1>1, <1>3 DEF EventsInv

\* An edit of the canvas keeps it.
LEMMA EditStep ==
    ASSUME EditorInv, EditCanvas
    PROVE  EditorInv'
<1>1. /\ editor \in EditorRecord /\ editor.edits < MaxEdits /\ MaxEdits \in Nat
      /\ editor' = [editor EXCEPT !.edits = @ + 1, !.canvas = editor.edits + 1, !.dirty = TRUE]
      /\ backend' = backend /\ inbox' = inbox /\ clicks' = clicks /\ excuse' = excuse
      /\ strayed' = (strayed \/ Busy)
  BY EditorParts, EditorAssumption DEF EditCanvas
<1>2. /\ editor' \in EditorRecord /\ editor'.dirty = TRUE /\ editor'.deployed = editor.deployed
      /\ editor'.status = editor.status /\ editor'.nodeMap = editor.nodeMap /\ editor'.pending = editor.pending
      /\ editor'.resetTimer = editor.resetTimer /\ editor'.running = editor.running
  <2>1. PICK next \in 0 .. MaxEdits : next = editor.edits + 1
    <3>1. editor.edits \in 0 .. MaxEdits
      BY <1>1 DEF EditorRecord
    <3> QED
      BY <1>1, <3>1
  <2>2. editor' = [editor EXCEPT !.edits = next, !.canvas = next, !.dirty = TRUE]
    BY <1>1, <2>1 DEF EditorRecord
  <2> QED
    BY <1>1, <2>2 DEF EditorRecord
<1>3. EventsInv'
  <2>1. backend'.runs = backend.runs
    BY <1>1
  <2> QED
    BY <1>1, <1>2, <2>1, StoresStep
<1>4. RequestTypes'
  BY <1>1 DEF EditorInv, RequestTypes
<1>5. ASSUME ~strayed' PROVE InTouch'
  <2>1. ~strayed /\ \A c \in Click : ~InFlight(c)
    BY <1>1, <1>5 DEF Busy
  <2>2. InTouch
    BY <2>1 DEF EditorInv
  <2> QED
    BY <1>1, <1>2, <2>1, <2>2 DEF InTouch, InFlight, InStep
<1> QED
  BY <1>3, <1>4, <1>5 DEF EditorInv

----------------------------------------------------------------------------
(* The steps of a request.                                                   *)

OthersStay(c) == \A d \in Click : d # c => clicks'[d] = clicks[d]

\* A click that moves on changes nothing but its place.
LEMMA MovesTo ==
    ASSUME EditorInv, NEW c \in Click, NEW at \in Place, Moves(c, at)
    PROVE  /\ clicks' \in [Click -> ClickRecord] /\ OthersStay(c)
           /\ clicks'[c].at = at /\ clicks'[c].kind = clicks[c].kind
           /\ clicks'[c].shown = clicks[c].shown /\ clicks'[c].saved = clicks[c].saved
<1>1. clicks \in [Click -> ClickRecord] /\ clicks' = [clicks EXCEPT ![c].at = at]
  BY EditorParts DEF Moves
<1>2. PICK new \in ClickRecord : new = [clicks[c] EXCEPT !.at = at]
  <2>1. clicks[c] \in ClickRecord
    BY <1>1
  <2> QED
    BY <2>1 DEF ClickRecord
<1>3. clicks' = [clicks EXCEPT ![c] = new]
  BY <1>1, <1>2
<1>4. clicks[c] \in ClickRecord
  BY <1>1
<1> QED
  BY <1>1, <1>2, <1>3, <1>4 DEF ClickRecord, OthersStay

\* A click that is done leaves the others alone.
LEMMA IsDoneIs ==
    ASSUME EditorInv, NEW c \in Click, IsDone(c)
    PROVE  clicks' \in [Click -> ClickRecord] /\ OthersStay(c) /\ clicks'[c].at = "done"
<1>1. clicks \in [Click -> ClickRecord] /\ clicks' = [clicks EXCEPT ![c] = Clicked("done")]
  BY EditorParts DEF IsDone
<1>2. Clicked("done") \in ClickRecord /\ Clicked("done").at = "done"
  <2>1. 0 \in 0 .. MaxEdits
    BY EditorAssumption
  <2> QED
    BY <2>1 DEF Clicked, ClickRecord, Place
<1> HIDE DEF Clicked
<1> QED
  BY <1>1, <1>2 DEF OthersStay

\* A click that begins remembers the canvas it was made on.
LEMMA BeginsIs ==
    ASSUME EditorInv, NEW c \in Click, NEW kind \in {"save", "deploy", "stop", "load"}, NEW at \in Place,
           Begins(c, kind, at)
    PROVE  /\ clicks' \in [Click -> ClickRecord] /\ OthersStay(c)
           /\ clicks'[c].at = at /\ clicks'[c].shown = editor.canvas /\ clicks'[c].saved = TRUE
           /\ strayed' \in BOOLEAN
           /\ ~strayed' => ~strayed /\ InTouch /\ \A d \in Click : ~InFlight(d)
<1>1. /\ clicks \in [Click -> ClickRecord] /\ strayed' = (strayed \/ Busy) /\ editor.canvas \in 0 .. MaxEdits
      /\ clicks' = [clicks EXCEPT ![c] = [kind |-> kind, at |-> at, shown |-> editor.canvas, saved |-> TRUE]]
  BY EditorParts DEF Begins
<1>2. PICK new \in ClickRecord : new = [kind |-> kind, at |-> at, shown |-> editor.canvas, saved |-> TRUE]
  BY <1>1 DEF ClickRecord
<1>3. clicks' = [clicks EXCEPT ![c] = new]
  BY <1>1, <1>2
<1>4. strayed' \in BOOLEAN
  BY <1>1
<1>5. ~strayed' => ~strayed /\ InTouch /\ \A d \in Click : ~InFlight(d)
  BY <1>1 DEF Busy, EditorInv
<1> QED
  BY <1>1, <1>2, <1>3, <1>4, <1>5 DEF OthersStay

\* A request that is under way is so alone, and knows where it is.
LEMMA Acting ==
    ASSUME EditorInv, ~strayed, NEW c \in Click, InFlight(c)
    PROVE  /\ \A d \in Click : d # c => ~InFlight(d)
           /\ InStep(c) /\ (~editor.dirty => backend.canvas = editor.canvas)
           /\ clicks[c].at \notin {"ran", "deployed", "stopped"} => editor.deployed = backend.live
<1>1. InTouch
  BY DEF EditorInv
<1>2. \A d \in Click : d # c => ~InFlight(d)
  BY <1>1 DEF InTouch
<1> QED
  BY <1>1, <1>2 DEF InTouch, InFlight

\* A step that touches no event keeps what is known about events.
LEMMA SameEvents ==
    ASSUME EditorInv, editor' = editor, backend'.runs = backend.runs, inbox' = inbox, excuse' = excuse
    PROVE  EventsInv'
BY EditorParts, StoresStep

\* So does clearing the node map, which only adds an excuse.
LEMMA ClearsMapStep ==
    ASSUME EditorInv, NEW dirty \in BOOLEAN, ClearsMap([editor EXCEPT !.dirty = dirty]),
           backend'.runs = backend.runs, inbox' = inbox
    PROVE  /\ EventsInv' /\ excuse' \subseteq {"colours", "running"}
           /\ editor'.dirty = dirty /\ editor'.canvas = editor.canvas /\ editor'.deployed = editor.deployed
<1>1. PICK ed, runs, q, exc : /\ ed = [editor EXCEPT !.dirty = dirty] /\ runs = backend.runs
                              /\ q = inbox /\ exc = excuse
  OBVIOUS
<1>2. /\ editor \in EditorRecord /\ ed \in EditorRecord /\ SameColours(editor, ed) /\ ed.dirty = dirty
      /\ ed.canvas = editor.canvas /\ ed.deployed = editor.deployed
  <2>1. editor \in EditorRecord
    BY EditorParts
  <2> QED
    BY <1>1, <2>1 DEF EditorRecord, SameColours
<1>3. EventsOK(ed, runs, q, exc)
  <2>1. PICK old : old = editor /\ EventsOK(old, runs, q, exc)
    BY <1>1, EditorParts
  <2>2. SameColours(old, ed)
    BY <1>2, <2>1 DEF SameColours
  <2> QED
    BY <1>2, <2>1, <2>2, OthersKept
<1>4. PICK exc2 : exc2 = excuse'
  OBVIOUS
<1>5. editor' = SetNodeMap(ed, {}) /\ excuse' = excuse \cup {x \in {"colours"} : editor.pending # <<>>}
  BY <1>1 DEF ClearsMap
<1>6. exc \subseteq exc2 /\ (ed.pending # <<>> => "colours" \in exc2)
  BY <1>1, <1>2, <1>4, <1>5 DEF SameColours
<1>7. EventsOK(SetNodeMap(ed, {}), runs, q, exc2)
  BY <1>3, <1>6, ClearKept
<1>8. EventsInv'
  BY <1>1, <1>4, <1>5, <1>7 DEF EventsInv
<1>9. excuse' \subseteq {"colours", "running"}
  BY <1>5, EditorParts
<1>10. editor'.dirty = ed.dirty /\ editor'.canvas = ed.canvas /\ editor'.deployed = ed.deployed
  BY <1>2, <1>5 DEF SetNodeMap, EditorRecord
<1> QED
  BY <1>2, <1>8, <1>9, <1>10

\* A click on Save keeps the invariant.
LEMMA SaveFlowStep ==
    ASSUME EditorInv, NEW c \in Click, SaveFlow(c)
    PROVE  EditorInv'
<1>1. /\ Begins(c, "save", "update") /\ editor' = editor /\ backend' = backend /\ inbox' = inbox
      /\ excuse' = excuse /\ editor.dirty
  BY DEF SaveFlow
<1>2. /\ clicks' \in [Click -> ClickRecord] /\ OthersStay(c)
      /\ clicks'[c].at = "update" /\ clicks'[c].shown = editor.canvas /\ clicks'[c].saved = TRUE
      /\ strayed' \in BOOLEAN
      /\ ~strayed' => ~strayed /\ InTouch /\ \A d \in Click : ~InFlight(d)
  BY <1>1, BeginsIs DEF Place
<1>3. EventsInv'
  BY <1>1, SameEvents
<1>4. RequestTypes'
  BY <1>1, <1>2 DEF EditorInv, RequestTypes
<1>5. ASSUME ~strayed' PROVE InTouch'
  <2>1. InStep(c)'
    BY <1>1, <1>2 DEF InStep
  <2>2. editor.deployed = backend.live
    BY <1>2, <1>5 DEF InTouch, InFlight
  <2> QED
    BY <1>1, <1>2, <1>5, <2>1, <2>2, OneInTouch DEF OthersStay
<1> QED
  BY <1>3, <1>4, <1>5 DEF EditorInv

\* A click on Deploy keeps it.
LEMMA DeployFlowStep ==
    ASSUME EditorInv, NEW c \in Click, DeployFlow(c)
    PROVE  EditorInv'
<1>1. backend' = backend /\ inbox' = inbox
  BY DEF DeployFlow
<1>2. CASE editor.dirty /\ Begins(c, "deploy", "update") /\ UNCHANGED <<editor, excuse>>
  <2>1. editor' = editor /\ excuse' = excuse
    BY <1>2
  <2>2. /\ clicks' \in [Click -> ClickRecord] /\ OthersStay(c)
        /\ clicks'[c].at = "update" /\ clicks'[c].shown = editor.canvas /\ clicks'[c].saved = TRUE
        /\ strayed' \in BOOLEAN
        /\ ~strayed' => ~strayed /\ InTouch /\ \A d \in Click : ~InFlight(d)
    BY <1>2, BeginsIs DEF Place
  <2>3. EventsInv'
    BY <1>1, <2>1, SameEvents
  <2>4. RequestTypes'
    BY <1>1, <2>1, <2>2 DEF EditorInv, RequestTypes
  <2>5. ASSUME ~strayed' PROVE InTouch'
    <3>1. InStep(c)'
      BY <1>1, <2>1, <2>2 DEF InStep
    <3>2. editor.deployed = backend.live
      BY <2>2, <2>5 DEF InTouch, InFlight
    <3> QED
      BY <1>1, <1>2, <2>1, <2>2, <2>5, <3>1, <3>2, OneInTouch DEF OthersStay
  <2> QED
    BY <2>3, <2>4, <2>5 DEF EditorInv
<1>3. CASE ~editor.dirty /\ Begins(c, "deploy", "start") /\ ClearsMap(editor)
  <2>1. /\ clicks' \in [Click -> ClickRecord] /\ OthersStay(c)
        /\ clicks'[c].at = "start" /\ clicks'[c].shown = editor.canvas /\ clicks'[c].saved = TRUE
        /\ strayed' \in BOOLEAN
        /\ ~strayed' => ~strayed /\ InTouch /\ \A d \in Click : ~InFlight(d)
    BY <1>3, BeginsIs DEF Place
  <2>2. PICK dirty \in BOOLEAN : dirty = FALSE
    OBVIOUS
  <2>3. ClearsMap([editor EXCEPT !.dirty = dirty])
    <3>1. editor \in EditorRecord
      BY EditorParts
    <3>2. editor = [editor EXCEPT !.dirty = dirty]
      BY <1>3, <2>2, <3>1 DEF EditorRecord
    <3> QED
      BY <1>3, <3>2, Zenon
  <2>4. /\ EventsInv' /\ excuse' \subseteq {"colours", "running"}
        /\ editor'.dirty = dirty /\ editor'.canvas = editor.canvas /\ editor'.deployed = editor.deployed
    BY <1>1, <2>3, ClearsMapStep
  <2>5. RequestTypes'
    BY <1>1, <2>1, <2>4 DEF EditorInv, RequestTypes
  <2>6. ASSUME ~strayed' PROVE InTouch'
    <3>1. editor.deployed = backend.live /\ backend.canvas = editor.canvas
      BY <1>3, <2>1, <2>6 DEF InTouch, InFlight
    <3>2. InStep(c)'
      BY <1>1, <2>1, <2>4, <3>1 DEF InStep
    <3> QED
      BY <1>1, <2>1, <2>4, <2>6, <3>1, <3>2, OneInTouch DEF OthersStay
  <2> QED
    BY <2>4, <2>5, <2>6 DEF EditorInv
<1> QED
  BY <1>2, <1>3 DEF DeployFlow

\* A click that asks the server for one thing.
LEMMA StopOrOpenStep ==
    ASSUME EditorInv, NEW c \in Click, StopFlow(c) \/ OpenPage(c)
    PROVE  EditorInv'
<1>1. PICK kind \in {"stop", "load"} : Begins(c, kind, kind)
  BY DEF StopFlow, OpenPage
<1>2. editor' = editor /\ backend' = backend /\ inbox' = inbox /\ excuse' = excuse
  BY DEF StopFlow, OpenPage
<1>3. /\ clicks' \in [Click -> ClickRecord] /\ OthersStay(c)
      /\ clicks'[c].at = kind
      /\ strayed' \in BOOLEAN
      /\ ~strayed' => ~strayed /\ InTouch /\ \A d \in Click : ~InFlight(d)
  BY <1>1, BeginsIs DEF Place
<1>4. EventsInv'
  BY <1>2, SameEvents
<1>5. RequestTypes'
  BY <1>2, <1>3 DEF EditorInv, RequestTypes
<1>6. ASSUME ~strayed' PROVE InTouch'
  <2>1. InStep(c)'
    BY <1>3 DEF InStep
  <2>2. editor.deployed = backend.live /\ (~editor.dirty => backend.canvas = editor.canvas)
    BY <1>3, <1>6 DEF InTouch, InFlight
  <2> QED
    BY <1>2, <1>3, <1>6, <2>1, <2>2, OneInTouch DEF OthersStay
<1> QED
  BY <1>4, <1>5, <1>6 DEF EditorInv

\* What a step of the server leaves of its record.
LEMMA ServerIs ==
    ASSUME EditorInv, NEW canvas \in 0 .. MaxEdits, NEW live \in BOOLEAN,
           backend' = [backend EXCEPT !.canvas = canvas, !.live = live]
    PROVE  /\ backend' \in BackendRecord /\ backend'.runs = backend.runs
           /\ backend'.canvas = canvas /\ backend'.live = live
BY EditorParts DEF BackendRecord

\* An update the server carries out keeps it.
LEMMA UpdateArrivesStep ==
    ASSUME EditorInv, NEW c \in Click, UpdateArrives(c)
    PROVE  EditorInv'
<1>1. /\ clicks[c].at = "update" /\ Moves(c, "updated") /\ editor' = editor /\ inbox' = inbox
      /\ excuse' = excuse /\ strayed' = strayed /\ backend' = [backend EXCEPT !.canvas = clicks[c].shown]
  BY DEF UpdateArrives
<1>2. /\ clicks' \in [Click -> ClickRecord] /\ OthersStay(c) /\ clicks'[c].at = "updated"
      /\ clicks'[c].shown = clicks[c].shown /\ clicks'[c].saved = clicks[c].saved
  BY <1>1, MovesTo DEF Place
<1>3. /\ backend' \in BackendRecord /\ backend'.runs = backend.runs
      /\ backend'.canvas = clicks[c].shown /\ backend'.live = backend.live
  <2>1. clicks[c].shown \in 0 .. MaxEdits /\ backend \in BackendRecord
    <3>1. clicks[c] \in ClickRecord
      BY EditorParts
    <3> QED
      BY <3>1, EditorParts DEF ClickRecord
  <2> QED
    BY <1>1, <2>1 DEF BackendRecord
<1>4. EventsInv'
  BY <1>1, <1>3, SameEvents
<1>5. RequestTypes'
  BY <1>1, <1>2, <1>3 DEF EditorInv, RequestTypes
<1>6. ASSUME ~strayed' PROVE InTouch'
  <2>1. /\ \A d \in Click : d # c => ~InFlight(d)
        /\ InStep(c) /\ editor.deployed = backend.live
    BY <1>1, <1>6, Acting DEF InFlight
  <2>2. clicks[c].shown = editor.canvas /\ clicks[c].saved
    BY <1>1, <2>1 DEF InStep
  <2>3. InStep(c)'
    BY <1>1, <1>2, <1>3, <2>2 DEF InStep
  <2> QED
    BY <1>1, <1>2, <1>3, <2>1, <2>2, <2>3, OneInTouch DEF OthersStay
<1> QED
  BY <1>4, <1>5, <1>6 DEF EditorInv

\* A start the server carries out keeps it.
LEMMA StartArrivesStep ==
    ASSUME EditorInv, NEW c \in Click, StartArrives(c)
    PROVE  EditorInv'
<1>1. clicks[c].at = "start" /\ editor' = editor /\ excuse' = excuse
  BY DEF StartArrives
<1>2. ~strayed => /\ \A d \in Click : d # c => ~InFlight(d)
                  /\ InStep(c) /\ editor.deployed = backend.live
                  /\ (clicks[c].saved => backend.canvas = clicks[c].shown)
                  /\ (~editor.dirty => backend.canvas = editor.canvas)
  <2> SUFFICES ASSUME ~strayed
               PROVE  /\ \A d \in Click : d # c => ~InFlight(d)
                      /\ InStep(c) /\ editor.deployed = backend.live
                      /\ (clicks[c].saved => backend.canvas = clicks[c].shown)
                      /\ (~editor.dirty => backend.canvas = editor.canvas)
    OBVIOUS
  <2>1. /\ \A d \in Click : d # c => ~InFlight(d)
        /\ InStep(c) /\ editor.deployed = backend.live /\ (~editor.dirty => backend.canvas = editor.canvas)
    BY <1>1, Acting DEF InFlight
  <2> QED
    BY <1>1, <2>1 DEF InStep
<1>3. CASE /\ backend' = [backend EXCEPT !.live = TRUE] /\ Moves(c, "deployed")
           /\ UNCHANGED <<inbox, strayed>>
  <2>1. /\ clicks' \in [Click -> ClickRecord] /\ OthersStay(c) /\ clicks'[c].at = "deployed"
        /\ clicks'[c].shown = clicks[c].shown /\ clicks'[c].saved = clicks[c].saved
    BY <1>3, MovesTo DEF Place
  <2>2. /\ backend' \in BackendRecord /\ backend'.runs = backend.runs
        /\ backend'.canvas = backend.canvas /\ backend'.live = TRUE
    BY <1>3, EditorParts DEF BackendRecord
  <2>3. EventsInv'
    BY <1>1, <1>3, <2>2, SameEvents
  <2>4. RequestTypes'
    BY <1>1, <1>3, <2>1, <2>2 DEF EditorInv, RequestTypes
  <2>5. ASSUME ~strayed' PROVE InTouch'
    <3>1. InStep(c)'
      BY <1>2, <1>3, <2>1, <2>2, <2>5 DEF InStep
    <3> QED
      BY <1>1, <1>2, <1>3, <2>1, <2>2, <2>5, <3>1, OneInTouch DEF OthersStay
  <2> QED
    BY <2>3, <2>4, <2>5 DEF EditorInv
<1>4. CASE BeginsRun(TRUE, FALSE) /\ Moves(c, "ran") /\ UNCHANGED strayed
  <2>1. /\ clicks' \in [Click -> ClickRecord] /\ OthersStay(c) /\ clicks'[c].at = "ran"
        /\ clicks'[c].shown = clicks[c].shown /\ clicks'[c].saved = clicks[c].saved
    BY <1>4, MovesTo DEF Place
  <2>2. /\ EventsInv' /\ backend' \in BackendRecord /\ Len(backend.runs)' <= MaxRuns
        /\ backend'.canvas = backend.canvas /\ backend'.live = FALSE
    BY <1>1, <1>4, BeginsRunStep
  <2>4. RequestTypes'
    BY <1>1, <1>4, <2>1, <2>2 DEF EditorInv, RequestTypes
  <2>5. ASSUME ~strayed' PROVE InTouch'
    <3>1. InStep(c)'
      BY <1>2, <1>4, <2>1, <2>2, <2>5 DEF InStep
    <3> QED
      BY <1>1, <1>2, <1>4, <2>1, <2>2, <2>5, <3>1, OneInTouch DEF OthersStay
  <2> QED
    BY <2>2, <2>4, <2>5 DEF EditorInv
<1>5. CASE /\ backend' = [backend EXCEPT !.live = FALSE] /\ IsDone(c)
           /\ strayed' = (strayed \/ backend.live) /\ UNCHANGED inbox
  <2>1. clicks' \in [Click -> ClickRecord] /\ OthersStay(c) /\ clicks'[c].at = "done"
    BY <1>5, IsDoneIs
  <2>2. /\ backend' \in BackendRecord /\ backend'.runs = backend.runs
        /\ backend'.canvas = backend.canvas /\ backend'.live = FALSE
    BY <1>5, EditorParts DEF BackendRecord
  <2>3. EventsInv'
    BY <1>1, <1>5, <2>2, SameEvents
  <2>4. RequestTypes'
    <3>1. strayed' \in BOOLEAN
      BY <1>5
    <3> QED
      BY <1>1, <2>1, <2>2, <3>1 DEF EditorInv, RequestTypes
  <2>5. ASSUME ~strayed' PROVE InTouch'
    <3>1. InStep(c)'
      BY <2>1 DEF InStep
    <3>2. ~strayed /\ ~backend.live
      BY <1>5, <2>5
    <3>3. editor.deployed = FALSE
      BY <1>2, <3>2, EditorParts
    <3> QED
      BY <1>1, <1>2, <2>1, <2>2, <3>1, <3>2, <3>3, OneInTouch DEF OthersStay
  <2> QED
    BY <2>3, <2>4, <2>5 DEF EditorInv
<1> QED
  BY <1>3, <1>4, <1>5 DEF StartArrives

\* A stop the server carries out keeps it.
LEMMA StopArrivesStep ==
    ASSUME EditorInv, NEW c \in Click, StopArrives(c)
    PROVE  EditorInv'
<1>1. /\ clicks[c].at = "stop" /\ Moves(c, "stopped") /\ editor' = editor /\ inbox' = inbox
      /\ excuse' = excuse /\ strayed' = strayed /\ backend' = [backend EXCEPT !.live = FALSE]
  BY DEF StopArrives
<1>2. clicks' \in [Click -> ClickRecord] /\ OthersStay(c) /\ clicks'[c].at = "stopped"
  BY <1>1, MovesTo DEF Place
<1>3. /\ backend' \in BackendRecord /\ backend'.runs = backend.runs
      /\ backend'.canvas = backend.canvas /\ backend'.live = FALSE
  BY <1>1, EditorParts DEF BackendRecord
<1>4. EventsInv'
  BY <1>1, <1>3, SameEvents
<1>5. RequestTypes'
  BY <1>1, <1>2, <1>3 DEF EditorInv, RequestTypes
<1>6. ASSUME ~strayed' PROVE InTouch'
  <2>1. /\ \A d \in Click : d # c => ~InFlight(d)
        /\ (~editor.dirty => backend.canvas = editor.canvas)
    BY <1>1, <1>6, Acting DEF InFlight
  <2>2. InStep(c)'
    BY <1>2, <1>3 DEF InStep
  <2> QED
    BY <1>1, <1>2, <1>3, <2>1, <2>2, OneInTouch DEF OthersStay
<1> QED
  BY <1>4, <1>5, <1>6 DEF EditorInv

\* A load the server answers keeps it.
LEMMA LoadArrivesStep ==
    ASSUME EditorInv, NEW c \in Click, LoadArrives(c)
    PROVE  EditorInv'
<1>1. /\ clicks[c].at = "load" /\ editor' = editor /\ inbox' = inbox /\ backend' = backend
      /\ excuse' = excuse /\ strayed' = strayed
      /\ clicks' = [clicks EXCEPT ![c].at = "loaded", ![c].shown = backend.canvas, ![c].saved = backend.live]
  BY DEF LoadArrives
<1>2. /\ clicks' \in [Click -> ClickRecord] /\ OthersStay(c) /\ clicks'[c].at = "loaded"
      /\ clicks'[c].shown = backend.canvas /\ clicks'[c].saved = backend.live
  <2>1. /\ clicks \in [Click -> ClickRecord] /\ clicks[c] \in ClickRecord
        /\ backend.canvas \in 0 .. MaxEdits /\ backend.live \in BOOLEAN
    BY EditorParts
  <2>2. PICK new \in ClickRecord :
            new = [clicks[c] EXCEPT !.at = "loaded", !.shown = backend.canvas, !.saved = backend.live]
    BY <2>1 DEF ClickRecord, Place
  <2>3. clicks' = [clicks EXCEPT ![c] = new]
    BY <1>1, <2>1, <2>2
  <2>4. new.at = "loaded" /\ new.shown = backend.canvas /\ new.saved = backend.live
    BY <2>1, <2>2 DEF ClickRecord
  <2> QED
    BY <2>1, <2>3, <2>4 DEF OthersStay
<1>3. EventsInv'
  BY <1>1, SameEvents
<1>4. RequestTypes'
  BY <1>1, <1>2 DEF EditorInv, RequestTypes
<1>5. ASSUME ~strayed' PROVE InTouch'
  <2>1. /\ \A d \in Click : d # c => ~InFlight(d)
        /\ (~editor.dirty => backend.canvas = editor.canvas) /\ editor.deployed = backend.live
    BY <1>1, <1>5, Acting DEF InFlight
  <2>2. InStep(c)'
    BY <1>1, <1>2 DEF InStep
  <2> QED
    BY <1>1, <1>2, <2>1, <2>2, OneInTouch DEF OthersStay
<1> QED
  BY <1>3, <1>4, <1>5 DEF EditorInv

\* The reply to an update, or its failure: the mark of the canvas is cleared or set.
LEMMA MarkStep ==
    ASSUME EditorInv, NEW dirty \in BOOLEAN, editor' = [editor EXCEPT !.dirty = dirty],
           backend'.runs = backend.runs, inbox' = inbox, excuse' = excuse
    PROVE  /\ EventsInv' /\ editor'.dirty = dirty /\ editor'.canvas = editor.canvas
           /\ editor'.deployed = editor.deployed
<1>1. /\ editor' \in EditorRecord /\ editor'.dirty = dirty /\ editor'.canvas = editor.canvas
      /\ editor'.deployed = editor.deployed
      /\ editor'.status = editor.status /\ editor'.nodeMap = editor.nodeMap /\ editor'.pending = editor.pending
      /\ editor'.resetTimer = editor.resetTimer /\ editor'.running = editor.running
  BY EditorParts DEF EditorRecord
<1> QED
  BY <1>1, StoresStep

\* An update's answer keeps it.
LEMMA UpdateReturnsStep ==
    ASSUME EditorInv, NEW c \in Click, UpdateReturns(c)
    PROVE  EditorInv'
<1>1. clicks[c].at = "updated" /\ backend' = backend /\ inbox' = inbox /\ strayed' = strayed
  BY DEF UpdateReturns
<1>2. ~strayed => /\ \A d \in Click : d # c => ~InFlight(d)
                  /\ editor.deployed = backend.live /\ backend.canvas = editor.canvas
                  /\ clicks[c].shown = editor.canvas
  <2> SUFFICES ASSUME ~strayed
               PROVE  /\ \A d \in Click : d # c => ~InFlight(d)
                      /\ editor.deployed = backend.live /\ backend.canvas = editor.canvas
                      /\ clicks[c].shown = editor.canvas
    OBVIOUS
  <2>1. (\A d \in Click : d # c => ~InFlight(d)) /\ InStep(c) /\ editor.deployed = backend.live
    BY <1>1, Acting DEF InFlight
  <2> QED
    BY <1>1, <2>1 DEF InStep
<1>3. PICK dirty \in BOOLEAN : dirty = FALSE
  OBVIOUS
<1>4. CASE editor' = [editor EXCEPT !.dirty = FALSE] /\ IsDone(c) /\ UNCHANGED excuse
  <2>1. clicks' \in [Click -> ClickRecord] /\ OthersStay(c) /\ clicks'[c].at = "done"
    BY <1>4, IsDoneIs
  <2>2. EventsInv' /\ editor'.canvas = editor.canvas /\ editor'.deployed = editor.deployed
    BY <1>1, <1>3, <1>4, MarkStep
  <2>3. RequestTypes'
    BY <1>1, <1>4, <2>1 DEF EditorInv, RequestTypes
  <2>4. ASSUME ~strayed' PROVE InTouch'
    <3>1. InStep(c)'
      BY <2>1 DEF InStep
    <3> QED
      BY <1>1, <1>2, <2>1, <2>2, <2>4, <3>1, OneInTouch DEF OthersStay
  <2> QED
    BY <2>2, <2>3, <2>4 DEF EditorInv
<1>5. CASE ClearsMap([editor EXCEPT !.dirty = FALSE]) /\ Moves(c, "start")
  <2>1. /\ clicks' \in [Click -> ClickRecord] /\ OthersStay(c) /\ clicks'[c].at = "start"
        /\ clicks'[c].shown = clicks[c].shown /\ clicks'[c].saved = clicks[c].saved
    BY <1>5, MovesTo DEF Place
  <2>2. /\ EventsInv' /\ excuse' \subseteq {"colours", "running"}
        /\ editor'.canvas = editor.canvas /\ editor'.deployed = editor.deployed
    BY <1>1, <1>3, <1>5, ClearsMapStep
  <2>3. RequestTypes'
    BY <1>1, <2>1, <2>2 DEF EditorInv, RequestTypes
  <2>4. ASSUME ~strayed' PROVE InTouch'
    <3>1. InStep(c)'
      BY <1>1, <1>2, <2>1, <2>4 DEF InStep
    <3> QED
      BY <1>1, <1>2, <2>1, <2>2, <2>4, <3>1, OneInTouch DEF OthersStay
  <2> QED
    BY <2>2, <2>3, <2>4 DEF EditorInv
<1> QED
  BY <1>4, <1>5 DEF UpdateReturns

\* An update that failed keeps it.
LEMMA UpdateFailsStep ==
    ASSUME EditorInv, NEW c \in Click, UpdateFails(c)
    PROVE  EditorInv'
<1>1. clicks[c].at \in {"update", "updated"} /\ backend' = backend /\ inbox' = inbox /\ strayed' = strayed
  BY DEF UpdateFails
<1>2. ~strayed => (\A d \in Click : d # c => ~InFlight(d)) /\ editor.deployed = backend.live
  BY <1>1, Acting DEF InFlight
<1>3. PICK dirty \in BOOLEAN : dirty = TRUE
  OBVIOUS
<1>4. CASE editor' = [editor EXCEPT !.dirty = TRUE] /\ IsDone(c) /\ UNCHANGED excuse
  <2>1. clicks' \in [Click -> ClickRecord] /\ OthersStay(c) /\ clicks'[c].at = "done"
    BY <1>4, IsDoneIs
  <2>2. EventsInv' /\ editor'.dirty = TRUE /\ editor'.deployed = editor.deployed
    BY <1>1, <1>3, <1>4, MarkStep
  <2>3. RequestTypes'
    BY <1>1, <1>4, <2>1 DEF EditorInv, RequestTypes
  <2>4. ASSUME ~strayed' PROVE InTouch'
    <3>1. InStep(c)'
      BY <2>1 DEF InStep
    <3> QED
      BY <1>1, <1>2, <2>1, <2>2, <2>4, <3>1, OneInTouch DEF OthersStay
  <2> QED
    BY <2>2, <2>3, <2>4 DEF EditorInv
<1>5. CASE /\ ClearsMap([editor EXCEPT !.dirty = TRUE])
           /\ clicks' = [clicks EXCEPT ![c].at = "start", ![c].saved = FALSE]
  <2>1. clicks' \in [Click -> ClickRecord] /\ OthersStay(c) /\ clicks'[c].at = "start" /\ clicks'[c].saved = FALSE
    <3>1. clicks \in [Click -> ClickRecord] /\ clicks[c] \in ClickRecord
      BY EditorParts
    <3>2. PICK new \in ClickRecord : new = [clicks[c] EXCEPT !.at = "start", !.saved = FALSE]
      BY <3>1 DEF ClickRecord, Place
    <3>3. clicks' = [clicks EXCEPT ![c] = new]
      BY <1>5, <3>1, <3>2
    <3>4. new.at = "start" /\ new.saved = FALSE
      BY <3>1, <3>2 DEF ClickRecord
    <3> QED
      BY <3>1, <3>3, <3>4 DEF OthersStay
  <2>2. /\ EventsInv' /\ excuse' \subseteq {"colours", "running"}
        /\ editor'.dirty = TRUE /\ editor'.deployed = editor.deployed
    BY <1>1, <1>3, <1>5, ClearsMapStep
  <2>3. RequestTypes'
    BY <1>1, <2>1, <2>2 DEF EditorInv, RequestTypes
  <2>4. ASSUME ~strayed' PROVE InTouch'
    <3>1. InStep(c)'
      BY <2>1 DEF InStep
    <3> QED
      BY <1>1, <1>2, <2>1, <2>2, <2>4, <3>1, OneInTouch DEF OthersStay
  <2> QED
    BY <2>2, <2>3, <2>4 DEF EditorInv
<1> QED
  BY <1>4, <1>5 DEF UpdateFails

\* A start's answer keeps it.
LEMMA StartReturnsStep ==
    ASSUME EditorInv, NEW c \in Click, StartReturns(c)
    PROVE  EditorInv'
<1>1. /\ clicks[c].at \in {"ran", "deployed"} /\ IsDone(c) /\ backend' = backend /\ inbox' = inbox
      /\ excuse' = excuse /\ strayed' = strayed
      /\ editor' = SetNodeMap([editor EXCEPT !.deployed = (clicks[c].at = "deployed")], CanvasNode)
  BY DEF StartReturns
<1>2. clicks' \in [Click -> ClickRecord] /\ OthersStay(c) /\ clicks'[c].at = "done"
  BY <1>1, IsDoneIs
<1>3. PICK deployed \in BOOLEAN : deployed = (clicks[c].at = "deployed")
  OBVIOUS
<1>4. PICK ed, runs, q, exc : /\ ed = [editor EXCEPT !.deployed = deployed] /\ runs = backend.runs
                              /\ q = inbox /\ exc = excuse
  OBVIOUS
<1>5. /\ editor \in EditorRecord /\ ed \in EditorRecord /\ SameColours(editor, ed) /\ ed.dirty = editor.dirty
      /\ ed.canvas = editor.canvas /\ ed.deployed = deployed
  <2>1. editor \in EditorRecord
    BY EditorParts
  <2> QED
    BY <1>4, <2>1 DEF EditorRecord, SameColours
<1>6. EventsOK(ed, runs, q, exc)
  <2>1. PICK old : old = editor /\ EventsOK(old, runs, q, exc)
    BY <1>4, EditorParts
  <2>2. SameColours(old, ed)
    BY <1>5, <2>1 DEF SameColours
  <2> QED
    BY <1>5, <2>1, <2>2, OthersKept
<1>7. editor' = SetNodeMap(ed, CanvasNode)
  BY <1>1, <1>3, <1>4
<1>8. EventsOK(SetNodeMap(ed, CanvasNode), runs, q, exc)
  BY <1>6, MapKept
<1>9. EventsInv'
  BY <1>1, <1>4, <1>7, <1>8 DEF EventsInv
<1>10. editor'.dirty = editor.dirty /\ editor'.canvas = editor.canvas /\ editor'.deployed = deployed
  BY <1>5, <1>7 DEF SetNodeMap, EditorRecord
<1>11. RequestTypes'
  BY <1>1, <1>2 DEF EditorInv, RequestTypes
<1>12. ASSUME ~strayed' PROVE InTouch'
  <2>1. (\A d \in Click : d # c => ~InFlight(d)) /\ InStep(c) /\ (~editor.dirty => backend.canvas = editor.canvas)
    BY <1>1, <1>12, Acting DEF InFlight
  <2>2. deployed = backend.live
    <3>1. backend.live \in BOOLEAN
      BY EditorParts
    <3> QED
      BY <1>1, <1>3, <2>1, <3>1 DEF InStep
  <2>3. InStep(c)'
    BY <1>2 DEF InStep
  <2> QED
    BY <1>1, <1>2, <1>10, <2>1, <2>2, <2>3, OneInTouch DEF OthersStay
<1> QED
  BY <1>9, <1>11, <1>12 DEF EditorInv

\* A stop's answer keeps it.
LEMMA StopReturnsStep ==
    ASSUME EditorInv, NEW c \in Click, StopReturns(c)
    PROVE  EditorInv'
<1>1. /\ clicks[c].at = "stopped" /\ IsDone(c) /\ backend' = backend /\ inbox' = inbox
      /\ excuse' = excuse /\ strayed' = strayed /\ editor' = [editor EXCEPT !.deployed = FALSE]
  BY DEF StopReturns
<1>2. clicks' \in [Click -> ClickRecord] /\ OthersStay(c) /\ clicks'[c].at = "done"
  BY <1>1, IsDoneIs
<1>3. /\ editor' \in EditorRecord /\ editor'.dirty = editor.dirty /\ editor'.canvas = editor.canvas
      /\ editor'.deployed = FALSE
      /\ editor'.status = editor.status /\ editor'.nodeMap = editor.nodeMap /\ editor'.pending = editor.pending
      /\ editor'.resetTimer = editor.resetTimer /\ editor'.running = editor.running
  BY <1>1, EditorParts DEF EditorRecord
<1>4. EventsInv'
  <2>1. backend'.runs = backend.runs
    BY <1>1
  <2> QED
    BY <1>1, <1>3, <2>1, StoresStep
<1>5. RequestTypes'
  BY <1>1, <1>2 DEF EditorInv, RequestTypes
<1>6. ASSUME ~strayed' PROVE InTouch'
  <2>1. (\A d \in Click : d # c => ~InFlight(d)) /\ InStep(c) /\ (~editor.dirty => backend.canvas = editor.canvas)
    BY <1>1, <1>6, Acting DEF InFlight
  <2>2. backend.live = FALSE
    <3>1. backend.live \in BOOLEAN
      BY EditorParts
    <3> QED
      BY <1>1, <2>1, <3>1 DEF InStep
  <2>3. InStep(c)'
    BY <1>2 DEF InStep
  <2> QED
    BY <1>1, <1>2, <1>3, <2>1, <2>2, <2>3, OneInTouch DEF OthersStay
<1> QED
  BY <1>4, <1>5, <1>6 DEF EditorInv

\* A load's answer keeps it.
LEMMA LoadReturnsStep ==
    ASSUME EditorInv, NEW c \in Click, LoadReturns(c)
    PROVE  EditorInv'
<1>1. /\ clicks[c].at = "loaded" /\ IsDone(c) /\ backend' = backend /\ inbox' = inbox
      /\ excuse' = excuse \cup {"colours"} /\ strayed' = strayed
  BY DEF LoadReturns
<1>2. PICK stored \in Colouring :
          editor' = [editor EXCEPT !.canvas = clicks[c].shown, !.status = stored,
                                   !.deployed = clicks[c].saved, !.dirty = FALSE]
  BY DEF LoadReturns, Colouring
<1>3. clicks' \in [Click -> ClickRecord] /\ OthersStay(c) /\ clicks'[c].at = "done"
  BY <1>1, IsDoneIs
<1>4. PICK shown \in 0 .. MaxEdits, saved \in BOOLEAN : shown = clicks[c].shown /\ saved = clicks[c].saved
  <2>1. clicks[c] \in ClickRecord
    BY EditorParts
  <2> QED
    BY <2>1 DEF ClickRecord
<1>5. /\ editor' \in EditorRecord /\ editor'.dirty = FALSE /\ editor'.canvas = shown /\ editor'.deployed = saved
      /\ editor'.nodeMap = editor.nodeMap /\ editor'.pending = editor.pending
      /\ editor'.running = editor.running
  <2>1. editor' = [editor EXCEPT !.canvas = shown, !.status = stored, !.deployed = saved, !.dirty = FALSE]
    BY <1>2, <1>4
  <2> QED
    BY <2>1, EditorParts DEF EditorRecord
<1>6. EventsInv'
  <2>1. PICK ed, runs, q, exc, ed2, exc2 :
            /\ ed = editor /\ runs = backend.runs /\ q = inbox /\ exc = excuse /\ ed2 = editor' /\ exc2 = excuse'
            /\ EventsOK(ed, runs, q, exc)
    BY EditorParts
  <2>2. EventsOK(ed2, runs, q, exc2)
    <3>1. "colours" \in exc2 /\ exc \subseteq exc2
      BY <1>1, <2>1
    <3>2. Ending(ed, runs, q) => Ending(ed2, runs, q)
      BY <1>5, <2>1 DEF Ending
    <3> QED
      BY <1>5, <2>1, <3>1, <3>2 DEF EventsOK
  <2> QED
    BY <1>1, <2>1, <2>2 DEF EventsInv
<1>7. RequestTypes'
  BY <1>1, <1>3 DEF EditorInv, RequestTypes
<1>8. ASSUME ~strayed' PROVE InTouch'
  <2>1. (\A d \in Click : d # c => ~InFlight(d)) /\ InStep(c)
    BY <1>1, <1>8, Acting DEF InFlight
  <2>2. shown = backend.canvas /\ saved = backend.live
    BY <1>1, <1>4, <2>1 DEF InStep
  <2>3. InStep(c)'
    BY <1>3 DEF InStep
  <2> QED
    BY <1>1, <1>3, <1>5, <2>1, <2>2, <2>3, OneInTouch DEF OthersStay
<1> QED
  BY <1>6, <1>7, <1>8 DEF EditorInv

\* Any other request that fails keeps it.
LEMMA RequestFailsStep ==
    ASSUME EditorInv, NEW c \in Click, RequestFails(c)
    PROVE  EditorInv'
<1>1. /\ InFlight(c) /\ clicks[c].at \notin {"update", "updated"} /\ IsDone(c)
      /\ editor' = editor /\ backend' = backend /\ inbox' = inbox /\ excuse' = excuse
      /\ strayed' = (strayed \/ clicks[c].at \in {"ran", "deployed", "stopped"})
  BY DEF RequestFails
<1>2. clicks' \in [Click -> ClickRecord] /\ OthersStay(c) /\ clicks'[c].at = "done"
  BY <1>1, IsDoneIs
<1>3. EventsInv'
  BY <1>1, SameEvents
<1>4. RequestTypes'
  <2>1. strayed' \in BOOLEAN
    BY <1>1
  <2> QED
    BY <1>1, <1>2, <2>1 DEF EditorInv, RequestTypes
<1>5. ASSUME ~strayed' PROVE InTouch'
  <2>1. ~strayed /\ clicks[c].at \notin {"ran", "deployed", "stopped"}
    BY <1>1, <1>5
  <2>2. (\A d \in Click : d # c => ~InFlight(d)) /\ (~editor.dirty => backend.canvas = editor.canvas)
        /\ editor.deployed = backend.live
    BY <1>1, <2>1, Acting
  <2>3. InStep(c)'
    BY <1>2 DEF InStep
  <2> QED
    BY <1>1, <1>2, <2>2, <2>3, OneInTouch DEF OthersStay
<1> QED
  BY <1>3, <1>4, <1>5 DEF EditorInv

\* Every step of the editor and its server keeps it.
LEMMA EditorStep ==
    ASSUME EditorInv, EditorNext
    PROVE  EditorInv'
<1>1. CASE RunElsewhere
  BY <1>1, RunElsewhereStep
<1>2. CASE OnMessage
  BY <1>2, MessageStep
<1>3. CASE OnClose
  BY <1>3, CloseStep
<1>4. CASE ResetTimerFires
  BY <1>4, TimerStep
<1>5. CASE EditCanvas
  BY <1>5, EditStep
<1>6. CASE \E r \in DOMAIN backend.runs : RunIsOver(r) \/ \E n \in CanvasNode : NodeGoesOn(r, n)
  BY <1>6, EndStep, NodeStep
<1>7. CASE \E c \in Click :
            \/ SaveFlow(c) \/ DeployFlow(c) \/ StopFlow(c) \/ OpenPage(c)
            \/ UpdateArrives(c) \/ StartArrives(c) \/ StopArrives(c) \/ LoadArrives(c)
            \/ UpdateReturns(c) \/ UpdateFails(c) \/ StartReturns(c) \/ StopReturns(c)
            \/ LoadReturns(c) \/ RequestFails(c)
  BY <1>7, SaveFlowStep, DeployFlowStep, StopOrOpenStep, UpdateArrivesStep, StartArrivesStep,
     StopArrivesStep, LoadArrivesStep, UpdateReturnsStep, UpdateFailsStep, StartReturnsStep,
     StopReturnsStep, LoadReturnsStep, RequestFailsStep
<1> QED
  BY <1>1, <1>2, <1>3, <1>4, <1>5, <1>6, <1>7 DEF EditorNext

\* So does a step that changes nothing.
LEMMA EditorStutter ==
    ASSUME EditorInv, UNCHANGED editorVars
    PROVE  EditorInv'
<1>1. /\ editor' = editor /\ backend' = backend /\ inbox' = inbox /\ clicks' = clicks /\ excuse' = excuse
      /\ strayed' = strayed
  BY DEF editorVars
<1>2. EventsInv'
  BY <1>1, SameEvents
<1>3. RequestTypes' /\ Untouched
  BY <1>1 DEF EditorInv, RequestTypes, Untouched
<1> QED
  BY <1>1, <1>2, <1>3, UntouchedInTouch DEF EditorInv

\* What the page knows of the run and of its canvas, and what is still under
\* way: with it, the page is truthful once nothing is.
THEOREM EditorInvariant == EditorSpec => []EditorInv
<1>1. EditorInit => EditorInv
  BY EditorInitially
<1>2. EditorInv /\ [EditorNext]_editorVars => EditorInv'
  BY EditorStep, EditorStutter
<1> QED
  BY <1>1, <1>2, PTL DEF EditorSpec

\* The invariant gives every variable its type.
LEMMA EditorInvTypes == EditorInv => EditorTypeOK
<1> SUFFICES ASSUME EditorInv PROVE EditorTypeOK
  OBVIOUS
<1>1. \A c \in Click : clicks[c] \in ClickRecord
  BY EditorParts
<1>2. \A c \in Click : clicks[c].at \in Place
  BY <1>1 DEF ClickRecord
<1>3. editor.status \in [CanvasNode -> Colour]
  BY EditorParts DEF Colouring
<1> QED
  BY <1>2, <1>3, EditorParts DEF EditorTypeOK, Place

\* The type invariant of the editor, for any bounds.
THEOREM EditorTypesHold == EditorSpec => []EditorTypeOK
BY EditorInvariant, EditorInvTypes, PTL

\* The invariant makes the editor truthful.
LEMMA EditorInvTruthful == EditorInv => EditorIsTruthful
<1> SUFFICES ASSUME EditorInv PROVE EditorIsTruthful
  OBVIOUS
<1>1. PICK ed, runs, q, exc : /\ ed = editor /\ runs = backend.runs /\ q = inbox /\ exc = excuse
                              /\ runs \in Seq(RunRecord) /\ EventsOK(ed, runs, q, exc) /\ ed \in EditorRecord
                              /\ q \in Seq(EditorEvent)
  BY EditorParts
<1>2. ShowsTheRun
  <2> SUFFICES ASSUME "colours" \notin exc, ed.nodeMap # {}, q = <<>>, Len(runs) > 0
               PROVE  \/ ed.status = runs[Len(runs)].nodes
                      \/ ~runs[Len(runs)].going /\ ~ed.resetTimer /\ ed.status = AllIdle
    BY <1>1 DEF ShowsTheRun, Going
  <2>1. PICK last : last = Len(runs)
    OBVIOUS
  <2>2. Heard(ed, runs, q) /\ Begun(runs, q) /\ ed.pending = <<>>
    <3>1. Begun(runs, q)
      BY DEF Begun
    <3> QED
      BY <1>1, <3>1 DEF EventsOK
  <2>3. CASE Rested(ed, runs, q)
    BY <2>3 DEF Rested
  <2>4. CASE Leads(ed.status, runs[last].nodes, ed.pending \o q, last)
    <3>1. ed.pending \o q = <<>>
      BY <2>2
    <3>2. \A n \in CanvasNode : ed.status[n] = runs[last].nodes[n]
      <4>1. \A n \in CanvasNode : LeadsOne(ed.status[n], runs[last].nodes[n], <<>>, last, n)
        BY <2>4, <3>1 DEF Leads
      <4>2. DOMAIN <<>> = {}
        OBVIOUS
      <4> QED
        BY <4>1, <4>2 DEF LeadsOne
    <3>3. ed.status \in [CanvasNode -> Colour] /\ runs[last].nodes \in [CanvasNode -> Colour]
      <4>1. runs[last] \in RunRecord
        BY <1>1, <2>1
      <4> QED
        BY <1>1, <4>1 DEF RunRecord, EditorRecord, Colouring
    <3> QED
      BY <2>1, <3>2, <3>3
  <2> QED
    BY <2>1, <2>2, <2>3, <2>4 DEF Heard
<1>3. RunningEnds
  <2>1. "running" \notin exc => Ending(ed, runs, q)
    BY <1>1 DEF EventsOK
  <2> QED
    BY <1>1, <2>1 DEF RunningEnds, Ending, Going, IsEnd
<1>4. SavedAndDeployed
  <2> SUFFICES ASSUME InTouch
               PROVE  /\ ~editor.dirty /\ ~Busy => backend.canvas = editor.canvas
                      /\ \A c \in Click : clicks[c].at \in {"ran", "deployed"} /\ clicks[c].saved =>
                              backend.canvas = clicks[c].shown
                      /\ ~Busy => editor.deployed = backend.live
    BY DEF EditorInv, SavedAndDeployed
  <2>1. \A c \in Click : clicks[c].at \in {"ran", "deployed"} /\ clicks[c].saved =>
            backend.canvas = clicks[c].shown
    BY DEF InTouch, InStep
  <2>2. ~Busy => \A c \in Click : clicks[c].at \in {"none", "done"}
    BY DEF Busy, InFlight
  <2> QED
    BY <2>1, <2>2 DEF InTouch
<1> QED
  BY <1>2, <1>3, <1>4 DEF EditorIsTruthful

\* What the editor shows of the flow and of its last run is so, whatever the
\* order in which the replies and the events reach it.
THEOREM EditorTruthful == EditorSpec => []EditorIsTruthful
BY EditorInvariant, EditorInvTruthful, PTL
====
