------------------------------ MODULE EditorRun ------------------------------
(***************************************************************************)
(* The editor with one flow open: what its buttons do by HTTP, and what the *)
(* events of the engine do to the colours of the nodes.  Both meet in the   *)
(* stores of the page, in an order that neither of them controls: a reply   *)
(* and the events of the run it started travel on different connections.    *)
(***************************************************************************)
EXTENDS Naturals, Sequences, FiniteSets, SequencesExt

CONSTANTS CanvasNode,           \* the nodes of the flow
          MaxClicks,            \* on Save, Deploy and Stop, openings of the page included
          MaxEdits, MaxRuns,
          MaxTogether,          \* clicks, edits and runs
          MaxInFlight           \* events under way

ASSUME EditorAssumption ==
    /\ CanvasNode # {} /\ {MaxClicks, MaxEdits, MaxRuns, MaxTogether} \subseteq Nat
    /\ MaxInFlight \in Nat \ {0}

VARIABLES editor,       \* the flow store and the engine store
          backend,      \* the stored canvas, whether hooks are live, the runs
          inbox,        \* events on their way
          clicks,       \* each click and its request
          excuse,       \* history: what the page may show wrong, and why
          strayed       \* history: calls or edits overlapped, or the server did
                        \* what the page was not told
editorVars == <<editor, backend, inbox, clicks, excuse, strayed>>

Click == 1..MaxClicks

\* "over" stands for success, error and disabled.
Colour == {"idle", "running", "over"}
AllIdle == [n \in CanvasNode |-> "idle"]
Clicked(at) == [kind |-> "none", at |-> at, shown |-> 0, saved |-> TRUE]

EditorTypeOK ==
    /\ editor.status \in [CanvasNode -> Colour]
    /\ editor.nodeMap \in {{}, CanvasNode}
    /\ editor.canvas \in 0..MaxEdits /\ backend.canvas \in 0..MaxEdits
    /\ Len(backend.runs) <= MaxRuns
    /\ excuse \subseteq {"colours", "running"}
    /\ \A c \in Click : clicks[c].at \in {"none", "update", "updated", "start", "ran", "deployed",
                                          "stop", "stopped", "load", "loaded", "done"}

EditorInit ==
    /\ editor = [status |-> AllIdle, nodeMap |-> {}, pending |-> <<>>, resetTimer |-> FALSE,
                 running |-> FALSE, dirty |-> FALSE, deployed |-> FALSE, canvas |-> 0, edits |-> 0]
    /\ backend = [canvas |-> 0, live |-> FALSE, runs |-> <<>>]
    /\ inbox = <<>> /\ clicks = [c \in Click |-> Clicked("none")]
    /\ excuse = {} /\ strayed = FALSE

----------------------------------------------------------------------------
(* The runs, of this flow by this page, by a hook or by another page, or of  *)
(* another flow of the user.                                                 *)

Sends(event) ==
    /\ Len(inbox) < MaxInFlight
    /\ inbox' = Append(inbox, event)

Going(r) == backend.runs[r].going

Together == Len(backend.runs) + editor.edits + Cardinality({c \in Click : clicks[c].at # "none"})

BeginsRun(own, live) ==
    /\ Len(backend.runs) < MaxRuns /\ Together < MaxTogether
    /\ backend' = [backend EXCEPT !.live = live,
                                  !.runs = Append(@, [own |-> own, going |-> TRUE, nodes |-> AllIdle])]
    /\ Sends([type |-> "flow_started", run |-> Len(backend.runs) + 1])

RunElsewhere ==
    /\ \E own \in BOOLEAN : BeginsRun(own, backend.live)
    /\ UNCHANGED <<editor, clicks, excuse, strayed>>

NodeGoesOn(r, n) ==
    /\ Going(r) /\ backend.runs[r].own
    /\ \E now \in CASE backend.runs[r].nodes[n] = "idle" -> {"running", "over"}
                    [] backend.runs[r].nodes[n] = "running" -> {"over"}
                    [] OTHER -> {} :
        /\ backend' = [backend EXCEPT !.runs[r].nodes[n] = now]
        /\ Sends([type |-> "node", run |-> r, node |-> n, now |-> now])
    /\ UNCHANGED <<editor, clicks, excuse, strayed>>

RunIsOver(r) ==
    /\ Going(r)
    /\ backend' = [backend EXCEPT !.runs[r].going = FALSE]
    /\ Sends([type |-> "flow_ended", run |-> r])
    /\ UNCHANGED <<editor, clicks, excuse, strayed>>

----------------------------------------------------------------------------
(* useEngineSocket.                                                          *)

ApplyNodeEvent(status, event, nodeMap) ==
    IF event.node \in nodeMap THEN [status EXCEPT ![event.node] = event.now] ELSE status

ResetAllNodeStatus(ed) == [ed EXCEPT !.status = AllIdle]

Replayed(status, events, nodeMap) ==
    FoldLeft(LAMBDA st, event : ApplyNodeEvent(st, event, nodeMap), status, events)

\* Faulty: the events that came early are forgotten.
SetNodeMapOnly(ed, nodeMap) == [ed EXCEPT !.nodeMap = nodeMap, !.pending = <<>>]

SetNodeMap(ed, nodeMap) ==
    [ed EXCEPT !.nodeMap = nodeMap, !.pending = <<>>,
               !.status = Replayed(@, ed.pending, nodeMap)]

AddLog(ed, event) ==
    CASE event.type = "flow_started" ->
            ResetAllNodeStatus([ed EXCEPT !.running = TRUE, !.pending = <<>>])
      [] event.type = "flow_ended" -> [ed EXCEPT !.running = FALSE, !.resetTimer = TRUE]
      [] event.type = "node" /\ ed.nodeMap = {} -> [ed EXCEPT !.pending = Append(@, event)]
      [] OTHER -> [ed EXCEPT !.status = ApplyNodeEvent(@, event, ed.nodeMap)]

\* A run is not alone if another one is under way, or some of its events are.
Alone(r) ==
    /\ \A q \in DOMAIN backend.runs : q # r => ~Going(q)
    /\ \A i \in DOMAIN inbox : inbox[i].run = r

OnMessage ==
    /\ inbox # <<>>
    /\ LET event == Head(inbox) IN
       /\ editor' = AddLog(editor, event)
       /\ excuse' = IF event.type # "flow_started" THEN excuse
                    ELSE {x \in {"colours"} : ~Alone(event.run)}
    /\ inbox' = Tail(inbox)
    /\ UNCHANGED <<backend, clicks, strayed>>

\* The socket closes: what is sent until it is open again is lost, and nobody
\* asks for it.
OnClose ==
    /\ inbox # <<>> /\ inbox' = <<>> /\ excuse' = excuse \cup {"colours", "running"}
    /\ UNCHANGED <<editor, backend, clicks, strayed>>

\* Four seconds after the end of a run; the next start does not clear it.
ResetTimerFires ==
    /\ editor.resetTimer
    /\ editor' = ResetAllNodeStatus([editor EXCEPT !.resetTimer = FALSE])
    /\ IF editor.running \/ editor.pending # <<>> THEN excuse' = excuse \cup {"colours"}
       ELSE UNCHANGED excuse
    /\ UNCHANGED <<backend, inbox, clicks, strayed>>

----------------------------------------------------------------------------
(* The buttons.                                                              *)

InFlight(c) == clicks[c].at \notin {"none", "done"}
Busy == \E c \in Click : InFlight(c)
Moves(c, at) == clicks' = [clicks EXCEPT ![c].at = at]
IsDone(c) == clicks' = [clicks EXCEPT ![c] = Clicked("done")]

Begins(c, kind, at) ==
    /\ Together < MaxTogether
    /\ clicks[c].at = "none" /\ \A d \in 1..c - 1 : clicks[d].at # "none"
    /\ clicks' = [clicks EXCEPT ![c] = [kind |-> kind, at |-> at, shown |-> editor.canvas,
                                        saved |-> TRUE]]
    /\ strayed' = (strayed \/ Busy)

\* A change of the canvas by the user.
EditCanvas ==
    /\ editor.edits < MaxEdits /\ Together < MaxTogether
    /\ editor' = [editor EXCEPT !.edits = @ + 1, !.canvas = editor.edits + 1, !.dirty = TRUE]
    /\ strayed' = (strayed \/ Busy)
    /\ UNCHANGED <<backend, inbox, clicks, excuse>>

\* The map is cleared before the start, and what waits for it goes with it.
ClearsMap(ed) ==
    /\ editor' = SetNodeMap(ed, {})
    /\ excuse' = excuse \cup {x \in {"colours"} : editor.pending # <<>>}

SaveFlow(c) ==
    /\ editor.dirty /\ Begins(c, "save", "update")
    /\ UNCHANGED <<editor, backend, inbox, excuse>>

DeployFlow(c) ==
    /\ ~editor.running
    /\ \/ editor.dirty /\ Begins(c, "deploy", "update") /\ UNCHANGED <<editor, excuse>>
       \/ ~editor.dirty /\ Begins(c, "deploy", "start") /\ ClearsMap(editor)
    /\ UNCHANGED <<backend, inbox>>

StopFlow(c) ==
    /\ editor.running \/ editor.deployed
    /\ Begins(c, "stop", "stop")
    /\ UNCHANGED <<editor, backend, inbox, excuse>>

\* The page is opened, maybe after it was left; the stores outlive it.
OpenPage(c) ==
    /\ Begins(c, "load", "load")
    /\ UNCHANGED <<editor, backend, inbox, excuse>>

\* The requests at the server.
UpdateArrives(c) ==
    /\ clicks[c].at = "update" /\ Moves(c, "updated")
    /\ backend' = [backend EXCEPT !.canvas = clicks[c].shown]
    /\ UNCHANGED <<editor, inbox, excuse, strayed>>

\* A flow with hooks goes live; another one loses its old hooks and is run,
\* unless the engine refuses it then.
StartArrives(c) ==
    /\ clicks[c].at = "start"
    /\ \/ /\ backend' = [backend EXCEPT !.live = TRUE] /\ Moves(c, "deployed")
          /\ UNCHANGED <<inbox, strayed>>
       \/ BeginsRun(TRUE, FALSE) /\ Moves(c, "ran") /\ UNCHANGED strayed
       \/ /\ backend' = [backend EXCEPT !.live = FALSE] /\ IsDone(c)
          /\ strayed' = (strayed \/ backend.live) /\ UNCHANGED inbox
    /\ UNCHANGED <<editor, excuse>>

StopArrives(c) ==
    /\ clicks[c].at = "stop" /\ Moves(c, "stopped")
    /\ backend' = [backend EXCEPT !.live = FALSE]
    /\ UNCHANGED <<editor, inbox, excuse, strayed>>

LoadArrives(c) ==
    /\ clicks[c].at = "load"
    /\ clicks' = [clicks EXCEPT ![c].at = "loaded", ![c].shown = backend.canvas,
                                ![c].saved = backend.live]
    /\ UNCHANGED <<editor, backend, inbox, excuse, strayed>>

\* The replies.
UpdateReturns(c) ==
    /\ clicks[c].at = "updated"
    /\ LET saved == [editor EXCEPT !.dirty = FALSE] IN
       \/ clicks[c].kind = "save" /\ editor' = saved /\ IsDone(c) /\ UNCHANGED excuse
       \/ clicks[c].kind = "deploy" /\ ClearsMap(saved) /\ Moves(c, "start")
    /\ UNCHANGED <<backend, inbox, strayed>>

\* The error is shown, and a deploy goes on with what is stored.
UpdateFails(c) ==
    /\ clicks[c].at \in {"update", "updated"}
    /\ LET unsaved == [editor EXCEPT !.dirty = TRUE] IN
       \/ clicks[c].kind = "save" /\ editor' = unsaved /\ IsDone(c) /\ UNCHANGED excuse
       \/ /\ clicks[c].kind = "deploy" /\ ClearsMap(unsaved)
          /\ clicks' = [clicks EXCEPT ![c].at = "start", ![c].saved = FALSE]
    /\ UNCHANGED <<backend, inbox, strayed>>

StartReturns(c) ==
    /\ clicks[c].at \in {"ran", "deployed"} /\ IsDone(c)
    /\ editor' = SetNodeMap([editor EXCEPT !.deployed = clicks[c].at = "deployed"], CanvasNode)
    /\ UNCHANGED <<backend, inbox, excuse, strayed>>

StopReturns(c) ==
    /\ clicks[c].at = "stopped" /\ IsDone(c)
    /\ editor' = [editor EXCEPT !.deployed = FALSE]
    /\ UNCHANGED <<backend, inbox, excuse, strayed>>

\* A canvas is stored with the colours it had when it was saved.
LoadReturns(c) ==
    /\ clicks[c].at = "loaded" /\ IsDone(c)
    /\ \E stored \in [CanvasNode -> Colour] :
        editor' = [editor EXCEPT !.canvas = clicks[c].shown, !.status = stored,
                                 !.deployed = clicks[c].saved, !.dirty = FALSE]
    /\ excuse' = excuse \cup {"colours"}
    /\ UNCHANGED <<backend, inbox, strayed>>

\* Refused, or the connection breaks, before the server did it or after.
RequestFails(c) ==
    /\ InFlight(c) /\ clicks[c].at \notin {"update", "updated"} /\ IsDone(c)
    /\ strayed' = (strayed \/ clicks[c].at \in {"ran", "deployed", "stopped"})
    /\ UNCHANGED <<editor, backend, inbox, excuse>>

EditorNext ==
    \/ RunElsewhere \/ OnMessage \/ OnClose \/ ResetTimerFires \/ EditCanvas
    \/ \E r \in DOMAIN backend.runs : RunIsOver(r) \/ \E n \in CanvasNode : NodeGoesOn(r, n)
    \/ \E c \in Click :
        \/ SaveFlow(c) \/ DeployFlow(c) \/ StopFlow(c) \/ OpenPage(c)
        \/ UpdateArrives(c) \/ StartArrives(c) \/ StopArrives(c) \/ LoadArrives(c)
        \/ UpdateReturns(c) \/ UpdateFails(c) \/ StartReturns(c) \/ StopReturns(c)
        \/ LoadReturns(c) \/ RequestFails(c)

----------------------------------------------------------------------------
\* With a node map, and once its events are there, the colours are what the
\* nodes did in the last run, until the timer resets them after its end; also
\* if its first events came before the map.  Except: the timer of an earlier run
\* fired during this one (it is not cleared when a run starts), or it fired while
\* events waited for the map, which then shows them alone; runs overlapped,
\* of this flow or another; the socket was down; the page was opened anew, with
\* the colours that were saved; or a deploy cleared the map while events waited
\* for it.
ShowsTheRun ==
    LET last == Len(backend.runs) IN
    "colours" \notin excuse /\ editor.nodeMap # {} /\ inbox = <<>>
        /\ last > 0 /\ backend.runs[last].own =>
            \/ editor.status = backend.runs[last].nodes
            \/ ~Going(last) /\ ~editor.resetTimer /\ editor.status = AllIdle

\* The page that shows "running" is about to hear otherwise, unless it missed
\* an event: nothing but an event ends it.
RunningEnds ==
    editor.running /\ "running" \notin excuse =>
        \/ \E r \in DOMAIN backend.runs : Going(r)
        \/ \E i \in DOMAIN inbox : inbox[i].type = "flow_ended"

\* As long as clicks and edits wait for the replies, and no call that failed had
\* an effect (a lost reply, hooks retired before the run was refused): a canvas that is not
\* marked as unsaved is stored; deploy starts what was on the screen, unless
\* the save before it failed; and the mark "deployed" is the server's.
SavedAndDeployed ==
    ~strayed =>
        /\ ~editor.dirty /\ ~Busy => backend.canvas = editor.canvas
        /\ \A c \in Click : clicks[c].at \in {"ran", "deployed"} /\ clicks[c].saved =>
                backend.canvas = clicks[c].shown
        /\ ~Busy => editor.deployed = backend.live

\* What the page shows of the flow and its run is so.
EditorIsTruthful == ShowsTheRun /\ RunningEnds /\ SavedAndDeployed
=============================================================================
