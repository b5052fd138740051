------------------------------ MODULE EventSocket ------------------------------
(***************************************************************************)
(* One connection to the event stream of the editor.  It takes the engine's *)
(* events from a broadcast channel, looks up the owner of a flow at the     *)
(* flow's first event, remembers the answer, and sends the user the events  *)
(* of the flows the user owns.  Text of an LLM comes under a trace id.      *)
(***************************************************************************)
EXTENDS Naturals, Sequences, FiniteSets, SequencesExt

CONSTANTS Mine, Theirs,     \* flows of the user and of others
          Trace,            \* trace ids: no row has one as its id
          Capacity,         \* of the broadcast channel
          MaxEvents

ASSUME SocketAssumption ==
    /\ Mine \cap Theirs = {} /\ (Mine \cup Theirs) \cap Trace = {}
    /\ Capacity \in Nat \ {0} /\ MaxEvents \in Nat

VARIABLES rows,         \* flows whose row is there
          emitted,      \* the flow ids of the engine's events
          socket,       \* "closed", then "select", "look-up" or "send", and "over"
          cursor,       \* events the connection is past
          ownership,    \* what it remembers: flow ids to BOOLEAN
          shown,        \* events sent, by number
          passed,       \* events before it subscribed, or skipped in a lag
          misjudged     \* flows whose look-up failed, or came after the row
socketVars == <<rows, emitted, socket, cursor, ownership, shown, passed, misjudged>>

SocketTypeOK ==
    /\ rows \subseteq Mine \cup Theirs /\ Len(emitted) \in 0..MaxEvents
    /\ socket \in {"closed", "select", "look-up", "send", "over"} /\ cursor \in 0..Len(emitted)
    /\ DOMAIN ownership \subseteq Mine \cup Theirs \cup Trace
    /\ {shown[i] : i \in DOMAIN shown} \cup passed \subseteq 1..Len(emitted)

SocketInit ==
    /\ rows = Mine \cup Theirs /\ emitted = <<>> /\ socket = "closed" /\ cursor = 0
    /\ ownership = <<>> /\ shown = <<>> /\ passed = {} /\ misjudged = {}

----------------------------------------------------------------------------
\* The engine reports a run of a flow, and a model node its text.
EngineEmits(id) ==
    /\ Len(emitted) < MaxEvents /\ emitted' = Append(emitted, id)
    /\ UNCHANGED <<rows, socket, cursor, ownership, shown, passed, misjudged>>

\* A run may outlive the row of its flow.
DeleteRow(f) ==
    /\ f \in rows /\ rows' = rows \ {f}
    /\ UNCHANGED <<emitted, socket, cursor, ownership, shown, passed, misjudged>>

\* ws_handler lets a user with a valid token in; one without gets no socket.
Upgrade ==
    /\ socket = "closed" /\ socket' = "select"
    /\ cursor' = Len(emitted) /\ passed' = 1..Len(emitted)
    /\ UNCHANGED <<rows, emitted, ownership, shown, misjudged>>

Lagged ==
    /\ socket = "select" /\ Len(emitted) > cursor + Capacity
    /\ cursor' = Len(emitted) - Capacity
    /\ passed' = passed \cup (cursor + 1..cursor')
    /\ UNCHANGED <<rows, emitted, socket, ownership, shown, misjudged>>

\* The event goes on to the user, to the database or nowhere.
Receive ==
    /\ socket = "select" /\ cursor < Len(emitted) /\ Len(emitted) <= cursor + Capacity
    /\ cursor' = cursor + 1
    /\ socket' = LET id == emitted[cursor']
                 IN  IF id \notin DOMAIN ownership THEN "look-up"
                     ELSE IF ownership[id] THEN "send" ELSE "select"
    /\ UNCHANGED <<rows, emitted, ownership, shown, passed, misjudged>>

\* Faulty: the answer is remembered for the wrong user: any owner will do.
GetAnyOwner ==
    /\ socket = "look-up"
    /\ LET id == emitted[cursor]
       IN  /\ ownership' = [i \in DOMAIN ownership \cup {id} |->
                                IF i = id THEN id \in rows ELSE ownership[i]]
           /\ socket' = IF id \in rows THEN "send" ELSE "select"
           /\ misjudged' = IF id \in Mine \ rows THEN misjudged \cup {id} ELSE misjudged
    /\ UNCHANGED <<rows, emitted, cursor, shown, passed>>

\* get_flow_owner: an error and a missing row count as not owned, and are
\* remembered like an answer.
GetFlowOwner ==
    /\ socket = "look-up"
    /\ LET id == emitted[cursor]
       IN  \E answered \in BOOLEAN :
            LET owned == answered /\ id \in rows \cap Mine
            IN  /\ ownership' = [i \in DOMAIN ownership \cup {id} |->
                                    IF i = id THEN owned ELSE ownership[i]]
                /\ socket' = IF owned THEN "send" ELSE "select"
                /\ misjudged' = IF id \in Mine /\ ~owned THEN misjudged \cup {id} ELSE misjudged
    /\ UNCHANGED <<rows, emitted, cursor, shown, passed>>

SendEvent ==
    /\ socket = "send"
    /\ shown' = Append(shown, cursor) /\ socket' = "select"
    /\ UNCHANGED <<rows, emitted, cursor, ownership, passed, misjudged>>

\* The browser leaves, a ping or an event cannot be sent.
Leave ==
    /\ socket \in {"select", "send"} /\ socket' = "over"
    /\ UNCHANGED <<rows, emitted, cursor, ownership, shown, passed, misjudged>>

SocketNext ==
    \/ \E id \in Mine \cup Theirs \cup Trace : EngineEmits(id)
    \/ \E f \in Mine \cup Theirs : DeleteRow(f)
    \/ Upgrade \/ Lagged \/ Receive \/ GetFlowOwner \/ SendEvent \/ Leave

----------------------------------------------------------------------------
\* A user sees events of the user's own flows only, each once and in order.
\* An event of an own flow is missing only if the connection was behind or
\* closed, or if the first look-up of that flow failed or found the row gone:
\* then all of that flow's events are missing until the user connects again.
SocketShowsOwn ==
    /\ \A i \in DOMAIN shown : emitted[shown[i]] \in Mine
    /\ \A i \in 1..Len(shown) - 1 : shown[i] < shown[i + 1]
    /\ socket = "select" =>
        \A e \in 1..cursor :
            emitted[e] \in Mine => \/ e \in passed \/ emitted[e] \in misjudged
                                   \/ e \in {shown[i] : i \in DOMAIN shown}
=============================================================================
