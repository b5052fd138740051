------------------------------- MODULE MqttNode -------------------------------
(***************************************************************************)
(* The MQTT node.  To publish it starts a task that runs the connection,    *)
(* hands that task the message and a disconnect through a queue, aborts the *)
(* task and answers; to subscribe it runs the connection itself and waits.  *)
(***************************************************************************)
EXTENDS Naturals, Sequences

CONSTANT QueueBound     \* requests the client's queue takes

ASSUME QueueAssumption == QueueBound \in Nat \ {0}

VARIABLES action,       \* what the node is configured to do
          pc,           \* how far process has come
          queue,        \* requests handed to the connection
          connection,   \* "closed", "open", "over": the connection's task has ended
          aborted,      \* whether the task was told to end
          sent,         \* messages the broker was sent
          arrived,      \* messages that came in and were read
          port          \* the answer

mqttVars == <<action, pc, queue, connection, aborted, sent, arrived, port>>

MqttTypeOK ==
    /\ action \in {"publish", "subscribe", "other"}
    /\ pc \in {"start", "queue", "disconnect", "abort", "wait", "done"}
    /\ Len(queue) \in 0..QueueBound /\ connection \in {"closed", "open", "over"}
    /\ sent \in Nat /\ arrived \in Nat
    /\ port \in {"none", "published", "message", "error"}

MqttInit ==
    /\ action \in {"publish", "subscribe", "other"}
    /\ pc = "start" /\ queue = <<>> /\ connection = "closed" /\ aborted = FALSE
    /\ sent = 0 /\ arrived = 0 /\ port = "none"

Returns(p) == pc' = "done" /\ port' = p

----------------------------------------------------------------------------
(* process.                                                                  *)

\* No payload, a broker the policy does not allow, an unknown action.
StartFails ==
    /\ pc = "start" /\ Returns("error")
    /\ UNCHANGED <<action, queue, connection, aborted, sent, arrived>>

BrokerHost ==
    /\ pc = "start" /\ action # "other" /\ pc' = "queue"
    /\ UNCHANGED <<action, queue, connection, aborted, sent, arrived, port>>

\* client.publish: it waits for room and fails when the task has ended.
QueuePublish ==
    /\ pc = "queue" /\ action = "publish"
    /\ IF connection = "over" THEN port' = "error" /\ UNCHANGED queue
       ELSE /\ Len(queue) < QueueBound
            /\ port' = "published" /\ queue' = Append(queue, "publish")
    /\ pc' = "disconnect"
    /\ UNCHANGED <<action, connection, aborted, sent, arrived>>

\* Faulty: a disconnect that fails is told as an error of the publish.
QueueDisconnectChecked ==
    /\ pc = "disconnect"
    /\ \/ connection = "over" /\ port' = "error" /\ UNCHANGED queue
       \/ /\ connection # "over" /\ Len(queue) < QueueBound
          /\ queue' = Append(queue, "disconnect") /\ UNCHANGED port
    /\ pc' = "abort"
    /\ UNCHANGED <<action, connection, aborted, sent, arrived>>

\* client.disconnect, whose failure is ignored.
QueueDisconnect ==
    /\ pc = "disconnect"
    /\ \/ connection = "over" /\ UNCHANGED queue
       \/ connection # "over" /\ Len(queue) < QueueBound /\ queue' = Append(queue, "disconnect")
    /\ pc' = "abort"
    /\ UNCHANGED <<action, connection, aborted, sent, arrived, port>>

\* handle.abort(), and the answer.
Abort ==
    /\ pc = "abort" /\ aborted' = TRUE /\ pc' = "done"
    /\ UNCHANGED <<action, queue, connection, sent, arrived, port>>

Subscribe ==
    /\ pc = "queue" /\ action = "subscribe"
    /\ queue' = Append(queue, "subscribe") /\ pc' = "wait"
    /\ UNCHANGED <<action, connection, aborted, sent, arrived, port>>

\* poll_for_message ends with a message or an error.
Message ==
    /\ pc = "wait" /\ connection = "open" /\ queue = <<>>
    /\ arrived' = arrived + 1 /\ Returns("message")
    /\ UNCHANGED <<action, queue, connection, aborted, sent>>

PollEnds ==
    /\ pc = "wait" /\ connection = "over" /\ Returns("error")
    /\ UNCHANGED <<action, queue, connection, aborted, sent, arrived>>

TimedOut ==
    /\ pc = "wait" /\ Returns("error")
    /\ UNCHANGED <<action, queue, connection, aborted, sent, arrived>>

----------------------------------------------------------------------------
(* The connection: run by the spawned task, or by process while it waits.    *)

Polled == IF action = "publish" THEN pc \notin {"start"} ELSE pc = "wait"

Connect ==
    /\ Polled /\ connection = "closed" /\ connection' = "open"
    /\ UNCHANGED <<action, pc, queue, aborted, sent, arrived, port>>

SendNext ==
    /\ Polled /\ connection = "open" /\ queue # <<>>
    /\ queue' = Tail(queue)
    /\ sent' = sent + (IF Head(queue) = "publish" THEN 1 ELSE 0)
    /\ connection' = IF Head(queue) = "disconnect" THEN "over" ELSE connection
    /\ UNCHANGED <<action, pc, aborted, arrived, port>>

\* The broker refuses, the connection breaks, or the aborted task is dropped.
ConnectionEnds ==
    /\ Polled /\ connection # "over" /\ connection' = "over"
    /\ UNCHANGED <<action, pc, queue, aborted, sent, arrived, port>>

MqttNext ==
    \/ StartFails \/ BrokerHost \/ QueuePublish \/ QueueDisconnect \/ Abort
    \/ Subscribe \/ Message \/ PollEnds \/ TimedOut
    \/ Connect \/ SendNext \/ ConnectionEnds

----------------------------------------------------------------------------
\* "error" of a publish says that nothing was sent and nothing will be: the
\* flow may send again.  The converse is not so: "published" says only that
\* the message was queued, and the abort may take it away.  A message is sent
\* at most once, and "message" stands for one that was read.
ErrorMeansUnsent ==
    /\ sent <= 1
    /\ port = "error" => sent = 0 /\ (pc = "done" => "publish" \notin {queue[i] : i \in DOMAIN queue})
    /\ port = "message" => arrived = 1
=============================================================================
