------------------------------- MODULE MCNodes -------------------------------
(***************************************************************************)
(* The bounded instance of the parts that nodes work with.                   *)
(***************************************************************************)
EXTENDS Nodes, MCServiceCalls, MCNodeRun

MCMemories == {{"save", "load", "clear", "list"}, {"store", "search", "delete", "wipe"},
               {"escalate", "check_status", "resolve", "assign", "timer"}}
MCEmbedding == {<<1, 0>>, <<-1, 0>>, <<1>>}
=============================================================================
