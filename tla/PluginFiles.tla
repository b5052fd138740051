------------------------------ MODULE PluginFiles ------------------------------
(***************************************************************************)
(* The directory of one plugin.  Every `plugin install` and `plugin remove` *)
(* is a process of its own, the server scans the directory when it starts   *)
(* and loads the module later, and none of them locks anything.  A file is  *)
(* written in two steps, created empty and then filled.                     *)
(***************************************************************************)
EXTENDS Integers, FiniteSets

CONSTANTS Command       \* positive: an install brings the build of its number

ASSUME CommandAssumption == Command \subseteq Nat \ {0}

VARIABLES folder,       \* whether it is there, its module and its manifest
          commands,
          boot,         \* the start of a server: what the scan saw, what runs
          alone,        \* no two commands or starts have overlapped so far
          faulty        \* a process was killed, or could not remove a file
pluginFileVars == <<folder, commands, boot, alone, faulty>>

File == {"wasm", "manifest"}
Gone == [there |-> FALSE, wasm |-> 0, manifest |-> 0]
Torn == -1        \* half written; 0: no such file

PluginFilesTypeOK ==
    /\ folder.there \in BOOLEAN
    /\ \A f \in File : folder[f] \in Command \cup {0, Torn}
    /\ \A c \in Command :
        /\ commands[c].at \in {"new", "make", "wasm", "manifest", "register", "clean", "remove", "done"}
        /\ commands[c].said \in {"nothing", "installed", "removed", "failed"}
    /\ boot.at \in {"new", "scanned", "ready"} /\ boot.saw \in Command \cup {0}

PluginFilesInit ==
    /\ folder = Gone
    /\ commands = [c \in Command |-> [at |-> "new", writing |-> FALSE, said |-> "nothing"]]
    /\ boot = [at |-> "new", saw |-> 0, runs |-> Gone]
    /\ alone = TRUE /\ faulty = FALSE

----------------------------------------------------------------------------
Running == {c \in Command : commands[c].at \notin {"new", "done"}}
Starting == boot.at = "scanned"
Enters(others, start) == alone' = (alone /\ others = {} /\ ~start)

CommandAt(c, at) == commands[c].at = at
NextStep(c, at) == commands' = [commands EXCEPT ![c].at = at, ![c].writing = FALSE]
Says(c, text) == commands' = [commands EXCEPT ![c].at = "done", ![c].said = text]
Quiet == UNCHANGED <<boot, alone, faulty>>

\* register_from_dir: a manifest that can be read, and a module beside it.
Registered == IF folder.manifest \in Command /\ folder.wasm # 0 THEN folder.manifest ELSE 0

\* install_local: a source that is no plugin, or has the name of a built-in
\* node, ends here.
InstallBegins(c) ==
    /\ CommandAt(c, "new") /\ Enters(Running, Starting)
    /\ \/ ~folder.there /\ NextStep(c, "make")
       \/ Says(c, "failed")
    /\ UNCHANGED <<folder, boot, faulty>>

MakeFolder(c) ==
    /\ CommandAt(c, "make") /\ Quiet
    /\ \/ folder' = [folder EXCEPT !.there = TRUE] /\ NextStep(c, "wasm")
       \/ UNCHANGED folder /\ NextStep(c, "clean")

\* Faulty: an install whose write fails leaves what is there.
WriteBeginsOrLeaves(c, f) ==
    /\ CommandAt(c, f) /\ ~commands[c].writing /\ Quiet
    /\ \/ /\ folder.there /\ folder' = [folder EXCEPT ![f] = Torn]
          /\ commands' = [commands EXCEPT ![c].writing = TRUE]
       \/ UNCHANGED folder /\ Says(c, "failed")

WriteBegins(c, f) ==
    /\ CommandAt(c, f) /\ ~commands[c].writing /\ Quiet
    /\ \/ /\ folder.there /\ folder' = [folder EXCEPT ![f] = Torn]
          /\ commands' = [commands EXCEPT ![c].writing = TRUE]
       \/ UNCHANGED folder /\ NextStep(c, "clean")

\* Two processes may have written the same file, or one may have removed it.
WriteEnds(c, f) ==
    /\ CommandAt(c, f) /\ commands[c].writing /\ Quiet
    /\ \/ /\ \E text \in CASE folder[f] = Torn -> {c}
                           [] folder[f] = 0 -> {0}
                           [] OTHER -> {c, Torn} : folder' = [folder EXCEPT ![f] = text]
          /\ NextStep(c, IF f = "wasm" THEN "manifest" ELSE "register")
       \/ UNCHANGED folder /\ NextStep(c, "clean")

RegisterInstalled(c) ==
    /\ CommandAt(c, "register") /\ Quiet
    /\ Says(c, IF Registered # 0 THEN "installed" ELSE "failed")
    /\ UNCHANGED folder

\* remove works on what a scan of the directory found.
RemoveBegins(c) ==
    /\ CommandAt(c, "new") /\ Enters(Running, Starting)
    /\ IF Registered # 0 THEN NextStep(c, "remove") ELSE Says(c, "failed")
    /\ UNCHANGED <<folder, boot, faulty>>

\* remove_dir_all, of remove or of an install that failed.
RemoveFile(c, f) ==
    /\ commands[c].at \in {"clean", "remove"} /\ folder[f] # 0
    /\ folder' = [folder EXCEPT ![f] = 0]
    /\ UNCHANGED commands /\ Quiet

Removed(c) == Says(c, IF CommandAt(c, "remove") THEN "removed" ELSE "failed")

RemoveFolder(c) ==
    /\ commands[c].at \in {"clean", "remove"}
    /\ IF folder.there THEN folder = [Gone EXCEPT !.there = TRUE] /\ Removed(c)
       ELSE Says(c, "failed")
    /\ folder' = Gone /\ Quiet

\* An install ignores that it could not clean up.
RemoveFails(c) ==
    /\ commands[c].at \in {"clean", "remove"}
    /\ Says(c, "failed") /\ faulty' = TRUE
    /\ UNCHANGED <<folder, boot, alone>>

Killed(c) ==
    /\ c \in Running /\ Says(c, "nothing") /\ faulty' = TRUE
    /\ UNCHANGED <<folder, boot, alone>>

----------------------------------------------------------------------------
(* The server.                                                               *)

Scan ==
    /\ boot.at = "new" /\ Enters(Running, FALSE)
    /\ boot' = [boot EXCEPT !.at = "scanned", !.saw = Registered]
    /\ UNCHANGED <<folder, commands, faulty>>

\* The manifest is of the scan, the module is read now; one that cannot be
\* read or compiled is left out.
RegisterPlugins ==
    /\ boot.at = "scanned"
    /\ boot' = [boot EXCEPT
        !.at = "ready",
        !.runs = IF boot.saw # 0 /\ folder.wasm \in Command
                 THEN [there |-> TRUE, wasm |-> folder.wasm, manifest |-> boot.saw] ELSE Gone]
    /\ UNCHANGED <<folder, commands, alone, faulty>>

RestartServer ==
    /\ boot.at = "ready" /\ boot' = [at |-> "new", saw |-> 0, runs |-> Gone]
    /\ UNCHANGED <<folder, commands, alone, faulty>>

PluginFilesNext ==
    \/ \E c \in Command :
        \/ InstallBegins(c) \/ MakeFolder(c) \/ RegisterInstalled(c)
        \/ \E f \in File : WriteBegins(c, f) \/ WriteEnds(c, f) \/ RemoveFile(c, f)
        \/ RemoveBegins(c) \/ RemoveFolder(c) \/ RemoveFails(c) \/ Killed(c)
    \/ Scan \/ RegisterPlugins \/ RestartServer

----------------------------------------------------------------------------
Saying(text) == Cardinality({c \in Command : commands[c].said = text})

\* As long as commands and starts follow one another: a manifest never stands
\* beside a module that is half written or of another build, wherever a
\* process was killed, and a server runs none such; and without a fault the
\* directory is there only if the last word on it was "installed", and then
\* whole.  After a fault it may be there without a manifest: no scan sees it,
\* it cannot be removed by name and nothing can be installed over it.
PluginsAreWhole ==
    alone =>
        /\ folder.manifest \in Command => folder.wasm \in {0, folder.manifest}
        /\ boot.runs.wasm = boot.runs.manifest
        /\ ~faulty /\ Running = {} =>
            /\ folder.there => folder.manifest \in Command /\ folder.wasm = folder.manifest
            /\ Saying("installed") - Saying("removed") = IF folder.there THEN 1 ELSE 0
=============================================================================
