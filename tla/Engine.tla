------------------------------- MODULE Engine -------------------------------
(***************************************************************************)
(* Loader and Executor put together: a file is loaded both ways, and then  *)
(* one of the two tables is queried: the bulk one by C++ calls, cmd_query  *)
(* or Python, the streamed one by the function given to query() of a       *)
(* StreamingTable.  What queries see while rows still arrive is in         *)
(* StreamingTable.                                                         *)
(***************************************************************************)
EXTENDS Loader, Executor

CONSTANT Asked      \* bound: the files that are queried, with header, in full

ASSUME EngineAssumption == Asked \subseteq Files

vars == <<loadVars, queryVars>>

Init == LoadInit /\ QueryInit

Load ==
    /\ qpc = "idle" /\ LoadNext
    /\ UNCHANGED queryVars

AskTable ==
    /\ Loaded /\ lpc = "done" /\ hasHeader /\ limit = 0 /\ file \in Asked
    /\ \/ \E how \in {"cpp", "cli", "python"} : Ask(bulk, how)
       \/ Ask(streamed, "cpp")
    /\ UNCHANGED loadVars

Query ==
    /\ QueryNext
    /\ UNCHANGED loadVars

Finished ==
    /\ \/ Loaded /\ qpc = "idle"
       \/ qpc \in {"threw", "terminated", "done", "sorted", "printed"}
    /\ UNCHANGED vars

Next == Load \/ AskTable \/ Query \/ Finished

Spec == Init /\ [][Next]_vars
=============================================================================
