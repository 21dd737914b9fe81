---------------------------- MODULE Applications ----------------------------
(***************************************************************************)
(* What applications hold of streams: subscriptions to streams of a node   *)
(* in the same process (Subscriptions), handles over HTTP (Client), which  *)
(* ask the node and subscribe to nothing there, the ids of streams         *)
(* (StreamRefs), what handles and nodes send each other (Wire), and the    *)
(* configuration that daemons and commands are started with (CommandLine). *)
(* None affects the other, so that a behaviour is about one of them.       *)
(***************************************************************************)
EXTENDS Subscriptions, Client, Wire, CommandLine

VARIABLE about      \* never changes

applicationVars == <<vars, clientVars, refVars, wireVars, lineVars, about>>

InitApplications ==
    /\ Init /\ InitClient /\ InitRefs /\ InitWire /\ InitLine
    /\ about \in {"process", "http", "ids", "wire", "command line"}
    /\ (about = "http") <=> (scene.docs # {})
    /\ (about = "command line") <=> (habit # NoHabit)

NextApplications ==
    /\ UNCHANGED about
    /\ \/ about = "process" /\ Next /\ UNCHANGED <<clientVars, refVars, wireVars, lineVars>>
       \/ about = "http" /\ NextClient /\ UNCHANGED <<vars, refVars, wireVars, lineVars>>
       \/ about = "ids" /\ NextRefs /\ UNCHANGED <<vars, clientVars, wireVars, lineVars>>
       \/ about = "wire" /\ NextWire /\ UNCHANGED <<vars, clientVars, refVars, lineVars>>
       \/ /\ about = "command line" /\ NextLine
          /\ UNCHANGED <<vars, clientVars, refVars, wireVars>>

SpecApplications ==
    InitApplications /\ [][NextApplications]_applicationVars /\ FairnessClient

=============================================================================
