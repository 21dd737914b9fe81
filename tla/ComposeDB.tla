------------------------------ MODULE ComposeDB ------------------------------
(***************************************************************************)
(* ComposeDB on one node: the streams of models and documents, the index   *)
(* of the documents of models that the node indexes, and the tables it is  *)
(* kept in.  The index takes what models, documents and tables it has as   *)
(* given, no stream depends on the index and no table on a row, so that a  *)
(* behaviour is one of streams, one of the index or one of the tables.     *)
(***************************************************************************)
EXTENDS Index, ModelStreams, Tables

OfStreams == DOMAIN catalog.models # {}
OfIndex == inputs.admin \/ query.models # {}
OfTables == database # "none"

InitComposeDB ==
    /\ Init /\ InitStreams /\ InitTables
    /\ \/ OfStreams /\ ~OfIndex /\ ~OfTables
       \/ OfIndex /\ ~OfStreams /\ ~OfTables
       \/ OfTables /\ ~OfStreams /\ ~OfIndex

NextComposeDB ==
    \/ OfIndex /\ Next /\ UNCHANGED <<streamVars, sqlVars>>
    \/ OfStreams /\ NextStreams /\ UNCHANGED <<vars, sqlVars>>
    \/ OfTables /\ NextTables /\ UNCHANGED <<vars, streamVars>>

SpecComposeDB == InitComposeDB /\ [][NextComposeDB]_<<vars, streamVars, sqlVars>>

=============================================================================
