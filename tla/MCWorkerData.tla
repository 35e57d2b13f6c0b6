---------------------------- MODULE MCWorkerData ----------------------------
(***************************************************************************)
(* What a worker reads and what it writes: a REST Source and the files of  *)
(* the storage root, on small instances.  The two share no state, so a     *)
(* behaviour of one run is one of either: which one is fixed in Init, and  *)
(* the other stays where it started.                                       *)
(***************************************************************************)
EXTENDS RestSource, LocalStorage

VARIABLE subject

Apis4 == [empty : {"echo", "null"}, capitals : BOOLEAN]
Bound == [nextPagePath : BOOLEAN, checkpointPath : BOOLEAN, checkpointParameter : BOOLEAN,
          maxPages : {1, 2}, binding : {"resolved", "unresolved"}]

Init ==
    /\ subject \in {"source", "storage"} /\ SourceInit /\ StorageInit
    /\ subject = "source" => cipher = [w \in Workers |-> NoKey]
    /\ subject = "storage" => settings = CHOOSE s \in Apis \X Configurations : TRUE

Next ==
    \/ subject = "source" /\ SourceNext /\ UNCHANGED <<subject, storageVars>>
    \/ subject = "storage" /\ StorageNext /\ UNCHANGED <<subject, sourceVars>>

\* A schedule keeps starting runs, and the worker takes every run to its end.
Fairness == WF_sourceVars(subject = "source" /\ Progress)

Spec == Init /\ [][Next]_<<subject, sourceVars, storageVars>> /\ Fairness
=============================================================================
