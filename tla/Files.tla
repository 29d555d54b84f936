--------------------------------- MODULE Files ---------------------------------
(****************************************************************************)
(* FilesService.upload: the object goes to the object storage, then the row *)
(* that names it to the database.  Nothing deletes either.                  *)
(****************************************************************************)
EXTENDS Requests

CONSTANT Keys       \* bound: the keys upload draws, each at most once

VARIABLES
    object,         \* keys in the bucket
    file            \* file_key of the rows of uploaded_files

fileVars == <<object, file>>

FileCalls == [op : {"put", "row"}, key : Keys]

FilesTypeOK == object \in SUBSET Keys /\ file \in SUBSET Keys

FilesInit == object = {} /\ file = {}

\* The type and the size are allowed, the scan hook says the file is safe; the key
\* is new.
Upload(w) ==
    /\ MayStart(w)
    /\ \E k \in Keys \ (object \cup {call[v].key : v \in {u \in Slots : call[u] # Idle}}) :
          Continue(w, [op |-> "put", key |-> k])
    /\ UNCHANGED fileVars

\* Bug: the row is written while the object is on its way.
PutObjectLater(w) ==
    /\ call[w].op = "put"
    /\ file' = file \cup {call[w].key}
    /\ Continue(w, [call[w] EXCEPT !.op = "row"])
    /\ UNCHANGED object

PutObject(w) ==
    /\ call[w].op = "put"
    /\ object' = object \cup {call[w].key}
    /\ Continue(w, [call[w] EXCEPT !.op = "row"])
    /\ UNCHANGED file

SaveFile(w) ==
    /\ call[w].op = "row"
    /\ file' = file \cup {call[w].key}
    /\ Finish(w)
    /\ UNCHANGED object

FilesNext ==
    \E w \in Slots :
        \/ Upload(w) \/ PutObject(w) \/ SaveFile(w)
        \/ Crash(w) /\ UNCHANGED fileVars

FilesSpec ==
    /\ RequestsInit /\ FilesInit
    /\ [][FilesNext]_<<world, call, fileVars>>

--------------------------------------------------------------------------------
(* Properties.                                                              *)

\* "Files are NEVER stored inside application containers": a row that is found leads
\* to its object, whenever a pod dies.  (An object may stay without a row.)
RowHasObject == file \subseteq object
================================================================================
