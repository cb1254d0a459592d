--------------------------- MODULE UploadStorage ---------------------------
(***************************************************************************)
(* An upload (app/modules/upload/service.py, storage.py, router.py): a     *)
(* thread puts the file into the object store and tries again after        *)
(* transient errors; the request waits for it, but not for ever, and then  *)
(* inserts the draft that points to the object.  Every upload has an id,   *)
(* and so an object key, of its own.                                       *)
(***************************************************************************)
EXTENDS Integers

CONSTANT UploadMaxRetries   \* UPLOAD_MAX_RETRIES

\* With 0 the thread would end without having stored anything.
ASSUME UploadMaxRetriesAssumption == UploadMaxRetries \in Nat \ {0}

VARIABLES
    upload,     \* the step of the request, or the status it was answered with
    thread,     \* the attempt of the thread, its next call, or its result
    object,     \* the object under the key of this upload
    nanoRow     \* whether the draft is in the database

uploadVars == <<upload, thread, object, nanoRow>>

\* The thread's results: the key, a StorageError to retry, another one.
Results == {"key", "retryable", "terminal"}

NoThread == [call |-> "none", attempt |-> 0]

\* The file was validated.  It is read, which may take too long (503).
ReadFile ==
    /\ upload = "read"
    /\ \/ /\ upload' = "wait"
          /\ thread' = [call |-> "put", attempt |-> 1]
       \/ /\ upload' = "503"
          /\ UNCHANGED thread
    /\ UNCHANGED <<object, nanoRow>>

-----------------------------------------------------------------------------
(* The thread: upload_file *)

\* Variant: running out of attempts is no error.
Caught_FallsThrough(transient) ==
    thread' = IF ~transient THEN [thread EXCEPT !.call = "terminal"]
              ELSE IF thread.attempt = UploadMaxRetries
              THEN [thread EXCEPT !.call = "key"]
              ELSE [call |-> "put", attempt |-> thread.attempt + 1]

\* An error is caught: _is_transient_error decides.
Caught(transient) ==
    thread' = IF ~transient THEN [thread EXCEPT !.call = "terminal"]
              ELSE IF thread.attempt = UploadMaxRetries
              THEN [thread EXCEPT !.call = "retryable"]
              ELSE [call |-> "put", attempt |-> thread.attempt + 1]

\* put_object: answered, or an error that leaves open what was stored.
PutObject ==
    /\ thread.call = "put"
    /\ \/ /\ object' \in {"whole", "part"}
          /\ thread' = [thread EXCEPT !.call = "stat"]
       \/ /\ object' \in {object, "whole", "part"}
          /\ \E transient \in BOOLEAN : Caught(transient)
    /\ UNCHANGED <<upload, nanoRow>>

\* stat.size == file_size
Verified == object = "whole"

\* stat_object: the size is compared; a mismatch is not tried again.
StatObject ==
    /\ thread.call = "stat"
    /\ \/ thread' = [thread EXCEPT !.call = IF Verified THEN "key"
                                            ELSE "terminal"]
       \/ \E transient \in BOOLEAN : Caught(transient)
    /\ UNCHANGED <<upload, object, nanoRow>>

-----------------------------------------------------------------------------
(* The request: create_draft_nano and upload_nano *)

\* wait_for gives up; the thread goes on.
WaitTimesOut ==
    /\ upload = "wait"
    /\ upload' = "503"
    /\ UNCHANGED <<thread, object, nanoRow>>

WaitEnds ==
    /\ upload = "wait"
    /\ thread.call \in Results
    /\ upload' = CASE thread.call = "key" -> "commit"
                   [] thread.call = "retryable" -> "503"
                   [] thread.call = "terminal" -> "500"
    /\ UNCHANGED <<thread, object, nanoRow>>

\* The INSERT is committed, or fails; the row may be there all the same.
CommitDraft ==
    /\ upload = "commit"
    /\ \/ upload' = "201" /\ nanoRow' = TRUE
       \/ upload' = "500" /\ nanoRow' \in BOOLEAN
    /\ UNCHANGED <<thread, object>>

\* The process dies, with its threads.
ProcessDies ==
    /\ upload \notin {"none"}
    /\ upload' = "none"
    /\ thread' = NoThread
    /\ UNCHANGED <<object, nanoRow>>

UploadInit ==
    /\ upload = "read"
    /\ thread = NoThread
    /\ object = "none"
    /\ nanoRow = FALSE

UploadNext ==
    \/ ReadFile
    \/ PutObject
    \/ StatObject
    \/ WaitTimesOut
    \/ WaitEnds
    \/ CommitDraft
    \/ ProcessDies

UploadSpec == UploadInit /\ [][UploadNext]_uploadVars

-----------------------------------------------------------------------------
(* Properties *)

\* A draft points to an object that is there and whole: no lost answer of the
\* store, abandoned thread or crash lets a row appear without its file.
RowHasObject == nanoRow => object = "whole"
=============================================================================
