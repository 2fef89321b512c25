------------------------------- MODULE Storage -------------------------------
(***************************************************************************)
(* Files of the records: the storage backends and their fallback           *)
(* (Utils/storage_utils.py, Service/storage_service.py), the older client  *)
(* of one bucket (Service/gcs_service.py) that replaces logos and deletes  *)
(* pictures, and the file_storages rows kept by the listeners of           *)
(* Models/models.py.  A blob is named by its backend and its path; the     *)
(* path is the folder, the same for all pictures of an organization, and   *)
(* the file's own name.                                                    *)
(***************************************************************************)
EXTENDS RecordsDomain, Integers

CONSTANTS
    Backends,   \* how many of GCS, S3 and local are configured, tried in this order
    FileNames       \* names of files

ASSUME BackendsAssumption == Backends \in Nat \ {0}

VARIABLES
    blobs,     \* <<backend, name>> -> the request whose content is there
    upload,    \* request -> its upload
    picture,   \* employee -> <<backend, name>> in its row
    files      \* file_storages: <<employee, name, backend>>

vars == <<blobs, upload, picture, files>>

Kinds == 1..Backends
Blobs == Kinds \X FileNames
\* What an upload is told to do, and how far it is.
Upload == [at : {"idle", "trying", "answered", "refused", "saved"}, of : Staff \cup {None},
           names : SUBSET FileNames, backend : Kinds \cup {None}, second : BOOLEAN,
           left : SUBSET FileNames, urls : SUBSET Blobs]

NoUpload == [at |-> "idle", of |-> None, names |-> {}, backend |-> None, second |-> FALSE,
             left |-> {}, urls |-> {}]

TypeOK ==
    /\ blobs \in [Blobs -> Requests \cup {None}]
    /\ upload \in [Requests -> Upload]
    /\ picture \in [Staff -> Blobs \cup {None}]
    /\ files \subseteq Staff \X FileNames \X Kinds

Init ==
    /\ blobs = [b \in Blobs |-> None]
    /\ upload = [r \in Requests |-> NoUpload]
    /\ picture = [e \in Staff |-> None]
    /\ files = {}

Begin(r, e, names) ==
    /\ upload[r].at = "idle" /\ names # {}
    /\ upload' = [upload EXCEPT ![r] =
           [at |-> "trying", of |-> e, names |-> names, backend |-> 1, second |-> FALSE,
            left |-> names, urls |-> {}]]
    /\ UNCHANGED <<blobs, picture, files>>

\* One file is written, over whatever has its path.
Put(r, n) ==
    /\ upload[r].at = "trying" /\ n \in upload[r].left
    /\ blobs' = [blobs EXCEPT ![<<upload[r].backend, n>>] = r]
    /\ upload' = [upload EXCEPT ![r].left = @ \ {n},
                                ![r].urls = @ \cup {<<upload[r].backend, n>>}]
    /\ UNCHANGED <<picture, files>>

\* Every backend uploads twice, once for the line it prints: the second is answered.
Again(r) ==
    /\ upload[r].at = "trying" /\ upload[r].left = {} /\ ~upload[r].second
    /\ upload' = [upload EXCEPT ![r].second = TRUE, ![r].left = upload[r].names, ![r].urls = {}]
    /\ UNCHANGED <<blobs, picture, files>>

\* A mutant: what the first backend took is not sent again.
FallbackForRest(u) ==
    IF u.backend = Backends THEN [u EXCEPT !.at = "refused"]
    ELSE [u EXCEPT !.backend = @ + 1, !.second = TRUE, !.urls = {}]

\* What is tried after a backend failed: the next one, from the first file on.
Fallback(u) ==
    IF u.backend = Backends THEN [u EXCEPT !.at = "refused"]
    ELSE [u EXCEPT !.backend = @ + 1, !.second = FALSE, !.left = u.names, !.urls = {}]

Fail(r) ==
    /\ upload[r].at = "trying" /\ upload[r].left # {}
    /\ upload' = [upload EXCEPT ![r] = Fallback(@)]
    /\ UNCHANGED <<blobs, picture, files>>

Answer(r) ==
    /\ upload[r].at = "trying" /\ upload[r].left = {} /\ upload[r].second
    /\ upload' = [upload EXCEPT ![r].at = "answered"]
    /\ UNCHANGED <<blobs, picture, files>>

ListedOnce(e, b) ==    \* a mutant: a name that is listed is left as it is
    IF \E f \in files : f[1] = e /\ f[2] = b[2] THEN files ELSE files \cup {<<e, b[2], b[1]>>}

(***************************************************************************)
(* The row is committed with the first URL; the listener of its table      *)
(* writes the file_storages row of that name in the same transaction.  A   *)
(* refused commit leaves the blobs behind.                                 *)
(***************************************************************************)
Listed(e, b) == {f \in files : f[1] # e \/ f[2] # b[2]} \cup {<<e, b[2], b[1]>>}

Save(r) ==
    /\ upload[r].at = "answered"
    /\ upload' = [upload EXCEPT ![r] = [NoUpload EXCEPT !.at = "saved"]]
    /\ UNCHANGED blobs
    /\ LET e == upload[r].of
       IN  \/ \E b \in upload[r].urls :
                  picture' = [picture EXCEPT ![e] = b] /\ files' = Listed(e, b)
           \/ UNCHANGED <<picture, files>>

(***************************************************************************)
(* update_user with a picture: the old blob is deleted when it is one of   *)
(* the bucket's, then a name that was never assigned ends the request.     *)
(***************************************************************************)
UpdatePicture(r, e) ==
    /\ upload[r].at = "idle"
    /\ upload' = [upload EXCEPT ![r].at = "refused"]
    /\ blobs' = IF picture[e] # None /\ picture[e][1] = 1
                THEN [blobs EXCEPT ![picture[e]] = None] ELSE blobs
    /\ UNCHANGED <<picture, files>>

\* The row goes, and with it what the listener listed; the blob stays.
Remove(e) ==
    /\ picture[e] # None
    /\ picture' = [picture EXCEPT ![e] = None]
    /\ files' = {f \in files : f[1] # e}
    /\ UNCHANGED <<blobs, upload>>

Over == \A r \in Requests : upload[r].at \in {"refused", "saved"}
Ended == Over /\ UNCHANGED vars

Next ==
    \/ \E r \in Requests :
           \/ Again(r) \/ Fail(r) \/ Answer(r) \/ Save(r)
           \/ \E n \in FileNames : Put(r, n)
           \/ \E e \in Staff : UpdatePicture(r, e)
           \/ \E e \in Staff, names \in SUBSET FileNames : Begin(r, e, names)
    \/ \E e \in Staff : Remove(e)
    \/ Ended

Spec == Init /\ [][Next]_vars

-----------------------------------------------------------------------------
(***************************************************************************)
(* Properties                                                              *)
(***************************************************************************)

(***************************************************************************)
(* An upload that is answered names every file it was given, all of them   *)
(* in the backend that took the last of them, though a backend failed      *)
(* between two files and the next one took over.                           *)
(***************************************************************************)
AnswerIsWhole ==
    \A r \in Requests : upload[r].at = "answered" =>
        upload[r].urls = {upload[r].backend} \X upload[r].names

(***************************************************************************)
(* The picture a row names is listed in file_storages under the same path, *)
(* whatever was saved for the record before, from whichever backend.       *)
(***************************************************************************)
PictureIsListed ==
    \A e \in Staff : picture[e] # None => <<e, picture[e][2], picture[e][1]>> \in files

=============================================================================
