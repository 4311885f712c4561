---------------------------- MODULE CourseMedia -----------------------------
(***************************************************************************)
(* The cover and the promo video of a course: rows of the database that    *)
(* point at objects of the storage (CoursesService, StorageService) and    *)
(* the controls of the web client (CourseCoverControls,                    *)
(* CourseCatalogMediaControls).  Every call reads the key the course has,  *)
(* uploads the new object under a key of its own, deletes the object it    *)
(* read and only then writes the course.  The server may stop in between.  *)
(***************************************************************************)
EXTENDS Naturals, FiniteSets

CONSTANTS
    Requests,       \* calls under way at a time
    MaxUploads,     \* bound: uploads
    None

ObjectKeys == 1 .. MaxUploads
Slots == {"cover", "promo"}
External == 0       \* a promo video on another site: no object

VARIABLES
    course,     \* course[slot]: key, External or None; None when removed
    objects,    \* objects of the storage
    request,    \* request[r]: step, slot, what it read, what it will write
    uploads,    \* keys used
    shown,      \* the page: whether it shows a cover and a video
    stopped     \* history: a call has stopped between delete and write

mediaVars == <<course, objects, request, uploads, shown, stopped>>

Places == ObjectKeys \cup {External, None}
Calls == [step : {"upload", "delete", "write"}, slot : Slots \cup {"course"},
          old : SUBSET ObjectKeys, new : Places]

\* What the theorems assume of the constants, and Services of its own.
GoodConstants == MaxUploads \in Nat /\ None \notin Calls \cup ObjectKeys \cup {External}

TypeOK ==
    /\ course \in [Slots -> Places] \cup {None}
    /\ objects \subseteq ObjectKeys
    /\ request \in [Requests -> Calls \cup {None}]
    /\ uploads \in 0 .. MaxUploads
    /\ shown \in [Slots -> BOOLEAN]
    /\ stopped \in BOOLEAN

Init ==
    /\ course = [s \in Slots |-> None] /\ objects = {}
    /\ request = [r \in Requests |-> None] /\ uploads = 0
    /\ shown = [s \in Slots |-> FALSE] /\ stopped = FALSE

-----------------------------------------------------------------------------
(***************************************************************************)
(* The server.                                                             *)
(***************************************************************************)
Stored(place) == {place} \cap ObjectKeys

Read(r, slot, step, new) ==
    /\ request[r] = None /\ course # None
    /\ request' = [request EXCEPT ![r] = [step |-> step, slot |-> slot,
                                          old |-> Stored(course[slot]), new |-> new]]
    /\ UNCHANGED <<course, objects, shown, stopped>>

\* uploadCover and uploadPromoVideo, for a file of the right kind and size.
Upload(r, slot) ==
    /\ uploads < MaxUploads
    /\ uploads' = uploads + 1
    /\ Read(r, slot, "upload", uploads')

\* Mutant: an upload the storage refuses goes on.
UploadAnyway(r) ==
    /\ request[r] # None /\ request[r].step = "upload"
    /\ objects' \in {objects \cup {request[r].new}, objects}
    /\ request' = [request EXCEPT ![r].step = "delete"]
    /\ UNCHANGED <<course, uploads, shown, stopped>>

UploadObject(r) ==
    /\ request[r] # None /\ request[r].step = "upload"
    /\ objects' = objects \cup {request[r].new}
    /\ request' = [request EXCEPT ![r].step = "delete"]
    /\ UNCHANGED <<course, uploads, shown, stopped>>

\* removeCover and removePromoVideo: the page offers them for what it shows.
Remove(r, slot) ==
    /\ shown[slot]
    /\ Read(r, slot, "delete", None) /\ UNCHANGED uploads

SetPromoExternal(r) == Read(r, "promo", "delete", External) /\ UNCHANGED uploads

\* The old objects go first; a failure of the storage is ignored.
DeleteObject(r) ==
    /\ request[r] # None /\ request[r].step = "delete"
    /\ objects' \in {objects \ request[r].old, objects}
    /\ request' = [request EXCEPT ![r].step = "write"]
    /\ UNCHANGED <<course, uploads, shown, stopped>>

\* Writing a course that was removed fails.
Write(r) ==
    /\ request[r] # None
    /\ request[r].step = "write" /\ request[r].slot \in Slots
    /\ course' = IF course = None THEN None
                  ELSE [course EXCEPT ![request[r].slot] = request[r].new]
    /\ request' = [request EXCEPT ![r] = None]
    /\ UNCHANGED <<objects, uploads, shown, stopped>>

\* remove: both objects, then the course.
RemoveCourse(r) ==
    /\ request[r] = None /\ course # None
    /\ request' = [request EXCEPT ![r] =
         [step |-> "delete", slot |-> "course",
          old |-> UNION {Stored(course[s]) : s \in Slots}, new |-> None]]
    /\ UNCHANGED <<course, objects, uploads, shown, stopped>>

DeleteCourse(r) ==
    /\ request[r] # None
    /\ request[r].step = "write" /\ request[r].slot = "course"
    /\ course' = None
    /\ request' = [request EXCEPT ![r] = None]
    /\ UNCHANGED <<objects, uploads, shown, stopped>>

\* The server stops, or the storage refuses an upload.
Stop(r) ==
    /\ request[r] # None
    /\ request' = [request EXCEPT ![r] = None]
    /\ stopped' = (stopped \/ request[r].step = "write")
    /\ UNCHANGED <<course, objects, uploads, shown>>

\* present: what the course shows; the page reads it again after a change
\* of its own, a focus or a visit.
Present ==
    /\ course # None
    /\ shown' = [s \in Slots |-> course[s] # None]
    /\ UNCHANGED <<course, objects, request, uploads, stopped>>

Next ==
    \/ \E r \in Requests :
        \/ \E s \in Slots : Upload(r, s) \/ Remove(r, s)
        \/ SetPromoExternal(r) \/ RemoveCourse(r)
        \/ UploadObject(r) \/ DeleteObject(r) \/ Write(r) \/ DeleteCourse(r) \/ Stop(r)
    \/ Present

Spec == Init /\ [][Next]_mediaVars

-----------------------------------------------------------------------------
(***************************************************************************)
(* Properties.                                                             *)
(***************************************************************************)
\* The course points at no object that is gone, but while the call that
\* deleted it has yet to write: two calls on one slot never leave a dead
\* link, only a server that stops between the two does.
LinksAreStored ==
    course # None /\ ~stopped =>
        \A s \in Slots : \A k \in Stored(course[s]) :
            \/ k \in objects
            \/ \E r \in Requests : /\ request[r] # None
                                   /\ request[r].step = "write" /\ k \in request[r].old

=============================================================================
