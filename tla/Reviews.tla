------------------------------ MODULE Reviews ------------------------------
(***************************************************************************)
(* The review of one student on one course: ReviewsService (writing,       *)
(* editing, removing, moderating) and the review photos of FilesService,   *)
(* whose rows are in Postgres and whose objects are in the object store.   *)
(* None of it is a transaction: every call to either is a step (a read     *)
(* that only checks is taken together with the call after it).             *)
(*                                                                         *)
(* A text stands for the rating and the body.  No code sets pendingDelete, *)
(* so that no photo is ever one of those to be deleted later.              *)
(***************************************************************************)
EXTENDS Integers, FiniteSets

CONSTANTS
    Texts,
    Photos,            \* keys of uploaded photos
    Requests,          \* slots for HTTP requests that can be in flight together
    MaxReviewPhotos,   \* 5 in the code
    MaxReviews,        \* bound: reviews ever created
    MaxCalls,          \* bound: requests ever started
    None               \* no row, no text, no request

ASSUME ReviewsAssumption ==
    /\ MaxReviewPhotos \in Nat /\ MaxReviews \in Nat /\ MaxCalls \in Nat
    /\ None \notin {"approve", "restore", "deleteReview"}

Ids == 1 .. MaxReviews

VARIABLES
    review,    \* review[i]: the CourseReview row
    created,   \* reviews ever created
    photo,     \* photo[p]: the StoredFile row
    stored,    \* photos whose object is in the store
    uploads,   \* photos ever uploaded
    enrolled,  \* the student's enrolment is ACTIVE
    request,   \* requests in flight
    calls

VARIABLES      \* history, read by no action
    approved,   \* reviews a moderator has approved
    overlapped, \* two requests were in flight together at some time
    broken      \* a request died, or the store did not delete

rows    == <<review, created, photo>>
files   == <<stored, uploads>>
history == <<approved, overlapped, broken>>
vars    == <<rows, files, enrolled, request, calls, history>>

Review == [text : Texts, published : Texts \cup {None},
           status : {"PENDING", "APPROVED", "REJECTED"}]
Photo  == [review : Ids, published : BOOLEAN]

Call ==
    {"findReview", "writeReview", "editReview", "publishPhotos", "approve",
     "listDrafts", "restore", "reject", "listPhotos", "deleteObjects",
     "deleteRows", "deleteReview", "putObject", "readPublished",
     "insertPhoto", "deleteObject", "deletePhoto"}

\* review, photo: what it is about; text, published: values given or read;
\* found: the photos a query returned; then: what follows the photos.
InFlight ==
    [next : Call,
     review : Ids \cup {None},
     photo : Photos \cup {None},
     text : Texts \cup {None},
     published : Texts \cup {None},
     found : SUBSET Photos,
     then : {"approve", "restore", "deleteReview", None}]

ASSUME NoneAssumption == None \notin Texts \cup Review \cup Photo \cup InFlight

TypeOK ==
    /\ review \in [Ids -> Review \cup {None}]
    /\ created \in 0 .. MaxReviews
    /\ photo \in [Photos -> Photo \cup {None}]
    /\ stored \subseteq Photos
    /\ uploads \subseteq Photos
    /\ enrolled \in BOOLEAN
    /\ request \in [Requests -> InFlight \cup {None}]
    /\ calls \in 0 .. MaxCalls
    /\ approved \subseteq Ids
    /\ overlapped \in BOOLEAN
    /\ broken \in BOOLEAN

Init ==
    /\ review = [i \in Ids |-> None]
    /\ created = 0
    /\ photo = [p \in Photos |-> None]
    /\ stored = {}
    /\ uploads = {}
    /\ enrolled = TRUE
    /\ request = [r \in Requests |-> None]
    /\ calls = 0
    /\ approved = {}
    /\ overlapped = FALSE
    /\ broken = FALSE

-----------------------------------------------------------------------------
Busy(r) == request[r] # None

NewCall ==
    [next |-> "findReview", review |-> None, photo |-> None, text |-> None,
     published |-> None, found |-> {}, then |-> None]

\* A call comes in; c is what it has still to do.
Start(r, c) ==
    /\ ~Busy(r)
    /\ calls < MaxCalls
    /\ calls' = calls + 1
    /\ request' = [request EXCEPT ![r] = c]
    /\ overlapped' = (overlapped \/ \E q \in Requests : Busy(q))
    /\ UNCHANGED <<rows, files, enrolled, approved, broken>>

At(r, s)   == Busy(r) /\ request[r].next = s
Goto(r, s) == request' = [request EXCEPT ![r].next = s]
Finish(r)  == request' = [request EXCEPT ![r] = None]

\* A statement finds its row gone, or taken, and throws.
Refuse(r) ==
    /\ Finish(r)
    /\ UNCHANGED <<rows, files, enrolled, calls, history>>

Exists(i)   == review[i] # None
Existing    == {i \in Ids : Exists(i)}
PhotosOf(i) == {p \in Photos : photo[p] # None /\ photo[p].review = i}

SetReview(i, row) == review' = [review EXCEPT ![i] = row]

-----------------------------------------------------------------------------
(***************************************************************************)
(* The author: create, update, remove.                                     *)
(***************************************************************************)

\* eligibility: canWrite
Create(r, t) ==
    /\ enrolled
    /\ \A i \in Existing : review[i].status = "REJECTED"
    /\ Start(r, [NewCall EXCEPT !.text = t])

FindReview(r) ==
    /\ At(r, "findReview")
    /\ request' = [request EXCEPT
          ![r].next = "writeReview",
          ![r].review = IF Existing = {} THEN None ELSE CHOOSE i \in Existing : TRUE]
    /\ UNCHANGED <<rows, files, enrolled, calls, history>>

\* One review per course and student is a unique key.
WriteReview(r) ==
    LET q == request[r]
        new == [text |-> q.text, published |-> None, status |-> "PENDING"]
    IN  /\ At(r, "writeReview")
        /\ \/ /\ q.review = None /\ Existing = {} /\ created < MaxReviews
              /\ created' = created + 1
              /\ SetReview(created + 1, new)
              /\ Finish(r)
              /\ UNCHANGED <<photo, files, enrolled, calls, history>>
           \/ /\ q.review # None /\ q.review \in Existing
              /\ SetReview(q.review, [review[q.review] EXCEPT !.text = q.text, !.status = "PENDING"])
              /\ Finish(r)
              /\ UNCHANGED <<created, photo, files, enrolled, calls, history>>
           \/ /\ IF q.review = None THEN Existing # {} ELSE q.review \notin Existing
              /\ Refuse(r)

Update(r, i, t) ==
    /\ Exists(i)
    /\ enrolled
    /\ Start(r, [NewCall EXCEPT !.next = "editReview", !.review = i, !.text = t,
                                 !.published = review[i].published])

\* Mutant: whatever is not waiting for a moderator is edited in the catalogue.
EditPublishes(r) ==
    LET q == request[r] IN
    /\ At(r, "editReview")
    /\ Exists(q.review)
    /\ IF review[q.review].status # "PENDING"
         THEN /\ SetReview(q.review, [text |-> q.text, published |-> q.text, status |-> "APPROVED"])
              /\ Goto(r, "publishPhotos")
         ELSE /\ SetReview(q.review, [review[q.review] EXCEPT !.text = q.text])
              /\ Finish(r)
    /\ UNCHANGED <<created, photo, files, enrolled, calls, history>>

EditReview(r) ==
    LET q == request[r] IN
    /\ At(r, "editReview")
    /\ \/ /\ Exists(q.review) /\ q.published # None
          /\ SetReview(q.review, [text |-> q.text, published |-> q.text, status |-> "APPROVED"])
          /\ Goto(r, "publishPhotos")
          /\ UNCHANGED <<created, photo, files, enrolled, calls, history>>
       \/ /\ Exists(q.review) /\ q.published = None
          /\ SetReview(q.review, [review[q.review] EXCEPT !.text = q.text, !.status = "PENDING"])
          /\ Finish(r)
          /\ UNCHANGED <<created, photo, files, enrolled, calls, history>>
       \/ ~Exists(q.review) /\ Refuse(r)

\* Mutant: only the text is published.
PublishNoPhotos(r) ==
    /\ At(r, "publishPhotos")
    /\ IF request[r].then = None THEN Finish(r) ELSE Goto(r, request[r].then)
    /\ UNCHANGED <<rows, files, enrolled, calls, history>>

PublishPhotos(r) ==
    LET q == request[r] IN
    /\ At(r, "publishPhotos")
    /\ photo' = [p \in Photos |->
          IF p \in PhotosOf(q.review) THEN [photo[p] EXCEPT !.published = TRUE] ELSE photo[p]]
    /\ IF q.then = None THEN Finish(r) ELSE Goto(r, q.then)
    /\ UNCHANGED <<review, created, files, enrolled, calls, history>>

\* Mutant: the photos are left to the cascade there is not.
RemoveReviewOnly(r, i) ==
    /\ Exists(i)
    /\ Start(r, [NewCall EXCEPT !.next = "deleteReview", !.review = i])

Remove(r, i) ==
    /\ Exists(i)
    /\ Start(r, [NewCall EXCEPT !.next = "listPhotos", !.review = i, !.then = "deleteReview"])

ListPhotos(r) ==
    /\ At(r, "listPhotos")
    /\ request' = [request EXCEPT ![r].next = "deleteObjects",
                                  ![r].found = PhotosOf(request[r].review)]
    /\ UNCHANGED <<rows, files, enrolled, calls, history>>

\* An object the store does not delete is passed over.
DeleteObjects(r) ==
    /\ At(r, "deleteObjects")
    /\ \E kept \in SUBSET request[r].found :
          /\ stored' = stored \ (request[r].found \ kept)
          /\ broken' = (broken \/ kept # {})
    /\ Goto(r, "deleteRows")
    /\ UNCHANGED <<rows, uploads, enrolled, calls, approved, overlapped>>

DeleteRows(r) ==
    LET q == request[r] IN
    /\ At(r, "deleteRows")
    /\ photo' = [p \in Photos |-> IF p \in q.found THEN None ELSE photo[p]]
    /\ Goto(r, q.then)
    /\ UNCHANGED <<review, created, files, enrolled, calls, history>>

DeleteReview(r) ==
    LET i == request[r].review IN
    /\ At(r, "deleteReview")
    /\ \/ /\ Exists(i)
          /\ SetReview(i, None)
          /\ Finish(r)
          /\ UNCHANGED <<created, photo, files, enrolled, calls, history>>
       \/ ~Exists(i) /\ Refuse(r)

-----------------------------------------------------------------------------
(***************************************************************************)
(* The moderator: moderate.                                                *)
(***************************************************************************)

Moderate(r, i, verdict) ==
    /\ Exists(i)
    /\ Start(r, [NewCall EXCEPT
          !.next = CASE verdict = "APPROVED" -> "publishPhotos"
                     [] review[i].published # None -> "listDrafts"
                     [] OTHER -> "reject",
          !.then = CASE verdict = "APPROVED" -> "approve"
                     [] review[i].published # None -> "restore"
                     [] OTHER -> None,
          !.review = i,
          !.text = review[i].text,
          !.published = review[i].published])

\* Photos whose upload has not been approved yet.
ListDrafts(r) ==
    LET i == request[r].review IN
    /\ At(r, "listDrafts")
    /\ request' = [request EXCEPT ![r].next = "deleteObjects",
                                  ![r].found = {p \in PhotosOf(i) : ~photo[p].published}]
    /\ UNCHANGED <<rows, files, enrolled, calls, history>>

Verdict(r, row) ==
    LET i == request[r].review IN
    \/ /\ Exists(i)
       /\ SetReview(i, row)
       /\ Finish(r)
       /\ approved' = IF request[r].next = "approve" THEN approved \cup {i} ELSE approved
       /\ UNCHANGED <<created, photo, files, enrolled, calls, overlapped, broken>>
    \/ ~Exists(i) /\ Refuse(r)

\* The text that was read is published, whatever the text is by now.
Approve(r) ==
    LET q == request[r] IN
    /\ At(r, "approve")
    /\ Verdict(r, [review[q.review] EXCEPT !.published = q.text, !.status = "APPROVED"])

Restore(r) ==
    LET q == request[r] IN
    /\ At(r, "restore")
    /\ Verdict(r, [review[q.review] EXCEPT !.text = q.published, !.status = "APPROVED"])

Reject(r) ==
    /\ At(r, "reject")
    /\ Verdict(r, [review[request[r].review] EXCEPT !.status = "REJECTED"])

-----------------------------------------------------------------------------
(***************************************************************************)
(* Photos: FilesService.upload and remove for COURSE_REVIEW.               *)
(***************************************************************************)

Upload(r, i, p) ==
    /\ Exists(i)
    /\ p \notin uploads
    /\ Cardinality(PhotosOf(i)) < MaxReviewPhotos
    /\ Start(r, [NewCall EXCEPT !.next = "putObject", !.review = i, !.photo = p])

PutObject(r) ==
    /\ At(r, "putObject")
    /\ request[r].photo \notin uploads
    /\ stored' = stored \cup {request[r].photo}
    /\ uploads' = uploads \cup {request[r].photo}
    /\ Goto(r, "readPublished")
    /\ UNCHANGED <<rows, enrolled, calls, history>>

ReadPublished(r) ==
    LET i == request[r].review IN
    /\ At(r, "readPublished")
    /\ request' = [request EXCEPT
          ![r].next = "insertPhoto",
          ![r].published = IF Exists(i) THEN review[i].published ELSE None]
    /\ UNCHANGED <<rows, files, enrolled, calls, history>>

\* The owner is no foreign key: the review may be gone.
InsertPhoto(r) ==
    LET q == request[r] IN
    /\ At(r, "insertPhoto")
    /\ photo' = [photo EXCEPT ![q.photo] =
                    [review |-> q.review, published |-> q.published # None]]
    /\ Finish(r)
    /\ UNCHANGED <<review, created, files, enrolled, calls, history>>

RemovePhoto(r, p) ==
    /\ photo[p] # None
    /\ Exists(photo[p].review)
    /\ Start(r, [NewCall EXCEPT !.next = "deleteObject", !.photo = p])

\* Deleting an object that is gone is no error in the store.
DeleteObject(r) ==
    /\ At(r, "deleteObject")
    /\ stored' = stored \ {request[r].photo}
    /\ Goto(r, "deletePhoto")
    /\ UNCHANGED <<rows, uploads, enrolled, calls, history>>

DeletePhoto(r) ==
    LET p == request[r].photo IN
    /\ At(r, "deletePhoto")
    /\ \/ /\ photo[p] # None
          /\ photo' = [photo EXCEPT ![p] = None]
          /\ Finish(r)
          /\ UNCHANGED <<review, created, files, enrolled, calls, history>>
       \/ photo[p] = None /\ Refuse(r)

-----------------------------------------------------------------------------
\* The store or Postgres fails, or the process stops, before the next call.
RequestDies(r) ==
    /\ Busy(r)
    /\ Finish(r)
    /\ broken' = TRUE
    /\ UNCHANGED <<rows, files, enrolled, calls, approved, overlapped>>

\* Enrolments are cancelled and restored elsewhere.
EnrollmentChanges ==
    /\ enrolled' = ~enrolled
    /\ UNCHANGED <<rows, files, request, calls, history>>

Calls(r) ==
    \/ \E t \in Texts : Create(r, t)
    \/ \E i \in Ids :
          \/ \E t \in Texts : Update(r, i, t)
          \/ Remove(r, i)
          \/ \E verdict \in {"APPROVED", "REJECTED"} : Moderate(r, i, verdict)
          \/ \E p \in Photos : Upload(r, i, p)
    \/ \E p \in Photos : RemovePhoto(r, p)

Steps(r) ==
    \/ FindReview(r) \/ WriteReview(r) \/ EditReview(r) \/ PublishPhotos(r)
    \/ ListPhotos(r) \/ ListDrafts(r) \/ DeleteObjects(r) \/ DeleteRows(r)
    \/ DeleteReview(r) \/ Approve(r) \/ Restore(r) \/ Reject(r)
    \/ PutObject(r) \/ ReadPublished(r) \/ InsertPhoto(r)
    \/ DeleteObject(r) \/ DeletePhoto(r)

Next ==
    \/ \E r \in Requests : Calls(r) \/ Steps(r) \/ RequestDies(r)
    \/ EnrollmentChanges

Spec == Init /\ [][Next]_vars

-----------------------------------------------------------------------------
(***************************************************************************)
(* Properties.                                                             *)
(***************************************************************************)

AtRest == \A r \in Requests : ~Busy(r)

\* Whatever the interleaving, a review is in the catalogue only if a moderator
\* has approved it once: editing publishes only what was published before.
InCatalogueOnceApproved ==
    \A i \in Existing : review[i].published # None => i \in approved

\* Calls that do not overlap leave no second version of a review: an approved
\* one is in the catalogue as its author last wrote it with all its photos,
\* any other one is not in the catalogue and has no published photo.
CatalogueIsCurrent ==
    AtRest /\ ~overlapped /\ ~broken => \A i \in Existing :
        IF review[i].status = "APPROVED"
          THEN /\ review[i].published = review[i].text
               /\ \A p \in PhotosOf(i) : photo[p].published
          ELSE /\ review[i].published = None
               /\ \A p \in PhotosOf(i) : ~photo[p].published

\* A review has no more photos than allowed, unless two uploads overlap.
PhotosWithinLimit ==
    ~overlapped => \A i \in Ids : Cardinality(PhotosOf(i)) <= MaxReviewPhotos

\* Objects and rows: every row has its object, however requests overlap; every
\* object has a row of an existing review, if they do not.
PhotosAccounted ==
    AtRest /\ ~broken =>
        /\ \A p \in Photos : photo[p] # None => p \in stored
        /\ ~overlapped => stored = UNION {PhotosOf(i) : i \in Existing}

\* The photos of a review: none too many, none without its object, and no
\* object left behind.
PhotosKept == PhotosWithinLimit /\ PhotosAccounted

-----------------------------------------------------------------------------
(***************************************************************************)
(* What the documentation says and the code does not keep.                 *)
(***************************************************************************)

\* src/reviews/reviews.service.ts:195, "Already in catalog: apply edit
\* immediately (no stale duplicate)": an approved review is in the catalogue
\* as its author last wrote it.  An edit between the moderator's read and
\* write leaves the older text in the catalogue.
NoStaleDuplicate ==
    \A i \in Existing : review[i].status = "APPROVED" => review[i].published = review[i].text

=============================================================================
