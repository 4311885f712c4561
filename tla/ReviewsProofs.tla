--------------------------- MODULE ReviewsProofs ----------------------------
(***************************************************************************)
(* Theorems of module Reviews, for any texts, photos and requests.         *)
(*                                                                         *)
(* A request decides by what it read whether it may publish.  It may trust *)
(* it (CallSound): a text read as published means the review has been      *)
(* approved, and an approval is never taken back.                          *)
(***************************************************************************)
EXTENDS Reviews, FiniteSetTheorems, TLAPS

OnReview == {"editReview", "publishPhotos", "approve", "listDrafts", "restore", "reject",
             "listPhotos", "deleteObjects", "deleteRows", "deleteReview",
             "putObject", "readPublished", "insertPhoto"}
OnPhoto  == {"putObject", "readPublished", "insertPhoto", "deleteObject", "deletePhoto"}
Clearing == {"listPhotos", "listDrafts", "deleteObjects", "deleteRows"}

\* What a call under way can rely on.
CallSound(q) ==
    /\ q.next \in OnReview => q.review \in Ids
    /\ q.next \in OnPhoto => q.photo \in Photos
    /\ q.next \in {"findReview", "writeReview", "editReview", "approve"} => q.text \in Texts
    /\ q.next \in OnPhoto \cup {"findReview", "editReview"} => q.then = None
    /\ q.next = "publishPhotos" => q.then \in {None, "approve"}
    /\ q.then = "approve" => q.text \in Texts
    /\ q.next \in Clearing => q.then \in {"deleteReview", "restore"}
    /\ q.then = "restore" \/ q.next = "restore" => q.published \in Texts
    /\ q.then = "restore" \/ q.next = "restore" \/ (q.next = "editReview" /\ q.published # None) =>
          q.review \in approved

CallsSound == \A r \in Requests : Busy(r) => CallSound(request[r])

IndInv ==
    /\ TypeOK
    /\ CallsSound
    /\ InCatalogueOnceApproved

-----------------------------------------------------------------------------
LEMMA InitHolds == ASSUME Init PROVE IndInv
<1>1. created = 0 /\ calls = 0 /\ 0 \in 0 .. MaxReviews /\ 0 \in 0 .. MaxCalls
  BY ReviewsAssumption DEF Init
<1>2. TypeOK
  BY <1>1 DEF Init, TypeOK
<1>3. \A r \in Requests : ~Busy(r)
  BY DEF Init, Busy
<1>4. Existing = {}
  BY DEF Init, Existing, Exists
<1> QED BY <1>2, <1>3, <1>4 DEF IndInv, CallsSound, InCatalogueOnceApproved

\* A call that begins.
LEMMA StartHolds ==
    ASSUME IndInv, NEW r \in Requests, NEW c \in InFlight, CallSound(c), Start(r, c)
    PROVE  IndInv'
<1>1. TypeOK'
  <2>1. calls' \in 0 .. MaxCalls
    BY ReviewsAssumption DEF IndInv, TypeOK, Start
  <2>2. overlapped' \in BOOLEAN
    BY DEF Start
  <2> QED BY <2>1, <2>2 DEF IndInv, TypeOK, Start, rows, files
<1>2. CallsSound'
  BY DEF IndInv, TypeOK, CallsSound, CallSound, Busy, Start
<1>3. InCatalogueOnceApproved'
  BY DEF IndInv, InCatalogueOnceApproved, Existing, Exists, Start, rows
<1> QED BY <1>1, <1>2, <1>3 DEF IndInv

\* A step that changes no review: q is what the call has still to do.
LEMMA GoHolds ==
    ASSUME IndInv, NEW r \in Requests,
           NEW q \in InFlight \cup {None}, q # None => CallSound(q),
           request' = [request EXCEPT ![r] = q],
           photo' \in [Photos -> Photo \cup {None}],
           stored' \subseteq Photos, uploads' \subseteq Photos, broken' \in BOOLEAN,
           UNCHANGED <<review, created, enrolled, calls, approved, overlapped>>
    PROVE  IndInv'
<1>1. TypeOK'
  BY DEF IndInv, TypeOK
<1>2. CallsSound'
  BY DEF IndInv, TypeOK, CallsSound, CallSound, Busy
<1>3. InCatalogueOnceApproved'
  BY DEF IndInv, InCatalogueOnceApproved, Existing, Exists
<1> QED BY <1>1, <1>2, <1>3 DEF IndInv

\* A step that writes the row of review i.
LEMMA RowHolds ==
    ASSUME IndInv, NEW r \in Requests, NEW i \in Ids, NEW row \in Review \cup {None},
           NEW q \in InFlight \cup {None}, q # None => CallSound(q),
           review' = [review EXCEPT ![i] = row],
           request' = [request EXCEPT ![r] = q],
           created' \in 0 .. MaxReviews,
           approved \subseteq approved', approved' \subseteq Ids,
           row # None /\ row.published # None => i \in approved',
           UNCHANGED <<photo, files, enrolled, calls, overlapped, broken>>
    PROVE  IndInv'
<1>1. TypeOK'
  BY DEF IndInv, TypeOK, files
<1>2. CallsSound'
  BY DEF IndInv, TypeOK, CallsSound, CallSound, Busy
<1>3. InCatalogueOnceApproved'
  BY DEF IndInv, TypeOK, InCatalogueOnceApproved, Existing, Exists
<1> QED BY <1>1, <1>2, <1>3 DEF IndInv

LEMMA RefuseHolds ==
    ASSUME IndInv, NEW r \in Requests, Refuse(r)
    PROVE  IndInv'
BY GoHolds DEF Refuse, Finish, IndInv, TypeOK, rows, files, history

-----------------------------------------------------------------------------
LEMMA NewCallTyped == NewCall \in InFlight
BY DEF NewCall, InFlight, Call

LEMMA CallsHold ==
    ASSUME IndInv, NEW r \in Requests, Calls(r)
    PROVE  IndInv'
<1>1. ASSUME NEW t \in Texts, Create(r, t)
      PROVE  IndInv'
  <2> DEFINE c == [NewCall EXCEPT !.text = t]
  <2>1. c \in InFlight
    BY NewCallTyped DEF InFlight, Call
  <2>2. c.next = "findReview" /\ c.review = None /\ c.photo = None /\ c.text = t /\ c.then = None
    BY DEF NewCall
  <2>3. CallSound(c)
    BY <2>2, ReviewsAssumption DEF CallSound, OnReview, OnPhoto, Clearing
  <2> QED BY <1>1, <2>1, <2>3, StartHolds DEF Create
<1>2. ASSUME NEW i \in Ids, NEW t \in Texts, Update(r, i, t)
      PROVE  IndInv'
  <2> DEFINE c == [NewCall EXCEPT !.next = "editReview", !.review = i, !.text = t,
                                  !.published = review[i].published]
  <2>1. review[i] \in Review /\ (review[i].published # None => i \in approved)
    BY <1>2 DEF Update, Exists, Existing, IndInv, TypeOK, InCatalogueOnceApproved
  <2>2. review[i].published \in Texts \cup {None}
    BY <2>1 DEF Review
  <2>3. c \in InFlight
    BY <2>2, NewCallTyped DEF InFlight, Call
  <2>4. /\ c.next = "editReview" /\ c.review = i /\ c.text = t /\ c.then = None
        /\ c.published = review[i].published
    BY DEF NewCall
  <2>5. CallSound(c)
    BY <2>1, <2>4, ReviewsAssumption DEF CallSound, OnReview, OnPhoto, Clearing
  <2> QED BY <1>2, <2>3, <2>5, StartHolds DEF Update
<1>3. ASSUME NEW i \in Ids, Remove(r, i)
      PROVE  IndInv'
  <2> DEFINE c == [NewCall EXCEPT !.next = "listPhotos", !.review = i, !.then = "deleteReview"]
  <2>1. c \in InFlight
    BY NewCallTyped DEF InFlight, Call
  <2>2. c.next = "listPhotos" /\ c.review = i /\ c.photo = None /\ c.text = None /\ c.then = "deleteReview"
    BY DEF NewCall
  <2>3. CallSound(c)
    BY <2>2, ReviewsAssumption DEF CallSound, OnReview, OnPhoto, Clearing
  <2> QED BY <1>3, <2>1, <2>3, StartHolds DEF Remove
<1>4. ASSUME NEW i \in Ids, NEW verdict \in {"APPROVED", "REJECTED"}, Moderate(r, i, verdict)
      PROVE  IndInv'
  <2> DEFINE next == CASE verdict = "APPROVED" -> "publishPhotos"
                       [] review[i].published # None -> "listDrafts"
                       [] OTHER -> "reject"
             then == CASE verdict = "APPROVED" -> "approve"
                       [] review[i].published # None -> "restore"
                       [] OTHER -> None
             c == [NewCall EXCEPT !.next = next, !.then = then, !.review = i,
                                  !.text = review[i].text, !.published = review[i].published]
  <2>1. review[i] \in Review /\ (review[i].published # None => i \in approved)
    BY <1>4 DEF Moderate, Exists, Existing, IndInv, TypeOK, InCatalogueOnceApproved
  <2>2. \/ next = "publishPhotos" /\ then = "approve"
        \/ next = "listDrafts" /\ then = "restore" /\ review[i].published # None
        \/ next = "reject" /\ then = None
    OBVIOUS
  <2>3. review[i].text \in Texts /\ review[i].published \in Texts \cup {None}
    BY <2>1 DEF Review
  <2> HIDE DEF next, then
  <2>4. /\ c.next = next /\ c.then = then /\ c.review = i /\ c.text = review[i].text
        /\ c.published = review[i].published
    BY DEF NewCall
  <2>6. c \in InFlight /\ CallSound(c)
    <3>1. next \in Call /\ then \in {"approve", "restore", "deleteReview", None}
      BY <2>2 DEF Call
    <3>2. c \in InFlight
      BY <2>3, <3>1, NewCallTyped DEF InFlight
    <3>3. CallSound(c)
      BY <2>1, <2>2, <2>3, <2>4, ReviewsAssumption DEF CallSound, OnReview, OnPhoto, Clearing
    <3> QED BY <3>2, <3>3
  <2>5. Start(r, c)
    BY <1>4 DEF Moderate, next, then
  <2> HIDE DEF c
  <2> QED BY <2>5, <2>6, StartHolds
<1>5. ASSUME NEW i \in Ids, NEW p \in Photos, Upload(r, i, p)
      PROVE  IndInv'
  <2> DEFINE c == [NewCall EXCEPT !.next = "putObject", !.review = i, !.photo = p]
  <2>1. c \in InFlight
    BY NewCallTyped DEF InFlight, Call
  <2>2. c.next = "putObject" /\ c.review = i /\ c.photo = p /\ c.text = None /\ c.then = None
    BY DEF NewCall
  <2>3. CallSound(c)
    BY <2>2, ReviewsAssumption DEF CallSound, OnReview, OnPhoto, Clearing
  <2> QED BY <1>5, <2>1, <2>3, StartHolds DEF Upload
<1>6. ASSUME NEW p \in Photos, RemovePhoto(r, p)
      PROVE  IndInv'
  <2> DEFINE c == [NewCall EXCEPT !.next = "deleteObject", !.photo = p]
  <2>1. c \in InFlight
    BY NewCallTyped DEF InFlight, Call
  <2>2. c.next = "deleteObject" /\ c.review = None /\ c.photo = p /\ c.text = None /\ c.then = None
    BY DEF NewCall
  <2>3. CallSound(c)
    BY <2>2, ReviewsAssumption DEF CallSound, OnReview, OnPhoto, Clearing
  <2> QED BY <1>6, <2>1, <2>3, StartHolds DEF RemovePhoto
<1> QED BY <1>1, <1>2, <1>3, <1>4, <1>5, <1>6 DEF Calls

-----------------------------------------------------------------------------
(***************************************************************************)
(* The steps of a call.                                                    *)
(***************************************************************************)
LEMMA Underway ==
    ASSUME IndInv, NEW r \in Requests, NEW s, At(r, s)
    PROVE  /\ request[r] \in InFlight /\ request[r].next = s
           /\ CallSound(request[r])
BY DEF At, Busy, IndInv, TypeOK, CallsSound

LEMMA ReviewStepsHold ==
    ASSUME IndInv, NEW r \in Requests,
           WriteReview(r) \/ EditReview(r) \/ DeleteReview(r)
             \/ Approve(r) \/ Restore(r) \/ Reject(r)
    PROVE  IndInv'
<1> DEFINE q == request[r]
           i == q.review
<1>1. /\ approved \subseteq Ids /\ created \in 0 .. MaxReviews
      /\ \A j \in Ids : Exists(j) => review[j] \in Review
      /\ \A j \in Ids : Exists(j) /\ review[j].published # None => j \in approved
  BY DEF IndInv, TypeOK, Exists, Existing, InCatalogueOnceApproved
<1>2. ASSUME Refuse(r) PROVE IndInv'
  BY <1>2, RefuseHolds
<1>3. ASSUME NEW j \in Ids, NEW row \in Review \cup {None}, SetReview(j, row), Finish(r),
             created' \in 0 .. MaxReviews, approved \subseteq approved', approved' \subseteq Ids,
             row # None /\ row.published # None => j \in approved',
             UNCHANGED <<photo, files, enrolled, calls, overlapped, broken>>
      PROVE  IndInv'
  BY <1>3, RowHolds DEF SetReview, Finish
<1>4. ASSUME WriteReview(r) PROVE IndInv'
  <2>1. q \in InFlight /\ q.text \in Texts
    BY <1>4, Underway DEF WriteReview, CallSound
  <2>2. CASE Refuse(r)
    BY <2>2, <1>2
  <2>3. CASE /\ created < MaxReviews /\ created' = created + 1
             /\ SetReview(created + 1, [text |-> q.text, published |-> None, status |-> "PENDING"])
             /\ Finish(r) /\ UNCHANGED <<photo, files, enrolled, calls, history>>
    <3>1. created + 1 \in Ids /\ created' \in 0 .. MaxReviews
      BY <1>1, <2>3, ReviewsAssumption DEF Ids
    <3>2. [text |-> q.text, published |-> None, status |-> "PENDING"] \in Review
      BY <2>1 DEF Review
    <3> QED BY <1>1, <1>3, <2>3, <3>1, <3>2 DEF history
  <2>4. CASE /\ i # None /\ i \in Existing
             /\ SetReview(i, [review[i] EXCEPT !.text = q.text, !.status = "PENDING"])
             /\ Finish(r) /\ UNCHANGED <<created, photo, files, enrolled, calls, history>>
    <3> DEFINE row == [review[i] EXCEPT !.text = q.text, !.status = "PENDING"]
    <3>1. i \in Ids /\ Exists(i)
      BY <2>4 DEF Existing
    <3>2. row \in Review /\ row.published = review[i].published
      BY <1>1, <2>1, <3>1 DEF Review
    <3> QED BY <1>1, <1>3, <2>4, <3>1, <3>2 DEF history
  <2> QED BY <1>4, <2>2, <2>3, <2>4 DEF WriteReview
<1>5. ASSUME EditReview(r) PROVE IndInv'
  <2>1. q \in InFlight /\ i \in Ids /\ q.text \in Texts
        /\ (q.published # None => i \in approved) /\ CallSound(q) /\ q.next = "editReview"
    BY <1>5, Underway DEF EditReview, CallSound, OnReview
  <2>2. CASE Refuse(r)
    BY <2>2, <1>2
  <2>3. CASE /\ q.published # None
             /\ SetReview(i, [text |-> q.text, published |-> q.text, status |-> "APPROVED"])
             /\ Goto(r, "publishPhotos")
             /\ UNCHANGED <<created, photo, files, enrolled, calls, history>>
    <3> DEFINE row == [text |-> q.text, published |-> q.text, status |-> "APPROVED"]
               p == [q EXCEPT !.next = "publishPhotos"]
    <3>1. row \in Review
      BY <2>1 DEF Review
    <3>2. p \in InFlight
      BY <2>1 DEF InFlight, Call
    <3>3. p.next = "publishPhotos" /\ p.review = i /\ p.then = q.then /\ p.text = q.text
          /\ p.published = q.published
      BY <2>1 DEF InFlight
    <3>4. CallSound(p)
      BY <2>1, <2>3, <3>3, ReviewsAssumption DEF CallSound, OnReview, OnPhoto, Clearing
    <3>5. request' = [request EXCEPT ![r] = p]
      BY <2>3 DEF Goto
    <3> HIDE DEF p, row
    <3> QED BY <1>1, <2>1, <2>3, <3>1, <3>2, <3>4, <3>5, RowHolds DEF SetReview, history, row
  <2>4. CASE /\ Exists(i) /\ q.published = None
             /\ SetReview(i, [review[i] EXCEPT !.text = q.text, !.status = "PENDING"])
             /\ Finish(r) /\ UNCHANGED <<created, photo, files, enrolled, calls, history>>
    <3> DEFINE row == [review[i] EXCEPT !.text = q.text, !.status = "PENDING"]
    <3>2. row \in Review /\ row.published = review[i].published
      BY <1>1, <2>1, <2>4 DEF Review
    <3> QED BY <1>1, <1>3, <2>1, <2>4, <3>2 DEF history
  <2> QED BY <1>5, <2>2, <2>3, <2>4 DEF EditReview
<1>6. ASSUME DeleteReview(r) PROVE IndInv'
  <2>1. i \in Ids
    BY <1>6, Underway DEF DeleteReview, CallSound, OnReview
  <2>2. CASE Refuse(r)
    BY <2>2, <1>2
  <2>3. CASE SetReview(i, None) /\ Finish(r)
             /\ UNCHANGED <<created, photo, files, enrolled, calls, history>>
    BY <1>1, <1>3, <2>1, <2>3 DEF history
  <2> QED BY <1>6, <2>2, <2>3 DEF DeleteReview
<1>7. ASSUME i \in Ids, NEW row, Exists(i) => row \in Review, Verdict(r, row),
             Exists(i) /\ row.published # None => q.next = "approve" \/ i \in approved
      PROVE  IndInv'
  <2>1. CASE Refuse(r)
    BY <2>1, <1>2
  <2>2. CASE /\ Exists(i) /\ SetReview(i, row) /\ Finish(r)
             /\ approved' = IF q.next = "approve" THEN approved \cup {i} ELSE approved
             /\ UNCHANGED <<created, photo, files, enrolled, calls, overlapped, broken>>
    BY <1>1, <1>3, <1>7, <2>2
  <2> QED BY <1>7, <2>1, <2>2 DEF Verdict
<1>8. ASSUME Approve(r) PROVE IndInv'
  <2>1. q.next = "approve" /\ i \in Ids /\ q.text \in Texts
    BY <1>8, Underway DEF Approve, CallSound, OnReview
  <2>2. Exists(i) => [review[i] EXCEPT !.published = q.text, !.status = "APPROVED"] \in Review
    BY <1>1, <2>1 DEF Review
  <2> QED BY <1>7, <1>8, <2>1, <2>2 DEF Approve
<1>9. ASSUME Restore(r) PROVE IndInv'
  <2>1. i \in Ids /\ q.published \in Texts /\ i \in approved
    BY <1>9, Underway DEF Restore, CallSound, OnReview
  <2>2. Exists(i) => [review[i] EXCEPT !.text = q.published, !.status = "APPROVED"] \in Review
    BY <1>1, <2>1 DEF Review
  <2> QED BY <1>7, <1>9, <2>1, <2>2 DEF Restore
<1>10. ASSUME Reject(r) PROVE IndInv'
  <2>1. i \in Ids
    BY <1>10, Underway DEF Reject, CallSound, OnReview
  <2>2. Exists(i) => /\ [review[i] EXCEPT !.status = "REJECTED"] \in Review
                     /\ [review[i] EXCEPT !.status = "REJECTED"].published = review[i].published
    BY <1>1, <2>1 DEF Review
  <2> QED BY <1>1, <1>7, <1>10, <2>1, <2>2 DEF Reject
<1> QED BY <1>4, <1>5, <1>6, <1>8, <1>9, <1>10

LEMMA OtherStepsHold ==
    ASSUME IndInv, NEW r \in Requests,
           \/ FindReview(r) \/ PublishPhotos(r) \/ ListPhotos(r) \/ ListDrafts(r)
           \/ DeleteObjects(r) \/ DeleteRows(r) \/ PutObject(r) \/ ReadPublished(r)
           \/ InsertPhoto(r) \/ DeleteObject(r) \/ DeletePhoto(r) \/ RequestDies(r)
    PROVE  IndInv'
<1> DEFINE q == request[r]
<1> USE DEF rows, files, history
<1>1. /\ photo \in [Photos -> Photo \cup {None}] /\ stored \subseteq Photos
      /\ uploads \subseteq Photos /\ broken \in BOOLEAN
      /\ review \in [Ids -> Review \cup {None}]
  BY DEF IndInv, TypeOK
<1>2. ASSUME FindReview(r) PROVE IndInv'
  <2> DEFINE found == IF Existing = {} THEN None ELSE CHOOSE i \in Existing : TRUE
             p == [q EXCEPT !.next = "writeReview", !.review = found]
  <2>1. q \in InFlight /\ q.next = "findReview" /\ CallSound(q)
    BY <1>2, Underway DEF FindReview
  <2>2. found \in Ids \cup {None}
    BY DEF Existing
  <2> HIDE DEF found
  <2>3. p \in InFlight
    BY <2>1, <2>2 DEF InFlight, Call
  <2>4. p.next = "writeReview" /\ p.then = q.then /\ p.text = q.text
    BY <2>1 DEF InFlight
  <2>5. CallSound(p)
    BY <2>1, <2>4, ReviewsAssumption DEF CallSound, OnReview, OnPhoto, Clearing
  <2>6. request' = [request EXCEPT ![r] = p]
    BY <1>2 DEF FindReview, found
  <2> HIDE DEF p
  <2> QED BY <1>1, <1>2, <2>3, <2>5, <2>6, GoHolds DEF FindReview
<1>3. ASSUME NEW s \in Call, q \in InFlight, CallSound(q), Goto(r, s),
             s \in OnReview => q.review \in Ids,
             s \in OnPhoto => q.photo \in Photos,
             s \in {"editReview", "approve"} => q.text \in Texts,
             s \notin {"findReview", "writeReview", "editReview", "publishPhotos"},
             s \in OnPhoto => q.then = None,
             s \in Clearing => q.then \in {"deleteReview", "restore"},
             s = "restore" => q.published \in Texts /\ q.review \in approved,
             photo' \in [Photos -> Photo \cup {None}],
             stored' \subseteq Photos, uploads' \subseteq Photos, broken' \in BOOLEAN,
             UNCHANGED <<review, created, enrolled, calls, approved, overlapped>>
      PROVE  IndInv'
  <2> DEFINE p == [q EXCEPT !.next = s]
  <2>1. p \in InFlight
    BY <1>3 DEF InFlight
  <2>2. p.next = s /\ p.review = q.review /\ p.then = q.then /\ p.text = q.text
        /\ p.published = q.published /\ p.photo = q.photo
    BY <1>3 DEF InFlight
  <2>3. CallSound(p)
    BY <1>3, <2>2 DEF CallSound
  <2>4. request' = [request EXCEPT ![r] = p]
    BY <1>3 DEF Goto
  <2> HIDE DEF p
  <2> QED BY <1>3, <2>1, <2>3, <2>4, GoHolds
<1>4. ASSUME Finish(r),
             photo' \in [Photos -> Photo \cup {None}],
             stored' \subseteq Photos, uploads' \subseteq Photos, broken' \in BOOLEAN,
             UNCHANGED <<review, created, enrolled, calls, approved, overlapped>>
      PROVE  IndInv'
  BY <1>4, GoHolds DEF Finish
<1>5. ASSUME PublishPhotos(r) PROVE IndInv'
  <2>1. q \in InFlight /\ q.next = "publishPhotos" /\ CallSound(q)
    BY <1>5, Underway DEF PublishPhotos
  <2>2. photo' \in [Photos -> Photo \cup {None}]
    BY <1>1, <1>5 DEF PublishPhotos, PhotosOf, Photo
  <2>3. CASE q.then = None
    BY <1>1, <1>4, <1>5, <2>2, <2>3 DEF PublishPhotos
  <2>4. CASE q.then # None
    <3>1. q.then = "approve" /\ q.review \in Ids /\ q.text \in Texts
      BY <2>1, <2>4 DEF CallSound, OnReview
    <3>2. Goto(r, "approve")
      BY <1>5, <2>4, <3>1 DEF PublishPhotos
    <3> QED BY <1>1, <1>3, <1>5, <2>1, <2>2, <3>1, <3>2
            DEF PublishPhotos, Call, OnPhoto, Clearing
  <2> QED BY <2>3, <2>4
<1>6. ASSUME ListPhotos(r) \/ ListDrafts(r) PROVE IndInv'
  <2>1. PICK s \in {"listPhotos", "listDrafts"}, found \in SUBSET Photos :
          /\ At(r, s)
          /\ request' = [request EXCEPT ![r].next = "deleteObjects", ![r].found = found]
    BY <1>6 DEF ListPhotos, ListDrafts, PhotosOf
  <2> DEFINE p == [q EXCEPT !.next = "deleteObjects", !.found = found]
  <2>2. q \in InFlight /\ q.next = s /\ CallSound(q)
    BY <2>1, Underway
  <2>3. p \in InFlight
    BY <2>2 DEF InFlight, Call
  <2>4. p.next = "deleteObjects" /\ p.then = q.then /\ p.text = q.text /\ p.review = q.review
        /\ p.published = q.published
    BY <2>2 DEF InFlight
  <2>5. CallSound(p)
    BY <2>2, <2>4 DEF CallSound, OnReview, OnPhoto, Clearing
  <2>6. request' = [request EXCEPT ![r] = p]
    BY <2>1
  <2> HIDE DEF p
  <2> QED BY <1>1, <1>6, <2>3, <2>5, <2>6, GoHolds DEF ListPhotos, ListDrafts
<1>7. ASSUME DeleteObjects(r) PROVE IndInv'
  <2>1. q \in InFlight /\ q.next = "deleteObjects" /\ CallSound(q)
    BY <1>7, Underway DEF DeleteObjects
  <2>2. stored' \subseteq Photos /\ broken' \in BOOLEAN
    BY <1>1, <1>7 DEF DeleteObjects
  <2>3. q.review \in Ids /\ q.then \in {"deleteReview", "restore"}
    BY <2>1 DEF CallSound, OnReview, Clearing
  <2> QED BY <1>1, <1>3, <1>7, <2>1, <2>2, <2>3 DEF DeleteObjects, Call, OnPhoto
<1>8. ASSUME DeleteRows(r) PROVE IndInv'
  <2>1. q \in InFlight /\ q.next = "deleteRows" /\ CallSound(q)
    BY <1>8, Underway DEF DeleteRows
  <2>2. photo' \in [Photos -> Photo \cup {None}]
    BY <1>1, <1>8 DEF DeleteRows
  <2>3. /\ q.review \in Ids /\ q.then \in {"deleteReview", "restore"}
        /\ q.then = "restore" => q.published \in Texts /\ q.review \in approved
    BY <2>1 DEF CallSound, OnReview, Clearing
  <2>4. /\ q.then \in Call /\ q.then \notin OnPhoto \cup Clearing
        /\ q.then \notin {"findReview", "writeReview", "editReview", "publishPhotos", "approve"}
    BY <2>3 DEF Call, OnPhoto, Clearing
  <2>5. Goto(r, q.then) /\ UNCHANGED <<review, created, files, enrolled, calls, history>>
    BY <1>8 DEF DeleteRows
  <2> QED BY <1>1, <1>3, <2>1, <2>2, <2>3, <2>4, <2>5
<1>9. ASSUME PutObject(r) PROVE IndInv'
  <2>1. q \in InFlight /\ q.next = "putObject" /\ CallSound(q)
    BY <1>9, Underway DEF PutObject
  <2>2. q.review \in Ids /\ q.photo \in Photos /\ q.then = None
    BY <2>1 DEF CallSound, OnReview, OnPhoto
  <2> QED BY <1>1, <1>3, <1>9, <2>1, <2>2 DEF PutObject, Call, Clearing
<1>10. ASSUME ReadPublished(r) PROVE IndInv'
  <2> DEFINE published == IF Exists(q.review) THEN review[q.review].published ELSE None
             p == [q EXCEPT !.next = "insertPhoto", !.published = published]
  <2>1. q \in InFlight /\ q.next = "readPublished" /\ CallSound(q)
    BY <1>10, Underway DEF ReadPublished
  <2>2. q.review \in Ids /\ q.photo \in Photos /\ q.then = None
    BY <2>1 DEF CallSound, OnReview, OnPhoto
  <2>3. published \in Texts \cup {None}
    BY <1>1, <2>2 DEF Exists, Review
  <2>4. request' = [request EXCEPT ![r] = p]
    BY <1>10 DEF ReadPublished
  <2> HIDE DEF published
  <2>5. p \in InFlight
    BY <2>1, <2>3 DEF InFlight, Call
  <2>6. p.next = "insertPhoto" /\ p.then = q.then /\ p.review = q.review /\ p.photo = q.photo
    BY <2>1 DEF InFlight
  <2>7. CallSound(p)
    BY <2>2, <2>6, ReviewsAssumption DEF CallSound, OnReview, OnPhoto, Clearing
  <2> HIDE DEF p
  <2> QED BY <1>1, <1>10, <2>4, <2>5, <2>7, GoHolds DEF ReadPublished
<1>11. ASSUME InsertPhoto(r) PROVE IndInv'
  <2>1. q.review \in Ids /\ q.photo \in Photos
    BY <1>11, Underway DEF InsertPhoto, CallSound, OnReview, OnPhoto
  <2>2. photo' \in [Photos -> Photo \cup {None}]
    BY <1>1, <1>11, <2>1 DEF InsertPhoto, Photo
  <2> QED BY <1>1, <1>4, <1>11, <2>2 DEF InsertPhoto
<1>12. ASSUME DeleteObject(r) PROVE IndInv'
  <2>1. q \in InFlight /\ q.next = "deleteObject" /\ CallSound(q)
    BY <1>12, Underway DEF DeleteObject
  <2>2. q.photo \in Photos /\ q.then = None
    BY <2>1 DEF CallSound, OnPhoto
  <2> QED BY <1>1, <1>3, <1>12, <2>1, <2>2 DEF DeleteObject, Call, OnReview, Clearing
<1>13. ASSUME DeletePhoto(r) PROVE IndInv'
  <2>1. CASE Refuse(r)
    BY <2>1, RefuseHolds
  <2>2. CASE /\ photo' = [photo EXCEPT ![q.photo] = None] /\ Finish(r)
             /\ UNCHANGED <<review, created, files, enrolled, calls, history>>
    BY <1>1, <1>4, <2>2
  <2> QED BY <1>13, <2>1, <2>2 DEF DeletePhoto
<1>14. ASSUME RequestDies(r) PROVE IndInv'
  BY <1>1, <1>4, <1>14 DEF RequestDies
<1> QED BY <1>2, <1>5, <1>6, <1>7, <1>8, <1>9, <1>10, <1>11, <1>12, <1>13, <1>14

LEMMA StepHolds ==
    ASSUME IndInv, [Next]_vars
    PROVE  IndInv'
<1>1. ASSUME NEW r \in Requests, Calls(r) \/ Steps(r) \/ RequestDies(r)
      PROVE  IndInv'
  BY <1>1, CallsHold, ReviewStepsHold, OtherStepsHold DEF Steps
<1>2. CASE EnrollmentChanges \/ UNCHANGED vars
  <2>1. TypeOK'
    BY <1>2 DEF EnrollmentChanges, vars, rows, files, history, IndInv, TypeOK
  <2>2. CallsSound' /\ InCatalogueOnceApproved'
    BY <1>2 DEF EnrollmentChanges, vars, rows, files, history, IndInv, CallsSound, CallSound, Busy,
                InCatalogueOnceApproved, Existing, Exists
  <2> QED BY <2>1, <2>2 DEF IndInv
<1> QED BY <1>1, <1>2 DEF Next

-----------------------------------------------------------------------------
(***************************************************************************)
(* Rows and objects, however the requests overlap.                         *)
(***************************************************************************)

\* q will insert the row of photo p, whose object is stored.
Inserting(q, p) == q # None /\ q.next \in {"readPublished", "insertPhoto"} /\ q.photo = p

\* q has deleted the object of p and will delete its row.
RowGoing(q, p) ==
    /\ q # None
    /\ \/ q.next = "deleteRows" /\ p \in q.found
       \/ q.next = "deletePhoto" /\ q.photo = p

\* q will delete the object of p, or its row.
Deleting(q, p) ==
    \/ RowGoing(q, p)
    \/ q # None /\ \/ q.next = "deleteObjects" /\ p \in q.found
                   \/ q.next = "deleteObject" /\ q.photo = p

\* A photo is uploaded by one request, and is not deleted before it has its
\* row; a row without its object is one that a request is about to delete.
InsertsAlone(r, p) ==
    Inserting(request[r], p) =>
        /\ p \in uploads /\ p \in stored /\ photo[p] = None
        /\ \A s \in Requests : Inserting(request[s], p) => s = r

DeletesKnown(r, p) ==
    Deleting(request[r], p) => p \in uploads /\ \A s \in Requests : ~Inserting(request[s], p)

FileInv ==
    /\ \A p \in Photos : photo[p] # None => p \in uploads
    /\ \A r \in Requests, p \in Photos : InsertsAlone(r, p) /\ DeletesKnown(r, p)
    /\ ~broken => \A p \in Photos : photo[p] # None /\ p \notin stored =>
          \E r \in Requests : RowGoing(request[r], p)

LEMMA FileInit == ASSUME Init PROVE FileInv
BY DEF Init, FileInv, InsertsAlone, DeletesKnown, Inserting, Deleting, RowGoing

\* A step of r that leaves the files alone: q inserts no photo that r did not
\* insert already, and deletes no other photo than those that have a row.
LEMMA FileGoes ==
    ASSUME IndInv, FileInv, NEW r \in Requests, NEW q,
           request' = [request EXCEPT ![r] = q],
           \A p \in Photos : (photo'[p] = None) = (photo[p] = None),
           UNCHANGED files, broken => broken',
           \A p \in Photos : Inserting(q, p) => Inserting(request[r], p),
           \A p \in Photos : Deleting(q, p) => photo[p] # None \/ Deleting(request[r], p),
           ~broken' => \A p \in Photos : RowGoing(request[r], p) => RowGoing(q, p) \/ photo[p] = None
    PROVE  FileInv'
<1>1. request'[r] = q /\ \A s \in Requests : s # r => request'[s] = request[s]
  BY DEF IndInv, TypeOK
<1>2. \A s \in Requests, p \in Photos : Inserting(request'[s], p) => Inserting(request[s], p)
  BY <1>1
<1>3. \A p \in Photos : photo[p] # None => \A s \in Requests : ~Inserting(request[s], p)
  BY DEF FileInv, InsertsAlone
<1>4. ASSUME NEW s \in Requests, NEW p \in Photos PROVE InsertsAlone(s, p)'
  BY <1>2 DEF FileInv, InsertsAlone, files
<1>5. ASSUME NEW s \in Requests, NEW p \in Photos PROVE DeletesKnown(s, p)'
  BY <1>1, <1>2, <1>3 DEF FileInv, DeletesKnown, files
<1>6. ASSUME ~broken', NEW p \in Photos, photo'[p] # None, p \notin stored'
      PROVE  \E s \in Requests : RowGoing(request'[s], p)
  <2>1. PICK s \in Requests : RowGoing(request[s], p)
    BY <1>6 DEF FileInv, files
  <2> QED BY <1>1, <1>6, <2>1
<1> QED BY <1>4, <1>5, <1>6 DEF FileInv, files

\* What a call under way has to do next; the rest of it stands.
LEMMA Went ==
    ASSUME IndInv, NEW r \in Requests, request[r] \in InFlight, NEW s \in Call, Goto(r, s)
    PROVE  \E q \in InFlight :
             /\ request' = [request EXCEPT ![r] = q]
             /\ q.next = s
             /\ q.review = request[r].review /\ q.photo = request[r].photo
             /\ q.text = request[r].text /\ q.published = request[r].published
             /\ q.found = request[r].found /\ q.then = request[r].then
<1> DEFINE q == [request[r] EXCEPT !.next = s]
<1>1. q \in InFlight
  BY DEF InFlight
<1>2. /\ q.next = s
      /\ q.review = request[r].review /\ q.photo = request[r].photo
      /\ q.text = request[r].text /\ q.published = request[r].published
      /\ q.found = request[r].found /\ q.then = request[r].then
  BY DEF InFlight
<1>3. request' = [request EXCEPT ![r] = q]
  BY DEF Goto
<1> HIDE DEF q
<1> QED BY <1>1, <1>2, <1>3

\* What a call that comes in has to do.
LEMMA Began ==
    ASSUME IndInv, NEW r \in Requests, Calls(r)
    PROVE  \E q \in InFlight :
             /\ Start(r, q) /\ q.found = {}
             /\ \/ /\ q.next = "findReview" /\ q.then = None
                   /\ \A i \in Existing : review[i].status = "REJECTED"
                \/ /\ q.next = "editReview" /\ q.then = None
                   /\ Exists(q.review) /\ q.review \in Ids
                   /\ q.published = review[q.review].published
                \/ q.next = "listPhotos" /\ q.then = "deleteReview"
                \/ /\ q.next = "publishPhotos" /\ q.then = "approve"
                   /\ Exists(q.review) /\ q.review \in Ids /\ q.text = review[q.review].text
                \/ /\ q.next = "listDrafts" /\ q.then = "restore"
                   /\ Exists(q.review) /\ q.review \in Ids
                   /\ q.published # None /\ q.published = review[q.review].published
                \/ /\ q.next = "reject" /\ q.then = None
                   /\ Exists(q.review) /\ q.review \in Ids /\ review[q.review].published = None
                \/ /\ q.next = "putObject" /\ q.then = None
                   /\ Exists(q.review) /\ q.review \in Ids
                   /\ Cardinality(PhotosOf(q.review)) < MaxReviewPhotos
                \/ /\ q.next = "deleteObject" /\ q.then = None
                   /\ q.photo \in Photos /\ photo[q.photo] # None
<1>1. ASSUME NEW i \in Ids, Exists(i)
      PROVE  review[i] \in Review
  BY <1>1 DEF IndInv, TypeOK, Exists
<1>2. ASSUME NEW t \in Texts, Create(r, t)
      PROVE  \E q \in InFlight : /\ Start(r, q) /\ q.found = {}
                                 /\ q.next = "findReview" /\ q.then = None
                                 /\ \A i \in Existing : review[i].status = "REJECTED"
  <2> DEFINE c == [NewCall EXCEPT !.text = t]
  <2>1. c \in InFlight
    BY NewCallTyped DEF InFlight, Call
  <2>2. c.found = {} /\ c.next = "findReview" /\ c.then = None
    BY NewCallTyped DEF NewCall, InFlight
  <2>3. Start(r, c)
    BY <1>2 DEF Create
  <2> HIDE DEF c
  <2> QED BY <1>2, <2>1, <2>2, <2>3 DEF Create
<1>3. ASSUME NEW i \in Ids, NEW t \in Texts, Update(r, i, t)
      PROVE  \E q \in InFlight : /\ Start(r, q) /\ q.found = {}
                                 /\ q.next = "editReview" /\ q.then = None
                                 /\ Exists(q.review) /\ q.review \in Ids
                                 /\ q.published = review[q.review].published
  <2> DEFINE c == [NewCall EXCEPT !.next = "editReview", !.review = i, !.text = t,
                                  !.published = review[i].published]
  <2>1. c \in InFlight
    BY <1>1, <1>3, NewCallTyped DEF InFlight, Call, Update, Review
  <2>2. /\ c.found = {} /\ c.next = "editReview" /\ c.then = None /\ c.review = i
        /\ c.published = review[i].published
    BY <1>1, <1>3, NewCallTyped DEF NewCall, InFlight
  <2>3. Start(r, c)
    BY <1>3 DEF Update
  <2> HIDE DEF c
  <2> QED BY <1>3, <2>1, <2>2, <2>3 DEF Update
<1>4. ASSUME NEW i \in Ids, Remove(r, i)
      PROVE  \E q \in InFlight : /\ Start(r, q) /\ q.found = {}
                                 /\ q.next = "listPhotos" /\ q.then = "deleteReview"
  <2> DEFINE c == [NewCall EXCEPT !.next = "listPhotos", !.review = i, !.then = "deleteReview"]
  <2>1. c \in InFlight
    BY NewCallTyped DEF InFlight, Call
  <2>2. c.found = {} /\ c.next = "listPhotos" /\ c.then = "deleteReview"
    BY NewCallTyped DEF NewCall, InFlight
  <2>3. Start(r, c)
    BY <1>4 DEF Remove
  <2> HIDE DEF c
  <2> QED BY <1>4, <2>1, <2>2, <2>3 DEF Remove
<1>5. ASSUME NEW i \in Ids, NEW p \in Photos, Upload(r, i, p)
      PROVE  \E q \in InFlight : /\ Start(r, q) /\ q.found = {}
                                 /\ q.next = "putObject" /\ q.then = None
                                 /\ Exists(q.review) /\ q.review \in Ids
                                 /\ Cardinality(PhotosOf(q.review)) < MaxReviewPhotos
  <2> DEFINE c == [NewCall EXCEPT !.next = "putObject", !.review = i, !.photo = p]
  <2>1. c \in InFlight
    BY NewCallTyped DEF InFlight, Call
  <2>2. c.found = {} /\ c.next = "putObject" /\ c.then = None /\ c.review = i
    BY NewCallTyped DEF NewCall, InFlight
  <2>3. Start(r, c)
    BY <1>5 DEF Upload
  <2> HIDE DEF c
  <2> QED BY <1>5, <2>1, <2>2, <2>3 DEF Upload
<1>6. ASSUME NEW p \in Photos, RemovePhoto(r, p)
      PROVE  \E q \in InFlight : /\ Start(r, q) /\ q.found = {}
                                 /\ q.next = "deleteObject" /\ q.then = None
                                 /\ q.photo \in Photos /\ photo[q.photo] # None
  <2> DEFINE c == [NewCall EXCEPT !.next = "deleteObject", !.photo = p]
  <2>1. c \in InFlight
    BY NewCallTyped DEF InFlight, Call
  <2>2. c.found = {} /\ c.next = "deleteObject" /\ c.then = None /\ c.photo = p
    BY NewCallTyped DEF NewCall, InFlight
  <2>3. Start(r, c)
    BY <1>6 DEF RemovePhoto
  <2> HIDE DEF c
  <2> QED BY <1>6, <2>1, <2>2, <2>3 DEF RemovePhoto
<1>7. ASSUME NEW i \in Ids, NEW verdict \in {"APPROVED", "REJECTED"}, Moderate(r, i, verdict)
      PROVE  \E q \in InFlight :
                /\ Start(r, q) /\ q.found = {} /\ Exists(q.review) /\ q.review \in Ids
                /\ \/ /\ q.next = "publishPhotos" /\ q.then = "approve"
                      /\ q.text = review[q.review].text
                   \/ /\ q.next = "listDrafts" /\ q.then = "restore"
                      /\ q.published # None /\ q.published = review[q.review].published
                   \/ /\ q.next = "reject" /\ q.then = None /\ review[q.review].published = None
  <2> DEFINE next == CASE verdict = "APPROVED" -> "publishPhotos"
                       [] review[i].published # None -> "listDrafts"
                       [] OTHER -> "reject"
             then == CASE verdict = "APPROVED" -> "approve"
                       [] review[i].published # None -> "restore"
                       [] OTHER -> None
             c == [NewCall EXCEPT !.next = next, !.then = then, !.review = i,
                                  !.text = review[i].text, !.published = review[i].published]
  <2>1. /\ \/ next = "publishPhotos" /\ then = "approve"
           \/ next = "listDrafts" /\ then = "restore" /\ review[i].published # None
           \/ next = "reject" /\ then = None /\ review[i].published = None
        /\ next \in Call /\ then \in {"approve", "restore", None}
    BY DEF Call
  <2>2. review[i].text \in Texts /\ review[i].published \in Texts \cup {None} /\ Exists(i)
    BY <1>1, <1>7 DEF Moderate, Review
  <2>5. Start(r, c)
    BY <1>7 DEF Moderate
  <2> HIDE DEF next, then
  <2>3. c \in InFlight
    BY <2>1, <2>2, NewCallTyped DEF InFlight
  <2>4. /\ c.found = {} /\ c.next = next /\ c.then = then /\ c.review = i
        /\ c.text = review[i].text /\ c.published = review[i].published
    BY NewCallTyped DEF NewCall, InFlight
  <2> HIDE DEF c
  <2> QED BY <2>1, <2>2, <2>3, <2>4, <2>5
<1> QED
  <2>1. CASE \E t \in Texts : Create(r, t)
    BY <2>1, <1>2
  <2>2. CASE \E i \in Ids, t \in Texts : Update(r, i, t)
    BY <2>2, <1>3
  <2>3. CASE \E i \in Ids : Remove(r, i)
    BY <2>3, <1>4
  <2>4. CASE \E i \in Ids, p \in Photos : Upload(r, i, p)
    BY <2>4, <1>5
  <2>5. CASE \E p \in Photos : RemovePhoto(r, p)
    BY <2>5, <1>6
  <2>6. CASE \E i \in Ids, verdict \in {"APPROVED", "REJECTED"} : Moderate(r, i, verdict)
    BY <2>6, <1>7
  <2> QED BY <2>1, <2>2, <2>3, <2>4, <2>5, <2>6 DEF Calls

\* The steps that read before they go on.
LEMMA FindGoes ==
    ASSUME IndInv, NEW r \in Requests, FindReview(r)
    PROVE  \E q \in InFlight :
             /\ request' = [request EXCEPT ![r] = q]
             /\ q.next = "writeReview" /\ q.then = request[r].then
<1> DEFINE found == IF Existing = {} THEN None ELSE CHOOSE i \in Existing : TRUE
           q == [request[r] EXCEPT !.next = "writeReview", !.review = found]
<1>1. found \in Ids \cup {None}
  BY DEF Existing
<1>2. request' = [request EXCEPT ![r] = q]
  BY DEF FindReview
<1>3. request[r] \in InFlight
  BY Underway DEF FindReview
<1> HIDE DEF found
<1>4. q \in InFlight /\ q.next = "writeReview" /\ q.then = request[r].then
  BY <1>1, <1>3 DEF InFlight, Call
<1> HIDE DEF q
<1> QED BY <1>2, <1>4

LEMMA ListGoes ==
    ASSUME IndInv, NEW r \in Requests, ListPhotos(r) \/ ListDrafts(r)
    PROVE  \E q \in InFlight :
             /\ request' = [request EXCEPT ![r] = q]
             /\ q.next = "deleteObjects"
             /\ q.review = request[r].review /\ q.text = request[r].text
             /\ q.then = request[r].then /\ q.published = request[r].published
             /\ q.found = {p \in PhotosOf(q.review) : ListDrafts(r) => ~photo[p].published}
<1> DEFINE b == request[r]
           found == {p \in PhotosOf(b.review) : ListDrafts(r) => ~photo[p].published}
           q == [b EXCEPT !.next = "deleteObjects", !.found = found]
<1>1. b \in InFlight
  BY Underway DEF ListPhotos, ListDrafts
<1>2. found \subseteq Photos
  BY DEF PhotosOf
<1>3. request' = [request EXCEPT ![r] = q]
  <2>1. CASE ListDrafts(r)
    <3>1. found = {p \in PhotosOf(b.review) : ~photo[p].published}
      BY <2>1
    <3> HIDE DEF found
    <3> QED BY <2>1, <3>1 DEF ListDrafts
  <2>2. CASE ~ListDrafts(r)
    <3>1. found = PhotosOf(b.review)
      BY <2>2
    <3> HIDE DEF found
    <3> QED BY <2>2, <3>1 DEF ListPhotos
  <2> QED BY <2>1, <2>2
<1>4. found = {p \in PhotosOf(b.review) : ListDrafts(r) => ~photo[p].published}
  OBVIOUS
<1> HIDE DEF found
<1>5. /\ q \in InFlight /\ q.next = "deleteObjects" /\ q.found = found
      /\ q.text = b.text /\ q.then = b.then /\ q.review = b.review /\ q.published = b.published
  BY <1>1, <1>2 DEF InFlight, Call
<1> HIDE DEF q
<1> QED BY <1>3, <1>4, <1>5

LEMMA ReadGoes ==
    ASSUME IndInv, NEW r \in Requests, ReadPublished(r)
    PROVE  \E q \in InFlight :
             /\ request' = [request EXCEPT ![r] = q]
             /\ q.next = "insertPhoto"
             /\ q.review = request[r].review /\ q.photo = request[r].photo
             /\ q.then = request[r].then
             /\ q.published = IF Exists(q.review) THEN review[q.review].published ELSE None
<1> DEFINE b == request[r]
           published == IF Exists(b.review) THEN review[b.review].published ELSE None
           q == [b EXCEPT !.next = "insertPhoto", !.published = published]
<1>1. b \in InFlight /\ b.review \in Ids
  BY Underway DEF ReadPublished, CallSound, OnReview
<1>2. published \in Texts \cup {None}
  BY <1>1 DEF Exists, Review, IndInv, TypeOK
<1>3. request' = [request EXCEPT ![r] = q]
  BY DEF ReadPublished
<1>4. published = IF Exists(b.review) THEN review[b.review].published ELSE None
  OBVIOUS
<1> HIDE DEF published
<1>5. /\ q \in InFlight /\ q.next = "insertPhoto" /\ q.published = published
      /\ q.photo = b.photo /\ q.then = b.then /\ q.review = b.review
  BY <1>1, <1>2 DEF InFlight, Call
<1> HIDE DEF q
<1> QED BY <1>3, <1>4, <1>5

LEMMA FileStartHolds ==
    ASSUME IndInv, FileInv, NEW r \in Requests, Calls(r)
    PROVE  FileInv'
<1>1. PICK q \in InFlight :
        /\ Start(r, q) /\ q.found = {}
        /\ q.next \notin {"readPublished", "insertPhoto", "deletePhoto"}
        /\ q.next = "deleteObject" => photo[q.photo] # None
  BY Began
<1>2. request[r] = None
  BY <1>1 DEF Start, Busy
<1>3. \A p \in Photos : Deleting(q, p) => photo[p] # None
  BY <1>1 DEF Deleting, RowGoing
<1> QED BY <1>1, <1>2, <1>3, FileGoes DEF Start, rows, Inserting, RowGoing

\* The steps that leave rows and objects alone, but for what rows say.
LEMMA FileQuietHolds ==
    ASSUME IndInv, FileInv, NEW r \in Requests,
           \/ FindReview(r) \/ WriteReview(r) \/ EditReview(r) \/ PublishPhotos(r)
           \/ ListPhotos(r) \/ ListDrafts(r) \/ DeleteReview(r) \/ Approve(r) \/ Restore(r)
           \/ Reject(r) \/ ReadPublished(r) \/ RequestDies(r) \/ (DeletePhoto(r) /\ photo[request[r].photo] = None)
    PROVE  FileInv'
<1> USE DEF rows, history
<1>1. ASSUME Finish(r), UNCHANGED <<files>>, broken => broken',
             \A p \in Photos : (photo'[p] = None) = (photo[p] = None),
             ~broken' => \A p \in Photos : RowGoing(request[r], p) => photo[p] = None
      PROVE  FileInv'
  BY <1>1, FileGoes DEF Finish, Inserting, Deleting, RowGoing
<1>2. ASSUME NEW q \in InFlight, request' = [request EXCEPT ![r] = q],
             UNCHANGED <<files, broken>>,
             \A p \in Photos : (photo'[p] = None) = (photo[p] = None),
             \A p \in Photos : ~RowGoing(request[r], p) /\ ~RowGoing(q, p),
             \A p \in Photos : Inserting(q, p) => Inserting(request[r], p),
             \A p \in Photos : Deleting(q, p) => photo[p] # None
      PROVE  FileInv'
  BY <1>2, FileGoes
<1>3. ASSUME NEW s, At(r, s), s \notin {"deleteRows", "deletePhoto"}
      PROVE  \A p \in Photos : ~RowGoing(request[r], p)
  BY <1>3 DEF At, RowGoing
<1>4. CASE RequestDies(r)
  BY <1>4, <1>1 DEF RequestDies
<1>5. ASSUME NEW s, At(r, s), s \notin {"deleteRows", "deletePhoto"}, Finish(r),
             UNCHANGED <<photo, files, broken>>
      PROVE  FileInv'
  BY <1>1, <1>3, <1>5
<1>6. ASSUME NEW s \in Call, At(r, s), s \notin {"deleteRows", "deletePhoto"},
             NEW t \in Call, t \in {"publishPhotos", "approve"}, Goto(r, t),
             UNCHANGED <<files, broken>>,
             \A p \in Photos : (photo'[p] = None) = (photo[p] = None)
      PROVE  FileInv'
  <2>1. PICK q \in InFlight : request' = [request EXCEPT ![r] = q] /\ q.next = t
    BY <1>6, Underway, Went
  <2>2. \A p \in Photos : ~RowGoing(request[r], p)
    BY <1>3, <1>6
  <2>3. \A p \in Photos : ~Inserting(q, p) /\ ~Deleting(q, p) /\ ~RowGoing(q, p)
    BY <1>6, <2>1 DEF Inserting, Deleting, RowGoing
  <2> QED BY <1>2, <1>6, <2>1, <2>2, <2>3
<1>7. CASE DeletePhoto(r) /\ photo[request[r].photo] = None
  <2>1. \A p \in Photos : RowGoing(request[r], p) => photo[p] = None
    BY <1>7 DEF DeletePhoto, RowGoing, At
  <2> QED BY <1>1, <1>7, <2>1 DEF DeletePhoto, Refuse
<1>8. CASE FindReview(r)
  <2>1. PICK q \in InFlight : request' = [request EXCEPT ![r] = q] /\ q.next = "writeReview"
    BY <1>8, FindGoes
  <2>2. \A p \in Photos : ~Inserting(q, p) /\ ~Deleting(q, p) /\ ~RowGoing(q, p)
    BY <2>1 DEF Inserting, Deleting, RowGoing
  <2>3. \A p \in Photos : ~RowGoing(request[r], p)
    BY <1>3, <1>8 DEF FindReview
  <2> QED BY <1>2, <1>8, <2>1, <2>2, <2>3 DEF FindReview
<1>9. CASE WriteReview(r) \/ DeleteReview(r)
  BY <1>5, <1>9 DEF WriteReview, DeleteReview, Refuse
<1>10. CASE Approve(r) \/ Restore(r) \/ Reject(r)
  BY <1>5, <1>10 DEF Approve, Restore, Reject, Verdict, Refuse
<1>11. CASE EditReview(r)
  <2>1. CASE Goto(r, "publishPhotos") /\ UNCHANGED <<created, photo, files, enrolled, calls, history>>
    BY <1>6, <1>11, <2>1 DEF EditReview, Call
  <2>2. CASE Finish(r) /\ UNCHANGED <<photo, files, history>>
    BY <1>5, <1>11, <2>2 DEF EditReview
  <2> QED BY <1>11, <2>1, <2>2 DEF EditReview, Refuse
<1>12. CASE PublishPhotos(r)
  <2>1. request[r] \in InFlight /\ CallSound(request[r]) /\ request[r].next = "publishPhotos"
    BY <1>12, Underway DEF PublishPhotos
  <2>2. \A p \in Photos : (photo'[p] = None) = (photo[p] = None)
    <3> SUFFICES ASSUME NEW p \in Photos PROVE (photo'[p] = None) = (photo[p] = None)
      OBVIOUS
    <3>1. PICK x \in Photo \cup {None} : x = photo[p]
      BY DEF IndInv, TypeOK
    <3>2. CASE photo'[p] = x
      BY <3>1, <3>2
    <3>3. CASE photo'[p] # x
      <4>1. x # None /\ photo'[p] = [x EXCEPT !.published = TRUE]
        BY <1>12, <3>1, <3>3 DEF PublishPhotos, PhotosOf
      <4>2. [x EXCEPT !.published = TRUE] \in Photo
        BY <3>1, <4>1 DEF Photo
      <4> QED BY <3>1, <4>1, <4>2, NoneAssumption
    <3> QED BY <3>2, <3>3
  <2>3. CASE request[r].then = None
    BY <1>1, <1>3, <1>12, <2>2, <2>3 DEF PublishPhotos
  <2>4. CASE request[r].then # None
    <3>1. request[r].then = "approve"
      BY <2>1, <2>4 DEF CallSound
    <3> QED BY <1>6, <1>12, <2>2, <2>4, <3>1 DEF PublishPhotos, Call
  <2> QED BY <2>3, <2>4
<1>13. CASE ListPhotos(r) \/ ListDrafts(r)
  <2>1. PICK q \in InFlight : /\ request' = [request EXCEPT ![r] = q]
                              /\ q.next = "deleteObjects" /\ \A p \in q.found : photo[p] # None
    BY <1>13, ListGoes DEF PhotosOf
  <2>2. \A p \in Photos : ~RowGoing(request[r], p)
    BY <1>3, <1>13 DEF ListPhotos, ListDrafts
  <2>3. \A p \in Photos : ~RowGoing(q, p) /\ ~Inserting(q, p) /\ (Deleting(q, p) => photo[p] # None)
    BY <2>1 DEF RowGoing, Inserting, Deleting
  <2> QED BY <1>2, <1>13, <2>1, <2>2, <2>3 DEF ListPhotos, ListDrafts
<1>14. CASE ReadPublished(r)
  <2>1. request[r] \in InFlight /\ request[r].next = "readPublished" /\ Busy(r)
    BY <1>14, Underway DEF ReadPublished, At
  <2>2. PICK q \in InFlight : /\ request' = [request EXCEPT ![r] = q]
                              /\ q.next = "insertPhoto" /\ q.photo = request[r].photo
    BY <1>14, ReadGoes
  <2>3. \A p \in Photos : ~RowGoing(request[r], p)
    BY <1>3, <1>14 DEF ReadPublished
  <2>4. \A p \in Photos : /\ ~RowGoing(q, p) /\ ~Deleting(q, p)
                          /\ Inserting(q, p) => Inserting(request[r], p)
    BY <2>1, <2>2 DEF RowGoing, Inserting, Deleting, Busy
  <2> QED BY <1>2, <1>14, <2>2, <2>3, <2>4 DEF ReadPublished
<1> QED BY <1>4, <1>7, <1>8, <1>9, <1>10, <1>11, <1>12, <1>13, <1>14

\* The steps that put, insert or delete.
LEMMA FileLoudHolds ==
    ASSUME IndInv, FileInv, NEW r \in Requests,
           \/ DeleteObjects(r) \/ DeleteRows(r) \/ PutObject(r) \/ InsertPhoto(r)
           \/ DeleteObject(r) \/ (DeletePhoto(r) /\ photo[request[r].photo] # None)
    PROVE  FileInv'
<1> USE DEF rows, history, files
<1> DEFINE b == request[r]
<1>1. /\ photo \in [Photos -> Photo \cup {None}]
      /\ request \in [Requests -> InFlight \cup {None}]
  BY DEF IndInv, TypeOK
<1>2. ASSUME DeleteObjects(r) PROVE FileInv'
  <2>1. b \in InFlight /\ b.next = "deleteObjects" /\ b # None
    BY <1>2, Underway DEF DeleteObjects, At, Busy
  <2>2. PICK q \in InFlight : /\ request' = [request EXCEPT ![r] = q]
                              /\ q.next = "deleteRows" /\ q.found = b.found
    BY <1>2, <2>1, Went DEF DeleteObjects, Call
  <2>3. PICK kept \in SUBSET b.found : /\ stored' = stored \ (b.found \ kept)
                                       /\ broken' = (broken \/ kept # {})
    BY <1>2 DEF DeleteObjects
  <2>4. \A p \in Photos : /\ RowGoing(q, p) <=> p \in b.found
                          /\ Deleting(q, p) <=> p \in b.found
                          /\ Deleting(b, p) <=> p \in b.found
                          /\ ~Inserting(q, p) /\ ~Inserting(b, p) /\ ~RowGoing(b, p)
    BY <2>1, <2>2, NoneAssumption DEF RowGoing, Deleting, Inserting
  <2>5. request'[r] = q /\ \A s \in Requests : s # r => request'[s] = request[s]
    BY <1>1, <2>2
  <2>6. photo' = photo /\ uploads' = uploads
    BY <1>2 DEF DeleteObjects
  <2>7. ASSUME NEW s \in Requests, NEW p \in Photos PROVE InsertsAlone(s, p)'
    BY <2>3, <2>4, <2>5, <2>6 DEF FileInv, InsertsAlone, DeletesKnown
  <2>8. ASSUME NEW s \in Requests, NEW p \in Photos PROVE DeletesKnown(s, p)'
    BY <2>4, <2>5, <2>6 DEF FileInv, DeletesKnown
  <2>9. ASSUME ~broken', NEW p \in Photos, photo'[p] # None, p \notin stored'
        PROVE  \E s \in Requests : RowGoing(request'[s], p)
    <3>1. CASE p \in b.found
      BY <2>4, <2>5, <3>1
    <3>2. CASE p \notin b.found
      <4>1. ~broken /\ p \notin stored
        BY <2>3, <2>9, <3>2
      <4>2. PICK s \in Requests : RowGoing(request[s], p)
        BY <2>6, <2>9, <4>1 DEF FileInv
      <4> QED BY <2>4, <2>5, <4>2
    <3> QED BY <3>1, <3>2
  <2> QED BY <2>6, <2>7, <2>8, <2>9 DEF FileInv
<1>3. ASSUME DeleteRows(r) PROVE FileInv'
  <2>1. b \in InFlight /\ b.next = "deleteRows" /\ b # None /\ CallSound(b)
    BY <1>3, Underway DEF DeleteRows, At, Busy
  <2>2. b.then \in {"deleteReview", "restore"}
    BY <2>1 DEF CallSound, Clearing
  <2>3. PICK q \in InFlight : request' = [request EXCEPT ![r] = q] /\ q.next = b.then
    BY <1>3, <2>1, <2>2, Went DEF DeleteRows, Call
  <2>4. \A p \in Photos : /\ ~RowGoing(q, p) /\ ~Deleting(q, p) /\ ~Inserting(q, p)
                          /\ ~Inserting(b, p) /\ (RowGoing(b, p) <=> p \in b.found)
    BY <2>1, <2>2, <2>3 DEF RowGoing, Deleting, Inserting
  <2>5. request'[r] = q /\ \A s \in Requests : s # r => request'[s] = request[s]
    BY <1>1, <2>3
  <2>6. UNCHANGED <<stored, uploads, broken>>
    BY <1>3 DEF DeleteRows
  <2>10. \A p \in Photos : /\ photo'[p] # None => photo[p] # None /\ p \notin b.found
                           /\ photo[p] = None => photo'[p] = None
    BY <1>1, <1>3 DEF DeleteRows
  <2>7. ASSUME NEW s \in Requests, NEW p \in Photos PROVE InsertsAlone(s, p)'
    BY <2>4, <2>5, <2>6, <2>10 DEF FileInv, InsertsAlone
  <2>8. ASSUME NEW s \in Requests, NEW p \in Photos PROVE DeletesKnown(s, p)'
    BY <2>4, <2>5, <2>6 DEF FileInv, DeletesKnown
  <2>9. ASSUME ~broken', NEW p \in Photos, photo'[p] # None, p \notin stored'
        PROVE  \E s \in Requests : RowGoing(request'[s], p)
    <3>1. PICK s \in Requests : RowGoing(request[s], p)
      BY <2>6, <2>9, <2>10 DEF FileInv
    <3> QED BY <2>4, <2>5, <2>9, <2>10, <3>1
  <2> QED BY <2>6, <2>7, <2>8, <2>9, <2>10 DEF FileInv
<1>4. ASSUME PutObject(r) PROVE FileInv'
  <2>1. b \in InFlight /\ b.next = "putObject" /\ b # None /\ CallSound(b)
    BY <1>4, Underway DEF PutObject, At, Busy
  <2>2. b.photo \in Photos /\ b.photo \notin uploads
    BY <1>4, <2>1 DEF CallSound, OnPhoto, PutObject
  <2>3. PICK q \in InFlight : /\ request' = [request EXCEPT ![r] = q]
                              /\ q.next = "readPublished" /\ q.photo = b.photo
    BY <1>4, <2>1, Went DEF PutObject, Call
  <2>4. \A p \in Photos : /\ ~RowGoing(q, p) /\ ~RowGoing(b, p) /\ ~Deleting(q, p)
                          /\ ~Inserting(b, p)
                          /\ Inserting(q, p) => p = b.photo
    BY <2>1, <2>3 DEF RowGoing, Deleting, Inserting
  <2>5. request'[r] = q /\ \A s \in Requests : s # r => request'[s] = request[s]
    BY <1>1, <2>3
  <2>6. /\ photo' = photo /\ broken' = broken
        /\ stored' = stored \cup {b.photo} /\ uploads' = uploads \cup {b.photo}
    BY <1>4 DEF PutObject
  <2>7. ASSUME NEW s \in Requests, NEW p \in Photos PROVE InsertsAlone(s, p)'
    <3>1. p = b.photo => photo[p] = None /\ \A t \in Requests : ~Inserting(request[t], p)
      BY <2>2 DEF FileInv, InsertsAlone
    <3> QED BY <2>4, <2>5, <2>6, <3>1 DEF FileInv, InsertsAlone
  <2>8. ASSUME NEW s \in Requests, NEW p \in Photos PROVE DeletesKnown(s, p)'
    BY <2>2, <2>4, <2>5, <2>6 DEF FileInv, DeletesKnown
  <2>9. ASSUME ~broken', NEW p \in Photos, photo'[p] # None, p \notin stored'
        PROVE  \E s \in Requests : RowGoing(request'[s], p)
    <3>1. PICK s \in Requests : RowGoing(request[s], p)
      BY <2>6, <2>9 DEF FileInv
    <3> QED BY <2>4, <2>5, <3>1
  <2> QED BY <2>6, <2>7, <2>8, <2>9 DEF FileInv
<1>5. ASSUME InsertPhoto(r) PROVE FileInv'
  <2>1. b \in InFlight /\ b.next = "insertPhoto" /\ b # None /\ CallSound(b)
    BY <1>5, Underway DEF InsertPhoto, At, Busy
  <2>2. b.photo \in Photos /\ b.review \in Ids
    BY <2>1 DEF CallSound, OnPhoto, OnReview
  <2>3. Inserting(b, b.photo)
    BY <2>1 DEF Inserting
  <2>4. \A p \in Photos : ~RowGoing(None, p) /\ ~Deleting(None, p) /\ ~Inserting(None, p)
                          /\ ~RowGoing(b, p)
    BY <2>1 DEF RowGoing, Deleting, Inserting
  <2>5. request'[r] = None /\ \A s \in Requests : s # r => request'[s] = request[s]
    BY <1>1, <1>5 DEF InsertPhoto, Finish
  <2>6. /\ UNCHANGED <<stored, uploads, broken>>
        /\ \A p \in Photos : p # b.photo => photo'[p] = photo[p]
    BY <1>1, <1>5 DEF InsertPhoto
  <2>7. ASSUME NEW s \in Requests, NEW p \in Photos PROVE InsertsAlone(s, p)'
    BY <2>2, <2>3, <2>4, <2>5, <2>6 DEF FileInv, InsertsAlone
  <2>8. ASSUME NEW s \in Requests, NEW p \in Photos PROVE DeletesKnown(s, p)'
    BY <2>4, <2>5, <2>6 DEF FileInv, DeletesKnown
  <2>9. b.photo \in uploads /\ b.photo \in stored
    BY <2>2, <2>3 DEF FileInv, InsertsAlone
  <2>10. ASSUME ~broken', NEW p \in Photos, photo'[p] # None, p \notin stored'
         PROVE  \E s \in Requests : RowGoing(request'[s], p)
    <3>1. PICK s \in Requests : RowGoing(request[s], p)
      BY <2>6, <2>9, <2>10 DEF FileInv
    <3> QED BY <2>4, <2>5, <3>1
  <2> QED BY <2>6, <2>7, <2>8, <2>9, <2>10 DEF FileInv
<1>6. ASSUME DeleteObject(r) PROVE FileInv'
  <2>1. b \in InFlight /\ b.next = "deleteObject" /\ b # None /\ CallSound(b)
    BY <1>6, Underway DEF DeleteObject, At, Busy
  <2>2. b.photo \in Photos
    BY <2>1 DEF CallSound, OnPhoto
  <2>3. PICK q \in InFlight : /\ request' = [request EXCEPT ![r] = q]
                              /\ q.next = "deletePhoto" /\ q.photo = b.photo
    BY <1>6, <2>1, Went DEF DeleteObject, Call
  <2>4. \A p \in Photos : /\ RowGoing(q, p) <=> p = b.photo
                          /\ Deleting(q, p) <=> p = b.photo
                          /\ Deleting(b, p) <=> p = b.photo
                          /\ ~Inserting(q, p) /\ ~Inserting(b, p) /\ ~RowGoing(b, p)
    BY <2>1, <2>3, NoneAssumption DEF RowGoing, Deleting, Inserting
  <2>5. request'[r] = q /\ \A s \in Requests : s # r => request'[s] = request[s]
    BY <1>1, <2>3
  <2>6. UNCHANGED <<photo, uploads, broken>> /\ stored' = stored \ {b.photo}
    BY <1>6 DEF DeleteObject
  <2>7. ASSUME NEW s \in Requests, NEW p \in Photos PROVE InsertsAlone(s, p)'
    BY <2>4, <2>5, <2>6 DEF FileInv, InsertsAlone, DeletesKnown
  <2>8. ASSUME NEW s \in Requests, NEW p \in Photos PROVE DeletesKnown(s, p)'
    BY <2>4, <2>5, <2>6 DEF FileInv, DeletesKnown
  <2>9. ASSUME ~broken', NEW p \in Photos, photo'[p] # None, p \notin stored'
        PROVE  \E s \in Requests : RowGoing(request'[s], p)
    <3>1. CASE p = b.photo
      BY <2>4, <2>5, <3>1
    <3>2. CASE p # b.photo
      <4>1. PICK s \in Requests : RowGoing(request[s], p)
        BY <2>6, <2>9, <3>2 DEF FileInv
      <4> QED BY <2>4, <2>5, <4>1
    <3> QED BY <3>1, <3>2
  <2> QED BY <2>6, <2>7, <2>8, <2>9 DEF FileInv
<1>7. ASSUME DeletePhoto(r), photo[b.photo] # None PROVE FileInv'
  <2>1. b \in InFlight /\ b.next = "deletePhoto" /\ b # None /\ CallSound(b)
    BY <1>7, Underway DEF DeletePhoto, At, Busy
  <2>2. b.photo \in Photos
    BY <2>1 DEF CallSound, OnPhoto
  <2>4. \A p \in Photos : ~RowGoing(None, p) /\ ~Deleting(None, p) /\ ~Inserting(None, p)
                          /\ (RowGoing(b, p) => p = b.photo) /\ ~Inserting(b, p)
    BY <2>1 DEF RowGoing, Deleting, Inserting
  <2>5. request'[r] = None /\ \A s \in Requests : s # r => request'[s] = request[s]
    BY <1>1, <1>7 DEF DeletePhoto, Finish
  <2>6. /\ UNCHANGED <<stored, uploads, broken>>
        /\ photo'[b.photo] = None
        /\ \A p \in Photos : p # b.photo => photo'[p] = photo[p]
    BY <1>1, <1>7, <2>2 DEF DeletePhoto
  <2>7. ASSUME NEW s \in Requests, NEW p \in Photos PROVE InsertsAlone(s, p)'
    BY <2>2, <2>4, <2>5, <2>6 DEF FileInv, InsertsAlone
  <2>8. ASSUME NEW s \in Requests, NEW p \in Photos PROVE DeletesKnown(s, p)'
    BY <2>4, <2>5, <2>6 DEF FileInv, DeletesKnown
  <2>9. ASSUME ~broken', NEW p \in Photos, photo'[p] # None, p \notin stored'
        PROVE  \E s \in Requests : RowGoing(request'[s], p)
    <3>1. PICK s \in Requests : RowGoing(request[s], p)
      BY <2>6, <2>9 DEF FileInv
    <3> QED BY <2>4, <2>5, <2>6, <2>9, <3>1
  <2> QED BY <2>6, <2>7, <2>8, <2>9 DEF FileInv
<1> QED BY <1>2, <1>3, <1>4, <1>5, <1>6, <1>7

LEMMA FileHolds ==
    ASSUME IndInv, FileInv, [Next]_vars
    PROVE  FileInv'
<1>1. ASSUME NEW r \in Requests, Calls(r) \/ Steps(r) \/ RequestDies(r)
      PROVE  FileInv'
  BY <1>1, FileStartHolds, FileQuietHolds, FileLoudHolds DEF Steps
<1>2. CASE EnrollmentChanges \/ UNCHANGED vars
  BY <1>2 DEF EnrollmentChanges, vars, rows, files, history, FileInv, InsertsAlone, DeletesKnown
<1> QED BY <1>1, <1>2 DEF Next

-----------------------------------------------------------------------------
(***************************************************************************)
(* The limit on the photos of a review.                                    *)
(***************************************************************************)
Uploading(q) == q # None /\ q.next \in {"putObject", "readPublished", "insertPhoto"}

\* As long as no two requests have met, there is room for the photo that is
\* being uploaded.
LimitInv ==
    /\ \A i \in Ids : IsFiniteSet(PhotosOf(i))
    /\ ~overlapped =>
          /\ \A r, s \in Requests : Busy(r) /\ Busy(s) => r = s
          /\ \A i \in Ids : Cardinality(PhotosOf(i)) <= MaxReviewPhotos
          /\ \A r \in Requests, i \in Ids : Uploading(request[r]) /\ request[r].review = i =>
                Cardinality(PhotosOf(i)) < MaxReviewPhotos

LEMMA LimitInit == ASSUME Init PROVE LimitInv
<1>1. \A i \in Ids : PhotosOf(i) = {}
  BY DEF Init, PhotosOf
<1> QED BY <1>1, FS_EmptySet, ReviewsAssumption DEF Init, LimitInv, Busy, Uploading

\* A step that gives no review a photo, and begins no upload.
LEMMA LimitGoes ==
    ASSUME IndInv, LimitInv, NEW r \in Requests, NEW q,
           request' = [request EXCEPT ![r] = q],
           \A j \in Ids : PhotosOf(j)' \subseteq PhotosOf(j),
           ~overlapped' => ~overlapped /\ \A s \in Requests : Busy(s) => s = r,
           Uploading(q) => /\ q.review \in Ids
                           /\ ~overlapped' => Cardinality(PhotosOf(q.review)) < MaxReviewPhotos
    PROVE  LimitInv'
<1>1. request'[r] = q /\ \A s \in Requests : s # r => request'[s] = request[s]
  BY DEF IndInv, TypeOK
<1>2. \A j \in Ids : /\ IsFiniteSet(PhotosOf(j)') /\ Cardinality(PhotosOf(j)') \in Nat
                     /\ Cardinality(PhotosOf(j)) \in Nat
                     /\ Cardinality(PhotosOf(j)') <= Cardinality(PhotosOf(j))
  BY FS_Subset, FS_CardinalityType DEF LimitInv
<1>3. ASSUME ~overlapped'
      PROVE  /\ \A s, t \in Requests : Busy(s)' /\ Busy(t)' => s = t
             /\ \A s \in Requests : Uploading(request'[s]) => s = r
  BY <1>1, <1>3 DEF Busy, Uploading
<1>4. ASSUME ~overlapped', NEW i \in Ids
      PROVE  Cardinality(PhotosOf(i)') <= MaxReviewPhotos
  BY <1>2, <1>4, ReviewsAssumption DEF LimitInv
<1>5. ASSUME ~overlapped', NEW s \in Requests, NEW i \in Ids,
             Uploading(request'[s]), request'[s].review = i
      PROVE  Cardinality(PhotosOf(i)') < MaxReviewPhotos
  <2>1. s = r /\ request'[s] = q
    BY <1>1, <1>3, <1>5
  <2> QED BY <1>2, <1>5, <2>1, ReviewsAssumption
<1> QED BY <1>2, <1>3, <1>4, <1>5 DEF LimitInv

LEMMA LimitHolds ==
    ASSUME IndInv, LimitInv, [Next]_vars
    PROVE  LimitInv'
<1> USE DEF rows, history, files
<1>0. /\ photo \in [Photos -> Photo \cup {None}]
      /\ request \in [Requests -> InFlight \cup {None}]
  BY DEF IndInv, TypeOK
<1>1. ASSUME UNCHANGED photo PROVE \A j \in Ids : PhotosOf(j)' \subseteq PhotosOf(j)
  BY <1>1 DEF PhotosOf
<1>2. ASSUME NEW r \in Requests, Busy(r), ~overlapped
      PROVE  \A s \in Requests : Busy(s) => s = r
  BY <1>2 DEF LimitInv
<1>3. ASSUME NEW r \in Requests, Calls(r) PROVE LimitInv'
  <2>1. PICK q \in InFlight :
          /\ Start(r, q)
          /\ q.next \notin {"readPublished", "insertPhoto"}
          /\ q.next = "putObject" => /\ q.review \in Ids
                                     /\ Cardinality(PhotosOf(q.review)) < MaxReviewPhotos
    BY <1>3, Began
  <2>2. ~overlapped' => ~overlapped /\ \A s \in Requests : ~Busy(s)
    BY <2>1 DEF Start
  <2>3. \A j \in Ids : PhotosOf(j)' \subseteq PhotosOf(j)
    BY <1>1, <2>1 DEF Start
  <2> QED BY <2>1, <2>2, <2>3, LimitGoes DEF Start, Uploading
<1>4. ASSUME NEW r \in Requests, Busy(r), UNCHANGED overlapped,
             \A j \in Ids : PhotosOf(j)' \subseteq PhotosOf(j),
             NEW q \in InFlight \cup {None}, request' = [request EXCEPT ![r] = q],
             Uploading(q) => q.review = request[r].review /\ Uploading(request[r])
      PROVE  LimitInv'
  <2>1. Uploading(request[r]) => request[r].review \in Ids
    BY <1>4 DEF Uploading, Busy, IndInv, CallsSound, CallSound, OnReview
  <2>2. Uploading(q) /\ ~overlapped => Cardinality(PhotosOf(q.review)) < MaxReviewPhotos
    BY <1>4, <2>1 DEF LimitInv
  <2> QED BY <1>2, <1>4, <2>1, <2>2, LimitGoes
<1>5. ASSUME NEW r \in Requests, Busy(r), UNCHANGED overlapped,
             \A j \in Ids : PhotosOf(j)' \subseteq PhotosOf(j), Finish(r)
      PROVE  LimitInv'
  BY <1>4, <1>5 DEF Finish, Uploading
<1>6. ASSUME NEW r \in Requests, Busy(r), UNCHANGED overlapped,
             \A j \in Ids : PhotosOf(j)' \subseteq PhotosOf(j), NEW s \in Call, Goto(r, s),
             s # "putObject", s = "readPublished" => request[r].next = "putObject", s # "insertPhoto"
      PROVE  LimitInv'
  <2>1. PICK q \in InFlight : /\ request' = [request EXCEPT ![r] = q]
                              /\ q.next = s /\ q.review = request[r].review
    BY <1>0, <1>6, Went DEF Busy
  <2> QED BY <1>4, <1>6, <2>1 DEF Uploading, Busy
<1>7. ASSUME NEW r \in Requests,
             \/ WriteReview(r) \/ DeleteReview(r) \/ Approve(r) \/ Restore(r) \/ Reject(r)
             \/ RequestDies(r)
      PROVE  LimitInv'
  <2>1. Finish(r) /\ Busy(r) /\ UNCHANGED <<photo, overlapped>>
    BY <1>7 DEF WriteReview, DeleteReview, Approve, Restore, Reject, Verdict, Refuse, At, RequestDies
  <2> QED BY <1>1, <1>5, <2>1
<1>8. ASSUME NEW r \in Requests, DeletePhoto(r) PROVE LimitInv'
  <2>1. \A j \in Ids : PhotosOf(j)' \subseteq PhotosOf(j)
    BY <1>0, <1>8 DEF DeletePhoto, Refuse, PhotosOf
  <2> QED BY <1>5, <1>8, <2>1 DEF DeletePhoto, Refuse, At
<1>9. ASSUME NEW r \in Requests, EditReview(r) PROVE LimitInv'
  <2>1. CASE Goto(r, "publishPhotos") /\ UNCHANGED <<photo, history>>
    BY <1>1, <1>6, <1>9, <2>1 DEF EditReview, At, Call
  <2>2. CASE Finish(r) /\ UNCHANGED <<photo, history>>
    BY <1>1, <1>5, <1>9, <2>2 DEF EditReview, At
  <2> QED BY <1>9, <2>1, <2>2 DEF EditReview, Refuse
<1>10. ASSUME NEW r \in Requests, PublishPhotos(r) PROVE LimitInv'
  <2>1. Busy(r) /\ CallSound(request[r]) /\ request[r].next = "publishPhotos"
    BY <1>10, Underway DEF PublishPhotos, At
  <2>2. \A j \in Ids : PhotosOf(j)' \subseteq PhotosOf(j)
    <3> DEFINE mine == PhotosOf(request[r].review)
    <3>1. \A p \in Photos : photo[p] \in Photo => [photo[p] EXCEPT !.published = TRUE].review = photo[p].review
      BY DEF Photo
    <3>2. \A p \in mine : photo[p] \in Photo
      BY <1>0 DEF PhotosOf
    <3>3. \A p \in Photos : photo'[p] = IF p \in mine THEN [photo[p] EXCEPT !.published = TRUE] ELSE photo[p]
      BY <1>10 DEF PublishPhotos
    <3>4. \A p \in mine : photo[p] # None
      BY DEF PhotosOf
    <3> HIDE DEF mine
    <3> QED BY <3>1, <3>2, <3>3, <3>4 DEF PhotosOf
  <2>3. CASE request[r].then = None
    BY <1>5, <1>10, <2>1, <2>2, <2>3 DEF PublishPhotos
  <2>4. CASE request[r].then # None
    <3>1. request[r].then = "approve"
      BY <2>1, <2>4 DEF CallSound
    <3> QED BY <1>6, <1>10, <2>1, <2>2, <3>1, ReviewsAssumption DEF PublishPhotos, Call
  <2> QED BY <2>3, <2>4
<1>11. ASSUME NEW r \in Requests, FindReview(r) \/ ListPhotos(r) \/ ListDrafts(r) PROVE LimitInv'
  <2>1. PICK q \in InFlight : /\ request' = [request EXCEPT ![r] = q]
                              /\ q.next \in {"writeReview", "deleteObjects"}
    BY <1>11, FindGoes, ListGoes
  <2>2. Busy(r) /\ UNCHANGED <<photo, overlapped>>
    BY <1>11 DEF FindReview, ListPhotos, ListDrafts, At
  <2> QED BY <1>1, <1>4, <2>1, <2>2 DEF Uploading
<1>12. ASSUME NEW r \in Requests, DeleteObjects(r) \/ PutObject(r) \/ DeleteObject(r) PROVE LimitInv'
  <2>1. PICK s \in Call : /\ Goto(r, s) /\ s \in {"deleteRows", "readPublished", "deletePhoto"}
                          /\ s = "readPublished" => request[r].next = "putObject"
    BY <1>12 DEF DeleteObjects, PutObject, DeleteObject, Call, At
  <2>2. Busy(r) /\ UNCHANGED <<photo, overlapped>>
    BY <1>12 DEF DeleteObjects, PutObject, DeleteObject, At
  <2> QED BY <1>1, <1>6, <2>1, <2>2
<1>13. ASSUME NEW r \in Requests, DeleteRows(r) PROVE LimitInv'
  <2>1. Busy(r) /\ request[r].then \in {"deleteReview", "restore"}
    BY <1>13, Underway DEF DeleteRows, CallSound, Clearing, At
  <2>2. \A j \in Ids : PhotosOf(j)' \subseteq PhotosOf(j)
    BY <1>13 DEF DeleteRows, PhotosOf
  <2> QED BY <1>6, <1>13, <2>1, <2>2 DEF DeleteRows, Call
<1>14. ASSUME NEW r \in Requests, ReadPublished(r) PROVE LimitInv'
  <2>1. PICK q \in InFlight : request' = [request EXCEPT ![r] = q] /\ q.review = request[r].review
    BY <1>14, ReadGoes
  <2>2. Busy(r) /\ UNCHANGED <<photo, overlapped>> /\ Uploading(request[r])
    BY <1>14 DEF ReadPublished, At, Uploading, Busy
  <2> QED BY <1>1, <1>4, <2>1, <2>2
<1>15. ASSUME NEW r \in Requests, InsertPhoto(r) PROVE LimitInv'
  <2> DEFINE b == request[r]
  <2>1. b.review \in Ids /\ b.photo \in Photos /\ Busy(r) /\ Uploading(b)
    BY <1>15, Underway DEF InsertPhoto, CallSound, OnReview, OnPhoto, At, Uploading, Busy
  <2>2. PICK i \in Ids, p \in Photos : i = b.review /\ p = b.photo
    BY <2>1
  <2>3. photo'[p] # None => photo'[p].review = i
    BY <1>0, <1>15, <2>2 DEF InsertPhoto
  <2>4. \A x \in Photos : x # p => photo'[x] = photo[x]
    BY <1>0, <1>15, <2>2 DEF InsertPhoto
  <2>5. \A j \in Ids : PhotosOf(j)' \subseteq PhotosOf(j) \cup (IF j = i THEN {p} ELSE {})
    BY <2>3, <2>4 DEF PhotosOf
  <2>6. ASSUME NEW j \in Ids
        PROVE  /\ IsFiniteSet(PhotosOf(j)')
               /\ Cardinality(PhotosOf(j)') <= Cardinality(PhotosOf(j)) + (IF j = i THEN 1 ELSE 0)
               /\ Cardinality(PhotosOf(j)) \in Nat /\ Cardinality(PhotosOf(j)') \in Nat
    <3>1. IsFiniteSet(PhotosOf(j)) /\ Cardinality(PhotosOf(j)) \in Nat
      BY FS_CardinalityType DEF LimitInv
    <3>2. CASE j = i
      <4>1. /\ IsFiniteSet(PhotosOf(j) \cup {p}) /\ Cardinality(PhotosOf(j) \cup {p}) \in Nat
            /\ Cardinality(PhotosOf(j) \cup {p}) <= Cardinality(PhotosOf(j)) + 1
        <5>1. /\ IsFiniteSet(PhotosOf(j) \cup {p})
              /\ Cardinality(PhotosOf(j) \cup {p}) =
                    IF p \in PhotosOf(j) THEN Cardinality(PhotosOf(j)) ELSE Cardinality(PhotosOf(j)) + 1
          BY <3>1, FS_AddElement, Zenon
        <5> QED BY <3>1, <5>1
      <4>2. PhotosOf(j)' \subseteq PhotosOf(j) \cup {p}
        BY <2>5, <3>2
      <4>3. /\ IsFiniteSet(PhotosOf(j)')
            /\ Cardinality(PhotosOf(j)') <= Cardinality(PhotosOf(j) \cup {p})
            /\ Cardinality(PhotosOf(j)') \in Nat
        BY <4>1, <4>2, FS_Subset, FS_CardinalityType
      <4> QED BY <3>1, <3>2, <4>1, <4>3
    <3>3. CASE j # i
      <4>1. PhotosOf(j)' \subseteq PhotosOf(j)
        BY <2>5, <3>3
      <4> QED BY <3>1, <3>3, <4>1, FS_Subset, FS_CardinalityType
    <3> QED BY <3>2, <3>3
  <2>7. request'[r] = None /\ \A s \in Requests : s # r => request'[s] = request[s]
    BY <1>0, <1>15 DEF InsertPhoto, Finish
  <2>8. overlapped' = overlapped
    BY <1>15 DEF InsertPhoto
  <2>9. ~overlapped' => \A s \in Requests : ~Busy(s)' /\ ~Uploading(request'[s])
    BY <1>2, <2>1, <2>7, <2>8 DEF Busy, Uploading
  <2>10. ASSUME ~overlapped', NEW j \in Ids
         PROVE  Cardinality(PhotosOf(j)') <= MaxReviewPhotos
    <3>1. Cardinality(PhotosOf(j)) <= MaxReviewPhotos
          /\ (j = i => Cardinality(PhotosOf(j)) < MaxReviewPhotos)
      BY <2>1, <2>2, <2>8, <2>10 DEF LimitInv
    <3> QED BY <2>6, <3>1, ReviewsAssumption
  <2> QED BY <2>6, <2>9, <2>10 DEF LimitInv
<1>16. CASE EnrollmentChanges \/ UNCHANGED vars
  BY <1>16 DEF EnrollmentChanges, vars, LimitInv, PhotosOf, Busy, Uploading
<1> QED BY <1>3, <1>7, <1>8, <1>9, <1>10, <1>11, <1>12, <1>13, <1>14, <1>15, <1>16 DEF Next, Steps

-----------------------------------------------------------------------------
(***************************************************************************)
(* Calls that do not overlap: what is in the catalogue is current, and     *)
(* what the call under way has read is still so.                           *)
(***************************************************************************)
Current(i) ==
    IF review[i].status = "APPROVED"
      THEN /\ review[i].published = review[i].text
           /\ \A p \in PhotosOf(i) : photo[p].published
      ELSE /\ review[i].published = None
           /\ \A p \in PhotosOf(i) : ~photo[p].published

\* What the call q has read, or done, still holds.
Fresh(q) ==
    /\ q.next \in {"findReview", "writeReview"} =>
          \A i \in Existing : review[i].status = "REJECTED"
    /\ q.next \in {"editReview", "publishPhotos", "approve", "listDrafts", "restore", "reject",
                   "putObject", "readPublished", "insertPhoto"} => Exists(q.review)
    /\ q.next \in {"editReview", "insertPhoto"} => q.published = review[q.review].published
    /\ q.next = "publishPhotos" /\ q.then = None => review[q.review].status = "APPROVED"
    /\ q.next = "approve" \/ q.then = "approve" => q.text = review[q.review].text
    /\ q.next = "approve" => \A p \in PhotosOf(q.review) : photo[p].published
    /\ q.next = "listDrafts" => q.then = "restore"
    /\ q.next = "restore" \/ q.then = "restore" =>
          Exists(q.review) /\ q.published # None /\ q.published = review[q.review].published
    /\ q.next = "reject" => review[q.review].published = None
    /\ q.next \in {"deleteObjects", "deleteRows"} /\ q.then = "deleteReview" =>
          q.found = PhotosOf(q.review)
    /\ q.next = "deleteRows" => q.found \cap stored = {}
    /\ q.next = "deleteReview" => PhotosOf(q.review) = {}
    /\ q.next = "deletePhoto" => q.photo \notin stored

\* q is the only call under way, or None.
Calm(q) ==
    /\ \A p \in Photos : photo[p] # None => Exists(photo[p].review)
    /\ \A p \in stored : photo[p] # None \/ Inserting(q, p)
    /\ \A i \in Existing : Current(i) \/ (q # None /\ q.next = "approve" /\ q.review = i)
    /\ q # None => Fresh(q)

CalmInv ==
    ~overlapped /\ ~broken =>
        /\ \A r \in Requests, q \in InFlight : request[r] = q => Calm(q)
        /\ AtRest => Calm(None)

LEMMA CalmInit == ASSUME Init PROVE CalmInv
<1>1. Calm(None)
  BY DEF Init, Calm, Existing, Exists
<1>2. \A r \in Requests, q \in InFlight : request[r] # q
  BY NoneAssumption DEF Init
<1> QED BY <1>1, <1>2 DEF CalmInv

\* A step of r that leaves q to do.
LEMMA CalmGoes ==
    ASSUME IndInv, LimitInv, NEW r \in Requests, NEW q \in InFlight \cup {None},
           request' = [request EXCEPT ![r] = q],
           ~overlapped' => ~overlapped /\ \A s \in Requests : Busy(s) => s = r,
           ~overlapped' /\ ~broken' => Calm(q)'
    PROVE  CalmInv'
<1>1. request'[r] = q /\ \A s \in Requests : s # r => request'[s] = request[s]
  BY DEF IndInv, TypeOK
<1>2. ASSUME ~overlapped', ~broken', NEW s \in Requests, NEW o \in InFlight, request'[s] = o
      PROVE  Calm(o)'
  <2>1. s = r
    BY <1>1, <1>2, NoneAssumption DEF Busy
  <2>2. o = q
    BY <1>1, <1>2, <2>1
  <2> QED BY <1>2, <2>2
<1>3. ASSUME ~overlapped', ~broken', AtRest'
      PROVE  Calm(None)'
  <2>1. q = None
    BY <1>1, <1>3 DEF AtRest, Busy
  <2> QED BY <1>3, <2>1
<1> QED BY <1>2, <1>3 DEF CalmInv

LEMMA CalmStartHolds ==
    ASSUME IndInv, LimitInv, CalmInv, NEW r \in Requests, Calls(r)
    PROVE  CalmInv'
<1>1. PICK q \in InFlight :
        /\ Start(r, q)
        /\ \/ /\ q.next = "findReview" /\ q.then = None
              /\ \A i \in Existing : review[i].status = "REJECTED"
           \/ /\ q.next = "editReview" /\ q.then = None
              /\ Exists(q.review) /\ q.review \in Ids
              /\ q.published = review[q.review].published
           \/ q.next = "listPhotos" /\ q.then = "deleteReview"
           \/ /\ q.next = "publishPhotos" /\ q.then = "approve"
              /\ Exists(q.review) /\ q.review \in Ids /\ q.text = review[q.review].text
           \/ /\ q.next = "listDrafts" /\ q.then = "restore"
              /\ Exists(q.review) /\ q.review \in Ids
              /\ q.published # None /\ q.published = review[q.review].published
           \/ /\ q.next = "reject" /\ q.then = None
              /\ Exists(q.review) /\ q.review \in Ids /\ review[q.review].published = None
           \/ /\ q.next = "putObject" /\ q.then = None
              /\ Exists(q.review) /\ q.review \in Ids
           \/ q.next = "deleteObject" /\ q.then = None
  BY Began
<1>2. Fresh(q)
  BY <1>1, ReviewsAssumption DEF Fresh
<1>3. Fresh(q)'
  BY <1>1, <1>2 DEF Fresh, Existing, Exists, PhotosOf, Start, rows, files
<1>4. ~overlapped' => ~overlapped /\ AtRest
  BY <1>1 DEF Start, AtRest
<1>5. ASSUME ~overlapped', ~broken' PROVE Calm(q)'
  <2>1. Calm(None)
    BY <1>1, <1>4, <1>5 DEF CalmInv, Start
  <2>2. review' = review /\ photo' = photo /\ stored' = stored
    BY <1>1 DEF Start, rows, files
  <2>3. \A i \in Existing : Current(i)
    BY <2>1 DEF Calm
  <2>4. \A p \in Photos : photo[p] # None => Exists(photo[p].review)
    BY <2>1 DEF Calm
  <2>5. \A p \in stored : photo[p] # None
    BY <2>1 DEF Calm, Inserting
  <2> QED BY <1>3, <2>2, <2>3, <2>4, <2>5 DEF Calm, Existing, Exists, Current, PhotosOf
<1> QED BY <1>1, <1>4, <1>5, CalmGoes DEF Start, AtRest

\* The call under way in a calm state.
LEMMA CalmUnderway ==
    ASSUME IndInv, LimitInv, CalmInv, NEW r \in Requests, NEW s, At(r, s)
    PROVE  /\ ~overlapped => \A t \in Requests : Busy(t) => t = r
           /\ \E b \in InFlight :
                /\ b = request[r] /\ b.next = s /\ CallSound(b)
                /\ ~overlapped /\ ~broken => Calm(b)
BY Underway DEF CalmInv, LimitInv, At

\* A step that finishes the call, or goes on, in a calm state.
LEMMA CalmFinish ==
    ASSUME IndInv, LimitInv, CalmInv, NEW r \in Requests, Busy(r), Finish(r),
           UNCHANGED overlapped,
           ~overlapped /\ ~broken' => Calm(None)'
    PROVE  CalmInv'
<1>1. ~overlapped => \A t \in Requests : Busy(t) => t = r
  BY DEF LimitInv
<1> QED BY <1>1, CalmGoes DEF Finish

LEMMA CalmOn ==
    ASSUME IndInv, LimitInv, CalmInv, NEW r \in Requests, Busy(r), NEW q \in InFlight,
           request' = [request EXCEPT ![r] = q],
           UNCHANGED overlapped,
           ~overlapped /\ ~broken' => Calm(q)'
    PROVE  CalmInv'
<1>1. ~overlapped => \A t \in Requests : Busy(t) => t = r
  BY DEF LimitInv
<1> QED BY <1>1, CalmGoes

\* A row that is current is written over that of review i.
LEMMA CalmRow ==
    ASSUME IndInv, NEW i \in Ids, Exists(i), NEW row \in Review, SetReview(i, row),
           UNCHANGED <<photo, stored>>, NEW q, q = None \/ Fresh(q)',
           \A p \in Photos : photo[p] # None => Exists(photo[p].review),
           \A p \in stored : photo[p] # None,
           \A j \in Existing : Current(j) \/ j = i,
           IF row.status = "APPROVED"
             THEN /\ row.published = row.text
                  /\ \A p \in PhotosOf(i) : photo[p].published
             ELSE /\ row.published = None
                  /\ \A p \in PhotosOf(i) : ~photo[p].published
    PROVE  Calm(q)'
<1>1. review'[i] = row /\ \A j \in Ids : j # i => review'[j] = review[j]
  BY DEF SetReview, IndInv, TypeOK
<1>2. Existing' = Existing /\ i \in Existing
  BY <1>1, NoneAssumption DEF Existing, Exists
<1>3. \A j \in Ids : PhotosOf(j)' = PhotosOf(j)
  BY DEF PhotosOf
<1>4. \A j \in Existing : j # i => Current(j)'
  BY <1>1, <1>3 DEF Current, Existing
<1>5. Current(i)'
  BY <1>1, <1>3 DEF Current
<1>6. \A p \in Photos : photo[p] # None => photo[p].review \in Ids
  BY DEF IndInv, TypeOK, Photo
<1>7. \A p \in Photos : (photo[p] # None => Exists(photo[p].review))'
  BY <1>1, <1>2, <1>6 DEF Existing, Exists
<1>8. (q # None => Fresh(q))'
  OBVIOUS
<1>9. \A j \in Existing' : Current(j)'
  BY <1>2, <1>4, <1>5
<1>10. \A p \in stored' : photo'[p] # None
  OBVIOUS
<1> QED BY <1>7, <1>8, <1>9, <1>10 DEF Calm

\* The author's steps.
LEMMA CalmAuthorHolds ==
    ASSUME IndInv, LimitInv, CalmInv, NEW r \in Requests,
           FindReview(r) \/ WriteReview(r) \/ EditReview(r) \/ DeleteReview(r)
    PROVE  CalmInv'
<1> USE DEF rows, files, history
<1>0. /\ review \in [Ids -> Review \cup {None}] /\ photo \in [Photos -> Photo \cup {None}]
      /\ \A i \in Ids : Exists(i) => review[i].text \in Texts /\ review[i].text # None
  BY NoneAssumption DEF IndInv, TypeOK, Exists, Review
<1>1. ASSUME NEW b \in InFlight, Calm(b), b.next \notin {"readPublished", "insertPhoto", "approve"}
      PROVE  Calm(None)
  BY <1>1 DEF Calm, Inserting
<1>2. ASSUME Calm(None), UNCHANGED <<review, photo, stored>>
      PROVE  Calm(None)'
  BY <1>2 DEF Calm, Inserting, Existing, Exists, Current, PhotosOf
<1>3. ASSUME FindReview(r) PROVE CalmInv'
  <2>1. PICK b \in InFlight : /\ b = request[r] /\ b.next = "findReview" /\ CallSound(b)
                              /\ ~overlapped /\ ~broken => Calm(b)
    BY <1>3, CalmUnderway DEF FindReview
  <2>2. PICK q \in InFlight : /\ request' = [request EXCEPT ![r] = q]
                              /\ q.next = "writeReview" /\ q.then = b.then
    BY <1>3, <2>1, FindGoes
  <2>3. q.then = None
    BY <2>1, <2>2 DEF CallSound
  <2>4. UNCHANGED <<review, photo, stored>>
    BY <1>3 DEF FindReview
  <2>5. ASSUME ~overlapped, ~broken' PROVE Calm(q)'
    <3>1. Calm(b) /\ Calm(None)'
      BY <1>1, <1>2, <1>3, <2>1, <2>4, <2>5 DEF FindReview
    <3>2. \A i \in Existing : review[i].status = "REJECTED"
      BY <2>1, <3>1, NoneAssumption DEF Calm, Fresh
    <3>3. Fresh(q)'
      BY <2>2, <2>3, <2>4, <3>2, ReviewsAssumption DEF Fresh, Existing, Exists
    <3> QED BY <3>1, <3>3 DEF Calm, Inserting
  <2> QED BY <1>3, <2>2, <2>5, CalmOn DEF FindReview, At
<1>4. ASSUME WriteReview(r) PROVE CalmInv'
  <2>1. PICK b \in InFlight : /\ b = request[r] /\ b.next = "writeReview" /\ CallSound(b)
                              /\ ~overlapped /\ ~broken => Calm(b)
    BY <1>4, CalmUnderway DEF WriteReview
  <2>2. UNCHANGED <<photo, stored, overlapped, broken>> /\ Finish(r) /\ Busy(r)
    BY <1>4 DEF WriteReview, Refuse, At
  <2>3. ASSUME ~overlapped, ~broken' PROVE Calm(None)'
    <3>1. Calm(b) /\ Calm(None)
      BY <1>1, <2>1, <2>2, <2>3
    <3>2. \A i \in Existing : review[i].status = "REJECTED"
      BY <2>1, <3>1, NoneAssumption DEF Calm, Fresh
    <3>3. CASE UNCHANGED review
      BY <1>2, <2>2, <3>1, <3>3
    <3>4. CASE \E i \in Ids : /\ Existing = {}
                              /\ SetReview(i, [text |-> b.text, published |-> None, status |-> "PENDING"])
      <4>1. PICK i \in Ids : /\ Existing = {}
                             /\ SetReview(i, [text |-> b.text, published |-> None, status |-> "PENDING"])
        BY <3>4
      <4>2. \A p \in Photos : photo[p] = None
        <5>1. \A p \in Photos : photo[p] # None => photo[p].review \in Ids
          BY <1>0 DEF Photo
        <5> QED BY <3>1, <4>1, <5>1 DEF Calm, Existing
      <4>3. stored = {}
        BY <3>1, <4>2 DEF Calm, Inserting, IndInv, TypeOK
      <4>4. \A j \in Ids : Exists(j)' => j = i
        BY <1>0, <4>1 DEF Existing, Exists, SetReview
      <4>5. review'[i] = [text |-> b.text, published |-> None, status |-> "PENDING"]
        BY <1>0, <4>1 DEF SetReview
      <4>6. Current(i)'
        BY <2>2, <4>2, <4>5 DEF Current, PhotosOf
      <4>7. \A j \in Existing' : Current(j)'
        BY <4>4, <4>6 DEF Existing
      <4> QED BY <2>2, <4>2, <4>3, <4>7 DEF Calm
    <3>5. CASE \E i \in Existing :
                  SetReview(i, [review[i] EXCEPT !.text = b.text, !.status = "PENDING"])
      <4>1. PICK i \in Existing :
                  SetReview(i, [review[i] EXCEPT !.text = b.text, !.status = "PENDING"])
        BY <3>5
      <4>2. i \in Ids /\ review[i] \in Review
        BY <1>0 DEF Existing, Exists
      <4>3. review[i].published = None /\ \A p \in PhotosOf(i) : ~photo[p].published
        BY <3>1, <3>2, <4>1 DEF Calm, Current
      <4>4. /\ review'[i].published = None /\ review'[i].status = "PENDING" /\ review'[i] # None
            /\ \A j \in Ids : j # i => review'[j] = review[j]
        <5>1. PICK x \in Review : x = review[i]
          BY <4>2
        <5>2. [x EXCEPT !.text = b.text, !.status = "PENDING"].published = x.published
              /\ [x EXCEPT !.text = b.text, !.status = "PENDING"].status = "PENDING"
          BY DEF Review
        <5>3. [x EXCEPT !.text = b.text, !.status = "PENDING"] \in Review
          BY <2>1, <4>2 DEF Review, CallSound
        <5>4. /\ review'[i] = [x EXCEPT !.text = b.text, !.status = "PENDING"]
              /\ \A j \in Ids : j # i => review'[j] = review[j]
          BY <1>0, <4>1, <4>2, <5>1 DEF SetReview
        <5> QED BY <4>3, <5>1, <5>2, <5>3, <5>4, NoneAssumption
      <4>5. Existing' = Existing
        BY <4>1, <4>2, <4>4 DEF Existing, Exists
      <4>6. \A j \in Ids : PhotosOf(j)' = PhotosOf(j)
        BY <2>2 DEF PhotosOf
      <4>7. \A j \in Existing' : Current(j)'
        BY <2>2, <3>1, <4>3, <4>4, <4>5, <4>6 DEF Calm, Current, Existing
      <4>8. \A j \in Ids : Exists(j) => Exists(j)'
        BY <4>5 DEF Existing
      <4>9. \A p \in Photos : photo[p] # None => photo[p].review \in Ids
        BY <1>0 DEF Photo
      <4> QED BY <2>2, <3>1, <4>7, <4>8, <4>9 DEF Calm, Inserting
    <3>6. created < MaxReviews => created + 1 \in Ids
      BY ReviewsAssumption DEF IndInv, TypeOK, Ids
    <3> QED BY <1>4, <2>1, <3>3, <3>4, <3>5, <3>6 DEF WriteReview, Refuse
  <2> QED BY <2>2, <2>3, CalmFinish
<1>5. ASSUME EditReview(r) PROVE CalmInv'
  <2>1. PICK b \in InFlight : /\ b = request[r] /\ b.next = "editReview" /\ CallSound(b)
                              /\ ~overlapped /\ ~broken => Calm(b)
    BY <1>5, CalmUnderway DEF EditReview
  <2>2. UNCHANGED <<photo, stored, overlapped, broken>> /\ Busy(r)
    BY <1>5 DEF EditReview, Refuse, At
  <2> DEFINE i == b.review
  <2>3. i \in Ids /\ b.text \in Texts /\ b.then = None
    BY <2>1 DEF CallSound, OnReview
  <2>4. \A j \in Ids : PhotosOf(j)' = PhotosOf(j)
    BY <2>2 DEF PhotosOf
  <2>5. Calm(None) => /\ \A p \in Photos : photo[p] # None => Exists(photo[p].review)
                      /\ \A p \in stored : photo[p] # None
                      /\ \A j \in Existing : Current(j)
    BY DEF Calm, Inserting
  <2>6. ASSUME ~overlapped, ~broken'
        PROVE  /\ Calm(b) /\ Calm(None)
               /\ Exists(i) /\ review[i] \in Review /\ Current(i) /\ b.published = review[i].published
               /\ review[i].text \in Texts /\ review[i].text # None
    <3>1. Calm(b) /\ Calm(None)
      BY <1>1, <2>1, <2>2, <2>6
    <3>2. Exists(i) /\ b.published = review[i].published
      BY <2>1, <3>1, NoneAssumption DEF Calm, Fresh
    <3>3. Current(i) /\ review[i] \in Review
      BY <1>0, <2>3, <3>1, <3>2 DEF Calm, Existing, Exists
    <3> QED BY <1>0, <2>3, <3>1, <3>2, <3>3
  <2>7. CASE /\ Exists(i) /\ b.published # None
             /\ SetReview(i, [text |-> b.text, published |-> b.text, status |-> "APPROVED"])
             /\ Goto(r, "publishPhotos")
    <3>1. PICK q \in InFlight : /\ request' = [request EXCEPT ![r] = q]
                                /\ q.next = "publishPhotos" /\ q.review = i /\ q.then = b.then
      BY <2>1, <2>7, Went DEF Call
    <3>2. PICK row \in Review : row = [text |-> b.text, published |-> b.text, status |-> "APPROVED"]
      BY <2>3 DEF Review
    <3>3. ASSUME ~overlapped, ~broken' PROVE Calm(q)'
      <4>1. \A p \in PhotosOf(i) : photo[p].published
        BY <2>6, <2>7, <3>3 DEF Current
      <4>2. review'[i] = row
        BY <1>0, <2>3, <2>7, <3>2 DEF SetReview
      <4>3. Fresh(q)'
        BY <2>3, <3>1, <3>2, <4>2, NoneAssumption, ReviewsAssumption DEF Fresh, Exists
      <4>4. row.status = "APPROVED" /\ row.published = row.text
        BY <3>2
      <4> QED BY <2>2, <2>3, <2>5, <2>6, <2>7, <3>2, <3>3, <4>1, <4>3, <4>4, CalmRow
    <3> QED BY <2>2, <3>1, <3>3, CalmOn
  <2>8. CASE /\ Exists(i) /\ b.published = None
             /\ SetReview(i, [review[i] EXCEPT !.text = b.text, !.status = "PENDING"])
             /\ Finish(r)
    <3>1. ASSUME ~overlapped, ~broken' PROVE Calm(None)'
      <4>1. review[i].published = None /\ \A p \in PhotosOf(i) : ~photo[p].published
        BY <2>6, <2>8, <3>1 DEF Current
      <4>2. PICK row \in Review : row = [review[i] EXCEPT !.text = b.text, !.status = "PENDING"]
        BY <2>3, <2>6, <3>1 DEF Review
      <4>3. row.status = "PENDING" /\ row.published = None
        BY <2>6, <3>1, <4>1, <4>2 DEF Review
      <4> QED BY <2>2, <2>3, <2>5, <2>6, <2>8, <3>1, <4>1, <4>2, <4>3, CalmRow
    <3> QED BY <2>2, <2>8, <3>1, CalmFinish
  <2>9. CASE Refuse(r)
    BY <1>2, <2>2, <2>6, <2>9, CalmFinish DEF Refuse
  <2> QED BY <1>5, <2>1, <2>7, <2>8, <2>9 DEF EditReview
<1>6. ASSUME DeleteReview(r) PROVE CalmInv'
  <2>1. PICK b \in InFlight : /\ b = request[r] /\ b.next = "deleteReview" /\ CallSound(b)
                              /\ ~overlapped /\ ~broken => Calm(b)
    BY <1>6, CalmUnderway DEF DeleteReview
  <2>2. UNCHANGED <<photo, stored, overlapped, broken>> /\ Busy(r) /\ Finish(r)
    BY <1>6 DEF DeleteReview, Refuse, At
  <2> DEFINE i == b.review
  <2>3. i \in Ids
    BY <2>1 DEF CallSound, OnReview
  <2>4. ASSUME ~overlapped, ~broken' PROVE Calm(None)'
    <3>1. Calm(b) /\ Calm(None)
      BY <1>1, <2>1, <2>2, <2>4
    <3>2. CASE UNCHANGED review
      BY <1>2, <2>2, <3>1, <3>2
    <3>3. CASE SetReview(i, None)
      <4>1. \A j \in Ids : j # i => review'[j] = review[j]
        BY <1>0, <2>3, <3>3 DEF SetReview
      <4>2. review'[i] = None
        BY <1>0, <2>3, <3>3 DEF SetReview
      <4>3. PhotosOf(i) = {}
        BY <2>1, <3>1, NoneAssumption DEF Calm, Fresh
      <4>4. \A p \in Photos : photo[p] # None => Exists(photo[p].review)'
        <5>1. \A p \in Photos : photo[p] # None => photo[p].review \in Ids /\ photo[p].review # i
          BY <1>0, <4>3 DEF Photo, PhotosOf
        <5> QED BY <2>2, <3>1, <4>1, <5>1 DEF Calm, Exists
      <4>5. \A j \in Existing' : Current(j)'
        <5>1. \A j \in Existing' : j \in Existing /\ j # i
          BY <4>1, <4>2 DEF Existing, Exists
        <5> QED BY <2>2, <3>1, <4>1, <5>1 DEF Calm, Current, PhotosOf, Existing
      <4> QED BY <2>2, <3>1, <4>4, <4>5 DEF Calm, Inserting
    <3> QED BY <1>6, <2>1, <3>2, <3>3 DEF DeleteReview, Refuse
  <2> QED BY <2>2, <2>4, CalmFinish
<1> QED BY <1>3, <1>4, <1>5, <1>6

\* The moderator's verdict.
LEMMA CalmVerdictHolds ==
    ASSUME IndInv, LimitInv, CalmInv, NEW r \in Requests,
           Approve(r) \/ Restore(r) \/ Reject(r)
    PROVE  CalmInv'
<1> USE DEF rows, files, history
<1>1. PICK s \in {"approve", "restore", "reject"} : At(r, s)
  BY DEF Approve, Restore, Reject
<1>2. PICK b \in InFlight : /\ b = request[r] /\ b.next = s /\ CallSound(b)
                            /\ ~overlapped /\ ~broken => Calm(b)
  BY <1>1, CalmUnderway
<1> DEFINE i == b.review
<1>3. i \in Ids
  BY <1>2 DEF CallSound, OnReview
<1>4. UNCHANGED <<photo, stored, overlapped, broken>> /\ Finish(r) /\ Busy(r)
  BY DEF Approve, Restore, Reject, Verdict, Refuse, At
<1>5. ASSUME Exists(i)
      PROVE  /\ s = "approve" =>
                  SetReview(i, [review[i] EXCEPT !.published = b.text, !.status = "APPROVED"])
             /\ s = "restore" =>
                  SetReview(i, [review[i] EXCEPT !.text = b.published, !.status = "APPROVED"])
             /\ s = "reject" => SetReview(i, [review[i] EXCEPT !.status = "REJECTED"])
  BY <1>1, <1>2, <1>5 DEF Approve, Restore, Reject, Verdict, At
<1>6. ASSUME ~overlapped, ~broken' PROVE Calm(None)'
  <2>1. Calm(b) /\ Fresh(b)
    BY <1>2, <1>4, <1>6, NoneAssumption DEF Calm
  <2>2. Exists(i)
    BY <1>2, <2>1 DEF Fresh
  <2>3. review[i] \in Review /\ review[i].text \in Texts /\ review[i].text # None
    BY <1>3, <2>2, NoneAssumption DEF IndInv, TypeOK, Exists, Review
  <2>4. s # "approve" => Current(i)
    BY <1>2, <1>3, <2>1, <2>2 DEF Calm, Existing
  <2>5. PICK row \in Review :
          /\ SetReview(i, row)
          /\ IF row.status = "APPROVED"
               THEN /\ row.published = row.text
                    /\ \A p \in PhotosOf(i) : photo[p].published
               ELSE /\ row.published = None
                    /\ \A p \in PhotosOf(i) : ~photo[p].published
    <3>1. CASE s = "approve"
      <4> DEFINE row == [review[i] EXCEPT !.published = b.text, !.status = "APPROVED"]
      <4>1. b.text = review[i].text /\ \A p \in PhotosOf(i) : photo[p].published
        BY <1>2, <2>1, <3>1 DEF Fresh
      <4>2. row \in Review /\ row.status = "APPROVED" /\ row.published = row.text
        BY <2>3, <4>1 DEF Review
      <4>3. SetReview(i, row)
        BY <1>5, <2>2, <3>1
      <4> HIDE DEF row
      <4> QED BY <4>1, <4>2, <4>3
    <3>2. CASE s = "restore"
      <4> DEFINE row == [review[i] EXCEPT !.text = b.published, !.status = "APPROVED"]
      <4>1. b.published # None /\ b.published = review[i].published
        BY <1>2, <2>1, <3>2 DEF Fresh
      <4>2. row \in Review /\ row.status = "APPROVED" /\ row.published = row.text
        BY <2>3, <4>1 DEF Review
      <4>3. SetReview(i, row)
        BY <1>5, <2>2, <3>2
      <4>4. \A p \in PhotosOf(i) : photo[p].published
        BY <2>4, <3>2, <4>1 DEF Current
      <4> HIDE DEF row
      <4> QED BY <4>2, <4>3, <4>4
    <3>3. CASE s = "reject"
      <4> DEFINE row == [review[i] EXCEPT !.status = "REJECTED"]
      <4>1. review[i].published = None
        BY <1>2, <2>1, <3>3 DEF Fresh
      <4>2. row \in Review /\ row.status = "REJECTED" /\ row.published = None
        BY <2>3, <4>1 DEF Review
      <4>3. SetReview(i, row)
        BY <1>5, <2>2, <3>3
      <4>4. \A p \in PhotosOf(i) : ~photo[p].published
        BY <2>3, <2>4, <3>3, <4>1 DEF Current
      <4> HIDE DEF row
      <4> QED BY <4>2, <4>3, <4>4
    <3> QED BY <3>1, <3>2, <3>3
  <2>6. /\ \A p \in Photos : photo[p] # None => Exists(photo[p].review)
        /\ \A p \in stored : photo[p] # None
        /\ \A j \in Existing : Current(j) \/ j = i
    BY <1>2, <2>1 DEF Calm, Inserting
  <2> QED BY <1>3, <1>4, <2>2, <2>5, <2>6, CalmRow
<1> QED BY <1>4, <1>6, CalmFinish

\* Publishing the photos, and removing them.
LEMMA CalmPhotosHold ==
    ASSUME IndInv, LimitInv, CalmInv, NEW r \in Requests,
           \/ PublishPhotos(r) \/ ListPhotos(r) \/ ListDrafts(r)
           \/ DeleteObjects(r) \/ DeleteRows(r)
    PROVE  CalmInv'
<1> USE DEF rows, files, history
<1>0. /\ photo \in [Photos -> Photo \cup {None}] /\ stored \subseteq Photos
      /\ \A p \in Photos : photo[p] # None => photo[p].review \in Ids
  BY DEF IndInv, TypeOK, Photo
<1>1. ASSUME PublishPhotos(r) PROVE CalmInv'
  <2>1. PICK b \in InFlight : /\ b = request[r] /\ b.next = "publishPhotos" /\ CallSound(b)
                              /\ ~overlapped /\ ~broken => Calm(b)
    BY <1>1, CalmUnderway DEF PublishPhotos
  <2> DEFINE i == b.review
  <2>2. i \in Ids /\ b.then \in {None, "approve"}
    BY <2>1 DEF CallSound, OnReview
  <2>3. UNCHANGED <<review, stored, overlapped, broken>> /\ Busy(r)
    BY <1>1 DEF PublishPhotos, At
  <2>4. \A p \in Photos : /\ (photo'[p] = None) = (photo[p] = None)
                          /\ photo[p] # None => photo'[p].review = photo[p].review
                          /\ p \in PhotosOf(i) => photo'[p].published
                          /\ p \notin PhotosOf(i) => photo'[p] = photo[p]
    <3> DEFINE mine == PhotosOf(i)
    <3>1. \A p \in Photos : photo'[p] = IF p \in mine THEN [photo[p] EXCEPT !.published = TRUE] ELSE photo[p]
      BY <1>1, <2>1 DEF PublishPhotos
    <3>2. \A p \in mine : photo[p] \in Photo /\ photo[p] # None
      BY <1>0 DEF PhotosOf
    <3>3. \A x \in Photo : /\ [x EXCEPT !.published = TRUE] \in Photo
                           /\ [x EXCEPT !.published = TRUE].review = x.review
                           /\ [x EXCEPT !.published = TRUE].published
      BY DEF Photo
    <3>4. mine = PhotosOf(i)
      OBVIOUS
    <3> HIDE DEF mine
    <3>5. ASSUME NEW p \in Photos, p \in mine
          PROVE  photo'[p] # None /\ photo'[p].review = photo[p].review /\ photo'[p].published
                 /\ photo[p] # None
      BY <3>1, <3>2, <3>3, <3>5, NoneAssumption
    <3>6. ASSUME NEW p \in Photos, p \notin mine PROVE photo'[p] = photo[p]
      BY <3>1, <3>6
    <3> QED BY <3>4, <3>5, <3>6
  <2>5. \A j \in Ids : PhotosOf(j)' = PhotosOf(j)
    BY <2>4 DEF PhotosOf
  <2>6. ASSUME ~overlapped, ~broken'
        PROVE  /\ Fresh(b)
               /\ \A p \in Photos : (photo[p] # None => Exists(photo[p].review))'
               /\ \A p \in stored' : photo'[p] # None
               /\ \A j \in Existing : (j = i /\ review[j].status # "APPROVED") \/ Current(j)'
               /\ \A p \in PhotosOf(i)' : photo'[p].published
    <3>1. Calm(b) /\ Fresh(b)
      BY <2>1, <2>3, <2>6, NoneAssumption DEF Calm
    <3>2. \A p \in Photos : (photo[p] # None => Exists(photo[p].review))'
      BY <2>3, <2>4, <3>1 DEF Calm, Exists
    <3>3. \A p \in stored' : photo'[p] # None
      BY <1>0, <2>1, <2>3, <2>4, <3>1 DEF Calm, Inserting
    <3>4. \A p \in PhotosOf(i)' : photo'[p].published
      BY <2>2, <2>4, <2>5 DEF PhotosOf
    <3>5. ASSUME NEW j \in Existing, j # i PROVE Current(j)'
      <4>1. j \in Ids /\ Current(j)
        BY <2>1, <3>1 DEF Calm, Existing
      <4>2. \A p \in PhotosOf(j) : photo'[p] = photo[p]
        BY <2>4, <3>5 DEF PhotosOf
      <4> QED BY <2>3, <2>5, <4>1, <4>2 DEF Current
    <3>6. ASSUME i \in Existing, review[i].status = "APPROVED" PROVE Current(i)'
      <4>1. Current(i)
        BY <2>1, <3>1, <3>6 DEF Calm
      <4> QED BY <2>3, <3>4, <3>6, <4>1 DEF Current
    <3> QED BY <3>1, <3>2, <3>3, <3>4, <3>5, <3>6
  <2>7. Existing' = Existing
    BY <2>3 DEF Existing, Exists
  <2>8. CASE b.then = None
    <3>1. Finish(r)
      BY <1>1, <2>1, <2>8 DEF PublishPhotos
    <3>2. ASSUME ~overlapped, ~broken' PROVE Calm(None)'
      <4>1. review[i].status = "APPROVED"
        BY <2>1, <2>6, <2>8, <3>2 DEF Fresh
      <4> QED BY <2>6, <2>7, <3>2, <4>1 DEF Calm
    <3> QED BY <2>3, <3>1, <3>2, CalmFinish
  <2>9. CASE b.then = "approve"
    <3>1. PICK q \in InFlight : /\ request' = [request EXCEPT ![r] = q]
                                /\ q.next = "approve" /\ q.review = i /\ q.then = b.then
                                /\ q.text = b.text
      BY <1>1, <2>1, <2>9, ReviewsAssumption, Went DEF PublishPhotos, Call
    <3>2. ASSUME ~overlapped, ~broken' PROVE Calm(q)'
      <4>1. Exists(i) /\ b.text = review[i].text
        BY <2>1, <2>6, <2>9, <3>2 DEF Fresh
      <4>2. Fresh(q)'
        BY <2>3, <2>6, <2>9, <3>1, <3>2, <4>1 DEF Fresh, Exists
      <4> QED BY <2>6, <2>7, <3>1, <3>2, <4>2, NoneAssumption DEF Calm
    <3> QED BY <2>3, <3>1, <3>2, CalmOn
  <2> QED BY <2>2, <2>8, <2>9
<1>2. ASSUME ListPhotos(r) \/ ListDrafts(r) PROVE CalmInv'
  <2>1. PICK s \in {"listPhotos", "listDrafts"} : At(r, s) /\ (ListDrafts(r) => s = "listDrafts")
    BY <1>2 DEF ListPhotos, ListDrafts, At
  <2>2. PICK b \in InFlight : /\ b = request[r] /\ b.next = s /\ CallSound(b)
                              /\ ~overlapped /\ ~broken => Calm(b)
    BY <2>1, CalmUnderway
  <2>3. PICK q \in InFlight :
          /\ request' = [request EXCEPT ![r] = q]
          /\ q.next = "deleteObjects"
          /\ q.review = b.review /\ q.text = b.text /\ q.then = b.then
          /\ q.published = b.published
          /\ q.found = {p \in PhotosOf(q.review) : ListDrafts(r) => ~photo[p].published}
    BY <1>2, <2>2, ListGoes
  <2>4. UNCHANGED <<review, photo, stored, overlapped, broken>> /\ Busy(r)
    BY <1>2 DEF ListPhotos, ListDrafts, At
  <2>5. q.then \in {"deleteReview", "restore"}
    BY <2>1, <2>2, <2>3 DEF CallSound, Clearing
  <2>6. ASSUME ~overlapped, ~broken' PROVE Calm(q)'
    <3>1. Calm(b) /\ Fresh(b)
      BY <2>2, <2>4, <2>6, NoneAssumption DEF Calm
    <3>2. q.then = "deleteReview" => q.found = PhotosOf(q.review)
      BY <2>1, <2>2, <2>3, <3>1 DEF Fresh
    <3>3. Fresh(q)
      BY <2>1, <2>2, <2>3, <2>5, <3>1, <3>2 DEF Fresh
    <3>4. Fresh(q)'
      BY <2>3, <2>4, <2>5, <3>3 DEF Fresh, Exists, PhotosOf
    <3> QED BY <2>1, <2>2, <2>4, <3>1, <3>4
            DEF Calm, Inserting, Existing, Exists, Current, PhotosOf
  <2> QED BY <2>3, <2>4, <2>6, CalmOn
<1>3. ASSUME DeleteObjects(r) PROVE CalmInv'
  <2>1. PICK b \in InFlight : /\ b = request[r] /\ b.next = "deleteObjects" /\ CallSound(b)
                              /\ ~overlapped /\ ~broken => Calm(b)
    BY <1>3, CalmUnderway DEF DeleteObjects
  <2>2. PICK q \in InFlight :
          /\ request' = [request EXCEPT ![r] = q]
          /\ q.next = "deleteRows"
          /\ q.review = b.review /\ q.text = b.text /\ q.then = b.then
          /\ q.published = b.published /\ q.found = b.found
    BY <1>3, <2>1, Went DEF DeleteObjects, Call
  <2>3. UNCHANGED <<review, photo, overlapped>> /\ Busy(r)
    BY <1>3 DEF DeleteObjects, At
  <2>4. q.then \in {"deleteReview", "restore"}
    BY <2>1, <2>2 DEF CallSound, Clearing
  <2>5. ASSUME ~overlapped, ~broken' PROVE Calm(q)'
    <3>1. ~broken /\ stored' = stored \ b.found
      BY <1>3, <2>1, <2>5 DEF DeleteObjects
    <3>2. Calm(b) /\ Fresh(b)
      BY <2>1, <2>5, <3>1, NoneAssumption DEF Calm
    <3>3. Fresh(q)'
      BY <2>1, <2>2, <2>3, <2>4, <3>1, <3>2, ReviewsAssumption DEF Fresh, Exists, PhotosOf
    <3> QED BY <2>1, <2>3, <3>1, <3>2, <3>3
            DEF Calm, Inserting, Existing, Exists, Current, PhotosOf
  <2> QED BY <2>2, <2>3, <2>5, CalmOn
<1>4. ASSUME DeleteRows(r) PROVE CalmInv'
  <2>1. PICK b \in InFlight : /\ b = request[r] /\ b.next = "deleteRows" /\ CallSound(b)
                              /\ ~overlapped /\ ~broken => Calm(b)
    BY <1>4, CalmUnderway DEF DeleteRows
  <2>2. b.then \in {"deleteReview", "restore"}
    BY <2>1 DEF CallSound, Clearing
  <2>3. PICK q \in InFlight :
          /\ request' = [request EXCEPT ![r] = q]
          /\ q.next = b.then
          /\ q.review = b.review /\ q.text = b.text /\ q.then = b.then
          /\ q.published = b.published
    BY <1>4, <2>1, <2>2, Went DEF DeleteRows, Call
  <2>4. UNCHANGED <<review, stored, overlapped, broken>> /\ Busy(r)
    BY <1>4 DEF DeleteRows, At
  <2>5. \A p \in Photos : photo'[p] = IF p \in b.found THEN None ELSE photo[p]
    BY <1>4, <2>1 DEF DeleteRows
  <2>6. \A j : PhotosOf(j)' \subseteq PhotosOf(j) \ b.found
    BY <2>5 DEF PhotosOf
  <2>7. ASSUME ~overlapped, ~broken' PROVE Calm(q)'
    <3>1. Calm(b) /\ Fresh(b)
      BY <2>1, <2>4, <2>7, NoneAssumption DEF Calm
    <3>2. q.then = "deleteReview" => PhotosOf(q.review)' = {}
      BY <2>1, <2>3, <2>6, <3>1 DEF Fresh
    <3>3. Fresh(q)'
      BY <2>1, <2>2, <2>3, <2>4, <3>1, <3>2 DEF Fresh, Exists
    <3>4. \A p \in Photos : (photo[p] # None => Exists(photo[p].review))'
      BY <2>4, <2>5, <3>1 DEF Calm, Exists
    <3>5. \A p \in stored' : photo'[p] # None
      BY <1>0, <2>1, <2>4, <2>5, <3>1 DEF Calm, Fresh, Inserting
    <3>6. ASSUME NEW j \in Existing' PROVE Current(j)'
      <4>1. Current(j)
        BY <2>1, <2>4, <3>1 DEF Calm, Existing, Exists
      <4>2. \A p \in PhotosOf(j)' : p \in PhotosOf(j) /\ photo'[p] = photo[p]
        BY <2>5, <2>6 DEF PhotosOf
      <4> QED BY <2>4, <4>1, <4>2 DEF Current
    <3> QED BY <3>3, <3>4, <3>5, <3>6 DEF Calm
  <2> QED BY <2>3, <2>4, <2>7, CalmOn
<1> QED BY <1>1, <1>2, <1>3, <1>4

\* A photo that is uploaded, or removed.
LEMMA CalmPhotoHolds ==
    ASSUME IndInv, LimitInv, CalmInv, NEW r \in Requests,
           PutObject(r) \/ ReadPublished(r) \/ InsertPhoto(r) \/ DeleteObject(r) \/ DeletePhoto(r)
    PROVE  CalmInv'
<1> USE DEF rows, files, history
<1>0. /\ photo \in [Photos -> Photo \cup {None}] /\ stored \subseteq Photos
      /\ \A p \in Photos : photo[p] # None => photo[p].review \in Ids
  BY DEF IndInv, TypeOK, Photo
<1>1. ASSUME PutObject(r) PROVE CalmInv'
  <2>1. PICK b \in InFlight : /\ b = request[r] /\ b.next = "putObject" /\ CallSound(b)
                              /\ ~overlapped /\ ~broken => Calm(b)
    BY <1>1, CalmUnderway DEF PutObject
  <2>2. PICK q \in InFlight :
          /\ request' = [request EXCEPT ![r] = q]
          /\ q.next = "readPublished" /\ q.photo = b.photo
          /\ q.review = b.review /\ q.then = b.then
    BY <1>1, <2>1, Went DEF PutObject, Call
  <2>3. UNCHANGED <<review, photo, overlapped, broken>> /\ Busy(r) /\ stored' = stored \cup {b.photo}
    BY <1>1, <2>1 DEF PutObject, At
  <2>4. q.then = None
    BY <2>1, <2>2 DEF CallSound, OnPhoto
  <2>5. ASSUME ~overlapped, ~broken' PROVE Calm(q)'
    <3>1. Calm(b) /\ Fresh(b)
      BY <2>1, <2>3, <2>5, NoneAssumption DEF Calm
    <3>2. Fresh(q)'
      BY <2>1, <2>2, <2>3, <2>4, <3>1, ReviewsAssumption DEF Fresh, Exists
    <3>3. \A p \in stored' : photo'[p] # None \/ Inserting(q, p)
      BY <2>1, <2>2, <2>3, <3>1, NoneAssumption DEF Calm, Inserting
    <3> QED BY <2>1, <2>3, <3>1, <3>2, <3>3
            DEF Calm, Existing, Exists, Current, PhotosOf
  <2> QED BY <2>2, <2>3, <2>5, CalmOn
<1>2. ASSUME ReadPublished(r) PROVE CalmInv'
  <2>1. PICK b \in InFlight : /\ b = request[r] /\ b.next = "readPublished" /\ CallSound(b)
                              /\ ~overlapped /\ ~broken => Calm(b)
    BY <1>2, CalmUnderway DEF ReadPublished
  <2>2. PICK q \in InFlight :
          /\ request' = [request EXCEPT ![r] = q]
          /\ q.next = "insertPhoto" /\ q.photo = b.photo
          /\ q.review = b.review /\ q.then = b.then
          /\ q.published = IF Exists(q.review) THEN review[q.review].published ELSE None
    BY <1>2, <2>1, ReadGoes
  <2>3. UNCHANGED <<review, photo, stored, overlapped, broken>> /\ Busy(r)
    BY <1>2 DEF ReadPublished, At
  <2>4. q.then = None
    BY <2>1, <2>2 DEF CallSound, OnPhoto
  <2>5. ASSUME ~overlapped, ~broken' PROVE Calm(q)'
    <3>1. Calm(b) /\ Fresh(b)
      BY <2>1, <2>3, <2>5, NoneAssumption DEF Calm
    <3>2. Exists(q.review) /\ q.published = review[q.review].published
      BY <2>1, <2>2, <3>1 DEF Fresh
    <3>3. Fresh(q)'
      BY <2>2, <2>3, <2>4, <3>2, ReviewsAssumption DEF Fresh, Exists
    <3>4. \A p \in stored' : photo'[p] # None \/ Inserting(q, p)
      BY <2>1, <2>2, <2>3, <3>1, NoneAssumption DEF Calm, Inserting
    <3> QED BY <2>1, <2>3, <3>1, <3>3, <3>4
            DEF Calm, Existing, Exists, Current, PhotosOf
  <2> QED BY <2>2, <2>3, <2>5, CalmOn
<1>3. ASSUME InsertPhoto(r) PROVE CalmInv'
  <2>1. PICK b \in InFlight : /\ b = request[r] /\ b.next = "insertPhoto" /\ CallSound(b)
                              /\ ~overlapped /\ ~broken => Calm(b)
    BY <1>3, CalmUnderway DEF InsertPhoto
  <2>2. PICK i \in Ids, x \in Photos : i = b.review /\ x = b.photo
    BY <2>1 DEF CallSound, OnReview, OnPhoto
  <2>3. UNCHANGED <<review, stored, overlapped, broken>> /\ Finish(r) /\ Busy(r)
    BY <1>3 DEF InsertPhoto, At
  <2>4. PICK row \in Photo : row.review = i /\ row.published = (b.published # None)
                             /\ row # None /\ photo' = [photo EXCEPT ![x] = row]
    <3> DEFINE f == b.published # None
               row == [review |-> i, published |-> f]
    <3>1. f \in BOOLEAN
      OBVIOUS
    <3>2. photo' = [photo EXCEPT ![x] = row]
      BY <1>3, <2>1, <2>2 DEF InsertPhoto
    <3> HIDE DEF f
    <3>3. row \in Photo /\ row.review = i /\ row.published = f
      BY <3>1 DEF Photo
    <3>4. row # None
      BY <3>3, NoneAssumption
    <3> HIDE DEF row
    <3> QED BY <3>2, <3>3, <3>4 DEF f
  <2>5. photo'[x] = row /\ \A p \in Photos : p # x => photo'[p] = photo[p]
    BY <1>0, <2>4
  <2>6. ASSUME ~overlapped, ~broken' PROVE Calm(None)'
    <3>1. Calm(b) /\ Fresh(b)
      BY <2>1, <2>3, <2>6, NoneAssumption DEF Calm
    <3>2. i \in Existing /\ b.published = review[i].published /\ review[i] \in Review
      BY <2>1, <2>2, <3>1 DEF Fresh, Existing, Exists, IndInv, TypeOK
    <3>3. \A p \in Photos : (photo[p] # None => Exists(photo[p].review))'
      BY <2>3, <2>4, <2>5, <3>1, <3>2 DEF Calm, Existing, Exists
    <3>4. \A p \in stored' : photo'[p] # None
      BY <1>0, <2>1, <2>2, <2>3, <2>4, <2>5, <3>1 DEF Calm, Inserting
    <3>5. ASSUME NEW j \in Existing' PROVE Current(j)'
      <4>1. j \in Existing /\ Current(j)
        BY <2>1, <2>3, <3>1 DEF Calm, Existing, Exists
      <4>2. \A p \in PhotosOf(j)' : \/ p \in PhotosOf(j) /\ photo'[p] = photo[p]
                                    \/ j = i /\ photo'[p].published = (b.published # None)
        BY <2>4, <2>5 DEF PhotosOf
      <4>3. CASE j = i /\ review[i].status = "APPROVED"
        <5>1. review[i].published # None
          BY <3>2, <4>1, <4>3, NoneAssumption DEF Current, Review
        <5>2. \A p \in PhotosOf(i)' : photo'[p].published
          BY <3>2, <4>1, <4>2, <4>3, <5>1 DEF Current
        <5> QED BY <2>3, <4>1, <4>3, <5>2 DEF Current
      <4>4. CASE j = i /\ review[i].status # "APPROVED"
        <5>1. review[i].published = None
          BY <4>1, <4>4 DEF Current
        <5>2. \A p \in PhotosOf(i)' : ~photo'[p].published
          BY <3>2, <4>1, <4>2, <4>4, <5>1 DEF Current
        <5> QED BY <2>3, <4>1, <4>4, <5>2 DEF Current
      <4>5. CASE j # i
        BY <2>3, <4>1, <4>2, <4>5 DEF Current
      <4> QED BY <4>3, <4>4, <4>5
    <3> QED BY <3>3, <3>4, <3>5 DEF Calm
  <2> QED BY <2>3, <2>6, CalmFinish
<1>4. ASSUME DeleteObject(r) PROVE CalmInv'
  <2>1. PICK b \in InFlight : /\ b = request[r] /\ b.next = "deleteObject" /\ CallSound(b)
                              /\ ~overlapped /\ ~broken => Calm(b)
    BY <1>4, CalmUnderway DEF DeleteObject
  <2>2. PICK q \in InFlight :
          /\ request' = [request EXCEPT ![r] = q]
          /\ q.next = "deletePhoto" /\ q.photo = b.photo /\ q.then = b.then
    BY <1>4, <2>1, Went DEF DeleteObject, Call
  <2>3. UNCHANGED <<review, photo, overlapped, broken>> /\ Busy(r) /\ stored' = stored \ {b.photo}
    BY <1>4, <2>1 DEF DeleteObject, At
  <2>4. q.then = None
    BY <2>1, <2>2 DEF CallSound, OnPhoto
  <2>5. ASSUME ~overlapped, ~broken' PROVE Calm(q)'
    <3>1. Calm(b)
      BY <2>1, <2>3, <2>5
    <3>2. Fresh(q)'
      BY <2>2, <2>3, <2>4, ReviewsAssumption DEF Fresh
    <3> QED BY <2>1, <2>3, <3>1, <3>2
            DEF Calm, Inserting, Existing, Exists, Current, PhotosOf
  <2> QED BY <2>2, <2>3, <2>5, CalmOn
<1>5. ASSUME DeletePhoto(r) PROVE CalmInv'
  <2>1. PICK b \in InFlight : /\ b = request[r] /\ b.next = "deletePhoto" /\ CallSound(b)
                              /\ ~overlapped /\ ~broken => Calm(b)
    BY <1>5, CalmUnderway DEF DeletePhoto
  <2>2. UNCHANGED <<review, stored, overlapped, broken>> /\ Busy(r) /\ Finish(r)
    BY <1>5 DEF DeletePhoto, Refuse, At
  <2>3. \A p \in Photos : \/ photo'[p] = photo[p]
                          \/ photo'[p] = None /\ p = b.photo
    BY <1>0, <1>5, <2>1 DEF DeletePhoto, Refuse
  <2>4. ASSUME ~overlapped, ~broken' PROVE Calm(None)'
    <3>1. Calm(b) /\ b.photo \notin stored
      BY <2>1, <2>2, <2>4, NoneAssumption DEF Calm, Fresh
    <3>2. \A p \in Photos : (photo[p] # None => Exists(photo[p].review))'
      BY <2>2, <2>3, <3>1 DEF Calm, Exists
    <3>3. \A p \in stored' : photo'[p] # None
      BY <1>0, <2>1, <2>2, <2>3, <3>1 DEF Calm, Inserting
    <3>4. ASSUME NEW j \in Existing' PROVE Current(j)'
      <4>1. Current(j)
        BY <2>1, <2>2, <3>1 DEF Calm, Existing, Exists
      <4>2. \A p \in PhotosOf(j)' : p \in PhotosOf(j) /\ photo'[p] = photo[p]
        BY <2>3 DEF PhotosOf
      <4> QED BY <2>2, <4>1, <4>2 DEF Current
    <3> QED BY <3>2, <3>3, <3>4 DEF Calm
  <2> QED BY <2>2, <2>4, CalmFinish
<1> QED BY <1>1, <1>2, <1>3, <1>4, <1>5

LEMMA CalmHolds ==
    ASSUME IndInv, LimitInv, CalmInv, [Next]_vars
    PROVE  CalmInv'
<1>1. ASSUME NEW r \in Requests, Calls(r) \/ Steps(r)
      PROVE  CalmInv'
  BY <1>1, CalmStartHolds, CalmAuthorHolds, CalmVerdictHolds, CalmPhotosHold, CalmPhotoHolds DEF Steps
<1>2. ASSUME NEW r \in Requests, RequestDies(r)
      PROVE  CalmInv'
  BY <1>2 DEF RequestDies, CalmInv
<1>3. CASE EnrollmentChanges \/ UNCHANGED vars
  <2>1. UNCHANGED <<rows, files, request, history>>
    BY <1>3 DEF EnrollmentChanges, vars
  <2>2. \A q : Fresh(q)' <=> Fresh(q)
    BY <2>1 DEF Fresh, Existing, Exists, PhotosOf, rows, files
  <2>3. \A q : Calm(q)' <=> Calm(q)
    BY <2>1, <2>2 DEF Calm, Existing, Exists, Current, PhotosOf, rows, files
  <2> QED BY <2>1, <2>3 DEF CalmInv, AtRest, Busy, history
<1> QED BY <1>1, <1>2, <1>3 DEF Next

-----------------------------------------------------------------------------
\* In every reachable state what is published was approved once, and so was
\* every review that a call under way will publish without a moderator.
THEOREM Invariance == Spec => []IndInv
<1>1. Init => IndInv
  BY InitHolds
<1>2. IndInv /\ [Next]_vars => IndInv'
  BY StepHolds
<1> QED BY <1>1, <1>2, PTL DEF Spec

\* Every reachable state of Reviews has the declared types.
THEOREM TypeCorrect == Spec => []TypeOK
BY Invariance, PTL DEF IndInv

\* However writing, editing, moderating and removing overlap, nothing is in
\* the catalogue that no moderator has approved once.
THEOREM OnceApproved == Spec => []InCatalogueOnceApproved
BY Invariance, PTL DEF IndInv

-----------------------------------------------------------------------------
\* In every reachable state the inductive invariants of rows and objects, of the
\* limit, and of calls that do not overlap hold.
THEOREM FilesInvariance == Spec => [](FileInv /\ LimitInv /\ CalmInv)
<1> DEFINE Inv == IndInv /\ FileInv /\ LimitInv /\ CalmInv
<1>1. Init => Inv
  BY InitHolds, FileInit, LimitInit, CalmInit
<1>2. Inv /\ [Next]_vars => Inv'
  BY StepHolds, FileHolds, LimitHolds, CalmHolds
<1>3. Inv => FileInv /\ LimitInv /\ CalmInv
  OBVIOUS
<1> QED BY <1>1, <1>2, <1>3, PTL DEF Spec

\* Calls that do not overlap and do not fail leave no second version: an
\* approved review is in the catalogue as its author last wrote it, with all
\* its photos; any other is not there, and none of its photos is published.
THEOREM OneVersion == Spec => []CatalogueIsCurrent
<1>1. CalmInv => CatalogueIsCurrent
  BY DEF CalmInv, Calm, Current, CatalogueIsCurrent
<1> QED BY <1>1, FilesInvariance, PTL

\* Every photo's row has its object, however uploads, removals and edits
\* overlap; if they do not, no review has more photos than allowed and no
\* object is left that the row of a photo of an existing review does not name.
THEOREM EveryPhotoHasItsObject == Spec => []PhotosKept
<1>1. IndInv /\ FileInv /\ LimitInv /\ CalmInv => PhotosKept
  <2> SUFFICES ASSUME IndInv, FileInv, LimitInv, CalmInv PROVE PhotosKept
    OBVIOUS
  <2>1. PhotosWithinLimit
    BY DEF LimitInv, PhotosWithinLimit
  <2>2. ASSUME AtRest, ~broken, NEW p \in Photos, photo[p] # None
        PROVE  p \in stored
    BY <2>2 DEF FileInv, RowGoing, AtRest, Busy
  <2>3. ASSUME AtRest, ~broken, ~overlapped
        PROVE  stored = UNION {PhotosOf(i) : i \in Existing}
    <3>1. /\ \A p \in Photos : photo[p] # None => Exists(photo[p].review)
          /\ \A p \in stored : photo[p] # None
      BY <2>3 DEF CalmInv, Calm, Inserting
    <3>2. \A p \in Photos : photo[p] # None => photo[p].review \in Ids
      BY DEF IndInv, TypeOK, Photo
    <3>3. ASSUME NEW p \in stored
          PROVE  \E i \in Existing : p \in PhotosOf(i)
      BY <3>1, <3>2, <3>3 DEF Existing, PhotosOf, IndInv, TypeOK
    <3>4. ASSUME NEW i \in Existing, NEW p \in PhotosOf(i)
          PROVE  p \in stored
      BY <2>2, <2>3 DEF PhotosOf
    <3> QED BY <3>3, <3>4
  <2> QED BY <2>1, <2>2, <2>3 DEF PhotosKept, PhotosAccounted
<1> QED BY <1>1, Invariance, FilesInvariance, PTL

=============================================================================
