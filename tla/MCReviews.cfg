SPECIFICATION Spec
CONSTANTS
    Texts = {t1, t2}
    Photos = {p1, p2, p3}
    Requests = {r1, r2, r3}
    MaxReviewPhotos = 2
    MaxReviews = 2
    MaxCalls = 5
    None = None
INVARIANTS
    InCatalogueOnceApproved
    CatalogueIsCurrent
    PhotosKept
SYMMETRY Symmetry
CHECK_DEADLOCK FALSE
