SPECIFICATION Spec
CONSTANTS
    photo1 = photo1
    photo2 = photo2
    text1 = text1
    album1 = album1
    Deals = {d1, d2}
    Messages = {photo2, text1}
    Texts = {text1}
    AlbumOf <- MCAlbumOf
    Captioned <- MCCaptioned
    Taps = {k1, k2}
    MaxFaults = 1
    None = None
CHECK_DEADLOCK FALSE
SYMMETRY MCSymmetry
INVARIANTS
    TypeOK
    PostsStayWithDeal
    PendingHasPost
    AlbumsAreWhole
