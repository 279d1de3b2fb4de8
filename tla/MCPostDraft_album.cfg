SPECIFICATION FairSpec
CONSTANTS
    photo1 = photo1
    photo2 = photo2
    text1 = text1
    album1 = album1
    Deals = {d1}
    Messages = {photo1, photo2, text1}
    Texts = {text1}
    AlbumOf <- MCAlbumOf
    Captioned <- MCCaptioned
    Taps = {}
    MaxFaults = 0
    None = None
CHECK_DEADLOCK FALSE
PROPERTIES
    PhotosAreKept
    PreviewHappens
