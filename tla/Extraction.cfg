SPECIFICATION ExtractionSpec
CONSTANTS
    u1 = u1
    alias = alias
    URLs = {u1, u2, u3}
    Links <- MCLinks
    SetURL <- MCSetURL
    None = None
    MaxReset = 1
    MaxDrops = 3
    word = word
    alone = alone
    mark = mark
    icon = icon
    smile = smile
    photo = photo
    Page = page
    Urls = {smile, photo, page}
    Nodes = {word, alone, mark, icon}
    Images = {word, alone, mark}
    Sources <- MCSources
    Cached = {photo}
    Small = {smile}
    Inline = {word, mark}
    Copied = {smile}
    Slots = 1
INVARIANTS NoPageIsLost ArchiveIsWhole FailsForAReason
PROPERTIES RunEnds ArchiveEnds
CHECK_DEADLOCK FALSE
