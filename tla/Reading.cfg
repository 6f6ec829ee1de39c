SPECIFICATION ReadingSpec
CONSTANTS
    Site <- SiteName
    Label <- LabelName
    Runes <- AllRunes
    Letters <- IndexedRunes
    Nothing = Nothing
    Forms <- AllTexts
    Pages <- PageLabels
    a1 = a1
    a2 = a2
    a3 = a3
    r1 = r1
    r2 = r2
    p = p
    Article <- BoldFirst
    b = b
    Ids = {a1, a2, a3}
    Handlers = {r1, r2}
    Nil = Nil
SYMMETRY Symmetry
INVARIANTS ReadingTypeOK ListIsWhatWasAsked  KeptUnlessOvertaken
CHECK_DEADLOCK FALSE
