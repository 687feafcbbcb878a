SPECIFICATION Spec
CONSTANTS
    Texts <- MCTexts
    Letters = {"x", "d"}
    Blank = " "
    kDefaultApSsid <- MCSsid
    kDefaultApPassword <- MCPass
    SsidMax = 2
    PassMin = 2
    PassMax = 3
    Absent = Absent
INVARIANTS ConfigInv OpenOnlyIfAsked ShownIsNextBoot
