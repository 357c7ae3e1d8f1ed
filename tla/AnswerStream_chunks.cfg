\* Texts of up to three pieces, cut into chunks in every way.
SPECIFICATION StreamSpec
CONSTANTS
    Symbols = {" ", "[", "]", "x", "p", "s", "_", "0"}
    Texts <- MCTexts
    Kinds <- MCKinds
    Hex = {"0"}
    HexLength = 2
INVARIANTS
    ShowsOnlyPublicText
    ShownIsContent
