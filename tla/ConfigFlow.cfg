SPECIFICATION Spec
CONSTANTS
    Batteries <- MCBatteries
    Garage = Garage
    Cellar = Cellar
    Flows = {f1, f2, f3}
SYMMETRY Symmetry
INVARIANTS
    TypeOK
    OneEntryPerAddress
    CardsAreNew
