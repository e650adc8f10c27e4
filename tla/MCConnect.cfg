\* Two hosts and a one-entry leaf cache, two CAs, every offer and mode, two addresses.
SPECIFICATION Spec
CONSTANTS
    Hosts = {x, y}
    Days = 3
    Life = 2
    Margin = 1
    MaxLeaves = 1
    MaxLoads = 2
    Offers <- MCOffers
    MaxAddresses = 2
    Alps = TRUE
    Name <- MCName
    V6 = {"v6"}
    Self = {"self"}
    Inputs <- MCInputs
    Fields <- MCFields
    Default <- MCDefault
    Allowed <- MCAllowed
    Spelling <- MCSpelling
INVARIANTS LoadExact LeafGood AlpnAgreed NoSocketLeft ServedIfAny RouteExact
SYMMETRY MCSymmetry
