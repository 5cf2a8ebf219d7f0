SPECIFICATION Spec
CONSTANTS
    july = july
    september = september
    later = later
    m1 = m1
    m2 = m2
    None = None
    Releases <- MCReleases
    Bundled <- MCBundled
    Initial = july
    Models <- MCModels
SYMMETRY MCSymmetry
INVARIANTS
    JudgedAsLoaded
    DrawnFromActive
    IndexModelInspected
    PageAgrees
    NoUnfoundedClaim
