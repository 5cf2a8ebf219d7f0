SPECIFICATION Spec
CONSTANTS
    Releases <- MCReleases
    Bundled <- MCBundled
    None = None
INVARIANTS
    FailedInstallKeepsPrior
