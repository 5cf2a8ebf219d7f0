SPECIFICATION FairSpec
CONSTANTS
    Releases <- MCReleases
    Bundled <- MCBundled
    None = None
INVARIANTS
    OneRecordWriter
    InstallsWhatIsPending
    PendingIsPrepared
    CompletedIsActive
PROPERTIES
    NoDowngrade
    InstallEnds
    AutomaticCheckSettles
