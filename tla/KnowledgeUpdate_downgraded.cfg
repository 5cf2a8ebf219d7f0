SPECIFICATION Spec
CONSTANTS
    Releases <- MCReleases
    Bundled <- MCBundled
    None = None
PROPERTIES
    NeverOlder
