SPECIFICATION FairSpec
CONSTANTS
    Controls = {c1, c2}
    Uris = {u, v}
    Loadable = {u}
    NoUri = NoUri
    NoControl = NoControl
    Tries = 2
    MinZoom = 95
    MaxZoom = 100
    FitZooms = {90}
INVARIANTS
    Wired
    AskedIsShown
    PoliteIsServed
PROPERTIES
    ZoomIsReported
    RequestEnds
