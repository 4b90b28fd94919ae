SPECIFICATION Spec
CONSTANTS
    Holders = {h1, h2, h3}
    NoRegion = NoRegion
    Bits = 5
    Bufs <- MCBufs
    Layouts <- MCLayouts
    Lens <- MCLens
    Aligns <- MCAligns
INVARIANT NeverOverlapping
