SPECIFICATION FairSpec
CONSTANTS
    BufferLens = {19, 20, 44, 48}
    MessageLens = {0, 20, 42, 45, 48}
    AvpLens = {0, 7, 8, 9, 11, 12, 13, 16, 17, 20, 22, 24, 28, 30}
    Codes = {1, 2, 3}
    Vendors = {0, 7}
    TypeOf <- MCTypeOf
INVARIANTS TypeOK ReadsInBounds FramesNest DepthBounded GroupsTile MessageTiles
PROPERTIES DecodeEnds ImplementsMessageBody
