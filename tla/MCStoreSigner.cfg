CONSTANTS
  pins = pins
  ownership = ownership
  p1 = p1
  p2 = p2
  NoDigest = NoDigest
  Stores <- MCStores
  Payloads <- MCPayloads
  MaxSeq = 3
  MaxFaults = 1
SPECIFICATION SignerSpec
SYMMETRY MCSymmetry
INVARIANT FreshIffNewest
INVARIANT HighestIsAccepted
INVARIANT NumbersAreUnique
