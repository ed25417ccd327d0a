\* Finding: an item that the evidence does not list.
SPECIFICATION Spec
CONSTANTS
  up5 = up5
  off5 = off5
  up4 = up4
  off4 = off4
  low3 = low3
  limited = limited
  standard = standard
  double = double
  None = None
  Banners = {limited}
  Items = {up5, off5, up4, off4, low3}
  RarityOf <- Rarity
  Config <- OnlyFeatured
  One = 10
  Counts = {1, 3}
  Longest <- LongestPity
  MaxFour = 4
INVARIANTS
  EvidenceCovers
