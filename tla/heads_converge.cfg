SPECIFICATION FairSpec
CONSTANTS
  Refs = {feature}
  Base = main
  ForkRefs = {feature, patch, main}
  Locals = {3}
  Forks = {1}
  LocalSHAs = {a, b, c}
  ForkSHAs = {b}
  Tip = a
  NoSHA = none
  MaxUpsets = 2
INVARIANTS TypeOK Isolated CommitBranchesKept
PROPERTIES ServedHeadKept LegacyNotAdopted HeadsConverge
