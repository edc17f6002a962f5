SPECIFICATION Spec
CONSTANTS
  Versions <- MCVersions
  DistTag = next
  Configs <- MCConfigs
  Ladder <- MCLadder
  Checks = {c1}
  MaxMoves = 1
  Managers = {"npm", "bun", "pnpm", "nub"}
  Mirror = TRUE
  Arch = FALSE
PROPERTY RepairNotOlder
