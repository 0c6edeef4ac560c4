SPECIFICATION Spec
CONSTANTS
  Masters = {cpu, rsp}
  Commands <- MCCommands
  Length <- MCLength
  MaxAddress = 3
  MaxFetched = 5
INVARIANT ListsAreRead LeftoverIsPartial
PROPERTY CutsMakeNoDifference
SYMMETRY MastersSymmetry
