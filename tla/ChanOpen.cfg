CONSTANTS
  Locations = {"BSP"}
  Creator = c
  Openers = {o}
  Sizes = {1}
  Tries = 2
  MaxResets = 1
  MaxGenerations = 1
SPECIFICATION OpenSpec
INVARIANT ReadsAgain
