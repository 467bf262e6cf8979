SPECIFICATION MCSpec
CONSTANTS
  sword = sword  bow = bow  shield = shield  robe = robe  legs = legs  cap1 = cap1  cap2 = cap2
  shots = shots  more = more  box = box  elixir = elixir  potion = potion  recipe = recipe
  scroll = scroll
  Items = {sword, bow, shield, robe, legs, cap1, cap2, shots, more, box, elixir, potion, recipe, scroll}
  T <- MCT
  Starts <- MCStarts
  None = None
  QueueCap = 1  SafeLevel = 1  MaxClock = 4  MaxFailures = 1  MaxCrashes = 1
INVARIANTS EquipmentSound ShotsAccounted UsesPaid ClientSeesBag
CHECK_DEADLOCK FALSE
