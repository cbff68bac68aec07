SPECIFICATION Spec
CONSTANTS
  boot_img = boot_img
  gpt_img = gpt_img
  Images = {boot_img, gpt_img}
  Places = {"gpt", "data", "end"}
  Disks <- MCDisks
  Plans <- MCPlans
INVARIANT ProgramsWhereTold
CHECK_DEADLOCK FALSE
