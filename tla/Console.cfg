CONSTANTS
  NoCPU = NoCPU
  CPUs = {c0, c1}
  Boot = c0
  Locks = {"cons", "tick"}
  INPUT_BUF = 3
  UINT = 6
  Text = {"a"}
  Sizes = {2}
  Naps = {1}
  Victims = {c0}
SPECIFICATION Spec
INVARIANTS LocksSafe SleepsForReason
PROPERTY ReadsWhatWasTyped
