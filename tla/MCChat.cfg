SPECIFICATION Spec
CONSTANTS
  Chars = {"<", "/", "t"}
  MaxText = 6
  MaxCalls = 4
  Components = {"gearbox", "dynamometer"}
INVARIANTS ThinkingIsHidden NoSilentTurn TrainedOnce
