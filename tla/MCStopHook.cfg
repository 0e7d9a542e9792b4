SPECIFICATION Spec
CONSTANTS
  Sessions = {s1}
  Screens = {x}
  Policies = {"strict", "weak"}
  Floor <- MCFloor
  MaxHistory = 1
  Lowered <- MCLowered
  NoReceipt = NoReceipt
INVARIANTS
  VerifiedWasJudged
  VerifiedUnderPins
  PinsAreTheBaseline
