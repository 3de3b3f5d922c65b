\* Three sessions, four keys, a claim that may idle out at once.
SPECIFICATION Spec
CONSTANTS
  near = near
  far = far
  here = here
  Sessions <- MCSessions
  Names <- MCNames
  LED <- MCLED
  Board <- MCBoard
  Layouts <- MCLayouts
  Invocations <- MCInvocations
  Host <- MCHost
  Slots <- MCSlots
  Hash <- MCHash
  ExplicitAddr <- MCExplicitAddr
  MaxAge = 0
  Unowned = Unowned
  Direct = Direct
  NoKey = NoKey
  NoCaps = NoCaps
  Idle = Idle
INVARIANTS SessionsAreTold ClearUndoesSet GetFindsWhatSetWrote
