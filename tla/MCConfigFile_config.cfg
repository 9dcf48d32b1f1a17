SPECIFICATION Spec
CONSTANTS
  Ordinary = {"a"}
  LineSize = 7
  Switches <- OneSwitch
  Paths <- OnePath
  TrueTexts <- True
INVARIANT SettingsFit
PROPERTY LinesTakeEffect
CHECK_DEADLOCK FALSE
