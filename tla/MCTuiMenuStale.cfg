CONSTANTS
  Menus <- MCMenus
  SEARCH_CAP = 2
  NoMnemonic = NoMnemonic
  Letters = {"a", "b", "j", "k", "q"}
  Digits <- MCDigits
  Viewports = {3, 4}
SPECIFICATION Spec
INVARIANT SelectionOffRules
