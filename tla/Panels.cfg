\* Two users, lists of two items on pages of one, a model name with a colon.
CONSTANTS
    User = {u1, u2}
    NumItems = 2
    PageSize = 1
    Provider <- OneProvider
    Model <- TwoModels
    Commands <- CharactersAndModels
    MaxPanels = 2
    MaxPresses = 3
    MaxChanges = 1
    MaxFaults = 1
SYMMETRY UserSymmetry
SPECIFICATION Spec
INVARIANTS ActsAtMostOnce ShownButtonsWork SelectionAsShown
PROPERTIES OnlyNewestPanelActs
CHECK_DEADLOCK FALSE
