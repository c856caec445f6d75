CONSTANTS
    v1 = v1
    v2 = v2
    tab1 = tab1
    tab2 = tab2
    button = button
    link = link
    sel1 = sel1
    sel2 = sel2
    Styles = {"padding"}
    Values = {v1, v2}
    Tabs = {tab1, tab2}
    Selectors = {button, link}
    Selections = {sel1, sel2}
    Scenarios <- TextScenarios
    FormFields <- FieldOrder
    SelectionTab <- SameTab
    SelectorOf <- SameElement
    MaxClicks <- TextClicks
SYMMETRY Interchangeable
SPECIFICATION Spec
INVARIANTS
    PageShowsTracker
CHECK_DEADLOCK FALSE
