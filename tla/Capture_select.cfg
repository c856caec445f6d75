CONSTANTS
    tab1 = tab1
    tab2 = tab2
    tab3 = tab3
    Tabs = {tab1, tab2, tab3}
    UrlOf <- SharedPage
    Scenarios <- PassingScenarios
    MaxCaptures = 2
    MaxOthers = 1
    QuotaRetries = 1
SPECIFICATION FairSpec
INVARIANTS
    PreviewShowsElement
    
    PreviewsStayOnPage
PROPERTIES
    PreviewSettles
CHECK_DEADLOCK FALSE
