\* Two sites the user does not trust ask for one method while he taps twice on
\* what is shown and the WebView starts to load the other site, goes or stays.
CONSTANTS
    Requests = {r1, r2}
    Sites = {a, b}
    Home = a
    Trusted = {}
    Methods = {sign}
    Taps = {t1, t2}
    None = None
    MaxLoads = 1
    MaxRemembering = 1
SPECIFICATION Spec
INVARIANTS
    TypeOK
    AnsweredOnce
    ConsentCoversSigning
    PromptsAreAboutRequests
    NobodyIsForgotten
PROPERTIES LiveRequestsAreAnswered KeepsConsent
CHECK_DEADLOCK FALSE
