\* Two summaries while two events are received and two exported.
SPECIFICATION Spec
CONSTANTS
    Topics = {t1}
    Adders = {a1, a2}
    Exporters = {x1, x2}
    MaxPrints = 2
SYMMETRY Callbacks
INVARIANTS TypeOK TopicsNotOvercounted ReportedAtMostOnce
CHECK_DEADLOCK FALSE
