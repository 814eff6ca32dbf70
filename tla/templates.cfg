SPECIFICATION Spec

CONSTANTS
    Templates = {t1, t2, t3, t4, t5}
    Admins = {a1}
    OneAtATime = TRUE
    Interruptions = TRUE

SYMMETRY Symmetry

INVARIANT
    OneDefault

\* Once every key is used no template can be added; one may be left that nobody edits.
CHECK_DEADLOCK FALSE
