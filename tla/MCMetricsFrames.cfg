\* Four-bit tick counts with two sub-buckets per octave.  Windows are short, so the
\* percentiles are spread out for their ranks to differ.
CONSTANTS
    SUB_BITS = 1
    W = 4
    OpOrder <- mc_OpOrder
    Elapsed = {5, 15, 16}
    Quotes <- mc_Quotes
    Settings <- mc_Settings
    Ladders <- mc_Ladders
    P50 = 400
    P99 = 700
    P999 = 999
    ALERT_CAP = 5
    BUF_CAP = 30
    MAX_TAPE = 1
    NULL = NULL
    MaxSamples = 3
    MaxOther = 2
    MaxRenders = 2
SPECIFICATION Spec
CHECK_DEADLOCK FALSE
INVARIANTS FramesTypeOK DatagramRight
PROPERTIES RowsRight AlertsRight
