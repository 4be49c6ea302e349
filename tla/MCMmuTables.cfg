\* Two pages of ROM, of GIC and of timer registers: each area has a first
\* and a last page.  A TLB of three entries is smaller than what the handler
\* uses, so every entry can be evicted at every point.  The processor stays
\* in an abort handler for good.
CONSTANTS
    RomLen = 2
    GicLen = 2
    TimerLen = 2
    TlbSize = 3
SPECIFICATION Spec
INVARIANTS
    TypeOK
    TablesOutOfReach
    NoStaleEntry
    OnlySwitchAborts
PROPERTIES
    SpacesRefinement
CHECK_DEADLOCK FALSE
