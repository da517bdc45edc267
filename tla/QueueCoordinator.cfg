CONSTANTS
    Services <- AllServices
    MaxEvents = 4
SPECIFICATION FairSpec
INVARIANTS NoLostWakeup ForcedOnlyOnTheWayOut WakeupInv
PROPERTIES WakesWithWork EventsServed StopObeyed
CHECK_DEADLOCK FALSE
