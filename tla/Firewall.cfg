\* A client that comes and goes and whose routes change; one event, poll or start-up
\* step fails, and the process crashes.
CONSTANTS
    CNs = {alice}
    IPs = {ip1}
    CIDRs = {c1}
    MaxFailures = 1
    MaxChanges = 3
    MaxCrashes = 1
SPECIFICATION FairSpec
INVARIANTS TypeOK NoOrphanAccept NoPhantomAccept NoLostWakeup RunsBehindDrop
PROPERTY Converges
