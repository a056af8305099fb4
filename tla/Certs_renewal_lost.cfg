\* One domain; the certificate authority fails once.
SPECIFICATION CertSpecFair
CONSTANTS
    Hosts = {"h1"}
    Wild = {}
    MaxDomainId = 1
    QueueSize = 1
    MaxAsks = 2
    CertFaults = {"acme"}
    MaxCertFaults = 1
PROPERTIES
    Renewed
\* Users stop when the bounds are spent.
CHECK_DEADLOCK FALSE
