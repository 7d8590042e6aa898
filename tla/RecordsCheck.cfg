SPECIFICATION DnsSpec
CONSTANTS
    Addresses = {1, 2}
    Cnames = {3}
    MaxRecords = 2
    MaxDnsRequests = 2
    MaxDnsFaults = 2
INVARIANT CheckIsTruthful
CHECK_DEADLOCK FALSE
