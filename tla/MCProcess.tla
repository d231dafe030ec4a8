----------------------------- MODULE MCProcess ------------------------------
\* Configurations for TLC: one with everything, one without DNS servers of its own,
\* and one of which nothing is left to fetch from.
EXTENDS Process

Gateway(scheme, host, port) == [scheme |-> scheme, host |-> host, port |-> port]

MCComplete ==
    [seed |-> "32 bytes", delegated |-> "",
     dnsServers |-> <<"not an address", "first", "second">>,
     peers |-> <<[id |-> "p", valid |-> FALSE]>>,
     gateways |-> <<Gateway("ftp", TRUE, FALSE), Gateway("https", TRUE, FALSE)>>]

MCConfigs ==
    {MCComplete, [MCComplete EXCEPT !.dnsServers = <<>>, !.seed = ""],
     [MCComplete EXCEPT !.gateways = <<Gateway("ftp", TRUE, TRUE), Gateway("https", FALSE, FALSE)>>]}

\* Threads, goroutines, names and clients are each interchangeable.
MCSymmetry ==
    Permutations(Calls) \cup Permutations(Lookups) \cup Permutations(TXTNames) \cup Permutations(Clients)

=============================================================================
