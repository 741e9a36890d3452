SPECIFICATION MCSpec
CONSTANTS
    Starts = {"i", "l", "a"}
    Command <- MCCommand
    Explicit <- MCExplicit
    NPlaces = 2
    Texts = {"starter", "off", "mixed", "twice", "junk"}
    Starter = "starter"
    Rules <- MCRules
    Garbled = {"junk"}
    Guardian = "a"
    p = p
    Procs = {p, q}
    Socks = {s}
    Dests = {proxy, dns, web}
    ProxyAddr = proxy
    LocalDNS = dns
    None = none
    RingCap = 1
INVARIANTS
    NetTypeOK
    NamelessSendIsVetted
    RefusalsAreAskedFor
    NotCutOff
    LaunchUnderWholePolicy
    OnePolicyGoverns
PROPERTIES
    ImplementsEgress
    NeverOverwrites
    StartResolves
CHECK_DEADLOCK FALSE
