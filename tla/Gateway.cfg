CONSTANTS
    us = us
    de = de
    US = US
    s1 = s1
    r1 = r1
    r2 = r2
    None = None
    SessionId = {s1}
    Worker = {w1, w2}
    Caller = {r1, r2}
    Ttls <- WrappedTtls
    DefaultTTL = 1
    MaxTime = 2
    Request = {r1, r2}
    Country = {us, de}
    AnyCountry = AnyCountry
    Usernames <- Names
    Folded <- CaseFolding
    Minute = 1
    MaxDuration = 1
SYMMETRY GatewaySymmetry
SPECIFICATION GatewaySpec
INVARIANTS GatewayTypeOK NoPhantomConns HomeIsKept
PROPERTIES StickyWhenCalm OnlyBindPins DropsOnlyExpired
