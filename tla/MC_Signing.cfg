CONSTANTS
    c1 = c1
    c2 = c2
    s1 = s1
    s2 = s2
    ch1 = ch1
    ch2 = ch2
    ch3 = ch3
    m1 = m1
    m2 = m2
    Conns <- MCConns
    Sessions <- MCSessions
    Channels <- MCChannels
    Msgs <- MCMsgsOne
    SessConn <- MCSessConn
    ChanSess <- MCChanSess
    ChanConn <- MCChanConn
    ConnDialect <- MCConnDialect
    MaxPreauth = 1

SPECIFICATION Spec

INVARIANT TypeOK
INVARIANT SigningKeyMatchesDialect
