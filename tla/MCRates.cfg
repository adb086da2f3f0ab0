\* Two servers, so that one can outlive its lease while the other runs; a token
\* is always left for one more lease; two currencies, so that a batch can tear.
CONSTANTS
    h1 = h1
    h2 = h2
    t1 = t1
    t2 = t2
    t3 = t3
    eur = eur
    jpy = jpy
    Hosts <- TwoHosts
    Departed = Departed
    Tokens <- ThreeTokens
    NoToken = NoToken
    Currencies <- TwoCurrencies
SPECIFICATION FairRates
INVARIANTS
    RefreshSound
    LeaseSound
PROPERTIES
    JobActsAgain
