\* Three fares on two flights, four-bit integers, two requests at a time.
CONSTANTS
    c1 = c1
    c2 = c2
    NULL = NULL
    Fares = {1, 2, 3}
    FlightOf <- TwoFlights
    CurrencyOf <- OneCurrency
    Offers <- SmallOffers
    MaxInt = 7
    MaxCount = 2
    MaxItems = 2
    Quotes = {1}
    Sessions = {c1, c2}
    MaxChanges = 1
SPECIFICATION Spec
INVARIANTS
    TotalExact
    BookedAsQuoted
PROPERTIES
    OffersStand
