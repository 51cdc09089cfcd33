SPECIFICATION FairSpec
CONSTANTS
    Names <- ParamNames
    Lo <- Lowest
    Hi <- Highest
    Plans <- FlightPlans
    attempts = 2
INVARIANTS TypeOK ConfirmedIsSet
PROPERTIES ImplementsGroups GroupReturns
