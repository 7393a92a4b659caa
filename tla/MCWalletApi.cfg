\* Every route, two attempts at each request, one retry.
CONSTANTS
  Served <- MCServed
  Attempts = {first, again}
  MaxRetries = 1
SPECIFICATION FairSpec
INVARIANTS TypeOK OneEffect AnswersTrue StoredAsSent PiiIsLogged PagesGoOn
PROPERTY EventuallyAnswered
