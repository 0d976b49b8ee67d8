SPECIFICATION FairSpec
CONSTANTS
    f = f  g = g  a = a  Acme = Acme
    Families <- TwoFamilies
    Slugs <- OneSlug
    Companies <- OneCompany
    Variants <- ItsSlug
    Sites <- OneCompany
    Manual <- OneCompany
    Linked <- ItsLinks
    Structured <- OneCompany
    Crawl <- Crawled
    Portfolio <- OneCompany
    Sightable <- Sighted
    Pack <- Packed
    MaxValidations = 5
    Reserve = 1
    Quarantine = 2
    MaxChanges = 1
    MaxMishaps = 1
PROPERTY VerdictsAreEarned
PROPERTY NothingIsDropped
PROPERTY StaleIsRevalidated
PROPERTY CandidatesAreJudged
