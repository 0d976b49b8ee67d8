SPECIFICATION EitherSpec
CONSTANTS
    tab1 = tab1  tab2 = tab2  watch = watch  x = x  y = y
    Keep = Keep  None = None
    Requests <- Both
    Watch = watch
    Process <- ThreeProcesses
    Kinds <- Kind
    Titles <- Two
    Entries <- XAndY
    Imports <- OneFile
    MaxVersions = 3
    MaxUpgrades = 1
    MaxMishaps = 1
PROPERTY RowsKeepTheRest
