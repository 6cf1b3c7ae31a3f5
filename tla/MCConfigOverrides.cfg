\* Every file, variable and flag of the check, and every source of the strings.
SPECIFICATION Spec
CONSTANTS
    Strings = {"network", "logLevel"}
    Numbers = {"window"}
    FileChecks <- MCFileChecks
    EnvFlags = {"unset", "true", "false", "bad"}
    EnvValues <- MCValues
    CliValues <- MCFlagValues
    UintMod = 128
    DefaultOf <- MCDefaults
INVARIANTS TypeOK HighestSourceWins EnabledBySource
CHECK_DEADLOCK FALSE
