\* The same inputs: a flag that is given and does not decide.
SPECIFICATION Spec
CONSTANTS
    Strings = {"network", "logLevel"}
    Numbers = {"window"}
    FileChecks <- MCFileChecks
    EnvFlags = {"unset", "true", "false", "bad"}
    EnvValues <- MCValues
    CliValues <- MCFlagValues
    UintMod = 128
    DefaultOf <- MCDefaults
INVARIANTS FlagsOverride
CHECK_DEADLOCK FALSE
