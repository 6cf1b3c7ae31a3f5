---------------------------- MODULE ConfigOverrides ----------------------------
(***************************************************************************)
(* How the configuration of a run comes about: the file or the defaults,     *)
(* then environment variables and CLI flags (cmd/sentry/config.go, with the  *)
(* setters of pkg/config/v1/config.go), then the beacon node's own           *)
(* configuration (createBeaconConfig in pkg/application/beacons.go).         *)
(*                                                                         *)
(* Data abstraction: the value of a string setting is the name of the        *)
(* source it comes from.  Settings of the same kind are independent, so the   *)
(* string settings stand for one another, and so do the four numeric ones of  *)
(* the attestation subnet check.  A string that does not parse is Bad.       *)
(***************************************************************************)
EXTENDS Integers

CONSTANTS
    Strings,       \* network, addresses, log level, directory
    Numbers,       \* window, threshold, cooldown and high water mark
    FileChecks,    \* attestationSubnetCheck in the file: NoCheck or a record
    EnvFlags,      \* values of the boolean environment variables
    EnvValues,     \* values of the numeric environment variables
    CliValues,     \* values of the numeric flags; a negative one is not set
    UintMod,       \* 2^32
    DefaultOf      \* default of each number in NewDefaultConfig

NotSet == -1
Bad == -2
NoCheck == [present |-> FALSE]
DefaultMaxSubnets == 2

ASSUME NumbersAssumption ==
    /\ UintMod \in Nat /\ DefaultMaxSubnets < UintMod
    /\ DefaultOf \in [Numbers -> 1 .. UintMod - 1]
    /\ EnvFlags \subseteq {"unset", "true", "false", "bad"}
    /\ EnvValues \subseteq (0 .. UintMod - 1) \cup {NotSet, Bad}
    /\ CliValues \subseteq Int

CheckType ==
    [present : {TRUE}, enabled : BOOLEAN, maxSubnets : 0 .. UintMod - 1,
     numbers : [Numbers -> 0 .. UintMod - 1]]

\* The fields of the file are uint32s; one that is not does not parse.
ASSUME FileAssumption == FileChecks \subseteq {NoCheck} \cup CheckType

Sources == {"file", "env", "cli"}

VARIABLES
    env,     \* the environment
    cli,     \* the flags
    file,    \* the attestation subnet check of the file
    pc,      \* next part of createConfig and applyConfigOverridesFromFlags
    todo,    \* settings of that part yet to be looked at
    strings, \* source of each string setting
    creds,   \* source of the user name and the password, or "empty"
    tls,     \* source of OutputServer.Tls
    check,   \* Config.AttestationSubnetCheck
    subnet   \* ethereum.Config.AttestationSubnetConfig

inputs == <<env, cli, file>>
vars == <<inputs, pc, todo, strings, creds, tls, check, subnet>>

TypeOK ==
    /\ pc \in {"load", "strings", "credentials", "tls", "enabledEnv", "maxEnv", "enabledCli",
               "maxCli", "numbers", "create", "done", "error"}
    /\ todo \subseteq Strings \cup Numbers
    /\ strings \in [Strings -> Sources]
    /\ creds \in [user : Sources \cup {"empty"}, password : Sources \cup {"empty"}]
    /\ tls \in Sources
    /\ check = NoCheck \/ check \in CheckType
    /\ subnet \in [enabled : BOOLEAN, maxSubnets : 0 .. UintMod - 1,
                   numbers : [Numbers -> 0 .. UintMod - 1]]

\* What a source may give of the strings, credentials and TLS and of the check.  The
\* two do not touch: each is given with nothing given for the other.
StringInputs ==
    [strings : [Strings -> BOOLEAN], user : BOOLEAN, password : BOOLEAN, tls : EnvFlags,
     enabled : {"unset"}, maxSubnets : {NotSet}, numbers : [Numbers -> {NotSet}]]

CheckInputs(flags, values) ==
    [strings : [Strings -> {FALSE}], user : {FALSE}, password : {FALSE}, tls : {"unset"},
     enabled : flags, maxSubnets : values, numbers : [Numbers -> values]]

Init ==
    /\ \/ env \in StringInputs /\ cli \in StringInputs
       \/ env \in CheckInputs(EnvFlags, EnvValues) /\ cli \in CheckInputs(EnvFlags \ {"bad"}, CliValues)
    /\ file \in FileChecks
    /\ pc = "load"
    /\ todo = Strings
    /\ strings = [s \in Strings |-> "file"]
    /\ creds = [user |-> "file", password |-> "file"]
    /\ tls = "file"
    /\ check = NoCheck
    /\ subnet = [enabled |-> FALSE, maxSubnets |-> DefaultMaxSubnets, numbers |-> DefaultOf]

-----------------------------------------------------------------------------
(* createConfig: the defaults, or the file if there is one.                *)

loaded == <<inputs, todo, strings, creds, tls, subnet>>

\* The defaults have no attestation subnet check.
WithoutFile ==
    /\ pc = "load"
    /\ file = NoCheck
    /\ pc' = "strings"
    /\ UNCHANGED <<loaded, check>>

\* The file may be missing, may not parse or may not be valid.
NewConfigFromPath ==
    /\ pc = "load"
    /\ \/ pc' = "strings" /\ check' = file
       \/ pc' = "error" /\ UNCHANGED check
    /\ UNCHANGED loaded

-----------------------------------------------------------------------------
(* Strings, credentials and TLS: the environment, then the flags.           *)

\* The setters do nothing with an empty string.
FromSources(before, inEnv, inCli) ==
    LET afterEnv == IF inEnv THEN "env" ELSE before
    IN  IF inCli THEN "cli" ELSE afterEnv

ApplyString(s) ==
    /\ pc = "strings"
    /\ s \in todo
    /\ todo' = todo \ {s}
    /\ strings' = [strings EXCEPT ![s] = FromSources(@, env.strings[s], cli.strings[s])]
    /\ pc' = IF todo' = {} THEN "credentials" ELSE pc
    /\ UNCHANGED <<inputs, creds, tls, check, subnet>>

Pair(source, given) ==
    [user     |-> IF given.user THEN source ELSE "empty",
     password |-> IF given.password THEN source ELSE "empty"]

\* The two are encoded together: a source that gives one gives the other as "".
ApplyCredentials ==
    /\ pc = "credentials"
    /\ creds' = IF cli.user \/ cli.password THEN Pair("cli", cli)
                ELSE IF env.user \/ env.password THEN Pair("env", env)
                ELSE creds
    /\ pc' = "tls"
    /\ UNCHANGED <<inputs, todo, strings, tls, check, subnet>>

TlsFrom == IF cli.tls # "unset" THEN "cli" ELSE IF env.tls # "unset" THEN "env" ELSE tls

ApplyTLS ==
    /\ pc = "tls"
    /\ IF env.tls = "bad" \/ cli.tls = "bad"
       THEN pc' = "error" /\ UNCHANGED tls
       ELSE pc' = "enabledEnv" /\ tls' = TlsFrom
    /\ UNCHANGED <<inputs, todo, strings, creds, check, subnet>>

-----------------------------------------------------------------------------
(* The attestation subnet check.                                           *)

\* Mutant: a check made for one of its settings is enabled.
Check_Enabled ==
    IF check.present THEN check
    ELSE [present |-> TRUE, enabled |-> TRUE, maxSubnets |-> 0,
          numbers |-> [n \in Numbers |-> 0]]

\* AttestationSubnetCheck, made when it is nil.
Check ==
    IF check.present THEN check
    ELSE [present |-> TRUE, enabled |-> FALSE, maxSubnets |-> 0,
          numbers |-> [n \in Numbers |-> 0]]

\* Mutant: no conversion.
Uint32_Identity(v) == v

Uint32(v) == v % UintMod

\* Setting the flag in the environment sets the limit too.
EnabledFromEnv ==
    /\ pc = "enabledEnv"
    /\ IF env.enabled = "bad"
       THEN pc' = "error" /\ UNCHANGED check
       ELSE /\ pc' = "maxEnv"
            /\ check' = IF env.enabled = "unset" THEN check
                        ELSE [Check EXCEPT !.enabled = (env.enabled = "true"),
                                           !.maxSubnets = DefaultMaxSubnets]
    /\ UNCHANGED <<inputs, todo, strings, creds, tls, subnet>>

MaxSubnetsFromEnv ==
    /\ pc = "maxEnv"
    /\ IF env.maxSubnets = Bad
       THEN pc' = "error" /\ UNCHANGED check
       ELSE /\ pc' = "enabledCli"
            /\ check' = IF env.maxSubnets = NotSet THEN check
                        ELSE [Check EXCEPT !.maxSubnets = env.maxSubnets]
    /\ UNCHANGED <<inputs, todo, strings, creds, tls, subnet>>

\* c.Bool is false for a flag of false as for none: neither does anything.
EnabledFromCli ==
    /\ pc = "enabledCli"
    /\ pc' = "maxCli"
    /\ check' = IF cli.enabled = "true" THEN [Check EXCEPT !.enabled = TRUE] ELSE check
    /\ UNCHANGED <<inputs, todo, strings, creds, tls, subnet>>

MaxSubnetsFromCli ==
    /\ pc = "maxCli"
    /\ pc' = "numbers"
    /\ todo' = Numbers
    /\ check' = IF cli.maxSubnets < 0 THEN check
                ELSE [Check EXCEPT !.maxSubnets = Uint32(cli.maxSubnets)]
    /\ UNCHANGED <<inputs, strings, creds, tls, subnet>>

\* Mutant: a value from the environment is kept.
NumberFrom_EnvWins(before, inEnv, inCli) ==
    IF inEnv # NotSet THEN inEnv ELSE IF inCli >= 0 THEN Uint32(inCli) ELSE before

NumberFrom(before, inEnv, inCli) ==
    IF inCli >= 0 THEN Uint32(inCli) ELSE IF inEnv # NotSet THEN inEnv ELSE before

\* applyMismatchDetectionWindow and the three like it.
ApplyNumber(n) ==
    /\ pc = "numbers"
    /\ n \in todo
    /\ todo' = todo \ {n}
    /\ IF env.numbers[n] = Bad
       THEN pc' = "error" /\ UNCHANGED check
       ELSE /\ pc' = IF todo' = {} THEN "create" ELSE pc
            /\ check' = IF env.numbers[n] = NotSet /\ cli.numbers[n] < 0 THEN check
                        ELSE [Check EXCEPT !.numbers[n] =
                                NumberFrom(@, env.numbers[n], cli.numbers[n])]
    /\ UNCHANGED <<inputs, strings, creds, tls, subnet>>

\* Zero in the check means "not set".
OrDefault(value, default) == IF value # 0 THEN value ELSE default

createBeaconConfig ==
    /\ pc = "create"
    /\ pc' = "done"
    /\ subnet' = IF ~check.present THEN subnet
                 ELSE [enabled |-> check.enabled,
                       maxSubnets |-> OrDefault(check.maxSubnets, DefaultMaxSubnets),
                       numbers |-> [n \in Numbers |-> OrDefault(check.numbers[n], DefaultOf[n])]]
    /\ UNCHANGED <<inputs, todo, strings, creds, tls, check>>

-----------------------------------------------------------------------------
Next ==
    \/ WithoutFile
    \/ NewConfigFromPath
    \/ \E s \in Strings : ApplyString(s)
    \/ ApplyCredentials
    \/ ApplyTLS
    \/ EnabledFromEnv
    \/ MaxSubnetsFromEnv
    \/ EnabledFromCli
    \/ MaxSubnetsFromCli
    \/ \E n \in Numbers : ApplyNumber(n)
    \/ createBeaconConfig

Spec == Init /\ [][Next]_vars

-----------------------------------------------------------------------------
(* Properties.                                                             *)

Done == pc = "done"

\* What reaches the application is the flag if it is given, else the environment
\* variable if it is given, else the file, for strings, credentials and TLS.
SourcePrecedence ==
    Done =>
        /\ \A s \in Strings :
             /\ cli.strings[s] => strings[s] = "cli"
             /\ ~cli.strings[s] /\ env.strings[s] => strings[s] = "env"
        /\ cli.user => creds.user = "cli"
        /\ cli.password => creds.password = "cli"
        /\ ~cli.user /\ ~cli.password /\ env.user => creds.user = "env"
        /\ cli.tls # "unset" => tls = "cli"

\* The same for the numbers of the attestation subnet check, as far as they are
\* uint32 and not zero: whatever the file, and whichever of its settings are
\* given, the topic manager is made with the one of the highest precedence.
NumberPrecedence ==
    Done => \A n \in Numbers :
        /\ cli.numbers[n] \in 1 .. UintMod - 1 => subnet.numbers[n] = cli.numbers[n]
        /\ cli.numbers[n] < 0 /\ env.numbers[n] > 0 => subnet.numbers[n] = env.numbers[n]
        /\ cli.numbers[n] < 0 /\ env.numbers[n] < 0 /\ file.present /\ file.numbers[n] # 0
             => subnet.numbers[n] = file.numbers[n]

\* And for the limit, but that the environment variable that enables or disables
\* the check speaks of the limit too: it puts the default over the file's.
LimitPrecedence ==
    Done =>
        /\ cli.maxSubnets \in 1 .. UintMod - 1 => subnet.maxSubnets = cli.maxSubnets
        /\ cli.maxSubnets < 0 /\ env.maxSubnets > 0 => subnet.maxSubnets = env.maxSubnets
        /\ cli.maxSubnets < 0 /\ env.maxSubnets < 0
             => subnet.maxSubnets = IF /\ env.enabled = "unset"
                                       /\ file.present
                                       /\ file.maxSubnets # 0
                                    THEN file.maxSubnets
                                    ELSE DefaultMaxSubnets

\* No setting is looked at before, or kept over, one of higher precedence.  A
\* zero is left out, which never wins (FlagsOverride), and a flag that is no uint32.
HighestSourceWins == SourcePrecedence /\ NumberPrecedence /\ LimitPrecedence

\* Which of the sources can make the check active: the flag; the environment; the
\* file when the environment says nothing.  A flag of false is not among them, nor
\* does it make the check inactive (FlagsOverride).  No other setting enables the
\* check, though each of them makes one when there is none.
EnabledBySource ==
    Done =>
        (subnet.enabled <=> \/ cli.enabled = "true"
                            \/ env.enabled = "true"
                            \/ env.enabled = "unset" /\ file.present /\ file.enabled)

\* "All configuration options can be overridden via CLI flags": the check is active
\* or not as the flag says, and a flag within the limit's range "(0-64)" is taken.
FlagsOverride ==
    Done =>
        /\ cli.enabled # "unset" => subnet.enabled = (cli.enabled = "true")
        /\ cli.maxSubnets \in 0 .. 64 => subnet.maxSubnets = cli.maxSubnets
=============================================================================
