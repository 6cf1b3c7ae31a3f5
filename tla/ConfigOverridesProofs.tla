------------------------ MODULE ConfigOverridesProofs ------------------------
(***************************************************************************)
(* Theorems about ConfigOverrides, for any settings, files, values, flags    *)
(* and defaults.  What each part of the code leaves behind is said of the     *)
(* sources looked at so far; the properties are what that comes to at the end. *)
(***************************************************************************)
EXTENDS ConfigOverrides, TLAPS

USE NumbersAssumption

Flags == {"unset", "true", "false", "bad"}

InputsInv ==
    /\ env \in [strings : [Strings -> BOOLEAN], user : BOOLEAN, password : BOOLEAN, tls : Flags,
                enabled : Flags, maxSubnets : (0 .. UintMod - 1) \cup {NotSet, Bad},
                numbers : [Numbers -> (0 .. UintMod - 1) \cup {NotSet, Bad}]]
    /\ cli \in [strings : [Strings -> BOOLEAN], user : BOOLEAN, password : BOOLEAN, tls : Flags,
                enabled : Flags, maxSubnets : Int, numbers : [Numbers -> Int]]
    /\ file = NoCheck \/ file \in CheckType

\* The parts of the code in their order.
PastNumbers == {"create", "done"}
PastMaxCli == {"numbers"} \cup PastNumbers
PastEnabledCli == {"maxCli"} \cup PastMaxCli
PastMaxEnv == {"enabledCli"} \cup PastEnabledCli
PastEnabledEnv == {"maxEnv"} \cup PastMaxEnv
PastTls == {"enabledEnv"} \cup PastEnabledEnv
PastCredentials == {"tls"} \cup PastTls
PastStrings == {"credentials"} \cup PastCredentials
PastLoad == {"strings"} \cup PastStrings

USE DEF PastLoad, PastStrings, PastCredentials, PastTls, PastEnabledEnv, PastMaxEnv, PastEnabledCli,
        PastMaxCli, PastNumbers

ProgressInv ==
    /\ pc \in {"load", "error"} \cup PastLoad
    /\ todo \subseteq Strings \cup Numbers
    /\ pc = "load" => todo = Strings

\* A string that has been looked at has the source of the highest precedence.
SettledString(s) ==
    /\ cli.strings[s] => strings[s] = "cli"
    /\ ~cli.strings[s] /\ env.strings[s] => strings[s] = "env"

StringsInv ==
    /\ strings \in [Strings -> Sources]
    /\ \A s \in Strings :
         pc \in PastStrings \/ (pc = "strings" /\ s \notin todo) => SettledString(s)

CredentialsInv ==
    /\ creds \in [user : Sources \cup {"empty"}, password : Sources \cup {"empty"}]
    /\ pc \in PastCredentials =>
         /\ cli.user => creds.user = "cli"
         /\ cli.password => creds.password = "cli"
         /\ ~cli.user /\ ~cli.password /\ env.user => creds.user = "env"

TlsInv ==
    /\ tls \in Sources
    /\ pc \in PastTls => (cli.tls # "unset" => tls = "cli")

\* What a check says, with the meaning of none.
Enabled(c) == c.present /\ c.enabled
NumberOf(c, n) == IF c.present THEN c.numbers[n] ELSE 0

\* The file's check is untouched until the flags of the check are looked at.
LoadedInv ==
    /\ check = NoCheck \/ check \in CheckType
    /\ pc = "load" => check = NoCheck
    /\ pc \in PastLoad \ PastEnabledEnv => check = file

EnabledInv ==
    pc \in PastEnabledEnv =>
        (Enabled(check) <=> \/ pc \in PastEnabledCli /\ cli.enabled = "true"
                            \/ env.enabled = "true"
                            \/ env.enabled = "unset" /\ Enabled(file))

\* The limit so far: the file's, the default that comes with the environment's word
\* on the check, the environment's, the flag's.
LimitOf(c) == IF c.present THEN c.maxSubnets ELSE 0

LimitOfCheck == IF pc \in PastEnabledEnv /\ env.enabled # "unset" THEN DefaultMaxSubnets
                ELSE LimitOf(file)

LimitOfEnv == IF pc \in PastMaxEnv /\ env.maxSubnets # NotSet THEN env.maxSubnets
              ELSE LimitOfCheck

LimitOfCli == IF pc \in PastMaxCli /\ cli.maxSubnets >= 0 THEN Uint32(cli.maxSubnets)
              ELSE LimitOfEnv

LimitInv == pc \in PastLoad => LimitOf(check) = LimitOfCli

LookedAt(n) == pc \in PastNumbers \/ (pc = "numbers" /\ n \notin todo)

NumbersInv ==
    pc \in PastLoad => \A n \in Numbers :
        NumberOf(check, n) = IF LookedAt(n)
                             THEN NumberFrom(NumberOf(file, n), env.numbers[n], cli.numbers[n])
                             ELSE NumberOf(file, n)

DefaultSubnet == [enabled |-> FALSE, maxSubnets |-> DefaultMaxSubnets, numbers |-> DefaultOf]

SubnetInv ==
    subnet = IF pc # "done" \/ ~check.present THEN DefaultSubnet
             ELSE [enabled |-> check.enabled,
                   maxSubnets |-> OrDefault(check.maxSubnets, DefaultMaxSubnets),
                   numbers |-> [n \in Numbers |-> OrDefault(check.numbers[n], DefaultOf[n])]]

CheckInv == LoadedInv /\ EnabledInv /\ LimitInv /\ NumbersInv

Inv == /\ InputsInv /\ ProgressInv
       /\ StringsInv /\ CredentialsInv /\ TlsInv
       /\ CheckInv /\ SubnetInv

-----------------------------------------------------------------------------
(* Lemmas about the values.                                                *)

\* A conversion to uint32 keeps what already is one.
LEMMA Uint32Range ==
    /\ \A v \in Int : Uint32(v) \in 0 .. UintMod - 1
    /\ \A v \in 0 .. UintMod - 1 : Uint32(v) = v
  BY DEF Uint32, DefaultMaxSubnets

\* A number that comes from a source, or was there, is a uint32.
LEMMA NumberFromRange ==
    ASSUME NEW before \in 0 .. UintMod - 1, NEW inCli \in Int,
           NEW inEnv \in (0 .. UintMod - 1) \cup {NotSet}
    PROVE  NumberFrom(before, inEnv, inCli) \in 0 .. UintMod - 1
  BY Uint32Range DEF NumberFrom, NotSet

\* What is not zero passes, and zero gives the default.
LEMMA OrDefaultPositive ==
    ASSUME NEW value \in 0 .. UintMod - 1, NEW default \in 1 .. UintMod - 1
    PROVE  /\ OrDefault(value, default) \in 1 .. UintMod - 1
           /\ value # 0 => OrDefault(value, default) = value
  BY DEF OrDefault

\* A check that is made says what none said.
LEMMA MadeCheck ==
    ASSUME LoadedInv
    PROVE  /\ Check \in CheckType
           /\ Check.enabled = TRUE <=> Enabled(check)
           /\ Check.maxSubnets = LimitOf(check)
           /\ \A n \in Numbers : Check.numbers[n] = NumberOf(check, n)
           /\ check.present => Check = check
  <1>1. CASE check = NoCheck
    <2>1. ~check.present
      BY <1>1 DEF NoCheck
    <2>2. Check = [present |-> TRUE, enabled |-> FALSE, maxSubnets |-> 0,
                   numbers |-> [n \in Numbers |-> 0]]
      BY <2>1 DEF Check
    <2>3. 0 \in 0 .. UintMod - 1
      BY DEF DefaultMaxSubnets
    <2> QED
      BY <2>1, <2>2, <2>3 DEF CheckType, Enabled, NumberOf, LimitOf
  <1>2. CASE check \in CheckType
    <2>1. check.present = TRUE /\ check.enabled \in BOOLEAN
      BY <1>2 DEF CheckType
    <2>2. Check = check
      BY <2>1 DEF Check
    <2> QED
      BY <1>2, <2>1, <2>2 DEF Enabled, NumberOf, LimitOf
  <1> QED
    BY <1>1, <1>2 DEF LoadedInv

-----------------------------------------------------------------------------
(* Steps.                                                                  *)

\* Nothing has been looked at yet, and the defaults are in place.
LEMMA InitInv == Init => Inv
  <1> SUFFICES ASSUME Init PROVE Inv
    OBVIOUS
  <1>1. InputsInv
    <2>1. file = NoCheck \/ file \in CheckType
      BY FileAssumption DEF Init
    <2>2. CASE env \in StringInputs /\ cli \in StringInputs
      <3>1. NotSet \in Int
        BY DEF NotSet
      <3>2. EnvFlags \subseteq Flags
        BY DEF Flags
      <3> QED
        BY <2>1, <2>2, <3>1, <3>2 DEF StringInputs, InputsInv, Flags
    <2>3. CASE env \in CheckInputs(EnvFlags, EnvValues) /\ cli \in CheckInputs(EnvFlags \ {"bad"}, CliValues)
      BY <2>1, <2>3 DEF CheckInputs, InputsInv, Flags
    <2> QED
      BY <2>2, <2>3 DEF Init
  <1>2. pc = "load"
    BY DEF Init
  <1>3. ProgressInv /\ StringsInv /\ CredentialsInv /\ TlsInv
    BY DEF Init, ProgressInv, StringsInv, CredentialsInv, TlsInv, Sources
  <1>4. CheckInv
    BY DEF Init, CheckInv, LoadedInv, EnabledInv, LimitInv, LimitOfCli, LimitOfEnv, LimitOfCheck,
         NumbersInv
  <1>5. SubnetInv
    BY <1>2 DEF Init, SubnetInv, DefaultSubnet
  <1> QED
    BY <1>1, <1>3, <1>4, <1>5 DEF Inv

\* Loading, and what follows up to the check, leaves the check as it is in the file.
LEMMA LoadStep ==
    ASSUME Inv, WithoutFile \/ NewConfigFromPath
    PROVE  Inv'
  <1>1. /\ pc = "load"
        /\ \/ pc' = "strings" /\ check' = file
           \/ pc' = "error" /\ check' = check
        /\ UNCHANGED <<env, cli, file, todo, strings, creds, tls, subnet>>
    <2>1. CASE WithoutFile
      BY <2>1 DEF WithoutFile, loaded, inputs, Inv, CheckInv, LoadedInv
    <2>2. CASE NewConfigFromPath
      BY <2>2 DEF NewConfigFromPath, loaded, inputs
    <2> QED
      BY <2>1, <2>2
  <1>2. InputsInv' /\ ProgressInv' /\ StringsInv' /\ CredentialsInv' /\ TlsInv'
    BY <1>1 DEF Inv, InputsInv, ProgressInv, StringsInv, SettledString, CredentialsInv, TlsInv
  <1>3. CheckInv'
    BY <1>1 DEF Inv, InputsInv, CheckInv, LoadedInv, EnabledInv, LimitInv, LimitOfCli, LimitOfEnv, LimitOfCheck,
         NumbersInv, LookedAt
  <1>4. SubnetInv'
    BY <1>1 DEF Inv, SubnetInv, DefaultSubnet
  <1> QED
    BY <1>2, <1>3, <1>4 DEF Inv

\* A step before the check touches neither it nor the subnet configuration.
LEMMA BeforeCheck ==
    ASSUME Inv, pc \in PastLoad \ PastEnabledEnv, pc' \in (PastLoad \ PastEnabledEnv) \cup {"error"},
           UNCHANGED <<inputs, check, subnet>>
    PROVE  InputsInv' /\ CheckInv' /\ SubnetInv'
  <1>1. InputsInv'
    BY DEF Inv, InputsInv, inputs
  <1>2. CheckInv'
    BY DEF Inv, inputs, CheckInv, LoadedInv, EnabledInv, LimitInv, LimitOfCli, LimitOfEnv, LimitOfCheck,
         NumbersInv, LookedAt
  <1>3. SubnetInv'
    BY DEF Inv, SubnetInv, DefaultSubnet
  <1> QED
    BY <1>1, <1>2, <1>3

\* A string takes the value of the flag, or else of the environment.
LEMMA StringStep ==
    ASSUME Inv, NEW s \in Strings, ApplyString(s)
    PROVE  Inv'
  <1>1. /\ pc = "strings" /\ pc' \in {"strings", "credentials"}
        /\ pc' = "credentials" => todo' = {}
        /\ todo' = todo \ {s}
        /\ strings' = [strings EXCEPT ![s] =
                          FromSources(strings[s], env.strings[s], cli.strings[s])]
        /\ UNCHANGED <<env, cli, file, creds, tls, check, subnet>>
    BY DEF ApplyString, inputs, Inv, StringsInv
  <1>2. InputsInv' /\ CheckInv' /\ SubnetInv'
    BY <1>1, BeforeCheck DEF inputs
  <1>3. StringsInv'
    <2>1. FromSources(strings[s], env.strings[s], cli.strings[s]) \in Sources
      BY DEF FromSources, Sources, Inv, StringsInv
    <2>2. SettledString(s)'
      BY <1>1 DEF SettledString, FromSources, Inv, StringsInv
    <2>3. ASSUME NEW k \in Strings \ {s}, pc' \in PastStrings \/ (pc' = "strings" /\ k \notin todo')
          PROVE  SettledString(k)'
      <3>1. k \notin todo
        BY <1>1, <2>3
      <3>2. SettledString(k)
        BY <1>1, <3>1 DEF Inv, StringsInv
      <3> QED
        BY <1>1, <3>2 DEF SettledString, Inv, StringsInv
    <2> QED
      BY <1>1, <2>1, <2>2, <2>3 DEF Inv, StringsInv
  <1>4. ProgressInv' /\ CredentialsInv' /\ TlsInv'
    BY <1>1 DEF Inv, ProgressInv, CredentialsInv, TlsInv
  <1> QED
    BY <1>2, <1>3, <1>4 DEF Inv

\* Credentials are replaced together, by the flags or else by the environment.
LEMMA CredentialsStep ==
    ASSUME Inv, ApplyCredentials
    PROVE  Inv'
  <1>1. /\ pc = "credentials" /\ pc' = "tls"
        /\ UNCHANGED <<env, cli, file, todo, strings, tls, check, subnet>>
    BY DEF ApplyCredentials, inputs
  <1>2. InputsInv' /\ CheckInv' /\ SubnetInv'
    BY <1>1, BeforeCheck DEF inputs
  <1>3. CredentialsInv'
    <2>1. \A source \in Sources, given \in {env, cli} :
            Pair(source, given) \in [user : Sources \cup {"empty"}, password : Sources \cup {"empty"}]
      BY DEF Pair
    <2>2. creds' \in [user : Sources \cup {"empty"}, password : Sources \cup {"empty"}]
      BY <2>1 DEF ApplyCredentials, Inv, CredentialsInv, Sources
    <2>3. /\ cli.user => creds'.user = "cli"
          /\ cli.password => creds'.password = "cli"
          /\ ~cli.user /\ ~cli.password /\ env.user => creds'.user = "env"
      BY DEF ApplyCredentials, Pair
    <2> QED
      BY <1>1, <2>2, <2>3 DEF CredentialsInv
  <1>4. ProgressInv' /\ StringsInv' /\ TlsInv'
    BY <1>1 DEF Inv, ProgressInv, StringsInv, SettledString, TlsInv
  <1> QED
    BY <1>2, <1>3, <1>4 DEF Inv

\* The flag of TLS has the last word on it.
LEMMA TlsStep ==
    ASSUME Inv, ApplyTLS
    PROVE  Inv'
  <1>1. /\ pc = "tls" /\ pc' \in {"error", "enabledEnv"}
        /\ UNCHANGED <<env, cli, file, todo, strings, creds, check, subnet>>
        /\ tls' \in {tls, TlsFrom}
        /\ pc' = "enabledEnv" => tls' = TlsFrom
    BY DEF ApplyTLS, inputs
  <1>2. InputsInv' /\ CheckInv' /\ SubnetInv'
    BY <1>1, BeforeCheck DEF inputs
  <1>3. TlsInv'
    BY <1>1 DEF Inv, TlsInv, TlsFrom, Sources
  <1>4. ProgressInv' /\ StringsInv' /\ CredentialsInv'
    BY <1>1 DEF Inv, ProgressInv, StringsInv, SettledString, CredentialsInv
  <1> QED
    BY <1>2, <1>3, <1>4 DEF Inv

-----------------------------------------------------------------------------
\* The parts that set the check leave all else alone.
LEMMA DuringCheck ==
    ASSUME Inv, pc \in PastTls \ {"done"}, pc' \in (PastTls \ {"done"}) \cup {"error"},
           todo' \in SUBSET (Strings \cup Numbers),
           UNCHANGED <<inputs, strings, creds, tls, subnet>>, CheckInv'
    PROVE  Inv'
  <1>1. InputsInv'
    BY DEF Inv, InputsInv, inputs
  <1>2. ProgressInv' /\ StringsInv' /\ CredentialsInv' /\ TlsInv'
    BY DEF Inv, inputs, ProgressInv, StringsInv, SettledString, CredentialsInv, TlsInv
  <1>3. SubnetInv'
    <2>1. subnet = DefaultSubnet
      BY DEF Inv, SubnetInv
    <2> QED
      BY <2>1 DEF SubnetInv, DefaultSubnet
  <1> QED
    BY <1>1, <1>2, <1>3 DEF Inv

\* The environment that enables or disables the check makes one, and sets the limit.
LEMMA EnabledEnvStep ==
    ASSUME Inv, EnabledFromEnv
    PROVE  Inv'
  <1> DEFINE made == [Check EXCEPT !.enabled = (env.enabled = "true"),
                                   !.maxSubnets = DefaultMaxSubnets]
  <1>1. /\ pc = "enabledEnv" /\ todo' = todo
        /\ \/ pc' = "error" /\ check' = check
           \/ /\ pc' = "maxEnv" /\ env.enabled # "bad"
              /\ check' = IF env.enabled = "unset" THEN check ELSE made
        /\ UNCHANGED <<env, cli, file, strings, creds, tls, subnet>>
    BY DEF EnabledFromEnv, inputs
  <1>2. check = file
    BY <1>1 DEF Inv, CheckInv, LoadedInv
  <1>3. /\ Check \in CheckType
        /\ \A n \in Numbers : Check.numbers[n] = NumberOf(check, n)
    BY MadeCheck DEF Inv, CheckInv
  <1>4. /\ made \in CheckType
        /\ made.present = TRUE
        /\ made.enabled = (env.enabled = "true")
        /\ made.maxSubnets = DefaultMaxSubnets
        /\ made.numbers = Check.numbers
    <2>1. PICK given \in BOOLEAN : given = (env.enabled = "true")
      BY Zenon
    <2>2. DefaultMaxSubnets \in 0 .. UintMod - 1
      BY DEF DefaultMaxSubnets
    <2>3. made = [Check EXCEPT !.enabled = given, !.maxSubnets = DefaultMaxSubnets]
      BY <2>1, Zenon
    <2>4. /\ [Check EXCEPT !.enabled = given, !.maxSubnets = DefaultMaxSubnets] \in CheckType
          /\ [Check EXCEPT !.enabled = given, !.maxSubnets = DefaultMaxSubnets].present = TRUE
          /\ [Check EXCEPT !.enabled = given, !.maxSubnets = DefaultMaxSubnets].enabled = given
          /\ [Check EXCEPT !.enabled = given, !.maxSubnets = DefaultMaxSubnets].maxSubnets
                = DefaultMaxSubnets
          /\ [Check EXCEPT !.enabled = given, !.maxSubnets = DefaultMaxSubnets].numbers = Check.numbers
      BY <1>3, <2>2 DEF CheckType
    <2> HIDE DEF made
    <2> QED
      BY <2>1, <2>3, <2>4, Zenon
  <1> HIDE DEF made
  <1>5. CASE pc' = "error" \/ env.enabled = "unset"
    <2>1. check' = check
      BY <1>1, <1>5
    <2>2. CheckInv'
      BY <1>1, <1>2, <1>5, <2>1 DEF Inv, CheckInv, LoadedInv, EnabledInv, LimitInv, LimitOfCli, LimitOfEnv, LimitOfCheck,
         NumbersInv,
         LookedAt
    <2> QED
      BY <1>1, <2>2, DuringCheck DEF inputs, Inv, ProgressInv
  <1>6. CASE pc' = "maxEnv" /\ env.enabled # "unset"
    <2>1. check' = made
      BY <1>1, <1>6
    <2>2. LoadedInv'
      BY <1>4, <1>6, <2>1 DEF LoadedInv
    <2>3. EnabledInv'
      BY <1>1, <1>4, <1>6, <2>1 DEF EnabledInv, Enabled
    <2>4. LimitInv'
      BY <1>1, <1>4, <1>6, <2>1 DEF LimitInv, LimitOfCli, LimitOfEnv, LimitOfCheck, LimitOf
    <2>5. NumbersInv'
      BY <1>2, <1>3, <1>4, <1>1, <1>6, <2>1 DEF NumbersInv, NumberOf, LookedAt
    <2>6. CheckInv'
      BY <2>2, <2>3, <2>4, <2>5 DEF CheckInv
    <2> QED
      BY <1>1, <2>6, DuringCheck DEF inputs, Inv, ProgressInv
  <1> QED
    BY <1>1, <1>5, <1>6

\* The environment's limit makes a check that is not active when there is none.
LEMMA MaxEnvStep ==
    ASSUME Inv, MaxSubnetsFromEnv
    PROVE  Inv'
  <1> DEFINE made == [Check EXCEPT !.maxSubnets = env.maxSubnets]
  <1>1. /\ pc = "maxEnv" /\ todo' = todo
        /\ \/ pc' = "error" /\ check' = check
           \/ /\ pc' = "enabledCli" /\ env.maxSubnets # Bad
              /\ check' = IF env.maxSubnets = NotSet THEN check ELSE made
        /\ UNCHANGED <<env, cli, file, strings, creds, tls, subnet>>
    BY DEF MaxSubnetsFromEnv, inputs
  <1>2. /\ Check \in CheckType
        /\ Check.enabled = TRUE <=> Enabled(check)
        /\ Check.maxSubnets = LimitOf(check)
        /\ \A n \in Numbers : Check.numbers[n] = NumberOf(check, n)
    BY MadeCheck DEF Inv, CheckInv
  <1>3. CASE pc' = "error" \/ env.maxSubnets = NotSet
    <2>1. check' = check
      BY <1>1, <1>3
    <2>2. CheckInv'
      BY <1>1, <1>3, <2>1 DEF Inv, CheckInv, LoadedInv, EnabledInv, LimitInv, LimitOfCli, LimitOfEnv, LimitOfCheck,
         NumbersInv, LookedAt
    <2> QED
      BY <1>1, <2>2, DuringCheck DEF inputs, Inv, ProgressInv
  <1>4. CASE pc' = "enabledCli" /\ env.maxSubnets # NotSet
    <2>1. check' = made
      BY <1>1, <1>4
    <2>2. env.maxSubnets \in 0 .. UintMod - 1
      BY <1>1, <1>4 DEF Inv, InputsInv
    <2>3. /\ made \in CheckType
          /\ made.present = TRUE
          /\ made.enabled = Check.enabled
          /\ made.maxSubnets = env.maxSubnets
          /\ made.numbers = Check.numbers
      BY <1>2, <2>2 DEF CheckType
    <2> HIDE DEF made
    <2>4. LoadedInv'
      BY <1>4, <2>1, <2>3 DEF LoadedInv
    <2>5. Enabled(check') <=> Enabled(check)
      BY <1>2, <2>1, <2>3 DEF Enabled
    <2>6. EnabledInv'
      BY <1>1, <1>4, <2>5 DEF Inv, CheckInv, EnabledInv
    <2>7. LimitInv'
      BY <1>1, <1>4, <2>1, <2>3 DEF LimitInv, LimitOfCli, LimitOfEnv, LimitOfCheck, LimitOf
    <2>8. NumbersInv'
      BY <1>1, <1>2, <1>4, <2>1, <2>3 DEF Inv, CheckInv, NumbersInv, NumberOf, LookedAt
    <2>9. CheckInv'
      BY <2>4, <2>6, <2>7, <2>8 DEF CheckInv
    <2> QED
      BY <1>1, <2>9, DuringCheck DEF inputs, Inv, ProgressInv
  <1> QED
    BY <1>1, <1>3, <1>4

\* The flag can enable the check only: it keeps the limit of one that is there.
LEMMA EnabledCliStep ==
    ASSUME Inv, EnabledFromCli
    PROVE  Inv'
  <1> DEFINE made == [Check EXCEPT !.enabled = TRUE]
  <1>1. /\ pc = "enabledCli" /\ pc' = "maxCli" /\ todo' = todo
        /\ check' = IF cli.enabled = "true" THEN made ELSE check
        /\ UNCHANGED <<env, cli, file, strings, creds, tls, subnet>>
    BY DEF EnabledFromCli, inputs
  <1>2. /\ Check \in CheckType
        /\ Check.maxSubnets = LimitOf(check)
        /\ \A n \in Numbers : Check.numbers[n] = NumberOf(check, n)
    BY MadeCheck DEF Inv, CheckInv
  <1>3. /\ made \in CheckType
        /\ made.present = TRUE
        /\ made.enabled = TRUE
        /\ made.maxSubnets = Check.maxSubnets
        /\ made.numbers = Check.numbers
    BY <1>2 DEF CheckType
  <1> HIDE DEF made
  <1>4. LoadedInv'
    BY <1>1, <1>3 DEF Inv, CheckInv, LoadedInv
  <1>5. EnabledInv'
    BY <1>1, <1>3 DEF Inv, CheckInv, EnabledInv, Enabled
  <1>6. LimitInv'
    BY <1>1, <1>2, <1>3 DEF Inv, CheckInv, LimitInv, LimitOfCli, LimitOfEnv, LimitOfCheck, LimitOf
  <1>7. NumbersInv'
    BY <1>1, <1>2, <1>3 DEF Inv, CheckInv, NumbersInv, NumberOf, LookedAt
  <1>8. CheckInv'
    BY <1>4, <1>5, <1>6, <1>7 DEF CheckInv
  <1> QED
    BY <1>1, <1>8, DuringCheck DEF inputs, Inv, ProgressInv

\* The flag's limit makes a check that is not active when there is none.
LEMMA MaxCliStep ==
    ASSUME Inv, MaxSubnetsFromCli
    PROVE  Inv'
  <1> DEFINE made == [Check EXCEPT !.maxSubnets = Uint32(cli.maxSubnets)]
  <1>1. /\ pc = "maxCli" /\ pc' = "numbers" /\ todo' = Numbers
        /\ check' = IF cli.maxSubnets < 0 THEN check ELSE made
        /\ UNCHANGED <<env, cli, file, strings, creds, tls, subnet>>
    BY DEF MaxSubnetsFromCli, inputs
  <1>2. /\ Check \in CheckType
        /\ Check.enabled = TRUE <=> Enabled(check)
        /\ Check.maxSubnets = LimitOf(check)
        /\ \A n \in Numbers : Check.numbers[n] = NumberOf(check, n)
    BY MadeCheck DEF Inv, CheckInv
  <1>3. Uint32(cli.maxSubnets) \in 0 .. UintMod - 1
    BY Uint32Range DEF Inv, InputsInv
  <1>4. /\ made \in CheckType
        /\ made.present = TRUE
        /\ made.enabled = Check.enabled
        /\ made.maxSubnets = Uint32(cli.maxSubnets)
        /\ made.numbers = Check.numbers
    BY <1>2, <1>3 DEF CheckType
  <1> HIDE DEF made
  <1>5. LoadedInv'
    BY <1>1, <1>4 DEF Inv, CheckInv, LoadedInv
  <1>6. Enabled(check') <=> Enabled(check)
    BY <1>1, <1>2, <1>4 DEF Enabled
  <1>7. EnabledInv'
    BY <1>1, <1>6 DEF Inv, CheckInv, EnabledInv
  <1>8. LimitInv'
    BY <1>1, <1>4 DEF Inv, InputsInv, CheckInv, LimitInv, LimitOfCli, LimitOfEnv, LimitOfCheck, LimitOf
  <1>9. NumbersInv'
    BY <1>1, <1>2, <1>4 DEF Inv, CheckInv, NumbersInv, NumberOf, LookedAt
  <1>10. CheckInv'
    BY <1>5, <1>7, <1>8, <1>9 DEF CheckInv
  <1> QED
    BY <1>1, <1>10, DuringCheck DEF inputs, Inv, ProgressInv

\* One of the other numbers of the check, from the environment and then the flag.
LEMMA NumberStep ==
    ASSUME Inv, NEW n \in Numbers, ApplyNumber(n)
    PROVE  Inv'
  <1> DEFINE number == NumberFrom(NumberOf(check, n), env.numbers[n], cli.numbers[n])
             made == [Check EXCEPT !.numbers[n] = number]
  <1>1. /\ Check \in CheckType
        /\ Check.enabled = TRUE <=> Enabled(check)
        /\ Check.maxSubnets = LimitOf(check)
        /\ \A k \in Numbers : Check.numbers[k] = NumberOf(check, k)
        /\ check.present => Check = check
    BY MadeCheck DEF Inv, CheckInv
  <1>2. /\ pc = "numbers" /\ n \in todo /\ todo' = todo \ {n}
        /\ \/ pc' = "error" /\ check' = check
           \/ /\ pc' = (IF todo' = {} THEN "create" ELSE "numbers") /\ env.numbers[n] # Bad
              /\ check' = IF env.numbers[n] = NotSet /\ cli.numbers[n] < 0 THEN check ELSE made
        /\ UNCHANGED <<env, cli, file, strings, creds, tls, subnet>>
    BY <1>1 DEF ApplyNumber, inputs
  <1>3. CASE pc' = "error"
    <2>1. check' = check
      BY <1>2, <1>3
    <2>2. CheckInv'
      BY <1>2, <1>3, <2>1 DEF Inv, CheckInv, LoadedInv, EnabledInv, LimitInv, LimitOfCli, LimitOfEnv, LimitOfCheck,
         NumbersInv
    <2> QED
      BY <1>2, <1>3, <2>2, DuringCheck DEF inputs, Inv, ProgressInv
  <1>4. CASE pc' # "error"
    <2>1. /\ pc' \in {"numbers", "create"}
          /\ pc' = "create" => todo' = {}
          /\ env.numbers[n] \in (0 .. UintMod - 1) \cup {NotSet}
          /\ cli.numbers[n] \in Int
      BY <1>2, <1>4 DEF Inv, InputsInv
    <2>2. NumberOf(check, n) \in 0 .. UintMod - 1
      BY <1>1 DEF CheckType
    <2>3. number \in 0 .. UintMod - 1
      BY <2>1, <2>2, NumberFromRange
    <2>4. env.numbers[n] = NotSet /\ cli.numbers[n] < 0 => number = NumberOf(check, n)
      BY <2>1 DEF NumberFrom
    <2> HIDE DEF number
    <2>5. /\ made \in CheckType
          /\ made.present = TRUE
          /\ made.enabled = Check.enabled
          /\ made.maxSubnets = Check.maxSubnets
          /\ made.numbers = [Check.numbers EXCEPT ![n] = number]
      BY <1>1, <2>3 DEF CheckType
    <2>6. \A k \in Numbers : made.numbers[k] = IF k = n THEN number ELSE NumberOf(check, k)
      BY <1>1, <2>5 DEF CheckType
    <2> HIDE DEF made
    <2>7. check' = made \/ (check' = check /\ number = NumberOf(check, n))
      BY <1>2, <1>4, <2>4
    <2>8. LoadedInv'
      BY <2>1, <2>5, <2>7 DEF Inv, CheckInv, LoadedInv
    <2>9. Enabled(check') <=> Enabled(check)
      BY <1>1, <2>5, <2>7 DEF Enabled
    <2>10. EnabledInv'
      BY <1>2, <2>1, <2>9 DEF Inv, CheckInv, EnabledInv
    <2>11. LimitInv'
      BY <1>1, <1>2, <2>1, <2>5, <2>7 DEF Inv, CheckInv, LimitInv, LimitOfCli, LimitOfEnv, LimitOfCheck, LimitOf
    <2>12. NumbersInv'
      <3> SUFFICES ASSUME NEW k \in Numbers
                   PROVE  NumberOf(check', k) =
                            IF pc' = "create" \/ k \notin todo'
                            THEN NumberFrom(NumberOf(file, k), env.numbers[k], cli.numbers[k])
                            ELSE NumberOf(file, k)
        BY <1>2, <2>1 DEF NumbersInv, LookedAt
      <3>1. NumberOf(check', k) = IF k = n THEN number ELSE NumberOf(check, k)
        BY <2>5, <2>6, <2>7 DEF NumberOf
      <3>2. NumberOf(check, k) =
              IF k \notin todo
              THEN NumberFrom(NumberOf(file, k), env.numbers[k], cli.numbers[k])
              ELSE NumberOf(file, k)
        BY <1>2 DEF Inv, CheckInv, NumbersInv, LookedAt
      <3>3. CASE k = n
        BY <1>2, <3>1, <3>2, <3>3 DEF number
      <3>4. CASE k # n
        BY <1>2, <2>1, <3>1, <3>2, <3>4
      <3> QED
        BY <3>3, <3>4
    <2>13. CheckInv'
      BY <2>8, <2>10, <2>11, <2>12 DEF CheckInv
    <2> QED
      BY <1>2, <2>1, <2>13, DuringCheck DEF inputs, Inv, ProgressInv
  <1> QED
    BY <1>3, <1>4

\* createBeaconConfig puts the defaults where the check has zeros.
LEMMA CreateStep ==
    ASSUME Inv, createBeaconConfig
    PROVE  Inv'
  <1>1. /\ pc = "create" /\ pc' = "done"
        /\ UNCHANGED <<env, cli, file, todo, strings, creds, tls, check>>
    BY DEF createBeaconConfig, inputs
  <1>2. InputsInv' /\ ProgressInv' /\ StringsInv' /\ CredentialsInv' /\ TlsInv'
    BY <1>1 DEF Inv, InputsInv, ProgressInv, StringsInv, SettledString, CredentialsInv, TlsInv
  <1>3. CheckInv'
    BY <1>1 DEF Inv, CheckInv, LoadedInv, EnabledInv, LimitInv, LimitOfCli, LimitOfEnv, LimitOfCheck,
         NumbersInv, LookedAt
  <1>4. SubnetInv'
    BY <1>1 DEF createBeaconConfig, Inv, SubnetInv, DefaultSubnet
  <1> QED
    BY <1>2, <1>3, <1>4 DEF Inv

\* Every part of the code keeps the invariant.
LEMMA NextInv == Inv /\ [Next]_vars => Inv'
  <1> SUFFICES ASSUME Inv, [Next]_vars PROVE Inv'
    OBVIOUS
  <1>1. CASE UNCHANGED vars
    BY <1>1 DEF vars, inputs, Inv, InputsInv, ProgressInv, StringsInv, SettledString, CredentialsInv,
       TlsInv, CheckInv, LoadedInv, EnabledInv, LimitInv, LimitOfCli, LimitOfEnv, LimitOfCheck,
         NumbersInv, LookedAt, SubnetInv
  <1> QED
    BY <1>1, LoadStep, StringStep, CredentialsStep, TlsStep, EnabledEnvStep, MaxEnvStep, EnabledCliStep,
       MaxCliStep, NumberStep, CreateStep DEF Next

\* So it holds in every state of every run.
LEMMA InvHolds == Spec => []Inv
  BY InitInv, NextInv, PTL DEF Spec

-----------------------------------------------------------------------------
(* Theorems.                                                               *)

\* What the topic manager is made with, said of the final check.
LEMMA SubnetOfCheck ==
    ASSUME Inv
    PROVE  /\ subnet.enabled \in BOOLEAN
           /\ subnet.maxSubnets \in 1 .. UintMod - 1
           /\ subnet.numbers \in [Numbers -> 1 .. UintMod - 1]
           /\ subnet = [enabled |-> subnet.enabled, maxSubnets |-> subnet.maxSubnets,
                        numbers |-> subnet.numbers]
           /\ pc = "done" =>
                /\ subnet.enabled = TRUE <=> Enabled(check)
                /\ \A n \in Numbers :
                     NumberOf(check, n) # 0 => subnet.numbers[n] = NumberOf(check, n)
                /\ subnet.maxSubnets = OrDefault(LimitOf(check), DefaultMaxSubnets)
  <1>1. DefaultMaxSubnets \in 1 .. UintMod - 1
    BY DEF DefaultMaxSubnets
  <1>2. CASE pc # "done" \/ ~check.present
    <2>1. subnet = DefaultSubnet
      BY <1>2 DEF Inv, SubnetInv
    <2> QED
      BY <1>1, <1>2, <2>1 DEF DefaultSubnet, Enabled, NumberOf, LimitOf, OrDefault
  <1>3. CASE pc = "done" /\ check.present
    <2>1. check \in CheckType
      BY <1>3 DEF Inv, CheckInv, LoadedInv, NoCheck
    <2>2. subnet = [enabled |-> check.enabled,
                    maxSubnets |-> OrDefault(check.maxSubnets, DefaultMaxSubnets),
                    numbers |-> [n \in Numbers |-> OrDefault(check.numbers[n], DefaultOf[n])]]
      BY <1>3 DEF Inv, SubnetInv
    <2>3. check.enabled \in BOOLEAN /\ subnet.enabled = check.enabled
      BY <2>1, <2>2 DEF CheckType
    <2>4. subnet.enabled \in BOOLEAN /\ (subnet.enabled = TRUE <=> Enabled(check))
      BY <1>3, <2>3, Zenon DEF Enabled
    <2>5. /\ subnet.maxSubnets \in 1 .. UintMod - 1
          /\ subnet.maxSubnets = OrDefault(check.maxSubnets, DefaultMaxSubnets)
      <3>1. check.maxSubnets \in 0 .. UintMod - 1
        BY <2>1 DEF CheckType
      <3> QED
        BY <1>1, <2>2, <3>1, OrDefaultPositive
    <2>6. \A n \in Numbers :
            /\ OrDefault(check.numbers[n], DefaultOf[n]) \in 1 .. UintMod - 1
            /\ check.numbers[n] # 0 => OrDefault(check.numbers[n], DefaultOf[n]) = check.numbers[n]
      <3>1. \A n \in Numbers : /\ check.numbers[n] \in 0 .. UintMod - 1
                               /\ DefaultOf[n] \in 1 .. UintMod - 1
        BY <2>1 DEF CheckType
      <3> QED
        BY <3>1, OrDefaultPositive
    <2>7. subnet.numbers = [n \in Numbers |-> OrDefault(check.numbers[n], DefaultOf[n])]
      BY <2>2
    <2>8. subnet = [enabled |-> subnet.enabled, maxSubnets |-> subnet.maxSubnets,
                    numbers |-> subnet.numbers]
      BY <2>2
    <2> QED
      BY <1>3, <2>4, <2>5, <2>6, <2>7, <2>8 DEF NumberOf, LimitOf
  <1> QED
    BY <1>2, <1>3

\* The configuration keeps its types, uint32s through every conversion included.
THEOREM TypeCorrect == Spec => []TypeOK
  <1>1. Inv => TypeOK
    <2> SUFFICES ASSUME Inv PROVE TypeOK
      OBVIOUS
    <2>1. pc \in {"load", "strings", "credentials", "tls", "enabledEnv", "maxEnv", "enabledCli",
                  "maxCli", "numbers", "create", "done", "error"}
      BY DEF Inv, ProgressInv
    <2>2. /\ todo \subseteq Strings \cup Numbers
          /\ strings \in [Strings -> Sources]
          /\ creds \in [user : Sources \cup {"empty"}, password : Sources \cup {"empty"}]
          /\ tls \in Sources
          /\ check = NoCheck \/ check \in CheckType
      BY DEF Inv, ProgressInv, StringsInv, CredentialsInv, TlsInv, CheckInv, LoadedInv
    <2>3. subnet \in [enabled : BOOLEAN, maxSubnets : 0 .. UintMod - 1,
                      numbers : [Numbers -> 0 .. UintMod - 1]]
      <3>1. /\ subnet.maxSubnets \in 0 .. UintMod - 1
            /\ subnet.numbers \in [Numbers -> 0 .. UintMod - 1]
        BY SubnetOfCheck
      <3> QED
        BY <3>1, SubnetOfCheck
    <2> QED
      BY <2>1, <2>2, <2>3 DEF TypeOK
  <1> QED
    BY <1>1, InvHolds, PTL

\* What reaches the application is what the source of the highest precedence says,
\* for every setting and every combination of sources.
THEOREM Precedence == Spec => []HighestSourceWins
  <1>1. Inv => SourcePrecedence
    BY DEF Inv, SourcePrecedence, Done, StringsInv, SettledString, CredentialsInv, TlsInv
  <1>2. Inv => NumberPrecedence
    <2> SUFFICES ASSUME Inv, Done, NEW n \in Numbers
                 PROVE  /\ cli.numbers[n] \in 1 .. UintMod - 1 => subnet.numbers[n] = cli.numbers[n]
                        /\ cli.numbers[n] < 0 /\ env.numbers[n] > 0
                             => subnet.numbers[n] = env.numbers[n]
                        /\ cli.numbers[n] < 0 /\ env.numbers[n] < 0 /\ file.present /\ file.numbers[n] # 0
                             => subnet.numbers[n] = file.numbers[n]
      BY DEF NumberPrecedence
    <2>1. PICK before, inEnv, inCli :
            before = NumberOf(file, n) /\ inEnv = env.numbers[n] /\ inCli = cli.numbers[n]
      OBVIOUS
    <2>2. NumberOf(check, n) = NumberFrom(before, inEnv, inCli)
      BY <2>1 DEF Inv, CheckInv, NumbersInv, LookedAt, Done
    <2>3. NumberOf(check, n) # 0 => subnet.numbers[n] = NumberOf(check, n)
      BY SubnetOfCheck DEF Done
    <2>4. inCli \in Int /\ inEnv \in (0 .. UintMod - 1) \cup {NotSet, Bad}
      BY <2>1 DEF Inv, InputsInv
    <2>5. NumberOf(check, n) \in 0 .. UintMod - 1
      BY MadeCheck DEF Inv, CheckInv, CheckType
    <2>6. ASSUME inCli \in 1 .. UintMod - 1 PROVE subnet.numbers[n] = inCli
      <3>1. Uint32(inCli) = inCli
        BY <2>6, Uint32Range
      <3>2. NumberOf(check, n) = inCli /\ inCli # 0
        BY <2>2, <2>6, <3>1 DEF NumberFrom
      <3> QED
        BY <2>3, <3>2
    <2>7. ASSUME inCli < 0, inEnv > 0 PROVE subnet.numbers[n] = inEnv
      <3>1. NumberOf(check, n) = inEnv /\ inEnv # 0
        BY <2>2, <2>4, <2>7 DEF NumberFrom, NotSet, Bad
      <3> QED
        BY <2>3, <3>1
    <2>8. ASSUME inCli < 0, inEnv < 0, before # 0 PROVE subnet.numbers[n] = before
      <3>1. inEnv = NotSet
        <4>1. inEnv # Bad
          BY <2>2, <2>4, <2>5, <2>8 DEF NumberFrom, NotSet, Bad
        <4> QED
          BY <2>4, <2>8, <4>1
      <3>2. NumberOf(check, n) = before
        BY <2>2, <2>4, <2>8, <3>1 DEF NumberFrom
      <3> QED
        BY <2>3, <2>8, <3>2
    <2> QED
      BY <2>1, <2>6, <2>7, <2>8 DEF NumberOf
  <1>3. Inv => LimitPrecedence
    <2> SUFFICES ASSUME Inv, Done PROVE LimitPrecedence
      BY DEF LimitPrecedence
    <2>1. subnet.maxSubnets = OrDefault(LimitOf(check), DefaultMaxSubnets)
      BY SubnetOfCheck DEF Done
    <2>2. LimitOf(check) = IF cli.maxSubnets >= 0 THEN Uint32(cli.maxSubnets)
                           ELSE IF env.maxSubnets # NotSet THEN env.maxSubnets
                           ELSE IF env.enabled # "unset" THEN DefaultMaxSubnets
                           ELSE LimitOf(file)
      BY DEF Inv, CheckInv, LimitInv, LimitOfCli, LimitOfEnv, LimitOfCheck, Done
    <2>3. cli.maxSubnets \in Int /\ env.maxSubnets \in (0 .. UintMod - 1) \cup {NotSet, Bad}
      BY DEF Inv, InputsInv
    <2>4. ASSUME cli.maxSubnets \in 1 .. UintMod - 1 PROVE subnet.maxSubnets = cli.maxSubnets
      <3>1. Uint32(cli.maxSubnets) = cli.maxSubnets
        BY <2>4, Uint32Range
      <3> QED
        BY <2>1, <2>2, <2>4, <3>1 DEF OrDefault
    <2>5. ASSUME cli.maxSubnets < 0, env.maxSubnets > 0 PROVE subnet.maxSubnets = env.maxSubnets
      BY <2>1, <2>2, <2>3, <2>5 DEF OrDefault, NotSet
    <2>6. ASSUME cli.maxSubnets < 0, env.maxSubnets < 0
          PROVE  subnet.maxSubnets = IF env.enabled = "unset" /\ file.present /\ file.maxSubnets # 0
                                     THEN file.maxSubnets ELSE DefaultMaxSubnets
      <3>1. subnet.maxSubnets \in 1 .. UintMod - 1
        BY SubnetOfCheck
      <3>2. env.maxSubnets = NotSet
        BY <2>1, <2>2, <2>3, <2>6, <3>1 DEF OrDefault, NotSet, Bad
      <3> QED
        BY <2>1, <2>2, <2>3, <2>6, <3>2 DEF OrDefault, LimitOf
    <2> QED
      BY <2>4, <2>5, <2>6 DEF LimitPrecedence
  <1>4. Inv => HighestSourceWins
    BY <1>1, <1>2, <1>3 DEF HighestSourceWins
  <1> QED
    BY <1>4, InvHolds, PTL

\* The flag, the environment and the file, in this order, are all that can make the
\* check active, whichever other settings made it; a flag of false changes nothing.
THEOREM SourcesOfEnabled == Spec => []EnabledBySource
  <1>1. Inv => EnabledBySource
    <2> SUFFICES ASSUME Inv, Done PROVE EnabledBySource
      BY DEF EnabledBySource
    <2>1. subnet.enabled \in BOOLEAN /\ (subnet.enabled = TRUE <=> Enabled(check))
      BY SubnetOfCheck DEF Done
    <2>2. Enabled(check) <=> \/ cli.enabled = "true"
                             \/ env.enabled = "true"
                             \/ env.enabled = "unset" /\ file.present /\ file.enabled
      BY DEF Inv, CheckInv, EnabledInv, Enabled, Done
    <2> QED
      BY <2>1, <2>2, Zenon DEF EnabledBySource
  <1> QED
    BY <1>1, InvHolds, PTL

\* A limit, window, threshold, cooldown or high water mark of zero cannot be given.
NoZero ==
    Done => subnet.maxSubnets # 0 /\ \A n \in Numbers : subnet.numbers[n] # 0

\* What FlagsOverride finds of one flag is so of every source: a zero, which the
\* usage and the validation allow, always gives way to the default.
THEOREM ZeroCannotBeGiven == Spec => []NoZero
  <1>1. Inv => NoZero
    BY SubnetOfCheck DEF NoZero
  <1> QED
    BY <1>1, InvHolds, PTL
=============================================================================
