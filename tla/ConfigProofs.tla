---------------------------- MODULE ConfigProofs ----------------------------
(* The start-up for any environments, any files and any range of durations. *)
EXTENDS Config, TLAPS

\* A file is there exactly if it is one that was parsed (env.go:33-36).
LEMMA FilesAre ==
    ASSUME NEW f \in Files
    PROVE  /\ f.state \in {"present", "missing", "malformed"}
           /\ f.state = "present" => f.vars \in [Vars -> Texts]
           /\ f.state = "missing" => f = Missing
           /\ f = Malformed => f.state = "malformed"
           /\ f = Missing => f.state = "missing"
<1>1. CASE f = Missing \/ f = Malformed
  BY <1>1 DEF Missing, Malformed
<1>2. CASE f.vars \in [Vars -> Texts] /\ f = Present(f.vars)
  BY <1>2 DEF Present, Missing, Malformed
<1> QED BY <1>1, <1>2, ConfigAssumption

\* The parts of a text.
LEMMA TextParts ==
    ASSUME NEW t \in Texts
    PROVE  /\ t.is \in {"number", "span"} => t.n \in Int
           /\ t.is = "clock" => t.h \in Int /\ t.m \in Int /\ t.s \in Int
           /\ t.is = "word" => t.word # ""
<1>1. CASE t \in {Unset, Empty, Blank}
  <2>1. t.is \in {"unset", "empty", "blank"}
    BY <1>1 DEF Unset, Empty, Blank
  <2> QED BY <2>1
<1>2. CASE t \in WordTexts
  BY <1>2 DEF WordTexts
<1>3. CASE t \in NumberTexts
  BY <1>3 DEF NumberTexts
<1>4. CASE t \in ClockTexts
  BY <1>4 DEF ClockTexts
<1>5. CASE t \in ListTexts
  BY <1>5 DEF ListTexts
<1> QED BY <1>1, <1>2, <1>3, <1>4, <1>5 DEF Texts

\* Files that are read fill the environment (godotenv under env.go:36).
LEMMA ReadStep ==
    ASSUME ConfigInv, FirstPlaceWins, ReadFile
    PROVE  ConfigInv' /\ FirstPlaceWins'
<1> DEFINE f == disk[read + 1]
<1>1. /\ read \in Nat /\ read < Len(disk) /\ stage = "loading"
      /\ environ' = Fill(environ, f.vars) /\ read' = read + 1
      /\ given' = given /\ disk' = disk /\ stage' = stage
  BY DEF ReadFile, ConfigInv
<1>2. f \in Files /\ f.state = "present"
  BY <1>1 DEF ReadFile, ConfigInv
<1>3. f.vars \in [Vars -> Texts]
  BY <1>2, FilesAre
<1>4. environ' \in [Vars -> Texts]
  BY <1>1, <1>3 DEF Fill, ConfigInv
<1>5. \A i \in 1..read' : disk'[i].state = "present"
  BY <1>1, <1>2 DEF ConfigInv
<1>6. ConfigInv'
  BY <1>1, <1>4, <1>5 DEF ConfigInv
<1>7. \A i \in 0..read, v \in Vars : Says(i, v)' = Says(i, v)
  BY <1>1 DEF Says
<1>8. \A v \in Vars, i \in Nat : i = read' => Says(i, v)' = f.vars[v]
  BY <1>1 DEF Says
<1>9. FirstPlaceWins'
  <2> SUFFICES ASSUME NEW v \in Vars
               PROVE \/ environ'[v] = Unset /\ \A i \in 0..read' : Says(i, v)' = Unset
                     \/ /\ environ'[v] # Unset
                        /\ \E i \in 0..read' : /\ environ'[v] = Says(i, v)'
                                               /\ \A j \in 0..(i-1) : Says(j, v)' = Unset
    BY DEF FirstPlaceWins
  <2>1. environ'[v] = IF environ[v] = Unset THEN f.vars[v] ELSE environ[v]
    BY <1>1 DEF Fill
  <2>2. CASE environ[v] = Unset
    <3>1. \A i \in 0..read : Says(i, v)' = Unset
      BY <2>2, <1>7 DEF FirstPlaceWins
    <3>2. \A i \in Nat : i = read' => environ'[v] = Says(i, v)'
      BY <2>1, <2>2, <1>8
    <3>3. \A j \in 0..(read' - 1) : Says(j, v)' = Unset
      BY <3>1, <1>1
    <3>4. \A i \in 0..read' : i \in 0..read \/ i = read'
      BY <1>1
    <3>5. read' \in 0..read' /\ read' \in Nat
      BY <1>1
    <3> QED BY <3>1, <3>2, <3>3, <3>4, <3>5
  <2>3. CASE environ[v] # Unset
    <3>1. PICK i \in 0..read : /\ environ[v] = Says(i, v)
                               /\ \A j \in 0..(i-1) : Says(j, v) = Unset
      BY <2>3 DEF FirstPlaceWins
    <3>2. environ'[v] = Says(i, v)' /\ i \in 0..read'
      BY <2>1, <2>3, <3>1, <1>1, <1>7
    <3>3. \A j \in 0..(i-1) : Says(j, v)' = Unset
      BY <3>1, <1>1, <1>7
    <3> QED BY <2>1, <2>3, <3>2, <3>3
  <2> QED BY <2>2, <2>3
<1> QED BY <1>6, <1>9

\* ConfigInv and FirstPlaceWins hold all along (env.go:14-20, platform.go:60-62).
THEOREM ConfigInvariance == ConfigSpec => [](ConfigInv /\ FirstPlaceWins)
<1>1. ConfigInit => ConfigInv /\ FirstPlaceWins
  <2> SUFFICES ASSUME ConfigInit PROVE ConfigInv /\ FirstPlaceWins
    OBVIOUS
  <2>1. given \in Environments /\ environ = given /\ environ \in [Vars -> Texts]
    BY ConfigAssumption DEF ConfigInit
  <2>2. disk \in Seq(Files) /\ Len(disk) \in Nat
    <3>1. PICK f \in Files, g \in Files : disk = <<f>> \/ disk = <<f, g>>
      BY DEF ConfigInit
    <3>2. <<f>> \in Seq(Files) /\ <<f, g>> \in Seq(Files)
      OBVIOUS
    <3>3. disk \in Seq(Files)
      BY <3>1, <3>2
    <3> QED BY <3>3
  <2>3. ConfigInv
    BY <2>1, <2>2 DEF ConfigInit, ConfigInv
  <2>4. FirstPlaceWins
    BY <2>1 DEF ConfigInit, FirstPlaceWins, Says
  <2> QED BY <2>3, <2>4
<1>2. ConfigInv /\ FirstPlaceWins /\ [ConfigNext]_configVars => ConfigInv' /\ FirstPlaceWins'
  <2> SUFFICES ASSUME ConfigInv, FirstPlaceWins, [ConfigNext]_configVars
               PROVE  ConfigInv' /\ FirstPlaceWins'
    OBVIOUS
  <2>1. CASE ReadFile
    BY <2>1, ReadStep
  <2> SUFFICES ASSUME ~ ReadFile PROVE ConfigInv' /\ FirstPlaceWins'
    BY <2>1
  <2>2. /\ given' = given /\ disk' = disk /\ environ' = environ /\ read' = read
    BY DEF ConfigNext, FileFails, Loaded, NewConfig, StoreEvent, Ended, configVars
  <2>3. FirstPlaceWins'
    BY <2>2 DEF FirstPlaceWins, Says
  <2>4. Settings' = Settings
    BY <2>2 DEF Settings
  <2>5. CASE FileFails
    <3>1. disk[read + 1] \in Files
      BY <2>5 DEF FileFails, ConfigInv
    <3>2. stage' = "loaded" => disk[read + 1] = Missing
      BY <2>5, <3>1, FilesAre DEF FileFails
    <3>3. stage' \in {"loaded", "failed"}
      BY <2>5 DEF FileFails
    <3> QED BY <2>2, <2>3, <3>2, <3>3 DEF ConfigInv
  <2>6. CASE Loaded
    BY <2>2, <2>3, <2>6 DEF Loaded, ConfigInv
  <2>7. CASE NewConfig
    <3>1. stage' = "running" => Validate(Settings) /\ config' = Settings
      BY <2>7 DEF NewConfig
    <3>2. stage = "loaded" /\ stage' \in {"running", "failed"}
      BY <2>7 DEF NewConfig
    <3> QED BY <2>2, <2>3, <2>4, <3>1, <3>2 DEF ConfigInv
  <2>8. CASE StoreEvent \/ Ended \/ UNCHANGED configVars
    <3>1. stage' = stage /\ config' = config
      BY <2>8 DEF StoreEvent, Ended, configVars
    <3> QED BY <2>2, <2>3, <2>4, <3>1 DEF ConfigInv
  <2> QED BY <2>5, <2>6, <2>7, <2>8 DEF ConfigNext
<1> QED BY <1>1, <1>2, PTL DEF ConfigSpec

\* Variables that are set win (env.go:14).
THEOREM SetVariablesWin == ConfigSpec => []FirstPlaceWins
BY ConfigInvariance, PTL

\* A file that does not parse stops the start (env.go:16-21).
THEOREM BrokenFilesStop == ConfigSpec => []BrokenFilesStopTheStart
<1>1. ConfigInv => BrokenFilesStopTheStart
  <2> SUFFICES ASSUME ConfigInv, stage = "running",
                      NEW i \in DOMAIN disk, disk[i] = Malformed
               PROVE  \E j \in 1..(i-1) : disk[j] = Missing
    BY DEF BrokenFilesStopTheStart
  <2>1. read \in 0..Len(disk) /\ i \in 1..Len(disk)
    BY DEF ConfigInv
  <2>2. disk[i].state # "present"
    BY DEF Malformed
  <2>3. read < i
    BY <2>1, <2>2 DEF ConfigInv
  <2>4. read # Len(disk)
    BY <2>1, <2>3
  <2>5. disk[read + 1] = Missing
    BY <2>4 DEF ConfigInv
  <2>6. read + 1 # i
    BY <2>5 DEF Missing, Malformed
  <2> QED BY <2>1, <2>3, <2>5, <2>6
<1> QED BY <1>1, ConfigInvariance, PTL

-----------------------------------------------------------------------------
(* What passes Validate. *)

\* Within the range int64 arithmetic is arithmetic (env.go:73).
LEMMA NoWrap == ASSUME NEW n \in Int, -Half <= n, n < Half PROVE Wrap(n) = n
<1>1. Half \in Nat
  BY ConfigAssumption
<1>2. n + Half \in 0..(2 * Half - 1)
  BY <1>1
<1>3. (n + Half) % (2 * Half) = n + Half
  BY <1>1, <1>2
<1> QED BY <1>1, <1>3 DEF Wrap

\* A process that runs has the timeouts that were written, as far as clocks are in
\* range, or the default of each that is no time, and a usable port and limit
\* (env.go:65-76, platform.go:81-96).
THEOREM ValidatedMeansUsable == ConfigSpec => []RunsAsConfigured
<1>1. ConfigInv => RunsAsConfigured
  <2> SUFFICES ASSUME ConfigInv, stage = "running" PROVE RunsAsConfigured
    BY Zenon DEF RunsAsConfigured
  <2>1. config = Settings /\ Validate(config) /\ environ \in [Vars -> Texts]
    BY DEF ConfigInv
  <2>2. config.port.n \in Ports /\ config.bodyLimit > 0
    BY <2>1 DEF Validate
  <2>3. ASSUME NEW v \in Timeouts
        PROVE  config.timeout[v] > 0 /\ (InRange(environ[v]) => AsWritten(v))
    <3> DEFINE t == environ[v]
    <3>1. config.timeout[v] > 0
      BY <2>1 DEF Validate
    <3>2. config.timeout[v] = Duration(t, Fallback(v))
      BY <2>1 DEF Settings
    <3>3. t \in Texts
      BY <2>1 DEF Vars
    <3>4. ASSUME InRange(t) PROVE AsWritten(v)
      <4>1. CASE t.is = "span" \/ t = Number(0)
        <5>1. t.is # "clock"
          BY <4>1 DEF Number
        <5> QED BY <3>2, <4>1, <5>1 DEF Duration, AsWritten, Meaning
      <4>2. CASE t.is = "clock"
        <5>1. t.h \in Int /\ t.m \in Int /\ t.s \in Int
          BY <3>3, <4>2, TextParts
        <5>2. ClockTime(t) \in Int
          BY <5>1, ConfigAssumption DEF ClockTime
        <5>3. Wrap(ClockTime(t)) = ClockTime(t)
          BY <3>4, <4>2, <5>2, NoWrap DEF InRange
        <5>4. t # Number(0)
          BY <4>2 DEF Number
        <5> QED BY <3>2, <4>2, <5>3, <5>4 DEF Duration, AsWritten, Meaning
      <4>3. CASE t.is # "span" /\ t # Number(0) /\ t.is # "clock"
        BY <3>2, <4>3 DEF Duration, AsWritten
      <4> QED BY <4>1, <4>2, <4>3
    <3> QED BY <3>1, <3>4
  <2>4. Word("") \notin config.origins
    <3> DEFINE t == environ["CORS_ALLOWED_ORIGINS"]
    <3>1. config.origins = csvEnv(t)
      BY <2>1 DEF Settings
    <3>2. t \in Texts
      BY <2>1 DEF Vars
    <3>3. t.is = "word" => t.word # ""
      BY <3>2, TextParts
    <3>4. \A w : Word(w).is = "word" /\ Word(w).word = w
      BY DEF Word
    <3>5. t # Word("")
      BY <3>3, <3>4, Zenon
    <3> DEFINE none == Word("")
               words == {Word(t.entries[i]) : i \in DOMAIN t.entries}
    <3>6. csvEnv(t) = IF t.is = "list" THEN words \ {none} ELSE {t} \ {Unset, Empty, Blank}
      BY Zenon DEF csvEnv
    <3> HIDE DEF t, words, none
    <3>7. none \notin csvEnv(t)
      BY <3>5, <3>6 DEF none
    <3> QED BY <3>1, <3>7, Zenon DEF none
  <2> QED BY <2>2, <2>3, <2>4, Zenon DEF RunsAsConfigured
<1> QED BY <1>1, ConfigInvariance, PTL
=============================================================================
