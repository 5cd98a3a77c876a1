------------------------------- MODULE Config -------------------------------
(***************************************************************************)
(* Where the settings of the process come from: Environment and the typed  *)
(* look-ups (env/env.go), NewConfig and Validate (platform/platform.go),   *)
(* and the topics of the events (events/events.go), which are looked up    *)
(* each time an event is stored.                                           *)
(*                                                                         *)
(* A text is what it parses to.  godotenv is external: it reads files in   *)
(* order, sets what is not set yet, and stops at the first error.          *)
(***************************************************************************)
EXTENDS Integers, Sequences

CONSTANTS Second,       \* a second, in the unit of time.Duration (10^9 ns)
          Half,         \* a duration is in -Half .. Half-1 (2^63)
          Environments, \* what the process may be started with
          Files         \* what a dotenv file may be

Timeouts == {"SHUTDOWN_TIMEOUT", "READ_TIMEOUT", "WRITE_TIMEOUT", "IDLE_TIMEOUT",
             "READ_HEADER_TIMEOUT"}
Topics == {"KAFKA_TOPIC_ORDER_REQUESTED", "KAFKA_TOPIC_ORDER_ACCEPTED"}
Vars == {"HELLNET_SERVICE", "HELLNET_PORT", "BODY_LIMIT", "CORS_ALLOWED_ORIGINS"}
          \cup Timeouts \cup Topics

Unset == [is |-> "unset"]
Empty == [is |-> "empty"]
Blank == [is |-> "blank"]
Word(w) == [is |-> "word", word |-> w]              \* no number and no duration
Number(n) == [is |-> "number", n |-> n]
Span(n) == [is |-> "span", n |-> n]                 \* "1m30s", within range
Clock(h, m, s) == [is |-> "clock", h |-> h, m |-> m, s |-> s]  \* "01:30:00"
List(entries) == [is |-> "list", entries |-> entries]          \* comma-separated

WordTexts == [is : {"word"}, word : STRING \ {""}]
NumberTexts == [is : {"number", "span"}, n : Int]
ClockTexts == [is : {"clock"}, h : Int, m : Int, s : Int]
ListTexts == [is : {"list"}, entries : Seq(STRING)]
Texts == {Unset, Empty, Blank} \cup WordTexts \cup NumberTexts \cup ClockTexts \cup ListTexts

Present(vars) == [state |-> "present", vars |-> vars]
Missing == [state |-> "missing"]
Malformed == [state |-> "malformed"]

ASSUME ConfigAssumption ==
    /\ Second \in Nat \ {0} /\ Half \in Nat /\ 120 * Second < Half
    /\ Environments \subseteq [Vars -> Texts]
    /\ \A f \in Files : f \in {Missing, Malformed} \/ /\ f.vars \in [Vars -> Texts]
                                                      /\ f = Present(f.vars)

VARIABLES given,        \* the environment the process was started with
          disk,         \* the dotenv files, in the order Environment reads them
          environ,      \* the environment of the process
          read,         \* how many of the files have been read
          stage,        \* "loading", "loaded", "running" or "failed"
          config,       \* the configuration the process runs with
          stored        \* the topics events were stored for, with their types

configVars == <<given, disk, environ, read, stage, config, stored>>

NoConfig == [port |-> 0]

\* Environment is given variables that name files; if none does, it reads ".env".
ConfigInit ==
    /\ given \in Environments /\ environ = given
    /\ \E f, g \in Files : disk = <<f>> \/ disk = <<f, g>>
    /\ read = 0
    /\ stage = "loading"
    /\ config = NoConfig
    /\ stored = {}

-----------------------------------------------------------------------------
(* Environment *)

\* (Mutant: a file overrides what is set.)
FillOver(env, vars) == [v \in Vars |-> IF vars[v] # Unset THEN vars[v] ELSE env[v]]

\* godotenv.Load sets what is not set; a variable that is set to "" is set.
Fill(env, vars) == [v \in Vars |-> IF env[v] = Unset THEN vars[v] ELSE env[v]]

ReadFile ==
    /\ stage = "loading" /\ read < Len(disk)
    /\ disk[read + 1].state = "present"
    /\ environ' = Fill(environ, disk[read + 1].vars)
    /\ read' = read + 1
    /\ UNCHANGED <<given, disk, stage, config, stored>>

\* (Mutant: no error of a file is an error of Environment.)
FileFailsQuietly ==
    /\ stage = "loading" /\ read < Len(disk)
    /\ disk[read + 1].state # "present"
    /\ stage' = "loaded"
    /\ UNCHANGED <<given, disk, environ, read, config, stored>>

\* An error ends the loading; that a file does not exist is then no error.
FileFails ==
    /\ stage = "loading" /\ read < Len(disk)
    /\ disk[read + 1].state # "present"
    /\ stage' = IF disk[read + 1].state = "missing" THEN "loaded" ELSE "failed"
    /\ UNCHANGED <<given, disk, environ, read, config, stored>>

Loaded ==
    /\ stage = "loading" /\ read = Len(disk)
    /\ stage' = "loaded"
    /\ UNCHANGED <<given, disk, environ, read, config, stored>>

-----------------------------------------------------------------------------
(* The look-ups.  An empty variable counts as unset. *)

Absent(t) == t \in {Unset, Empty}

String(t, fallback) == IF Absent(t) THEN fallback ELSE t

IntOf(t, fallback) == IF t.is = "number" THEN t.n ELSE fallback

\* int64 arithmetic
Wrap(n) == ((n + Half) % (2 * Half)) - Half

ClockTime(t) == t.h * 3600 * Second + t.m * 60 * Second + t.s * Second

\* time.ParseDuration takes spans and a bare 0, Sscanf the clock; each of the
\* products and sums of the latter wraps, so their result does.
Duration(t, fallback) ==
    IF t.is = "span" \/ t = Number(0) THEN t.n
    ELSE IF t.is = "clock" THEN Wrap(ClockTime(t)) ELSE fallback

\* The entries of a list without the blank ones; a text without commas is one.
csvEnv(t) ==
    IF t.is = "list" THEN {Word(t.entries[i]) : i \in DOMAIN t.entries} \ {Word("")}
    ELSE {t} \ {Unset, Empty, Blank}

-----------------------------------------------------------------------------
(* NewConfig *)

Fallback(v) ==
    CASE v = "SHUTDOWN_TIMEOUT" -> 10 * Second
      [] v = "READ_TIMEOUT" -> 15 * Second
      [] v = "WRITE_TIMEOUT" -> 30 * Second
      [] v = "IDLE_TIMEOUT" -> 120 * Second
      [] v = "READ_HEADER_TIMEOUT" -> 10 * Second

Settings == [name |-> String(environ["HELLNET_SERVICE"], Blank),
             port |-> String(environ["HELLNET_PORT"], Number(8080)),
             timeout |-> [v \in Timeouts |-> Duration(environ[v], Fallback(v))],
             bodyLimit |-> IntOf(environ["BODY_LIMIT"], 1048576),
             origins |-> csvEnv(environ["CORS_ALLOWED_ORIGINS"])]

Ports == 1..65535

\* (Mutant: the numbers are not looked at.)
ValidateLax(c) == c.port.is = "number" /\ c.name # Blank

Validate(c) ==
    /\ c.port.is = "number" /\ c.port.n \in Ports
    /\ c.name # Blank
    /\ \A v \in Timeouts : c.timeout[v] > 0
    /\ c.bodyLimit > 0

NewConfig ==
    /\ stage = "loaded"
    /\ IF Validate(Settings) THEN stage' = "running" /\ config' = Settings
                             ELSE stage' = "failed" /\ UNCHANGED config
    /\ UNCHANGED <<given, disk, environ, read, stored>>

\* A request or an acceptance stores an event; its type is the topic of now.
MessageType(topic) == String(environ[topic], Empty)

StoreEvent ==
    /\ stage = "running"
    /\ \E topic \in Topics :
           stored' = stored \cup {[topic |-> topic, type |-> MessageType(topic)]}
    /\ UNCHANGED <<given, disk, environ, read, stage, config>>

Ended == stage = "failed" /\ UNCHANGED configVars

ConfigNext == ReadFile \/ FileFails \/ Loaded \/ NewConfig \/ StoreEvent \/ Ended

ConfigSpec == ConfigInit /\ [][ConfigNext]_configVars

-----------------------------------------------------------------------------
(* Correctness. *)

\* The files read so far are there; reading ended at the last one or at one that
\* is missing (env.go:16-20), and what runs was validated (platform.go:60-62).
ConfigInv ==
    /\ given \in Environments /\ environ \in [Vars -> Texts]
    /\ disk \in Seq(Files) /\ read \in 0..Len(disk)
    /\ stage \in {"loading", "loaded", "running", "failed"}
    /\ \A i \in 1..read : disk[i].state = "present"
    /\ stage \in {"loaded", "running"} => read = Len(disk) \/ disk[read + 1] = Missing
    /\ stage = "running" => config = Settings /\ Validate(config)

\* Where a variable may be set: the environment of the start, then the files.
Says(place, v) == IF place = 0 THEN given[v] ELSE disk[place].vars[v]

\* What a variable holds is what the first place that sets it says, and it is
\* unset only if none of those read does (env.go:14: variables already set win).
FirstPlaceWins ==
    \A v \in Vars :
        \/ environ[v] = Unset /\ \A i \in 0..read : Says(i, v) = Unset
        \/ /\ environ[v] # Unset
           /\ \E i \in 0..read : /\ environ[v] = Says(i, v)
                                 /\ \A j \in 0..(i-1) : Says(j, v) = Unset

\* A process with a file that does not parse does not start (env.go:16-21),
\* unless it stopped reading before that file.
BrokenFilesStopTheStart ==
    stage = "running" =>
        \A i \in DOMAIN disk : disk[i] = Malformed => \E j \in 1..(i-1) : disk[j] = Missing

\* A clock text whose time is a duration.
InRange(t) == t.is = "clock" => ClockTime(t) >= -Half /\ ClockTime(t) < Half

\* The time a text stands for.
Meaning(t) == IF t.is = "clock" THEN ClockTime(t) ELSE t.n

\* A timeout is what was written for it, as far as that is a time, or its default.
AsWritten(v) ==
    LET t == environ[v]
    IN  config.timeout[v] = IF t = Number(0) \/ t.is \in {"span", "clock"}
                            THEN Meaning(t) ELSE Fallback(v)

\* A running process has timeouts that are positive and as written, and a port and
\* a limit it can use.  (Clock texts beyond the range of durations are excepted: they
\* wrap, env.go:73, and one that wraps to a positive time passes Validate.)
RunsAsConfigured ==
    stage = "running" =>
        /\ config.port.n \in Ports /\ config.bodyLimit > 0
        /\ \A v \in Timeouts : /\ config.timeout[v] > 0
                               /\ InRange(environ[v]) => AsWritten(v)
        /\ Word("") \notin config.origins

\* "Faltando uma variavel obrigatoria, o processo falha com um erro claro"
\* (README.md:25-26): whatever runs has the topics of its events, which MessageType
\* is said to return (events.go:20-38).
EventsHaveTopics == \A e \in stored : e.type # Empty
=============================================================================
