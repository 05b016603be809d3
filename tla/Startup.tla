------------------------------- MODULE Startup --------------------------------
(***************************************************************************)
(* main: from the command line and the configuration file to a server that *)
(* listens, or to the exit code.  A configuration is a function from the   *)
(* settings to their values; a command line and a document give values to  *)
(* some of them.  Flags are the names "true" and "false".                  *)
(***************************************************************************)
EXTENDS Integers, Sequences, FiniteSets

CONSTANTS
  Given,     \* Bound: the settings that documents and command lines give
  MaxGiven,  \* Bound: how many of them one document or command line gives
  Numbers,   \* Bound: the numbers they write
  MaxPort,   \* the greatest uint16_t
  MaxCount,  \* the greatest uint32_t
  Wrap,      \* how many numbers 64 bits can hold
  DefaultHttp, DefaultHttps, DefaultUpstream,   \* the default ports
  Absent,    \* no value
  Malformed  \* a JSON value of another type than the reader expects

Ports == {"http_port", "https_port", "upstream_port"}
Counts == {"requests_per_second", "burst_size"}
Numeric == Ports \union Counts
Flags == {"allow_https_over_http_port", "ignore_certificate_verification", "enabled"}
Texts == {"certificate", "private_key", "host"}
Words == {"run_mode", "output", "level"}
Named == Flags \union Texts \union Words
Settings == Numeric \union Named

\* The sections in the order in which merge_json_config visits them.
Section ==
  << {"http_port", "https_port", "run_mode", "allow_https_over_http_port"},
     {"certificate", "private_key"},
     {"host", "upstream_port", "ignore_certificate_verification"},
     {"output", "level"},
     {"enabled", "requests_per_second", "burst_size"} >>

\* What a name may be: the words the readers know, and one they do not; an
\* empty text, the default and another one.
Names(s) ==
  CASE s \in Flags -> {"true", "false"}
    [] s \in Texts -> {"", "default", "other"}
    [] s = "run_mode" -> {"persist", "single-request", "unknown"}
    [] s = "output" -> {"console", "file", "unknown"}
    [] s = "level" -> {"info", "error", "off", "unknown"}

AllNames == UNION {Names(s) : s \in Named}

ASSUME StartupAssumption ==
  /\ Given \subseteq Settings
  /\ MaxGiven \in Nat
  /\ MaxPort \in Nat /\ MaxCount \in Nat /\ Wrap \in Nat
  /\ MaxCount >= 40
  /\ \A n \in Numbers : n \in Int /\ n < Wrap
  /\ {DefaultHttp, DefaultHttps, DefaultUpstream} \subseteq 1..MaxPort
  /\ DefaultHttp # DefaultHttps
  /\ Absent \notin Int \union AllNames
  /\ Malformed \notin Int \union AllNames \union {Absent}

VARIABLES
  stage,    \* where main is
  code,     \* what it returns
  args,     \* ParseResult: what the command line gives
  file,     \* the document
  section,  \* the section that merge_json_config visits next
  merged,   \* load_json_config's merged_config
  cfg       \* main's cfg

vars == <<stage, code, args, file, section, merged, cfg>>

Nothing == [s \in Given |-> Absent]

\* The member initialisers of Config.
Defaults ==
  [s \in Settings |->
     CASE s = "http_port" -> DefaultHttp
       [] s = "https_port" -> DefaultHttps
       [] s = "upstream_port" -> DefaultUpstream
       [] s = "requests_per_second" -> 20
       [] s = "burst_size" -> 40
       [] s \in Flags -> "false"
       [] s \in Texts -> "default"
       [] s = "run_mode" -> "persist"
       [] s = "output" -> "console"
       [] s = "level" -> "info"]

Init ==
  /\ stage = "parse"
  /\ code = 0
  /\ args = Nothing
  /\ file = Nothing
  /\ section = 1
  /\ merged = Defaults
  /\ cfg = Defaults

Exit(n) ==
  /\ stage' = "exited"
  /\ code' = n

------------------------------------------------------------------------------
\* What the two sources can give.

Limit(s) == IF s \in Ports THEN MaxPort ELSE MaxCount

\* A value of each setting in D, of its kind or of none.
DocumentsOver(D) ==
  {[s \in Given |-> IF s \notin D THEN Absent ELSE IF s \in Numeric THEN n[s] ELSE w[s]] :
     n \in [D \intersect Numeric -> Numbers \union {Malformed}],
     w \in {f \in [D \intersect Named -> AllNames \union {Malformed}] :
             \A s \in DOMAIN f : f[s] \in Names(s) \union {Malformed}}}

Documents == UNION {DocumentsOver(D) : D \in {E \in SUBSET Given : Cardinality(E) <= MaxGiven}}

\* cxxopts refuses a number that does not fit its type; a port may be 0.
Lines ==
  {a \in Documents : \A s \in Given :
     /\ a[s] # Malformed
     /\ s \in Numeric => a[s] = Absent \/ a[s] \in 0..Limit(s)}

------------------------------------------------------------------------------
\* The readers of the document.

\* value.get<std::int64_t>() of a number that nlohmann stores as uint64_t.
AsInt64(n) == IF n >= Wrap \div 2 THEN n - Wrap ELSE n

\* Mutant of Accepts: the readers of words do not throw at their end, and
\* return something that is no enumerator.
AcceptsUnknown(s, v) ==
  /\ v # Malformed
  /\ s \in Ports => AsInt64(v) \in 1..MaxPort
  /\ s \in Counts => v \in 0..MaxCount
  /\ s = "host" => v # ""

\* Mutant of Accepts: a port is cut to 16 bits before its range is tested.
AcceptsTruncated(s, v) ==
  /\ v # Malformed
  /\ s \in Ports => AsInt64(v) % (MaxPort + 1) \in 1..MaxPort
  /\ s \in Counts => v \in 0..MaxCount
  /\ s = "host" => v # ""
  /\ s \in Words => v # "unknown"

\* read_port, read_uint32, read_bool, read_string, read_run_mode,
\* read_log_output and read_log_level return and do not throw.
Accepts(s, v) ==
  /\ v # Malformed
  /\ s \in Ports => AsInt64(v) \in 1..MaxPort
  /\ s \in Counts => v \in 0..MaxCount
  /\ s = "host" => v # ""
  /\ s \in Words => v # "unknown"

\* What they return.
Read(s, v) == IF s \in Ports THEN AsInt64(v) % (MaxPort + 1) ELSE v

\* What an option sets: an unknown level turns logging off, an unknown output
\* or run mode changes nothing.
Argument(s, v, old) ==
  IF s \notin Words \/ v # "unknown" THEN v
  ELSE IF s = "level" THEN "off" ELSE old

------------------------------------------------------------------------------
\* The steps of main.

\* argc is 1 and the rest of process_arguments is skipped; parsing throws;
\* --help; or options are given, --config among them or not.
Parse ==
  /\ stage = "parse"
  /\ \/ stage' = "listen" /\ UNCHANGED <<code, args>>
     \/ \E n \in {0, 1} : Exit(n) /\ UNCHANGED args
     \/ \E a \in Lines : /\ args' = a
                         /\ stage' \in {"load", "override"}
                         /\ UNCHANGED code
  /\ UNCHANGED <<file, section, merged, cfg>>

\* load_from_stream and the checks of the root: the file cannot be read, is no
\* JSON, no object or has an unknown section, or there is a document.
Load ==
  /\ stage = "load"
  /\ \/ Exit(1) /\ UNCHANGED <<file, merged>>
     \/ \E d \in Documents : /\ file' = d
                             /\ merged' = cfg
                             /\ stage' = "merge"
                             /\ UNCHANGED code
  /\ UNCHANGED <<args, section, cfg>>

GivenIn(i) == {s \in Section[i] \intersect Given : file[s] # Absent}

\* Mutant of MergeSection: a value that cannot be read is skipped.
MergeWhatIsRead ==
  /\ stage = "merge"
  /\ section \in DOMAIN Section
  /\ merged' = [s \in Settings |->
                  IF s \in GivenIn(section) /\ Accepts(s, file[s])
                  THEN Read(s, file[s]) ELSE merged[s]]
  /\ section' = section + 1
  /\ UNCHANGED <<stage, code, args, file, cfg>>

\* merge_json_config, one section of it: it is no object, has an unknown
\* property or a value that a reader refuses, or it is merged.
MergeSection ==
  /\ stage = "merge"
  /\ section \in DOMAIN Section
  /\ \/ Exit(1) /\ UNCHANGED <<section, merged>>
     \/ /\ \A s \in GivenIn(section) : Accepts(s, file[s])
        /\ merged' = [s \in Settings |->
                        IF s \in GivenIn(section) THEN Read(s, file[s]) ELSE merged[s]]
        /\ section' = section + 1
        /\ UNCHANGED <<stage, code>>
  /\ UNCHANGED <<args, file, cfg>>

\* The end of load_json_config.
Commit ==
  /\ stage = "merge"
  /\ section \notin DOMAIN Section
  /\ cfg' = merged
  /\ stage' = "override"
  /\ UNCHANGED <<code, args, file, section, merged>>

\* Mutant of Override: the ports are compared before the options are merged.
OverrideComparesFirst ==
  /\ stage = "override"
  /\ cfg' = [s \in Settings |->
               IF s \in Given /\ args[s] # Absent THEN Argument(s, args[s], cfg[s]) ELSE cfg[s]]
  /\ IF cfg["http_port"] = cfg["https_port"] THEN Exit(1)
     ELSE stage' = "listen" /\ UNCHANGED code
  /\ UNCHANGED <<args, file, section, merged>>

\* merge_parsed_arguments and the comparison of the two ports.
Override ==
  /\ stage = "override"
  /\ cfg' = [s \in Settings |->
               IF s \in Given /\ args[s] # Absent THEN Argument(s, args[s], cfg[s]) ELSE cfg[s]]
  /\ IF cfg'["http_port"] = cfg'["https_port"] THEN Exit(1)
     ELSE stage' = "listen" /\ UNCHANGED code
  /\ UNCHANGED <<args, file, section, merged>>

\* init_logger and the acceptors: a directory, a file or a port cannot be had,
\* or Server::run serves.
Listen ==
  /\ stage = "listen"
  /\ \/ Exit(1)
     \/ stage' = "serving" /\ UNCHANGED code
  /\ UNCHANGED <<args, file, section, merged, cfg>>

\* Server::run returns.
Return ==
  /\ stage = "serving"
  /\ Exit(0)
  /\ UNCHANGED <<args, file, section, merged, cfg>>

Exited == stage = "exited" /\ UNCHANGED vars

Next ==
  Parse \/ Load \/ MergeSection \/ Commit \/ Override \/ Listen \/ Return \/ Exited

Spec == Init /\ [][Next]_vars

------------------------------------------------------------------------------
\* Properties.

Valued(s, v) ==
  /\ s \in Ports => v \in 0..MaxPort
  /\ s \in Counts => v \in 0..MaxCount
  /\ s \in Named => v \in Names(s)
  /\ s \in Words => v # "unknown"

\* An option may say any word.
Sayable(s, v) == Valued(s, v) \/ (s \in Words /\ v = "unknown")

TypeOK ==
  /\ stage \in {"parse", "load", "merge", "override", "listen", "serving", "exited"}
  /\ code \in {0, 1}
  /\ section \in 1..Len(Section) + 1
  /\ \A s \in Settings : Valued(s, cfg[s]) /\ Valued(s, merged[s])
  /\ \A s \in Given : args[s] = Absent \/ Sayable(s, args[s])

\* What the file asks for, or the default: the number as it is written there.
Written(s) == IF s \in Given /\ file[s] # Absent THEN file[s] ELSE Defaults[s]

\* The README: "Command line parameters override values specified in the JSON
\* configuration file", setting by setting, and no value is altered on the way
\* (app.h:89, config_json.cpp:101).  An option may say a word that is not
\* known: as an output or a run mode it overrides nothing (app.h:165, 174), as a
\* level it turns logging off, whatever the file says (app.h:159).
SettingsPrecedence ==
  stage = "serving" =>
    \A s \in Settings :
      cfg[s] = IF s \in Given /\ args[s] # Absent
               THEN Argument(s, args[s], Written(s)) ELSE Written(s)

\* The https listener exists only if the ports differ, wherever they come
\* from, the command line, the file or the defaults (app.h:91, server.cpp:186).
ServesOnDistinctPorts == stage = "serving" => cfg["http_port"] # cfg["https_port"]

\* A file with one bad value is refused as a whole, even if an option
\* overrides that value (config_json.cpp:313, app.h:86): a value of the wrong
\* type, a port or a count out of its range, however many bits it was written
\* with, an empty host, or a word that is not known.
BadFileNeverServes ==
  stage = "serving" =>
    \A s \in Given : file[s] # Absent =>
      /\ file[s] # Malformed
      /\ s \in Ports => file[s] \in 1..MaxPort
      /\ s \in Counts => file[s] \in 0..MaxCount
      /\ s = "host" => file[s] # ""
      /\ s \in Words => file[s] # "unknown"

------------------------------------------------------------------------------
\* What makes them inductive.

OfKind(s, v) ==
  \/ v \in {Absent, Malformed}
  \/ s \in Numeric /\ v \in Numbers
  \/ s \in Named /\ v \in Names(s)

Sources ==
  /\ \A s \in Given : args[s] = Absent \/ Sayable(s, args[s])
  /\ \A s \in Given : OfKind(s, file[s])

\* The sections before i have been read.
ReadBefore(i) == {s \in Given : \E j \in 1..(i - 1) : s \in Section[j]}

\* merged_config, section by section.
MergeInv ==
  \A s \in Settings :
    IF s \in ReadBefore(section) /\ file[s] # Absent
    THEN Accepts(s, file[s]) /\ merged[s] = file[s]
    ELSE merged[s] = Defaults[s]

\* Every source that has been merged, at every stage of main.
StageInv ==
  /\ stage = "parse" => args = Nothing
  /\ stage \in {"parse", "load"} => file = Nothing /\ section = 1
  /\ stage \in {"parse", "load", "merge"} => cfg = Defaults
  /\ stage = "merge" => MergeInv
  /\ stage = "override" => \A s \in Settings : cfg[s] = Written(s)
  /\ stage \in {"override", "listen", "serving"} =>
       \A s \in Given : file[s] # Absent => Accepts(s, file[s])
  /\ stage \in {"listen", "serving"} =>
       /\ cfg["http_port"] # cfg["https_port"]
       /\ \A s \in Settings :
            cfg[s] = IF s \in Given /\ args[s] # Absent
                     THEN Argument(s, args[s], Written(s)) ELSE Written(s)

IInv == TypeOK /\ Sources /\ StageInv

==============================================================================
