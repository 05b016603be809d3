----------------------------- MODULE StartupProofs ----------------------------
(***************************************************************************)
(* Proofs about Startup, for every set of given settings, every width of   *)
(* the numbers and every default port.                                     *)
(***************************************************************************)
EXTENDS Startup, TLAPS

\* Which setting is in which section.
LEMMA Sections ==
  /\ Len(Section) = 5
  /\ DOMAIN Section = 1..5
  /\ \A s \in Settings : \E i \in 1..5 : s \in Section[i]
  /\ \A i \in 1..5 : Section[i] \subseteq Settings
BY DEF Section, Settings, Numeric, Named, Ports, Counts, Flags, Texts, Words

\* The kinds of settings exclude one another.
LEMMA Kinds ==
  /\ Numeric \intersect Named = {} /\ Ports \intersect Counts = {}
  /\ Settings = Ports \union Counts \union Named
  /\ Words \subseteq Named /\ "host" \in Named
BY DEF Settings, Numeric, Named, Ports, Counts, Flags, Texts, Words

\* The defaults are values of their settings.
LEMMA DefaultsValued == ASSUME NEW s \in Settings PROVE Valued(s, Defaults[s])
<1>1. CASE s \in Ports
  <2>1. Defaults[s] \in {DefaultHttp, DefaultHttps, DefaultUpstream}
    BY <1>1 DEF Defaults, Ports, Flags, Texts
  <2>2. QED
    BY <1>1, <2>1, Kinds, StartupAssumption DEF Valued, Numeric
<1>2. CASE s \in Counts
  <2>1. Defaults[s] \in {20, 40}
    BY <1>2 DEF Defaults, Counts, Flags, Texts
  <2>2. QED
    BY <1>2, <2>1, Kinds, StartupAssumption DEF Valued, Numeric
<1>3. CASE s \in Named
  <2>1. Defaults[s] \in Names(s) /\ Defaults[s] # "unknown"
    BY <1>3, Kinds DEF Defaults, Names, Named, Ports, Counts, Flags, Texts, Words
  <2>2. QED
    BY <1>3, <2>1, Kinds DEF Valued, Numeric
<1>4. QED
  BY <1>1, <1>2, <1>3, Kinds

\* A number of the document that read_port accepts is the port it returns.
LEMMA ReadExact ==
  ASSUME NEW s \in Settings, NEW v, Accepts(s, v),
         OfKind(s, v), v # Absent
  PROVE  Read(s, v) = v /\ Valued(s, v)
<1>1. CASE s \in Ports
  <2>1. v \in Int /\ v < Wrap /\ AsInt64(v) \in 1..MaxPort
    BY <1>1, Kinds, StartupAssumption DEF Accepts, Numeric, OfKind
  <2>2. AsInt64(v) = v
    BY <2>1, StartupAssumption DEF AsInt64
  <2>3. v % (MaxPort + 1) = v
    BY <2>1, <2>2, StartupAssumption
  <2>4. QED
    BY <1>1, <2>1, <2>2, <2>3, Kinds DEF Read, Valued, Numeric
<1>2. CASE s \in Counts
  BY <1>2, Kinds DEF Read, Accepts, Valued, Numeric
<1>3. CASE s \in Named
  BY <1>3, Kinds DEF Read, Accepts, Valued, Numeric, OfKind
<1>4. QED
  BY <1>1, <1>2, <1>3, Kinds

\* What a document can hold.
LEMMA DocumentsOfKind ==
  ASSUME NEW d \in Documents, NEW s \in Given PROVE OfKind(s, d[s])
<1> DEFINE N(D) == [D \intersect Numeric -> Numbers \union {Malformed}]
           W(D) == {f \in [D \intersect Named -> AllNames \union {Malformed}] :
                      \A t \in DOMAIN f : f[t] \in Names(t) \union {Malformed}}
           V(D, n, w) ==
             [t \in Given |-> IF t \notin D THEN Absent ELSE IF t \in Numeric THEN n[t] ELSE w[t]]
<1>0. PICK D \in SUBSET Given : d \in DocumentsOver(D)
  BY DEF Documents
<1>1. PICK n \in N(D), w \in W(D) : d = V(D, n, w)
  BY <1>0 DEF DocumentsOver
<1>2. CASE s \notin D
  BY <1>1, <1>2 DEF OfKind
<1>3. CASE s \in D /\ s \in Numeric
  BY <1>1, <1>3 DEF OfKind
<1>4. CASE s \in D /\ s \in Named /\ s \notin Numeric
  <2>1. w \in W(D) /\ s \in D \intersect Named
    BY <1>1, <1>4
  <2>2. w[s] \in Names(s) \union {Malformed}
    BY <2>1
  <2>3. d[s] = w[s]
    BY <1>1, <1>4
  <2>4. QED
    BY <1>4, <2>2, <2>3 DEF OfKind
<1>5. QED
  BY <1>2, <1>3, <1>4, StartupAssumption DEF Settings

\* What the command line can give.
LEMMA LinesValued ==
  ASSUME NEW a \in Lines, NEW s \in Given PROVE a[s] = Absent \/ Sayable(s, a[s])
<1>1. OfKind(s, a[s]) /\ a[s] # Malformed
  BY DocumentsOfKind DEF Lines
<1>2. s \in Numeric => a[s] = Absent \/ a[s] \in 0..Limit(s)
  BY DEF Lines
<1>3. QED
  BY <1>1, <1>2, Kinds DEF OfKind, Sayable, Valued, Limit, Numeric

\* main starts with the defaults, and no source has been read.
LEMMA InitIInv == Init => IInv
<1> SUFFICES ASSUME Init PROVE IInv
  OBVIOUS
<1>1. TypeOK
  BY Sections, DefaultsValued DEF Init, TypeOK, Nothing
<1>2. Sources
  BY DEF Init, Sources, Nothing, OfKind
<1>3. StageInv
  BY DEF Init, StageInv
<1>4. QED
  BY <1>1, <1>2, <1>3 DEF IInv

\* The defaults do not share a port.
LEMMA DefaultPortsDiffer ==
  Defaults["http_port"] # Defaults["https_port"]
BY StartupAssumption DEF Defaults, Settings, Numeric, Ports, Flags, Texts

\* An option sets its setting to a value of that setting.
LEMMA ArgumentValued ==
  ASSUME NEW s \in Settings, NEW v, NEW old, Sayable(s, v), Valued(s, old)
  PROVE  Valued(s, Argument(s, v, old))
<1>1. CASE s \notin Words \/ v # "unknown"
  BY <1>1 DEF Argument, Sayable
<1>2. CASE s \in Words /\ v = "unknown" /\ s = "level"
  <2>1. Argument(s, v, old) \in Names(s) /\ Argument(s, v, old) # "unknown"
    BY <1>2 DEF Argument, Names, Flags, Texts
  <2>2. QED
    BY <1>2, <2>1, Kinds DEF Valued, Numeric
<1>3. CASE s \in Words /\ v = "unknown" /\ s # "level"
  BY <1>3 DEF Argument
<1>4. QED
  BY <1>1, <1>2, <1>3

\* A section is merged: what is read of it is what it says, and the settings
\* of the sections before it stay as they are.
LEMMA SectionMerged ==
  ASSUME IInv, MergeSection, stage' = stage
  PROVE  MergeInv' /\ \A s \in Settings : Valued(s, merged'[s])
<1> DEFINE here == GivenIn(section)
<1>1. /\ \A s \in here : Accepts(s, file[s])
      /\ merged' = [s \in Settings |-> IF s \in here THEN Read(s, file[s]) ELSE merged[s]]
      /\ section' = section + 1 /\ file' = file /\ section \in 1..5
      /\ MergeInv
  BY Sections DEF MergeSection, Exit, IInv, StageInv
<1>2. ASSUME NEW s \in here
      PROVE  /\ s \in Given /\ s \in Settings /\ file[s] # Absent
             /\ Read(s, file[s]) = file[s] /\ Valued(s, file[s])
  <2>1. s \in Given /\ s \in Settings /\ file[s] # Absent /\ s \in Section[section]
    BY StartupAssumption DEF GivenIn
  <2>2. QED
    BY <1>1, <2>1, ReadExact DEF IInv, Sources
<1>3. ReadBefore(section)' = ReadBefore(section) \union {s \in Given : s \in Section[section]}
  <2>1. \A j \in 1..((section + 1) - 1) : j \in 1..(section - 1) \/ j = section
    BY <1>1
  <2>2. \A j \in 1..(section - 1) : j \in 1..((section + 1) - 1)
    BY <1>1
  <2>3. section \in 1..((section + 1) - 1)
    BY <1>1
  <2>4. QED
    BY <1>1, <2>1, <2>2, <2>3 DEF ReadBefore
<1>4. ASSUME NEW s \in Settings
      PROVE  /\ IF s \in ReadBefore(section)' /\ file[s] # Absent
                THEN Accepts(s, file[s]) /\ merged'[s] = file[s]
                ELSE merged'[s] = Defaults[s]
             /\ Valued(s, merged'[s])
  <2>1. CASE s \in here
    BY <1>1, <1>2, <1>3, <2>1 DEF GivenIn
  <2>2. CASE s \notin here
    <3>1. merged'[s] = merged[s] /\ Valued(s, merged[s])
      BY <1>1, <2>2 DEF IInv, TypeOK
    <3>2. file[s] # Absent => (s \in ReadBefore(section)' <=> s \in ReadBefore(section))
      BY <1>3, <2>2 DEF GivenIn
    <3>3. QED
      BY <1>1, <3>1, <3>2 DEF MergeInv
  <2>3. QED
    BY <2>1, <2>2
<1>5. QED
  BY <1>1, <1>4 DEF MergeInv

\* All sections have been read, so every setting the document gives is merged.
LEMMA AllRead ==
  ASSUME section \in 1..6, section \notin DOMAIN Section
  PROVE  ReadBefore(section) = Given
<1>1. section = 6
  BY Sections
<1>2. QED
  BY <1>1, Sections, StartupAssumption DEF ReadBefore

\* Every step preserves the inductive invariant.
LEMMA NextIInv == IInv /\ [Next]_vars => IInv'
<1> SUFFICES ASSUME IInv, [Next]_vars PROVE IInv'
  OBVIOUS
<1> USE DEF IInv, TypeOK, Sources, StageInv
<1>1. CASE Parse
  <2>1. \A s \in Given : args'[s] = Absent \/ Sayable(s, args'[s])
    BY <1>1, LinesValued DEF Parse, Exit
  <2>2. CASE stage' = "listen"
    <3>1. /\ args' = Nothing /\ file' = Nothing /\ cfg' = Defaults /\ code' \in {0, 1}
          /\ section' = section /\ merged' = merged
      BY <1>1, <2>2 DEF Parse, Exit
    <3>2. StageInv'
      BY <2>2, <3>1, DefaultPortsDiffer DEF Nothing, Written
    <3>3. file = Nothing
      BY <1>1 DEF Parse
    <3>4. Sources'
      BY <2>1, <3>1, <3>3
    <3>5. QED
      BY <2>2, <3>1, <3>2, <3>4, DefaultsValued
  <2>3. CASE stage' \in {"load", "override", "exited"}
    BY <1>1, <2>1, <2>3 DEF Parse, Exit, Nothing, Written
  <2>4. QED
    BY <1>1, <2>2, <2>3 DEF Parse, Exit
<1>2. CASE Load
  <2>1. \A s \in Given : OfKind(s, file'[s])
    BY <1>2, DocumentsOfKind DEF Load, Exit
  <2>2. CASE stage' = "merge"
    <3>1. /\ section = 1 /\ section' = 1 /\ merged' = Defaults /\ cfg' = Defaults
          /\ args' = args /\ code' = code
      BY <1>2, <2>2 DEF Load, Exit
    <3>2. ReadBefore(section)' = {}
      BY <3>1 DEF ReadBefore
    <3>3. MergeInv'
      BY <3>1, <3>2 DEF MergeInv
    <3>4. QED
      BY <2>1, <2>2, <3>1, <3>3, DefaultsValued
  <2>3. CASE stage' = "exited"
    BY <1>2, <2>1, <2>3 DEF Load, Exit
  <2>4. QED
    BY <1>2, <2>2, <2>3 DEF Load, Exit
<1>3. CASE MergeSection
  <2>1. CASE stage' = "exited"
    BY <1>3, <2>1 DEF MergeSection, Exit
  <2>2. CASE stage' = stage
    <3>1. MergeInv' /\ \A s \in Settings : Valued(s, merged'[s])
      BY <1>3, <2>2, SectionMerged
    <3>2. /\ stage = "merge" /\ section \in 1..5 /\ section' = section + 1
          /\ UNCHANGED <<args, file, cfg, code>>
      BY <1>3, <2>2, Sections DEF MergeSection, Exit
    <3>3. QED
      BY <2>2, <3>1, <3>2, Sections
  <2>3. QED
    BY <1>3, <2>1, <2>2 DEF MergeSection, Exit
<1>4. CASE Commit
  <2>1. /\ stage = "merge" /\ stage' = "override" /\ cfg' = merged
        /\ UNCHANGED <<code, args, file, section, merged>>
        /\ ReadBefore(section) = Given /\ MergeInv
    BY <1>4, AllRead, Sections DEF Commit
  <2>2. \A s \in Given : file[s] # Absent => Accepts(s, file[s])
    BY <2>1, StartupAssumption DEF MergeInv
  <2>3. \A s \in Settings : merged[s] = Written(s)
    BY <2>1 DEF MergeInv, Written
  <2>4. QED
    BY <2>1, <2>2, <2>3 DEF Written
<1>5. CASE Override
  <2>1. \A s \in Settings :
          /\ cfg'[s] = IF s \in Given /\ args[s] # Absent
                       THEN Argument(s, args[s], Written(s)) ELSE Written(s)
          /\ Valued(s, cfg'[s])
    BY <1>5, ArgumentValued DEF Override
  <2>2. /\ stage = "override" /\ UNCHANGED <<args, file, section, merged>>
        /\ \/ stage' = "exited" /\ code' = 1
           \/ /\ stage' = "listen" /\ code' = code
              /\ cfg'["http_port"] # cfg'["https_port"]
    BY <1>5 DEF Override, Exit
  <2>3. QED
    BY <2>1, <2>2 DEF Written
<1>6. CASE Listen
  BY <1>6 DEF Listen, Exit, Written
<1>7. CASE Return
  BY <1>7 DEF Return, Exit
<1>8. CASE UNCHANGED vars
  BY <1>8 DEF vars, MergeInv, ReadBefore, Written
<1>9. QED
  BY <1>1, <1>2, <1>3, <1>4, <1>5, <1>6, <1>7, <1>8 DEF Next, Exited

\* The inductive invariant holds in every reachable state.
LEMMA Invariance == Spec => []IInv
  BY InitIInv, NextIInv, PTL DEF Spec

\* Every setting keeps the type of its member of Config (config.h:15-51).
THEOREM TypeCorrect == Spec => []TypeOK
<1>1. IInv => TypeOK
  BY DEF IInv
<1>2. QED
  BY <1>1, Invariance, PTL

\* The configuration that is served is the command line's, where it says
\* nothing the file's, where that says nothing the default (app.h:89,
\* config_json.cpp:101), for every width of the file's numbers.
THEOREM PrecedenceHolds == Spec => []SettingsPrecedence
<1>1. IInv => SettingsPrecedence
  BY DEF IInv, StageInv, SettingsPrecedence
<1>2. QED
  BY <1>1, Invariance, PTL

\* No server is run whose two listeners share a port (app.h:91).
THEOREM DistinctPorts == Spec => []ServesOnDistinctPorts
<1>1. IInv => ServesOnDistinctPorts
  BY DEF IInv, StageInv, ServesOnDistinctPorts
<1>2. QED
  BY <1>1, Invariance, PTL

\* A document with a value that cannot be read, of whatever kind, is never
\* served, not even in part (config_json.cpp:115, 146, 313).
THEOREM BadFileRefused == Spec => []BadFileNeverServes
<1>1. IInv => BadFileNeverServes
  <2> SUFFICES ASSUME IInv, stage = "serving",
                      NEW s \in Given, file[s] # Absent
               PROVE  /\ Accepts(s, file[s])
                      /\ s \in Ports => file[s] \in 1..MaxPort
    BY DEF BadFileNeverServes, Accepts
  <2>1. Accepts(s, file[s]) /\ OfKind(s, file[s]) /\ s \in Settings
    BY StartupAssumption DEF IInv, StageInv, Sources
  <2>2. ASSUME s \in Ports PROVE file[s] \in 1..MaxPort
    <3>1. file[s] \in Int /\ file[s] < Wrap /\ AsInt64(file[s]) \in 1..MaxPort
      BY <2>1, <2>2, Kinds, StartupAssumption DEF Accepts, OfKind, Numeric
    <3>2. QED
      BY <3>1, StartupAssumption DEF AsInt64
  <2>3. QED
    BY <2>1, <2>2
<1>2. QED
  BY <1>1, Invariance, PTL

==============================================================================
