--------------------------- MODULE Lifecycle_proofs ---------------------------
(***************************************************************************)
(* Safety of Lifecycle for any settings, values, flows and bounds.         *)
(***************************************************************************)
EXTENDS Lifecycle, TLAPS

USE SettingsAssumption, BoundsAssumption

-----------------------------------------------------------------------------
(***************************************************************************)
(* hass.data as a dictionary                                               *)
(***************************************************************************)

Entries     == [key : 1..MaxEntries, inst : Instances]
Elements(d) == {d[i] : i \in DOMAIN d}
Unique(d)   == \A i, j \in DOMAIN d : d[i].key = d[j].key => i = j
Others(d, key) == {e \in Elements(d) : e.key # key}

LEMMA AppendEntry ==
    ASSUME NEW d \in Seq(Entries), Unique(d), NEW key \in 1..MaxEntries, NEW inst \in Instances,
           At(d, key) = {}
    PROVE  LET e == [key |-> key, inst |-> inst]
           IN  /\ Append(d, e) \in Seq(Entries) /\ Unique(Append(d, e))
               /\ Elements(Append(d, e)) = Others(d, key) \cup {e}
<1> DEFINE e == [key |-> key, inst |-> inst]
           a == Append(d, e)
<1>1. e \in Entries /\ e.key = key
  BY DEF Entries
<1> HIDE DEF e
<1>2. /\ a \in Seq(Entries) /\ Len(d) \in Nat /\ DOMAIN d = 1..Len(d)
      /\ DOMAIN a = 1..(Len(d) + 1)
      /\ \A i \in 1..Len(d) : a[i] = d[i]
      /\ a[Len(d) + 1] = e
  BY <1>1
<1>3. \A i \in DOMAIN d : d[i].key # key
  BY DEF At
<1>4. \A i \in DOMAIN a : i \in DOMAIN d \/ i = Len(d) + 1
  BY <1>2
<1>5. Unique(a)
  BY <1>1, <1>2, <1>3, <1>4 DEF Unique
<1>6. DOMAIN d \subseteq DOMAIN a /\ Len(d) + 1 \in DOMAIN a
  BY <1>2
<1> HIDE DEF a
<1>7. Elements(a) = Others(d, key) \cup {e}
  BY <1>2, <1>3, <1>4, <1>6 DEF Elements, Others
<1> QED
  BY <1>2, <1>5, <1>7 DEF a, e

LEMMA PutEntry ==
    ASSUME NEW d \in Seq(Entries), Unique(d), NEW key \in 1..MaxEntries, NEW inst \in Instances
    PROVE  /\ Put(d, key, inst) \in Seq(Entries) /\ Unique(Put(d, key, inst))
           /\ Elements(Put(d, key, inst)) = Others(d, key) \cup {[key |-> key, inst |-> inst]}
<1> DEFINE e == [key |-> key, inst |-> inst]
           p == [i \in DOMAIN d |-> IF d[i].key = key THEN e ELSE d[i]]
<1>1. CASE At(d, key) = {}
  BY <1>1, AppendEntry DEF Put
<1>2. CASE At(d, key) # {}
  <2>1. PICK k \in DOMAIN d : d[k].key = key
    BY <1>2 DEF At
  <2>2. e \in Entries /\ e.key = key
    BY DEF Entries
  <2> HIDE DEF e
  <2>3. Put(d, key, inst) = p
    BY <1>2 DEF Put, e
  <2>8. \A i \in DOMAIN d : d[i] \in Entries
    OBVIOUS
  <2>4. /\ DOMAIN p = DOMAIN d
        /\ \A i \in DOMAIN d : p[i] = IF d[i].key = key THEN e ELSE d[i]
    OBVIOUS
  <2>5. p \in Seq(Entries)
    <3>1. Len(d) \in Nat /\ DOMAIN d = 1..Len(d)
      OBVIOUS
    <3>2. p \in [1..Len(d) -> Entries]
      BY <2>2, <2>8, <3>1
    <3> QED
      BY <3>1, <3>2
  <2> HIDE DEF p
  <2>6. Unique(p)
    BY <2>2, <2>4 DEF Unique
  <2>7. Elements(p) = Others(d, key) \cup {e}
    <3>1. p[k] = e
      BY <2>1, <2>4
    <3> QED
      BY <2>1, <2>2, <2>4, <3>1 DEF Elements, Others
  <2> QED
    BY <2>3, <2>5, <2>6, <2>7 DEF e
<1> QED
  BY <1>1, <1>2

LEMMA RemoveEntry ==
    ASSUME NEW d \in Seq(Entries), NEW k \in DOMAIN d
    PROVE  LET a == RemoveAt(d, k)
           IN  /\ a \in Seq(Entries) /\ Len(d) \in Nat /\ DOMAIN d = 1..Len(d)
               /\ DOMAIN a = 1..(Len(d) - 1)
               /\ \A j \in 1..(Len(d) - 1) : a[j] = IF j < k THEN d[j] ELSE d[j + 1]
<1> DEFINE a == SubSeq(d, 1, k - 1)
           b == SubSeq(d, k + 1, Len(d))
<1>1. /\ Len(d) \in Nat /\ k \in 1..Len(d) /\ DOMAIN d = 1..Len(d)
      /\ a \in Seq(Entries) /\ b \in Seq(Entries)
  OBVIOUS
<1>2. Len(a) = k - 1 /\ \A j \in 1..(k - 1) : a[j] = d[j]
  BY <1>1
<1>3. Len(b) = Len(d) - k /\ \A j \in 1..(Len(d) - k) : b[j] = d[k + j]
  BY <1>1
<1> HIDE DEF a, b
<1>4. /\ a \o b \in Seq(Entries) /\ DOMAIN (a \o b) = 1..(Len(a) + Len(b))
      /\ \A j \in 1..(Len(a) + Len(b)) : (a \o b)[j] = IF j <= Len(a) THEN a[j] ELSE b[j - Len(a)]
  BY <1>1
<1>5. Len(a) + Len(b) = Len(d) - 1
  BY <1>1, <1>2, <1>3
<1>6. ASSUME NEW j \in 1..(Len(d) - 1)
      PROVE  (a \o b)[j] = IF j < k THEN d[j] ELSE d[j + 1]
  <2>1. CASE j < k
    <3>1. j <= Len(a) /\ j \in 1..(k - 1)
      BY <1>1, <1>2, <2>1
    <3> QED
      BY <1>2, <1>4, <1>5, <2>1, <3>1
  <2>2. CASE ~(j < k)
    <3>1. ~(j <= Len(a)) /\ j - Len(a) \in 1..(Len(d) - k) /\ k + (j - Len(a)) = j + 1
      BY <1>1, <1>2, <2>2
    <3> QED
      BY <1>3, <1>4, <1>5, <2>2, <3>1
  <2> QED
    BY <2>1, <2>2
<1>7. RemoveAt(d, k) = a \o b
  BY DEF RemoveAt, a, b
<1> QED
  BY <1>1, <1>4, <1>5, <1>6, <1>7

LEMMA PopEntry ==
    ASSUME NEW d \in Seq(Entries), Unique(d), NEW key
    PROVE  /\ Pop(d, key) \in Seq(Entries) /\ Unique(Pop(d, key))
           /\ Elements(Pop(d, key)) = Others(d, key)
<1>1. CASE At(d, key) = {}
  BY <1>1 DEF Pop, At, Elements, Others
<1>2. CASE At(d, key) # {}
  <2>1. PICK k \in At(d, key) : Pop(d, key) = RemoveAt(d, k)
    BY <1>2 DEF Pop
  <2>2. k \in DOMAIN d /\ d[k].key = key
    BY <2>1 DEF At
  <2> DEFINE a == RemoveAt(d, k)
  <2>3. /\ a \in Seq(Entries) /\ Len(d) \in Nat /\ DOMAIN d = 1..Len(d)
        /\ DOMAIN a = 1..(Len(d) - 1)
        /\ \A j \in 1..(Len(d) - 1) : a[j] = IF j < k THEN d[j] ELSE d[j + 1]
    BY <2>2, RemoveEntry
  <2> HIDE DEF a
  <2> DEFINE from(j) == IF j < k THEN j ELSE j + 1
  <2>4. \A j \in DOMAIN a : from(j) \in DOMAIN d /\ from(j) # k /\ a[j] = d[from(j)]
    BY <2>2, <2>3
  <2>5. \A i, j \in DOMAIN a : from(i) = from(j) => i = j
    BY <2>2, <2>3
  <2>6. \A i \in DOMAIN d : i # k => \E j \in DOMAIN a : from(j) = i
    <3>1. ASSUME NEW i \in DOMAIN d, i # k PROVE \E j \in DOMAIN a : from(j) = i
      <4>1. CASE i < k
        BY <2>2, <2>3, <3>1, <4>1
      <4>2. CASE ~(i < k)
        <5>1. i - 1 \in DOMAIN a /\ from(i - 1) = i
          BY <2>2, <2>3, <3>1, <4>2
        <5> QED
          BY <5>1
      <4> QED
        BY <4>1, <4>2
    <3> QED
      BY <3>1
  <2> HIDE DEF from
  <2>7. Unique(a)
    BY <2>4, <2>5 DEF Unique
  <2>8. \A i \in DOMAIN d : i # k => d[i].key # key
    BY <2>2 DEF Unique
  <2>9. Elements(a) = Others(d, key)
    <3>1. ASSUME NEW e \in Elements(a) PROVE e \in Others(d, key)
      BY <2>4, <2>8 DEF Elements, Others
    <3>2. ASSUME NEW e \in Others(d, key) PROVE e \in Elements(a)
      <4>1. PICK i \in DOMAIN d : e = d[i] /\ i # k
        BY <2>2 DEF Elements, Others
      <4>2. PICK j \in DOMAIN a : from(j) = i
        BY <2>6, <4>1
      <4> QED
        BY <2>4, <4>1, <4>2 DEF Elements
    <3> QED
      BY <3>1, <3>2
  <2> QED
    BY <2>1, <2>3, <2>7, <2>9 DEF a
<1> QED
  BY <1>1, <1>2

-----------------------------------------------------------------------------
(***************************************************************************)
(* Types, and what each state of the entry means                           *)
(***************************************************************************)

\* TypeOK in two parts.
DictOK == domain \in Seq(Entries) /\ Unique(domain)
RestOK ==
    /\ id \in 0..MaxEntries
    /\ devices \in SUBSET Ids /\ wanted \in SUBSET Ids /\ added \in 0..MaxAdded
    /\ setup_data \in Settings /\ options \in Settings /\ asked \in Settings
    /\ state \in States /\ phase \in Phases
    /\ removing \in BOOLEAN /\ listener \in BOOLEAN /\ services \in BOOLEAN
    /\ missed \in BOOLEAN
    /\ reloads \in 0..MaxReloads
    /\ made \in 0..MaxInstances
    /\ config \in Settings
    /\ watch \in SUBSET Instances /\ stranded \in SUBSET Instances
    /\ sensors \in [of : 0..MaxInstances, devices : SUBSET Ids]
    /\ switches \in [of : 0..MaxInstances, devices : SUBSET Ids]
    /\ flows \in [Flows -> SUBSET Ids]

LEMMA TypeParts == TypeOK <=> DictOK /\ RestOK
BY DEF TypeOK, DictOK, RestOK, Entries, Unique

LEMMA Nothing ==
    /\ NoSettings \in Settings
    /\ NoEntities \in [of : 0..MaxInstances, devices : SUBSET Ids]
BY DEF NoSettings, Settings, NoEntities

\* What the phase says of the entry, and what a setup starts from.
PhaseOK ==
    /\ id = 0 => state = "none"
    /\ phase \in {"starting", "platforms"} => state = "not_loaded"
    /\ phase = "unloading" => state = "loaded"
    /\ state = "not_loaded" => phase \in {"starting", "platforms"}
    /\ state \in {"not_loaded", "loaded"} => id # 0
    /\ phase = "platforms" \/ state = "loaded" => made # 0

LEMMA DictStep == ASSUME DictOK, RestOK, PhaseOK, [Next]_vars PROVE DictOK'
<1>1. CASE BeginSetup
  <2>1. id \in 1..MaxEntries /\ made' \in Instances
    BY <1>1 DEF BeginSetup, RestOK, PhaseOK, Instances
  <2> QED
    BY <1>1, <2>1, PutEntry DEF BeginSetup, DictOK
<1>2. CASE PlatformsUnloaded
  BY <1>2, PopEntry DEF PlatformsUnloaded, PopInstance, DictOK
<1>3. CASE Restart
  BY <1>3 DEF Restart, DictOK, Unique
<1>4. CASE UNCHANGED domain
  BY <1>4 DEF DictOK
<1> QED
  BY <1>1, <1>2, <1>3, <1>4
     DEF Next, CreateEntry, SetupSensors, SetupSwitches, FinishSetup, SetupRaises, AskReload,
         BeginReload, BeginRemove, UnloadRefused, ConfigureDevice, SubmitSettings,
         ShowRemoveForm, RemoveDevice, Edited, vars, instance

LEMMA RestStep == ASSUME RestOK, PhaseOK, [Next]_vars PROVE RestOK'
<1> USE Nothing DEF Ids, Instances, States, Phases
<1>1. CASE CreateEntry
  <2>1. id' \in 0..MaxEntries /\ setup_data' \in Settings
    BY <1>1 DEF CreateEntry, Unused, RestOK
  <2> QED
    BY <1>1, <2>1 DEF CreateEntry, RestOK, instance, entities
<1>2. CASE BeginSetup
  <2>1. made' \in Instances
    BY <1>2 DEF BeginSetup, RestOK
  <2>2. config' \in Settings
    BY <1>2 DEF BeginSetup, RestOK, Settings, Effective
  <2>3. watch' \in SUBSET Instances
    BY <1>2, <2>1 DEF BeginSetup, RestOK
  <2>4. made' \in 0..MaxInstances
    BY <2>1
  <2> QED
    BY <1>2, <2>2, <2>3, <2>4 DEF BeginSetup, RestOK, entry, entities
<1>3. CASE SetupSensors
  BY <1>3 DEF SetupSensors, RestOK, entry, instance
<1>4. CASE SetupSwitches
  BY <1>4 DEF SetupSwitches, RestOK, entry, instance
<1>5. CASE FinishSetup
  BY <1>5 DEF FinishSetup, RestOK, RegisterServices, AddListener, entry, entities
<1>6. CASE SetupRaises
  BY <1>6 DEF SetupRaises, RestOK, PhaseOK, entry, entities
<1>7. CASE AskReload
  BY <1>7 DEF AskReload, RestOK, entry, instance, entities
<1>8. CASE BeginReload
  BY <1>8 DEF BeginReload, RestOK, entry, instance, entities
<1>9. ASSUME Gone, UNCHANGED <<made, config, missed>>,
             watch' \in SUBSET Instances, stranded' \in SUBSET Instances, services' \in BOOLEAN
      PROVE  RestOK'
  <2>1. flows' \in [Flows -> SUBSET Ids]
    BY <1>9 DEF Gone
  <2>2. id' \in 0..MaxEntries /\ reloads' \in 0..MaxReloads
    BY <1>9 DEF Gone
  <2>3. sensors' \in [of : 0..MaxInstances, devices : SUBSET Ids]
    BY <1>9 DEF Gone
  <2>4. switches' \in [of : 0..MaxInstances, devices : SUBSET Ids]
    BY <1>9 DEF Gone
  <2>5. setup_data' \in Settings /\ options' \in Settings /\ asked' \in Settings
    BY <1>9 DEF Gone
  <2>6. /\ devices' \in SUBSET Ids /\ wanted' \in SUBSET Ids
        /\ state' \in States /\ phase' \in Phases /\ removing' \in BOOLEAN
        /\ listener' \in BOOLEAN
    BY <1>9 DEF Gone
  <2>7. /\ added' \in 0..MaxAdded /\ missed' \in BOOLEAN
        /\ made' \in 0..MaxInstances /\ config' \in Settings
    BY <1>9 DEF Gone, RestOK
  <2> QED
    BY <1>9, <2>1, <2>2, <2>3, <2>4, <2>5, <2>6, <2>7 DEF RestOK
<1>10. CASE BeginRemove
  <2>1. CASE Gone
    BY <1>9, <1>10, <2>1 DEF BeginRemove, instance, RestOK
  <2>2. CASE ~Gone
    BY <1>10, <2>2 DEF BeginRemove, RestOK, entry, instance, entities
  <2> QED
    BY <2>1, <2>2
<1>11. CASE PlatformsUnloaded
  <2>1. watch' \in SUBSET Instances
    BY <1>11 DEF PlatformsUnloaded, StopWatchdog, RestOK
  <2>2. services' \in BOOLEAN
    BY <1>11 DEF PlatformsUnloaded, UnregisterServices
  <2>3. CASE removing
    BY <1>9, <1>11, <2>1, <2>2, <2>3 DEF PlatformsUnloaded, RestOK
  <2>4. CASE ~removing
    BY <1>11, <2>1, <2>2, <2>4 DEF PlatformsUnloaded, RestOK, entry
  <2> QED
    BY <2>3, <2>4
<1>12. CASE UnloadRefused
  <2>1. stranded' \in SUBSET Instances
    BY <1>12 DEF UnloadRefused, RestOK, PhaseOK
  <2>2. CASE removing
    BY <1>9, <1>12, <2>1, <2>2 DEF UnloadRefused, RestOK
  <2>3. CASE ~removing
    BY <1>12, <2>1, <2>3 DEF UnloadRefused, RestOK, entry, entities
  <2> QED
    BY <2>2, <2>3
<1>13. CASE Restart
  <2>1. flows' \in [Flows -> SUBSET Ids]
    BY <1>13 DEF Restart
  <2>2. /\ sensors' \in [of : 0..MaxInstances, devices : SUBSET Ids]
        /\ switches' \in [of : 0..MaxInstances, devices : SUBSET Ids]
    BY <1>13 DEF Restart
  <2>3. state' \in States /\ phase' \in Phases /\ reloads' \in 0..MaxReloads
    BY <1>13 DEF Restart
  <2>5. /\ removing' \in BOOLEAN /\ listener' \in BOOLEAN /\ services' \in BOOLEAN
        /\ missed' \in BOOLEAN
    BY <1>13 DEF Restart
  <2>6. watch' \in SUBSET Instances /\ stranded' \in SUBSET Instances
    BY <1>13, Zenon DEF Restart
  <2>7. UNCHANGED <<entry, made, config>>
    BY <1>13 DEF Restart
  <2> QED
    BY <2>1, <2>2, <2>3, <2>5, <2>6, <2>7 DEF RestOK, entry
<1>14. ASSUME Edited, devices' \in SUBSET Ids, wanted' \in SUBSET Ids, added' \in 0..MaxAdded,
              options' \in Settings, asked' \in Settings, flows' \in [Flows -> SUBSET Ids]
       PROVE  RestOK'
  BY <1>14 DEF Edited, RestOK, instance, entities
<1>15. CASE ConfigureDevice
  BY <1>14, <1>15 DEF ConfigureDevice, RestOK
<1>16. CASE SubmitSettings
  BY <1>14, <1>16 DEF SubmitSettings, ReplaceOptions, RestOK
<1>17. ASSUME NEW f \in Flows, ShowRemoveForm(f) PROVE RestOK'
  BY <1>17 DEF ShowRemoveForm, RestOK, entry, instance, entities
<1>18. ASSUME NEW f \in Flows, RemoveDevice(f) PROVE RestOK'
  BY <1>14, <1>18 DEF RemoveDevice, StoreRemaining, RestOK
<1>19. CASE UNCHANGED vars
  BY <1>19 DEF vars, entry, instance, entities, RestOK
<1> QED
  BY <1>1, <1>2, <1>3, <1>4, <1>5, <1>6, <1>7, <1>8, <1>10, <1>11, <1>12, <1>13, <1>15,
     <1>16, <1>17, <1>18, <1>19 DEF Next

LEMMA PhaseStep == ASSUME RestOK, PhaseOK, [Next]_vars PROVE PhaseOK'
<1>1. CASE CreateEntry \/ BeginSetup \/ SetupSensors \/ SetupSwitches
  BY <1>1 DEF CreateEntry, Unused, BeginSetup, SetupSensors, SetupSwitches, PhaseOK, RestOK,
             entry, instance
<1>2. CASE FinishSetup \/ SetupRaises \/ AskReload \/ BeginReload \/ Restart
  BY <1>2 DEF FinishSetup, SetupRaises, AskReload, BeginReload, Restart, PhaseOK, RestOK, States,
             entry, instance
<1>3. CASE BeginRemove \/ PlatformsUnloaded \/ UnloadRefused
  BY <1>3 DEF BeginRemove, PlatformsUnloaded, UnloadRefused, Gone, PhaseOK, RestOK, States,
             Phases, entry, instance
<1>4. CASE UNCHANGED <<id, state, phase, made>>
  BY <1>4 DEF PhaseOK
<1>5. CASE ConfigureDevice \/ SubmitSettings \/ \E f \in Flows : RemoveDevice(f)
  BY <1>4, <1>5 DEF ConfigureDevice, SubmitSettings, RemoveDevice, Edited, instance
<1>6. CASE \/ \E f \in Flows : ShowRemoveForm(f)
           \/ UNCHANGED vars
  BY <1>4, <1>6 DEF ShowRemoveForm, vars, entry, instance
<1> QED
  BY <1>1, <1>2, <1>3, <1>5, <1>6 DEF Next

Known == DictOK /\ RestOK /\ PhaseOK

LEMMA KnownInit == Init => Known
<1> SUFFICES ASSUME Init PROVE Known
  OBVIOUS
<1>1. DictOK /\ PhaseOK
  BY DEF Init, DictOK, PhaseOK, Unique
<1>2. flows \in [Flows -> SUBSET Ids]
  BY DEF Init
<1>3. /\ sensors \in [of : 0..MaxInstances, devices : SUBSET Ids]
      /\ switches \in [of : 0..MaxInstances, devices : SUBSET Ids]
      /\ setup_data \in Settings /\ options \in Settings /\ asked \in Settings
      /\ config \in Settings
  BY Nothing DEF Init
<1>4. /\ id \in 0..MaxEntries /\ added \in 0..MaxAdded
      /\ reloads \in 0..MaxReloads /\ made \in 0..MaxInstances
  BY DEF Init
<1>5. state \in States /\ phase \in Phases
  BY DEF Init, States, Phases
<1>6. /\ removing \in BOOLEAN /\ listener \in BOOLEAN /\ services \in BOOLEAN
      /\ missed \in BOOLEAN
  BY DEF Init
<1>7. /\ devices \in SUBSET Ids /\ wanted \in SUBSET Ids
      /\ watch \in SUBSET Instances /\ stranded \in SUBSET Instances
  BY Zenon DEF Init
<1> QED
  BY <1>1, <1>2, <1>3, <1>4, <1>5, <1>6, <1>7 DEF Known, RestOK

LEMMA AlwaysKnown == Spec => []Known
<1>1. Known /\ [Next]_vars => Known'
  BY DictStep, RestStep, PhaseStep DEF Known
<1> QED
  BY KnownInit, <1>1, PTL DEF Spec

\* Every variable has its type, and hass.data holds no entry twice.
THEOREM TypeCorrect == Spec => []TypeOK
<1>1. Known => TypeOK
  BY TypeParts DEF Known
<1> QED
  BY AlwaysKnown, <1>1, PTL

-----------------------------------------------------------------------------
(***************************************************************************)
(* What the flows and the forms ask for                                    *)
(***************************************************************************)

\* What the user asked for is what the entry stores.
Stored ==
    /\ devices = wanted /\ options = asked
    /\ \A k \in Keys \ SetupKeys : setup_data[k] = Absent

LEMMA AlwaysStored == Spec => []Stored
<1>1. Init => Stored
  BY DEF Init, Stored, NoSettings
<1>2. ASSUME Stored, [Next]_vars PROVE Stored'
  <2> USE <1>2
  <2>1. CASE CreateEntry
    BY <2>1 DEF CreateEntry, Stored
  <2>2. CASE Gone
    BY <2>2 DEF Gone, Stored, NoSettings
  <2>3. CASE UNCHANGED <<devices, wanted, options, asked, setup_data>>
    BY <2>3 DEF Stored
  <2>4. CASE BeginRemove \/ PlatformsUnloaded \/ UnloadRefused
    BY <2>2, <2>3, <2>4 DEF BeginRemove, PlatformsUnloaded, UnloadRefused, entry
  <2>5. CASE ConfigureDevice \/ SubmitSettings
    BY <2>5 DEF ConfigureDevice, SubmitSettings, ReplaceOptions, Edited, Stored
  <2>6. ASSUME NEW f \in Flows, RemoveDevice(f) PROVE Stored'
    BY <2>6 DEF RemoveDevice, StoreRemaining, Edited, Stored
  <2> QED
    BY <2>1, <2>3, <2>4, <2>5, <2>6
       DEF Next, BeginSetup, SetupSensors, SetupSwitches, FinishSetup, SetupRaises, AskReload,
           BeginReload, Restart, ShowRemoveForm, vars, entry
<1> QED
  BY <1>1, <1>2, PTL DEF Spec

\* Whatever flows are open at the same time, the entry lists the devices that were
\* added and not removed.
THEOREM EditsAreKept == Spec => []EditsKept
<1>1. Stored => EditsKept
  BY DEF Stored, EditsKept
<1> QED
  BY AlwaysStored, <1>1, PTL

-----------------------------------------------------------------------------
(***************************************************************************)
(* The instance and its entities                                           *)
(***************************************************************************)

\* From its construction on, an instance that no edit missed works with what the
\* entry stores; once it is loaded an edit finds the listener.
Built == config = Effective(options, setup_data)
OfNow == [of |-> made, devices |-> devices]
Fresh ==
    /\ phase = "starting" \/ state \in {"none", "setup_error"} =>
           sensors = NoEntities /\ switches = NoEntities
    /\ state = "loaded" => listener
    /\ phase = "platforms" /\ ~missed =>
           Built /\ sensors \in {NoEntities, OfNow} /\ switches \in {NoEntities, OfNow}
    /\ Quiet => Built /\ sensors = OfNow /\ switches = OfNow

LEMMA EditFresh ==
    ASSUME RestOK, PhaseOK, Fresh, Edited
    PROVE  Fresh'
<1>1. UNCHANGED <<id, setup_data, state, phase, listener, made, config, sensors, switches>>
  BY DEF Edited, instance, entities
<1>2. CASE UNCHANGED <<devices, options>>
  <2>1. UNCHANGED <<reloads, missed>>
    BY <1>2 DEF Edited, Edits, RestOK
  <2> QED
    BY <1>1, <1>2, <2>1 DEF Fresh, Quiet, Built, OfNow
<1>3. CASE ~ UNCHANGED <<devices, options>>
  <2>1. phase = "platforms" => missed'
    BY <1>3 DEF Edited, Edits
  <2>2. state = "loaded" => reloads' = reloads + 1
    BY <1>3 DEF Edited, Edits, Fresh
  <2>3. ~ Quiet'
    BY <1>1, <2>2 DEF Quiet, RestOK
  <2> QED
    BY <1>1, <2>1, <2>3 DEF Fresh
<1> QED
  BY <1>2, <1>3

LEMMA AlwaysFresh == Spec => []Fresh
<1>1. Init => Fresh
  BY DEF Init, Fresh, Quiet
<1>2. ASSUME Known, Fresh, [Next]_vars PROVE Fresh'
  <2> USE <1>2 DEF Known
  <2>1. CASE CreateEntry
    BY <2>1 DEF CreateEntry, Fresh, Quiet, PhaseOK, entities
  <2>2. CASE BeginSetup
    BY <2>2 DEF BeginSetup, Fresh, Quiet, Built, PhaseOK, entry, entities
  <2>3. CASE SetupSensors \/ SetupSwitches
    BY <2>3 DEF SetupSensors, SetupSwitches, Fresh, Quiet, Built, OfNow, PhaseOK, entry, instance
  <2>4. CASE FinishSetup
    BY <2>4 DEF FinishSetup, AddListener, Fresh, Quiet, Built, OfNow, PhaseOK, entry, entities
  <2>5. CASE SetupRaises
    BY <2>5 DEF SetupRaises, Fresh, Quiet, entities
  <2>6. CASE AskReload
    <3>1. ~ Quiet'
      BY <2>6 DEF AskReload, Quiet, RestOK
    <3> QED
      BY <2>6, <3>1 DEF AskReload, Fresh, Built, OfNow, entry, instance, entities
  <2>7. CASE BeginReload
    BY <2>7 DEF BeginReload, Fresh, Quiet, PhaseOK, RestOK, States, entry, instance, entities
  <2>8. CASE Gone
    BY <2>8 DEF Gone, Fresh, Quiet
  <2>9. CASE BeginRemove
    BY <2>8, <2>9 DEF BeginRemove, Fresh, Quiet, PhaseOK, entities, entry, instance
  <2>10. CASE PlatformsUnloaded
    BY <2>8, <2>10 DEF PlatformsUnloaded, Fresh, Quiet
  <2>11. CASE UnloadRefused
    BY <2>8, <2>11 DEF UnloadRefused, Fresh, Quiet
  <2>12. CASE Restart
    BY <2>12 DEF Restart, Fresh, Quiet
  <2>13. CASE ConfigureDevice \/ SubmitSettings \/ \E f \in Flows : RemoveDevice(f)
    BY <2>13, EditFresh DEF ConfigureDevice, SubmitSettings, RemoveDevice
  <2>14. CASE UNCHANGED <<id, devices, setup_data, options, state, phase, listener, reloads, made,
                          config, sensors, switches, missed>>
    BY <2>14 DEF Fresh, Quiet, Built, OfNow
  <2>15. CASE UNCHANGED vars \/ \E f \in Flows : ShowRemoveForm(f)
    BY <2>14, <2>15 DEF ShowRemoveForm, vars, entry, instance, entities
  <2> QED
    BY <2>1, <2>2, <2>3, <2>4, <2>5, <2>6, <2>7, <2>9, <2>10, <2>11, <2>12, <2>13, <2>15 DEF Next
<1> QED
  BY <1>1, <1>2, AlwaysKnown, PTL DEF Spec

\* The settings sent last are those the loaded instance works with, through any
\* reloads, restarts and concurrent flows.
THEOREM SettingsReach == Spec => []SettingsApplied
<1>1. Known /\ Stored /\ Fresh => SettingsApplied
  <2> SUFFICES ASSUME Known, Stored, Fresh, Quiet, NEW k \in Keys
               PROVE  config[k] = IF asked[k] = Absent /\ k \in SetupKeys
                                  THEN setup_data[k] ELSE asked[k]
    BY DEF SettingsApplied
  <2> QED
    BY DEF Stored, Fresh, Built, Effective
<1> QED
  BY <1>1, AlwaysKnown, AlwaysStored, AlwaysFresh, PTL

\* The entities are those of the newest instance and of the devices listed.
THEOREM EntitiesFollow == Spec => []EntitiesMatch
<1>1. Fresh => EntitiesMatch
  BY DEF Fresh, EntitiesMatch, OfNow
<1> QED
  BY <1>1, AlwaysFresh, PTL

\* A loaded instance that shows something older than the entry is on its way out: a
\* reload waits for it or its unload is under way, unless an edit fell into its
\* setup.
EditPending ==
    (state = "loaded" /\ ~missed /\ ~Current) => (reloads > 0 \/ phase # "free")

\* No edit is forgotten, whichever flows, reloads and restarts come in between.
THEOREM NoEditForgotten == Spec => []EditPending
<1>1. Known /\ Fresh => EditPending
  BY DEF Known, RestOK, Fresh, Quiet, Built, OfNow, Current, EditPending
<1> QED
  BY <1>1, AlwaysKnown, AlwaysFresh, PTL

-----------------------------------------------------------------------------
(***************************************************************************)
(* Who is in hass.data                                                     *)
(***************************************************************************)

\* The newest instance is in hass.data from its setup to its unload; whoever else
\* is there was left by a setup that raised or an unload that was refused.
Active == phase = "platforms" \/ state = "loaded"
Mine   == [key |-> id, inst |-> made]
Owned ==
    /\ watch \subseteq Holding \cup stranded
    /\ Active => made \in watch /\ Mine \in Elements(domain)
    /\ \A e \in Elements(domain) : e.inst \in stranded \/ (Active /\ e = Mine)
    /\ services => domain # <<>>
    /\ state = "loaded" /\ stranded = {} => services

LEMMA HoldingIs == Holding = {e.inst : e \in Elements(domain)}
BY DEF Holding, Elements

LEMMA NoneHeld == ASSUME NEW d \in Seq(Entries) PROVE d = <<>> <=> Elements(d) = {}
<1>1. CASE d = <<>>
  BY <1>1 DEF Elements
<1>2. CASE d # <<>>
  <2>1. 1 \in DOMAIN d
    BY <1>2
  <2> QED
    BY <1>2, <2>1 DEF Elements
<1> QED
  BY <1>1, <1>2

LEMMA OnlyOne ==
    ASSUME DictOK, Owned, Active, stranded = {}
    PROVE  Len(domain) = 1 /\ domain[1] = Mine
<1>1. \A i \in DOMAIN domain : domain[i] = Mine
  BY DEF Owned, Elements
<1>2. \A i, j \in DOMAIN domain : i = j
  BY <1>1 DEF DictOK, Unique
<1>3. domain # <<>> /\ domain \in Seq(Entries)
  BY NoneHeld DEF Owned, DictOK
<1>4. Len(domain) \in Nat \ {0} /\ DOMAIN domain = 1..Len(domain)
  BY <1>3
<1>5. 1 \in DOMAIN domain /\ Len(domain) \in DOMAIN domain
  BY <1>4
<1> QED
  BY <1>1, <1>2, <1>5

LEMMA AlwaysOwned == Spec => []Owned
<1>1. Init => Owned
  BY DEF Init, Owned, Active, Elements, Holding
<1>2. ASSUME Known, Owned, [Next]_vars PROVE Owned'
  <2> USE <1>2 DEF Known
  <2>1. CASE UNCHANGED domain /\ UNCHANGED watch /\ UNCHANGED services /\ ~Active
             /\ UNCHANGED <<stranded, made>> /\ ~Active'
    BY <2>1 DEF Owned, Holding, Elements, Active
  <2>2. CASE CreateEntry \/ (BeginReload /\ ~Active)
    BY <2>1, <2>2 DEF CreateEntry, BeginReload, Active, PhaseOK, instance
  <2>3. CASE BeginSetup
    <3> DEFINE e == [key |-> id, inst |-> made + 1]
    <3>1. id \in 1..MaxEntries /\ made + 1 \in Instances /\ ~Active
      BY <2>3 DEF BeginSetup, RestOK, PhaseOK, Instances, Active
    <3>2. domain' = Put(domain, id, made + 1) /\ domain' \in Seq(Entries)
      BY <2>3, DictStep DEF BeginSetup, DictOK
    <3>3. Elements(domain') = Others(domain, id) \cup {e}
      BY <3>1, <3>2, PutEntry DEF DictOK
    <3>4. Mine' = e /\ Active' /\ made' \in watch'
      BY <2>3 DEF BeginSetup, Mine, Active, entry
    <3>5. \A x \in Elements(domain) : x.inst \in stranded
      BY <3>1 DEF Owned
    <3>6. \A x \in Elements(domain)' : x.inst \in stranded' \/ x = Mine'
      BY <2>3, <3>3, <3>4, <3>5 DEF BeginSetup, Others, Elements
    <3>7. watch' \subseteq Holding' \cup stranded'
      <4>1. watch \subseteq stranded
        BY <3>5, HoldingIs DEF Owned
      <4>2. made' \in Holding'
        <5>1. e \in Elements(domain') /\ e.inst = made'
          BY <2>3, <3>3 DEF BeginSetup
        <5> QED
          BY <5>1 DEF Holding, Elements
      <4> QED
        BY <2>3, <4>1, <4>2 DEF BeginSetup
    <3>8. domain' # <<>>
      BY <3>2, <3>3, NoneHeld
    <3>9. Mine' \in Elements(domain)'
      BY <3>3, <3>4 DEF Elements
    <3>10. state' # "loaded"
      BY <2>3 DEF BeginSetup, PhaseOK
    <3> QED
      BY <3>4, <3>6, <3>7, <3>8, <3>9, <3>10 DEF Owned
  <2>4. CASE /\ UNCHANGED <<domain, watch, services, stranded, id, made>>
             /\ Active' = Active /\ (state' = "loaded" => state = "loaded")
    BY <2>4 DEF Owned, Holding, Elements, Mine
  <2>5. CASE \/ SetupSensors \/ SetupSwitches \/ AskReload \/ (BeginReload /\ Active)
             \/ ConfigureDevice \/ SubmitSettings \/ UNCHANGED vars
             \/ \E f \in Flows : ShowRemoveForm(f) \/ RemoveDevice(f)
    <3>1. UNCHANGED <<domain, watch, services, stranded, id, made>>
      BY <2>5 DEF SetupSensors, SetupSwitches, AskReload, BeginReload, ConfigureDevice,
                  SubmitSettings, ShowRemoveForm, RemoveDevice, Edited, vars, entry, instance
    <3>2. Active' = Active /\ (state' = "loaded" => state = "loaded")
      BY <2>5 DEF SetupSensors, SetupSwitches, AskReload, BeginReload, ConfigureDevice, Active,
                  SubmitSettings, ShowRemoveForm, RemoveDevice, Edited, vars, entry, instance,
                  PhaseOK
    <3> QED
      BY <2>4, <3>1, <3>2
  <2>6. CASE FinishSetup
    <3>1. Active /\ Active' /\ UNCHANGED <<domain, watch, stranded, id, made>>
      BY <2>6 DEF FinishSetup, Active, entry
    <3>2. services' <=> (services \/ Len(domain) = 1)
      BY <2>6 DEF FinishSetup, RegisterServices
    <3>3. stranded = {} => services'
      BY <3>1, <3>2, OnlyOne
    <3>4. domain # <<>>
      BY <3>1, NoneHeld DEF Owned, DictOK
    <3> QED
      BY <3>1, <3>3, <3>4 DEF Owned, Holding, Elements, Mine
  \* The newest instance is given up and stays in hass.data.
  <2>7. CASE /\ Active /\ ~Active' /\ stranded' = stranded \cup {made}
             /\ UNCHANGED <<domain, watch, services>>
    <3>1. \A e \in Elements(domain) : e.inst \in stranded'
      BY <2>7 DEF Owned, Mine
    <3>2. watch' \subseteq Holding' \cup stranded'
      BY <2>7 DEF Owned, Holding
    <3> QED
      BY <2>7, <3>1, <3>2 DEF Owned, Elements, Active
  <2>8. CASE SetupRaises
    BY <2>7, <2>8 DEF SetupRaises, Active, PhaseOK
  <2>9. CASE UnloadRefused
    BY <2>7, <2>9 DEF UnloadRefused, Gone, Active, PhaseOK
  <2>10. CASE BeginRemove
    <3>1. CASE Gone /\ state \in {"setup_error", "failed_unload"}
      BY <2>1, <2>10, <3>1 DEF BeginRemove, Gone, Active, PhaseOK, instance
    <3>2. CASE state = "loaded"
      BY <2>4, <2>10, <3>2 DEF BeginRemove, Active, entry, instance
    <3> QED
      BY <2>10, <3>1, <3>2 DEF BeginRemove
  <2>11. CASE PlatformsUnloaded
    <3>1. Active /\ ~Active' /\ UNCHANGED <<made, stranded>> /\ state' # "loaded"
      BY <2>11 DEF PlatformsUnloaded, Gone, Active, PhaseOK
    <3>2. /\ domain' = Pop(domain, id)
          /\ watch' = watch \ {domain[i].inst : i \in At(domain, id)}
          /\ services' <=> (services /\ domain' # <<>>)
      BY <2>11 DEF PlatformsUnloaded, PopInstance, StopWatchdog, UnregisterServices
    <3>3. Elements(domain') = Others(domain, id)
      BY <3>2, PopEntry DEF DictOK
    <3>4. \A e \in Elements(domain)' : e.inst \in stranded'
      BY <3>1, <3>3 DEF Owned, Others, Mine, Elements
    <3>5. watch' \subseteq stranded'
      <4>1. ASSUME NEW w \in watch', w \notin stranded PROVE FALSE
        <5>1. PICK i \in DOMAIN domain : domain[i].inst = w
          BY <3>2, <4>1 DEF Owned, Holding
        <5>2. domain[i] \in Elements(domain)
          BY DEF Elements
        <5>3. domain[i].key = id
          BY <4>1, <5>1, <5>2 DEF Owned, Mine
        <5> QED
          BY <3>2, <4>1, <5>1, <5>3 DEF At
      <4> QED
        BY <3>1, <4>1
    <3> QED
      BY <3>1, <3>2, <3>4, <3>5 DEF Owned
  <2>12. CASE Restart
    <3>1. domain' = <<>> /\ watch' = {} /\ ~services' /\ ~Active'
      BY <2>12 DEF Restart, Active
    <3>2. Elements(domain)' = {}
      BY <3>1 DEF Elements
    <3> QED
      BY <3>1, <3>2 DEF Owned, Active
  <2> QED
    BY <2>2, <2>3, <2>5, <2>6, <2>8, <2>9, <2>10, <2>11, <2>12 DEF Next
<1> QED
  BY <1>1, <1>2, AlwaysKnown, PTL DEF Spec

\* No watchdog goes on for an instance that was unloaded, and the loaded one has
\* its own.
THEOREM WatchdogsAreOwned == Spec => []WatchdogsOwned
<1>1. Owned => WatchdogsOwned
  BY DEF Owned, WatchdogsOwned, Active
<1> QED
  BY <1>1, AlwaysOwned, PTL

\* The services are there for a loaded instance and reach the one whose entities are
\* shown, unless a setup raised or a platform refused to go.
THEOREM ServicesFollow == Spec => []ServicesReachLoaded
<1>1. Known /\ Owned => ServicesReachLoaded
  <2> SUFFICES ASSUME Known, Owned PROVE ServicesReachLoaded
    OBVIOUS
  <2>1. services => domain # <<>>
    BY DEF Owned
  <2>2. ASSUME state = "loaded", stranded = {} PROVE services /\ Head(domain).inst = made
    <3>1. domain[1] = Mine /\ services
      BY <2>2, OnlyOne DEF Known, Owned, Active
    <3>2. Head(domain) = domain[1]
      BY <2>2, OnlyOne DEF Known, DictOK, Active
    <3> QED
      BY <3>1, <3>2 DEF Mine
  <2> QED
    BY <2>1, <2>2 DEF ServicesReachLoaded
<1> QED
  BY <1>1, AlwaysKnown, AlwaysOwned, PTL

=============================================================================
