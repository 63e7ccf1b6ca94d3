-------------------------- MODULE InstrumentsProofs --------------------------
(***************************************************************************)
(* What the cache key of src/otelprocessor/score.go tells apart, for any   *)
(* set of instruments and any configuration.                               *)
(***************************************************************************)
EXTENDS Instruments, TLAPS

\* An instrument: the fields scoreKey and summarizeMetric read.
OfInstruments ==
  \A i \in Instruments :
    /\ i.resource.attributes = [k \in DOMAIN i.resource.attributes |-> i.resource.attributes[k]]
    /\ i.scope.attributes = [k \in DOMAIN i.scope.attributes |-> i.scope.attributes[k]]
    /\ i.resource = [url |-> i.resource.url, attributes |-> i.resource.attributes]
    /\ i.scope = [name |-> i.scope.name, version |-> i.scope.version, url |-> i.scope.url,
                  attributes |-> i.scope.attributes]

\* All values of the attributes are strings.
Strings(attributes) ==
  \A k \in DOMAIN attributes : attributes[k] = [kind |-> "string", text |-> attributes[k].text]
OnlyStrings ==
  \A i \in Instruments : Strings(i.resource.attributes) /\ Strings(i.scope.attributes)

\* All texts of the instruments, the names of attributes included, are valid UTF-8.
Valid(s) == s \notin DOMAIN Coercion
ValidAttributes(attributes) ==
  \A k \in DOMAIN attributes : Valid(k) /\ Valid(attributes[k].text)
ValidUTF8 ==
  \A i \in Instruments :
    /\ Valid(i.name) /\ Valid(i.description) /\ Valid(i.unit)
    /\ Valid(i.scope.name) /\ Valid(i.scope.version) /\ Valid(i.scope.url) /\ Valid(i.resource.url)
    /\ ValidAttributes(i.resource.attributes) /\ ValidAttributes(i.scope.attributes)

-----------------------------------------------------------------------------
(* The key.                                                                 *)

\* Equal keys are equal part by part.
LEMMA SameKeySamePart ==
  ASSUME NEW i, NEW j, scoreKey(i) = scoreKey(j), scoreKey(i) # NoKey
  PROVE  /\ Written(summarizeIdentity(i)) = Written(summarizeIdentity(j))
         /\ Object(i.resource.attributes) = Object(j.resource.attributes)
         /\ Object(i.scope.attributes) = Object(j.scope.attributes)
         /\ Text(i.resource.url) = Text(j.resource.url) /\ Text(i.scope.url) = Text(j.scope.url)
<1> DEFINE Key(x) ==
      [encoded     |-> TRUE,
       resource    |-> Object(x.resource.attributes),
       scope       |-> Object(x.scope.attributes),
       resourceURL |-> Text(x.resource.url), scopeURL |-> Text(x.scope.url),
       identity    |-> Written(summarizeIdentity(x))]
<1>1. scoreKey(i) = Key(i) /\ scoreKey(j) = Key(j)
  BY DEF scoreKey
<1>2. Key(i) = Key(j)
  BY <1>1
<1> HIDE DEF Key
<1>3. \A x : /\ Key(x).identity = Written(summarizeIdentity(x))
             /\ Key(x).resource = Object(x.resource.attributes)
             /\ Key(x).scope = Object(x.scope.attributes)
             /\ Key(x).resourceURL = Text(x.resource.url) /\ Key(x).scopeURL = Text(x.scope.url)
  BY Zenon DEF Key
<1> QED
  BY <1>2, <1>3, Zenon

\* An entry of one of two maps that are written alike has a counterpart in the other.
LEMMA SameEntries ==
  ASSUME NEW a, NEW b, Object(a) = Object(b), NEW k \in DOMAIN a
  PROVE  \E n \in DOMAIN b : Text(n) = Text(k) /\ JSON(b[n]) = JSON(a[k])
<1> DEFINE Entry(m, attributes) ==
      [at |-> Place(m, attributes), name |-> Text(m), value |-> JSON(attributes[m])]
<1>1. Entry(k, a) \in Object(b)
  BY DEF Object
<1>2. PICK n \in DOMAIN b : Entry(k, a) = Entry(n, b)
  BY <1>1 DEF Object
<1> HIDE DEF Entry
<1>3. \A m, c : Entry(m, c).name = Text(m) /\ Entry(m, c).value = JSON(c[m])
  BY DEF Entry
<1> QED
  BY <1>2, <1>3

\* A map that is written shows the names in it, as json writes them.
LEMMA SameNamesOfAttributes ==
  ASSUME NEW a, NEW b, Object(a) = Object(b)
  PROVE  Names(a) = Names(b)
<1>1. ASSUME NEW k \in DOMAIN a
      PROVE  Text(k) \in Names(b)
  BY SameEntries DEF Names
<1>2. ASSUME NEW k \in DOMAIN b
      PROVE  Text(k) \in Names(a)
  BY SameEntries DEF Names
<1> QED
  BY <1>1, <1>2 DEF Names

\* Attributes whose values are all strings, of valid UTF-8, are told apart.
LEMMA StringsAreTold ==
  ASSUME NEW a, NEW b, Object(a) = Object(b), Strings(a), Strings(b),
         ValidAttributes(a), ValidAttributes(b),
         a = [k \in DOMAIN a |-> a[k]], b = [k \in DOMAIN b |-> b[k]]
  PROVE  a = b
<1>1. ASSUME NEW k \in DOMAIN a
      PROVE  k \in DOMAIN b /\ JSON(b[k]) = JSON(a[k])
  <2>1. PICK n \in DOMAIN b : Text(n) = Text(k) /\ JSON(b[n]) = JSON(a[k])
    BY SameEntries
  <2>2. n = k
    BY <2>1 DEF ValidAttributes, Valid, Text
  <2> QED
    BY <2>1, <2>2
<1>2. ASSUME NEW k \in DOMAIN b
      PROVE  k \in DOMAIN a
  <2>1. PICK n \in DOMAIN a : Text(n) = Text(k)
    BY SameEntries
  <2> QED
    BY <2>1 DEF ValidAttributes, Valid, Text
<1>3. ASSUME NEW k \in DOMAIN a
      PROVE  a[k] = b[k]
  <2>1. Text(a[k].text) = Text(b[k].text)
    BY <1>1 DEF JSON
  <2>2. a[k].text = b[k].text
    BY <1>1, <2>1 DEF ValidAttributes, Valid, Text
  <2> QED
    BY <1>1, <2>2 DEF Strings
<1> QED
  BY <1>1, <1>2, <1>3

\* So are identities whose texts are valid UTF-8.
LEMMA IdentitiesAreTold ==
  ASSUME ValidUTF8, NEW i \in Instruments, NEW j \in Instruments,
         Written(summarizeIdentity(i)) = Written(summarizeIdentity(j))
  PROVE  summarizeIdentity(i) = summarizeIdentity(j)
<1>1. ASSUME NEW x \in Instruments
      PROVE  Written(summarizeIdentity(x)) = summarizeIdentity(x)
  BY <1>1 DEF ValidUTF8, Valid, Text, Written, summarizeIdentity
<1> QED
  BY <1>1

-----------------------------------------------------------------------------
(* Decisions.                                                               *)

\* Every assessment is filed under the key of the instrument it is about.
Filed == \A key \in DOMAIN assessed :
           /\ assessed[key] \in Instruments /\ Assessable(assessed[key])
           /\ scoreKey(assessed[key]) = key

\* The two instruments of a decision have one key.
DecidedByKey ==
  decided # << >> =>
    /\ decided[1] \in Instruments /\ decided[2] \in Instruments
    /\ Assessable(decided[1]) /\ Assessable(decided[2])
    /\ scoreKey(decided[1]) = scoreKey(decided[2])

\* Nothing is filed at first.
LEMMA FiledInitially == Init => Filed /\ DecidedByKey
BY DEF Init, Filed, DecidedByKey

\* Every step files under the right key and decides by it.
LEMMA FiledStays == Filed /\ DecidedByKey /\ [Next]_vars => Filed' /\ DecidedByKey'
<1> SUFFICES ASSUME Filed, DecidedByKey, [Next]_vars
             PROVE  Filed' /\ DecidedByKey'
  OBVIOUS
<1>1. ASSUME NEW i \in Instruments, Assess(i)
      PROVE  Filed' /\ DecidedByKey'
  <2>1. Filed'
    BY <1>1 DEF Filed, Assess
  <2>2. DecidedByKey'
    BY <1>1 DEF DecidedByKey, Assess
  <2> QED
    BY <2>1, <2>2
<1>2. ASSUME NEW i \in Instruments, Decide(i)
      PROVE  Filed' /\ DecidedByKey'
  <2>1. Filed'
    BY <1>2 DEF Filed, Decide
  <2>2. DecidedByKey'
    BY <1>2 DEF DecidedByKey, Decide, Filed
  <2> QED
    BY <2>1, <2>2
<1>3. ASSUME NEW key \in DOMAIN assessed, Forget(key)
      PROVE  Filed' /\ DecidedByKey'
  <2>1. Filed'
    BY <1>3 DEF Filed, Forget, Restrict
  <2>2. DecidedByKey'
    BY <1>3 DEF DecidedByKey, Forget
  <2> QED
    BY <2>1, <2>2
<1>4. CASE UNCHANGED vars
  BY <1>4 DEF vars, Filed, DecidedByKey
<1> QED
  BY <1>1, <1>2, <1>3, <1>4 DEF Next

\* The inductive invariant.
LEMMA KeysAgree == Spec => [](Filed /\ DecidedByKey)
BY FiledInitially, FiledStays, PTL DEF Spec

\* An instrument is only ever decided by the assessment of a relative: as json writes
\* texts, of the same metric, scope and schemas, with attributes of the same names, and
\* never if a rule of the policy protects it.  This is what lets a metric of MetricsProcessor and a
\* key of Coordination stand for a score key.
THEOREM Relatives == Spec => []DecidedByARelative
<1>1. DecidedByKey => DecidedByARelative
  <2> SUFFICES ASSUME DecidedByKey, decided # << >>
               PROVE  Related(decided[1], decided[2])
    BY DEF DecidedByARelative
  <2>1. scoreKey(decided[1]) = scoreKey(decided[2]) /\ scoreKey(decided[1]) # NoKey
    BY DEF DecidedByKey, Assessable
  <2>2. ~protectedMetric(decided[1].name) /\ ~protectedMetric(decided[2].name)
    BY DEF DecidedByKey, Assessable
  <2> QED
    BY <2>1, <2>2, SameKeySamePart, SameNamesOfAttributes DEF Related
<1> QED
  BY <1>1, KeysAgree, PTL

\* Where all attributes are strings, as most are, and all texts are valid UTF-8, as the
\* protocol asks but the processor does not check, the documentation is right: an
\* instrument is decided by an assessment of its own complete identity.  Neither
\* condition can be left out: 1 and 1.0 are one text, and any two bytes that are not
\* UTF-8 are written alike.
THEOREM StringsKeepIdentities ==
  OfInstruments /\ OnlyStrings /\ ValidUTF8 => (Spec => []DecidedByItsOwnIdentity)
<1> SUFFICES ASSUME OfInstruments, OnlyStrings, ValidUTF8
             PROVE  Spec => []DecidedByItsOwnIdentity
  OBVIOUS
<1>1. DecidedByKey => DecidedByItsOwnIdentity
  <2> SUFFICES ASSUME DecidedByKey, decided # << >>
               PROVE  SameIdentity(decided[1], decided[2])
    BY DEF DecidedByItsOwnIdentity
  <2> DEFINE i == decided[1]
             j == decided[2]
  <2>1. i \in Instruments /\ j \in Instruments
    BY DEF DecidedByKey
  <2>2. scoreKey(i) = scoreKey(j) /\ scoreKey(i) # NoKey
    BY DEF DecidedByKey, Assessable
  <2> HIDE DEF i, j
  <2>3. /\ summarizeIdentity(i) = summarizeIdentity(j)
        /\ Object(i.resource.attributes) = Object(j.resource.attributes)
        /\ Object(i.scope.attributes) = Object(j.scope.attributes)
    BY <2>1, <2>2, SameKeySamePart, IdentitiesAreTold
  <2>4. i.resource.attributes = j.resource.attributes /\ i.scope.attributes = j.scope.attributes
    <3>1. /\ Strings(i.resource.attributes) /\ Strings(j.resource.attributes)
          /\ Strings(i.scope.attributes) /\ Strings(j.scope.attributes)
      BY <2>1 DEF OnlyStrings
    <3>2. /\ i.resource.attributes = [k \in DOMAIN i.resource.attributes |-> i.resource.attributes[k]]
          /\ j.resource.attributes = [k \in DOMAIN j.resource.attributes |-> j.resource.attributes[k]]
          /\ i.scope.attributes = [k \in DOMAIN i.scope.attributes |-> i.scope.attributes[k]]
          /\ j.scope.attributes = [k \in DOMAIN j.scope.attributes |-> j.scope.attributes[k]]
      BY <2>1 DEF OfInstruments
    <3>3. /\ ValidAttributes(i.resource.attributes) /\ ValidAttributes(j.resource.attributes)
          /\ ValidAttributes(i.scope.attributes) /\ ValidAttributes(j.scope.attributes)
      BY <2>1 DEF ValidUTF8
    <3>4. i.resource.attributes = j.resource.attributes
      BY <2>3, <3>1, <3>2, <3>3, StringsAreTold
    <3>5. i.scope.attributes = j.scope.attributes
      BY <2>3, <3>1, <3>2, <3>3, StringsAreTold
    <3> QED
      BY <3>4, <3>5
  <2>5. i.scope.name = j.scope.name /\ i.scope.version = j.scope.version
    BY <2>3 DEF summarizeIdentity
  <2>6. i.resource.url = j.resource.url /\ i.scope.url = j.scope.url
    BY <2>1, <2>2, SameKeySamePart DEF ValidUTF8, Valid, Text
  <2>7. i.resource = j.resource /\ i.scope = j.scope
    BY <2>1, <2>4, <2>5, <2>6 DEF OfInstruments
  <2>8. SameIdentity(i, j)
    BY <2>3, <2>7 DEF SameIdentity
  <2> QED
    BY <2>8 DEF i, j
<1> QED
  BY <1>1, KeysAgree, PTL

\* Of two instruments of one identity Jev is told the same (summarizeMetric),
\* up to its data points.
THEOREM IdentityFixesDescription ==
  ASSUME NEW i, NEW j, SameIdentity(i, j)
  PROVE  Description(i) = Description(j)
BY DEF SameIdentity, Description, summarizeMetric
=============================================================================
