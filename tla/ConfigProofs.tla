---------------------------- MODULE ConfigProofs ----------------------------
(***************************************************************************)
(* Lemmas about Config, for any configuration: what Parse lets through     *)
(* (ParseAccepts, AdcsExist, DriversExist, PinsAccepted), which lines      *)
(* start-up requests (LineRequestsAre, RequestsApart), and where the paths *)
(* of its log files lead, up to the theorem that plain labels keep them    *)
(* apart (PlainLabelsFit).  Parse is a scan for the first error and the    *)
(* lists are concatenations of lists, so two facts come first that the     *)
(* lemmas rest on: a nonempty set of naturals has a least element, and     *)
(* FlattenSeq keeps every element of every list.                           *)
(***************************************************************************)
EXTENDS Config, FiniteSetTheorems, SequenceTheorems, TLAPS

\* Induction over the naturals, for a set instead of a predicate: a set that
\* 0 belongs to and that is closed under successor has no gap, since counting on
\* would map what is below the gap into itself, without 0.
LEMMA SetInduction ==
  ASSUME NEW S, 0 \in S, \A n \in Nat : n \in S => n + 1 \in S
  PROVE  Nat \subseteq S
<1> SUFFICES ASSUME NEW n \in Nat, n \notin S PROVE FALSE
  OBVIOUS
<1> DEFINE A == {k \in 0 .. n : k \in S}
           f == [k \in A |-> k + 1]
<1>1. IsFiniteSet(A)
  <2>1. IsFiniteSet(0 .. n)
    BY FS_Interval
  <2> QED  BY <2>1, FS_Subset
<1>2. 0 \in A
  OBVIOUS
<1>3. \A k \in A : k + 1 \in A \ {0}
  OBVIOUS
<1>4. f \in Injection(A, A \ {0})
  <2>1. f \in [A -> A \ {0}]
    BY <1>3
  <2>2. IsInjective(f)
    BY DEF IsInjective
  <2> QED  BY <2>1, <2>2 DEF Injection
<1>5. IsFiniteSet(A \ {0}) /\ Cardinality(A \ {0}) = Cardinality(A) - 1
  BY <1>1, <1>2, FS_RemoveElement
<1>6. Cardinality(A) <= Cardinality(A \ {0})
  BY <1>4, <1>5, FS_Injection
<1>7. Cardinality(A) \in Nat
  BY <1>1, FS_CardinalityType
<1> QED  BY <1>5, <1>6, <1>7
-----------------------------------------------------------------------------
\* FlattenSeq.

\* f has the concatenation of the first i sequences at i.
Flattens(f, seqs) ==
  f = [i \in 1 .. Len(seqs) |-> IF i = 1 THEN seqs[i] ELSE f[i - 1] \o seqs[i]]

\* There is such a function, and FlattenSeq takes its last value.
LEMMA FlattenExists ==
  ASSUME NEW seqs, Len(seqs) \in Nat
  PROVE  \E f : Flattens(f, seqs)
<1> DEFINE Prefix(f, n) ==
             f = [i \in 1 .. n |-> IF i = 1 THEN seqs[i] ELSE f[i - 1] \o seqs[i]]
           E == {n \in Nat : \E f : Prefix(f, n)}
<1>1. 0 \in E
  <2>1. Prefix(<<>>, 0)
    OBVIOUS
  <2> QED  BY <2>1
<1>2. ASSUME NEW n \in Nat, n \in E PROVE n + 1 \in E
  <2>1. PICK f : Prefix(f, n)
    BY <1>2
  <2> DEFINE g == [i \in 1 .. n + 1 |-> IF i \in 1 .. n THEN f[i]
                                        ELSE IF i = 1 THEN seqs[i] ELSE f[i - 1] \o seqs[i]]
  <2>2. ASSUME NEW i \in 1 .. n + 1
        PROVE  g[i] = IF i = 1 THEN seqs[i] ELSE g[i - 1] \o seqs[i]
    <3>1. CASE i \in 1 .. n
      <4>1. g[i] = f[i] /\ (i # 1 => g[i - 1] = f[i - 1])
        BY <3>1
      <4>2. f[i] = IF i = 1 THEN seqs[i] ELSE f[i - 1] \o seqs[i]
        BY <2>1, <3>1
      <4> QED  BY <4>1, <4>2
    <3>2. CASE i = n + 1
      <4>1. g[i] = IF i = 1 THEN seqs[i] ELSE f[i - 1] \o seqs[i]
        BY <3>2
      <4>2. i # 1 => i - 1 \in 1 .. n /\ g[i - 1] = f[i - 1]
        BY <3>2
      <4> QED  BY <4>1, <4>2
    <3> QED  BY <3>1, <3>2
  <2>3. Prefix(g, n + 1)
    BY <2>2
  <2>4. \E h : Prefix(h, n + 1)
    <3> HIDE DEF g, Prefix
    <3> QED  BY <2>3
  <2> HIDE DEF Prefix
  <2> QED  BY <2>4
<1> HIDE DEF E
<1>3. Len(seqs) \in E
  BY <1>1, <1>2, SetInduction
<1> QED  BY <1>3 DEF E, Flattens

LEMMA FlattenUnfolds ==
  ASSUME NEW seqs, Len(seqs) \in Nat \ {0}
  PROVE  \E f : Flattens(f, seqs) /\ FlattenSeq(seqs) = f[Len(seqs)]
<1> DEFINE flatten == CHOOSE f : Flattens(f, seqs)
<1>1. Flattens(flatten, seqs)
  BY FlattenExists
<1>2. FlattenSeq(seqs) = flatten[Len(seqs)]
  BY DEF FlattenSeq, Flattens
<1> QED  BY <1>1, <1>2

\* Every element of s is one of t.
Holds(t, s) == \A j \in DOMAIN s : \E k \in DOMAIN t : t[k] = s[j]

LEMMA ConcatHolds ==
  ASSUME NEW S, NEW s \in Seq(S), NEW t \in Seq(S)
  PROVE  s \o t \in Seq(S) /\ Holds(s \o t, s) /\ Holds(s \o t, t)
<1> DEFINE u == s \o t
<1>1. /\ u \in Seq(S) /\ Len(u) = Len(s) + Len(t)
      /\ \A k \in 1 .. Len(s) + Len(t) : u[k] = IF k <= Len(s) THEN s[k] ELSE t[k - Len(s)]
  BY ConcatProperties
<1>2. /\ DOMAIN s = 1 .. Len(s) /\ Len(s) \in Nat
      /\ DOMAIN t = 1 .. Len(t) /\ Len(t) \in Nat
      /\ DOMAIN u = 1 .. Len(s) + Len(t)
  BY <1>1, LenProperties
<1> HIDE DEF u
<1>3. ASSUME NEW j \in DOMAIN s PROVE j \in DOMAIN u /\ u[j] = s[j]
  BY <1>1, <1>2
<1>4. ASSUME NEW j \in DOMAIN t
      PROVE  j + Len(s) \in DOMAIN u /\ u[j + Len(s)] = t[j]
  <2>1. j + Len(s) \in 1 .. Len(s) + Len(t) /\ ~ (j + Len(s) <= Len(s))
        /\ (j + Len(s)) - Len(s) = j
    BY <1>2
  <2> QED  BY <1>1, <1>2, <2>1
<1>5. Holds(u, s) /\ Holds(u, t)
  BY <1>3, <1>4 DEF Holds
<1> QED  BY <1>1, <1>5 DEF u

\* FlattenSeq gives a sequence of what its sequences have, and leaves nothing out.
LEMMA FlattenKeepsAll ==
  ASSUME NEW S, NEW seqs \in Seq(Seq(S))
  PROVE  /\ FlattenSeq(seqs) \in Seq(S)
         /\ \A i \in DOMAIN seqs : Holds(FlattenSeq(seqs), seqs[i])
<1>0. Len(seqs) \in Nat /\ DOMAIN seqs = 1 .. Len(seqs)
      /\ \A i \in 1 .. Len(seqs) : seqs[i] \in Seq(S)
  BY ElementOfSeq
<1>1. CASE Len(seqs) = 0
  <2>1. FlattenSeq(seqs) = seqs /\ DOMAIN seqs = {} /\ seqs = <<>>
    BY <1>0, <1>1, EmptySeq DEF FlattenSeq
  <2> QED  BY <2>1
<1>2. CASE Len(seqs) # 0
  <2>1. PICK f : Flattens(f, seqs) /\ FlattenSeq(seqs) = f[Len(seqs)]
    BY <1>0, <1>2, FlattenUnfolds
  <2> DEFINE Good(n) == f[n] \in Seq(S) /\ \A i \in 1 .. n : Holds(f[n], seqs[i])
             E == {n \in Nat : n \in 1 .. Len(seqs) => Good(n)}
  <2>2. 0 \in E
    OBVIOUS
  <2>3. ASSUME NEW n \in Nat, n \in E, n + 1 \in 1 .. Len(seqs) PROVE Good(n + 1)
    <3>1. \A i \in 1 .. Len(seqs) : f[i] = IF i = 1 THEN seqs[i] ELSE f[i - 1] \o seqs[i]
      BY <2>1 DEF Flattens
    <3>2. CASE n = 0
      <4>1. f[1] = seqs[1] /\ n + 1 = 1 /\ seqs[1] \in Seq(S)
        BY <1>0, <2>3, <3>1, <3>2
      <4>2. \A i \in 1 .. 1 : i = 1
        OBVIOUS
      <4>3. Holds(seqs[1], seqs[1])
        BY DEF Holds
      <4> QED  BY <4>1, <4>2, <4>3
    <3>3. CASE n # 0
      <4>1. n + 1 # 1 /\ (n + 1) - 1 = n /\ n \in 1 .. Len(seqs)
        BY <1>0, <2>3, <3>3
      <4>2. f[n + 1] = f[n] \o seqs[n + 1]
        BY <2>3, <3>1, <4>1
      <4>3. f[n] \in Seq(S) /\ (\A i \in 1 .. n : Holds(f[n], seqs[i]))
            /\ seqs[n + 1] \in Seq(S)
        BY <1>0, <2>3, <4>1
      <4>4. f[n + 1] \in Seq(S) /\ Holds(f[n + 1], f[n]) /\ Holds(f[n + 1], seqs[n + 1])
        BY <4>2, <4>3, ConcatHolds
      <4>5. ASSUME NEW i \in 1 .. n + 1 PROVE Holds(f[n + 1], seqs[i])
        <5>1. CASE i = n + 1
          BY <4>4, <5>1
        <5>2. CASE i # n + 1
          <6>1. Holds(f[n], seqs[i])
            BY <4>3, <5>2
          <6> QED  BY <4>4, <6>1, ZenonT(60) DEF Holds
        <5> QED  BY <5>1, <5>2
      <4> QED  BY <4>4, <4>5
    <3> QED  BY <3>2, <3>3
  <2>4. Good(Len(seqs))
    <3> HIDE DEF Good
    <3>1. ASSUME NEW n \in Nat, n \in E PROVE n + 1 \in E
      <4>1. n + 1 \in 1 .. Len(seqs) => Good(n + 1)
        BY <2>3, <3>1
      <4> QED  BY <4>1
    <3>2. Len(seqs) \in E
      <4> HIDE DEF E
      <4> QED  BY <1>0, <2>2, <3>1, SetInduction
    <3> QED  BY <1>0, <1>2, <3>2
  <2> QED  BY <1>0, <2>1, <2>4
<1> QED  BY <1>1, <1>2

-----------------------------------------------------------------------------
\* Configuration::parse.

\* Naturals have a least element, which Min chooses.
LEMMA LeastElement ==
  ASSUME NEW T, T \subseteq Nat, T # {}
  PROVE  Min(T) \in T
<1> SUFFICES ASSUME \A x \in T : \E y \in T : ~ (x <= y) PROVE FALSE
  BY DEF Min
<1> DEFINE S == {n \in Nat : \A k \in 0 .. n : k \notin T}
<1>1. 0 \in S
  <2>1. \A k \in 0 .. 0 : k = 0
    OBVIOUS
  <2>2. 0 \notin T
    OBVIOUS
  <2> QED  BY <2>1, <2>2
<1>2. ASSUME NEW n \in Nat, n \in S PROVE n + 1 \in S
  <2>1. \A y \in T : y > n
    BY <1>2
  <2>2. n + 1 \notin T
    BY <2>1
  <2>3. \A k \in 0 .. n + 1 : k \in 0 .. n \/ k = n + 1
    OBVIOUS
  <2> QED  BY <1>2, <2>2, <2>3
<1>3. Nat \subseteq S
  <2> HIDE DEF S
  <2> QED  BY <1>1, <1>2, SetInduction
<1>4. PICK x \in T : TRUE
  OBVIOUS
<1>5. x \in S /\ x \in 0 .. x
  <2> HIDE DEF S
  <2> QED  BY <1>3
<1> QED  BY <1>5

\* What passes has passed every check.
LEMMA FirstErrorFinds ==
  ASSUME NEW checks, DOMAIN checks \subseteq Nat, FirstError(checks) = "ok"
  PROVE  \A i \in DOMAIN checks : checks[i] = "ok"
<1> DEFINE errors == {i \in DOMAIN checks : checks[i] # "ok"}
<1> SUFFICES ASSUME errors # {} PROVE FALSE
  OBVIOUS
<1>1. Min(errors) \in errors
  BY LeastElement
<1> QED  BY <1>1 DEF FirstError

LEMMA FunctionIsSeq ==
  ASSUME NEW S, NEW n \in Nat, NEW f \in [1 .. n -> S]
  PROVE  f \in Seq(S) /\ Len(f) = n
OBVIOUS

LEMMA MapIsSeq ==
  ASSUME NEW S, NEW T, NEW seq \in Seq(T), NEW f,
         f = [i \in DOMAIN seq |-> f[i]], \A i \in DOMAIN seq : f[i] \in S
  PROVE  f \in Seq(S) /\ Len(f) = Len(seq) /\ DOMAIN f = DOMAIN seq
<1>1. Len(seq) \in Nat /\ DOMAIN seq = 1 .. Len(seq)
  BY LenProperties
<1>2. f \in [1 .. Len(seq) -> S]
  BY <1>1
<1> QED  BY <1>1, <1>2, FunctionIsSeq

LEMMA ConfigurationTypes ==
  ASSUME NEW c \in Configuration
  PROVE  /\ c.sensor_groups \in Seq(SensorGroup) /\ c.drivers \in Seq(Driver)
         /\ c.ignition_sequence \in Seq(Action) /\ c.estop_sequence \in Seq(Action)
         /\ c.adc_cs \in Seq(Byte) /\ c.spi_mosi \in Byte /\ c.spi_miso \in Byte
         /\ c.spi_clk \in Byte /\ c.pin_heartbeat \in Byte
  BY DEF Configuration

Verdicts ==
  {"ok", "ClockTooSlow", "NoSuchAdc", "BadChannel", "NoSuchDriver", "ReservedPin",
   "DuplicatePin"}

LEMMA VerdictType ==
  ASSUME NEW bad, NEW error \in Verdicts
  PROVE  Verdict(bad, error) \in Verdicts
<1>1. CASE bad
  BY <1>1 DEF Verdict
<1>2. CASE ~ bad
  BY <1>2 DEF Verdict, Verdicts
<1> QED  BY <1>1, <1>2

LEMMA ConcatIs ==
  ASSUME NEW S, NEW s \in Seq(S), NEW t \in Seq(S)
  PROVE  /\ Len(s) \in Nat /\ Len(t) \in Nat
         /\ s \o t \in Seq(S) /\ Len(s \o t) = Len(s) + Len(t)
         /\ \A i \in 1 .. Len(s) : (s \o t)[i] = s[i]
         /\ \A j \in 1 .. Len(t) : (s \o t)[Len(s) + j] = t[j]
<1> DEFINE m == Len(s)
           n == Len(t)
<1>1. /\ s \o t \in Seq(S) /\ Len(s \o t) = m + n /\ m \in Nat /\ n \in Nat
      /\ \A k \in 1 .. m + n : (s \o t)[k] = IF k <= m THEN s[k] ELSE t[k - m]
  BY ConcatProperties, LenProperties
<1>2. ASSUME NEW i \in 1 .. m PROVE (s \o t)[i] = s[i]
  <2>1. i \in 1 .. m + n /\ i <= m
    BY <1>1
  <2> QED  BY <1>1, <2>1
<1>3. ASSUME NEW j \in 1 .. n PROVE (s \o t)[m + j] = t[j]
  <2>1. m + j \in 1 .. m + n /\ ~ (m + j <= m) /\ (m + j) - m = j
    BY <1>1
  <2> QED  BY <1>1, <2>1
<1> QED  BY <1>1, <1>2, <1>3

LEMMA SensorChecksHold ==
  ASSUME NEW c \in Configuration
  PROVE  /\ SensorChecks(c) \in Seq(Verdicts)
         /\ \A g \in DOMAIN c.sensor_groups : \A s \in DOMAIN c.sensor_groups[g].sensors :
              \E k \in DOMAIN SensorChecks(c) :
                SensorChecks(c)[k]
                  = Verdict(c.sensor_groups[g].sensors[s].adc >= Len(c.adc_cs), "NoSuchAdc")
<1> DEFINE Checks(s) == <<Verdict(s.adc >= Len(c.adc_cs), "NoSuchAdc"),
                          Verdict(s.channel >= 8, "BadChannel")>>
           Inner(g) == [s \in DOMAIN c.sensor_groups[g].sensors |->
                          Checks(c.sensor_groups[g].sensors[s])]
           Outer == [g \in DOMAIN c.sensor_groups |-> FlattenSeq(Inner(g))]
<1>1. SensorChecks(c) = FlattenSeq(Outer)
  BY DEF SensorChecks, Map
<1>2. ASSUME NEW s
      PROVE  Checks(s) \in Seq(Verdicts) /\ 1 \in DOMAIN Checks(s)
             /\ Checks(s)[1] = Verdict(s.adc >= Len(c.adc_cs), "NoSuchAdc")
  <2>1. Verdict(s.adc >= Len(c.adc_cs), "NoSuchAdc") \in Verdicts
    BY VerdictType DEF Verdicts
  <2>2. Verdict(s.channel >= 8, "BadChannel") \in Verdicts
    BY VerdictType DEF Verdicts
  <2> QED  BY <2>1, <2>2
<1> HIDE DEF Checks
<1>3. c.sensor_groups \in Seq(SensorGroup)
  BY ConfigurationTypes
<1>4. ASSUME NEW g \in DOMAIN c.sensor_groups
      PROVE  /\ Inner(g) \in Seq(Seq(Verdicts))
             /\ DOMAIN Inner(g) = DOMAIN c.sensor_groups[g].sensors
  <2>1. c.sensor_groups[g] \in SensorGroup
    BY <1>3, <1>4, ElementOfSeq, LenProperties
  <2>2. c.sensor_groups[g].sensors \in Seq(Sensor)
    BY <2>1 DEF SensorGroup
  <2>3. Inner(g) = [s \in DOMAIN c.sensor_groups[g].sensors |-> Inner(g)[s]]
    OBVIOUS
  <2>4. \A s \in DOMAIN c.sensor_groups[g].sensors : Inner(g)[s] \in Seq(Verdicts)
    BY <1>2
  <2>5. Inner(g) = [s \in DOMAIN c.sensor_groups[g].sensors |-> Inner(g)[s]]
        /\ DOMAIN Inner(g) = DOMAIN c.sensor_groups[g].sensors
    OBVIOUS
  <2> DEFINE inner == Inner(g)
             sensors == c.sensor_groups[g].sensors
  <2>6. inner = [s \in DOMAIN sensors |-> inner[s]]
    BY <2>3
  <2>7. sensors \in Seq(Sensor) /\ \A s \in DOMAIN sensors : inner[s] \in Seq(Verdicts)
    BY <2>2, <2>4
  <2> HIDE DEF Inner, inner, sensors
  <2>8. inner \in Seq(Seq(Verdicts))
    BY <2>6, <2>7, MapIsSeq
  <2> QED  BY <2>5, <2>8 DEF inner
<1>5. \A g \in DOMAIN c.sensor_groups : \A s \in DOMAIN c.sensor_groups[g].sensors :
        Inner(g)[s] = Checks(c.sensor_groups[g].sensors[s])
  OBVIOUS
<1>6. DOMAIN Outer = DOMAIN c.sensor_groups
      /\ \A g \in DOMAIN c.sensor_groups : Outer[g] = FlattenSeq(Inner(g))
  OBVIOUS
<1>7. Outer = [g \in DOMAIN c.sensor_groups |-> Outer[g]]
  OBVIOUS
<1> HIDE DEF Inner, Outer
<1>8. Outer \in Seq(Seq(Verdicts))
  <2>1. \A g \in DOMAIN c.sensor_groups : Outer[g] \in Seq(Verdicts)
    BY <1>4, <1>6, FlattenKeepsAll
  <2> QED  BY <1>3, <1>7, <2>1, MapIsSeq
<1>9. ASSUME NEW g \in DOMAIN c.sensor_groups,
             NEW s \in DOMAIN c.sensor_groups[g].sensors
      PROVE  \E k \in DOMAIN FlattenSeq(Outer) :
               FlattenSeq(Outer)[k]
                 = Verdict(c.sensor_groups[g].sensors[s].adc >= Len(c.adc_cs), "NoSuchAdc")
  <2>1. PICK j \in DOMAIN FlattenSeq(Inner(g)) :
          FlattenSeq(Inner(g))[j] = Checks(c.sensor_groups[g].sensors[s])[1]
    <3>1. Holds(FlattenSeq(Inner(g)), Inner(g)[s])
      BY <1>4, <1>9, FlattenKeepsAll
    <3>2. 1 \in DOMAIN Inner(g)[s]
          /\ Inner(g)[s][1] = Checks(c.sensor_groups[g].sensors[s])[1]
      BY <1>2, <1>5, <1>9, ZenonT(60)
    <3> QED  BY <3>1, <3>2 DEF Holds
  <2>2. Holds(FlattenSeq(Outer), Outer[g])
    BY <1>6, <1>8, <1>9, FlattenKeepsAll
  <2>3. PICK k \in DOMAIN FlattenSeq(Outer) :
          FlattenSeq(Outer)[k] = FlattenSeq(Inner(g))[j]
    BY <1>6, <1>9, <2>2 DEF Holds
  <2> QED  BY <1>2, <2>1, <2>3
<1> QED  BY <1>1, <1>8, <1>9, FlattenKeepsAll

LEMMA ActionChecksHold ==
  ASSUME NEW c \in Configuration
  PROVE  LET actions == c.ignition_sequence \o c.estop_sequence
         IN  /\ actions \in Seq(Action)
             /\ ActionChecks(c) \in Seq(Verdicts)
             /\ DOMAIN ActionChecks(c) = DOMAIN actions
             /\ \A i \in DOMAIN actions :
                  ActionChecks(c)[i]
                    = Verdict(actions[i].type = "Actuate"
                                /\ actions[i].driver_id > Len(c.drivers), "NoSuchDriver")
<1> DEFINE actions == c.ignition_sequence \o c.estop_sequence
           Check(a) == Verdict(a.type = "Actuate" /\ a.driver_id > Len(c.drivers),
                               "NoSuchDriver")
           checks == ActionChecks(c)
<1>1. actions \in Seq(Action)
  BY ConfigurationTypes, ConcatProperties
<1>2. checks = [i \in DOMAIN actions |-> Check(actions[i])]
  BY DEF ActionChecks, Map
<1>3. \A i \in DOMAIN actions : checks[i] = Check(actions[i])
  BY <1>2
<1>4. \A i \in DOMAIN actions : Check(actions[i]) \in Verdicts
  BY VerdictType DEF Verdicts
<1>5. checks = [i \in DOMAIN actions |-> checks[i]]
      /\ \A i \in DOMAIN actions : checks[i] \in Verdicts
  <2> HIDE DEF Check, checks, actions
  <2> QED  BY <1>2, <1>3, <1>4
<1>6. checks \in Seq(Verdicts) /\ DOMAIN checks = DOMAIN actions
  <2> HIDE DEF Check, checks, actions
  <2> QED  BY <1>1, <1>5, MapIsSeq
<1> QED  BY <1>1, <1>3, <1>6

\* Where PinsUsed has each pin.
LEMMA PinsUsedAre ==
  ASSUME NEW c \in Configuration
  PROVE  LET n == Len(c.adc_cs)
             d == Len(c.drivers)
         IN  /\ n \in Nat /\ d \in Nat
             /\ PinsUsed(c) \in Seq(Byte) /\ Len(PinsUsed(c)) = d + 3 + n
             /\ \A i \in 1 .. d : PinsUsed(c)[i] = c.drivers[i].pin
             /\ PinsUsed(c)[d + 1] = c.spi_mosi
             /\ PinsUsed(c)[d + 2] = c.spi_miso
             /\ PinsUsed(c)[d + 3] = c.spi_clk
             /\ \A i \in 1 .. n : PinsUsed(c)[d + 3 + i] = c.adc_cs[i]
<1> DEFINE n == Len(c.adc_cs)
           d == Len(c.drivers)
           Pins == [i \in DOMAIN c.drivers |-> c.drivers[i].pin]
           Bus == <<c.spi_mosi, c.spi_miso, c.spi_clk>>
<1>1. /\ c.adc_cs \in Seq(Byte) /\ c.drivers \in Seq(Driver)
      /\ n \in Nat /\ d \in Nat /\ DOMAIN c.drivers = 1 .. d
  BY ConfigurationTypes, LenProperties
<1>2. Pins \in Seq(Byte) /\ Len(Pins) = d /\ \A i \in 1 .. d : Pins[i] = c.drivers[i].pin
  <2>1. \A i \in 1 .. d : c.drivers[i] \in Driver
    BY <1>1, ElementOfSeq
  <2>2. \A x \in Driver : x.pin \in Byte
    BY DEF Driver
  <2>3. Pins \in [1 .. d -> Byte]
    BY <1>1, <2>1, <2>2
  <2> QED  BY <1>1, <2>3, FunctionIsSeq
<1>3. Bus \in Seq(Byte) /\ Len(Bus) = 3
      /\ Bus[1] = c.spi_mosi /\ Bus[2] = c.spi_miso /\ Bus[3] = c.spi_clk
  BY ConfigurationTypes
<1>4. PinsUsed(c) = (Pins \o Bus) \o c.adc_cs
  BY DEF PinsUsed, Map
<1> DEFINE P == Pins \o Bus
           Q == P \o c.adc_cs
<1> HIDE DEF Pins, Bus, n, d
<1>5. /\ P \in Seq(Byte) /\ Len(P) = d + 3
      /\ \A i \in 1 .. d : P[i] = Pins[i]
      /\ \A i \in 1 .. 3 : P[d + i] = Bus[i]
  <2>1. Pins \in Seq(Byte) /\ Bus \in Seq(Byte) /\ d = Len(Pins) /\ 3 = Len(Bus)
    BY <1>2, <1>3
  <2> QED  BY <2>1, ConcatIs, SMTT(30)
<1> HIDE DEF P
<1>6. /\ Q \in Seq(Byte) /\ Len(Q) = d + 3 + n
      /\ \A i \in 1 .. d + 3 : Q[i] = P[i]
      /\ \A i \in 1 .. n : Q[d + 3 + i] = c.adc_cs[i]
  <2>1. P \in Seq(Byte) /\ c.adc_cs \in Seq(Byte) /\ d + 3 = Len(P) /\ n = Len(c.adc_cs)
    BY <1>1, <1>5 DEF n
  <2>2. /\ Q \in Seq(Byte) /\ Len(Q) = Len(P) + Len(c.adc_cs)
        /\ \A i \in 1 .. Len(P) : Q[i] = P[i]
        /\ \A i \in 1 .. Len(c.adc_cs) : Q[Len(P) + i] = c.adc_cs[i]
    BY <2>1, ConcatIs
  <2> HIDE DEF Q
  <2> QED  BY <2>1, <2>2
<1> HIDE DEF Q
<1>7. PinsUsed(c) = Q
  BY <1>4 DEF P, Q
<1>8. \A i \in 1 .. d : PinsUsed(c)[i] = c.drivers[i].pin
  BY <1>1, <1>2, <1>5, <1>6, <1>7
<1>9. \A i \in 1 .. 3 : PinsUsed(c)[d + i] = Bus[i]
  BY <1>1, <1>5, <1>6, <1>7, SMTT(30)
<1>10. /\ PinsUsed(c)[d + 1] = c.spi_mosi
       /\ PinsUsed(c)[d + 2] = c.spi_miso
       /\ PinsUsed(c)[d + 3] = c.spi_clk
  BY <1>3, <1>9
<1> QED  BY <1>1, <1>6, <1>7, <1>8, <1>10 DEF n, d

LEMMA PinChecksHold ==
  ASSUME NEW c \in Configuration
  PROVE  /\ PinChecks(c) \in Seq(Verdicts)
         /\ DOMAIN PinChecks(c) = DOMAIN PinsUsed(c)
         /\ \A i \in DOMAIN PinsUsed(c) : PinChecks(c)[i] = "ok" =>
              /\ IsLegal(PinsUsed(c)[i])
              /\ \A j \in 1 .. i - 1 : PinsUsed(c)[j] # PinsUsed(c)[i]
<1> DEFINE pins == PinsUsed(c)
           Duplicate(i) == \E j \in 1 .. i - 1 : pins[j] = pins[i]
           Check(i) == IF ~ IsLegal(pins[i]) THEN "ReservedPin"
                       ELSE Verdict(Duplicate(i), "DuplicatePin")
           checks == PinChecks(c)
<1>1. pins \in Seq(Byte)
  BY PinsUsedAre
<1>2. checks = [i \in DOMAIN pins |-> Check(i)]
  BY DEF PinChecks
<1>3. ASSUME NEW i PROVE Check(i) \in Verdicts
  <2> HIDE DEF Duplicate, pins
  <2>1. Verdict(Duplicate(i), "DuplicatePin") \in Verdicts
    BY VerdictType DEF Verdicts
  <2> QED  BY <2>1 DEF Verdicts
<1>4. ASSUME NEW i, Check(i) = "ok"
      PROVE  IsLegal(pins[i]) /\ \A j \in 1 .. i - 1 : pins[j] # pins[i]
  <2>1. IsLegal(pins[i]) /\ ~ Duplicate(i)
    <3> HIDE DEF Duplicate, pins
    <3> QED  BY <1>4 DEF Verdict
  <2> QED  BY <2>1
<1> HIDE DEF Check, checks, pins
<1>5. \A i \in DOMAIN pins : checks[i] = Check(i)
  BY <1>2
<1>6. checks = [i \in DOMAIN pins |-> checks[i]]
      /\ \A i \in DOMAIN pins : checks[i] \in Verdicts
  BY <1>2, <1>3, <1>5
<1>7. checks \in Seq(Verdicts) /\ DOMAIN checks = DOMAIN pins
  BY <1>1, <1>6, MapIsSeq
<1> QED  BY <1>4, <1>5, <1>7 DEF checks, pins

LEMMA HoldsAll ==
  ASSUME NEW t, NEW s, Holds(t, s), \A k \in DOMAIN t : t[k] = "ok"
  PROVE  \A j \in DOMAIN s : s[j] = "ok"
BY DEF Holds

\* Of a configuration that is accepted, every value has passed its check.
LEMMA ParseAccepts ==
  ASSUME NEW c \in Configuration, Parse(c) = "ok"
  PROVE  /\ \A k \in DOMAIN SensorChecks(c) : SensorChecks(c)[k] = "ok"
         /\ \A k \in DOMAIN ActionChecks(c) : ActionChecks(c)[k] = "ok"
         /\ \A k \in DOMAIN PinChecks(c) : PinChecks(c)[k] = "ok"
<1> DEFINE A == ClockChecks(c)
           B == SensorChecks(c)
           C == ActionChecks(c)
           D == PinChecks(c)
           AB == A \o B
           ABC == AB \o C
           T == ABC \o D
<1>1. A \in Seq(Verdicts)
  <2>1. Verdict(c.spi_frequency_clk < SPI_MIN_FREQUENCY, "ClockTooSlow") \in Verdicts
    BY VerdictType DEF Verdicts
  <2> QED  BY <2>1 DEF ClockChecks
<1>2. B \in Seq(Verdicts) /\ C \in Seq(Verdicts) /\ D \in Seq(Verdicts)
  BY SensorChecksHold, ActionChecksHold, PinChecksHold
<1>3. FirstError(T) = "ok"
  BY DEF Parse
<1> HIDE DEF A, B, C, D
<1>4. AB \in Seq(Verdicts) /\ Holds(AB, B)
  BY <1>1, <1>2, ConcatHolds
<1> HIDE DEF AB
<1>5. ABC \in Seq(Verdicts) /\ Holds(ABC, AB) /\ Holds(ABC, C)
  BY <1>2, <1>4, ConcatHolds
<1> HIDE DEF ABC
<1>6. T \in Seq(Verdicts) /\ Holds(T, ABC) /\ Holds(T, D)
  BY <1>2, <1>5, ConcatHolds
<1> HIDE DEF T
<1>7. \A k \in DOMAIN T : T[k] = "ok"
  <2>1. DOMAIN T \subseteq Nat
    BY <1>6, LenProperties
  <2> QED  BY <1>3, <2>1, FirstErrorFinds
<1>8. \A k \in DOMAIN ABC : ABC[k] = "ok"
  BY <1>6, <1>7, HoldsAll
<1>9. \A k \in DOMAIN AB : AB[k] = "ok"
  BY <1>5, <1>8, HoldsAll
<1> QED  BY <1>4, <1>5, <1>6, <1>7, <1>8, <1>9, HoldsAll DEF B, C, D

\* Its sensors have ADCs.
LEMMA AdcsExist ==
  ASSUME NEW c \in Configuration, Parse(c) = "ok",
         NEW g \in DOMAIN c.sensor_groups, NEW s \in DOMAIN c.sensor_groups[g].sensors
  PROVE  ~ c.sensor_groups[g].sensors[s].adc >= Len(c.adc_cs)
<1> DEFINE bad == c.sensor_groups[g].sensors[s].adc >= Len(c.adc_cs)
<1>1. PICK k \in DOMAIN SensorChecks(c) : SensorChecks(c)[k] = Verdict(bad, "NoSuchAdc")
  BY SensorChecksHold
<1> HIDE DEF bad
<1>2. Verdict(bad, "NoSuchAdc") = "ok"
  BY <1>1, ParseAccepts
<1>3. ~ bad
  BY <1>2 DEF Verdict
<1> QED  BY <1>3 DEF bad

\* Its actions have drivers, or are off the end by one.
LEMMA DriversExist ==
  ASSUME NEW c \in Configuration, Parse(c) = "ok",
         NEW a \in Range(c.ignition_sequence \o c.estop_sequence)
  PROVE  ~ (a.type = "Actuate" /\ a.driver_id > Len(c.drivers))
<1> DEFINE actions == c.ignition_sequence \o c.estop_sequence
           bad == a.type = "Actuate" /\ a.driver_id > Len(c.drivers)
<1>1. PICK i \in DOMAIN actions : a = actions[i]
  BY DEF Range
<1>2. ActionChecks(c)[i] = Verdict(bad, "NoSuchDriver") /\ i \in DOMAIN ActionChecks(c)
  BY <1>1, ActionChecksHold
<1> HIDE DEF bad
<1>3. Verdict(bad, "NoSuchDriver") = "ok"
  BY <1>2, ParseAccepts
<1>4. ~ bad
  BY <1>3 DEF Verdict
<1> QED  BY <1>4 DEF bad

\* Its pins are legal, and no two of them the same.
LEMMA PinsAccepted ==
  ASSUME NEW c \in Configuration, Parse(c) = "ok"
  PROVE  /\ \A i \in DOMAIN PinsUsed(c) : IsLegal(PinsUsed(c)[i])
         /\ \A i, j \in DOMAIN PinsUsed(c) : i # j => PinsUsed(c)[i] # PinsUsed(c)[j]
<1>1. \A i \in DOMAIN PinsUsed(c) :
        /\ IsLegal(PinsUsed(c)[i])
        /\ \A j \in 1 .. i - 1 : PinsUsed(c)[j] # PinsUsed(c)[i]
  BY ParseAccepts, PinChecksHold
<1>2. ASSUME NEW i \in DOMAIN PinsUsed(c), NEW j \in DOMAIN PinsUsed(c), i # j
      PROVE  PinsUsed(c)[i] # PinsUsed(c)[j]
  <2>1. DOMAIN PinsUsed(c) = 1 .. Len(PinsUsed(c)) /\ Len(PinsUsed(c)) \in Nat
    BY PinsUsedAre, LenProperties
  <2>2. i \in 1 .. j - 1 \/ j \in 1 .. i - 1
    BY <1>2, <2>1
  <2> QED  BY <1>1, <2>2
<1> QED  BY <1>1, <1>2

-----------------------------------------------------------------------------
\* What run makes of a configuration.

\* A path goes from name to name.
LEMMA TrailGoes ==
  ASSUME NEW path, Len(path.names) \in Nat
  PROVE  /\ DOMAIN Trail(path) = 0 .. Len(path.names)
         /\ Trail(path)[0] = path.from
         /\ \A n \in 1 .. Len(path.names) :
              Trail(path)[n] = Go(Trail(path)[n - 1], path.names[n])
<1> DEFINE Goes(f, k) ==
             f = [n \in 0 .. k |-> IF n = 0 THEN path.from ELSE Go(f[n - 1], path.names[n])]
           E == {k \in Nat : \E f : Goes(f, k)}
           at == CHOOSE f : Goes(f, Len(path.names))
<1>1. 0 \in E
  <2>1. Goes([n \in 0 .. 0 |-> path.from], 0)
    OBVIOUS
  <2> HIDE DEF Goes
  <2> QED  BY <2>1
<1>2. ASSUME NEW k \in Nat, k \in E PROVE k + 1 \in E
  <2>1. PICK f : Goes(f, k)
    BY <1>2
  <2> DEFINE g == [n \in 0 .. k + 1 |-> IF n \in 0 .. k THEN f[n] ELSE Go(f[n - 1], path.names[n])]
  <2>2. ASSUME NEW n \in 0 .. k + 1
        PROVE  g[n] = IF n = 0 THEN path.from ELSE Go(g[n - 1], path.names[n])
    <3>1. CASE n \in 0 .. k
      <4>1. g[n] = f[n] /\ (n # 0 => g[n - 1] = f[n - 1])
        BY <3>1
      <4>2. f[n] = IF n = 0 THEN path.from ELSE Go(f[n - 1], path.names[n])
        BY <2>1, <3>1
      <4> QED  BY <4>1, <4>2
    <3>2. CASE n = k + 1
      <4>1. g[n] = Go(f[n - 1], path.names[n])
        BY <3>2
      <4>2. n # 0 /\ g[n - 1] = f[n - 1]
        BY <3>2
      <4> QED  BY <4>1, <4>2
    <3> QED  BY <3>1, <3>2
  <2>3. Goes(g, k + 1)
    BY <2>2
  <2>4. \E h : Goes(h, k + 1)
    <3> HIDE DEF g, Goes
    <3> QED  BY <2>3
  <2> HIDE DEF Goes
  <2> QED  BY <2>4
<1>3. Goes(at, Len(path.names))
  <2> HIDE DEF E
  <2>1. Len(path.names) \in E
    BY <1>1, <1>2, SetInduction
  <2> HIDE DEF Goes
  <2> QED  BY <2>1 DEF E
<1>4. Trail(path) = at
  BY DEF Trail
<1> DEFINE trail == Trail(path)
<1>5. trail = [n \in 0 .. Len(path.names) |->
                 IF n = 0 THEN path.from ELSE Go(trail[n - 1], path.names[n])]
  BY <1>3, <1>4
<1> HIDE DEF trail
<1>6. /\ DOMAIN trail = 0 .. Len(path.names)
      /\ trail[0] = path.from
      /\ \A n \in 1 .. Len(path.names) : trail[n] = Go(trail[n - 1], path.names[n])
  BY <1>5
<1> QED  BY <1>6 DEF trail

\* A name that leads downwards.
Down(name) == name \notin {"", ".", ".."}

LEMMA OneName ==
  ASSUME NEW path, NEW x, path.names = <<x>>, Down(x)
  PROVE  /\ Place(path) = Append(path.from, x)
         /\ Ways(path) = {path.from}
         /\ Range(Trail(path)) = {path.from, Append(path.from, x)}
<1>1. Len(path.names) = 1 /\ path.names[1] = x
  OBVIOUS
<1>2. Go(path.from, x) = Append(path.from, x)
  BY DEF Go, Down
<1> DEFINE trail == Trail(path)
<1>3. /\ DOMAIN trail = 0 .. Len(path.names)
      /\ trail[0] = path.from
      /\ \A n \in 1 .. Len(path.names) : trail[n] = Go(trail[n - 1], path.names[n])
      /\ Place(path) = trail[Len(path.names)]
      /\ Ways(path) = {trail[n] : n \in 0 .. Len(path.names) - 1}
  BY <1>1, TrailGoes DEF Place, Ways
<1> HIDE DEF trail
<1>4. trail[1] = Go(trail[0], path.names[1])
  <2>1. 1 \in 1 .. Len(path.names) /\ 1 - 1 = 0
    BY <1>1
  <2> QED  BY <1>3, <2>1
<1>5. 0 .. Len(path.names) = {0, 1} /\ 0 .. Len(path.names) - 1 = {0}
  BY <1>1
<1>6. Range(trail) = {trail[0], trail[1]} /\ Ways(path) = {trail[0]}
  BY <1>3, <1>5 DEF Range
<1> QED  BY <1>1, <1>2, <1>3, <1>4, <1>6 DEF trail

LEMMA TwoNames ==
  ASSUME NEW path, NEW x, NEW y, path.names = <<x, y>>, Down(x), Down(y)
  PROVE  /\ Place(path) = Append(Append(path.from, x), y)
         /\ Ways(path) = {path.from, Append(path.from, x)}
<1>1. Len(path.names) = 2 /\ path.names[1] = x /\ path.names[2] = y
  OBVIOUS
<1>2. Go(path.from, x) = Append(path.from, x)
      /\ Go(Append(path.from, x), y) = Append(Append(path.from, x), y)
  BY DEF Go, Down
<1> DEFINE trail == Trail(path)
<1>3. /\ trail[0] = path.from
      /\ \A n \in 1 .. Len(path.names) : trail[n] = Go(trail[n - 1], path.names[n])
      /\ Place(path) = trail[Len(path.names)]
      /\ Ways(path) = {trail[n] : n \in 0 .. Len(path.names) - 1}
  BY <1>1, TrailGoes DEF Place, Ways
<1> HIDE DEF trail
<1>4. trail[1] = Go(trail[0], path.names[1]) /\ trail[2] = Go(trail[1], path.names[2])
  <2>1. 1 \in 1 .. Len(path.names) /\ 1 - 1 = 0 /\ 2 \in 1 .. Len(path.names) /\ 2 - 1 = 1
    BY <1>1
  <2> QED  BY <1>3, <2>1
<1>5. Ways(path) = {trail[0], trail[1]}
  <2>1. 0 .. Len(path.names) - 1 = {0, 1}
    BY <1>1
  <2> QED  BY <1>3, <2>1
<1> QED  BY <1>1, <1>2, <1>3, <1>4, <1>5

\* The logs that every run has lie in the logs path.
LEMMA FixedPlaces ==
  ASSUME NEW d
  PROVE  /\ ConsolePath(d).names = <<"console.txt">>
         /\ Place(ConsolePath(d)) = Append(d, "console.txt") /\ Ways(ConsolePath(d)) = {d}
         /\ \A n \in 1 .. 3 :
              LET name == <<"commands.csv", "drivers.csv", "sent.csv">>[n]
              IN  /\ FinalPath(d, n).names = <<name>>
                  /\ Place(FinalPath(d, n)) = Append(d, name) /\ Ways(FinalPath(d, n)) = {d}
<1>1. ASSUME NEW name, name \in {"console.txt", "commands.csv", "drivers.csv", "sent.csv"}
      PROVE  LET path == Push(InLogs(d), <<name>>)
             IN  /\ path.names = <<name>>
                 /\ Place(path) = Append(d, name) /\ Ways(path) = {d}
  <2> DEFINE path == Push(InLogs(d), <<name>>)
  <2>1. path.from = d /\ path.names = <<name>>
    BY DEF Push, InLogs
  <2>2. Down(name)
    BY <1>1 DEF Down
  <2> HIDE DEF path
  <2>3. Place(path) = Append(d, name) /\ Ways(path) = {d}
    BY <2>1, <2>2, OneName
  <2> QED  BY <2>1, <2>3 DEF path
<1>2. \A n \in 1 .. 3 : <<"commands.csv", "drivers.csv", "sent.csv">>[n]
                          \in {"console.txt", "commands.csv", "drivers.csv", "sent.csv"}
  OBVIOUS
<1> QED  BY <1>1, <1>2 DEF ConsolePath, FinalPath

\* The names that plain labels give to directories and files.
GroupName(c, g)     == c.sensor_groups[g].label[1]
SensorName(c, i)    == Csv(c.sensor_groups[i[1]].sensors[i[2]].label)[1]

LEMMA SensorTypes ==
  ASSUME NEW c \in Configuration, NEW i \in SensorIds(c)
  PROVE  /\ i[1] \in DOMAIN c.sensor_groups
         /\ i[2] \in DOMAIN c.sensor_groups[i[1]].sensors
         /\ c.sensor_groups[i[1]].sensors \in Seq(Sensor)
         /\ c.sensor_groups[i[1]].sensors[i[2]].label \in Label
         /\ i = <<i[1], i[2]>>
<1>1. PICK g \in DOMAIN c.sensor_groups : i \in {g} \X DOMAIN c.sensor_groups[g].sensors
  BY DEF SensorIds
<1>2. i[1] = g /\ i[2] \in DOMAIN c.sensor_groups[g].sensors /\ i = <<i[1], i[2]>>
  BY <1>1
<1>3. c.sensor_groups[g].sensors \in Seq(Sensor)
  <2>1. c.sensor_groups \in Seq(SensorGroup)
    BY ConfigurationTypes
  <2>2. c.sensor_groups[g] \in SensorGroup
    BY <2>1, ElementOfSeq, LenProperties
  <2> QED  BY <2>2 DEF SensorGroup
<1> DEFINE sensors == c.sensor_groups[g].sensors
<1>4. sensors[i[2]] \in Sensor
  <2> HIDE DEF sensors
  <2> QED  BY <1>2, <1>3, ElementOfSeq, LenProperties DEF sensors
<1>5. sensors[i[2]].label \in Label
  BY <1>4 DEF Sensor
<1> QED  BY <1>2, <1>3, <1>5

LEMMA OneAndOne ==
  ASSUME NEW x, NEW y
  PROVE  <<x>> \o <<y>> = <<x, y>>
<1> DEFINE s == <<x>>
           t == <<y>>
<1>1. s \in Seq({x, y}) /\ t \in Seq({x, y}) /\ Len(s) = 1 /\ Len(t) = 1 /\ s[1] = x /\ t[1] = y
  OBVIOUS
<1> HIDE DEF s, t
<1> DEFINE u == s \o t
<1>2. /\ u \in Seq({x, y}) /\ Len(u) = Len(s) + Len(t)
      /\ \A k \in 1 .. Len(s) : u[k] = s[k]
      /\ \A k \in 1 .. Len(t) : u[Len(s) + k] = t[k]
  BY <1>1, ConcatIs
<1> HIDE DEF u
<1>3. Len(u) = 2 /\ u[1] = x /\ u[2] = y
  <2>1. 1 \in 1 .. Len(s) /\ 1 \in 1 .. Len(t) /\ Len(s) + 1 = 2 /\ Len(s) + Len(t) = 2
    BY <1>1
  <2> QED  BY <1>1, <1>2, <2>1
<1> DEFINE w == <<x, y>>
<1>4. w \in Seq({x, y}) /\ Len(w) = 2 /\ w[1] = x /\ w[2] = y
  OBVIOUS
<1> HIDE DEF w
<1>5. \A k \in 1 .. Len(u) : u[k] = w[k]
  <2>1. 1 .. Len(u) = {1, 2}
    BY <1>3
  <2> QED  BY <1>3, <1>4, <2>1
<1>6. u = w
  BY <1>2, <1>3, <1>4, <1>5, SeqEqual
<1> QED  BY <1>6 DEF s, t, u, w

\* A plain label is pushed as one name.
LEMMA PlainPush ==
  ASSUME NEW S, NEW label \in Seq(S), Plain(label), NEW d, NEW names
  PROVE  /\ label = <<label[1]>> /\ Down(label[1])
         /\ Push([from |-> d, names |-> names], label)
              = [from |-> d, names |-> names \o <<label[1]>>]
<1>1. Len(label) = 1 /\ Down(label[1])
  BY DEF Plain, Down
<1>2. label = <<label[1]>>
  BY <1>1
<1> DEFINE path == [from |-> d, names |-> names]
           longer == names \o label
<1>3. Push(path, label) = [path EXCEPT !.names = longer]
  BY <1>1 DEF Push
<1> HIDE DEF longer
<1>4. [path EXCEPT !.names = longer] = [from |-> d, names |-> longer]
  OBVIOUS
<1> QED  BY <1>1, <1>2, <1>3, <1>4 DEF longer

LEMMA PlainPaths ==
  ASSUME NEW c \in Configuration, NEW d, PlainLabels(c, d)
  PROVE  /\ \A g \in DOMAIN c.sensor_groups :
              /\ c.sensor_groups[g].label = <<GroupName(c, g)>> /\ Down(GroupName(c, g))
              /\ GroupPath(c, d, g) = [from |-> d, names |-> <<GroupName(c, g)>>]
         /\ \A i \in SensorIds(c) :
              LET label == c.sensor_groups[i[1]].sensors[i[2]].label
              IN  /\ Csv(label) = <<SensorName(c, i)>> /\ Down(SensorName(c, i))
                  /\ SensorPath(c, d, i[1], i[2])
                       = [from |-> d, names |-> <<GroupName(c, i[1]), SensorName(c, i)>>]
<1>1. ASSUME NEW g \in DOMAIN c.sensor_groups
      PROVE  /\ c.sensor_groups[g].label = <<GroupName(c, g)>> /\ Down(GroupName(c, g))
             /\ GroupPath(c, d, g) = [from |-> d, names |-> <<GroupName(c, g)>>]
  <2> DEFINE label == c.sensor_groups[g].label
  <2>1. c.sensor_groups[g] \in SensorGroup
    BY ConfigurationTypes, ElementOfSeq, LenProperties
  <2>2. label \in Seq(STRING) /\ Plain(label)
    BY <2>1 DEF SensorGroup, Label, PlainLabels
  <2> HIDE DEF label
  <2>3. InLogs(d) = [from |-> d, names |-> <<>>]
    BY DEF InLogs
  <2>4. /\ label = <<label[1]>> /\ Down(label[1])
        /\ Push([from |-> d, names |-> <<>>], label) = [from |-> d, names |-> <<>> \o <<label[1]>>]
    BY <2>2, PlainPush
  <2>5. <<>> \o <<label[1]>> = <<label[1]>>
    OBVIOUS
  <2> QED  BY <2>3, <2>4, <2>5 DEF label, GroupName, GroupPath
<1>2. ASSUME NEW i \in SensorIds(c)
      PROVE  LET label == c.sensor_groups[i[1]].sensors[i[2]].label
             IN  /\ Csv(label) = <<SensorName(c, i)>> /\ Down(SensorName(c, i))
                 /\ SensorPath(c, d, i[1], i[2])
                      = [from |-> d, names |-> <<GroupName(c, i[1]), SensorName(c, i)>>]
  <2> DEFINE label == c.sensor_groups[i[1]].sensors[i[2]].label
             last  == label[Len(label)] \o ".csv"
  <2>1. label \in Seq(STRING) /\ Plain(Csv(label)) /\ i[1] \in DOMAIN c.sensor_groups
    BY SensorTypes DEF Label, PlainLabels
  <2>2. Csv(label) \in Seq(STRING \cup {last})
    <3> HIDE DEF label
    <3>1. label \in [1 .. Len(label) -> STRING] /\ Len(label) \in Nat
      BY <2>1
    <3>2. Csv(label) = [label EXCEPT ![Len(label)] = last]
      BY DEF Csv
    <3> HIDE DEF last
    <3>3. Csv(label) \in [1 .. Len(label) -> STRING \cup {last}]
      BY <3>1, <3>2
    <3> QED  BY <3>1, <3>3
  <2> HIDE DEF label, last
  <2>3. GroupPath(c, d, i[1]) = [from |-> d, names |-> <<GroupName(c, i[1])>>]
    BY <1>1, <2>1
  <2> DEFINE csv == Csv(label)
  <2>4. csv \in Seq(STRING \cup {last}) /\ Plain(csv)
    BY <2>1, <2>2
  <2> HIDE DEF csv
  <2>5. /\ csv = <<csv[1]>> /\ Down(csv[1])
        /\ Push([from |-> d, names |-> <<GroupName(c, i[1])>>], csv)
             = [from |-> d, names |-> <<GroupName(c, i[1])>> \o <<csv[1]>>]
    BY <2>4, PlainPush
  <2>6. <<GroupName(c, i[1])>> \o <<csv[1]>> = <<GroupName(c, i[1]), csv[1]>>
    BY OneAndOne
  <2> QED  BY <2>3, <2>5, <2>6 DEF csv, label, SensorName, SensorPath
<1> QED  BY <1>1, <1>2

\* Appending keeps apart what was apart.
LEMMA AppendsApart ==
  ASSUME NEW S, NEW d \in Seq(S), NEW x \in S
  PROVE  /\ Append(d, x) \in Seq(S) /\ Len(Append(d, x)) = Len(d) + 1 /\ Len(d) \in Nat
         /\ \A y \in S : Append(d, x) = Append(d, y) => x = y
         /\ \A e \in Seq(S), y \in S : Append(d, x) = Append(e, y) => d = e /\ x = y
<1>1. /\ Append(d, x) \in Seq(S) /\ Len(Append(d, x)) = Len(d) + 1 /\ Len(d) \in Nat
      /\ Append(d, x)[Len(d) + 1] = x
      /\ \A i \in 1 .. Len(d) : Append(d, x)[i] = d[i]
  BY AppendProperties, LenProperties
<1>2. ASSUME NEW e \in Seq(S), NEW y \in S, Append(d, x) = Append(e, y)
      PROVE  d = e /\ x = y
  <2>1. /\ Len(Append(e, y)) = Len(e) + 1 /\ Len(e) \in Nat /\ Append(e, y)[Len(e) + 1] = y
        /\ \A i \in 1 .. Len(e) : Append(e, y)[i] = e[i]
    BY AppendProperties, LenProperties
  <2>2. Len(d) = Len(e)
    BY <1>1, <1>2, <2>1
  <2>3. \A i \in 1 .. Len(d) : d[i] = e[i]
    BY <1>1, <1>2, <2>1, <2>2
  <2>4. d = e
    BY <2>2, <2>3, SeqEqual
  <2> QED  BY <1>1, <1>2, <2>1, <2>2, <2>4
<1> QED  BY <1>1, <1>2

\* Where the files and directories are that a run with plain labels makes.
LEMMA PlainPlaces ==
  ASSUME NEW c \in Configuration, NEW d, PlainLabels(c, d)
  PROVE  /\ \A g \in DOMAIN c.sensor_groups :
              /\ Place(GroupPath(c, d, g)) = Append(d, GroupName(c, g))
              /\ Ways(GroupPath(c, d, g)) = {d}
              /\ Range(Trail(GroupPath(c, d, g))) = {d, Append(d, GroupName(c, g))}
         /\ \A i \in SensorIds(c) :
              LET path == SensorPath(c, d, i[1], i[2])
              IN  /\ Place(path) = Append(Append(d, GroupName(c, i[1])), SensorName(c, i))
                  /\ Ways(path) = {d, Append(d, GroupName(c, i[1]))}
<1>1. ASSUME NEW g \in DOMAIN c.sensor_groups
      PROVE  /\ Place(GroupPath(c, d, g)) = Append(d, GroupName(c, g))
             /\ Ways(GroupPath(c, d, g)) = {d}
             /\ Range(Trail(GroupPath(c, d, g))) = {d, Append(d, GroupName(c, g))}
  <2> DEFINE path == GroupPath(c, d, g)
             name == GroupName(c, g)
  <2>1. path = [from |-> d, names |-> <<name>>] /\ Down(name)
    BY PlainPaths
  <2>2. path.from = d /\ path.names = <<name>>
    BY <2>1
  <2> HIDE DEF path, name
  <2>3. Place(path) = Append(d, name) /\ Ways(path) = {d} /\ Range(Trail(path)) = {d, Append(d, name)}
    BY <2>1, <2>2, OneName
  <2> QED  BY <2>3 DEF path, name
<1>2. ASSUME NEW i \in SensorIds(c)
      PROVE  LET path == SensorPath(c, d, i[1], i[2])
             IN  /\ Place(path) = Append(Append(d, GroupName(c, i[1])), SensorName(c, i))
                 /\ Ways(path) = {d, Append(d, GroupName(c, i[1]))}
  <2> DEFINE path == SensorPath(c, d, i[1], i[2])
             x == GroupName(c, i[1])
             y == SensorName(c, i)
  <2>1. path = [from |-> d, names |-> <<x, y>>] /\ Down(x) /\ Down(y)
    BY PlainPaths, SensorTypes
  <2>2. path.from = d /\ path.names = <<x, y>>
    BY <2>1
  <2> HIDE DEF path, x, y
  <2>3. Place(path) = Append(Append(d, x), y) /\ Ways(path) = {d, Append(d, x)}
    BY <2>1, <2>2, TwoNames
  <2> QED  BY <2>3 DEF path, x, y
<1> QED  BY <1>1, <1>2

\* What all these places are made of, and how long they are.
PathNames(c) ==
  STRING \cup {"console.txt", "commands.csv", "drivers.csv", "sent.csv"}
    \cup {SensorName(c, i) : i \in SensorIds(c)}

LEMMA PrefixesShort ==
  ASSUME NEW S, NEW d \in Seq(S)
  PROVE  d \in Prefixes(d) /\ \A e \in Prefixes(d) : e \in Seq(S) /\ Len(e) <= Len(d)
<1>1. Len(d) \in Nat /\ \A k \in 1 .. Len(d) : d[k] \in S
  BY LenProperties, ElementOfSeq
<1>2. ASSUME NEW l \in 0 .. Len(d)
      PROVE  SubSeq(d, 1, l) \in Seq(S) /\ Len(SubSeq(d, 1, l)) = l
             /\ \A k \in 1 .. l : SubSeq(d, 1, l)[k] = d[k]
  BY <1>1, <1>2
<1>3. SubSeq(d, 1, Len(d)) = d
  <2>1. Len(d) \in 0 .. Len(d)
    BY <1>1
  <2> QED  BY <1>2, <2>1, SeqEqual
<1>4. d \in Prefixes(d)
  <2>1. Len(d) \in 0 .. Len(d)
    BY <1>1
  <2> QED  BY <1>3, <2>1 DEF Prefixes
<1> QED  BY <1>1, <1>2, <1>4 DEF Prefixes

LEMMA MadeIs ==
  ASSUME NEW c \in Configuration, NEW d \in Seq(PathNames(c)), PlainLabels(c, d), NEW g
  PROVE  /\ d \in Made(c, d, g)
         /\ \A h \in DOMAIN c.sensor_groups : h < g => Append(d, GroupName(c, h)) \in Made(c, d, g)
         /\ \A e \in Made(c, d, g) :
              \/ e \in Seq(PathNames(c)) /\ Len(e) <= Len(d)
              \/ \E h \in DOMAIN c.sensor_groups : e = Append(d, GroupName(c, h))
<1> DEFINE D(h) == Append(d, GroupName(c, h))
<1>1. \A h \in DOMAIN c.sensor_groups : Range(Trail(GroupPath(c, d, h))) = {d, D(h)}
  BY PlainPlaces
<1>2. d \in Prefixes(d) /\ \A e \in Prefixes(d) : e \in Seq(PathNames(c)) /\ Len(e) <= Len(d)
  BY PrefixesShort
<1>3. <<>> \in Seq(PathNames(c)) /\ Len(<<>>) <= Len(d)
  BY LenProperties
<1> HIDE DEF D
<1>4. d \in Made(c, d, g)
  BY <1>2 DEF Made
<1>5. \A h \in DOMAIN c.sensor_groups : h < g => D(h) \in Made(c, d, g)
  BY <1>1 DEF Made
<1>6. ASSUME NEW e \in Made(c, d, g)
      PROVE  \/ e \in Seq(PathNames(c)) /\ Len(e) <= Len(d)
             \/ \E h \in DOMAIN c.sensor_groups : e = D(h)
  <2>1. \/ e \in {<<>>} \cup Prefixes(d)
        \/ \E h \in DOMAIN c.sensor_groups : e \in Range(Trail(GroupPath(c, d, h)))
    BY DEF Made
  <2>2. \/ e \in {<<>>} \cup Prefixes(d)
        \/ \E h \in DOMAIN c.sensor_groups : e \in {d, D(h)}
    BY <1>1, <2>1
  <2> QED  BY <1>2, <1>3, <2>2
<1> QED  BY <1>4, <1>5, <1>6 DEF D

LEMMA WrittenIs ==
  ASSUME NEW c \in Configuration, NEW d, PlainLabels(c, d), NEW g, NEW s, NEW e \in Written(c, d, g, s)
  PROVE  \/ e = Append(d, "console.txt")
         \/ \E i \in SensorIds(c) :
              /\ i[1] < g \/ (i[1] = g /\ i[2] < s)
              /\ e = Append(Append(d, GroupName(c, i[1])), SensorName(c, i))
<1>1. Place(ConsolePath(d)) = Append(d, "console.txt")
  BY FixedPlaces
<1>2. \A i \in SensorIds(c) : Place(SensorPath(c, d, i[1], i[2]))
                                = Append(Append(d, GroupName(c, i[1])), SensorName(c, i))
  BY PlainPlaces
<1> QED  BY <1>1, <1>2 DEF Written

\* With plain labels that differ where they must, no log of a run is in the way
\* of another: whatever else labels do to the paths of log files takes a label
\* with a slash, one of a few names, or the same one twice (run pushes labels
\* onto the logs path as they are, server.rs:286-324).
THEOREM PlainLabelsFit ==
  ASSUME NEW c \in Configuration, NEW d \in Seq(STRING), PlainLabels(c, d),
         \A n \in 1 .. 3 : ~ Refuses(FinalPath(d, n).names)
  PROVE  ~ PathsClash(c, d)
<1> DEFINE U       == PathNames(c)
           groups  == DOMAIN c.sensor_groups
           D(g)    == Append(d, GroupName(c, g))
           File(i) == Append(Append(d, GroupName(c, i[1])), SensorName(c, i))
           Final   == <<"commands.csv", "drivers.csv", "sent.csv">>
           F(n)    == Append(d, Final[n])
           console == Append(d, "console.txt")
<1>1. d \in Seq(U) /\ Len(d) \in Nat
  BY LenProperties DEF PathNames
<1>2. /\ \A g \in groups : GroupName(c, g) \in U
      /\ \A i \in SensorIds(c) : SensorName(c, i) \in U /\ i[1] \in groups
      /\ "console.txt" \in U /\ \A n \in 1 .. 3 : Final[n] \in U
  <2>1. ASSUME NEW g \in groups PROVE GroupName(c, g) \in STRING
    <3>1. c.sensor_groups[g] \in SensorGroup
      BY ConfigurationTypes, ElementOfSeq, LenProperties
    <3>2. c.sensor_groups[g].label \in Seq(STRING) /\ Len(c.sensor_groups[g].label) = 1
      BY <3>1 DEF SensorGroup, Label, PlainLabels, Plain
    <3> QED  BY <3>2 DEF GroupName
  <2> QED  BY <2>1, SensorTypes DEF PathNames
<1>3. \A x \in U : /\ Append(d, x) \in Seq(U) /\ Len(Append(d, x)) = Len(d) + 1
                   /\ \A y \in U : Append(d, x) = Append(d, y) => x = y
                   /\ \A y \in U : /\ Len(Append(Append(d, x), y)) = Len(d) + 2
                                   /\ \A v, w \in U :
                                        Append(Append(d, x), y) = Append(Append(d, v), w)
                                          => x = v /\ y = w
  <2> SUFFICES ASSUME NEW x \in U
               PROVE  /\ Append(d, x) \in Seq(U) /\ Len(Append(d, x)) = Len(d) + 1
                      /\ \A y \in U : Append(d, x) = Append(d, y) => x = y
                      /\ \A y \in U : /\ Len(Append(Append(d, x), y)) = Len(d) + 2
                                      /\ \A v, w \in U :
                                           Append(Append(d, x), y) = Append(Append(d, v), w)
                                             => x = v /\ y = w
    OBVIOUS
  <2> HIDE DEF U
  <2>1. /\ \A y \in U : Append(d, y) \in Seq(U) /\ Len(Append(d, y)) = Len(d) + 1
        /\ \A y, z \in U : Append(d, y) = Append(d, z) => y = z
    BY <1>1, AppendsApart
  <2>2. ASSUME NEW y \in U
        PROVE  Len(Append(Append(d, x), y)) = Len(d) + 2
    <3>1. Len(Append(Append(d, x), y)) = Len(Append(d, x)) + 1
      BY <2>1, AppendsApart
    <3> QED  BY <1>1, <2>1, <3>1
  <2>3. ASSUME NEW y \in U, NEW v \in U, NEW w \in U,
               Append(Append(d, x), y) = Append(Append(d, v), w)
        PROVE  x = v /\ y = w
    <3>1. Append(d, x) \in Seq(U) /\ Append(d, v) \in Seq(U)
      BY <2>1
    <3>2. Append(d, x) = Append(d, v) /\ y = w
      BY <2>3, <3>1, AppendsApart
    <3> QED  BY <2>1, <3>2
  <2> QED  BY <2>1, <2>2, <2>3
<1>4. \A g \in groups : GroupName(c, g) # "console.txt" /\ \A n \in 1 .. 3 : GroupName(c, g) # Final[n]
  BY DEF PlainLabels, GroupName
<1> HIDE DEF U, Final
\* Places of different kinds differ.
<1>5. /\ \A g \in groups : Len(D(g)) = Len(d) + 1 /\ D(g) # console
      /\ \A n \in 1 .. 3 : Len(F(n)) = Len(d) + 1 /\ F(n) # console /\ \A g \in groups : F(n) # D(g)
      /\ \A n, m \in 1 .. 3 : n # m => F(n) # F(m)
      /\ Len(console) = Len(d) + 1
      /\ \A i \in SensorIds(c) : Len(File(i)) = Len(d) + 2
  <2>1. \A n, m \in 1 .. 3 : Final[n] # "console.txt" /\ (n # m => Final[n] # Final[m])
    BY DEF Final
  <2>2. \A g \in groups : Len(D(g)) = Len(d) + 1 /\ D(g) # console
    BY <1>2, <1>3, <1>4
  <2>3. /\ \A n \in 1 .. 3 : Len(F(n)) = Len(d) + 1 /\ F(n) # console
        /\ \A n, m \in 1 .. 3 : n # m => F(n) # F(m)
        /\ Len(console) = Len(d) + 1
    BY <1>2, <1>3, <2>1
  <2>4. \A n \in 1 .. 3, g \in groups : F(n) # D(g)
    BY <1>2, <1>3, <1>4
  <2>5. \A i \in SensorIds(c) : Len(File(i)) = Len(d) + 2
    BY <1>2, <1>3
  <2> QED  BY <2>2, <2>3, <2>4, <2>5
<1>6. \A i, j \in SensorIds(c) : File(i) = File(j) => i = j
  <2> SUFFICES ASSUME NEW i \in SensorIds(c), NEW j \in SensorIds(c), File(i) = File(j)
               PROVE  i = j
    OBVIOUS
  <2>1. GroupName(c, i[1]) = GroupName(c, j[1]) /\ SensorName(c, i) = SensorName(c, j)
    BY <1>2, <1>3
  <2>2. /\ c.sensor_groups[i[1]].label = <<GroupName(c, i[1])>>
        /\ c.sensor_groups[j[1]].label = <<GroupName(c, j[1])>>
        /\ Csv(c.sensor_groups[i[1]].sensors[i[2]].label) = <<SensorName(c, i)>>
        /\ Csv(c.sensor_groups[j[1]].sensors[j[2]].label) = <<SensorName(c, j)>>
    BY <1>2, PlainPaths
  <2> QED  BY <2>1, <2>2 DEF PlainLabels
<1> HIDE DEF groups, D, File, F, console
<1>7. ASSUME NEW g
      PROVE  /\ d \in Made(c, d, g)
             /\ \A h \in groups : h < g => D(h) \in Made(c, d, g)
             /\ \A e \in Made(c, d, g) : Len(e) <= Len(d) \/ \E h \in groups : e = D(h)
  <2>1. d \in Seq(PathNames(c))
    BY <1>1 DEF U
  <2> QED  BY <2>1, MadeIs DEF groups, D
<1>8. ASSUME NEW g, NEW s, NEW e \in Written(c, d, g, s)
      PROVE  \/ e = console
             \/ \E i \in SensorIds(c) : (i[1] < g \/ (i[1] = g /\ i[2] < s)) /\ e = File(i)
  BY <1>8, WrittenIs DEF console, File
<1>9. ASSUME NEW g \in groups
      PROVE  ~ DirBlocked(GroupPath(c, d, g), Written(c, d, g, 1), Made(c, d, g))
  <2> DEFINE path == GroupPath(c, d, g)
             name == GroupName(c, g)
  <2>1. /\ Place(path) = D(g) /\ Ways(path) = {d}
        /\ path.names = <<name>> /\ Down(name) /\ ~ Refuses(path.names)
    <3>1. Place(path) = D(g) /\ Ways(path) = {d}
      BY PlainPlaces DEF groups, D
    <3>2. path = [from |-> d, names |-> <<name>>] /\ Down(name)
      BY PlainPaths DEF groups
    <3>3. ~ Refuses(path.names)
      BY DEF PlainLabels, groups
    <3> HIDE DEF path
    <3> QED  BY <3>1, <3>2, <3>3
  <2> HIDE DEF path, name
  <2>2. D(g) \notin Written(c, d, g, 1) /\ d \notin Written(c, d, g, 1)
    BY <1>1, <1>5, <1>8
  <2>3. ~ \E n \in DOMAIN path.names :
            \A m \in n .. Len(path.names) : path.names[m] \in {"", "."}
    <3> DEFINE names == path.names
    <3>1. names = <<name>> /\ name \notin {"", "."}
      BY <2>1 DEF Down
    <3> HIDE DEF names
    <3>2. Len(names) = 1 /\ DOMAIN names = {1} /\ names[1] = name
      <4>1. Len(<<name>>) = 1 /\ <<name>>[1] = name /\ DOMAIN <<name>> = 1 .. 1
        OBVIOUS
      <4>2. 1 .. 1 = {1}
        OBVIOUS
      <4> QED  BY <3>1, <4>1, <4>2
    <3>3. 1 \in 1 .. 1
      OBVIOUS
    <3> QED  BY <3>1, <3>2, <3>3 DEF names
  <2> QED  BY <2>1, <2>2, <2>3 DEF DirBlocked, path
<1>10. ASSUME NEW i \in SensorIds(c)
       PROVE  ~ FileBlocked(SensorPath(c, d, i[1], i[2]), Written(c, d, i[1], i[2]),
                            Made(c, d, i[1] + 1))
  <2> DEFINE path == SensorPath(c, d, i[1], i[2])
  <2>1. Place(path) = File(i) /\ Ways(path) = {d, D(i[1])} /\ ~ Refuses(path.names)
    BY PlainPlaces DEF PlainLabels, D, File
  <2>2. /\ i[1] \in Nat /\ i[2] \in Nat /\ i[1] \in groups
    BY SensorTypes, ConfigurationTypes, LenProperties DEF groups
  <2> HIDE DEF path
  <2>3. {d, D(i[1])} \subseteq Made(c, d, i[1] + 1)
    BY <1>7, <2>2
  <2>4. File(i) \notin Written(c, d, i[1], i[2])
    BY <1>1, <1>5, <1>6, <1>8, <2>2
  <2>5. File(i) \notin Made(c, d, i[1] + 1)
    BY <1>1, <1>5, <1>7
  <2> QED  BY <2>1, <2>3, <2>4, <2>5 DEF FileBlocked, path
<1>11. ASSUME NEW n \in 1 .. 3, NEW end
       PROVE  ~ FileBlocked(FinalPath(d, n),
                            Written(c, d, end, 1) \cup {Place(FinalPath(d, m)) : m \in 1 .. n - 1},
                            Made(c, d, end))
  <2>1. \A m \in 1 .. 3 : Place(FinalPath(d, m)) = F(m) /\ Ways(FinalPath(d, m)) = {d}
    BY FixedPlaces DEF F, Final
  <2>2. F(n) \notin Written(c, d, end, 1)
    BY <1>1, <1>5, <1>8
  <2>3. F(n) \notin {Place(FinalPath(d, m)) : m \in 1 .. n - 1}
    <3>1. \A m \in 1 .. n - 1 : m \in 1 .. 3 /\ m # n
      OBVIOUS
    <3> QED  BY <1>5, <2>1, <3>1
  <2>4. F(n) \notin Made(c, d, end)
    BY <1>1, <1>5, <1>7
  <2> QED  BY <1>7, <2>1, <2>2, <2>3, <2>4 DEF FileBlocked
<1> QED  BY <1>9, <1>10, <1>11 DEF PathsClash, groups

Line == [use : {"bus", "adc", "heartbeat", "driver"}, pin : Byte, level : {"low", "high", "in"}]

\* The lines that are requested, each at its place.
LEMMA LineRequestsAre ==
  ASSUME NEW c \in Configuration
  PROVE  LET R == LineRequests(c)
             n == Len(c.adc_cs)
             d == Len(c.drivers)
         IN  /\ n \in Nat /\ d \in Nat
             /\ R \in Seq(Line) /\ Len(R) = 4 + n + d
             /\ R[1] = Request("bus", c.spi_clk, "low")
             /\ R[2] = Request("bus", c.spi_mosi, "low")
             /\ R[3] = Request("bus", c.spi_miso, "in")
             /\ \A i \in 1 .. n : R[3 + i] = Request("adc", c.adc_cs[i], "high")
             /\ R[4 + n] = Request("heartbeat", c.pin_heartbeat, "low")
             /\ \A i \in 1 .. d : R[4 + n + i] = Request("driver", c.drivers[i].pin, "low")
<1> DEFINE n == Len(c.adc_cs)
           d == Len(c.drivers)
           Adcs == [i \in DOMAIN c.adc_cs |-> Request("adc", c.adc_cs[i], "high")]
           Drivers == [i \in DOMAIN c.drivers |-> Request("driver", c.drivers[i].pin, "low")]
           Beat == <<Request("heartbeat", c.pin_heartbeat, "low")>>
           Bus == <<Request("bus", c.spi_clk, "low"), Request("bus", c.spi_mosi, "low"),
                    Request("bus", c.spi_miso, "in")>>
           BA == Bus \o Adcs
           BAH == BA \o Beat
           R == BAH \o Drivers
<1>1. LineRequests(c) = R
  BY DEF LineRequests
<1>2. /\ c.adc_cs \in Seq(Byte) /\ c.drivers \in Seq(Driver)
      /\ n \in Nat /\ d \in Nat /\ DOMAIN c.drivers = 1 .. d /\ DOMAIN c.adc_cs = 1 .. n
  BY ConfigurationTypes, LenProperties
<1>3. Adcs \in Seq(Line) /\ Len(Adcs) = n
      /\ \A i \in 1 .. n : Adcs[i] = Request("adc", c.adc_cs[i], "high")
  <2>1. \A i \in 1 .. n : c.adc_cs[i] \in Byte
    BY <1>2, ElementOfSeq
  <2>2. Adcs \in [1 .. n -> Line]
    BY <1>2, <2>1 DEF Request, Line
  <2> QED  BY <1>2, <2>2, FunctionIsSeq
<1>4. Drivers \in Seq(Line) /\ Len(Drivers) = d
      /\ \A i \in 1 .. d : Drivers[i] = Request("driver", c.drivers[i].pin, "low")
  <2>1. \A i \in 1 .. d : c.drivers[i] \in Driver
    BY <1>2, ElementOfSeq
  <2>2. \A x \in Driver : x.pin \in Byte
    BY DEF Driver
  <2>3. Drivers \in [1 .. d -> Line]
    BY <1>2, <2>1, <2>2 DEF Request, Line
  <2> QED  BY <1>2, <2>3, FunctionIsSeq
<1>5. /\ Bus \in Seq(Line) /\ Len(Bus) = 3
      /\ Bus[1] = Request("bus", c.spi_clk, "low")
      /\ Bus[2] = Request("bus", c.spi_mosi, "low")
      /\ Bus[3] = Request("bus", c.spi_miso, "in")
      /\ Beat \in Seq(Line) /\ Len(Beat) = 1
      /\ Beat[1] = Request("heartbeat", c.pin_heartbeat, "low")
  BY ConfigurationTypes DEF Request, Line
<1> HIDE DEF n, d, Adcs, Drivers, Beat, Bus
<1>6. /\ BA \in Seq(Line) /\ Len(BA) = 3 + n
      /\ \A i \in 1 .. 3 : BA[i] = Bus[i]
      /\ \A i \in 1 .. n : BA[3 + i] = Adcs[i]
  <2>1. /\ BA \in Seq(Line) /\ Len(BA) = Len(Bus) + Len(Adcs)
        /\ \A i \in 1 .. Len(Bus) : BA[i] = Bus[i]
        /\ \A i \in 1 .. Len(Adcs) : BA[Len(Bus) + i] = Adcs[i]
    <3>1. Bus \in Seq(Line) /\ Adcs \in Seq(Line)
      BY <1>3, <1>5
    <3> QED  BY <3>1, ConcatIs
  <2> HIDE DEF BA
  <2> QED  BY <1>3, <1>5, <2>1
<1> HIDE DEF BA
<1>7. /\ BAH \in Seq(Line) /\ Len(BAH) = 4 + n
      /\ \A i \in 1 .. 3 + n : BAH[i] = BA[i]
      /\ BAH[4 + n] = Beat[1]
  <2>1. /\ BAH \in Seq(Line) /\ Len(BAH) = Len(BA) + Len(Beat)
        /\ \A i \in 1 .. Len(BA) : BAH[i] = BA[i]
        /\ \A i \in 1 .. Len(Beat) : BAH[Len(BA) + i] = Beat[i]
    <3>1. BA \in Seq(Line) /\ Beat \in Seq(Line)
      BY <1>5, <1>6
    <3> QED  BY <3>1, ConcatIs
  <2> HIDE DEF BAH
  <2>2. Len(BA) + 1 = 4 + n /\ 1 \in 1 .. Len(Beat)
    BY <1>2, <1>5, <1>6
  <2> QED  BY <1>2, <1>5, <1>6, <2>1, <2>2
<1> HIDE DEF BAH
<1>8. /\ R \in Seq(Line) /\ Len(R) = 4 + n + d
      /\ \A i \in 1 .. 4 + n : R[i] = BAH[i]
      /\ \A i \in 1 .. d : R[4 + n + i] = Drivers[i]
  <2>1. /\ R \in Seq(Line) /\ Len(R) = Len(BAH) + Len(Drivers)
        /\ \A i \in 1 .. Len(BAH) : R[i] = BAH[i]
        /\ \A i \in 1 .. Len(Drivers) : R[Len(BAH) + i] = Drivers[i]
    <3>1. BAH \in Seq(Line) /\ Drivers \in Seq(Line)
      BY <1>4, <1>7
    <3> QED  BY <3>1, ConcatIs
  <2> HIDE DEF R
  <2> QED  BY <1>4, <1>7, <2>1
<1> HIDE DEF R
<1>9. ASSUME NEW i \in 1 .. 3 PROVE R[i] = Bus[i]
  <2>1. i \in 1 .. 3 + n /\ i \in 1 .. 4 + n
    BY <1>2
  <2> QED  BY <1>6, <1>7, <1>8, <2>1
<1>10. ASSUME NEW i \in 1 .. n PROVE R[3 + i] = Adcs[i]
  <2>1. 3 + i \in 1 .. 3 + n /\ 3 + i \in 1 .. 4 + n
    BY <1>2
  <2> QED  BY <1>6, <1>7, <1>8, <2>1
<1>11. R[4 + n] = Beat[1]
  <2>1. 4 + n \in 1 .. 4 + n
    BY <1>2
  <2> QED  BY <1>7, <1>8, <2>1
<1>12. R[1] = Bus[1] /\ R[2] = Bus[2] /\ R[3] = Bus[3]
  BY <1>9
<1> QED  BY <1>1, <1>2, <1>3, <1>4, <1>5, <1>8, <1>10, <1>11, <1>12 DEF n, d

\* Where PinsUsed has the pin of the k-th request, the heartbeat's excepted, for
\* n ADCs and d drivers.
SlotOf(k, n, d) ==
  IF k = 1 THEN d + 3
  ELSE IF k = 2 THEN d + 1
  ELSE IF k = 3 THEN d + 2
  ELSE IF k <= 3 + n THEN d + k
  ELSE k - (4 + n)

LEMMA SlotInside ==
  ASSUME NEW n \in Nat, NEW d \in Nat, NEW k \in (1 .. 4 + n + d) \ {4 + n}
  PROVE  SlotOf(k, n, d) \in 1 .. d + 3 + n
BY DEF SlotOf

LEMMA SlotsApart ==
  ASSUME NEW n \in Nat, NEW d \in Nat,
         NEW j \in (1 .. 4 + n + d) \ {4 + n}, NEW k \in (1 .. 4 + n + d) \ {4 + n}, j # k
  PROVE  SlotOf(j, n, d) # SlotOf(k, n, d)
BY DEF SlotOf

LEMMA SlotCases ==
  ASSUME NEW n \in Nat, NEW d \in Nat, NEW k \in (1 .. 4 + n + d) \ {4 + n}
  PROVE  \/ k = 1 /\ SlotOf(k, n, d) = d + 3
         \/ k = 2 /\ SlotOf(k, n, d) = d + 1
         \/ k = 3 /\ SlotOf(k, n, d) = d + 2
         \/ \E i \in 1 .. n : k = 3 + i /\ SlotOf(k, n, d) = d + 3 + i
         \/ \E i \in 1 .. d : k = 4 + n + i /\ SlotOf(k, n, d) = i
<1>1. CASE k \in 1 .. 3
  BY <1>1 DEF SlotOf
<1>2. CASE k \in 4 .. 3 + n
  <2>1. k - 3 \in 1 .. n /\ k = 3 + (k - 3) /\ SlotOf(k, n, d) = d + 3 + (k - 3)
    BY <1>2 DEF SlotOf
  <2> QED  BY <2>1
<1>3. CASE k \in 5 + n .. 4 + n + d
  <2>1. k - (4 + n) \in 1 .. d /\ k = 4 + n + (k - (4 + n))
        /\ SlotOf(k, n, d) = k - (4 + n)
    BY <1>3 DEF SlotOf
  <2> QED  BY <2>1
<1> QED  BY <1>1, <1>2, <1>3

LEMMA RequestSlot ==
  ASSUME NEW c \in Configuration,
         NEW k \in (1 .. 4 + Len(c.adc_cs) + Len(c.drivers)) \ {4 + Len(c.adc_cs)}
  PROVE  LineRequests(c)[k].pin = PinsUsed(c)[SlotOf(k, Len(c.adc_cs), Len(c.drivers))]
<1> DEFINE R == LineRequests(c)
           P == PinsUsed(c)
           n == Len(c.adc_cs)
           d == Len(c.drivers)
<1>1. /\ n \in Nat /\ d \in Nat
      /\ R[1] = Request("bus", c.spi_clk, "low")
      /\ R[2] = Request("bus", c.spi_mosi, "low")
      /\ R[3] = Request("bus", c.spi_miso, "in")
      /\ \A i \in 1 .. n : R[3 + i] = Request("adc", c.adc_cs[i], "high")
      /\ \A i \in 1 .. d : R[4 + n + i] = Request("driver", c.drivers[i].pin, "low")
  BY LineRequestsAre
<1>2. /\ \A i \in 1 .. d : P[i] = c.drivers[i].pin
      /\ P[d + 1] = c.spi_mosi /\ P[d + 2] = c.spi_miso /\ P[d + 3] = c.spi_clk
      /\ \A i \in 1 .. n : P[d + 3 + i] = c.adc_cs[i]
  BY PinsUsedAre
<1>3. \A use, pin, level : Request(use, pin, level).pin = pin
  BY DEF Request
<1>4. k \in (1 .. 4 + n + d) \ {4 + n}
  OBVIOUS
<1> HIDE DEF R, P, n, d
<1>5. \/ k = 1 /\ SlotOf(k, n, d) = d + 3
      \/ k = 2 /\ SlotOf(k, n, d) = d + 1
      \/ k = 3 /\ SlotOf(k, n, d) = d + 2
      \/ \E i \in 1 .. n : k = 3 + i /\ SlotOf(k, n, d) = d + 3 + i
      \/ \E i \in 1 .. d : k = 4 + n + i /\ SlotOf(k, n, d) = i
  BY <1>1, <1>4, SlotCases
<1>6. R[k].pin = P[SlotOf(k, n, d)]
  <2>1. CASE k = 1 /\ SlotOf(k, n, d) = d + 3
    BY <1>1, <1>2, <1>3, <2>1
  <2>2. CASE k = 2 /\ SlotOf(k, n, d) = d + 1
    BY <1>1, <1>2, <1>3, <2>2
  <2>3. CASE k = 3 /\ SlotOf(k, n, d) = d + 2
    BY <1>1, <1>2, <1>3, <2>3
  <2>4. ASSUME NEW i \in 1 .. n, k = 3 + i /\ SlotOf(k, n, d) = d + 3 + i
        PROVE  R[k].pin = P[SlotOf(k, n, d)]
    <3>1. R[3 + i] = Request("adc", c.adc_cs[i], "high") /\ P[d + 3 + i] = c.adc_cs[i]
      BY <1>1, <1>2
    <3> QED  BY <1>3, <2>4, <3>1
  <2>5. ASSUME NEW i \in 1 .. d, k = 4 + n + i /\ SlotOf(k, n, d) = i
        PROVE  R[k].pin = P[SlotOf(k, n, d)]
    <3>1. R[4 + n + i] = Request("driver", c.drivers[i].pin, "low")
          /\ P[i] = c.drivers[i].pin
      BY <1>1, <1>2
    <3> QED  BY <1>3, <2>5, <3>1
  <2> QED  BY <1>5, <2>1, <2>2, <2>3, <2>4, <2>5
<1> QED  BY <1>6 DEF R, P, n, d

\* No line is requested twice for a configuration that is accepted, unless the
\* heartbeat's is; and every other line has a legal offset.
LEMMA RequestsApart ==
  ASSUME NEW c \in Configuration, Parse(c) = "ok", c.pin_heartbeat \notin Range(PinsUsed(c))
  PROVE  LET R == LineRequests(c)
         IN  /\ \A k \in DOMAIN R : IsLegal(R[k].pin) \/ R[k].pin = c.pin_heartbeat
             /\ \A j, k \in DOMAIN R : j # k => R[j].pin # R[k].pin
<1> DEFINE R == LineRequests(c)
           P == PinsUsed(c)
           n == Len(c.adc_cs)
           d == Len(c.drivers)
<1>1. /\ n \in Nat /\ d \in Nat /\ DOMAIN R = 1 .. 4 + n + d
      /\ R[4 + n].pin = c.pin_heartbeat
  <2>1. /\ n \in Nat /\ d \in Nat /\ R \in Seq(Line) /\ Len(R) = 4 + n + d
        /\ R[4 + n] = Request("heartbeat", c.pin_heartbeat, "low")
    BY LineRequestsAre
  <2> HIDE DEF R, n, d
  <2>2. DOMAIN R = 1 .. 4 + n + d
    BY <2>1, LenProperties
  <2> QED  BY <2>1, <2>2 DEF Request
<1>2. DOMAIN P = 1 .. d + 3 + n
  BY PinsUsedAre, LenProperties
<1>3. /\ \A i \in DOMAIN P : IsLegal(P[i])
      /\ \A i, j \in DOMAIN P : i # j => P[i] # P[j]
  BY PinsAccepted
<1>4. \A i \in DOMAIN P : P[i] # c.pin_heartbeat
  BY DEF Range
<1>5. ASSUME NEW k \in (1 .. 4 + n + d) \ {4 + n}
      PROVE  R[k].pin = P[SlotOf(k, n, d)] /\ SlotOf(k, n, d) \in DOMAIN P
  <2>1. SlotOf(k, n, d) \in 1 .. d + 3 + n
    <3> HIDE DEF n, d, R
    <3>1. k \in (1 .. 4 + n + d) \ {4 + n} /\ n \in Nat /\ d \in Nat
      BY <1>1, <1>5
    <3> QED  BY <3>1, SlotInside
  <2> QED  BY <1>2, <2>1, RequestSlot
<1>6. ASSUME NEW j \in (1 .. 4 + n + d) \ {4 + n}, NEW k \in (1 .. 4 + n + d) \ {4 + n},
             j # k
      PROVE  R[j].pin # R[k].pin
  <2>1. SlotOf(j, n, d) # SlotOf(k, n, d)
    BY <1>1, <1>6, SlotsApart
  <2> QED  BY <1>3, <1>5, <2>1
<1>7. \A k \in (1 .. 4 + n + d) \ {4 + n} :
        IsLegal(R[k].pin) /\ R[k].pin # c.pin_heartbeat
  BY <1>3, <1>4, <1>5
<1> HIDE DEF R, P, n, d
<1>8. \A k \in DOMAIN R : IsLegal(R[k].pin) \/ R[k].pin = c.pin_heartbeat
  BY <1>1, <1>7
<1>9. \A j, k \in DOMAIN R : j # k => R[j].pin # R[k].pin
  BY <1>1, <1>6, <1>7
<1> QED  BY <1>8, <1>9 DEF R

=============================================================================
