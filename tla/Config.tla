------------------------------- MODULE Config -------------------------------
(***************************************************************************)
(* Configurations (src/config.rs): the fields that the program's control   *)
(* depends on, the checks of Configuration::parse in the order in which it *)
(* makes them, and what start-up derives from a configuration (run and     *)
(* RaspberryPi, src/server.rs): the paths of its log files, the GPIO lines *)
(* it requests in order and the threads it spawns.                         *)
(*                                                                         *)
(* Labels for display, colours, units, calibration, ranges, the protected  *)
(* flag and durations are left out: nothing here depends on them.          *)
(***************************************************************************)
EXTENDS Integers, Sequences, SequencesExt

CONSTANTS
  Refuses(_),   \* names, one after the other, that no path may have: NUL bytes, over-long
  GroupIds      \* how many values the u8 has that tells a thread its sensor group

ASSUME GroupIdsAssumption == GroupIds \in Nat \ {0}

Byte == 0 .. 255

Driver == [pin : Byte]

Action ==
  [type : {"Actuate"}, driver_id : Byte] \cup [type : {"Sleep"}]

\* A label as the path that it is used as: what stands between its slashes.
Label == Seq(STRING) \ {<<>>}

Sensor == [label : Label, rolling_average_width : Nat, adc : Byte, channel : Byte]

SensorGroup ==
  [label : Label, frequency_standby : Nat, frequency_ignition : Nat,
   frequency_transmission : Nat, sensors : Seq(Sensor)]

Configuration ==
  [frequency_status : Nat, sensor_groups : Seq(SensorGroup), drivers : Seq(Driver),
   ignition_sequence : Seq(Action), estop_sequence : Seq(Action),
   spi_mosi : Byte, spi_miso : Byte, spi_clk : Byte, spi_frequency_clk : Nat,
   adc_cs : Seq(Byte), pin_heartbeat : Byte]

\* Field by field what each element of a sequence gives.
Map(seq, Op(_)) == [i \in DOMAIN seq |-> Op(seq[i])]

-----------------------------------------------------------------------------
\* Configuration::parse.  Each check of a value gives "ok" or an error; the
\* first error is returned.

SPI_MIN_FREQUENCY == 10000

IsLegal(pin) == 1 < pin /\ pin <= 27

Verdict(bad, error) == IF bad THEN error ELSE "ok"

ClockChecks(c) ==
  <<Verdict(c.spi_frequency_clk < SPI_MIN_FREQUENCY, "ClockTooSlow")>>

SensorChecks(c) ==
  LET Checks(s) == <<Verdict(s.adc >= Len(c.adc_cs), "NoSuchAdc"),
                     Verdict(s.channel >= 8, "BadChannel")>>
      Group(g)  == FlattenSeq(Map(g.sensors, Checks))
  IN  FlattenSeq(Map(c.sensor_groups, Group))

\* The comparison lets driver_id = drivers.len() pass.
ActionChecks(c) ==
  LET Check(a) == Verdict(a.type = "Actuate" /\ a.driver_id > Len(c.drivers), "NoSuchDriver")
  IN  Map(c.ignition_sequence \o c.estop_sequence, Check)

\* The pins that are compared with each other: the heartbeat's is not one.
PinsUsed(c) ==
  LET Pin(d) == d.pin
  IN  Map(c.drivers, Pin) \o <<c.spi_mosi, c.spi_miso, c.spi_clk>> \o c.adc_cs

PinChecks(c) ==
  LET pins == PinsUsed(c)
  IN  [i \in DOMAIN pins |->
         IF ~ IsLegal(pins[i]) THEN "ReservedPin"
         ELSE Verdict(\E j \in 1 .. i - 1 : pins[j] = pins[i], "DuplicatePin")]

\* The first error among the checks, if there is one.
FirstError(checks) ==
  LET errors == {i \in DOMAIN checks : checks[i] # "ok"}
  IN  IF errors = {} THEN "ok" ELSE checks[Min(errors)]

\* Mutant: pins are not compared with each other.
ParsePinsUnchecked(c) == FirstError(ClockChecks(c) \o SensorChecks(c) \o ActionChecks(c))

Parse(c) ==
  FirstError(ClockChecks(c) \o SensorChecks(c) \o ActionChecks(c) \o PinChecks(c))

-----------------------------------------------------------------------------
\* What run makes of a configuration.

\* A path leads through names, from the directory of the logs path or from the
\* root.  PathBuf::push: a label that begins with a slash replaces the path.
Push(path, label) ==
  IF Len(label) > 1 /\ label[1] = "" THEN [from |-> <<>>, names |-> Tail(label)]
  ELSE [path EXCEPT !.names = @ \o label]

\* format!("{}.csv", label)
Csv(label) == [label EXCEPT ![Len(label)] = @ \o ".csv"]

InLogs(d)             == [from |-> d, names |-> <<>>]
ConsolePath(d)        == Push(InLogs(d), <<"console.txt">>)
GroupPath(c, d, g)    == Push(InLogs(d), c.sensor_groups[g].label)
SensorPath(c, d, g, s) ==
  Push(GroupPath(c, d, g), Csv(c.sensor_groups[g].sensors[s].label))
FinalPath(d, n) ==
  Push(InLogs(d), << <<"commands.csv", "drivers.csv", "sent.csv">>[n] >>)

\* Where the file system goes by a name: an empty name and "." stay, ".." goes up.
Go(place, name) ==
  IF name \in {"", "."} THEN place
  ELSE IF name # ".." THEN Append(place, name)
  ELSE IF place = <<>> THEN <<>> ELSE Front(place)

\* Where a path is after each of its names.
Trail(path) ==
  LET at[n \in 0 .. Len(path.names)] ==
        IF n = 0 THEN path.from ELSE Go(at[n - 1], path.names[n])
  IN  at

Place(path) == Trail(path)[Len(path.names)]
Ways(path)  == {Trail(path)[n] : n \in 0 .. Len(path.names) - 1}

\* create_dir_all(path) fails: a file is where a directory has to be, or names at
\* the end that stay, a "." among them, follow a directory that is not there.
DirBlocked(path, taken, made) ==
  \/ Refuses(path.names)
  \/ (Ways(path) \cup {Place(path)}) \cap taken # {}
  \/ \E n \in DOMAIN path.names :
       /\ \A m \in n .. Len(path.names) : path.names[m] \in {"", "."}
       /\ \E m \in n .. Len(path.names) : path.names[m] = "."
       /\ Place(path) \notin made \cup {Trail(path)[m] : m \in 0 .. n - 2}

\* file_create_new(path) fails: a directory is missing, or the place is taken.
FileBlocked(path, taken, made) ==
  Refuses(path.names) \/ ~ Ways(path) \subseteq made \/ Place(path) \in taken \cup made

-----------------------------------------------------------------------------
\* Configurations whose own log files are in each other's way.

SensorIds(c) ==
  UNION {{g} \X DOMAIN c.sensor_groups[g].sensors : g \in DOMAIN c.sensor_groups}

\* What a run has made when it comes to sensor s of group g: console.txt and the
\* files of the sensors before, the logs path and the directories of the
\* groups before.
Written(c, d, g, s) ==
  {Place(ConsolePath(d))}
    \cup {Place(SensorPath(c, d, i[1], i[2])) :
            i \in {i \in SensorIds(c) : i[1] < g \/ (i[1] = g /\ i[2] < s)}}

Made(c, d, g) ==
  {<<>>} \cup Prefixes(d)
    \cup UNION {Range(Trail(GroupPath(c, d, h))) : h \in {h \in DOMAIN c.sensor_groups : h < g}}

\* One of them is blocked by what the same run has made by then, and by nothing
\* else: a label names a directory that is never made, or what a log is called,
\* or two sensors' files have one place.
PathsClash(c, d) ==
  \/ \E g \in DOMAIN c.sensor_groups :
       DirBlocked(GroupPath(c, d, g), Written(c, d, g, 1), Made(c, d, g))
  \/ \E i \in SensorIds(c) :
       FileBlocked(SensorPath(c, d, i[1], i[2]), Written(c, d, i[1], i[2]), Made(c, d, i[1] + 1))
  \/ LET end == Len(c.sensor_groups) + 1
     IN  \E n \in 1 .. 3 :
           FileBlocked(FinalPath(d, n),
                       Written(c, d, end, 1) \cup {Place(FinalPath(d, m)) : m \in 1 .. n - 1},
                       Made(c, d, end))

\* Labels that are nothing but names: no slashes, no "." or "..", of groups not
\* the name of a log, and of two sensors in one directory not the same.
Plain(label) == Len(label) = 1 /\ label[1] \notin {"", ".", ".."}

PlainLabels(c, d) ==
  /\ \A g \in DOMAIN c.sensor_groups :
       /\ Plain(c.sensor_groups[g].label)
       /\ c.sensor_groups[g].label[1]
            \notin {"console.txt", "commands.csv", "drivers.csv", "sent.csv"}
       /\ ~ Refuses(GroupPath(c, d, g).names)
  /\ \A i \in SensorIds(c) :
       /\ Plain(Csv(c.sensor_groups[i[1]].sensors[i[2]].label))
       /\ ~ Refuses(SensorPath(c, d, i[1], i[2]).names)
  /\ \A i, j \in SensorIds(c) :
       /\ c.sensor_groups[i[1]].label = c.sensor_groups[j[1]].label
       /\ Csv(c.sensor_groups[i[1]].sensors[i[2]].label)
            = Csv(c.sensor_groups[j[1]].sensors[j[2]].label)
       => i = j

-----------------------------------------------------------------------------
\* Lines and threads.

\* A line is requested as an input, or as an output of some level.
Request(use, pin, level) == [use |-> use, pin |-> pin, level |-> level]

\* Mutant: chip selects are requested low, as every other output is.
LineRequestsSelected(c) ==
  LET ChipSelects == [i \in DOMAIN c.adc_cs |-> Request("adc", c.adc_cs[i], "low")]
      DriverLines == [i \in DOMAIN c.drivers |-> Request("driver", c.drivers[i].pin, "low")]
  IN  <<Request("bus", c.spi_clk, "low"), Request("bus", c.spi_mosi, "low"),
        Request("bus", c.spi_miso, "in")>>
        \o ChipSelects
        \o <<Request("heartbeat", c.pin_heartbeat, "low")>>
        \o DriverLines

\* The lines that bus, adcs, heartbeat and drivers request, in this order.
LineRequests(c) ==
  LET ChipSelects == [i \in DOMAIN c.adc_cs |-> Request("adc", c.adc_cs[i], "high")]
      DriverLines == [i \in DOMAIN c.drivers |-> Request("driver", c.drivers[i].pin, "low")]
  IN  <<Request("bus", c.spi_clk, "low"), Request("bus", c.spi_mosi, "low"),
        Request("bus", c.spi_miso, "in")>>
        \o ChipSelects
        \o <<Request("heartbeat", c.pin_heartbeat, "low")>>
        \o DriverLines

\* Mcp3208::new asserts clock_period() < 1 s / SPI_MIN_FREQUENCY, strictly, on
\* the period that bus computed in whole nanoseconds.
Nanoseconds == 1000000000
AdcAccepts(c) ==
  Nanoseconds \div c.spi_frequency_clk < Nanoseconds \div SPI_MIN_FREQUENCY

\* The threads of the scope: one per sensor group, and two more.
Threads(c) == {<<"sensor", g>> : g \in DOMAIN c.sensor_groups}
                \cup {<<"status">>, <<"heartbeat">>}

\* The group that the thread spawned for group g reads, transmits and logs: it
\* gets `group_id as u8`, and the log files of g.
GroupOf(c, g) == c.sensor_groups[((g - 1) % GroupIds) + 1]

\* A thread divides one second by its frequencies before its loop begins,
\* which panics on zero.
PanicsAtStart(c, t) ==
  IF t[1] = "sensor"
  THEN LET group == GroupOf(c, t[2])
       IN  0 \in {group.frequency_standby, group.frequency_ignition,
                  group.frequency_transmission}
  ELSE t[1] = "status" /\ c.frequency_status = 0

\* `width - 1` on a u32: a width of zero panics in a build that checks
\* overflow and wraps in one that does not.  A sensor without a log file
\* panics when its readings are to be written.
MayPanicLater(c, t) ==
  /\ t[1] = "sensor"
  /\ LET sensors == GroupOf(c, t[2]).sensors
     IN  \/ \E s \in DOMAIN sensors : sensors[s].rolling_average_width = 0
         \/ Len(sensors) > Len(c.sensor_groups[t[2]].sensors)

=============================================================================
