----------------------------- MODULE MCStartup -----------------------------
(***************************************************************************)
(* Small instances of Startup for TLC: a few configurations with which two *)
(* processes are started, and many, each a sound one with one edit or with  *)
(* two, one of them the chip selects, with which a single process is.      *)
(***************************************************************************)
EXTENDS Startup

Set(d) == [type |-> "Actuate", driver_id |-> d]

MCSensor(label) ==
  [label |-> label, rolling_average_width |-> 1, adc |-> 0, channel |-> 7]

Load == MCSensor(<<"load">>)

Group(label, frequency, sensors) ==
  [label |-> label, frequency_standby |-> frequency, frequency_ignition |-> 20,
   frequency_transmission |-> 5, sensors |-> sensors]

Fast(sensors) == <<Group(<<"fast">>, 10, sensors)>>

Small ==
  [frequency_status |-> 10, sensor_groups |-> <<>>, drivers |-> <<[pin |-> 2]>>,
   ignition_sequence |-> <<Set(0), [type |-> "Sleep"]>>, estop_sequence |-> <<>>,
   spi_mosi |-> 3, spi_miso |-> 4, spi_clk |-> 5, spi_frequency_clk |-> 10001,
   adc_cs |-> <<6>>, pin_heartbeat |-> 0]

Sound ==
  [Small EXCEPT !.sensor_groups = Fast(<<Load>>),
                !.drivers = <<[pin |-> 2], [pin |-> 27]>>,
                !.estop_sequence = <<Set(1)>>]

\* What the edits change, and what they may change it to.
Edits ==
  [frequency_status  |-> {0},
   spi_frequency_clk |-> {9999, 10000},
   spi_mosi          |-> {1, 5, 28},
   adc_cs            |-> {<<>>, <<27>>},
   pin_heartbeat     |-> {6, 255},
   ignition_sequence |-> {<<Set(2)>>, <<Set(3)>>},
   sensor_groups     |->
     {<<Group(<<"fast">>, 0, <<Load>>)>>, Fast(<<Load, Load>>),
      Fast(<<[Load EXCEPT !.channel = 8]>>),
      Fast(<<[Load EXCEPT !.rolling_average_width = 0]>>)}]

\* What labels can do to the paths of log files, and more groups than group ids.
Labelled(label) == <<Group(label, 10, <<Load>>)>>
LabelEdits ==
  {Labelled(<<"a", "b">>), Labelled(<<"..">>), Labelled(<<"">>), Labelled(<<"", "b", ".">>),
   Labelled(<<"b", ".">>), Labelled(<<"console.txt">>), Labelled(<<"b", "..", "sent.csv">>),
   Labelled(<<"long">>), Fast(<<MCSensor(<<"x", "load">>)>>), Fast(<<MCSensor(<<"", "load">>)>>),
   Fast(<<MCSensor(<<"..", "drivers">>)>>), <<Group(<<"">>, 10, <<MCSensor(<<"commands">>)>>)>>,
   Fast(<<Load>>) \o Labelled(<<"fast", ".">>),
   Fast(<<Load>>) \o <<Group(<<"x">>, 10, <<>>)>> \o Fast(<<MCSensor(<<"..", "x", "load">>)>>),
   Fast(<<Load, MCSensor(<<"flow">>)>>) \o <<Group(<<"b">>, 10, <<>>)>> \o Labelled(<<"c">>)}

MCRefuses(names) == "long" \in Range(names)

Twice == {[Small EXCEPT !.sensor_groups = <<Group(<<"..">>, 0, <<Load>>)>>], [Small EXCEPT !.adc_cs = <<>>],
          [Small EXCEPT !.pin_heartbeat = 6]}

MCConfigurations ==
  {Sound} \cup Twice
    \cup UNION {{[Sound EXCEPT ![f] = v] : v \in Edits[f]} : f \in DOMAIN Edits}
    \cup {[Small EXCEPT !.sensor_groups = v] : v \in LabelEdits}
    \cup UNION {{[Sound EXCEPT !.adc_cs = v, ![f] = w] : v \in Edits.adc_cs, w \in Edits[f]} :
                  f \in (DOMAIN Edits) \ {"adc_cs"}}

MCStarted(c) == IF c \in Twice THEN 2 ELSE 1

MCDir == {<<"d1">>, <<"d2">>}

MCChipLines == 0 .. 28
=============================================================================
