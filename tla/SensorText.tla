------------------------------ MODULE SensorText ------------------------------
(***************************************************************************)
(* patterns::Sensor and the text it is saved as through Serializable, in   *)
(* which its value has six decimals.                                       *)
(***************************************************************************)
EXTENDS Decimals, SequencesExt

CONSTANTS
  Sensors,      \* the variables of the program that hold a Sensor
  SensorNames,  \* the names that are given to sensors, with or without ":"
  Readings,     \* the values that are given to sensors
  OtherTexts    \* texts that come from elsewhere

ASSUME SensorAssumption ==
  /\ SensorNames \subseteq Seq(STRING) /\ OtherTexts \subseteq Seq(STRING)
  /\ Readings \subseteq Printable /\ 0 \in Printable

VARIABLES
  sensor,  \* per variable, a record of name and value
  saved,   \* the text at hand
  author,  \* history: the sensor that `saved` is the text of, if any
  last     \* history: the last deserialize, its outcome and what it overwrote

sensorVars == <<sensor, saved, author, last>>

Nobody == [name |-> <<>>]

NoCall == [of |-> "nobody", how |-> "none", before |-> Nobody]

SensorInit ==
  /\ sensor = [x \in Sensors |-> [name |-> <<>>, value |-> 0]]
  /\ saved = <<>> /\ author = Nobody
  /\ last = NoCall

MakeSensor(x, name, value) ==
  /\ sensor' = [sensor EXCEPT ![x] = [name |-> name, value |-> value]]
  /\ last' = NoCall
  /\ UNCHANGED <<saved, author>>

\* do_serialize
Serialize(x) ==
  /\ saved' = sensor[x].name \o <<":">> \o PrintNumber(sensor[x].value)
  /\ author' = sensor[x]
  /\ last' = NoCall
  /\ UNCHANGED sensor

Receive(text) ==
  /\ saved' = text /\ author' = Nobody
  /\ last' = NoCall
  /\ UNCHANGED sensor

Separators == {i \in DOMAIN saved : saved[i] = ":"}

\* data.find(':')
Separator == CHOOSE i \in Separators : \A j \in Separators : i <= j

\* The text after the separator.
After(i) == SubSeq(saved, i + 1, Len(saved))

NamePart(i) == SubSeq(saved, 1, i - 1)

Recorded(x, how) == last' = [of |-> x, how |-> how, before |-> sensor[x]]

\* do_deserialize: the name is assigned before stod, which may throw.
Deserialize(x) ==
  /\ UNCHANGED <<saved, author>>
  /\ \/ /\ Separators = {}
        /\ Recorded(x, "no separator")
        /\ UNCHANGED sensor
     \/ /\ Separators # {}
        /\ ~Readable(After(Separator))
        /\ Recorded(x, "no number")
        /\ sensor' = [sensor EXCEPT ![x].name = NamePart(Separator)]
     \/ /\ Separators # {}
        /\ Readable(After(Separator))
        /\ Recorded(x, "returned")
        /\ sensor' = [sensor EXCEPT ![x] = [name |-> NamePart(Separator),
                                            value |-> ReadNumber(After(Separator))]]

SensorNext ==
  \/ \E x \in Sensors, name \in SensorNames, value \in Readings : MakeSensor(x, name, value)
  \/ \E x \in Sensors : Serialize(x) \/ Deserialize(x)
  \/ \E text \in OtherTexts : Receive(text)

SensorSpec == SensorInit /\ [][SensorNext]_sensorVars

-----------------------------------------------------------------------------
(* "round-trip": whatever a sensor was before, after reading a text that was
   saved it has the name of the sensor that was saved, unless that name has the
   separator in it, and the nearest value of six decimals, which is the saved
   one if that has no more; and a text that cannot be read leaves the old
   reading, under its old name if there was no separator. *)
ReadsWhatWasSaved ==
  last.how # "none" =>
    /\ author # Nobody /\ ~Contains(author.name, ":") =>
         /\ last.how = "returned"
         /\ sensor[last.of].name = author.name
         /\ sensor[last.of].value % Digit = 0
         /\ 2 * Magnitude(sensor[last.of].value - author.value) <= Digit
    /\ last.how # "returned" => sensor[last.of].value = last.before.value
    /\ last.how = "no separator" => sensor[last.of] = last.before
=============================================================================
