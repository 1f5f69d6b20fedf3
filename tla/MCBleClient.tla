---------------------------- MODULE MCBleClient ----------------------------
(* The service the application was written for (0x1811: five               *)
(* characteristics, two of them with a descriptor, the last without), one  *)
(* with a single characteristic, whose value has the last handle there is, *)
(* one with three descriptors in a row, one with an included service, one  *)
(* with a wide descriptor between two others and a wide value, and one for *)
(* each way out of what the client can cope with: a descriptor at the end, *)
(* spare handles at the end with and without descriptors before them, no   *)
(* characteristic, one characteristic and one descriptor too many, a wide  *)
(* descriptor before the next characteristic, and one at the very end.     *)
EXTENDS BleClient

Char(descs) == <<"chara", "value">> \o descs
NoDesc == << >>

Service(start, attrs, slack, wide) ==
  [start |-> start, attrs |-> attrs, slack |-> slack, wide |-> wide]

BleServices ==
  { Service(3, Char(NoDesc) \o Char(<<"cccd">>) \o Char(NoDesc) \o Char(<<"cccd">>)
                 \o Char(NoDesc), 0, {}),
    Service(MaxHandle - 2, Char(NoDesc), 0, {}),
    Service(1, Char(<<"other", "cccd", "other">>) \o Char(NoDesc), 0, {}),
    Service(1, <<"other">> \o Char(<<"cccd">>) \o Char(NoDesc), 0, {}),
    Service(1, Char(<<"cccd", "other", "other">>) \o Char(NoDesc), 0, {3, 5}),
    Service(3, Char(NoDesc) \o Char(<<"cccd">>), 0, {2}),
    Service(2, Char(<<"cccd">>) \o Char(NoDesc), 2, {}),
    Service(1, Char(NoDesc), 1, {}),
    Service(2, << >>, 0, {}),
    Service(1, Char(NoDesc) \o Char(NoDesc) \o Char(NoDesc)
                 \o Char(NoDesc) \o Char(NoDesc) \o Char(NoDesc), 0, {}),
    Service(1, Char([i \in 1..6 |-> "cccd"]) \o Char(NoDesc), 0, {}),
    Service(2, Char(<<"cccd", "other">>) \o Char(NoDesc), 0, {6}),
    Service(1, Char(<<"other">>), 0, {4}) }

=============================================================================
