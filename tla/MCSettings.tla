---------------------------- MODULE MCSettings ----------------------------
(* Keys and values for the runs of Settings.                               *)
EXTENDS Settings

\* The mark and a name beside it, and one in another section.
SettingsKeys == {<<0, 1>>, <<0, 2>>, <<1, 1>>}
Mark == <<0, 1>>

\* Two values of one length and one of another.
SettingsValues == {"false", "xxxxx", "y"}
LengthOfValue == [v \in SettingsValues |-> IF v = "y" THEN 1 ELSE 5]
=============================================================================
