---------------------------- MODULE MCConfigLink ----------------------------
(* TLC instances of ConfigLink. *)
EXTENDS ConfigLink

Absent    == [kind |-> "absent"]
Number(n) == [kind |-> "number", number |-> n]
Word(w)   == [kind |-> "word", word |-> w]

MCBoot == Defaults
BootFile == [parses |-> TRUE, piOk |-> TRUE, rows |-> Absent, rate |-> Absent,
             imu |-> Absent, run |-> Word("run"), source |-> Number(1)]
RowsFile == [BootFile EXCEPT !.rows = Number(100)]
BothFile == [RowsFile EXCEPT !.rate = Number(10000)]
TooSlow  == [BootFile EXCEPT !.rate = Number(50)]
OldFile  == [BootFile EXCEPT !.source = Word("another")]

StopFile == [BootFile EXCEPT !.run = Word("stop")]

RowFiles  == {BootFile, RowsFile}
StopFiles == {BootFile, RowsFile, StopFile}
AllFiles  == {BootFile, BothFile, TooSlow, OldFile}

MCCommands ==
  [seq : 1..MaxCmdSeq, op : {"SET_CONFIG"}, crcOk : BOOLEAN, schemaOk : {TRUE},
   payload : Configs]
=============================================================================
