------------------------------ MODULE MCLibPdl ------------------------------
(* A small instance of LibPdl for TLC: two countries, rows in either order, *)
(* a value too long for its buffer, a file without rows, two directories.   *)
EXTENDS LibPdl

Row(key, value) == [key |-> key, value |-> value]

AllDatabases ==
  { NoFile, << <<>> >>,
    << <<Row("country", "nl"), Row("languageCode", "nl"), Row("countryCode", "nl"), Row("nduid", "nl")>> >>,
    << <<Row("countryCode", "us"), Row("languageCode", Long), Row("languageCode", "us"),
         Row("deviceId", "us")>> >> }
Parents == <<"game", "parent">>
=============================================================================
