------------------------------- MODULE LibPdl -------------------------------
(***************************************************************************)
(* src/libpdl.c: what the library keeps between the calls of a game (the   *)
(* copy of the preferences, the application directory, its identity),      *)
(* while the preferences are rewritten, read in part or not at all, and    *)
(* the application is reinstalled.  Its service requests keep nothing and  *)
(* are left out.                                                           *)
(***************************************************************************)
EXTENDS Integers, Sequences, FiniteSetsExt, SequencesExt

CONSTANTS
  Databases,   \* what systemprefs.db may be: NoFile, or <<its rows [key, value]>>
  Rooms,       \* whether the caller's buffer holds the answer
  Values,      \* the values of the rows that fit the buffers of the lookups
  EnvDir,      \* PDK_APP_DIR, or NoDir
  ExeDirs,     \* the directories above the executable, nearest first
  Ids,         \* the ids an appinfo.json may hold
  MaxEdits     \* bound: rewrites of the preferences and of the directories

NoFile  == <<>>      \* systemprefs.db cannot be opened, is empty or too large
NoDir   == "nodir"
NoInfo  == "noinfo"
Unknown == "unknown.pdk.app"
Long    == "long"    \* a value too long for the caller of prefs_lookup
Missing == "missing" \* prefs_lookup returned 0
Default == "default" \* the answer that is compiled in, or /etc/machine-id
Rest    == "rest"    \* a piece: of a longer key with its value, or of a value
Dirs    == Range(ExeDirs) \union ({EnvDir} \ {NoDir})

ASSUME PdlAssumption ==
  /\ NoFile \in Databases /\ Rooms \subseteq {"whole", "cut", "none"}
  /\ \A d \in Databases \ {NoFile} :
       /\ Len(d) = 1
       /\ \A i \in DOMAIN d[1] : d[1][i].value \in Values \union {Long}
  /\ MaxEdits \in Nat

VARIABLES
  db,             \* systemprefs.db
  blob,           \* what prefs_lookup keeps of it: NoFile for NULL, or <<rows>>
  homes,          \* the appinfo.json of each directory
  s_initialised, s_appid, s_apppath,
  told,           \* what the game was told last, per question
  edits           \* bound: rewrites so far

prefs == <<db, blob>>
app   == <<homes, s_initialised, s_appid, s_apppath>>
vars  == <<prefs, app, told, edits>>

Questions == {"language", "code", "name", "id"}
Nothing == "nothing" \* no answer yet, or an error

Init ==
  /\ db \in Databases /\ blob = NoFile
  /\ homes \in [Dirs -> Ids \union {NoInfo}]
  /\ s_initialised = FALSE /\ s_appid = "" /\ s_apppath = NoDir
  /\ told = [language |-> <<Nothing, Nothing>>, code |-> Nothing, name |-> Nothing,
              id |-> Nothing, path |-> Nothing]
  /\ edits = 0
-----------------------------------------------------------------------------
(* Preferences.                                                            *)

\* What is left of a row in whose text a read ends.
Cuts(row) ==
  {[row EXCEPT !.value = Rest]}
    \union (IF row.key = "countryCode" THEN {[key |-> "country", value |-> Rest]} ELSE {})

\* fread's result is not looked at: it may give all the rows, or any first part of them.
Reads(rows) ==
  {rows} \union {SubSeq(rows, 1, n - 1) : n \in DOMAIN rows}
    \union UNION {{Append(SubSeq(rows, 1, n - 1), cut) : cut \in Cuts(rows[n])} : n \in DOMAIN rows}

\* Mutant: a failure to open the file is kept as well.
Blobs_OnceOnly ==
  IF blob # NoFile \/ told["code"] # Nothing \/ db = NoFile THEN {blob}
  ELSE {<<rows>> : rows \in Reads(db[1])}

\* The static blob after a lookup: what was read once is kept, however little it is,
\* and a file that does not open is tried again by the next lookup.
Blobs ==
  IF blob # NoFile \/ db = NoFile THEN {blob} ELSE {<<rows>> : rows \in Reads(db[1])}

\* A key is found wherever its text is: "country" in "countryCode" as well.
Holding(key) == IF key = "country" THEN {"country", "countryCode"} ELSE {key}

\* prefs_lookup in a copy: the first occurrence of a key whose text fits.
Lookup(copy, key) ==
  LET rows == IF copy = NoFile THEN <<>> ELSE copy[1]
      hits == {i \in DOMAIN rows : rows[i].key \in Holding(key) /\ rows[i].value # Long}
      row  == rows[Min(hits)]
  IN IF hits = {} THEN Missing ELSE IF row.key = key THEN row.value ELSE Rest

OrDefault(v) == IF v = Missing THEN Default ELSE v

\* PDL_GetUniqueID: either key, or what the device says of itself.
UniqueId(copy) ==
  OrDefault(IF Lookup(copy, "deviceId") # Missing THEN Lookup(copy, "deviceId")
            ELSE Lookup(copy, "nduid"))

\* PDL_GetLanguage, PDL_GetRegionCountryCode and PDL_GetRegionCountryName.
Answer(copy, q) ==
  CASE q = "code" -> OrDefault(Lookup(copy, "countryCode"))
    [] q = "name" -> OrDefault(Lookup(copy, "country"))
    [] q = "id"   -> UniqueId(copy)
    [] q = "language" /\ Lookup(copy, "languageCode") = Missing -> <<Default, Default>>
    [] OTHER -> <<Lookup(copy, "languageCode"), Lookup(copy, "countryCode")>>

\* Mutant: a part of the answer passes for it.
CopyOut_Part(copy, q, room) ==
  [told EXCEPT ![q] = IF room = "whole" \/ q = "language" THEN Answer(copy, q) ELSE Rest]

\* copy_out: a buffer too small gets a part and an error, none an error alone; the
\* lookup has been made by then.
CopyOut(copy, q, room) ==
  IF room = "whole" THEN [told EXCEPT ![q] = Answer(copy, q)] ELSE told

\* A call is one step: a file that first opens between the two lookups of one call is
\* not in the model.
GetLocale(q, room) ==
  /\ \E copy \in Blobs : blob' = copy /\ told' = CopyOut(copy, q, room)
  /\ UNCHANGED <<db, app, edits>>

\* External: the preferences service writes its database.
WritePrefs ==
  /\ edits < MaxEdits /\ edits' = edits + 1
  /\ db' \in Databases \ {db}
  /\ UNCHANGED <<blob, app, told>>
-----------------------------------------------------------------------------
(* The application directory.                                              *)

HasInfo(d) == d # NoDir /\ homes[d] # NoInfo

\* PDK_APP_DIR first, then up from the executable.
Found ==
  IF HasInfo(EnvDir) THEN EnvDir
  ELSE LET up == {i \in DOMAIN ExeDirs : HasInfo(ExeDirs[i])}
       IN IF up = {} THEN NoDir ELSE ExeDirs[Min(up)]

\* Mutant: the directory is looked for at every call.
AppDir_Fresh == Found

\* app_dir: what was found once is kept, a failure is not.
AppDir == IF s_apppath # NoDir THEN s_apppath ELSE Found

\* The id PDL_Init keeps.
AppInfoId == IF HasInfo(AppDir) THEN homes[AppDir] ELSE Unknown

PDL_Init ==
  /\ IF s_initialised
       THEN UNCHANGED <<s_appid, s_apppath>>
       ELSE s_appid' = AppInfoId /\ s_apppath' = AppDir
  /\ s_initialised' = TRUE
  /\ UNCHANGED <<prefs, homes, told, edits>>

PDL_Quit ==
  /\ s_initialised' = FALSE
  /\ UNCHANGED <<prefs, homes, s_appid, s_apppath, told, edits>>

\* PDL_GetDataFilePath and PDL_GetCallingPath.
GetPath ==
  /\ s_apppath' = AppDir
  /\ told' = [told EXCEPT !["path"] = IF AppDir = NoDir THEN Nothing ELSE AppDir]
  /\ UNCHANGED <<prefs, homes, s_initialised, s_appid, edits>>

\* PDL_GetAppinfoValue reads the file anew, in the directory that is kept.
PDL_GetAppinfoValue ==
  /\ s_apppath' = AppDir
  /\ UNCHANGED <<prefs, homes, s_initialised, s_appid, told, edits>>

\* External: an installer removes or writes an appinfo.json.
Reinstall ==
  /\ edits < MaxEdits /\ edits' = edits + 1
  /\ \E d \in Dirs, info \in Ids \union {NoInfo} :
       info # homes[d] /\ homes' = [homes EXCEPT ![d] = info]
  /\ UNCHANGED <<prefs, s_initialised, s_appid, s_apppath, told>>
-----------------------------------------------------------------------------
Next ==
  \/ \E q \in Questions, room \in Rooms : GetLocale(q, room)
  \/ WritePrefs
  \/ PDL_Init \/ PDL_Quit
  \/ GetPath \/ PDL_GetAppinfoValue
  \/ Reinstall

Spec == Init /\ [][Next]_vars

\* A game asks for the country again and again, with room for it.
FairSpec == Spec /\ WF_vars(GetLocale("code", "whole"))
-----------------------------------------------------------------------------
\* What a game has been told of the device and its owner does not change under it,
\* whatever is written and whatever buffers it brings; only an answer that was not
\* from the file gives way to one that is (src/libpdl.c:126-138,338-355): a save bound
\* to the unique id is lost at most once.
NotFromFile == {Nothing, Default}

AnswersSettle ==
  [][\A q \in Questions : told'[q] # told[q] =>
       IF q = "language" THEN told[q] \in {<<v, v>> : v \in NotFromFile}
       ELSE told[q] \in NotFromFile]_vars

PathTold == told["path"] # Nothing

\* All paths a game is given lie in one directory, though the application is
\* reinstalled while it runs.
OneHome == [][PathTold /\ PathTold' => told'["path"] = told["path"]]_vars

\* A game that was started before there were preferences is told of them once the
\* file opens: a failure to open it is not kept, whereas what the first read gave is,
\* and a short one stays short.
DefaultsGiveWay ==
  <>[](db # NoFile) => []<>(blob # NoFile /\ told["code"] = Answer(blob, "code"))
=============================================================================
