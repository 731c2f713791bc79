---------------------------- MODULE LibPdlProofs ----------------------------
(***************************************************************************)
(* What a game is told by src/libpdl.c, proved for every database, every   *)
(* set of directories, every number of rewrites and every short read.      *)
(*                                                                         *)
(* AnswersSettle and OneHome say what a step may not change.  Neither      *)
(* follows from the step alone: the library does not keep what it told, it *)
(* computes it anew from what it keeps of the file and of the search, so   *)
(* the invariant says that an answer told from the file is the answer the  *)
(* kept copy still gives, and that a path told is the directory kept.      *)
(***************************************************************************)
EXTENDS LibPdl, TLAPS

\* What the game has been told.
Shape ==
  /\ told = [x \in DOMAIN told |-> told[x]]
  /\ DOMAIN told = Questions \union {"path"}

\* An answer that is not the one for want of a file, of question q.
FromFile(q, answer) ==
  IF q = "language" THEN answer \notin {<<v, v>> : v \in NotFromFile} ELSE answer \notin NotFromFile

\* What was told from the file is what the kept copy answers: to ask again gives it
\* again.  (src/libpdl.c:126-138)
ToldIsKept == \A q \in Questions : FromFile(q, told[q]) => blob # NoFile /\ told[q] = Answer(blob, q)

\* A path that was told lies in the directory that is kept.  (src/libpdl.c:160-204)
PathIsKept == PathTold => s_apppath # NoDir /\ told["path"] = s_apppath

IInv == Shape /\ ToldIsKept /\ PathIsKept
-----------------------------------------------------------------------------
\* Without a file there is no answer from one.
LEMMA NoFileNoAnswer == ASSUME NEW q \in Questions PROVE ~FromFile(q, Answer(NoFile, q))
<1>1. ASSUME NEW key PROVE Lookup(NoFile, key) = Missing
  <2>1. {i \in DOMAIN <<>> : <<>>[i].key \in Holding(key) /\ <<>>[i].value # Long} = {}  OBVIOUS
  <2> QED  BY <2>1 DEF Lookup
<1>2. OrDefault(Missing) = Default  BY DEF OrDefault
<1>3. UniqueId(NoFile) = Default  BY <1>1, <1>2 DEF UniqueId
<1>4. Default \in NotFromFile  BY DEF NotFromFile
<1>5. CASE q = "language"
  <2>1. Answer(NoFile, q) = <<Default, Default>>  BY <1>1, <1>5, Zenon DEF Answer
  <2> QED  BY <2>1, <1>4, <1>5 DEF FromFile
<1>6. CASE q # "language"
  <2>1. Answer(NoFile, q) = Default  BY <1>1, <1>2, <1>3, <1>6 DEF Answer, Questions
  <2> QED  BY <2>1, <1>4, <1>6 DEF FromFile
<1> QED  BY <1>5, <1>6

\* What GetLocale tells of one question, and leaves of the others.
LEMMA CopiedOut ==
  ASSUME Shape, NEW q \in Questions, NEW room, NEW copy, told' = CopyOut(copy, q, room)
  PROVE  /\ told' = [x \in DOMAIN told' |-> told'[x]] /\ DOMAIN told' = DOMAIN told
         /\ told'["path"] = told["path"]
         /\ \A r \in Questions : told'[r] = told[r] \/ (r = q /\ told'[r] = Answer(copy, r))
<1>1. CASE room = "whole"
  <2>1. told' = [told EXCEPT ![q] = Answer(copy, q)]  BY <1>1 DEF CopyOut
  <2>2. "path" \notin Questions  BY DEF Questions
  <2> QED  BY <2>1, <2>2 DEF Shape
<1>2. CASE room # "whole"
  <2>1. told' = told  BY <1>2 DEF CopyOut
  <2> QED  BY <2>1 DEF Shape
<1> QED  BY <1>1, <1>2
-----------------------------------------------------------------------------
\* A game that starts has been told nothing and has asked for nothing.
LEMMA InitIInv == Init => IInv
<1> SUFFICES ASSUME Init PROVE IInv  OBVIOUS
<1>1. told = [language |-> <<Nothing, Nothing>>, code |-> Nothing, name |-> Nothing,
              id |-> Nothing, path |-> Nothing]
  BY Zenon DEF Init
<1>2. Shape  BY <1>1 DEF Shape, Questions
<1>3. told["language"] = <<Nothing, Nothing>> /\ \A r \in Questions \ {"language"} : told[r] = Nothing
  BY <1>1 DEF Questions
<1>4. \A q \in Questions : ~FromFile(q, told[q])  BY <1>3 DEF FromFile, NotFromFile
<1>5. ToldIsKept  BY <1>4 DEF ToldIsKept
<1>6. PathIsKept  BY <1>1 DEF PathIsKept, PathTold
<1> QED  BY <1>2, <1>5, <1>6 DEF IInv

\* A directory that is kept is kept.
LEMMA HomeStays == ASSUME s_apppath # NoDir PROVE AppDir = s_apppath
  BY DEF AppDir

\* GetLocale keeps what it read and tells what that answers.
LEMMA LocaleStep ==
  ASSUME IInv, NEW q \in Questions, NEW room \in Rooms, GetLocale(q, room)
  PROVE  /\ IInv'
         /\ \A r \in Questions : told'[r] # told[r] => ~FromFile(r, told[r])
<1>1. PICK copy \in Blobs : blob' = copy /\ told' = CopyOut(copy, q, room)  BY DEF GetLocale
<1>2. s_apppath' = s_apppath  BY DEF GetLocale, app
<1>3. /\ told' = [x \in DOMAIN told' |-> told'[x]] /\ DOMAIN told' = DOMAIN told
      /\ told'["path"] = told["path"]
      /\ \A r \in Questions : told'[r] = told[r] \/ (r = q /\ told'[r] = Answer(copy, r))
  BY <1>1, CopiedOut DEF IInv
<1>4. Shape'  BY <1>3 DEF IInv, Shape
<1>5. ASSUME NEW r \in Questions, FromFile(r, told[r])
      PROVE  told'[r] = told[r] /\ blob' # NoFile /\ told'[r] = Answer(blob', r)
  <2>1. blob # NoFile /\ told[r] = Answer(blob, r)  BY <1>5 DEF IInv, ToldIsKept
  <2>2. copy = blob  BY <1>1, <2>1 DEF Blobs
  <2> QED  BY <1>1, <1>3, <2>1, <2>2
<1>6. ASSUME NEW r \in Questions, FromFile(r, told'[r])
      PROVE  blob' # NoFile /\ told'[r] = Answer(blob', r)
  <2>1. CASE told'[r] = told[r]  BY <1>5, <1>6, <2>1
  <2>2. CASE told'[r] = Answer(copy, r)  BY <1>1, <1>6, <2>2, NoFileNoAnswer
  <2> QED  BY <1>3, <2>1, <2>2
<1>7. ToldIsKept'  BY <1>6 DEF ToldIsKept, FromFile, NotFromFile
<1>8. PathIsKept'  BY <1>2, <1>3 DEF IInv, PathIsKept, PathTold
<1> QED  BY <1>4, <1>5, <1>7, <1>8 DEF IInv

\* GetPath tells the directory it keeps.
LEMMA PathStep ==
  ASSUME IInv, GetPath PROVE IInv' /\ \A q \in Questions : told'[q] = told[q]
<1>1. /\ blob' = blob /\ s_apppath' = AppDir
      /\ told' = [told EXCEPT !["path"] = IF AppDir = NoDir THEN Nothing ELSE AppDir]
  BY DEF GetPath, prefs
<1>2. "path" \in DOMAIN told /\ "path" \notin Questions  BY DEF IInv, Shape, Questions
<1>3. Shape' /\ \A q \in Questions : told'[q] = told[q]  BY <1>1, <1>2 DEF IInv, Shape
<1>4. ToldIsKept'  BY <1>1, <1>3 DEF IInv, ToldIsKept, FromFile, NotFromFile
<1>5. PathIsKept'  BY <1>1, <1>2 DEF PathIsKept, PathTold
<1> QED  BY <1>3, <1>4, <1>5 DEF IInv

\* The other calls of the library and the world around it tell nothing.
LEMMA QuietStep ==
  ASSUME IInv, UNCHANGED vars \/ WritePrefs \/ PDL_Init \/ PDL_Quit \/ PDL_GetAppinfoValue \/ Reinstall
  PROVE  IInv' /\ told' = told
<1>1. told' = told /\ blob' = blob
  BY DEF vars, prefs, WritePrefs, PDL_Init, PDL_Quit, PDL_GetAppinfoValue, Reinstall
<1>2. s_apppath # NoDir => s_apppath' = s_apppath
  BY HomeStays DEF vars, app, WritePrefs, PDL_Init, PDL_Quit, PDL_GetAppinfoValue, Reinstall
<1>3. Shape'  BY <1>1 DEF IInv, Shape
<1>4. ToldIsKept'  BY <1>1 DEF IInv, ToldIsKept, FromFile, NotFromFile
<1>5. PathIsKept'  BY <1>1, <1>2 DEF IInv, PathIsKept, PathTold
<1> QED  BY <1>1, <1>3, <1>4, <1>5 DEF IInv

\* Every step keeps the invariant and the answers given from the file.
LEMMA NextStep ==
  ASSUME IInv, [Next]_vars
  PROVE  IInv' /\ \A q \in Questions : told'[q] # told[q] => ~FromFile(q, told[q])
<1>1. CASE UNCHANGED vars  BY <1>1, QuietStep
<1>2. ASSUME NEW q \in Questions, NEW room \in Rooms, GetLocale(q, room)
      PROVE  IInv' /\ \A r \in Questions : told'[r] # told[r] => ~FromFile(r, told[r])
  BY <1>2, LocaleStep
<1>3. CASE WritePrefs  BY <1>3, QuietStep
<1>4. CASE PDL_Init \/ PDL_Quit  BY <1>4, QuietStep
<1>5. CASE GetPath  BY <1>5, PathStep
<1>6. CASE PDL_GetAppinfoValue  BY <1>6, QuietStep
<1>7. CASE Reinstall  BY <1>7, QuietStep
<1> QED  BY <1>1, <1>2, <1>3, <1>4, <1>5, <1>6, <1>7 DEF Next
-----------------------------------------------------------------------------
\* In every reachable state, what was told from the file and of the directory is what
\* the library keeps of them.
THEOREM Invariance == Spec => []IInv
<1>1. IInv /\ [Next]_vars => IInv'  BY NextStep
<1> QED  BY InitIInv, <1>1, PTL DEF Spec

\* An answer given from the preferences is given for the rest of the process
\* (src/libpdl.c:126-138).
THEOREM AnswersCorrect == Spec => AnswersSettle
<1>1. IInv /\ [Next]_vars =>
        [\A q \in Questions : told'[q] # told[q] =>
           IF q = "language" THEN told[q] \in {<<v, v>> : v \in NotFromFile}
           ELSE told[q] \in NotFromFile]_vars
  <2> SUFFICES ASSUME IInv, [Next]_vars, NEW q \in Questions, told'[q] # told[q]
               PROVE  IF q = "language" THEN told[q] \in {<<v, v>> : v \in NotFromFile}
                      ELSE told[q] \in NotFromFile
    OBVIOUS
  <2>1. ~FromFile(q, told[q])  BY NextStep
  <2> QED  BY <2>1 DEF FromFile
<1> QED  BY Invariance, <1>1, PTL DEF Spec, AnswersSettle

\* All paths that are told lie in one directory (src/libpdl.c:160-204).
THEOREM PathsCorrect == Spec => OneHome
<1>1. IInv /\ IInv' /\ [Next]_vars => [PathTold /\ PathTold' => told'["path"] = told["path"]]_vars
  <2> SUFFICES ASSUME IInv, IInv', [Next]_vars, PathTold, PathTold' PROVE told'["path"] = told["path"]
    OBVIOUS
  <2>1. s_apppath # NoDir /\ told["path"] = s_apppath  BY DEF IInv, PathIsKept
  <2>2. told'["path"] = s_apppath'  BY DEF IInv, PathIsKept
  <2>3. s_apppath' = s_apppath
    BY <2>1, HomeStays DEF Next, vars, app, GetLocale, WritePrefs, PDL_Init, PDL_Quit, GetPath,
       PDL_GetAppinfoValue, Reinstall
  <2> QED  BY <2>1, <2>2, <2>3
<1> QED  BY Invariance, <1>1, PTL DEF Spec, OneHome
=============================================================================
