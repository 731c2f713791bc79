---------------------------- MODULE InstallGames ----------------------------
(***************************************************************************)
(* tools/install-games.sh: the loop that prepares the packages one by one, *)
(* measures the target, pushes an archive and has it unpacked there by one *)
(* chain of remote commands, and at the end restarts the app manager.      *)
(*                                                                         *)
(* The connection may be lost in any remote step.  What the target was     *)
(* told to run then goes on without anybody waiting for it (a stray), next *)
(* to what the script does about the following packages.  Nor does the     *)
(* script look at the status of the local tar and of python3: what they    *)
(* leave of a package is packed and installed like a whole one.  A package *)
(* and the application directory it fills are one thing here.              *)
(***************************************************************************)
EXTENDS Integers, Sequences, FiniteSets, FiniteSetsExt

CONSTANTS
  IPKS,       \* the packages, smallest first (ls -S -r)
  Kind,       \* what the local preparation finds: "game", "web", "bad" (nothing to
              \* install) or "torn" (a part of a game, or one python3 cannot rewrite)
  Size,       \* MB of a package, and of the archive made of it
  Grown,      \* MB of its application directory
  Disk,       \* MB free on the target without any of them
  MinFree,    \* the reserve, min-free-mb
  MaxLost     \* bound: how often the connection is lost or the local disk fails

NoReading == -1
Packages  == {IPKS[k] : k \in DOMAIN IPKS}

\* "extracted is usually a bit larger than the archive" (:95).
Need(p) == (Size[p] * 3) \div 2 + 50

\* The packages are files of one directory: each is listed once.  With none of them
\* the loop has no body to run.
ASSUME InstallAssumption ==
  /\ IPKS \in Seq(Packages) /\ IPKS # <<>>
  /\ \A m, n \in DOMAIN IPKS : IPKS[m] = IPKS[n] => m = n
  /\ Kind \in [Packages -> {"game", "web", "bad", "torn"}]
  /\ Size \in [Packages -> Nat] /\ Grown \in [Packages -> Nat]
  /\ Disk \in Nat /\ MinFree \in Nat /\ MaxLost \in Nat

VARIABLES
  pc,       \* where the script is: "df", "check", "push", "pushing", "remote", "wait", "restart", "done"
  k,        \* the package the loop is at
  free,     \* what freemb printed, NoReading if nothing
  report,   \* the line printed about each package in this run
  made,     \* what was packed of each in this run: none, whole or flawed
  apps,     \* the directories on the target: none, part, or all of a tree that was
            \* whole or flawed when it was packed
  tmp,      \* /tmp/app.tgz: the package it is of, whether all of it is there, its tree
  jobs,     \* the command chains running on the target
  sam,      \* the applications that were whole when the app manager last started
  lost,     \* connections lost and failures of the local disk so far
  blind,    \* history: a check had no reading, or a stray made it stale
  touched   \* history: directories a stray has worked on since they were pushed

script == <<pc, k, free, report, made, blind>>
target == <<apps, tmp, jobs, sam>>
vars   == <<script, target, lost, touched>>

Trees  == {"none", "whole", "flawed"}
NoFile == [of |-> "none", whole |-> FALSE, tree |-> "none"]
Archive(p, whole) == [of |-> p, whole |-> whole, tree |-> made[p]]

\* A chain: the package it was sent for, the command it is at, the package and the
\* tree in the archive tar opened, whether that archive was all there and stayed
\* so, whether the directory was removed under it, and its number as a stray (0
\* while the script waits for it).
Job(p) == [for |-> p, at |-> "rm", src |-> p, tree |-> "none", sound |-> TRUE, holed |-> FALSE, stray |-> 0]

ipk == IPKS[k]

\* MB that the directory of p takes; a part of it takes half.
Mb(p, state) ==
  CASE state = "none" -> 0
    [] state = "part" -> Grown[p] \div 2
    [] OTHER          -> Grown[p]

Total(w) == MapThenSumSet(LAMBDA p : w[p], Packages)
Taken(a) == Total([p \in Packages |-> Mb(p, a[p])])
InTmp(t) == IF t = NoFile THEN 0 ELSE Size[t.of]
Free == Disk - Taken(apps) - InTmp(tmp)

Init ==
  /\ pc = "df" /\ k = 1 /\ free = NoReading
  /\ report = [p \in Packages |-> ""]
  /\ made = [p \in Packages |-> "none"]
  /\ apps = [p \in Packages |-> "none"]
  /\ tmp = NoFile /\ jobs = {} /\ sam = {}
  /\ lost = 0 /\ blind = FALSE /\ touched = {}
-----------------------------------------------------------------------------
(* The script.                                                             *)

\* The connection is lost, or the local disk is full or cannot be read.
CanLose == lost < MaxLost /\ lost' = lost + 1

\* Mutant: the loop runs past the last package.
Advance_PastEnd ==
  IF k <= Len(IPKS) THEN pc' = "df" /\ k' = k + 1 ELSE pc' = "restart" /\ k' = 1

\* Mutant: ssh without -n eats the list of packages (the comment at :60).
Advance_ListEaten == pc' = "restart" /\ k' = 1

\* The end of the loop's body, whichever way it is left.
Advance ==
  IF k < Len(IPKS) THEN pc' = "df" /\ k' = k + 1 ELSE pc' = "restart" /\ k' = 1

\* The line printed about the package.
Says(line) == report' = [report EXCEPT ![ipk] = line]

\* freemb: the reading is empty when the connection fails.
ReadFree ==
  /\ pc = "df"
  /\ \/ free' = Max({0, Free}) /\ blind' = (blind \/ jobs # {}) /\ UNCHANGED lost
     \/ free' = NoReading /\ blind' = TRUE /\ CanLose
  /\ pc' = "check"
  /\ UNCHANGED <<k, report, made, target, touched>>

\* Mutant: the reserve is forgotten in the comparison.
TooFull_NoReserve == free # NoReading /\ free < Need(ipk)

\* [ "$free" -lt ... ]: with an empty reading the test fails, and the package is
\* installed.
TooFull == free # NoReading /\ free < MinFree + Need(ipk)

Skip ==
  /\ pc = "check" /\ (TooFull \/ Kind[ipk] = "web")
  /\ Says("SKIP") /\ Advance
  /\ UNCHANGED <<free, made, blind, target, lost, touched>>

\* No archive, no application or no executable in it; or the local disk leaves so
\* little of it that it looks like that, or like a web app.
Unusable ==
  /\ pc = "check" /\ ~TooFull
  /\ \/ Kind[ipk] = "bad" /\ Says("FAIL") /\ UNCHANGED lost
     \/ Kind[ipk] # "bad" /\ CanLose /\ \E line \in {"FAIL", "SKIP"} : Says(line)
  /\ Advance
  /\ UNCHANGED <<free, made, blind, target, touched>>

\* The tree is packed as tar and python3 have left it.
Pack ==
  /\ pc = "check" /\ ~TooFull /\ Kind[ipk] \in {"game", "torn"}
  /\ \/ Kind[ipk] = "game" /\ made' = [made EXCEPT ![ipk] = "whole"] /\ UNCHANGED lost
     \/ Kind[ipk] = "torn" /\ made' = [made EXCEPT ![ipk] = "flawed"] /\ UNCHANGED lost
     \/ CanLose /\ made' = [made EXCEPT ![ipk] = "flawed"]
  /\ pc' = "push"
  /\ UNCHANGED <<k, free, report, blind, target, touched>>

\* A package that cannot be packed is left without a word.
PackFails ==
  /\ pc = "check" /\ ~TooFull /\ Kind[ipk] \in {"game", "torn"}
  /\ CanLose /\ Advance
  /\ UNCHANGED <<free, report, made, blind, target, touched>>

\* push_file opens /tmp/app.tgz and cuts it: a stray that has the same file
\* open reads on in the new contents.
PushBegins ==
  /\ pc = "push"
  /\ tmp' = Archive(ipk, FALSE)
  /\ jobs' = {IF j.at = "tar" /\ tmp # NoFile THEN [j EXCEPT !.sound = FALSE] ELSE j : j \in jobs}
  /\ pc' = "pushing"
  /\ UNCHANGED <<k, free, report, made, blind, apps, sam, lost, touched>>

\* The archive is there, unless a stray's last command has removed it.
PushEnds ==
  /\ pc = "pushing" /\ Free >= 0
  /\ tmp' = IF tmp = NoFile THEN NoFile ELSE Archive(ipk, TRUE)
  /\ touched' = touched \ {ipk}
  /\ pc' = "remote"
  /\ UNCHANGED <<k, free, report, made, blind, apps, jobs, sam, lost>>

\* The connection is lost in the push, or before the target starts the chain.
TransferFails ==
  /\ \/ pc \in {"push", "pushing", "remote"} /\ CanLose
     \/ pc = "pushing" /\ Free < 0 /\ UNCHANGED lost
  /\ Says("FAIL") /\ Advance
  /\ UNCHANGED <<free, made, blind, target, touched>>

StartChain ==
  /\ pc = "remote"
  /\ jobs' = jobs \union {Job(ipk)}
  /\ pc' = "wait"
  /\ UNCHANGED <<k, free, report, made, blind, apps, tmp, sam, lost, touched>>

\* The connection is lost while the script waits: it goes on, and so does the target.
LoseChain ==
  /\ pc = "wait" /\ CanLose
  /\ jobs' = {IF j.stray = 0 THEN [j EXCEPT !.stray = lost'] ELSE j : j \in jobs}
  /\ touched' = touched \union {j.src : j \in jobs}
  /\ Says("FAIL") /\ Advance
  /\ UNCHANGED <<free, made, blind, apps, tmp, sam>>

\* The app manager is restarted and scans; a lost connection is not noticed.
Restart ==
  /\ pc = "restart"
  /\ \/ sam' = {p \in Packages : apps[p] = "whole"} /\ UNCHANGED lost
     \/ sam' = sam /\ CanLose
  /\ pc' = "done"
  /\ UNCHANGED <<k, free, report, made, blind, apps, tmp, jobs, touched>>

\* The user starts the script again.
Rerun ==
  /\ pc = "done"
  /\ pc' = "df" /\ k' = 1 /\ free' = NoReading
  /\ report' = [p \in Packages |-> ""]
  /\ made' = [p \in Packages |-> "none"]
  /\ UNCHANGED <<blind, target, lost, touched>>
-----------------------------------------------------------------------------
(* A chain on the target: rm -rf && tar xzf && rm -f.                      *)

Worked(j, ps) == touched' = IF j.stray = 0 THEN touched ELSE touched \union ps

\* The chain ends; if the script waits for it, it has the status.
Ends(j, good) ==
  /\ jobs' = jobs \ {j}
  /\ IF j.stray = 0
       THEN Says(IF good THEN "OK" ELSE "FAIL") /\ Advance /\ UNCHANGED <<free, made, blind>>
       ELSE UNCHANGED script

RemoveOld(j) ==
  /\ j.at = "rm"
  /\ apps' = [apps EXCEPT ![j.for] = "none"]
  /\ jobs' = {IF i = j THEN [i EXCEPT !.at = "open"]
              ELSE IF i.at = "tar" /\ i.src = j.for THEN [i EXCEPT !.holed = TRUE] ELSE i : i \in jobs}
  /\ Worked(j, {j.for})
  /\ UNCHANGED <<script, tmp, sam, lost>>

\* tar opens whatever archive is there now and begins to write its directory.
OpenArchive(j) ==
  /\ j.at = "open" /\ tmp # NoFile
  /\ apps' = [apps EXCEPT ![tmp.of] = "part"]
  /\ jobs' = (jobs \ {j}) \union
             {[j EXCEPT !.at = "tar", !.src = tmp.of, !.tree = tmp.tree, !.sound = tmp.whole]}
  /\ Worked(j, {tmp.of})
  /\ UNCHANGED <<script, tmp, sam, lost>>

NoArchive(j) ==
  /\ j.at = "open" /\ tmp = NoFile
  /\ Ends(j, FALSE)
  /\ UNCHANGED <<apps, tmp, sam, lost, touched>>

Fits(j) == Free + Grown[j.src] \div 2 >= Grown[j.src]

\* tar has written the directory, less what was removed under it.
Unpacked(j) ==
  /\ j.at = "tar" /\ Fits(j)
  /\ apps' = [apps EXCEPT ![j.src] = IF j.holed THEN @ ELSE j.tree]
  /\ jobs' = (jobs \ {j}) \union {[j EXCEPT !.at = "clean"]}
  /\ Worked(j, {j.src})
  /\ UNCHANGED <<script, tmp, sam, lost>>

\* Mutant: the commands are chained with ";", and the last one succeeds.
UnpackFails_ChainGoesOn(j) ==
  /\ j.at = "tar" /\ (~Fits(j) \/ ~j.sound)
  /\ Ends(j, TRUE)
  /\ UNCHANGED <<apps, tmp, sam, lost, touched>>

\* No room, or an archive that ends early.  An archive cut by a push may have
\* been read to its end before, so that Unpacked is possible as well.
UnpackFails(j) ==
  /\ j.at = "tar" /\ (~Fits(j) \/ ~j.sound)
  /\ Ends(j, FALSE)
  /\ UNCHANGED <<apps, tmp, sam, lost, touched>>

RemoveArchive(j) ==
  /\ j.at = "clean"
  /\ tmp' = NoFile
  /\ Ends(j, TRUE)
  /\ UNCHANGED <<apps, sam, lost, touched>>

\* A stray may be killed with its connection.
Killed(j) ==
  /\ j.stray # 0
  /\ Ends(j, FALSE)
  /\ UNCHANGED <<apps, tmp, sam, lost, touched>>
-----------------------------------------------------------------------------
ScriptStep ==
  \/ ReadFree \/ Skip \/ Unusable \/ Pack \/ PackFails \/ PushBegins \/ PushEnds
  \/ TransferFails \/ StartChain \/ LoseChain \/ Restart \/ Rerun

ChainStep(j) ==
  RemoveOld(j) \/ OpenArchive(j) \/ NoArchive(j) \/ Unpacked(j) \/ UnpackFails(j) \/ RemoveArchive(j)

Next == ScriptStep \/ \E j \in jobs : ChainStep(j) \/ Killed(j)

Spec == Init /\ [][Next]_vars

\* The script runs on, the target runs the chain the script waits for, and the
\* user starts the script again and again.
FairSpec ==
  /\ Spec
  /\ WF_vars(ScriptStep)
  /\ WF_vars(\E j \in jobs : j.stray = 0 /\ ChainStep(j))
-----------------------------------------------------------------------------
\* The script waits exactly for the one chain that is not a stray.
TypeOK ==
  /\ pc \in {"df", "check", "push", "pushing", "remote", "wait", "restart", "done"}
  /\ k \in DOMAIN IPKS
  /\ free \in {NoReading} \union 0..Disk
  /\ report \in [Packages -> {"", "OK", "FAIL", "SKIP"}]
  /\ made \in [Packages -> Trees] /\ apps \in [Packages -> Trees \union {"part"}]
  /\ tmp = NoFile \/ tmp \in [of : Packages, whole : BOOLEAN, tree : Trees]
  /\ \A j \in jobs : /\ j.at \in {"rm", "open", "tar", "clean"}
                     /\ {j.for, j.src} \subseteq Packages /\ j.tree \in Trees
                     /\ j.stray \in 0..MaxLost
  /\ Cardinality({j \in jobs : j.stray = 0}) = IF pc = "wait" THEN 1 ELSE 0
  /\ sam \subseteq Packages /\ touched \subseteq Packages
  /\ lost \in 0..MaxLost /\ blind \in BOOLEAN

\* What is reported OK is there as it was packed, all of a whole tree or all of a
\* flawed one, whatever failed before and whatever strays remove from /tmp, unless
\* a stray has worked on the directory since.
OkIsAsPacked ==
  \A p \in Packages : report[p] = "OK" /\ p \notin touched => apps[p] = made[p]

\* What the directories take, each counted as no more than was estimated for it.
Estimated(a) == Total([p \in Packages |-> Min({Need(p), Mb(p, a[p])})])

\* As far as the estimates hold, the applications leave the reserve free (:27), with
\* archives left behind, directories half written and reruns, as long as every
\* check has a reading that no stray outdates: only what the last package takes
\* above its estimate (:95) comes out of the reserve.
ReserveKept == ~blind => Disk - Estimated(apps) >= MinFree

\* The target has room for the application of p, by the script's estimate and in fact.
Room(p) == Free >= MinFree + Need(p) /\ Free >= Grown[p]

\* An application for which the target keeps room is, again and again, whole
\* and known to the launcher, however often connections were lost, whatever
\* they left half done, and though it was installed flawed: a rerun repairs it.
RerunsRepair ==
  \A p \in Packages :
    Kind[p] = "game" /\ <>[]Room(p) => []<>(apps[p] = "whole" /\ p \in sam)
=============================================================================
