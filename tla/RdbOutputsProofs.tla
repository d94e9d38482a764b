-------------------------- MODULE RdbOutputsProofs --------------------------
(***************************************************************************)
(* For any requests, names and numbers of selections: whatever is found at *)
(* the name of an RDB, or behind a key of the project, is whole.  The      *)
(* invariant says of every file that is at a name, was hashed or was taken *)
(* in by a request, that the request that made it is past its last failure.*)
(***************************************************************************)
EXTENDS RdbOutputs, TLAPS

Places == {"idle", "checking", "writing", "truncated", "written", "hashed",
           "new", "taken", "answered", "refused", "unpublished", "killed"}
File == [by : Exports \cup {"none"}, streams : Nat]
Request == [at : Places, left : Nat, failed : Nat, streams : Nat,
            key : File, got : File]

Shape ==
    /\ out \in [OutPaths -> File]
    /\ temp \in [Exports -> Int]
    /\ export \in [Exports -> Request]
    /\ DOMAIN project \subseteq File
    /\ \A k \in DOMAIN project : project[k] \in File

\* A request that has written its file, whatever came after.
Finished(j) ==
    /\ export[j].at \in {"written", "hashed", "new", "taken", "answered",
                         "unpublished", "killed"}
    /\ export[j].failed = 0 /\ export[j].left = 0

\* A file that is nobody's, a spreadsheet's, or the whole output of its request.
Sound(c) ==
    \A j \in Exports :
        c.by = j /\ ToolOf[j] # "plain" => c.streams = export[j].streams /\ Finished(j)

Clean(j) == export[j].failed = 0 /\ export[j].left = 0 /\ ToolOf[j] # "plain"

FilesAreSound ==
    /\ \A j \in Exports : At(j, "writing") => Clean(j)
    /\ \A j \in Exports : At(j, "truncated") => ToolOf[j] = "plain"
    /\ \A p \in OutPaths : Sound(out[p])
    /\ \A j \in Exports : Sound(export[j].key) /\ Sound(export[j].got)
    /\ \A k \in DOMAIN project : Sound(project[k])

Inv == Shape /\ FilesAreSound

\* What the requests that are finished remain, and how many streams they have.
Lasting ==
    \A j \in Exports : Finished(j) =>
        export'[j].streams = export[j].streams /\ Finished(j)'

\* Sound(c) after the step.
SoundNext(c) ==
    \A j \in Exports :
        c.by = j /\ ToolOf[j] # "plain" => c.streams = export'[j].streams /\ Finished(j)'

\* A file that is sound stays so while the finished requests stay finished.
LEMMA SoundLasts ==
    ASSUME NEW c, Sound(c), Lasting
    PROVE  SoundNext(c)
BY DEF Sound, SoundNext, Lasting

\* Nobody's file is sound.
LEMMA NoFileIsSound == NoFile \in File /\ Sound(NoFile)
BY OutputsAssumption DEF NoFile, File, Sound

LEMMA InitInv == OutputsInit => Inv
<1> SUFFICES ASSUME OutputsInit PROVE Inv
    OBVIOUS
<1>1. Shape
    BY NoFileIsSound DEF OutputsInit, Shape, Request, Places, NoTemp, NoEntry
<1>2. FilesAreSound
    BY NoFileIsSound DEF OutputsInit, FilesAreSound, At, NoEntry
<1> QED BY <1>1, <1>2 DEF Inv

\* The steps that leave the files alone: only one request moves on.
LEMMA RequestMovesOn ==
    ASSUME Inv, NEW j \in Exports, NEW r \in Request,
           export' = [export EXCEPT ![j] = r],
           UNCHANGED <<out, project>>, temp' \in [Exports -> Int],
           Finished(j) => /\ r.streams = export[j].streams
                          /\ r.at \in {"written", "hashed", "new", "taken",
                                       "answered", "unpublished", "killed"}
                          /\ r.failed = 0 /\ r.left = 0,
           r.at = "writing" => r.failed = 0 /\ r.left = 0 /\ ToolOf[j] # "plain",
           r.at = "truncated" => ToolOf[j] = "plain",
           Sound(r.key), Sound(r.got)
    PROVE  Inv'
<1>1. Shape'
    BY DEF Inv, Shape
<1>2. /\ export'[j] = r
      /\ \A i \in Exports \ {j} : export'[i] = export[i]
    BY DEF Inv, Shape
<1>3. Lasting
    BY <1>2 DEF Lasting, Finished
<1>4. \A c : Sound(c) => Sound(c)'
    BY <1>3, SoundLasts DEF Sound, SoundNext
<1>5. FilesAreSound'
    <2>1. \A i \in Exports : At(i, "writing")' => Clean(i)'
        BY <1>2 DEF Inv, FilesAreSound, At, Clean
    <2>2. \A i \in Exports : At(i, "truncated")' => ToolOf[i] = "plain"
        BY <1>2 DEF Inv, FilesAreSound, At
    <2> QED BY <1>2, <1>4, <2>1, <2>2 DEF Inv, FilesAreSound
<1> QED BY <1>1, <1>5 DEF Inv

\* A file that becomes the one at a name, or behind a key, is sound: the rest stays.
LEMMA FilesMove ==
    ASSUME Inv, NEW j \in Exports, NEW at \in Places,
           export' = [export EXCEPT ![j].at = at], temp' \in [Exports -> Int],
           out' \in [OutPaths -> File],
           DOMAIN project' \subseteq File,
           at # "writing", at = "truncated" => ToolOf[j] = "plain",
           Finished(j) => at \in {"written", "hashed", "new", "taken",
                                  "answered", "unpublished", "killed"},
           \A p \in OutPaths : out'[p] # out[p] => SoundNext(out'[p]),
           \A k \in DOMAIN project' :
              \/ k \in DOMAIN project /\ project'[k] = project[k]
              \/ project'[k] \in File /\ Sound(project'[k])
    PROVE  Inv'
<1>1. export' = [export EXCEPT ![j] = [export[j] EXCEPT !.at = at]]
    OBVIOUS
<1>2. /\ export'[j] = [export[j] EXCEPT !.at = at]
      /\ \A i \in Exports \ {j} : export'[i] = export[i]
    BY <1>1 DEF Inv, Shape
<1>3. Lasting
    BY <1>2 DEF Lasting, Finished, Inv, Shape, Request
<1>4. \A c : Sound(c) => SoundNext(c)
    BY <1>3, SoundLasts
<1>5. Shape'
    <2>1. export'[j] \in Request
        BY <1>2 DEF Inv, Shape, Request
    <2> QED BY <1>1, <2>1 DEF Inv, Shape
<1>6. FilesAreSound'
    <2>1. \A i \in Exports : At(i, "writing")' => Clean(i)'
        BY <1>2 DEF Inv, Shape, Request, FilesAreSound, At, Clean
    <2>2. \A i \in Exports : At(i, "truncated")' => ToolOf[i] = "plain"
        BY <1>2 DEF Inv, Shape, Request, FilesAreSound, At
    <2>3. \A i \in Exports : Sound(export[i].key)' /\ Sound(export[i].got)'
        <3> SUFFICES ASSUME NEW i \in Exports
                     PROVE  Sound(export[i].key)' /\ Sound(export[i].got)'
            OBVIOUS
        <3>1. export'[i].key = export[i].key /\ export'[i].got = export[i].got
            BY <1>2 DEF Inv, Shape, Request
        <3>2. SoundNext(export[i].key) /\ SoundNext(export[i].got)
            BY <1>4 DEF Inv, FilesAreSound
        <3> QED BY <3>1, <3>2 DEF Sound, SoundNext
    <2>4. \A p \in OutPaths : SoundNext(out'[p])
        BY <1>4 DEF Inv, FilesAreSound
    <2>5. \A k \in DOMAIN project' : SoundNext(project'[k])
        BY <1>4 DEF Inv, FilesAreSound
    <2>6. \A p \in OutPaths : Sound(out[p])'
        BY <2>4 DEF Sound, SoundNext
    <2>7. \A k \in DOMAIN project' : Sound(project[k])'
        BY <2>5 DEF Sound, SoundNext
    <2> QED BY <2>1, <2>2, <2>3, <2>6, <2>7 DEF FilesAreSound
<1> QED BY <1>5, <1>6 DEF Inv

LEMMA StepInv == Inv /\ [OutputsNext]_outputVars => Inv'
<1> SUFFICES ASSUME Inv, Shape, FilesAreSound, [OutputsNext]_outputVars PROVE Inv'
    BY DEF Inv
<1>1. ASSUME NEW j \in Exports, BeginExport(j) PROVE Inv'
    <2>1. PICK valid \in 1 .. MaxChosen :
              export' = [export EXCEPT ![j].at = "checking", ![j].left = valid]
        BY <1>1 DEF BeginExport
    <2> DEFINE r == [export[j] EXCEPT !.at = "checking", !.left = valid]
    <2>2. r \in Request /\ export' = [export EXCEPT ![j] = r]
        <3>1. valid \in Nat /\ export[j] \in Request
            BY OutputsAssumption DEF Shape
        <3>2. r \in Request
            BY <3>1 DEF Request, Places
        <3>3. export' = [export EXCEPT ![j] = r]
            BY <2>1
        <3> QED BY <3>2, <3>3
    <2>3. ~Finished(j) /\ r.at = "checking" /\ r.key = export[j].key /\ r.got = export[j].got
        BY <1>1 DEF BeginExport, At, Finished, Shape, Request
    <2> HIDE DEF r
    <2> QED BY <1>1, <2>2, <2>3, RequestMovesOn DEF BeginExport, FilesAreSound, Shape
<1>2. ASSUME NEW j \in Exports, CheckSelection(j) PROVE Inv'
    <2>1. PICK result \in Results(j) :
              export' = [export EXCEPT
                  ![j].left = @ - 1,
                  ![j].failed = @ + (IF result = "fails" THEN 1 ELSE 0),
                  ![j].streams = @ + (IF result = "stream" THEN 1 ELSE 0)]
        BY <1>2 DEF CheckSelection
    <2> DEFINE failed == export[j].failed + (IF result = "fails" THEN 1 ELSE 0)
               streams == export[j].streams + (IF result = "stream" THEN 1 ELSE 0)
               r == [export[j] EXCEPT !.left = export[j].left - 1,
                                      !.failed = failed, !.streams = streams]
    <2>2. r \in Request /\ export' = [export EXCEPT ![j] = r]
        <3>1. export[j] \in Request /\ export[j].left > 0
            BY <1>2 DEF CheckSelection, Shape
        <3>4. failed \in Nat /\ streams \in Nat /\ export[j].left - 1 \in Nat
            BY <3>1 DEF Request
        <3>2. r \in Request
            <4> HIDE DEF failed, streams
            <4> QED BY <3>1, <3>4 DEF Request
        <3>3. export' = [export EXCEPT ![j] = r]
            BY <2>1
        <3> QED BY <3>2, <3>3
    <2>3. ~Finished(j) /\ r.at = "checking" /\ r.key = export[j].key /\ r.got = export[j].got
        BY <1>2 DEF CheckSelection, At, Finished, Shape, Request
    <2> HIDE DEF r
    <2> QED BY <1>2, <2>2, <2>3, RequestMovesOn DEF CheckSelection, FilesAreSound,
       Shape
<1>3. ASSUME NEW j \in Exports, NEW at \in Places, Goes(j, at),
             UNCHANGED <<out, project>>, temp' \in [Exports -> Int],
             at = "writing" => Clean(j), at # "truncated",
             Finished(j) => at \in {"answered", "new", "unpublished"}
      PROVE  Inv'
    <2> DEFINE r == [export[j] EXCEPT !.at = at]
    <2>1. r \in Request /\ export' = [export EXCEPT ![j] = r]
        BY <1>3 DEF Goes, Shape, Request
    <2>2. /\ r.at = at /\ r.left = export[j].left /\ r.failed = export[j].failed
          /\ r.streams = export[j].streams /\ r.key = export[j].key /\ r.got = export[j].got
        BY DEF Shape, Request
    <2> HIDE DEF r
    <2> QED BY <1>3, <2>1, <2>2, RequestMovesOn DEF FilesAreSound, Clean, Finished
<1>4. ASSUME NEW j \in Exports, RefuseExport(j) PROVE Inv'
    BY <1>3, <1>4 DEF RefuseExport, Places, At, Finished, Shape
<1>5. ASSUME NEW j \in Exports, CopySource(j) PROVE Inv'
    <2>1. temp' \in [Exports -> Int] /\ ~Finished(j) /\ Clean(j)
        BY <1>5 DEF CopySource, At, Finished, Clean, Shape
    <2> QED BY <1>3, <1>5, <2>1 DEF CopySource, Places
<1>6. ASSUME NEW j \in Exports, WriteStream(j) PROVE Inv'
    <2>1. temp' \in [Exports -> Int] /\ UNCHANGED <<out, export, project>>
        BY <1>6 DEF WriteStream, Shape, Request
    <2> QED BY <2>1 DEF Inv, Shape, FilesAreSound, Sound, Finished, At, Clean
<1>7. ASSUME NEW j \in Exports, MoveInPlace(j) PROVE Inv'
    <2>1. Clean(j) /\ ~Finished(j) /\ temp' \in [Exports -> Int]
        BY <1>7 DEF MoveInPlace, FilesAreSound, Shape, At, Finished, NoTemp
    <2>2. Whole(j) \in File /\ Whole(j).by = j /\ Whole(j).streams = export[j].streams
        BY DEF Whole, Content, File, Shape, Request
    <2>3. out' = [out EXCEPT ![PathOf[j]] = Whole(j)] /\ Goes(j, "written") /\ UNCHANGED project
        BY <1>7 DEF MoveInPlace
    <2>4. export'[j].streams = export[j].streams /\ Finished(j)'
        BY <2>1, <2>3 DEF Goes, Finished, Clean, Shape, Request
    <2>5. \A p \in OutPaths : out'[p] # out[p] => SoundNext(out'[p])
        <3> SUFFICES ASSUME NEW p \in OutPaths, out'[p] = Whole(j) PROVE SoundNext(out'[p])
            BY <2>3 DEF Shape
        <3> QED BY <2>2, <2>4 DEF SoundNext
    <2>6. out' \in [OutPaths -> File]
        BY <2>2, <2>3 DEF Shape
    <2>7. "written" \in Places
        BY DEF Places
    <2>8. \A k \in DOMAIN project' : k \in DOMAIN project /\ project'[k] = project[k]
        BY <2>3
    <2>9. DOMAIN project' \subseteq File
        BY <2>3 DEF Shape
    <2> QED BY <2>1, <2>3, <2>5, <2>6, <2>7, <2>8, <2>9, FilesMove DEF Goes
<1>8. ASSUME NEW j \in Exports, WriteFails(j) PROVE Inv'
    <2>1. temp' \in [Exports -> Int] /\ ~Finished(j)
        BY <1>8 DEF WriteFails, At, Finished, Shape, NoTemp
    <2> QED BY <1>3, <1>8, <2>1 DEF WriteFails, Places
<1>9. ASSUME NEW j \in Exports, NEW c \in File, c.by = j, ToolOf[j] = "plain",
             ~Finished(j), out' \in {out, [out EXCEPT ![PathOf[j]] = c]},
             NEW at \in {"truncated", "written", "refused"}, Goes(j, at),
             UNCHANGED <<temp, project>>
      PROVE  Inv'
    <2>1. \A p \in OutPaths : out'[p] # out[p] => SoundNext(out'[p])
        <3> SUFFICES ASSUME NEW p \in OutPaths, out'[p] = c PROVE SoundNext(out'[p])
            BY <1>9 DEF Shape
        <3> QED BY <1>9 DEF SoundNext
    <2>2. out' \in [OutPaths -> File]
        BY <1>9 DEF Shape
    <2>3. at \in Places /\ temp' \in [Exports -> Int]
        BY <1>9 DEF Places, Shape
    <2>4. /\ \A k \in DOMAIN project' : k \in DOMAIN project /\ project'[k] = project[k]
          /\ DOMAIN project' \subseteq File
        BY <1>9 DEF Shape
    <2> QED BY <1>9, <2>1, <2>2, <2>3, <2>4, FilesMove DEF Goes
<1>10. ASSUME NEW j \in Exports, Truncate(j) PROVE Inv'
    <2>1. Content(j, 0) \in File /\ Content(j, 0).by = j /\ ~Finished(j)
        BY <1>10 DEF Truncate, At, Finished, Content, File
    <2> QED BY <1>9, <1>10, <2>1 DEF Truncate
<1>11. ASSUME NEW j \in Exports, FillIn(j) PROVE Inv'
    <2>1. Whole(j) \in File /\ Whole(j).by = j /\ ~Finished(j) /\ ToolOf[j] = "plain"
        BY <1>11 DEF FillIn, At, Finished, FilesAreSound, Whole, Content, File,
           Shape, Request
    <2> QED BY <1>9, <1>11, <2>1 DEF FillIn
<1>12. ASSUME NEW j \in Exports, HashOutput(j) PROVE Inv'
    <2> DEFINE r == [export[j] EXCEPT !.at = "hashed", !.key = out[PathOf[j]]]
    <2>1. out[PathOf[j]] \in File /\ Sound(out[PathOf[j]])
        BY OutputsAssumption DEF Shape, FilesAreSound
    <2>2. r \in Request /\ export' = [export EXCEPT ![j] = r]
        BY <1>12, <2>1 DEF HashOutput, Shape, Request, Places
    <2>3. /\ r.at = "hashed" /\ r.left = export[j].left /\ r.failed = export[j].failed
          /\ r.streams = export[j].streams /\ r.key = out[PathOf[j]] /\ r.got = export[j].got
        BY DEF Shape, Request
    <2> HIDE DEF r
    <2>4. Sound(r.key) /\ Sound(r.got)
        BY <2>1, <2>3 DEF FilesAreSound
    <2>5. UNCHANGED <<out, project>> /\ temp' \in [Exports -> Int]
        BY <1>12 DEF HashOutput, Shape
    <2>6. Finished(j) => r.failed = 0 /\ r.left = 0
        BY <2>3 DEF Finished
    <2> QED BY <2>2, <2>3, <2>4, <2>5, <2>6, RequestMovesOn
<1>13. ASSUME NEW j \in Exports, FindInProject(j) PROVE Inv'
    BY <1>3, <1>13 DEF FindInProject, Places, Finished, At, Shape
<1>14. ASSUME NEW j \in Exports, TakeIn(j) PROVE Inv'
    <2>1. CASE Goes(j, "answered")
        BY <1>3, <1>14, <2>1 DEF TakeIn, Places, Shape
    <2>2. CASE export' = [export EXCEPT ![j].at = "taken", ![j].got = out[PathOf[j]]]
        <3> DEFINE r == [export[j] EXCEPT !.at = "taken", !.got = out[PathOf[j]]]
        <3>1. out[PathOf[j]] \in File /\ Sound(out[PathOf[j]])
            BY OutputsAssumption DEF Shape, FilesAreSound
        <3>2. r \in Request /\ export' = [export EXCEPT ![j] = r]
            BY <2>2, <3>1 DEF Shape, Request, Places
        <3>3. /\ r.at = "taken" /\ r.left = export[j].left /\ r.failed = export[j].failed
              /\ r.streams = export[j].streams /\ r.key = export[j].key /\ r.got = out[PathOf[j]]
            BY DEF Shape, Request
        <3> HIDE DEF r
        <3> QED BY <1>14, <3>1, <3>2, <3>3, RequestMovesOn
                DEF TakeIn, FilesAreSound, Finished, Shape
    <2> QED BY <1>14, <2>1, <2>2 DEF TakeIn
<1>15. ASSUME NEW j \in Exports, ListOutput(j) PROVE Inv'
    <2>1. export[j].key \in File /\ export[j].got \in File /\ Sound(export[j].got)
        BY DEF Shape, Request, FilesAreSound
    <2>2. DOMAIN project' \subseteq File
        BY <1>15, <2>1 DEF ListOutput, Shape
    <2>3. \A k \in DOMAIN project' :
              \/ k \in DOMAIN project /\ project'[k] = project[k]
              \/ project'[k] \in File /\ Sound(project'[k])
        BY <1>15, <2>1 DEF ListOutput
    <2>4. /\ Goes(j, "answered") /\ "answered" \in Places
          /\ out' \in [OutPaths -> File] /\ temp' \in [Exports -> Int]
          /\ \A p \in OutPaths : out'[p] = out[p]
        BY <1>15 DEF ListOutput, Places, Shape
    <2> QED BY <2>2, <2>3, <2>4, FilesMove DEF Goes
<1>16. ASSUME Killed PROVE Inv'
    <2>1. \A j \in Exports : export'[j] = [export[j] EXCEPT !.at = "killed"]
        BY <1>16 DEF Killed
    <2>2. \A j \in Exports :
              /\ export'[j] \in Request /\ export'[j].at = "killed"
              /\ export'[j].key = export[j].key /\ export'[j].got = export[j].got
              /\ export'[j].streams = export[j].streams
              /\ export'[j].failed = export[j].failed /\ export'[j].left = export[j].left
        <3> SUFFICES ASSUME NEW j \in Exports
                     PROVE  /\ export'[j] \in Request /\ export'[j].at = "killed"
                            /\ export'[j].key = export[j].key
                            /\ export'[j].got = export[j].got
                            /\ export'[j].streams = export[j].streams
                            /\ export'[j].failed = export[j].failed
                            /\ export'[j].left = export[j].left
            OBVIOUS
        <3>1. export[j] \in Request /\ export'[j] = [export[j] EXCEPT !.at = "killed"]
            BY <2>1 DEF Shape
        <3> QED BY <3>1 DEF Request, Places
    <2>3. Lasting
        BY <2>2 DEF Lasting, Finished
    <2>4. \A c : Sound(c) => Sound(c)'
        BY <2>3, SoundLasts DEF Sound, SoundNext
    <2>5. Shape'
        BY <1>16, <2>2 DEF Killed, Shape, NoEntry
    <2>6. FilesAreSound'
        BY <1>16, <2>2, <2>4 DEF Killed, FilesAreSound, At, NoEntry
    <2> QED BY <2>5, <2>6 DEF Inv
<1>17. ASSUME NEW j \in Exports, TextsFail(j) PROVE Inv'
    BY <1>3, <1>17 DEF TextsFail, Places, Finished, At, Shape
<1>18. CASE UNCHANGED outputVars
    BY <1>18 DEF outputVars, Inv, Shape, FilesAreSound, Sound, Finished, At, Clean
<1> QED
    BY <1>1, <1>2, <1>4, <1>5, <1>6, <1>7, <1>8, <1>10, <1>11, <1>12, <1>13,
       <1>14, <1>15, <1>16, <1>17, <1>18 DEF OutputsNext

\* Every state satisfies the invariant.
THEOREM OutputsInvariant == OutputsSpec => []Inv
BY InitInv, StepInv, PTL DEF OutputsSpec

(***************************************************************************)
(* For any requests and names: at the name of an RDB, and in the project,  *)
(* is only ever the whole output of one request none of whose selections   *)
(* failed and that was not refused.  Of a DNP map that includes one whose  *)
(* texts failed afterwards, which is answered with an error and leaves its *)
(* RDB at the name.                                                        *)
(***************************************************************************)
THEOREM OutputIsWholeHolds == OutputsSpec => []OutputIsWhole
<1>1. Inv => OutputIsWhole
    <2> SUFFICES ASSUME Inv,
                        NEW c \in {out[p] : p \in OutPaths}
                                  \cup {project[k] : k \in DOMAIN project},
                        NEW j \in Exports, c.by = j, ToolOf[j] # "plain"
                 PROVE  /\ c = Whole(j) /\ export[j].failed = 0
                        /\ export[j].left = 0 /\ ~At(j, "refused")
        BY DEF OutputIsWhole
    <2>1. c \in File /\ Sound(c)
        BY DEF Inv, Shape, FilesAreSound
    <2>2. c.streams = export[j].streams /\ Finished(j)
        BY <2>1 DEF Sound
    <2>3. c = Whole(j)
        BY <2>1, <2>2 DEF File, Whole, Content
    <2> QED BY <2>2, <2>3 DEF Finished, At
<1> QED BY <1>1, OutputsInvariant, PTL

----------------------------------------------------------------------------
(* How much is written. *)

\* A request has at most the selections it began with, and a temporary file
\* only while it writes, or when it was killed there.
InBounds(j) ==
    /\ temp[j] \in NoTemp .. MaxChosen
    /\ export[j].left + export[j].failed + export[j].streams <= MaxChosen
    /\ At(j, "idle") => /\ export[j].left = 0 /\ export[j].failed = 0
                        /\ export[j].streams = 0
    /\ export[j].at \notin {"writing", "killed"} => temp[j] = NoTemp

Bounded ==
    /\ \A j \in Exports : InBounds(j)
    /\ \A p \in OutPaths : out[p].streams <= MaxChosen

LEMMA RequestNumbers ==
    ASSUME Inv, NEW j \in Exports
    PROVE  /\ export[j] \in Request /\ MaxChosen \in Nat /\ NoTemp \in NoTemp .. MaxChosen
           /\ export[j].left \in Nat /\ export[j].failed \in Nat /\ export[j].streams \in Nat
           /\ InBounds(j) => export[j].streams \in 0 .. MaxChosen
<1>1. export[j] \in Request /\ MaxChosen \in Nat
    BY OutputsAssumption DEF Inv, Shape
<1>2. /\ export[j].left \in Nat /\ export[j].failed \in Nat /\ export[j].streams \in Nat
    BY <1>1 DEF Request
<1>3. InBounds(j) => export[j].streams \in 0 .. MaxChosen
    BY <1>1, <1>2 DEF InBounds
<1> QED BY <1>1, <1>2, <1>3 DEF NoTemp

\* One request moves on, and writes at most one file.
LEMMA BoundedMove ==
    ASSUME Inv, Bounded, NEW j \in Exports,
           \A i \in Exports : i # j => export'[i] = export[i] /\ temp'[i] = temp[i],
           InBounds(j)',
           \A p \in OutPaths : out'[p] = out[p] \/ out'[p].streams <= MaxChosen
    PROVE  Bounded'
<1>1. \A i \in Exports : i # j => InBounds(i)'
    BY DEF Bounded, InBounds, At
<1>2. \A p \in OutPaths : out'[p].streams <= MaxChosen
    BY DEF Bounded
<1> QED BY <1>1, <1>2 DEF Bounded

LEMMA OnlyMoves ==
    ASSUME Inv, NEW j \in Exports, NEW at, Goes(j, at)
    PROVE  /\ \A i \in Exports : i # j => export'[i] = export[i]
           /\ export'[j].at = at /\ export'[j].left = export[j].left
           /\ export'[j].failed = export[j].failed /\ export'[j].streams = export[j].streams
BY DEF Inv, Shape, Request, Goes

LEMMA BoundedStep == Inv /\ Bounded /\ [OutputsNext]_outputVars => Bounded'
<1> SUFFICES ASSUME Inv, Bounded, [OutputsNext]_outputVars PROVE Bounded'
    OBVIOUS
<1>0. /\ DOMAIN temp = Exports /\ DOMAIN out = OutPaths /\ export \in [Exports -> Request]
      /\ \A j \in Exports : InBounds(j)
    BY DEF Inv, Shape, Bounded
\* The request goes to another place, its temporary file stays or goes.
<1>1. ASSUME NEW j \in Exports, NEW at, Goes(j, at), at # "idle",
             \/ temp' = [temp EXCEPT ![j] = NoTemp]
             \/ temp' = temp /\ export[j].at # "writing" /\ export[j].at # "killed",
             \A p \in OutPaths : out'[p] = out[p] \/ out'[p].streams <= MaxChosen
      PROVE  Bounded'
    <2>1. /\ \A i \in Exports : i # j => export'[i] = export[i]
          /\ export'[j].at = at /\ export'[j].left = export[j].left
          /\ export'[j].failed = export[j].failed /\ export'[j].streams = export[j].streams
        BY <1>1, OnlyMoves
    <2>2. temp'[j] = NoTemp /\ \A i \in Exports : i # j => temp'[i] = temp[i]
        BY <1>0, <1>1 DEF InBounds
    <2>3. InBounds(j)'
        BY <1>0, <1>1, <2>1, <2>2, RequestNumbers DEF InBounds, At
    <2> QED BY <1>1, <2>1, <2>2, <2>3, BoundedMove
<1>2. ASSUME NEW j \in Exports, BeginExport(j) PROVE Bounded'
    <2>1. PICK valid \in 1 .. MaxChosen :
              export' = [export EXCEPT ![j].at = "checking", ![j].left = valid]
        BY <1>2 DEF BeginExport
    <2>2. /\ \A i \in Exports : i # j => export'[i] = export[i]
          /\ export'[j].at = "checking" /\ export'[j].left = valid
          /\ export'[j].failed = export[j].failed /\ export'[j].streams = export[j].streams
        BY <1>0, <2>1 DEF Request
    <2>3. temp' = temp /\ out' = out /\ export[j].at = "idle"
        BY <1>2 DEF BeginExport, At
    <2>4. export'[j].failed = 0 /\ export'[j].streams = 0 /\ valid <= MaxChosen
        BY <1>0, <2>2, <2>3, RequestNumbers DEF InBounds, At
    <2>5. valid + 0 + 0 <= MaxChosen
        BY <2>4, RequestNumbers
    <2>6. InBounds(j)'
        BY <1>0, <2>2, <2>3, <2>4, <2>5 DEF InBounds, At
    <2> QED BY <2>2, <2>3, <2>6, BoundedMove
<1>3. ASSUME NEW j \in Exports, CheckSelection(j) PROVE Bounded'
    <2>1. PICK result \in Results(j) :
              export' = [export EXCEPT
                  ![j].left = @ - 1,
                  ![j].failed = @ + (IF result = "fails" THEN 1 ELSE 0),
                  ![j].streams = @ + (IF result = "stream" THEN 1 ELSE 0)]
        BY <1>3 DEF CheckSelection
    <2> DEFINE failed == IF result = "fails" THEN 1 ELSE 0
               streams == IF result = "stream" THEN 1 ELSE 0
    <2>2. /\ \A i \in Exports : i # j => export'[i] = export[i]
          /\ export'[j].at = export[j].at /\ export'[j].left = export[j].left - 1
          /\ export'[j].failed = export[j].failed + failed
          /\ export'[j].streams = export[j].streams + streams
        BY <1>0, <2>1 DEF Request
    <2>3. failed \in Nat /\ streams \in Nat /\ failed + streams <= 1
        OBVIOUS
    <2> HIDE DEF failed, streams
    <2>4. temp' = temp /\ out' = out /\ export[j].at = "checking"
        BY <1>3 DEF CheckSelection, At
    <2>5. export'[j].left + export'[j].failed + export'[j].streams <= MaxChosen
        BY <1>0, <2>2, <2>3, RequestNumbers DEF InBounds
    <2>6. InBounds(j)'
        BY <1>0, <2>2, <2>4, <2>5 DEF InBounds, At
    <2> QED BY <2>2, <2>4, <2>6, BoundedMove
<1>4. ASSUME NEW j \in Exports, CopySource(j) PROVE Bounded'
    <2>1. /\ \A i \in Exports : i # j => export'[i] = export[i]
          /\ export'[j].at = "writing" /\ export'[j].left = export[j].left
          /\ export'[j].failed = export[j].failed /\ export'[j].streams = export[j].streams
        BY <1>4, OnlyMoves DEF CopySource
    <2>2. temp'[j] = 0 /\ out' = out /\ \A i \in Exports : i # j => temp'[i] = temp[i]
        BY <1>0, <1>4 DEF CopySource
    <2>3. 0 \in NoTemp .. MaxChosen
        BY RequestNumbers DEF NoTemp
    <2>4. InBounds(j)'
        BY <1>0, <2>1, <2>2, <2>3, RequestNumbers DEF InBounds, At
    <2> QED BY <2>1, <2>2, <2>4, BoundedMove
<1>5. ASSUME NEW j \in Exports, WriteStream(j) PROVE Bounded'
    <2>1. PICK n \in {temp[j] + 1, export[j].streams} : temp' = [temp EXCEPT ![j] = n]
        BY <1>5 DEF WriteStream
    <2>2. /\ temp[j] < export[j].streams /\ export' = export /\ out' = out
          /\ export[j].at = "writing"
        BY <1>5 DEF WriteStream, At
    <2>3. temp[j] \in NoTemp .. MaxChosen /\ export[j].streams \in 0 .. MaxChosen
        BY <1>0, RequestNumbers DEF InBounds
    <2>4. n \in NoTemp .. MaxChosen
        BY <2>1, <2>2, <2>3, RequestNumbers DEF NoTemp
    <2>5. temp'[j] = n /\ \A i \in Exports : i # j => temp'[i] = temp[i]
        BY <1>0, <2>1
    <2>6. InBounds(j)'
        BY <1>0, <2>2, <2>4, <2>5 DEF InBounds, At
    <2> QED BY <2>2, <2>5, <2>6, BoundedMove
<1>6. ASSUME NEW j \in Exports, MoveInPlace(j) \/ Truncate(j) \/ FillIn(j)
      PROVE  \A p \in OutPaths : out'[p] = out[p] \/ out'[p].streams <= MaxChosen
    <2>1. export[j].streams <= MaxChosen /\ 0 <= MaxChosen
        BY <1>0, RequestNumbers
    <2>2. Whole(j).streams = export[j].streams /\ Content(j, 0).streams = 0
        BY DEF Whole, Content
    <2>3. \A p \in OutPaths : out'[p] \in {out[p], Whole(j), Content(j, 0)}
        BY <1>0, <1>6 DEF MoveInPlace, Truncate, FillIn
    <2> QED BY <2>1, <2>2, <2>3
<1>7. ASSUME NEW j \in Exports,
             \/ RefuseExport(j) \/ MoveInPlace(j) \/ WriteFails(j) \/ Truncate(j)
             \/ FillIn(j) \/ TextsFail(j) \/ FindInProject(j) \/ ListOutput(j)
      PROVE  Bounded'
    BY <1>1, <1>6, <1>7 DEF RefuseExport, MoveInPlace, WriteFails, Truncate, FillIn,
       TextsFail, FindInProject, ListOutput, At
<1>8. ASSUME NEW j \in Exports, HashOutput(j) \/ TakeIn(j) PROVE Bounded'
    <2>1. CASE Goes(j, "answered")
        BY <1>1, <1>8, <2>1 DEF HashOutput, TakeIn, At
    <2>2. CASE ~Goes(j, "answered")
        <3>1. /\ \A i \in Exports : i # j => export'[i] = export[i]
              /\ export'[j].at \in {"hashed", "taken"} /\ export'[j].left = export[j].left
              /\ export'[j].failed = export[j].failed
              /\ export'[j].streams = export[j].streams
            BY <1>0, <1>8, <2>2 DEF HashOutput, TakeIn, Request
        <3>2. /\ export[j].at # "writing" /\ export[j].at # "killed"
              /\ temp' = temp /\ out' = out
            BY <1>8 DEF HashOutput, TakeIn, At
        <3>3. InBounds(j)'
            BY <1>0, <3>1, <3>2 DEF InBounds, At
        <3> QED BY <3>1, <3>2, <3>3, BoundedMove
    <2> QED BY <2>1, <2>2
<1>9. CASE Killed
    <2>1. \A j \in Exports : /\ export'[j].at = "killed" /\ export'[j].left = export[j].left
                             /\ export'[j].failed = export[j].failed
                             /\ export'[j].streams = export[j].streams
        BY <1>0, <1>9 DEF Killed, Request
    <2>2. temp' = temp /\ out' = out
        BY <1>9 DEF Killed
    <2> QED BY <2>1, <2>2 DEF Bounded, InBounds, At
<1>10. CASE UNCHANGED outputVars
    BY <1>10 DEF outputVars, Bounded, InBounds, At
<1> QED
    BY <1>2, <1>3, <1>4, <1>5, <1>7, <1>8, <1>9, <1>10 DEF OutputsNext

LEMMA BoundedInit == OutputsInit => Bounded
<1> SUFFICES ASSUME OutputsInit PROVE Bounded
    OBVIOUS
<1>1. MaxChosen \in Nat /\ NoTemp \in NoTemp .. MaxChosen
    BY OutputsAssumption DEF NoTemp
<1>2. \A j \in Exports : /\ temp[j] = NoTemp /\ export[j].left = 0 /\ export[j].failed = 0
                         /\ export[j].streams = 0
    BY DEF OutputsInit
<1>3. \A p \in OutPaths : out[p].streams = 0
    BY DEF OutputsInit, NoFile
<1> QED BY <1>1, <1>2, <1>3 DEF Bounded, InBounds

(***************************************************************************)
(* Every variable keeps to its values: no file has more streams than the   *)
(* request had selections, and one that was refused leaves no temporary    *)
(* file behind.                                                            *)
(***************************************************************************)
THEOREM OutputsTyped == OutputsSpec => []OutputsTypeOK
<1>1. Inv /\ Bounded => OutputsTypeOK
    <2> SUFFICES ASSUME Inv, Bounded PROVE OutputsTypeOK
        OBVIOUS
    <2>1. \A p \in OutPaths : out[p].by \in Exports \cup {"none"} /\ out[p].streams \in Nat
        BY DEF Inv, Shape, File
    <2>2. \A p \in OutPaths : out[p].streams \in 0 .. MaxChosen
        BY <2>1, OutputsAssumption DEF Bounded
    <2>3. temp \in [Exports -> NoTemp .. MaxChosen]
        BY DEF Inv, Shape, Bounded, InBounds
    <2>4. \A j \in Exports :
              /\ export[j].left + export[j].failed + export[j].streams <= MaxChosen
              /\ At(j, "refused") => temp[j] = NoTemp
        BY DEF Bounded, InBounds, At
    <2> QED BY <2>1, <2>2, <2>3, <2>4 DEF OutputsTypeOK
<1>2. OutputsSpec => []Bounded
    BY BoundedInit, BoundedStep, OutputsInvariant, PTL DEF OutputsSpec
<1> QED BY <1>1, <1>2, OutputsInvariant, PTL
=============================================================================
