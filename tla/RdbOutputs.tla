----------------------------- MODULE RdbOutputs -----------------------------
(***************************************************************************)
(* What the tools write: VB Updater, GLE Exporter and DNP Map Editor make  *)
(* a corrected RDB (web/rdb_write.py), or a spreadsheet or SCD, in out/ of *)
(* the session under a name taken from the source, and publish it to the   *)
(* project (derived.adopt).  Two tabs that run the same export write the   *)
(* same path; nothing holds the session's lock meanwhile.                  *)
(***************************************************************************)
EXTENDS Integers, FiniteSets

CONSTANTS
    Exports,    \* requests that produce a file
    OutPaths,   \* names under out/
    PathOf,     \* the name a request writes
    ToolOf,     \* "vb", "gle", "dnp" (an RDB), "plain" (bytes written at once)
    MaxChosen   \* bound: selections of a request

ASSUME OutputsAssumption ==
    /\ PathOf \in [Exports -> OutPaths] /\ MaxChosen \in Nat \ {0}
    /\ "none" \notin Exports
    /\ ToolOf \in [Exports -> {"vb", "gle", "dnp", "plain"}]

VARIABLES
    out,        \* what is at each name: a whole or a partial output, or NoFile
    temp,       \* streams written into the temporary file of a request
    export,     \* the requests
    project     \* FileLibrary.entries: by the key, what is behind it

outputVars == <<out, temp, export, project>>

NoFile == [by |-> "none", streams |-> 0]
NoTemp == -1
Content(j, n) == [by |-> j, streams |-> n]
\* The file a request set out to produce.
Whole(j) == Content(j, export[j].streams)
NoEntry == [k \in {} |-> NoFile]

OutputsInit ==
    /\ out = [p \in OutPaths |-> NoFile]
    /\ temp = [j \in Exports |-> NoTemp]
    /\ export = [j \in Exports |->
           [at |-> "idle", left |-> 0, failed |-> 0, streams |-> 0,
            key |-> NoFile, got |-> NoFile]]
    /\ project = NoEntry

At(j, at) == export[j].at = at
Goes(j, at) == export' = [export EXCEPT ![j].at = at]

\* The request, its RDB and SCD, or the edits of a DNP map, taken under the lock.
\* A selection that names no GLE of the RDB is left out, and reported; with none
\* left it is refused.
BeginExport(j) ==
    /\ At(j, "idle")
    /\ \E valid \in 1 .. MaxChosen :
         export' = [export EXCEPT ![j].at = "checking", ![j].left = valid]
    /\ UNCHANGED <<out, temp, project>>

\* A selection is one more stream to write, fails, is as the file already has it
\* (GLE Exporter), or is a session the extracted RDB does not have, which is logged
\* and left out (DNP Map Editor).
Results(j) ==
    {"stream", "fails"} \cup IF ToolOf[j] = "gle" THEN {"same"}
                            ELSE IF ToolOf[j] = "dnp" THEN {"missing"} ELSE {}

\* The pass that only reads.
CheckSelection(j) ==
    /\ At(j, "checking") /\ export[j].left > 0
    /\ \E result \in Results(j) :
         export' = [export EXCEPT
             ![j].left = @ - 1,
             ![j].failed = @ + (IF result = "fails" THEN 1 ELSE 0),
             ![j].streams = @ + (IF result = "stream" THEN 1 ELSE 0)]
    /\ UNCHANGED <<out, temp, project>>

\* No change is left to write, of all the sessions of a DNP map.
NothingToWrite(j) == ToolOf[j] = "dnp" /\ export[j].streams = 0

\* All or nothing: one selection that failed and no file is written.
RefuseExport(j) ==
    /\ At(j, "checking") /\ export[j].left = 0
    /\ export[j].failed > 0 \/ NothingToWrite(j)
    /\ Goes(j, "refused")
    /\ UNCHANGED <<out, temp, project>>

\* write_streams(), copy_only(): the source copied to a temporary file.
CopySource(j) ==
    /\ At(j, "checking") /\ export[j].left = 0 /\ export[j].failed = 0
    /\ ToolOf[j] # "plain" /\ ~NothingToWrite(j)
    /\ temp' = [temp EXCEPT ![j] = 0]
    /\ Goes(j, "writing")
    /\ UNCHANGED <<out, project>>

\* Mutant: the streams are written at the final name.
WriteOver(j) ==
    /\ At(j, "writing") /\ temp[j] < export[j].streams
    /\ temp' = [temp EXCEPT ![j] = @ + 1]
    /\ out' = [out EXCEPT ![PathOf[j]] = Content(j, temp[j] + 1)]
    /\ UNCHANGED <<export, project>>

\* _write_in_place(): one stream after the other, or all in a rebuilt container.
WriteStream(j) ==
    /\ At(j, "writing") /\ temp[j] < export[j].streams
    /\ \E n \in {temp[j] + 1, export[j].streams} : temp' = [temp EXCEPT ![j] = n]
    /\ UNCHANGED <<out, export, project>>

\* os.replace() onto the final name.
MoveInPlace(j) ==
    /\ At(j, "writing") /\ temp[j] = export[j].streams
    /\ out' = [out EXCEPT ![PathOf[j]] = Whole(j)]
    /\ temp' = [temp EXCEPT ![j] = NoTemp]
    /\ Goes(j, "written")
    /\ UNCHANGED project

\* Disk full, a stream that is missing or does not verify: the temporary file goes.
WriteFails(j) ==
    /\ At(j, "writing")
    /\ temp' = [temp EXCEPT ![j] = NoTemp]
    /\ Goes(j, "refused")
    /\ UNCHANGED <<out, project>>

\* Path.write_bytes() of a spreadsheet or of an SCD with imported descriptions:
\* the file is emptied first.
Truncate(j) ==
    /\ At(j, "checking") /\ export[j].left = 0 /\ export[j].failed = 0
    /\ ToolOf[j] = "plain"
    /\ out' = [out EXCEPT ![PathOf[j]] = Content(j, 0)]
    /\ Goes(j, "truncated")
    /\ UNCHANGED <<temp, project>>

FillIn(j) ==
    /\ At(j, "truncated")
    /\ \/ out' = [out EXCEPT ![PathOf[j]] = Whole(j)] /\ Goes(j, "written")
       \/ UNCHANGED out /\ Goes(j, "refused")
    /\ UNCHANGED <<temp, project>>

\* export_txt(), once the RDB of a DNP map is in place: a text that cannot be
\* written ends the request with an error, and its RDB stays, unpublished.
TextsFail(j) ==
    /\ At(j, "written") /\ ToolOf[j] = "dnp"
    /\ Goes(j, "unpublished")
    /\ UNCHANGED <<out, temp, project>>

----------------------------------------------------------------------------
(* Publishing: SessionHandler.publish_output, derived.adopt. *)

\* sha256_file(): the key is that of what is at the path now.
HashOutput(j) ==
    /\ At(j, "written")
    /\ export' = [export EXCEPT ![j].at = "hashed", ![j].key = out[PathOf[j]]]
    /\ UNCHANGED <<out, temp, project>>

\* An empty file is not adopted, and content that is listed is left as it is.
FindInProject(j) ==
    /\ At(j, "hashed")
    /\ Goes(j, IF export[j].key \in DOMAIN project THEN "answered" ELSE "new")
    /\ UNCHANGED <<out, temp, project>>

\* process_upload_stream() or _copy_atomic() read the path a second time.
TakeIn(j) ==
    /\ At(j, "new")
    /\ \/ export' = [export EXCEPT ![j].at = "taken", ![j].got = out[PathOf[j]]]
       \/ Goes(j, "answered")
    /\ UNCHANGED <<out, temp, project>>

ListOutput(j) ==
    /\ At(j, "taken")
    /\ project' = [k \in DOMAIN project \cup {export[j].key} |->
                     IF k \in DOMAIN project THEN project[k] ELSE export[j].got]
    /\ Goes(j, "answered")
    /\ UNCHANGED <<out, temp>>

\* The process is killed: what is on disk stays, the project is gone with it.
Killed ==
    /\ \E j \in Exports : export[j].at \notin {"idle", "killed"}
    /\ export' = [j \in Exports |-> [export[j] EXCEPT !.at = "killed"]]
    /\ project' = NoEntry
    /\ UNCHANGED <<out, temp>>

OutputsNext ==
    \/ \E j \in Exports :
        \/ BeginExport(j) \/ CheckSelection(j) \/ RefuseExport(j)
        \/ CopySource(j) \/ WriteStream(j) \/ MoveInPlace(j) \/ WriteFails(j)
        \/ Truncate(j) \/ FillIn(j) \/ TextsFail(j)
        \/ HashOutput(j) \/ FindInProject(j) \/ TakeIn(j) \/ ListOutput(j)
    \/ Killed

OutputsSpec == OutputsInit /\ [][OutputsNext]_outputVars

----------------------------------------------------------------------------
(* Properties. *)

\* Every variable keeps to its values.
OutputsTypeOK ==
    /\ \A p \in OutPaths : out[p].by \in Exports \cup {"none"}
                           /\ out[p].streams \in 0 .. MaxChosen
    /\ temp \in [Exports -> NoTemp .. MaxChosen]
    /\ \A j \in Exports : /\ export[j].left + export[j].failed
                                + export[j].streams <= MaxChosen
                          /\ At(j, "refused") => temp[j] = NoTemp

(***************************************************************************)
(* At the name of an RDB, and in the project, is only ever the whole       *)
(* output of one request none of whose selections failed, however many     *)
(* requests write that name and wherever the process is killed             *)
(* (rdb_write.py:23-27), and never that of a request that was refused.     *)
(* One error comes later: a DNP map whose texts could not be written is    *)
(* answered 500 with its RDB, a whole one, at the name                     *)
(* (dnp_map/handler.py:655-666).                                           *)
(***************************************************************************)
OutputIsWhole ==
    \A c \in {out[p] : p \in OutPaths} \cup {project[k] : k \in DOMAIN project} :
        \A j \in Exports : c.by = j /\ ToolOf[j] # "plain" =>
            /\ c = Whole(j) /\ export[j].failed = 0 /\ export[j].left = 0
            /\ ~At(j, "refused")

(***************************************************************************)
(* Behind every key of the project is the content with that hash           *)
(* (library/derived.py:11-12: "keyed by the sha256 of the content").       *)
(***************************************************************************)
KeyIsContent == \A k \in DOMAIN project : project[k] = k

=============================================================================
