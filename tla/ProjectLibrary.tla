--------------------------- MODULE ProjectLibrary ---------------------------
(***************************************************************************)
(* One visitor's project: library.FileLibrary, the upload, remove and      *)
(* download routes of web/files and derived.adopt(), by which a tool's     *)
(* output enters.  A file is named after its content (files/<sha12>.scd),  *)
(* so two uploads of the same bytes write the same path; an RDB's bytes    *)
(* are in the content cache all visitors share, never in the session.      *)
(* The dictionary is read and written under the session's lock, the disk   *)
(* outside it: every step between two locks is an action of its own.       *)
(***************************************************************************)
EXTENDS Naturals, FiniteSets

CONSTANTS
    Contents,   \* what uploads and tools may bring, by sha256
    Rdbs,       \* those that are RDBs
    Posts,      \* threads that store: /upload, or the export of a tool
    Gets,       \* threads of /download
    MaxTries    \* bound: how often each thread works

ASSUME LibraryAssumption ==
    /\ Contents # {} /\ Rdbs \subseteq Contents
    /\ MaxTries \in Nat

VARIABLES
    entries,    \* FileLibrary.entries: the first sender of each listed content
    files,      \* files/ of the session
    cached,     \* cache/rdb/<sha256>/source.rdb
    post,       \* the storing threads
    get,        \* the downloading threads
    crossed     \* history: contents removed (or pruned) while a thread stored them

libraryVars == <<entries, files, cached, post, get, crossed>>

NotListed == "not listed"
Listed == {c \in Contents : entries[c] # NotListed}
\* FileEntry.file_path: where a content's bytes are.
OnDisk(c) == IF c \in Rdbs THEN c \in cached ELSE c \in files

Idle(n) == [at |-> "idle", c |-> CHOOSE c \in Contents : TRUE, tries |-> n]
Storing(c) == \E p \in Posts : post[p].at # "idle" /\ post[p].c = c

LibraryInit ==
    /\ entries = [c \in Contents |-> NotListed]
    /\ files = {} /\ crossed = {}
    /\ cached \in SUBSET Rdbs
    /\ post = [p \in Posts |-> Idle(0)]
    /\ get = [g \in Gets |-> Idle(0)]

----------------------------------------------------------------------------
(* Storing. *)

\* do_POST /upload: a known kind and a legal length; the body lands in a temp file.
Receive(p, c) ==
    /\ post[p].at = "idle" /\ post[p].tries < MaxTries
    /\ post' = [post EXCEPT ![p] =
                  [at |-> "receiving", c |-> c, tries |-> @.tries + 1]]
    /\ UNCHANGED <<entries, files, cached, get, crossed>>

\* A short body, a file that does not parse, no IED in it: answered, the temp unlinked.
Refuse(p) ==
    /\ post[p].at \in {"receiving", "copying"}
    /\ post' = [post EXCEPT ![p] = Idle(@.tries)]
    /\ UNCHANGED <<entries, files, cached, get, crossed>>

Place(c) ==
    IF c \in Rdbs THEN cached' = cached \cup {c} /\ UNCHANGED files
                  ELSE files' = files \cup {c} /\ UNCHANGED cached

\* os.replace() onto the name of the hash, or process_upload_stream() into the cache.
MoveIn(p) ==
    /\ post[p].at \in {"receiving", "copying"}
    /\ Place(post[p].c)
    /\ post' = [post EXCEPT ![p].at =
                  IF @ = "receiving" THEN "moved" ELSE "copied"]
    /\ UNCHANGED <<entries, get, crossed>>

\* Under the lock: were these bytes in the project already?
LookUp(p) ==
    /\ post[p].at = "moved"
    /\ post' = [post EXCEPT ![p].at =
                  IF post[p].c \in Listed THEN "known" ELSE "copied"]
    /\ UNCHANGED <<entries, files, cached, get, crossed>>

\* Mutant: the duplicate's file goes, which is the first one's too.
DiscardFile(p) ==
    /\ post[p].at = "known"
    /\ files' = files \ {post[p].c}
    /\ post' = [post EXCEPT ![p] = Idle(@.tries)]
    /\ UNCHANGED <<entries, cached, get, crossed>>

\* _discard(entry, keep=existing): the kept entry's file is the same path.
Discard(p) ==
    /\ post[p].at = "known"
    /\ post' = [post EXCEPT ![p] = Idle(@.tries)]
    /\ UNCHANGED <<entries, files, cached, get, crossed>>

\* FileLibrary.add under the lock: the first one stays.
Add(p) ==
    /\ post[p].at = "copied"
    /\ entries' = [entries EXCEPT ![post[p].c] = IF @ = NotListed THEN p ELSE @]
    /\ post' = [post EXCEPT ![p] = Idle(@.tries)]
    /\ UNCHANGED <<files, cached, get, crossed>>

\* derived.adopt(): hash the tool's file, look first, copy only what is new.
Adopt(p, c) ==
    /\ post[p].at = "idle" /\ post[p].tries < MaxTries
    /\ post' = [post EXCEPT ![p] =
                  IF c \in Listed THEN Idle(@.tries + 1)
                  ELSE [at |-> "copying", c |-> c, tries |-> @.tries + 1]]
    /\ UNCHANGED <<entries, files, cached, get, crossed>>

----------------------------------------------------------------------------
(* Removing, pruning, downloading. *)

\* /remove: pop and unlink in one hold of the lock; an RDB's cache is not touched.
RemoveFile(c) ==
    /\ c \in Listed
    /\ entries' = [entries EXCEPT ![c] = NotListed]
    \* unlink() may raise OSError, which is passed over.
    /\ files' \in {files \ {c}, files}
    /\ crossed' = crossed \cup {d \in {c} : Storing(c)}
    /\ UNCHANGED <<cached, post, get>>

\* rdb_cache.sweep(), the sweeper's on_sweep: by age and size, whoever still lists it.
Prune(c) ==
    /\ c \in cached
    /\ cached' = cached \ {c}
    /\ crossed' = crossed \cup {c}
    /\ UNCHANGED <<entries, files, post, get>>

\* /download: the entry under the lock ...
Find(g, c) ==
    /\ get[g].at = "idle" /\ get[g].tries < MaxTries
    /\ get' = [get EXCEPT ![g] =
                 IF c \in Listed
                 THEN [at |-> "found", c |-> c, tries |-> @.tries + 1]
                 ELSE Idle(@.tries + 1)]
    /\ UNCHANGED <<entries, files, cached, post, crossed>>

\* ... its file after it: 200, or 410 for what is no longer on disk.
Serve(g) ==
    /\ get[g].at = "found"
    /\ get' = [get EXCEPT ![g].at = IF OnDisk(get[g].c) THEN "served" ELSE "gone"]
    /\ UNCHANGED <<entries, files, cached, post, crossed>>

Served(g) ==
    /\ get[g].at \in {"served", "gone"}
    /\ get' = [get EXCEPT ![g] = Idle(@.tries)]
    /\ UNCHANGED <<entries, files, cached, post, crossed>>

LibraryNext ==
    \/ \E p \in Posts, c \in Contents : Receive(p, c) \/ Adopt(p, c)
    \/ \E p \in Posts :
        Refuse(p) \/ MoveIn(p) \/ LookUp(p) \/ Discard(p) \/ Add(p)
    \/ \E c \in Contents : RemoveFile(c) \/ Prune(c)
    \/ \E g \in Gets : Serve(g) \/ Served(g) \/ \E c \in Contents : Find(g, c)

LibrarySpec == LibraryInit /\ [][LibraryNext]_libraryVars

----------------------------------------------------------------------------
(* Properties. *)

\* Every variable keeps to its values.
LibraryTypeOK ==
    /\ entries \in [Contents -> Posts \cup {NotListed}]
    /\ files \subseteq Contents /\ cached \subseteq Contents
    /\ crossed \subseteq Contents
    /\ post \in [Posts -> [at : {"idle", "receiving", "moved", "known",
                                 "copying", "copied"},
                           c : Contents, tries : Nat]]
    /\ get \in [Gets -> [at : {"idle", "found", "served", "gone"},
                         c : Contents, tries : Nat]]

(***************************************************************************)
(* A listed file has its bytes on disk, and so has one that is about to be *)
(* listed, unless it was removed while some thread was storing the same    *)
(* bytes (the removal unlinks the path both write) or its cache was pruned *)
(* (files/handler.py:326-329: an entry listed with nothing behind it).     *)
(***************************************************************************)
ListedIsOnDisk ==
    \A c \in Contents \ crossed :
        (c \in Listed \/ \E p \in Posts : post[p].at \in {"moved", "copied"}
                                            /\ post[p].c = c)
        => OnDisk(c)

=============================================================================
