--------------------------- MODULE ContainerCache ---------------------------
(***************************************************************************)
(* The per-plugin handle cache: container_update() and finish() of the     *)
(* sacdiso, dvdaiso and dsdiff decoder plugins.  Each plugin keeps one     *)
(* global container path, media transport, reader and (sacdiso, dvdaiso)   *)
(* metadata store.  container_update(path) keeps them when path equals the *)
(* cached path; otherwise it closes the reader, then the media, drops the  *)
(* store and the path, and, when the file exists, creates media and reader *)
(* and opens them in that order, then builds the store when configured.    *)
(* finish() is container_update(nullptr).                                  *)
(*                                                                         *)
(* Callers pass the container's path: scan_file() and file_decode() take   *)
(* the directory name of the virtual track's path, which is the container  *)
(* file (dsdiff takes the path itself when it names an existing file, a    *)
(* single-track .dff).  Which plugin's globals these are is fixed by Init. *)
(***************************************************************************)
EXTENDS Naturals

CONSTANTS
  Paths,           \* container files
  NoPath,          \* the null AllocatedPath
  Plugins,         \* the plugins whose cache is modelled
  WithMetabase     \* tags_path or tags_with_iso set (sacdiso, dvdaiso)

ASSUME NoPath \notin Paths
ASSUME Plugins \subseteq {"sacdiso", "dvdaiso", "dsdiff"}
ASSUME WithMetabase \in BOOLEAN

VARIABLES
  plugin,      \* whose globals: "sacdiso", "dvdaiso" or "dsdiff"
  exists,      \* FileExists() of each container path
  cachedPath,  \* sacd_path / dvda_path / dsdiff_path
  media,       \* the media transport: "none", "created" or "open"
  reader,      \* the format reader: "none", "created" or "open"
  metabase,    \* the metadata store: NoStore, or the container it was built for and its xmldoc
  opened,      \* the container the media was opened on
  wildFree,    \* a store's destructor freed an xmldoc pointer that was never assigned
  lastCall     \* the last call and what it returned

vars == <<plugin, exists, cachedPath, media, reader, metabase, opened, wildFree, lastCall>>

(* The store's xmldoc member: "unset" when the constructor returned before *)
(* assigning it, "null" when ixmlLoadDocument() failed, "loaded".          *)
NoStore == [for |-> NoPath, doc |-> "none"]

(***************************************************************************)
(* The metadata store.                                                     *)
(***************************************************************************)

(* dvda_metabase_t(disc, tags_path, tags_file): get_md5() hashes           *)
(* AUDIO_TS.IFO; when the file cannot be opened or read the id is empty    *)
(* and the constructor returns before xmldoc is assigned.  Otherwise it    *)
(* copies the store file next to the image when missing there, and loads   *)
(* the chosen file: ixmlLoadDocument() may fail.                           *)
DvdaStoreDocs == {"unset", "null", "loaded"}

(* sacd_metabase_t(disc, tags_path, tags_file): its source is not in src/; *)
(* as the specification describes it, it loads the document or fails.     *)
SacdStoreDocs == {"null", "loaded"}

(* The xmldoc values the store built for an opened container can have.   *)
StoreDocs ==
  CASE plugin = "dvdaiso" -> DvdaStoreDocs
    [] plugin = "sacdiso" -> SacdStoreDocs
    [] plugin = "dsdiff"  -> {}

(* ~dvda_metabase_t(): if (xmldoc) ixmlDocument_free(xmldoc).  Reading an  *)
(* xmldoc that was never assigned is undefined: the indeterminate pointer  *)
(* may happen to be null, or not, and then it is freed.                    *)
TeardownFrees(m) ==
  IF m.doc = "unset" THEN BOOLEAN ELSE {FALSE}

(***************************************************************************)
(* container_update().                                                     *)
(***************************************************************************)

(* Seeded fault: the teardown leaves the store attached.                   *)
ResetStoreKept == metabase

(* sacd_metabase.reset() / dvda_metabase.reset() in the teardown.          *)
ResetStore == NoStore

(* Seeded fault: teardown leaves the cached path in place.                 *)
ResetPathKept == cachedPath

(* sacd_path.SetNull() in the teardown.                                    *)
ResetPath == NoPath

(* The state container_update(p) leaves behind and what it returns, in the *)
(* code's order: the early return on an equal path; the teardown; a       *)
(* missing file; media->open() failing; reader->open() failing; success,   *)
(* with the store built when configured.  The null checks after           *)
(* make_unique are unreachable (it throws).  A teardown that destroys a    *)
(* store whose xmldoc was never assigned may free a wild pointer.          *)
Outcomes(p) ==
  IF cachedPath = p
  THEN {[path |-> cachedPath, media |-> media, reader |-> reader,
         metabase |-> metabase, opened |-> opened, wild |-> FALSE, result |-> TRUE]}
  ELSE UNION {
    IF p = NoPath \/ ~exists[p]
    THEN {[path |-> ResetPath, media |-> "none", reader |-> "none",
           metabase |-> ResetStore, opened |-> NoPath, wild |-> w, result |-> FALSE]}
    ELSE { \* media->open() fails: media and reader stay created
           [path |-> ResetPath, media |-> "created", reader |-> "created",
            metabase |-> ResetStore, opened |-> NoPath, wild |-> w, result |-> FALSE],
           \* reader->open() fails: the media stays open
           [path |-> ResetPath, media |-> "open", reader |-> "created",
            metabase |-> ResetStore, opened |-> p, wild |-> w, result |-> FALSE] }
      \cup
         { \* both open; the store is built when configured
           [path |-> p, media |-> "open", reader |-> "open",
            metabase |-> m, opened |-> p, wild |-> w, result |-> TRUE] :
           m \in IF WithMetabase /\ StoreDocs # {}
                 THEN {[for |-> p, doc |-> d] : d \in StoreDocs}
                 ELSE {ResetStore} }
    : w \in TeardownFrees(metabase) }

Apply(o) ==
  /\ cachedPath' = o.path
  /\ media' = o.media
  /\ reader' = o.reader
  /\ metabase' = o.metabase
  /\ opened' = o.opened
  /\ wildFree' = (wildFree \/ o.wild)

(* container_scan(), scan_file() or file_decode() opening container p.    *)
ContainerUpdate(p) ==
  /\ \E o \in Outcomes(p) :
       /\ Apply(o)
       /\ lastCall' = [op |-> "update", arg |-> p, result |-> o.result]
  /\ UNCHANGED <<plugin, exists>>

(* finish(): container_update(nullptr).                                    *)
Finish ==
  /\ \E o \in Outcomes(NoPath) :
       /\ Apply(o)
       /\ lastCall' = [op |-> "finish", arg |-> NoPath, result |-> o.result]
  /\ UNCHANGED <<plugin, exists>>

Init ==
  /\ plugin \in Plugins
  /\ exists \in [Paths -> BOOLEAN]
  /\ cachedPath = NoPath
  /\ media = "none"
  /\ reader = "none"
  /\ metabase = NoStore
  /\ opened = NoPath
  /\ wildFree = FALSE
  /\ lastCall = [op |-> "none", arg |-> NoPath, result |-> FALSE]

Next ==
  \/ \E p \in Paths : ContainerUpdate(p)
  \/ Finish

Spec == Init /\ [][Next]_vars

(***************************************************************************)
(* Properties.                                                             *)
(***************************************************************************)

(* When container_update(p) reports success, the reader the caller is     *)
(* about to use is open, on the media opened for p: no sequence of failed *)
(* and successful opens of several containers makes it hand out a created *)
(* but unopened reader, or one for another container.                     *)
SuccessMeansOpen ==
  (lastCall.op = "update" /\ lastCall.result) =>
    /\ reader = "open" /\ media = "open"
    /\ cachedPath = lastCall.arg
    /\ opened = lastCall.arg

(* The store scan_info() consults is always the one built for the cached  *)
(* container: after a failed open of another container, or after finish,  *)
(* no store of an earlier container is left attached to answer tag and    *)
(* album-art lookups for a different disc.                                 *)
StoreMatchesContainer ==
  metabase # NoStore => metabase.for = cachedPath /\ reader = "open"

(* After finish() no media or reader of the plugin remains, open or not    *)
(* (specification 4.1: a failure releases all partially built state, and  *)
(* a shutdown is open(null)).                                              *)
ReleasedAfterShutdown ==
  lastCall.op = "finish" => media = "none" /\ reader = "none"

(* Failures of the metadata store are not fatal (specification 4.3): no    *)
(* teardown of a store, by opening another container or by finish(),       *)
(* frees a document pointer the store never assigned.                      *)
StoreTeardownSafe == ~wildFree

=============================================================================
