------------------------------ MODULE Scanner ------------------------------
(***************************************************************************)
(* Track enumeration and virtual track names of the sacdiso, dsdiff and    *)
(* dvdaiso plugins: container_scan() lists the tracks of an opened         *)
(* container as synthesized file names, and scan_file() / file_decode()    *)
(* turn such a name back into a track through get_subsong().              *)
(*                                                                         *)
(* A name is a sequence of characters as StringFormat writes it, with the  *)
(* constant literal of the pattern ("C_AUDIO__TRACK", "AUDIO_TS__TRACK")   *)
(* left out: it is written and matched verbatim.  The file suffix is one   *)
(* token.  The container is already open (ContainerCache models that).     *)
(*                                                                         *)
(* The database update's UpdateContainerFile() (Container.cxx) is the      *)
(* caller of container_scan(): it runs it for every enabled plugin that    *)
(* claims the container's suffix and adds what they list to a virtual      *)
(* directory.  family is the plugin whose format the container is; the     *)
(* other plugins' readers cannot open it.                                  *)
(***************************************************************************)
EXTENDS Naturals, Sequences, SequencesExt

CONSTANTS
  Families,     \* plugins under check: "sacdiso", "dsdiff", "dvdaiso"
  MaxTracks,    \* tracks per area (sacdiso, dsdiff) or per disc (dvdaiso)
  UIntMax,      \* UINT_MAX: the wrap of an unsigned 0 - 1
  TagTypes,     \* tag types of tag_item_names that a sidecar may name
  EmbeddedTypes,\* tag types the reader's get_info() reports for a track
  SidecarNodes, \* meta names a sidecar track element may hold
  SidecarArt,   \* albumart ids present in the disc's store element
  SidecarStores,\* store elements a sidecar document may hold
  MaxStores     \* store elements per document

ASSUME Families \subseteq {"sacdiso", "dsdiff", "dvdaiso"}
ASSUME UIntMax > 999 + 2 * MaxTracks

VARIABLES
  family,    \* the plugin
  disc,      \* what the reader reports about the container
  config,    \* the plugin's parameters
  metabase,  \* the metadata store: "none", "uninitialized" or "loaded"
  scanned,   \* container_scan() has run
  listing,   \* its result: the virtual tracks, in list order
  lookup,    \* the last name resolved by scan_file() and what it found
  decoded,   \* the last name file_decode() set up and what it plays
  catalog    \* the container's virtual directory and the update's result

vars == <<family, disc, config, metabase, scanned, listing, lookup, decoded, catalog>>

AllPlugins == {"sacdiso", "dvdaiso", "dsdiff"}

SuffixToken == "sfx"               \* path_fs.GetSuffix()
Areas == {"both", "twoch", "mulch"} \* param_playable_area
NoSelection == [area |-> "none", track |-> 0, key |-> 0, downmix |-> FALSE]
NoLookup == [entry |-> NoSelection, got |-> NoSelection, tags |-> {}, art |-> "none",
             held |-> {}, node |-> {}]
ArtOrder == <<"3", "4", "6", "2", "8">>
(* What file_decode() plays: it returned before client.Ready() (Refused), *)
(* or it selected no track and plays the reader's earlier selection.       *)
Refused == [area |-> "refused", track |-> 0, downmix |-> FALSE]
Unselected == [area |-> "earlier", track |-> 0, downmix |-> FALSE]
NoDecode == [entry |-> NoSelection, plays |-> NoSelection]

(* What dvda_reader_t reports about one track of a DVD-Audio disc.         *)
DvdaTrack == [channels : {2, 6}, short : BOOLEAN, selectable : BOOLEAN,
              canDownmix : BOOLEAN]

Discs(f) ==
  IF f = "dvdaiso"
  THEN {[twoch |-> 0, mulch |-> 0, tracks |-> ts] :
          ts \in UNION {[1..n -> DvdaTrack] : n \in 0..MaxTracks}}
  ELSE {[twoch |-> t, mulch |-> m, tracks |-> <<>>] :
          t \in 0..MaxTracks, m \in 0..MaxTracks}

Configs(f) ==
  IF f = "dvdaiso"
  THEN [area : Areas, noDownmixes : BOOLEAN, noShort : BOOLEAN, singleTrack : {FALSE}]
  ELSE [area : Areas, noDownmixes : {FALSE}, noShort : {FALSE},
        singleTrack : IF f = "dsdiff" THEN BOOLEAN ELSE {FALSE}]

-----------------------------------------------------------------------------
(* printf "%03u" and sscanf "%03u".                                        *)

DigitChar == <<"0", "1", "2", "3", "4", "5", "6", "7", "8", "9">>

RECURSIVE Decimal(_)
Decimal(n) ==
  IF n < 10 THEN <<DigitChar[n + 1]>>
  ELSE Decimal(n \div 10) \o <<DigitChar[(n % 10) + 1]>>

(* Zero-padded to at least three digits.                                   *)
FormatU03(n) ==
  [i \in 1..(3 - Len(Decimal(n))) |-> "0"] \o Decimal(n)

DigitValue(ch) == CHOOSE d \in 0..9 : DigitChar[d + 1] = ch

(* sscanf's %03u at position i: at most three digits; k = 0 is no match.   *)
ScanU03(s, i) ==
  LET k == Max({j \in 0..3 : \A x \in i..(i + j - 1) :
                               x <= Len(s) /\ s[x] \in ToSet(DigitChar)})
  IN [k |-> k, next |-> i + k,
      value |-> FoldLeft(LAMBDA acc, ch : acc * 10 + DigitValue(ch), 0,
                         SubSeq(s, i, i + k - 1))]

(* index-- on an unsigned.                                                *)
Decrement(x) == IF x = 0 THEN UIntMax ELSE x - 1

(* A "." literal and a non-empty %3s at position i.                       *)
DotAndSuffix(s, i) == i + 1 <= Len(s) /\ s[i] = "."

-----------------------------------------------------------------------------
(* sacdiso and dsdiff: "%cC_AUDIO__TRACK%03u.%3s".                          *)

SacdName(area, n) == <<area>> \o FormatU03(n) \o <<".", SuffixToken>>

(* The sscanf: the number of conversions and the values it stored.        *)
ParseSacd(s) ==
  LET u == ScanU03(s, 2) IN
  [params |-> 1 + (IF u.k > 0 THEN 1 ELSE 0)
                + (IF u.k > 0 /\ DotAndSuffix(s, u.next) THEN 1 ELSE 0),
   area   |-> s[1],
   index  |-> IF u.k > 0 THEN u.value ELSE 0]

(* Seeded fault: a multichannel name is not offset by the stereo tracks.   *)
SubsongNoMulchOffset(d, s) ==
  LET p == ParseSacd(s) IN
  IF p.params = 3 THEN Decrement(p.index) ELSE 0

(* get_subsong(): the track index over both areas, stereo first.          *)
Subsong(d, s) ==
  LET p == ParseSacd(s)
      index == Decrement(p.index + (IF p.area = "M" THEN d.twoch ELSE 0))
  IN IF p.params = 3 THEN index ELSE 0

(* Seeded fault: scan_file() hands scan_info() the track within the area  *)
(* as the sidecar's track index.                                           *)
SelectAreaKeyInArea(d, track) ==
  IF track < d.twoch
  THEN [area |-> "twoch", track |-> track, key |-> track, downmix |-> FALSE]
  ELSE IF track - d.twoch < d.mulch
  THEN [area |-> "mulch", track |-> track - d.twoch, key |-> track - d.twoch,
        downmix |-> FALSE]
  ELSE NoSelection

(* The area and track-in-area scan_file() selects for an index over both   *)
(* areas; out of range it fails.                                           *)
SelectArea(d, track) ==
  IF track < d.twoch
  THEN [area |-> "twoch", track |-> track, key |-> track, downmix |-> FALSE]
  ELSE IF track - d.twoch < d.mulch
  THEN [area |-> "mulch", track |-> track - d.twoch, key |-> track, downmix |-> FALSE]
  ELSE NoSelection

(* A listed virtual track: its name and the scan_info() call that made    *)
(* its tags (area selected, reader track, sidecar track index, downmix).   *)
Entry(name, area, track, key, downmix) ==
  [name |-> name, area |-> area, track |-> track, key |-> key, downmix |-> downmix]

(* The two area loops of container_scan().  A multichannel track's name   *)
(* carries its number in the area plus the plugin's offset.               *)
AreaListing(d, c, mulchOffset) ==
  (IF d.twoch > 0 /\ c.area # "mulch"
   THEN [k \in 1..d.twoch |-> Entry(SacdName("2", k), "twoch", k - 1, k - 1, FALSE)]
   ELSE <<>>)
  \o
  (IF d.mulch > 0 /\ c.area # "twoch"
   THEN [k \in 1..d.mulch |->
           Entry(SacdName("M", k + mulchOffset), "mulch", k - 1,
                 k - 1 + d.twoch, FALSE)]
   ELSE <<>>)

SacdListing(d, c) == AreaListing(d, c, 0)

(* dsdiff returns nothing for fewer than two tracks over both areas, and   *)
(* numbers multichannel names after the stereo tracks.                     *)
DffListing(d, c) ==
  IF d.twoch + d.mulch < 2 THEN <<>> ELSE AreaListing(d, c, d.twoch)

(* dsdiff resolves every name to track 0 when the file has one track.      *)
DffTrack(d, s) == IF d.twoch + d.mulch > 1 THEN Subsong(d, s) ELSE 0

-----------------------------------------------------------------------------
(* dvdaiso: "AUDIO_TS__TRACK%03u%c.%3s", area 'S', 'M' or 'D' (downmix).   *)

DvdaName(n, area) == FormatU03(n) \o <<area, ".", SuffixToken>>

ParseDvda(s) ==
  LET u == ScanU03(s, 1)
      hasArea == u.k > 0 /\ u.next <= Len(s)
  IN [params |-> (IF u.k > 0 THEN 1 ELSE 0) + (IF hasArea THEN 1 ELSE 0)
                 + (IF hasArea /\ DotAndSuffix(s, u.next + 1) THEN 1 ELSE 0),
      area   |-> IF hasArea THEN s[u.next] ELSE "none",
      index  |-> u.value]

(* get_subsong(): the track index and the downmix flag, or no track.       *)
DvdaSubsong(s) ==
  LET p == ParseDvda(s) IN
  IF p.params = 3
  THEN [area |-> "linear", track |-> Decrement(p.index),
        key |-> Decrement(p.index), downmix |-> p.area = "D"]
  ELSE NoSelection

(* The entries container_scan() adds for track i (1-based) of the disc.    *)
DvdaEntries(d, c, i) ==
  LET t == d.tracks[i]
      addTrack == CASE c.area = "mulch" -> t.channels > 2
                    [] c.area = "twoch" -> t.channels <= 2
                    [] OTHER            -> TRUE
      addDownmix == c.area # "mulch" /\ ~c.noDownmixes /\ t.canDownmix
      native == DvdaName(i, IF t.channels > 2 THEN "M" ELSE "S")
  IN IF ~t.selectable \/ (c.noShort /\ t.short) THEN <<>>
     ELSE (IF addTrack THEN <<Entry(native, "linear", i - 1, i - 1, FALSE)>> ELSE <<>>)
          \o (IF addDownmix
              THEN <<Entry(DvdaName(i, "D"), "linear", i - 1, i - 1, TRUE)>>
              ELSE <<>>)

DvdaListing(d, c) ==
  FlattenSeq([i \in DOMAIN d.tracks |-> DvdaEntries(d, c, i)])

-----------------------------------------------------------------------------
(* scan_info() and the metadata store (dvda_metabase_t; sacd_metabase_t    *)
(* has the same interface).  A tag is its type and where it came from.    *)

Tag(type, from, downmixNote) == [type |-> type, from |-> from, note |-> downmixNote]

(* METABASE_TYPE of the plugin's store: "DVDA" (dvda_metabase.h), "SACD"  *)
(* for sacd_metabase_t.                                                    *)
MetabaseType(f) == IF f = "dvdaiso" THEN "DVDA" ELSE "SACD"

(* The sidecar documents: up to MaxStores store elements under the root,  *)
(* one per store id and type.  A store element is whether its id is this   *)
(* disc's content hash, its type attribute and its track element ids.      *)
Docs == {doc \in UNION {[1..n -> SidecarStores] : n \in 0..MaxStores} :
           \A i, j \in DOMAIN doc :
             i # j => <<doc[i].id, doc[i].type>> # <<doc[j].id, doc[j].type>>}

(* The structural id "titleset.title.track" of the 0-based disc track t;   *)
(* the model's discs number their tracks in order, so it is t + 1.         *)
TrackId(t) == t + 1

(* Seeded fault: track_number_to_id() calls get_track(track_number).       *)
TrackNumberToIdNoDecrement(f, d, n) ==
  IF f # "dvdaiso" THEN n ELSE IF n + 1 \in 1..Len(d.tracks) THEN TrackId(n) ELSE 0

(* track_number_to_id(): the structural id of disc track get_track(n - 1), *)
(* 0 (the empty string) when there is no such track.  sacd_metabase_t keys *)
(* tracks by their sequential number n.                                    *)
TrackNumberToId(f, d, n) ==
  IF f # "dvdaiso" THEN n ELSE IF n \in 1..Len(d.tracks) THEN TrackId(n - 1) ELSE 0

(* Seeded fault: get_node() takes the first store element of the family,  *)
(* whatever its id.                                                        *)
StoreOfAnyId(f, doc) ==
  SelectInSeq(doc, LAMBDA e : e.type = MetabaseType(f))

(* get_node(), first loop: the first store element whose id attribute is   *)
(* the disc's store_id and whose type is METABASE_TYPE; 0 when none.       *)
StoreOf(f, doc) ==
  SelectInSeq(doc, LAMBDA e : e.id = "own" /\ e.type = MetabaseType(f))

(* get_node(), second loop, within that store element only: the element   *)
(* of the tag name whose id attribute is att_id.  An empty id names no     *)
(* track element.                                                          *)
GetNode(f, doc, id) ==
  LET k == StoreOf(f, doc) IN
  IF k # 0 /\ id # 0 /\ id \in doc[k].tracks THEN k ELSE 0

(* The track element ids the stores of this disc and family hold in doc.  *)
(* It is what the lookup is checked against, and is not code.             *)
HeldTracks(f, doc) ==
  UNION {s.tracks : s \in {s \in Range(doc) : s.id = "own" /\ s.type = MetabaseType(f)}}

(* get_track_info(): false without a loaded document, without a track      *)
(* element, or when the element has no children; otherwise true, having   *)
(* emitted each meta whose name is a tag type, a downmix title annotated.  *)
TrackInfoFound(k, node) == metabase = "loaded" /\ k # 0 /\ node # {}

TrackInfoTags(node, downmix) ==
  {Tag(n, "sidecar", downmix /\ n = "title") : n \in node \cap TagTypes}

(* get_albumart(): the first albumart id in the fixed order that the store *)
(* element holds, decoded from base64.                                          *)
AlbumArt(f, doc) ==
  LET hits == {i \in DOMAIN ArtOrder : ArtOrder[i] \in SidecarArt}
  IN IF metabase = "loaded" /\ StoreOf(f, doc) # 0 /\ hits # {}
     THEN ArtOrder[Min(hits)] ELSE "none"

(* The tags scan_info() emits: the track number, then the sidecar's entry  *)
(* if get_track_info() found one, else the reader's get_info().  dsdiff    *)
(* has no store.                                                           *)
ScanInfoTags(f, k, node, downmix) ==
  {Tag("track", "index", FALSE)}
  \cup (IF f # "dsdiff" /\ TrackInfoFound(k, node)
        THEN TrackInfoTags(node, downmix)
        ELSE {Tag(t, "embedded", FALSE) : t \in EmbeddedTypes})

-----------------------------------------------------------------------------
(* file_decode() before client.Ready(): the track it selects for a name.  *)

(* Seeded fault: file_decode() selects in the multichannel area without   *)
(* subtracting the stereo tracks.                                          *)
DecodeSelectNoSplit(d, track) ==
  IF track < d.twoch THEN [area |-> "twoch", track |-> track, downmix |-> FALSE]
  ELSE IF track < d.mulch THEN [area |-> "mulch", track |-> track, downmix |-> FALSE]
  ELSE Unselected

(* sacdiso and dsdiff: an index over both areas selects the stereo area   *)
(* or, less the stereo tracks, the multichannel area; an index past both   *)
(* selects nothing and no error is raised.                                 *)
DecodeSelect(d, track) ==
  IF track < d.twoch THEN [area |-> "twoch", track |-> track, downmix |-> FALSE]
  ELSE IF track - d.twoch < d.mulch
  THEN [area |-> "mulch", track |-> track - d.twoch, downmix |-> FALSE]
  ELSE Unselected

(* dvdaiso: a name that does not parse, or a track select_track() refuses, *)
(* ends file_decode() before Ready.                                        *)
DvdaDecodeSelect(d, s) ==
  LET p == DvdaSubsong(s) IN
  IF p # NoSelection /\ p.track + 1 \in DOMAIN d.tracks
     /\ d.tracks[p.track + 1].selectable
  THEN [area |-> "linear", track |-> p.track, downmix |-> p.downmix]
  ELSE Refused

DecodeSelection(f, d, s) ==
  CASE f = "sacdiso" -> DecodeSelect(d, Subsong(d, s))
    [] f = "dsdiff"  -> DecodeSelect(d, DffTrack(d, s))
    [] f = "dvdaiso" -> DvdaDecodeSelect(d, s)

-----------------------------------------------------------------------------

Listing(f, d, c) ==
  CASE f = "sacdiso" -> SacdListing(d, c)
    [] f = "dsdiff"  -> DffListing(d, c)
    [] f = "dvdaiso" -> DvdaListing(d, c)

(* What scan_file() selects for a name: the plugin's get_subsong() and,    *)
(* for the two-area plugins, the area split.                               *)
Resolve(f, d, s) ==
  CASE f = "sacdiso" -> SelectArea(d, Subsong(d, s))
    [] f = "dsdiff"  -> SelectArea(d, DffTrack(d, s))
    [] f = "dvdaiso" -> DvdaSubsong(s)

-----------------------------------------------------------------------------
(* UpdateContainerFile().                                                  *)

(* The suffixes[] of each plugin.                                          *)
PluginSuffixes ==
  [f \in AllPlugins |-> CASE f = "sacdiso" -> {"dat", "iso"}
                          [] f = "dvdaiso" -> {"iso"}
                          [] f = "dsdiff"  -> {"dff"}]

(* The container file's suffix: disc images are .iso, DSDIFF files .dff.   *)
ContainerSuffix == IF family = "dsdiff" THEN "dff" ELSE "iso"

(* dsdiff's container_scan(nullptr): the marker entry unless single_track. *)
DsdiffProbeLists == ~config.singleTrack

(* SupportsContainerSuffix(): dsdiff is a container plugin for its suffix  *)
(* only when its probe lists something.                                    *)
SupportsContainerSuffix(f) ==
  /\ ContainerSuffix \in PluginSuffixes[f]
  /\ f = "dsdiff" => DsdiffProbeLists

(* container_scan() of plugin f: container_update() fails on a container  *)
(* its reader cannot open, and the list is empty.                          *)
ScanResult(f) == IF f = family THEN Listing(family, disc, config) ELSE <<>>

(* Seeded fault: the plugin loop stops at the first plugin that lists      *)
(* nothing.                                                                *)
CollectSongsStopAtEmpty(plugins, throws) ==
  LET r == [k \in DOMAIN plugins |->
              IF plugins[k] \in throws THEN <<>> ELSE ScanResult(plugins[k])]
      empties == {k \in DOMAIN r : r[k] = <<>> /\ plugins[k] \notin throws}
  IN FlattenSeq(SubSeq(r, 1, IF empties = {} THEN Len(r) ELSE Min(empties) - 1))

(* The songs the plugin loop adds, in order: a plugin that lists nothing   *)
(* is skipped (continue) and one whose container_scan() throws is logged   *)
(* and skipped.                                                            *)
CollectSongs(plugins, throws) ==
  FlattenSeq([k \in DOMAIN plugins |->
                IF plugins[k] \in throws THEN <<>> ELSE ScanResult(plugins[k])])

(* The update of the container file.  Inputs: the enabled plugins claiming *)
(* the suffix in decoder_plugins order; MakeVirtualDirectoryIfModified()   *)
(* finding an existing directory up to date; storage.MapFS() giving a      *)
(* local path; the plugins whose container_scan() throws.                  *)
UpdateContainerFile ==
  /\ ~catalog.ran
  /\ \E plugins \in SetToAllKPermutations({f \in AllPlugins : SupportsContainerSuffix(f)}),
        upToDate \in IF catalog.dir = "present" THEN BOOLEAN ELSE {FALSE},
        local \in BOOLEAN :
     \E throws \in SUBSET Range(plugins) :
       LET rescanned == plugins # <<>> /\ ~upToDate /\ local
           songs == IF rescanned THEN CollectSongs(plugins, throws) ELSE <<>>
           own == rescanned /\ family \in Range(plugins) /\ family \notin throws
       IN /\ catalog' =
               [ran |-> TRUE, rescanned |-> rescanned, ownScanned |-> own,
                dir |-> CASE plugins = <<>> \/ upToDate -> catalog.dir
                          [] ~local \/ songs = <<>>    -> "absent"
                          [] OTHER                      -> "present",
                songs |-> CASE plugins = <<>> \/ upToDate -> catalog.songs
                            [] OTHER                      -> [k \in DOMAIN songs |-> songs[k].name],
                result |-> plugins # <<>> /\ (upToDate \/ (local /\ songs # <<>>))]
          /\ scanned' = own
          /\ listing' = IF own THEN Listing(family, disc, config) ELSE <<>>
  /\ UNCHANGED <<family, disc, config, metabase, lookup, decoded>>

(* The database update asks for the tags of a listed virtual track.       *)
(* Inputs: the loaded sidecar document, the meta names of a track element, *)
(* and whether the handler wants a picture.  Without a      *)
(* selected track scan_file() returns false.                               *)
ScanFile(i) ==
  /\ scanned
  /\ \E doc \in IF family # "dsdiff" /\ metabase = "loaded" THEN Docs ELSE {<<>>},
        node \in SidecarNodes, wantPicture \in BOOLEAN :
       LET got == Resolve(family, disc, listing[i].name)
           ok  == got # NoSelection
           k   == IF ok THEN GetNode(family, doc, TrackNumberToId(family, disc, got.key + 1))
                  ELSE 0
       IN lookup' = [entry |-> listing[i], got |-> got,
                     tags |-> IF ok THEN ScanInfoTags(family, k, node, got.downmix) ELSE {},
                     art  |-> IF ok /\ wantPicture /\ family # "dsdiff"
                              THEN AlbumArt(family, doc) ELSE "none",
                     held |-> HeldTracks(family, doc), node |-> node]
  /\ UNCHANGED <<family, disc, config, metabase, scanned, listing, decoded, catalog>>

(* The decoder thread plays a listed virtual track: file_decode() selects  *)
(* its track; the reader's select_track() (sacdiso, dsdiff) or             *)
(* set_downmix() (dvdaiso) may still fail, and file_decode() returns.      *)
DecodeFile(i) ==
  /\ scanned
  /\ \E readerFails \in BOOLEAN :
       LET sel == DecodeSelection(family, disc, listing[i].name) IN
       decoded' = [entry |-> listing[i],
                   plays |-> IF readerFails /\ sel # Unselected THEN Refused ELSE sel]
  /\ UNCHANGED <<family, disc, config, metabase, scanned, listing, lookup, catalog>>

Init ==
  /\ family \in Families
  /\ disc \in Discs(family)
  /\ config \in Configs(family)
  /\ metabase \in IF family = "dsdiff" THEN {"none"}
                  ELSE {"none", "uninitialized", "loaded"}
  /\ scanned = FALSE
  /\ listing = <<>>
  /\ lookup = NoLookup
  /\ decoded = NoDecode
  \* a directory left by an earlier update of the same container, or none
  /\ \E dir \in {"absent", "present"} :
       catalog = [ran |-> FALSE, rescanned |-> FALSE, ownScanned |-> FALSE, dir |-> dir,
                  songs |-> IF dir = "present"
                            THEN [k \in DOMAIN Listing(family, disc, config) |->
                                    Listing(family, disc, config)[k].name]
                            ELSE <<>>,
                  result |-> FALSE]

Next ==
  \/ UpdateContainerFile
  \/ \E i \in DOMAIN listing : ScanFile(i) \/ DecodeFile(i)

Spec == Init /\ [][Next]_vars

(***************************************************************************)
(* Properties.                                                             *)
(***************************************************************************)

(* Round trip (specification 8): the name container_scan() wrote for a     *)
(* track, resolved by get_subsong() and scan_file(), selects that same     *)
(* track, area and downmix variant.                                        *)
RoundTrip ==
  lookup # NoLookup =>
    /\ lookup.got.area = lookup.entry.area
    /\ lookup.got.track = lookup.entry.track
    /\ lookup.got.downmix = lookup.entry.downmix

(* Playing a listed virtual track plays the track and variant the listing *)
(* named, or ends before the client is made ready: file_decode()'s own     *)
(* parse and area split never start another track, or the one the reader  *)
(* happened to have selected.                                              *)
DecodePlaysListedTrack ==
  decoded # NoDecode =>
    \/ decoded.plays = Refused
    \/ /\ decoded.plays.area = decoded.entry.area
       /\ decoded.plays.track = decoded.entry.track
       /\ decoded.plays.downmix = decoded.entry.downmix

(* The container is exposed once, whichever plugins claim its suffix and  *)
(* in whatever order they are tried: an update that rescans it keeps the  *)
(* virtual directory exactly when it returns true, and when the container's *)
(* own plugin ran, the directory holds each track that plugin listed,     *)
(* once, in its order, even when another plugin before it found nothing  *)
(* or threw.                                                               *)
ContainerExposedOnce ==
  catalog.rescanned =>
    /\ catalog.result <=> (catalog.dir = "present" /\ catalog.songs # <<>>)
    /\ catalog.ownScanned =>
         catalog.songs = [k \in DOMAIN listing |-> listing[k].name]

(* The sidecar entry of a listed track (specification 4.3): scan_file()   *)
(* reports sidecar tags for a name exactly when the store of this disc and *)
(* family in the loaded document holds an element for the track the name  *)
(* was listed for: the sequential number over both areas for sacdiso, the  *)
(* structural id of the disc track for dvdaiso.  The name goes through     *)
(* get_subsong(), scan_info()'s track_index + 1, track_number_to_id()'s    *)
(* get_track(n - 1) and both loops of get_node(); a foreign store first in *)
(* the document, or a number off by one, reads another track's entry or    *)
(* misses this one.                                                        *)
ListedTrackId ==
  IF family = "dvdaiso" THEN TrackId(lookup.entry.track) ELSE lookup.entry.key + 1

SidecarOfListedTrack ==
  lookup.got # NoSelection =>
    ((\E t \in lookup.tags : t.from = "sidecar") <=>
       /\ metabase = "loaded"
       /\ lookup.node \cap TagTypes # {}
       /\ ListedTrackId \in lookup.held)

(* The tags scan_file() reports for a listed name come from the same       *)
(* reader track and the same sidecar track entry as the tags the listing   *)
(* carried for it from container_scan(): rescanning one file never mixes   *)
(* the metadata of two tracks.                                             *)
ScanTagsAgree ==
  lookup.got # NoSelection => lookup.got.key = lookup.entry.key

(* Sidecar precedence (specification 8): a sidecar entry overrides the     *)
(* embedded values of the tag types it carries; every other tag type the   *)
(* reader reports for the track is still reported.                         *)
SidecarPrecedence ==
  lookup.got # NoSelection =>
    \A t \in EmbeddedTypes : \E tag \in lookup.tags : tag.type = t

(* Single-track suppression (specification 4.2, 8): a scan never yields   *)
(* exactly one virtual track.                                              *)
SingleTrackSuppressed == scanned => Len(listing) # 1

(* Downmix generation (specification 4.2(c), 8): a downmix entry is only   *)
(* listed for a multichannel source track.                                 *)
DownmixOnlyOfMultichannel ==
  \A i \in DOMAIN listing :
    listing[i].downmix => disc.tracks[listing[i].track + 1].channels > 2

=============================================================================
