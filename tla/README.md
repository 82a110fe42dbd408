# TLA+ models of the SACD / DVD-Audio / DSDIFF decoder plugins

The code is an MPD fork with three decoder plugins for disc images and DSD files:
`sacdiso` (`src/src/decoder/plugins/SacdIsoDecoderPlugin.cxx`), `dsdiff`
(`DffDecoderPlugin.cxx`) and `dvdaiso` (`DvdaIsoDecoderPlugin.cxx`). They are used
by the database update (`src/src/db/update/Container.cxx`), which lists a container's
tracks as virtual files, and by the decoder thread, which plays one virtual track.
These models check how the plugins keep their state across those calls and how the
DSD/DST decode loop moves frames through a multi-threaded DST decoder.

## Inventory

| Part | Code | State | Operations | Status |
|---|---|---|---|---|
| Container handle cache | `container_update`, `finish` of each plugin | cached path, media, reader, metadata store (plugin globals) | open a container, shut down | modelled in `ContainerCache` for all three plugins, with the sacdiso/dvdaiso metadata store |
| Decode engine (DSD/DST) | `file_decode` of sacdiso and dsdiff (the loops are the same) | read position, DST slot, raw buffers, pending command, decoder | read a frame, conceal it, submit it to DST, emit, STOP, SEEK, drain at the end of the track | modelled in `DecodeEngine` from `client.Ready()` on |
| DST decoder pool | `dst_decoder_t` (not in `src/`), `semaphore.h` | slots, each with a unit in flight or done | submit, worker completion, poll | modelled from the specification (`spec_modelled`) |
| Track enumerator and name codec | `container_scan`, `get_subsong`, `scan_file`, `file_decode` up to `client.Ready()` | none (pure, given the reader) | list the tracks, parse a virtual name, select the track to decode | modelled in `Scanner` |
| Metadata resolver | `dvda_metabase.cpp`, `sacd_metabase.h`, `scan_info` | XML document, store id | store and track element choice, tag precedence, album art lookup | modelled in `Scanner` as part of `scan_file`; the store's loading is an input, and the constructor's copy of the store file is abstracted |
| DVD-Audio decode loop | `file_decode` of dvdaiso | read position, command | read PCM, STOP, SEEK | modelled in `DecodeEngine` as a second loop |
| Catalog container update | `UpdateContainerFile` | database directory | scan each plugin that claims the suffix | modelled in `Scanner` (`UpdateContainerFile`, `SupportsContainerSuffix`); its concurrency with decoding is modelled in `PluginHost` |
| Configuration | `init` of each plugin | globals | parse a config block | not modelled: its values are the models' CONSTANTS |
| Logging | `log_printf.cpp` | none | format a message | not modelled: pure I/O |

The parts interact through the plugin globals. The update thread calls
`container_scan`, which calls `container_update`. The decoder thread calls
`file_decode`, which also calls `container_update` and then reads from the global
reader for the whole session. No lock guards the globals.

## Modules

### `DecodeEngine` (+ `MCDecodeEngine`)

This module models the loop of `SacdIsoDecoderPlugin.cxx:279-359` and the PCM loop of `DvdaIsoDecoderPlugin.cxx:279-305`. Which loop runs follows from the track: a track of PCM frames is a dvdaiso track (`IsPcm`).

- **State.** `pc` is the loop's position: reading, draining, handling a command, or done. `frames` is the track: per frame, its type and size. `pos` is the reader position and `cmd` is the command `SubmitData` returned. `seeks` counts the SEEKs issued. `epoch` counts the successful seeks. `decoder` is the lazily created `dst_decoder`. `pool` holds the units in the DST slots and `slotNr` is the decoder's current slot. `raw` is the contents of `dsd_buf` per slot. `readSet` and `emitted` are bookkeeping for the properties. `exit` records why the loop ended.
- **Actions.** Each action is one iteration path of the loop:
  - `ReadPlainFrame` covers a DSD frame and a concealed invalid frame.
  - `ReadEmptyFrame` covers a zero-size frame.
  - `ReadDstFrame` covers the DST submit. It includes lazy init, the decoder handing back a unit or nothing, and `SubmitData`.
  - `DstInitFails` covers the `break` when the decoder cannot be created.
  - `EndOfStream` covers `read_frame` failing.
  - `FlushOutput`, `FlushDone` and `FlushEnd` cover the drain loop at :318-341.
  - `HandleStop`, `HandleSeek` and `Continue` cover the command tail.
  - `ReadPcmFrame`, `ReadPcmEmpty` and `PcmEndOfStream` are the dvdaiso loop: a non-empty read is submitted and followed by the command tail; an empty read loops without polling the command; a failed read ends the loop. Its STOP and SEEK reuse `HandleStop` and `HandleSeek`, whose code is the same (`DvdaIsoDecoderPlugin.cxx:287-299`); `SeekReader` is the reader's seek succeeding or failing.
  - `WorkerDecode` is a worker thread finishing a unit; this is the semaphore signal.
- **The DST decoder.** Its code is not in `src/`, so it is modelled from the specification as a pool of `Threads` slots. When the constant `InOrder` is FALSE, a unit may complete and be handed back in any order. When it is TRUE, the pool behaves as the order-preserving ring that the decoder's slot counter suggests.

- **Commands.** `NewCommand` is `GetCommand()` (:279, :353): any command, with a SEEK only while the client has seeks left. `IssueCommand` is `SubmitData()` (:314). A STOP or SEEK the client has issued stays pending until the decoder acknowledges it, so `SubmitData()` returns it again. Otherwise the client may issue a new command.

### `DecodeSession` (abstract)

This is what one decode session promises its client, following the specification's session states (§4.4). It has no SEEKING state, because a SEEK while playing does not change the session's state.

- **State.** The session's state, the frames read so far, the frames read and not yet handed over (`pending`), the frames handed over in order, and why the session ended.
- **Actions.**
  - `Play` reads a frame and hands over at most one frame. At most `MaxLag` frames stay held back.
  - `Stop` ends the session, as does `Abort`, which reads one frame and ends before anything was held back.
  - `EndOfStream` moves to FLUSHING.
  - `Drain` hands over a held-back frame; the client's answer may end the session.
  - `DrainEnd` ends the session with nothing left.
  - `EndOfStreamDrained` ends a session with nothing held back at the end of the stream; the dvdaiso loop has no pipeline to drain.

`DecodeEngine` implements it through `Session == INSTANCE DecodeSession WITH ...`:

- `MaxLag` is `Threads - 1`.
- The loop's position maps to the session's state.
- `read` is the set of frames read.
- `pending` is the set of serials of the units in the DST pool.
- `out` is the serials of the emitted chunks.

`ImplementsSession` is checked as a PROPERTY of the `engine` run. It says the loop never hands a frame over twice and never drops one except when the session ends. It also says it holds back at most `Threads - 1` frames, and that it ends only in the ways listed above.

### `ContainerCache` (+ `MCContainerCache`)

This module models `container_update` (`SacdIsoDecoderPlugin.cxx:85-141`) and
`finish` (:179-182).

The dvdaiso (`DvdaIsoDecoderPlugin.cxx:83-139`) and dsdiff (`DffDecoderPlugin.cxx:81-130`) forms are the same but for the store; `plugin` is fixed by `Init`.

- **State.** The plugin, which container files exist, the cached path, the media and reader (each `none`, `created` or `open`), and the metadata store. The store is a record of the container it was built for and its `xmldoc` member: `unset` when the constructor returned before assigning it, `null`, or `loaded`. The state also holds the container the media was opened on, whether a teardown freed an unassigned pointer (`wildFree`), and the last call and its result.
- **`Outcomes(p)`.** This lists what one call can leave behind, in the code's order: the early return on an equal path; the teardown and a missing file; the media open failing; the reader open failing; success, with the store built when `WithMetabase`. dsdiff has no store.
- **The store's destructor.** `dvda_metabase_t` returns from its constructor before assigning `xmldoc` when the MD5 of `AUDIO_TS.IFO` cannot be computed (`dvda_metabase.cpp:97`). Its destructor then tests the indeterminate pointer. `TeardownFrees` makes this a nondeterministic choice: the pointer may be null, or be freed. The sacdiso store's source is not in `src/`, and it is modelled from the specification as loading or failing.

### `Scanner` (+ `MCScanner`)

This module models `container_scan` and `scan_file` of the three plugins
(`SacdIsoDecoderPlugin.cxx:71-83, 143-156, 184-220, 362-386`, the same in
`DffDecoderPlugin.cxx` and `DvdaIsoDecoderPlugin.cxx`) and the store lookups of
`dvda_metabase.cpp:134-215`, with the choice of the store element and track element that they read (`get_node` and `track_number_to_id`, `dvda_metabase.cpp:222-289`). It also models the caller of `container_scan`: `UpdateContainerFile` and `SupportsContainerSuffix` (`Container.cxx:33-115`).

- **State.** `family` is the plugin. `disc` is what the reader reports: the track counts per area, or for DVD-Audio each track's channels, duration class, selectability and downmix capability. `config` holds the plugin parameters and `metabase` the store (none, not loaded, loaded). `listing` is the scan's result, `lookup` is the last `scan_file`, what it produced, and the track element ids that this disc's store of the family holds in the document it read, `decoded` is the last `file_decode` set-up and the track it plays, and `catalog` is the container's virtual directory (absent or present, with its song names) and what the last update returned.
- **Names are written and parsed as characters.** `FormatU03` is printf's `%03u`. `ScanU03` is sscanf's `%03u`, which reads at most three digits. `ParseSacd` and `ParseDvda` return sscanf's conversion count. `Decrement` is the unsigned `index--`. The pattern's constant literal is left out, and the suffix is one token.
- **Actions.** `UpdateContainerFile` is the database update of the container file. It takes the enabled plugins that claim the container's suffix, in any order, since `decoder_plugins` is outside `src/`. dsdiff claims `.dff` only when its `container_scan(nullptr)` probe lists the marker, that is, without `single_track`. The action then follows the code's early returns: no plugin; a directory that `MakeVirtualDirectoryIfModified` finds up to date; a path `MapFS` cannot make local. Otherwise it runs each plugin's `container_scan`: the container's own plugin lists its tracks with all the filters (`Listing`); another plugin's reader cannot open the container and lists nothing; any plugin may throw. The directory is kept, with the songs in plugin order, exactly when some were added. `ScanFile(i)` resolves the i-th listed name and computes its tags and album art. Its inputs are the store document, the track element's tags and whether the handler wants a picture. The document is a sequence of store elements, each with an id (this disc's or another disc's), a type (`DVDA` or `SACD`) and the ids of the track elements it holds; a document holds one store per id and type. `StoreOf` is `get_node`'s first loop: the first element whose id and type both match (`MetabaseType` is the plugin's `METABASE_TYPE`). `GetNode` is its second loop, within that element only. `TrackNumberToId` is dvdaiso's `get_track(track_number - 1)`: the structural id of that disc track (`TrackId`, which numbers the model's tracks in order), or the empty id when the track does not exist. sacdiso keys its elements by the sequential number. `DecodeFile(i)` is `file_decode` up to `client.Ready()` for the i-th listed name (`SacdIsoDecoderPlugin.cxx:229-257`, `DffDecoderPlugin.cxx:221-246`, `DvdaIsoDecoderPlugin.cxx:250-270`). It parses the name again and selects the track with its own area split (`DecodeSelect`, `DvdaDecodeSelect`). An index past both areas selects nothing, so the reader's earlier selection plays. The reader's `select_track` or `set_downmix` may still fail, which ends `file_decode` before `Ready`.
- **Each entry records the `scan_info` call that made its tags.** This is the area, the reader's track and the store's track index. `ScanTagsAgree` compares these between the scan and a rescan.

### `PluginHost` (+ `MCPluginHost`)

This module composes `ContainerCache` (by `INSTANCE`) with the two threads that call a plugin:

- the database update thread (`Container.cxx:77-107`, which opens the container through `container_scan` and then reads the track list);
- the decoder thread (`file_decode`, which opens its track's container and then reads frames).

An open is `ContainerCache`'s `ContainerUpdate`. Each read is a later step through the global reader.

## Runs

| Run | Expect | Shows |
|---|---|---|
| `engine` | pass | For the DSD/DST loop and the dvdaiso PCM loop, whatever order the DST workers finish in, the loop holds four properties. No raw buffer of an unfinished unit is overwritten. At the end of the track every frame read has been emitted exactly once. Every session ends. The loop implements the abstract `DecodeSession`. |
| `engine_order` | violation | A concealed invalid frame overtakes DST frames still in the decoder, even with an order-preserving decoder (`SacdIsoDecoderPlugin.cxx:288`). |
| `engine_seek_stale` | violation | After a successful seek, frames read before it are still emitted, because the DST pipeline is not reset (:347). |
| `cache` | pass | For each plugin, a successful `container_update(p)` always hands out an open reader for `p`, across any sequence of opens, failures and shutdowns. The store attached is always the one built for the cached container. |
| `cache_shutdown_leak` | violation | A failed open leaves media and reader allocated under a null path. `finish()` then returns early and releases nothing (:88, :117-128). |
| `cache_store_teardown` | violation | dvdaiso: when the store's constructor returned early, opening another container or `finish()` destroys the store and frees an uninitialized `xmldoc` pointer (`dvda_metabase.cpp:97`, `:128-132`). The specification says store failures are not fatal. |
| `scanner` | pass | For sacdiso and dvdaiso, every listed name resolves back to its track, area and downmix variant. Rescanning a name reads the same reader track and store entry as the listing did. `file_decode` plays the listed track and variant, or refuses before `Ready`. Whatever plugins claim the suffix, in whatever order, and whichever of them throw, an update that rescans the container exposes it once: it returns true exactly when the virtual directory is kept, and the directory holds every track of the container's own plugin. A name gets sidecar tags exactly when this disc's store of the plugin's type holds an element for the track the name was listed for, through `scan_info`'s `track_index + 1`, `track_number_to_id`'s `get_track(n - 1)` and both loops of `get_node`, however the document orders the stores of other discs and types. |
| `scanner_dff_roundtrip` | violation | dsdiff offsets a multichannel track's number by the stereo count when writing the name (`DffDecoderPlugin.cxx:206`) and again when parsing it (:74). With one stereo and one multichannel track, `M002` resolves to no track. |
| `scanner_single_track` | violation | A container with one eligible track is listed as one virtual track. The specification says it is not virtualized. |
| `scanner_sidecar_precedence` | violation | A store entry with only a title suppresses every embedded tag (`dvda_metabase.cpp:184`). The specification says only the tag types it carries are overridden. |
| `scanner_stereo_downmix` | violation | dvdaiso lists a downmix of a stereo track (`DvdaIsoDecoderPlugin.cxx:217`). |
| `host_race` | violation | A scan on the update thread and a decode on the decoder thread share the plugin's reader. Each can read the other's container, or a reader the other tore down (`Container.cxx:80`). |

Each property of a passing run has a mutant in `PROJECT.json`, which replaces one definition with a plausible bug in the code it models. The mutants are:

- the slot choice ignoring the decoder;
- empty frames treated as data;
- the drain stopping early or never;
- the loop's exit not deleting the decoder;
- the teardown keeping the path;
- the teardown keeping the store;
- the update's plugin loop stopping at the first plugin that lists nothing;
- `file_decode` selecting in the multichannel area without subtracting the stereo tracks;
- `get_subsong` without the multichannel offset;
- `scan_file` passing the in-area track as the store's track index;
- `track_number_to_id` calling `get_track(track_number)`, without the decrement.

### Bounds

**`MCDecodeEngine`:** 3 DST slots, 4 frames, at most 1 SEEK.

- Three slots let two units wait at once, so completions can overtake each other and the pipeline can be full.
- Four frames leave room for frames to be in flight both at a seek and at the end of the track.
- Every frame may be a DSD, DST, invalid, or empty frame, of short or full size. A dvdaiso track is four PCM frames, each empty or full.
- The first command may already be STOP or SEEK.
- The run reaches about 583,000 distinct states in about 20 s.

**`MCScanner`:** up to 2 tracks per area, or 2 tracks per DVD-Audio disc, with every combination of track properties.

- Every playable-area, downmix and short-track setting is tried, and every store state. A virtual directory may or may not exist from an earlier update. Every ordered choice of the claiming plugins is tried (sacdiso and dvdaiso both claim `.iso`), with every subset of them throwing.
- The store's track element holds a title, a title and an artist, or only a name that is no tag type.
- This gives both areas at once, a listing of exactly one track, and stereo beside multichannel.
- Track numbers stay below 10, so the three-digit width of `%03u` is never exceeded. The discs have at most 255 tracks per area, so it never is in practice either.
- A store document holds up to 2 of 3 store elements: this disc's `DVDA` store, holding only the first track's element; another disc's `DVDA` store, holding both; and this disc's `SACD` store, holding sequential numbers 1 and 3. Two elements let a foreign or wrong-type store come before the right one. A listed track may have an element, or not, so both the hit and the fallback are reached. The passing run uses a title-only track element; the violation runs keep all three.
- The `scanner` run reaches about 126,000 distinct states in about 60 s.
- `UINT_MAX` is represented by a value above every track number. It only enters comparisons with track counts.

**`MCPluginHost`:** 2 containers, which is the least that lets a scan and a decode disagree.

**`MCContainerCache`:** 3 containers (symmetric model values), each existing or missing, and each of the three plugins. This covers opening one container while another is cached, a failed open after a successful one, and a store torn down by either. A container rewritten on disk is not modelled: reuse on an equal path is the intended behaviour (specification 4.1).

### Fairness

`Spec` of `DecodeEngine` is weakly fair to the loop and to the workers:

- The decoder thread runs the loop without waiting on anything but the decoder.
- The decoder's poll blocks on the semaphore until a worker finishes.
- A worker with a unit runs to completion.

`ContainerCache` states no liveness, so it assumes no fairness.

## Plan

The most important behaviour comes first.

1. **`DecodeEngine`, `ContainerCache`.** Done.
2. **`Scanner`, with the metadata resolver, and `PluginHost`.** Done.
3. **The DVD-Audio decode loop.** Done, in `DecodeEngine`; `DecodeSession` gained the end of a stream with nothing held back.
4. **`UpdateContainerFile` in full.** Done, in `Scanner`.
5. **`DecodeSession`.** Done: `DecodeEngine` refines it, checked in the `engine` run.
6. **The three plugins' `container_update`, with the store.** Done, in `ContainerCache`.
7. **`file_decode`'s set-up before `Ready`.** Done, in `Scanner`.

## Not modelled

- **Bit-level data.** This covers DST decompression, the bit reversal itself (only which buffer is reversed matters), and the frame and PCM contents. Frames are tokens with a type and a size.
- **A property of the invalid-frame padding.** `FrameSize` models the fill of an invalid frame to `dst_buf_size` (`SacdIsoDecoderPlugin.cxx:289`). No property checks it: the reader delivers DSD frames whole, and DST frames decode to whole frames, so a property would only restate that one assignment. A reader handing over a short DSD frame would be outside `src/`.
- **Configuration parsing and logging.** These are listed in the inventory above.
- **The semaphore's mutex and condition variable.** The model keeps only its signal and wait order.
- **Two update cases that depend on code outside `src/`.**
  - A container rewritten on disk is rescanned because its mtime changed. If its plugin's cache still holds the same path, `container_scan` reuses the reader opened on the old content (`DffDecoderPlugin.cxx:87`, and the same in the other plugins). `ScanResult` lists the current content. The specification's idempotent open (4.1) makes the reuse intended, so the clash is between that rule and the rescan, and it is not checked.
  - When no plugin claims the suffix any more (a plugin disabled, or dsdiff set to `single_track`), `UpdateContainerFile` returns false before touching an existing virtual directory (`Container.cxx:55`). Whether the walker then purges that directory is decided in `Walk.cxx`, so `ContainerExposedOnce` only covers updates that rescan.
- **The semaphore as threads.** `semaphore.h` is a counting semaphore: the count changes under the mutex, and `wait` loops on the condition variable. The engine's pool uses it only as "a worker's completion is signalled, and the poll blocks until one is". A separate model of the mutex and condition variable would check the textbook algorithm, not this code's use of it.
- **The store constructor's copy beside the image.** `dvda_metabase_t` copies the store file to the tags file when the latter is missing (`dvda_metabase.cpp:106-122`). It ignores a failed `fopen` of either file and short writes, so it can leave a truncated tags file that a later open parses. `ContainerCache` models the constructor only as the store loading or failing, and the specification does not say what the copy must do, so this is listed as a hazard without a property.
- **Base64 pictures and UTF-8 conversion.** These are data conversions of tag and picture contents, which no property tells apart.
- **`sacd_metabase.cpp`.** It is not in `src/`; the sacdiso store is modelled from the specification.
- **A container rewritten between opens.** The cache reuses its reader on path equality, which the specification requires; a rescan of a modified container is decided by `MakeVirtualDirectoryIfModified`, outside `src/`.
- **dsdiff `finish()` taking the directory name of a null path.** `GetDirectoryName` is outside `src/`.
- **MPD's decoder thread.** The chunks that `SubmitData` accepts are the emitted chunks; what the thread does with data while a command is pending is outside `src/`.
