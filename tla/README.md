# TLA+ models of the libopenraw Python bindings and demos

This directory holds TLA+ models of `src/python`. The models cover the `openraw` facade (`openraw/__init__.py`) and the two command-line drivers built on it: `demo/cfa.py` (extract raw data) and `demo/thumb.py` (extract thumbnails). TLC checks each model.

## 1. Inventory

### Components

| Component | Source | State | Operations |
|---|---|---|---|
| Native `_openraw` engine | not under `src/` (C++ binding) | one decode session per RAW file | `newRawFile`, `listThumbnailSizes`, `getThumbnail`, `getRawData` |
| `openraw` facade | `openraw/__init__.py` | only the engine handle (`RawFile._rawfile`) and the wrapped bitmap | `from_path`, `from_string`, `get_type`, `get_orientation`, `get_thumbnail_widths`, `get_thumbnail(s)`, `get_raw_data`, the Bitmap getters, `DATATYPE_TO_MIMETYPE` |
| extract-raw driver | `demo/cfa.py` | the input loop index, the decoded `RawData`, the open output file | `extract_raw_image`, `main` |
| extract-thumbnails driver | `demo/thumb.py` | the input loop index, the extracted thumbnail list, the inner loop index, the open output file | `write_rgb8pixmap_to_stream`, `extract_thumbnails`, `main` |
| Browser (external) | `webbrowser.open_new[_tab]` | tabs it has been handed and not yet loaded | loads a tab whenever it gets to it |
| File system (external) | `open(..., 'wb')`, `f.write`, `f.close` | output files, possibly truncated | create or truncate, append a write, fail |
| Option parsing, unit tests, `setup.py` | | | out of scope (see section 5) |

### How the components interact

Each driver calls the facade synchronously, and the facade calls the engine. The facade turns an engine failure into `openraw.Error`. Neither driver catches it, so the first `Error` or `IOError` ends the process. Whatever a driver has written up to that point stays on disk. The user may then run the same command again.

Under `-b`, each finished file is handed to the browser. The browser is a second process: it reads the file when it gets to it, while the driver carries on writing.

### The hard behaviours

- **Partial failure and crashes.** `cfa.py` truncates the output, then writes it in four `f.write` calls. An I/O error or a kill between them leaves a truncated `.pgm`.
- **Aborting the batch.** The first failing input ends the whole batch (spec 9 calls this asymmetry intentional).
- **Eager extraction.** `get_thumbnails` is a list comprehension, so one failing width discards every thumbnail extracted before it.
- **Skip and continue.** An unsupported thumbnail type is reported and skipped with `continue`.
- **Name collisions.** Output names keep only the basename, in both drivers. In `thumb.py`, a width listed twice also produces the same file name twice, and of two thumbnails with the same width only one is ever extracted.
- **The browser race.** The browser reads files concurrently with the driver's rewrites.
- **Header arithmetic and byte order.** The maximum value is `2 ** bits_per_channel - 1`. Above 8 bits a P5 body must hold samples most significant byte first, but the buffer is written as the engine gave it.

### What makes each component correct

- **Facade:** a failing engine call raises, and a successful one returns exactly what the engine filled in.
- **extract-raw:** the inputs are processed in order. Each decoded input gets one whole P5 file, whose header matches the bitmap (dimensions, and a maximum value of `2^bpc-1`). The first failure stops the batch, leaving at most that input's file truncated. A clean rerun leaves no truncated file.
- **extract-thumbnails:** every unsupported thumbnail gets exactly one diagnostic, and every other thumbnail is exported. A RAW file whose extraction fails exports nothing. The driver terminates. The browser shows only whole files.

## 2. Plan

Modules, in the order they are built. The most important behaviour comes first.

1. `OpenRaw.tla`: the facade, as operators over the engine contract. **Done.**
2. `ExtractRaw.tla` with `MCExtractRaw.tla`: `cfa.py`. **Done.**
3. `ExtractRawBatch.tla`: the abstract per-input contract of extract-raw. It is refined by `ExtractRaw`, with `ImplementsBatch` checked as a PROPERTY. **Done.**
4. `ExtractThumbs.tla` with `MCExtractThumbs.tla`: `thumb.py` and the browser process. **Done.**
5. `ExtractThumbsBatch.tla`: the abstract per-RAW-file contract of `thumb.py`. It is refined by `ExtractThumbs`, with `ImplementsThumbBatch` checked as a PROPERTY. **Done.**
6. The browser process in `ExtractRaw` (`open_new` of `cfa.py`). **Done.**
7. RAW files holding the thumbnails themselves (`embedded`), to check that every thumbnail a file holds is exported. **Done.**
8. A byte-order attribute for raw buffers, and rerun recovery for `thumb.py`. **Done.**
9. Dropped, for the reasons given in section 5:
   - a composed model of both drivers sharing one destination directory;
   - `from_string` and the type hint;
   - a RECURSIVE reference check of `2^bpc - 1`.

## 3. Modules and correspondence with the code

### `OpenRaw.tla` (facade, `openraw/__init__.py`)

- The engine contract (spec 6) is a record per RAW file with four fields:
  - `opens`: whether `newRawFile` returns a handle;
  - `widths`: what `listThumbnailSizes` reports;
  - `thumb`: the outcome of `getThumbnail` for each listed width;
  - `raw`: the outcome of `getRawData`;
  - `embedded` (only where a run needs it): the thumbnails the file holds, one per listed width.

  `thumb` is a function of the width, so the engine's closest-match choice is deterministic (spec 4.2).
- A call that may raise is a record `[raised, code, value]`.
- The operators `from_path`, `get_thumbnail`, `get_thumbnails` and `get_raw_data` follow the methods line by line. `get_thumbnails` returns the first raising call, found with `SelectInSeq`, in list order.

### `ExtractRaw.tla` (`cfa.py`)

- **State:**
  - `disk`: output name ↦ `[out, written]`, where `out` is the P5 content the driver means to write and `written` is the number of the four `f.write` calls that reached the disk;
  - `pc`, `idx`, `raw_data`: the position in `main`/`extract_raw_image`;
  - `tabs`: paths handed to the browser;
  - `run`: how many times the command has been started;
  - `loaded`: a history of what the browser found when it loaded a page;
  - `prev`: a history variable used only by the refinement mapping.
- **Actions:**
  - `ExtractRawImage`: `from_path` and `get_raw_data`. Either one may raise.
  - `OpenImage` / `OpenImageFails`: `open(image_path, 'wb')`.
  - `WriteImage` / `WriteImageFails`: one `f.write`, or an I/O error or kill.
  - `CloseImage`: `f.close()`, `open_new` under `-b`, and the next loop turn.
  - `Rerun`: the user starting the command again after a failure.
  - `BrowserLoadsImage`: the browser process loading a page it was handed.
- **Abstract specification:** `ExtractRawBatch.tla` has one step per input: convert it whole, or stop, leaving it untouched or truncated. The mapping shows a file that is being written with its content from before the `open`. The abstract step happens at the close, or at the failure.

### `ExtractThumbs.tla` (`thumb.py`)

- **State:**
  - `thumbnails`, `k`: the result of `get_thumbnails` and the loop position;
  - `target`: the name and content about to be written;
  - `stderr`: the diagnostics, each tagged with run, input and position;
  - `tabs`, `loaded`: the browser's pending tabs, and what it found when it loaded them;
  - `disk`, `run`: as in `ExtractRaw`;
  - `before`: a history variable holding `disk` and `stderr` as they were when the loop over the current RAW file began. Only the refinement mapping uses it.
- **Actions:**
  - `ExtractThumbnails`: `from_path` and `get_thumbnails`.
  - `NextRawFile`: the loop is exhausted.
  - The three branches of the loop body: `EncodePixmap`, `PassThroughByMimeType` and `SkipUnsupported`.
  - `OpenThumbnail(Fails)`, `WriteThumbnail(Fails)` and `CloseThumbnail` (with `open_new_tab`).
  - `Rerun`.
  - `BrowserLoadsTab`, the browser process.
- **Abstract specification:** `ExtractThumbsBatch.tla` has one step per RAW file. It takes its naming (`<basename>-<width>x<height><suffix>`), its containers (P6 with maximum value 255, or the bytes as they are) and its error policy from spec 4.3, 4.4 and 7, not from `thumb.py`. A `Convert` step writes every exportable thumbnail whole and reports every unsupported one. A `Stop` step either leaves the RAW file's outputs untouched, or fails on its j-th thumbnail: the thumbnails before it are exported and reported, and the j-th output is absent or truncated. The mapping shows `before` while the loop runs. The abstract step happens when the loop ends or the command fails.

## 4. Runs

| Run | Config | Result | What it shows |
|---|---|---|---|
| `raw_batch` | `MCExtractRaw.cfg` | pass, about 2.3k states | Checks `TypeOK`, `OutputMatchesEngine` (the dimension and maximum-value laws of spec 8), `CleanRunLeavesNoTruncatedFile` and `ImplementsBatch` (the refinement of `ExtractRawBatch`). |
| `raw_name_collision` | `MCExtractRaw_collide.cfg` | violation | Two inputs with basename `duck` write one `duck.pgm`, so the first input's data is lost (`EveryInputKeepsItsOutput`). |
| `raw_compressed_cfa` | `MCExtractRaw_compressed.cfg` | violation | A `COMPRESSED_CFA` RawData is written under a P5 header (`PgmHoldsSamples`). |
| `raw_browser_race` | `MCExtractRaw_browser.cfg` | violation | The first run hands `a.pgm` to the browser, then `b.nef` fails. The user reruns, and the rerun's `open(..., 'wb')` empties `a.pgm` before the browser loads it (`BrowserShowsWholeImages`). |
| `thumbs_same_width` | `MCExtractThumbs_twins.cfg` | violation | A RAW file holds a JPEG and an RGB pixmap, both 160x120. The width is listed twice, and the engine answers both requests with the same thumbnail. One thumbnail is written twice and the other never, against the `get_thumbnails` docstring and spec 4.2 (`EveryEmbeddedThumbnailExported`). |
| `thumbs_name_collision` | `MCExtractThumbs_collide.cfg` | violation | Two inputs with basename `duck`, each holding one 160x120 JPEG, both write `duck-160x120.jpe`. The first input's thumbnail is lost (`EveryEmbeddedThumbnailExported`). |
| `raw_byte_order` | `MCExtractRaw_byteorder.cfg` | violation | The engine's 14-bit buffer is in host order, least significant byte first. `cfa.py` writes it unchanged under `P5 3 2 16383`, so the image is not valid P5 (`PgmSamplesMostSignificantFirst`, spec 6). |
| `thumbs_suffix` | `MCExtractThumbs_suffix.cfg` | violation | With `.jpe`, the answer of CPython 2.7's `mimetypes` for `image/jpeg`, a JPEG thumbnail is written as `a-160x120.jpe`. Spec 4.3 names `.jpg` or `.jpeg` (`ThumbnailSuffixesConventional`). The abstract `ExtractThumbsBatch` shares the suffix table with the implementation, so this invariant is what checks the suffix against the spec. |
| `thumbs_batch` | `MCExtractThumbs.cfg` | pass, about 240k states | Checks `TypeOK`, `UnsupportedSkippedOthersExported` (spec 8's unsupported-type skip, in every order), `FailingRawFileExportsNothing` (spec 7's error policy and eager extraction), `CleanRunLeavesNoTruncatedThumbnail` (a rerun replaces the empty files a failed run left) and `ImplementsThumbBatch` (the refinement of `ExtractThumbsBatch`: the spec's names and containers, and what a failure on the j-th thumbnail leaves). The RAW files list either two distinct widths or one width twice. |
| `thumbs_browser_race` | `MCExtractThumbs_browser.cfg` | violation | A width listed twice: the second `open(..., 'wb')` empties the file the browser is about to load (`BrowserShowsWholeFiles`). |

Every property of a passing run has a mutant in `PROJECT.json`. Each mutant is a plausible bug: a maximum value off by one, a missing data write, a `break` for `continue`, an error swallowed and the loop carried on, a dropped guard, a thumbnail name with width and height swapped, a file closed without its write. TLC finds each mutant violating its property.

### Bounds

Each model has two inputs and at most two runs, which is enough for the following to happen:

- the second input failing after the first succeeded;
- a rerun over a truncated file, and a rerun racing the browser's load of a file from the first run;
- a collision between the two inputs;
- in the raw model, every failure point (open, decode, `open()`, each of the four writes).

The raw model uses depths of 8, 14 and 16 bits: 16 is the top of the P5 range, and 14 is the duck.cr2 scenario. Width 3 and height 2 differ, so swapped dimensions would show.

Each thumbnail RAW file lists two widths, either distinct (160 and 486) or the same one twice. Each distinct width can be JPEG, an RGB pixmap, an unsupported 16-bit pixmap, or a failure. That covers every order of supported, unsupported and failing thumbnails within a file. It also covers a failure while rewriting a file that the same run has already written whole. Width and height differ (160x120, 486x324), so a name with the two swapped would show.

### Fairness

`Spec` states weak fairness on the driver's own steps. The drivers are sequential programs, so an enabled step is eventually taken. No fairness is assumed of failures, of reruns, or of the browser. No liveness property is checked. Both drivers are `for` loops over finite lists, so once the engine calls return they terminate whatever the loop bodies do. Spec 5 says those calls block with no bound, and that is the only way either driver can hang. A model cannot say more about it than that assumption.

Deadlock checking is off in every configuration because the commands are batch programs that really do stop, at `done` or `failed`.

## 5. Not modelled

- **The engine's decoders and closest-width selection.** They are opaque by spec 4.2 and spec 9, and are represented only by their outcomes. Where two thumbnails share a width, `MCEngineFilesTwins` lets the engine return either one, fixed for the whole run.
- **`from_string`, `get_type` and `get_orientation`.** The drivers do not use them, and they change no state. `from_string` repeats `from_path` with `newRawFileFromMemory`, and the difference between the two (no extension to guess from) lies inside the engine.
- **A composed model of both drivers in one destination.** The drivers run one at a time, so nothing interleaves except the browser, which each model already includes. Their outputs cannot collide: a `.pgm` name and a `-WxH.ext` name never coincide, because no MIME suffix is `.pgm`.
- **A RECURSIVE reference check of the maximum value.** `2 ** bpc - 1` is exact in Python's unbounded integers. The only real edge is a depth outside 1..16, and that is the engine's to produce. The model's depths (8, 14 and 16) all give a maximum value in 1..65535, so no property states that range. A depth outside it would have to come from the engine (the binding's `setBpc(21)` test shows a Bitmap can carry one), and the engine contract gives no such depth for raw data.
- **Option parsing (`optparse`).** `-b` is the constant `OpenInBrowser` and `-d` is implicit. An empty argument list is excluded by `ASSUME`, because `parser.error` exits before any work is done.
- **The length of buffers.** Buffers are opaque identifiers. Only `MCEngineFilesByteOrder` gives a buffer one attribute, the byte order of its samples, and it can be either order, because the engine is not under `src/`.
- **Unit tests and `setup.py`.**
