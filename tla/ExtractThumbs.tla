---------------------------- MODULE ExtractThumbs ----------------------------
(***************************************************************************)
(* The extract-thumbnails driver, src/python/demo/thumb.py.  For every RAW *)
(* file on the command line, in order, extract_thumbnails opens it, asks   *)
(* the facade for all its thumbnails at once (get_thumbnails), then walks  *)
(* them: an 8-bit RGB pixmap is written as a P6 container, a JPEG, TIFF or *)
(* PNG thumbnail is written as is, anything else is reported on stderr and *)
(* skipped.  Each file is <destination>/<base>-<w>x<h><ext>, written with  *)
(* one f.write, and under -b handed to webbrowser.open_new_tab.  main()    *)
(* catches nothing.  The browser is a separate process: it loads a tab     *)
(* whenever it gets to it, while the driver goes on writing files.         *)
(***************************************************************************)
EXTENDS Naturals, Sequences, FiniteSets, TLC, OpenRaw

CONSTANTS
  Args,           \* the RAW file paths given on the command line, in order
  BaseName,       \* path -> os.path.splitext(os.path.basename(path))[0]
  EngineFiles,    \* path -> the set of RAW files the engine may find there
  GuessExtension, \* MIME type -> mimetypes.guess_extension(m, strict=False)
  OpenInBrowser,  \* the -b option
  MaxRuns         \* how many times the user runs the command

Paths == {Args[i] : i \in 1..Len(Args)}

ASSUME Len(Args) > 0                      \* else parser.error() exits first
ASSUME OpenInBrowser \in BOOLEAN
ASSUME MaxRuns \in Nat \ {0}
ASSUME DOMAIN GuessExtension = Range(DATATYPE_TO_MIMETYPE)

VARIABLES
  engine,     \* path -> the RAW file the engine finds at it (never changes)
  disk,       \* output name -> [out, written]
  pc,         \* "start", "next", "create", "write", "done" or "failed"
  idx,        \* index in Args of the RAW file being processed
  thumbnails, \* what get_thumbnails returned for Args[idx]
  k,          \* index in thumbnails of the loop's current thumbnail
  target,     \* [name, out]: the file the loop body is about to write
  stderr,     \* the 'Cannot extract thumbnail' lines, as [run, input, at]
  tabs,       \* names handed to open_new_tab the browser has not loaded
  loaded,     \* history: what the browser found, as [name, file]
  run,        \* how many times the command has been started
  before      \* history: [disk, stderr] when the current RAW file's loop
              \* began; used only by the refinement mapping

vars == <<engine, disk, pc, idx, thumbnails, k, target, stderr, tabs,
          loaded, run, before>>

NoTarget == [name |-> <<>>, out |-> NoValue]

(* Mutant: the name's width and height are given in the wrong order.      *)
ThumbnailNameSwapped(p, t, extension) ==
  <<BaseName[p], t.height, t.width, extension>>

(* The name thumb.py gives a thumbnail of the RAW file at p.               *)
ThumbnailName(p, t, extension) ==
  <<BaseName[p], t.width, t.height, extension>>

(* write_rgb8pixmap_to_stream: 'P6', '<width> <height>', '255' and the     *)
(* pixel bytes, gathered in a StringIO and written with one f.write.       *)
write_rgb8pixmap_to_stream(t) ==
  [magic |-> "P6", width |-> t.width, height |-> t.height, maxval |-> 255,
   data |-> t.data]

(* A JPEG, TIFF or PNG thumbnail is written as the bytes the engine gave.  *)
PassThrough(t) ==
  [magic |-> "", width |-> 0, height |-> 0, maxval |-> 0, data |-> t.data]

Whole(f) == f.written = 1

Current == thumbnails[k]

Init ==
  /\ engine \in {e \in [Paths -> UNION {EngineFiles[p] : p \in Paths}] :
                   \A p \in Paths : e[p] \in EngineFiles[p]}
  /\ disk = <<>>
  /\ pc = "start"
  /\ idx = 1
  /\ thumbnails = <<>>
  /\ k = 1
  /\ target = NoTarget
  /\ stderr = <<>>
  /\ tabs = {}
  /\ loaded = {}
  /\ run = 1
  /\ before = [disk |-> <<>>, stderr |-> <<>>]

(* extract_thumbnails up to its loop: RawFile.from_path and                *)
(* get_thumbnails, either of which may raise openraw.Error.                *)
ExtractThumbnails ==
  /\ pc = "start"
  /\ LET opened == from_path(engine[Args[idx]])
         all == get_thumbnails(engine[Args[idx]])
     IN  IF opened.raised \/ all.raised
           THEN pc' = "failed" /\ UNCHANGED <<thumbnails, k, before>>
           ELSE /\ pc' = "next"
                /\ thumbnails' = all.value
                /\ k' = 1
                /\ before' = [disk |-> disk, stderr |-> stderr]
  /\ UNCHANGED <<engine, disk, idx, target, stderr, tabs, loaded, run>>

(* The loop has run out of thumbnails: main() moves to the next file.      *)
NextRawFile ==
  /\ pc = "next"
  /\ k > Len(thumbnails)
  /\ pc' = IF idx = Len(Args) THEN "done" ELSE "start"
  /\ idx' = IF idx = Len(Args) THEN idx ELSE idx + 1
  /\ UNCHANGED <<engine, disk, thumbnails, k, target, stderr, tabs, loaded,
                 run, before>>

(* An OR_DATA_TYPE_PIXMAP_8RGB thumbnail: encoded as P6, suffix '.ppm'.     *)
EncodePixmap ==
  /\ pc = "next"
  /\ k <= Len(thumbnails)
  /\ Current.data_type = OR_DATA_TYPE_PIXMAP_8RGB
  /\ target' = [name |-> ThumbnailName(Args[idx], Current, ".ppm"),
                out |-> write_rgb8pixmap_to_stream(Current)]
  /\ pc' = "create"
  /\ UNCHANGED <<engine, disk, idx, thumbnails, k, stderr, tabs, loaded, run,
                 before>>

(* A thumbnail whose data type DATATYPE_TO_MIMETYPE maps: its own bytes,   *)
(* suffix guessed from the MIME type.                                      *)
PassThroughByMimeType ==
  /\ pc = "next"
  /\ k <= Len(thumbnails)
  /\ Current.data_type # OR_DATA_TYPE_PIXMAP_8RGB
  /\ Current.data_type \in DOMAIN DATATYPE_TO_MIMETYPE
  /\ target' =
       [name |-> ThumbnailName(Args[idx], Current,
                   GuessExtension[DATATYPE_TO_MIMETYPE[Current.data_type]]),
        out |-> PassThrough(Current)]
  /\ pc' = "create"
  /\ UNCHANGED <<engine, disk, idx, thumbnails, k, stderr, tabs, loaded, run,
                 before>>

(* Mutant: the KeyError branch uses `break` where thumb.py has `continue`. *)
SkipUnsupportedBreaking ==
  /\ pc = "next"
  /\ k <= Len(thumbnails)
  /\ Current.data_type # OR_DATA_TYPE_PIXMAP_8RGB
  /\ Current.data_type \notin DOMAIN DATATYPE_TO_MIMETYPE
  /\ stderr' = Append(stderr, [run |-> run, input |-> idx, at |-> k])
  /\ k' = Len(thumbnails) + 1
  /\ UNCHANGED <<engine, disk, pc, idx, thumbnails, target, tabs, loaded,
                 run, before>>

(* Mutant: the KeyError branch steps over the following thumbnail too.    *)
SkipUnsupportedTwice ==
  /\ pc = "next"
  /\ k <= Len(thumbnails)
  /\ Current.data_type # OR_DATA_TYPE_PIXMAP_8RGB
  /\ Current.data_type \notin DOMAIN DATATYPE_TO_MIMETYPE
  /\ stderr' = Append(stderr, [run |-> run, input |-> idx, at |-> k])
  /\ k' = k + 2
  /\ UNCHANGED <<engine, disk, pc, idx, thumbnails, target, tabs, loaded,
                 run, before>>

(* KeyError: print 'Cannot extract thumbnail ...' to stderr and continue.  *)
SkipUnsupported ==
  /\ pc = "next"
  /\ k <= Len(thumbnails)
  /\ Current.data_type # OR_DATA_TYPE_PIXMAP_8RGB
  /\ Current.data_type \notin DOMAIN DATATYPE_TO_MIMETYPE
  /\ stderr' = Append(stderr, [run |-> run, input |-> idx, at |-> k])
  /\ k' = k + 1
  /\ UNCHANGED <<engine, disk, pc, idx, thumbnails, target, tabs, loaded,
                 run, before>>

(* f = open(thumbnail_path, 'wb'): creates or truncates the file.          *)
OpenThumbnail ==
  /\ pc = "create"
  /\ disk' = (target.name :> [out |-> target.out, written |-> 0]) @@ disk
  /\ pc' = "write"
  /\ UNCHANGED <<engine, idx, thumbnails, k, target, stderr, tabs, loaded,
                 run, before>>

(* open() raises IOError.                                                  *)
OpenThumbnailFails ==
  /\ pc = "create"
  /\ pc' = "failed"
  /\ UNCHANGED <<engine, disk, idx, thumbnails, k, target, stderr, tabs,
                 loaded, run, before>>

(* f.write(data) reaches the disk.                                         *)
WriteThumbnail ==
  /\ pc = "write"
  /\ ~Whole(disk[target.name])
  /\ disk' = [disk EXCEPT ![target.name].written = 1]
  /\ UNCHANGED <<engine, pc, idx, thumbnails, k, target, stderr, tabs,
                 loaded, run, before>>

(* f.write raises, or the process is killed, before the data is written.   *)
WriteThumbnailFails ==
  /\ pc = "write"
  /\ ~Whole(disk[target.name])
  /\ pc' = "failed"
  /\ UNCHANGED <<engine, disk, idx, thumbnails, k, target, stderr, tabs,
                 loaded, run, before>>

(* Mutant: the file is closed and the loop goes on without f.write.        *)
CloseThumbnailUnwritten ==
  /\ pc = "write"
  /\ tabs' = IF OpenInBrowser THEN tabs \cup {target.name} ELSE tabs
  /\ k' = k + 1
  /\ target' = NoTarget
  /\ pc' = "next"
  /\ UNCHANGED <<engine, disk, idx, thumbnails, stderr, loaded, run, before>>

(* f.close(), webbrowser.open_new_tab under -b, and the next thumbnail.    *)
CloseThumbnail ==
  /\ pc = "write"
  /\ Whole(disk[target.name])
  /\ tabs' = IF OpenInBrowser THEN tabs \cup {target.name} ELSE tabs
  /\ k' = k + 1
  /\ target' = NoTarget
  /\ pc' = "next"
  /\ UNCHANGED <<engine, disk, idx, thumbnails, stderr, loaded, run, before>>

(* The user runs the same command again after it failed.                   *)
Rerun ==
  /\ pc = "failed"
  /\ run < MaxRuns
  /\ run' = run + 1
  /\ pc' = "start"
  /\ idx' = 1
  /\ thumbnails' = <<>>
  /\ k' = 1
  /\ target' = NoTarget
  /\ UNCHANGED <<engine, disk, stderr, tabs, loaded, before>>

(* The browser loads a tab it was handed, reading the file as it is now.   *)
BrowserLoadsTab ==
  /\ \E n \in tabs :
       /\ tabs' = tabs \ {n}
       /\ loaded' = loaded \cup {[name |-> n, file |-> disk[n]]}
  /\ UNCHANGED <<engine, disk, pc, idx, thumbnails, k, target, stderr, run,
                 before>>

Next ==
  \/ ExtractThumbnails
  \/ NextRawFile
  \/ EncodePixmap
  \/ PassThroughByMimeType
  \/ SkipUnsupported
  \/ OpenThumbnail
  \/ OpenThumbnailFails
  \/ WriteThumbnail
  \/ WriteThumbnailFails
  \/ CloseThumbnail
  \/ Rerun
  \/ BrowserLoadsTab

(* main() runs its steps one after the other until it returns or raises;   *)
(* nothing is assumed of the browser.                                      *)
Fairness ==
  /\ WF_vars(ExtractThumbnails)
  /\ WF_vars(NextRawFile)
  /\ WF_vars(EncodePixmap)
  /\ WF_vars(PassThroughByMimeType)
  /\ WF_vars(SkipUnsupported)
  /\ WF_vars(OpenThumbnail)
  /\ WF_vars(WriteThumbnail)
  /\ WF_vars(CloseThumbnail)

Spec == Init /\ [][Next]_vars /\ Fairness

-----------------------------------------------------------------------------
TypeOK ==
  /\ pc \in {"start", "next", "create", "write", "done", "failed"}
  /\ idx \in 1..Len(Args)
  /\ k \in 1..Len(thumbnails) + 1
  /\ \A n \in DOMAIN disk : disk[n].written \in {0, 1}
  /\ tabs \subseteq DOMAIN disk
  /\ run \in 1..MaxRuns

(* A thumbnail the driver can export: an 8-bit RGB pixmap, or a data type  *)
(* with a MIME type.                                                       *)
Exportable(t) ==
  t.data_type = OR_DATA_TYPE_PIXMAP_8RGB
    \/ t.data_type \in DOMAIN DATATYPE_TO_MIMETYPE

(* The unsupported-type skip of spec 8: when the loop over a RAW file's    *)
(* thumbnails ends, each thumbnail it could not export got exactly one     *)
(* 'Cannot extract thumbnail' line in this run, each other one none, and   *)
(* each exportable one sits whole on disk with its own bytes, whatever     *)
(* order the supported and unsupported thumbnails came in.                 *)
UnsupportedSkippedOthersExported ==
  pc = "next" /\ k > Len(thumbnails) =>
    \A j \in 1..Len(thumbnails) :
      LET t == thumbnails[j]
          lines == {i \in DOMAIN stderr :
                      stderr[i] = [run |-> run, input |-> idx, at |-> j]}
      IN  IF Exportable(t)
            THEN /\ lines = {}
                 /\ \E n \in DOMAIN disk :
                      n[1] = BaseName[Args[idx]] /\ Whole(disk[n])
                        /\ disk[n].out.data = t.data
            ELSE Cardinality(lines) = 1

(* Spec 7: an ExtractionError aborts the whole RAW file.  A RAW file one   *)
(* of whose listed thumbnails the engine cannot extract never gets any     *)
(* thumbnail file, not even for the thumbnails extracted before the        *)
(* failing one: get_thumbnails extracts them all before the first write.   *)
FailingRawFileExportsNothing ==
  \A n \in DOMAIN disk : \A p \in Paths :
    n[1] = BaseName[p] =>
      \A i \in 1..Len(engine[p].widths) :
        ~get_thumbnail(engine[p], engine[p].widths[i]).raised

(* A command that runs to the end leaves no empty thumbnail file behind,   *)
(* even when an earlier run hit an I/O error or was killed between the     *)
(* open(thumbnail_path, 'wb') and the f.write of some thumbnail.           *)
CleanRunLeavesNoTruncatedThumbnail ==
  pc = "done" => \A n \in DOMAIN disk : Whole(disk[n])

(* What a user of -b expects: every tab the browser loads shows a whole    *)
(* thumbnail file.                                                         *)
BrowserShowsWholeFiles == \A l \in loaded : Whole(l.file)

(* The suffixes spec 4.3 allows for each data type the driver exports.     *)
SpecSuffixes ==
  [t \in {OR_DATA_TYPE_JPEG, OR_DATA_TYPE_TIFF, OR_DATA_TYPE_PNG,
          OR_DATA_TYPE_PIXMAP_8RGB} |->
     CASE t = OR_DATA_TYPE_JPEG -> {".jpg", ".jpeg"}
       [] t = OR_DATA_TYPE_TIFF -> {".tif", ".tiff"}
       [] t = OR_DATA_TYPE_PNG -> {".png"}
       [] t = OR_DATA_TYPE_PIXMAP_8RGB -> {".ppm"}]

(* Spec 4.3: a thumbnail file's suffix is one of the conventional ones for *)
(* its data type (.jpg or .jpeg for JPEG, .tif or .tiff for TIFF, .png,    *)
(* .ppm for the P6 container).  thumb.py takes whatever                    *)
(* mimetypes.guess_extension answers for the MIME type.                    *)
ThumbnailSuffixesConventional ==
  \A n \in DOMAIN disk : \A p \in Paths : \A i \in 1..Len(engine[p].widths) :
    LET c == get_thumbnail(engine[p], engine[p].widths[i]) IN
    (~c.raised /\ c.value.data = disk[n].out.data) =>
      n[4] \in SpecSuffixes[c.value.data_type]

(* The get_thumbnails docstring ("the list of contained thumbnails") and  *)
(* spec 4.2 (one call per listed width enumerates all thumbnails): once    *)
(* the command has run to the end, every thumbnail a RAW file holds whose  *)
(* type the driver can export is on disk, even when two of them share a    *)
(* width and the engine's closest match can return only one of them.      *)
EveryEmbeddedThumbnailExported ==
  pc = "done" =>
    \A p \in Paths : \A i \in DOMAIN engine[p].embedded :
      Exportable(engine[p].embedded[i]) =>
        \E n \in DOMAIN disk : disk[n].out.data = engine[p].embedded[i].data

-----------------------------------------------------------------------------
(* The abstract view: while the loop over a RAW file's thumbnails runs,    *)
(* the files and diagnostics are shown as they were when it began; the     *)
(* abstract step happens when the loop ends or the command fails.          *)
InLoop == pc \in {"next", "create", "write"}

Batch == INSTANCE ExtractThumbsBatch WITH
  files <- IF InLoop THEN before.disk ELSE disk,
  log <- IF InLoop THEN before.stderr ELSE stderr,
  status <- IF pc \in {"done", "failed"} THEN pc ELSE "running",
  next <- idx,
  runs <- run

(* thumb.py implements the per-RAW-file contract of spec 4.3, 4.4 and 7:   *)
(* each RAW file's exportable thumbnails are written whole under the       *)
(* spec's names and containers, its unsupported ones reported once each,   *)
(* and a failure leaves only a prefix of that file's outputs, the last     *)
(* possibly truncated, or nothing when extraction itself failed.           *)
ImplementsThumbBatch == Batch!Spec
=============================================================================
