----------------------------- MODULE ExtractRaw -----------------------------
(***************************************************************************)
(* The extract-raw driver, src/python/demo/cfa.py: for every RAW file on   *)
(* the command line, in order, open it, decode its raw data and write it   *)
(* to <destination>/<basename>.pgm as a P5 (single-channel) container,     *)
(* then optionally hand the path to the browser.  main() catches nothing:  *)
(* the first exception ends the process, leaving the file it was writing   *)
(* truncated.  The user may run the same command again.                    *)
(*                                                                         *)
(* An output file is modelled by the content the driver means to write     *)
(* (out) and the number of f.write calls that reached the disk (written):  *)
(* what a reader finds is the first `written` pieces of `out`.             *)
(***************************************************************************)
EXTENDS Naturals, Sequences, TLC, OpenRaw

CONSTANTS
  Args,          \* the RAW file paths given on the command line, in order
  BaseName,      \* path -> os.path.splitext(os.path.basename(path))[0]
  EngineFiles,   \* path -> the set of RAW files the engine may find there
  OpenInBrowser, \* the -b option
  MaxRuns        \* how many times the user runs the command

Paths == {Args[i] : i \in 1..Len(Args)}

ASSUME Len(Args) > 0                      \* else parser.error() exits first
ASSUME OpenInBrowser \in BOOLEAN
ASSUME MaxRuns \in Nat \ {0}

VARIABLES
  engine,   \* path -> the RAW file the engine finds at it (never changes)
  disk,     \* output name -> [out, written]
  pc,       \* where main() is: "start", "create", "write",
            \* "done" or "failed"
  idx,      \* index in Args of the file extract_raw_image is working on
  raw_data, \* the RawData returned by get_raw_data for Args[idx]
  tabs,     \* names handed to webbrowser.open_new not yet loaded
  loaded,   \* history: what the browser found, as [name, file]
  run,      \* how many times the command has been started
  prev      \* history: {what disk held under the current name before
            \* open(image_path, 'wb') truncated it}, {} if nothing (for
            \* the refinement)

vars == <<engine, disk, pc, idx, raw_data, tabs, loaded, run, prev>>

(* The output name extract_raw_image builds for a path.                    *)
ImagePath(p) == <<BaseName[p], ".pgm">>

(* Mutant: the maximum value written as 2 ** bits_per_channel.            *)
PgmMaxvalOffByOne(r) ==
  [magic |-> "P5", width |-> r.width, height |-> r.height,
   maxval |-> 2 ^ r.bits_per_channel, data |-> r.data]

(* What cfa.py writes for a RawData: 'P5', '<width> <height>', the maximum *)
(* value 2 ** bits_per_channel - 1 and the raw buffer, in four f.write     *)
(* calls.                                                                  *)
Pgm(r) == [magic |-> "P5", width |-> r.width, height |-> r.height,
           maxval |-> 2 ^ r.bits_per_channel - 1, data |-> r.data]

PgmWrites == 4

Complete(c) == c.written = PgmWrites

Current == ImagePath(Args[idx])

Init ==
  /\ engine \in {e \in [Paths -> UNION {EngineFiles[p] : p \in Paths}] :
                   \A p \in Paths : e[p] \in EngineFiles[p]}
  /\ disk = <<>>
  /\ pc = "start"
  /\ idx = 1
  /\ raw_data = NoValue
  /\ tabs = {}
  /\ loaded = {}
  /\ run = 1
  /\ prev = {}

(* Mutant: main() wraps extract_raw_image in try/except and goes on with   *)
(* the next input.                                                         *)
ExtractRawImageContinuing ==
  /\ pc = "start"
  /\ LET opened == from_path(engine[Args[idx]])
         decoded == get_raw_data(engine[Args[idx]])
     IN  IF opened.raised \/ decoded.raised
           THEN /\ pc' = IF idx = Len(Args) THEN "done" ELSE "start"
                /\ idx' = IF idx = Len(Args) THEN idx ELSE idx + 1
                /\ UNCHANGED raw_data
           ELSE pc' = "create" /\ raw_data' = decoded.value /\ idx' = idx
  /\ UNCHANGED <<engine, disk, tabs, loaded, run, prev>>

(* extract_raw_image up to the output path: RawFile.from_path and          *)
(* get_raw_data(OR_OPTIONS_NONE).  Either raise openraw.Error, which       *)
(* nothing catches.                                                        *)
ExtractRawImage ==
  /\ pc = "start"
  /\ LET opened == from_path(engine[Args[idx]])
         decoded == get_raw_data(engine[Args[idx]])
     IN  IF opened.raised \/ decoded.raised
           THEN pc' = "failed" /\ UNCHANGED raw_data
           ELSE pc' = "create" /\ raw_data' = decoded.value
  /\ UNCHANGED <<engine, disk, idx, tabs, loaded, run, prev>>

(* f = open(image_path, 'wb'): creates or truncates the output file.       *)
OpenImage ==
  /\ pc = "create"
  /\ prev' = IF Current \in DOMAIN disk THEN {disk[Current]} ELSE {}
  /\ disk' = (Current :> [out |-> Pgm(raw_data), written |-> 0]) @@ disk
  /\ pc' = "write"
  /\ UNCHANGED <<engine, idx, raw_data, tabs, loaded, run>>

(* open() raises IOError (no destination directory, no permission).        *)
OpenImageFails ==
  /\ pc = "create"
  /\ pc' = "failed"
  /\ UNCHANGED <<engine, disk, idx, raw_data, tabs, loaded, run, prev>>

(* Mutant: the guard on the number of writes is gone.                     *)
WriteImageUnguarded ==
  /\ pc = "write"
  /\ disk' = [disk EXCEPT ![Current].written = @ + 1]
  /\ UNCHANGED <<engine, pc, idx, raw_data, tabs, loaded, run, prev>>

(* The next of the four f.write calls reaches the disk.                    *)
WriteImage ==
  /\ pc = "write"
  /\ disk[Current].written < PgmWrites
  /\ disk' = [disk EXCEPT ![Current].written = @ + 1]
  /\ UNCHANGED <<engine, pc, idx, raw_data, tabs, loaded, run, prev>>

(* A write raises (disk full) or the process is killed while writing: the  *)
(* file keeps the pieces already written.                                  *)
WriteImageFails ==
  /\ pc = "write"
  /\ ~Complete(disk[Current])
  /\ pc' = "failed"
  /\ UNCHANGED <<engine, disk, idx, raw_data, tabs, loaded, run, prev>>

(* Mutant: the f.write of the raw buffer is missing.                       *)
CloseImageWithoutData ==
  /\ pc = "write"
  /\ disk[Current].written = PgmWrites - 1
  /\ tabs' = IF OpenInBrowser THEN tabs \cup {Current} ELSE tabs
  /\ pc' = IF idx = Len(Args) THEN "done" ELSE "start"
  /\ idx' = IF idx = Len(Args) THEN idx ELSE idx + 1
  /\ raw_data' = NoValue
  /\ prev' = {}
  /\ UNCHANGED <<engine, disk, loaded, run>>

(* f.close(), webbrowser.open_new(image_path) under -b, and the next turn  *)
(* of main()'s loop.                                                       *)
CloseImage ==
  /\ pc = "write"
  /\ Complete(disk[Current])
  /\ tabs' = IF OpenInBrowser THEN tabs \cup {Current} ELSE tabs
  /\ pc' = IF idx = Len(Args) THEN "done" ELSE "start"
  /\ idx' = IF idx = Len(Args) THEN idx ELSE idx + 1
  /\ raw_data' = NoValue
  /\ prev' = {}
  /\ UNCHANGED <<engine, disk, loaded, run>>

(* The user runs the same command again after it failed.                   *)
Rerun ==
  /\ pc = "failed"
  /\ run < MaxRuns
  /\ run' = run + 1
  /\ pc' = "start"
  /\ idx' = 1
  /\ raw_data' = NoValue
  /\ prev' = {}
  /\ UNCHANGED <<engine, disk, tabs, loaded>>

(* The browser, a separate process, loads a page it was handed by          *)
(* open_new, reading the file as it is now.                                *)
BrowserLoadsImage ==
  /\ \E n \in tabs :
       /\ tabs' = tabs \ {n}
       /\ loaded' = loaded \cup {[name |-> n, file |-> disk[n]]}
  /\ UNCHANGED <<engine, disk, pc, idx, raw_data, run, prev>>

Next ==
  \/ ExtractRawImage
  \/ OpenImage
  \/ OpenImageFails
  \/ WriteImage
  \/ WriteImageFails
  \/ CloseImage
  \/ Rerun
  \/ BrowserLoadsImage

(* main() runs its steps one after the other until it returns or raises;   *)
(* nothing is assumed of the browser.                                      *)
Fairness ==
  /\ WF_vars(ExtractRawImage)
  /\ WF_vars(OpenImage)
  /\ WF_vars(WriteImage)
  /\ WF_vars(CloseImage)

Spec == Init /\ [][Next]_vars /\ Fairness

-----------------------------------------------------------------------------
TypeOK ==
  /\ pc \in {"start", "create", "write", "done", "failed"}
  /\ idx \in 1..Len(Args)
  /\ \A n \in DOMAIN disk :
       /\ n \in {ImagePath(p) : p \in Paths}
       /\ disk[n].written \in 0..PgmWrites
  /\ tabs \subseteq DOMAIN disk
  /\ run \in 1..MaxRuns

(* The maximum-value and dimension laws of spec 8: every output file holds *)
(* the P5 encoding of the raw data the engine decoded for an input with    *)
(* that name: its header repeats the RawData's width and height, its       *)
(* maximum value is 2^bits_per_channel - 1 (never the RawData's own max),  *)
(* and its body is the engine's buffer.                                    *)
OutputMatchesEngine ==
  \A n \in DOMAIN disk : \E p \in Paths :
     LET r == get_raw_data(engine[p]).value IN
     /\ n = ImagePath(p)
     /\ ~get_raw_data(engine[p]).raised
     /\ disk[n].out.width = r.width /\ disk[n].out.height = r.height
     /\ disk[n].out.maxval = 2 ^ r.bits_per_channel - 1
     /\ disk[n].out.data = r.data

(* A command that runs to the end leaves no truncated .pgm behind, even    *)
(* when an earlier run was killed or hit an I/O error half-way through a   *)
(* file: the rerun reopens every output with 'wb' and writes it whole.     *)
CleanRunLeavesNoTruncatedFile ==
  pc = "done" => \A n \in DOMAIN disk : Complete(disk[n])

(* Spec 4.4 and the duck.cr2 scenario of spec 8: once the command has     *)
(* run to the end, every input has an output file holding exactly the      *)
(* buffer the engine returned for it.                                      *)
EveryInputKeepsItsOutput ==
  pc = "done" =>
    \A i \in 1..Len(Args) :
      /\ ImagePath(Args[i]) \in DOMAIN disk
      /\ disk[ImagePath(Args[i])].out.data =
           get_raw_data(engine[Args[i]]).value.data

(* Spec 6: a P5 container holds raw binary samples, so every .pgm written  *)
(* holds a buffer the engine returned as (uncompressed) CFA samples.       *)
PgmHoldsSamples ==
  \A n \in DOMAIN disk : \A p \in Paths :
     (~get_raw_data(engine[p]).raised
        /\ get_raw_data(engine[p]).value.data = disk[n].out.data)
       => get_raw_data(engine[p]).value.data_type = OR_DATA_TYPE_CFA

(* Spec 6: a P5 body whose maximum value exceeds 255 holds two-byte        *)
(* samples, most significant byte first.  cfa.py writes raw_data.get_data() *)
(* as it is, in whatever byte order the engine's buffer has.               *)
PgmSamplesMostSignificantFirst ==
  \A n \in DOMAIN disk :
    disk[n].out.maxval > 255 => disk[n].out.data.order = "msb"

(* What a user of -b expects of webbrowser.open_new: every image the       *)
(* browser loads is a whole .pgm.                                          *)
BrowserShowsWholeImages == \A l \in loaded : Complete(l.file)

(* The file the abstract view shows: while an output is being written the  *)
(* abstract command has not yet reached it, so it still shows what the     *)
(* disk held under that name before open(..., 'wb').                       *)
Visible ==
  IF pc # "write" THEN disk
  ELSE IF prev = {} THEN [n \in DOMAIN disk \ {Current} |-> disk[n]]
  ELSE [disk EXCEPT ![Current] = CHOOSE c \in prev : TRUE]

Batch == INSTANCE ExtractRawBatch WITH
  Name <- ImagePath,
  Encode <- Pgm,
  files <- [n \in DOMAIN Visible |->
              [out |-> Visible[n].out, whole |-> Complete(Visible[n])]],
  status <- IF pc \in {"done", "failed"} THEN pc ELSE "running",
  next <- idx,
  runs <- run

(* cfa.py implements the batch contract of ExtractRawBatch: inputs in      *)
(* order, one whole file per decoded input, stop at the first failure      *)
(* with at most that input's file truncated.                               *)
ImplementsBatch == Batch!Spec
=============================================================================
