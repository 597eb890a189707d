-------------------------- MODULE ExtractThumbsBatch --------------------------
(***************************************************************************)
(* What the extract-thumbnails command promises (spec 4.3, 4.4 and 7), one *)
(* step per RAW file: the files are taken in command-line order; a file    *)
(* that opens and whose listed thumbnails all extract gets, in list order, *)
(* one whole output per exportable thumbnail, named                        *)
(* <basename>-<width>x<height><suffix>, and one diagnostic per thumbnail   *)
(* of an unsupported type.  The first failure ends the command: if it hits *)
(* the j-th thumbnail, the thumbnails before it are exported and reported  *)
(* and the j-th output is left absent or truncated; if the RAW file does   *)
(* not open or a thumbnail does not extract, nothing of that file is       *)
(* written.  The user may run the command again.                          *)
(***************************************************************************)
EXTENDS Naturals, Sequences, SequencesExt, OpenRaw

CONSTANTS
  Args,           \* the input paths, in order
  BaseName,       \* path -> basename without extension
  EngineFiles,    \* path -> the RAW files the engine may find there
  GuessExtension, \* MIME type -> the one suffix used for it (spec 4.3 lets
                  \* the implementation pick one per MIME type)
  MaxRuns         \* how many times the command is run

Paths == {Args[i] : i \in 1..Len(Args)}

VARIABLES
  engine, \* path -> RAW file (never changes)
  files,  \* output name -> [out, written]
  log,    \* the diagnostics, as [run, input, at]
  status, \* "running", "done" or "failed"
  next,   \* index in Args of the RAW file to process next
  runs    \* how many times the command has been started

avars == <<engine, files, log, status, next, runs>>

(* Spec 4.3: the container and suffix of a thumbnail.                      *)
Exportable(t) ==
  t.data_type = OR_DATA_TYPE_PIXMAP_8RGB
    \/ t.data_type \in DOMAIN DATATYPE_TO_MIMETYPE

Suffix(t) ==
  IF t.data_type = OR_DATA_TYPE_PIXMAP_8RGB THEN ".ppm"
  ELSE GuessExtension[DATATYPE_TO_MIMETYPE[t.data_type]]

Encode(t) ==
  IF t.data_type = OR_DATA_TYPE_PIXMAP_8RGB
    THEN [magic |-> "P6", width |-> t.width, height |-> t.height,
          maxval |-> 255, data |-> t.data]
    ELSE [magic |-> "", width |-> 0, height |-> 0, maxval |-> 0,
          data |-> t.data]

Name(p, t) == <<BaseName[p], t.width, t.height, Suffix(t)>>

(* The RAW file at p opens and every listed width extracts.                *)
Extracted(p) ==
  /\ ~from_path(engine[p]).raised
  /\ \A i \in 1..Len(engine[p].widths) :
       ~get_thumbnail(engine[p], engine[p].widths[i]).raised

Thumbs(p) ==
  [i \in 1..Len(engine[p].widths) |->
     get_thumbnail(engine[p], engine[p].widths[i]).value]

(* fs after exporting the thumbnails ts of p in order, each whole.         *)
Export(fs, p, ts) ==
  LET put(acc, t) ==
        IF Exportable(t)
          THEN (Name(p, t) :> [out |-> Encode(t), written |-> 1]) @@ acc
          ELSE acc
  IN  FoldLeft(put, fs, ts)

(* The diagnostics for the unsupported thumbnails among the first n of ts. *)
Diags(r, i, ts, n) ==
  LET at == SelectSeq([j \in 1..n |-> j], LAMBDA j : ~Exportable(ts[j]))
  IN  [m \in 1..Len(at) |-> [run |-> r, input |-> i, at |-> at[m]]]

Init ==
  /\ engine \in {e \in [Paths -> UNION {EngineFiles[p] : p \in Paths}] :
                   \A p \in Paths : e[p] \in EngineFiles[p]}
  /\ files = <<>>
  /\ log = <<>>
  /\ status = "running"
  /\ next = 1
  /\ runs = 1

(* The next RAW file is processed completely.                              *)
Convert ==
  LET p == Args[next] IN
  /\ status = "running"
  /\ Extracted(p)
  /\ files' = Export(files, p, Thumbs(p))
  /\ log' = log \o Diags(runs, next, Thumbs(p), Len(Thumbs(p)))
  /\ status' = IF next = Len(Args) THEN "done" ELSE "running"
  /\ next' = IF next = Len(Args) THEN next ELSE next + 1
  /\ UNCHANGED <<engine, runs>>

(* The command fails on the next RAW file: before anything of it is        *)
(* written, or while writing its j-th thumbnail.                           *)
Stop ==
  LET p == Args[next]
      ts == Thumbs(p)
  IN
  /\ status = "running"
  /\ status' = "failed"
  /\ \/ UNCHANGED <<files, log>>
     \/ \E j \in 1..Len(ts) :
          LET done == Export(files, p, SubSeq(ts, 1, j - 1)) IN
          /\ Extracted(p)
          /\ Exportable(ts[j])
          /\ log' = log \o Diags(runs, next, ts, j - 1)
          /\ \/ files' = done
             \/ files' = (Name(p, ts[j]) :> [out |-> Encode(ts[j]),
                                            written |-> 0]) @@ done
  /\ UNCHANGED <<engine, next, runs>>

Restart ==
  /\ status = "failed"
  /\ runs < MaxRuns
  /\ runs' = runs + 1
  /\ status' = "running"
  /\ next' = 1
  /\ UNCHANGED <<engine, files, log>>

Next == Convert \/ Stop \/ Restart

Spec == Init /\ [][Next]_avars
==============================================================================
