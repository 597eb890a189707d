--------------------------- MODULE MCExtractThumbs ---------------------------
(***************************************************************************)
(* Model of `thumb.py -b a.cr2 b.nef`, run up to twice.  A RAW file may    *)
(* fail to open, or list thumbnail widths; for each distinct width the     *)
(* engine either fails or returns a thumbnail of that width whose data     *)
(* type is JPEG, an 8-bit RGB pixmap, or a 16-bit RGB pixmap (a type the   *)
(* facade's MIME table does not cover).  A thumbnail's buffer is told      *)
(* apart by its path and width.                                            *)
(***************************************************************************)
EXTENDS ExtractThumbs

MCArgs == <<"a.cr2", "b.nef">>

MCBaseName == [p \in {"a.cr2", "b.nef"} |-> IF p = "a.cr2" THEN "a" ELSE "b"]

\* what mimetypes.guess_extension(m, strict=False) answers on CPython 2.7
\* with its built-in table: the first of the type's extensions in the
\* table's dict order, '.jpe' for JPEG (a host's mime.types may change it)
MCGuessExtension ==
  [m \in {"image/jpeg", "image/tiff", "image/png"} |->
     CASE m = "image/jpeg" -> ".jpe"
       [] m = "image/tiff" -> ".tif"
       [] m = "image/png"  -> ".png"]

OR_DATA_TYPE_PIXMAP_16RGB == "PIXMAP_16RGB"

Height(w) == IF w = 160 THEN 120 ELSE 324

\* what getThumbnail(w, t) does: fail, or fill t with a thumbnail of kind
Outcome(p, w, kind) ==
  IF kind = "error" THEN [code |-> "OR_ERROR_NOT_FOUND", bitmap |-> NoValue]
  ELSE [code |-> OR_ERROR_NONE,
        bitmap |-> [data_type |-> kind, width |-> w, height |-> Height(w),
                    bits_per_channel |-> 8, data |-> <<p, w>>]]

Kinds == {"error", OR_DATA_TYPE_JPEG, OR_DATA_TYPE_PIXMAP_8RGB,
          OR_DATA_TYPE_PIXMAP_16RGB}

FilesFor(p, WidthLists) ==
  {[opens |-> FALSE, widths |-> <<>>, thumb |-> <<>>,
    raw |-> [code |-> "OR_ERROR_CANT_OPEN", bitmap |-> NoValue]]} \cup
  UNION {{[opens |-> TRUE, widths |-> ws,
           thumb |-> [w \in ToSet(ws) |-> Outcome(p, w, kinds[w])],
           raw |-> [code |-> "OR_ERROR_NOT_FOUND", bitmap |-> NoValue]] :
            kinds \in [ToSet(ws) -> Kinds]} : ws \in WidthLists}

\* listThumbnailSizes reports two distinct widths, or one width twice
\* (spec 3 and 4.2 allow duplicates, which are extracted twice)
MCEngineFilesMixed ==
  [p \in {"a.cr2", "b.nef"} |-> FilesFor(p, {<<160, 486>>, <<160, 160>>})]

\* listThumbnailSizes reports the same width twice (spec 3 allows it)
MCEngineFilesDuplicates ==
  [p \in {"a.cr2", "b.nef"} |-> FilesFor(p, {<<160, 160>>})]
\* a RAW file holding a JPEG and an RGB pixmap of the same size: the
\* engine lists the width twice and, for that width, deterministically
\* returns one of the two (which one is its own choice, spec 4.2)
Twins(p) ==
  <<[data_type |-> OR_DATA_TYPE_JPEG, width |-> 160, height |-> 120,
     bits_per_channel |-> 8, data |-> <<p, 1>>],
    [data_type |-> OR_DATA_TYPE_PIXMAP_8RGB, width |-> 160, height |-> 120,
     bits_per_channel |-> 8, data |-> <<p, 2>>]>>

MCEngineFilesTwins ==
  [p \in {"a.cr2", "b.nef"} |->
     {[opens |-> TRUE, widths |-> <<160, 160>>, embedded |-> Twins(p),
       thumb |-> (160 :> [code |-> OR_ERROR_NONE, bitmap |-> Twins(p)[i]]),
       raw |-> [code |-> "OR_ERROR_NOT_FOUND", bitmap |-> NoValue]] :
        i \in 1..2}]
\* two inputs in different directories with one basename
MCCollidingBaseName == [p \in {"a.cr2", "b.nef"} |-> "duck"]

\* a RAW file holding one JPEG thumbnail, 160x120
MCEngineFilesOneJpeg ==
  [p \in {"a.cr2", "b.nef"} |->
     LET t == [data_type |-> OR_DATA_TYPE_JPEG, width |-> 160, height |-> 120,
               bits_per_channel |-> 8, data |-> <<p, 1>>]
     IN  {[opens |-> TRUE, widths |-> <<160>>, embedded |-> <<t>>,
           thumb |-> (160 :> [code |-> OR_ERROR_NONE, bitmap |-> t]),
           raw |-> [code |-> "OR_ERROR_NOT_FOUND", bitmap |-> NoValue]]}]
=============================================================================
