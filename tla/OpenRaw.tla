------------------------------ MODULE OpenRaw ------------------------------
(***************************************************************************)
(* The openraw Python facade (src/python/openraw/__init__.py) over the     *)
(* native _openraw engine.                                                 *)
(*                                                                         *)
(* The facade keeps no state of its own beyond the engine handle it wraps, *)
(* so its calls are operators that the driver modules use inside their     *)
(* actions.  A Python call that returns a value or raises is modelled as a *)
(* record [raised, code, value]: raised is TRUE when the call raises       *)
(* openraw.Error, code is the or_error code the Error carries (NoCode for  *)
(* Error() with no code), value is what the call returns otherwise.        *)
(*                                                                         *)
(* The engine itself is not under src/: a RAW file, as the engine sees it, *)
(* is a record                                                             *)
(*   [opens  : BOOLEAN,            newRawFile returns a handle             *)
(*    widths : Seq(Nat),           what listThumbnailSizes reports         *)
(*    thumb  : [widths -> Outcome] what getThumbnail(w, t) leaves          *)
(*    raw    : Outcome]            what getRawData(r, options) leaves      *)
(* and, where a model needs it, embedded : Seq(Bitmap), the thumbnails the *)
(* file holds, one per width listThumbnailSizes reports.                   *)
(* with Outcome == [code, bitmap]: the error code the engine returns and   *)
(* the bitmap it filled in.  thumb is a function of the width, so the      *)
(* engine's choice of the closest thumbnail is deterministic (spec 4.2).   *)
(***************************************************************************)
EXTENDS Naturals, Sequences, SequencesExt

(* or_error codes and DataType constants of the _openraw binding.          *)
OR_ERROR_NONE == "OR_ERROR_NONE"
NoCode == "NoCode"

OR_DATA_TYPE_JPEG == "JPEG"
OR_DATA_TYPE_TIFF == "TIFF"
OR_DATA_TYPE_PNG == "PNG"
OR_DATA_TYPE_PIXMAP_8RGB == "PIXMAP_8RGB"
OR_DATA_TYPE_CFA == "CFA"
OR_DATA_TYPE_COMPRESSED_CFA == "COMPRESSED_CFA"

(* The process-wide table from compressed data types to MIME types.        *)
DATATYPE_TO_MIMETYPE ==
  [t \in {OR_DATA_TYPE_JPEG, OR_DATA_TYPE_TIFF, OR_DATA_TYPE_PNG} |->
     CASE t = OR_DATA_TYPE_JPEG -> "image/jpeg"
       [] t = OR_DATA_TYPE_TIFF -> "image/tiff"
       [] t = OR_DATA_TYPE_PNG  -> "image/png"]

(* A Bitmap, as its getters expose it: get_data_type, get_width,           *)
(* get_height, get_bits_per_channel and get_data (an opaque buffer id).    *)
Bitmap(Types, Widths, Heights, Depths, Buffers) ==
  [data_type : Types, width : Widths, height : Heights,
   bits_per_channel : Depths, data : Buffers]

NoValue == "NoValue"

Returns(v) == [raised |-> FALSE, code |-> OR_ERROR_NONE, value |-> v]
Raises(c) == [raised |-> TRUE, code |-> c, value |-> NoValue]

(* RawFile.from_path: Error() when newRawFile returns None.               *)
from_path(f) == IF f.opens THEN Returns(f) ELSE Raises(NoCode)

(* RawFile.get_thumbnail: Error(error) unless the engine returned          *)
(* OR_ERROR_NONE, the filled-in Thumbnail otherwise.                       *)
get_thumbnail(f, requested_width) ==
  IF f.thumb[requested_width].code # OR_ERROR_NONE
    THEN Raises(f.thumb[requested_width].code)
    ELSE Returns(f.thumb[requested_width].bitmap)

(* Mutant: get_thumbnails leaves out the widths whose extraction fails.    *)
get_thumbnails_skipping_errors(f) ==
  LET calls == [i \in 1..Len(f.widths) |-> get_thumbnail(f, f.widths[i])]
      kept == SelectSeq(calls, LAMBDA c : ~c.raised)
  IN  Returns([i \in 1..Len(kept) |-> kept[i].value])

(* RawFile.get_thumbnails: the list comprehension calls get_thumbnail for  *)
(* every reported width, in order; the first call that raises propagates  *)
(* and the thumbnails extracted before it are dropped.                     *)
get_thumbnails(f) ==
  LET calls == [i \in 1..Len(f.widths) |-> get_thumbnail(f, f.widths[i])]
      first == SelectInSeq(calls, LAMBDA c : c.raised)
  IN  IF first # 0 THEN calls[first]
                   ELSE Returns([i \in 1..Len(calls) |-> calls[i].value])

(* RawFile.get_raw_data, with the same error convention.                   *)
get_raw_data(f) ==
  IF f.raw.code # OR_ERROR_NONE THEN Raises(f.raw.code)
                                ELSE Returns(f.raw.bitmap)
=============================================================================
