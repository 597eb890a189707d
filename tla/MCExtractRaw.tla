---------------------------- MODULE MCExtractRaw ----------------------------
(***************************************************************************)
(* Model of `cfa.py -b a.cr2 b.nef` run up to twice by the user.  Each     *)
(* input may fail to open, fail to decode or decode to a 3x2 CFA plane of  *)
(* 8, 14 or 16 bits per channel whose buffer is told apart by its path.    *)
(***************************************************************************)
EXTENDS ExtractRaw

MCArgs == <<"a.cr2", "b.nef">>

\* distinct basenames: every input has its own output file
MCBaseName == [p \in {"a.cr2", "b.nef"} |-> IF p = "a.cr2" THEN "a" ELSE "b"]

\* two inputs with the same basename, e.g. shoot1/duck.cr2 and shoot2/duck.cr2
MCCollidingBaseName == [p \in {"a.cr2", "b.nef"} |-> "duck"]

MCDepths == {8, 14, 16}

RawOutcomes(p, Types) ==
  {[code |-> "OR_ERROR_NOT_FOUND", bitmap |-> NoValue]} \cup
  {[code |-> OR_ERROR_NONE, bitmap |-> b] :
      b \in Bitmap(Types, {3}, {2}, MCDepths, {p})}

FilesFor(p, Types) ==
  {[opens |-> FALSE, widths |-> <<>>, thumb |-> <<>>,
    raw |-> [code |-> "OR_ERROR_CANT_OPEN", bitmap |-> NoValue]]} \cup
  {[opens |-> TRUE, widths |-> <<>>, thumb |-> <<>>, raw |-> o] :
      o \in RawOutcomes(p, Types)}

\* getRawData(OR_OPTIONS_NONE) hands back decompressed CFA samples
MCEngineFiles == [p \in {"a.cr2", "b.nef"} |-> FilesFor(p, {OR_DATA_TYPE_CFA})]

\* the engine may also hand back the still-compressed CFA stream
MCEngineFilesCompressed ==
  [p \in {"a.cr2", "b.nef"} |->
     FilesFor(p, {OR_DATA_TYPE_CFA, OR_DATA_TYPE_COMPRESSED_CFA})]
\* a buffer of 16-bit samples records the byte order the engine laid them
\* out in: most significant byte first, or the host's order, least
\* significant first on the usual little-endian build
MCEngineFilesByteOrder ==
  [p \in {"a.cr2", "b.nef"} |->
     {[opens |-> TRUE, widths |-> <<>>, thumb |-> <<>>,
       raw |-> [code |-> OR_ERROR_NONE, bitmap |-> b]] :
        b \in Bitmap({OR_DATA_TYPE_CFA}, {3}, {2}, MCDepths,
                     {[from |-> p, order |-> o] : o \in {"msb", "lsb"}})}]
=============================================================================
