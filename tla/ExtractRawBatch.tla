--------------------------- MODULE ExtractRawBatch ---------------------------
(***************************************************************************)
(* What the extract-raw command promises (spec 4.4, 5 and 7), one step per *)
(* input file: the inputs are taken in command-line order; an input that   *)
(* opens and decodes gets a whole output file holding its encoded raw      *)
(* data; the first input that fails ends the command, and the only output  *)
(* it may leave behind is a truncated file for that input.  The user may   *)
(* run the command again, which starts over from the first input.          *)
(***************************************************************************)
EXTENDS Naturals, Sequences, TLC, OpenRaw

CONSTANTS
  Args,        \* the input paths, in order
  EngineFiles, \* path -> the RAW files the engine may find there
  MaxRuns,     \* how many times the command is run
  Name(_),     \* path -> output file name
  Encode(_)    \* RawData -> file content

Paths == {Args[i] : i \in 1..Len(Args)}

VARIABLES
  engine, \* path -> RAW file (never changes)
  files,  \* output name -> [out, whole]
  status, \* "running", "done" or "failed"
  next,   \* index in Args of the input to convert next
  runs    \* how many times the command has been started

avars == <<engine, files, status, next, runs>>

Init ==
  /\ engine \in {e \in [Paths -> UNION {EngineFiles[p] : p \in Paths}] :
                   \A p \in Paths : e[p] \in EngineFiles[p]}
  /\ files = <<>>
  /\ status = "running"
  /\ next = 1
  /\ runs = 1

Decoded(p) == ~from_path(engine[p]).raised /\ ~get_raw_data(engine[p]).raised

Output(p, whole) == [out |-> Encode(get_raw_data(engine[p]).value),
                     whole |-> whole]

(* The next input is converted, whole.                                     *)
Convert ==
  LET p == Args[next] IN
  /\ status = "running"
  /\ Decoded(p)
  /\ files' = (Name(p) :> Output(p, TRUE)) @@ files
  /\ status' = IF next = Len(Args) THEN "done" ELSE "running"
  /\ next' = IF next = Len(Args) THEN next ELSE next + 1
  /\ UNCHANGED <<engine, runs>>

(* The next input fails: the command ends, leaving the files as they were  *)
(* or, if the input decoded, a truncated output for it.                    *)
Stop ==
  LET p == Args[next] IN
  /\ status = "running"
  /\ status' = "failed"
  /\ \/ files' = files
     \/ Decoded(p) /\ files' = (Name(p) :> Output(p, FALSE)) @@ files
  /\ UNCHANGED <<engine, next, runs>>

Restart ==
  /\ status = "failed"
  /\ runs < MaxRuns
  /\ runs' = runs + 1
  /\ status' = "running"
  /\ next' = 1
  /\ UNCHANGED <<engine, files>>

Next == Convert \/ Stop \/ Restart

Spec == Init /\ [][Next]_avars
=============================================================================
