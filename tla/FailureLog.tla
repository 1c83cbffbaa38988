------------------------------- MODULE FailureLog -------------------------------
(***************************************************************************)
(* The append-only log of rejected candidates: GenerationFailureWriter     *)
(* (corpus/failure_records.py).  One process writes it; the file survives  *)
(* the process.  A record is identified by the attempt it is about, and    *)
(* its bytes reach the file in one write or in several, so a process that  *)
(* dies or fails in between leaves a fragment without a newline.           *)
(*                                                                         *)
(* A record is written as it is and read back by splitlines, which ends a  *)
(* line not only at a newline: a line separator in the text of a record (a *)
(* message, a traceback) takes the whole record apart.                     *)
(***************************************************************************)
EXTENDS Integers, FiniteSets

CONSTANTS
  Records,    \* the identities a record can have (_failure_id)
  Nothing,    \* no fragment
  Garbage     \* a fragment, or a line, that is not JSON

ASSUME LogAssumption == Nothing \notin Records /\ Garbage \notin Records /\ Nothing # Garbage

VARIABLES
  lines,      \* how many lines that end in a newline hold a record, or none
  fragment,   \* what follows the last newline
  known,      \* _known_ids of the process
  written,    \* the append in progress: "no", "part" or "glued" bytes written
  separated   \* a record on file has a line separator in its text

log == << lines, fragment, known, written, separated >>

OnFile   == {r \in Records : lines[r] > 0 \/ fragment = r}

(* Every piece splitlines gives is JSON.                                   *)
Loads    == lines[Garbage] = 0 /\ fragment # Garbage /\ ~separated

LogInit ==
  /\ lines = [r \in Records \union {Garbage} |-> 0] /\ fragment = Nothing
  /\ known = {} /\ written = "no" /\ separated = FALSE

(* _load_known_ids: a piece that is not JSON raises.                       *)
Load == Loads /\ known' = OnFile /\ UNCHANGED << lines, fragment, written, separated >>

(* The process is gone; the file is what it is.                            *)
Forget == known' = {} /\ written' = "no" /\ UNCHANGED << lines, fragment, separated >>

Suppressed(r) == r \in known

(* The text of a record is anything, from its first bytes on; one that     *)
(* starts on a fragment is garbage whatever its text.                      *)
AnyText ==
  separated' \in IF written = "no" /\ fragment = Nothing THEN {separated, TRUE} ELSE {separated}

(* A write that stops somewhere in the record, or just before its newline. *)
WritePart(r) ==
  /\ ~Suppressed(r) /\ written = "no"
  /\ \/ fragment = Nothing /\ written' = "part" /\ fragment' \in {Garbage, r}
     \/ fragment # Nothing /\ written' = "glued" /\ fragment' = Garbage
  /\ AnyText
  /\ UNCHANGED << lines, known >>

(* Mutant: the record is not ended by a newline.                            *)
WrittenUnended(r) ==
  IF fragment = Nothing THEN lines' = lines /\ fragment' = r
                        ELSE lines' = lines /\ fragment' = Garbage

(* The last write: the line is the record, unless it began on a fragment.  *)
Written(r) ==
  /\ lines' = [lines EXCEPT ![IF written = "part" \/ fragment = Nothing THEN r ELSE Garbage] = @ + 1]
  /\ fragment' = Nothing

(* The record is whole and synced, and its attempt known.                  *)
WriteLast(r) ==
  /\ ~Suppressed(r)
  /\ Written(r) /\ AnyText
  /\ known' = known \union {r}
  /\ written' = "no"

(* The file system fails: nothing more is written, or the record is whole  *)
(* but not synced.  The writer raises.                                     *)
WriteFails(r) ==
  /\ ~Suppressed(r)
  /\ \/ UNCHANGED << lines, fragment, separated >>
     \/ Written(r) /\ AnyText
  /\ written' = "no"
  /\ UNCHANGED known
=============================================================================
