------------------------------- MODULE Logger -------------------------------
(***************************************************************************)
(* Logger (utils/logger.cpp) with a log file: log() appends under a mutex  *)
(* and rotates the files when the current one is full.  The process may    *)
(* die between two file system operations, any of which may fail; the      *)
(* next process opens the same file.                                       *)
(*                                                                         *)
(* Bytes are numbered in the order they were logged, and a file is the     *)
(* sequence of its bytes.  File 0 is output_file_, file k is output_file_  *)
(* with the suffix .k.  rotate_log_file() moves a file only after it was   *)
(* written to, so an empty file stands for one that does not exist.        *)
(***************************************************************************)
EXTENDS Naturals, Sequences, SequencesExt

CONSTANTS FileLimits,      \* what set_max_files() may be called with
          SizeLimits,      \* what set_max_file_size() may be called with
          MaxLine,         \* bound: bytes of a line, with its newline
          MaxBytes,        \* bound: bytes logged
          MaxInterrupts    \* bound: crashes and failed renames

ASSUME LoggerAssumption ==
  /\ FileLimits \subseteq Nat \ {0} /\ IsFiniteSet(FileLimits)
  /\ SizeLimits \subseteq Nat \ {0}
  /\ {MaxLine, MaxBytes, MaxInterrupts} \subseteq Nat

AtLeastTwo(n) == Max({n, 2})
Files == 0..Max(FileLimits \cup {2})

VARIABLES
  files,
  is_open,             \* of file_stream_
  current_file_size_, max_file_size_, max_files_,
  pc,                  \* "idle", or where rotate_log_file() is
  index,               \* the i of its loop
  written,             \* history: bytes the stream has taken
  interrupts,          \* history: crashes and failed renames
  limits               \* history: extremes of the configuration, and 1 extra
                       \* file once the limit has changed within a rotation

vars == <<files, is_open, current_file_size_, max_file_size_, max_files_, pc, index,
          written, interrupts, limits>>
configVars == <<max_file_size_, max_files_, limits>>

Init ==
  /\ files = [k \in Files |-> << >>]
  /\ is_open = FALSE
  /\ current_file_size_ = 0
  /\ max_file_size_ \in SizeLimits /\ max_files_ \in FileLimits
  /\ pc = "idle" /\ index = 0
  /\ written = 0 /\ interrupts = 0
  /\ limits = [fewest |-> AtLeastTwo(max_files_), most |-> AtLeastTwo(max_files_),
               largest |-> max_file_size_, extra |-> 0]

-----------------------------------------------------------------------------
(***************************************************************************)
(* set_output_file(): the stream is opened to append, and the size is      *)
(* where its end is.  The open may fail, or the name be empty.             *)
(***************************************************************************)
BAD_set_output_file(opens) ==
  /\ pc = "idle"
  /\ is_open' = opens
  /\ current_file_size_' = 0
  /\ files' = IF opens THEN [files EXCEPT ![0] = << >>] ELSE files
  /\ UNCHANGED <<configVars, pc, index, written, interrupts>>

set_output_file(opens) ==
  /\ pc = "idle"
  /\ is_open' = opens
  /\ current_file_size_' = IF opens THEN Len(files[0]) ELSE 0
  /\ UNCHANGED <<files, configVars, pc, index, written, interrupts>>

(***************************************************************************)
(* The setters take no lock, and rotate_log_file() reads max_files_ anew   *)
(* with every turn of its loop.                                            *)
(***************************************************************************)
set_max_files(n) ==
  /\ n # max_files_
  /\ max_files_' = n
  /\ limits' = [limits EXCEPT !.fewest = Min({@, AtLeastTwo(n)}), !.most = Max({@, n}),
                              !.extra = IF pc = "idle" THEN @ ELSE 1]
  /\ UNCHANGED <<files, is_open, current_file_size_, max_file_size_, pc, index,
                 written, interrupts>>

set_max_file_size(n) ==
  /\ n # max_file_size_
  /\ max_file_size_' = n
  /\ limits' = [limits EXCEPT !.largest = Max({@, n})]
  /\ UNCHANGED <<files, is_open, current_file_size_, max_files_, pc, index, written,
                 interrupts>>

(***************************************************************************)
(* log() of a line of n bytes that passes the level.  Without an open file *)
(* it only reaches the console.  rotate_log_file() begins with close().    *)
(***************************************************************************)
BAD_log(n) ==
  /\ pc = "idle" /\ is_open
  /\ written + n <= MaxBytes
  /\ files' = [files EXCEPT ![0] = @ \o [k \in 1..n |-> written + k]]
  /\ written' = written + n
  /\ current_file_size_' = current_file_size_ + n
  /\ IF current_file_size_' > max_file_size_
       THEN pc' = "shift" /\ index' = max_files_ - 1 /\ is_open' = FALSE
       ELSE UNCHANGED <<pc, index, is_open>>
  /\ UNCHANGED <<configVars, interrupts>>

log(n) ==
  /\ pc = "idle" /\ is_open
  /\ written + n <= MaxBytes
  /\ files' = [files EXCEPT ![0] = @ \o [k \in 1..n |-> written + k]]
  /\ written' = written + n
  /\ current_file_size_' = current_file_size_ + n
  /\ IF current_file_size_' >= max_file_size_
       THEN pc' = "shift" /\ index' = max_files_ - 1 /\ is_open' = FALSE
       ELSE UNCHANGED <<pc, index, is_open>>
  /\ UNCHANGED <<configVars, interrupts>>

-----------------------------------------------------------------------------
(* rotate_log_file().                                                      *)

(***************************************************************************)
(* filesystem::rename() replaces what has the new name.                    *)
(***************************************************************************)
Renamed(old, new) == [files EXCEPT ![old] = << >>, ![new] = files[old]]

(***************************************************************************)
(* A turn of its loop, from the oldest file down.                          *)
(***************************************************************************)
Shift ==
  /\ pc = "shift" /\ index > 0
  /\ files' = IF files[index] = << >> THEN files
              ELSE IF index = max_files_ - 1 THEN [files EXCEPT ![index] = << >>]
              ELSE Renamed(index, index + 1)
  /\ index' = index - 1
  /\ UNCHANGED <<is_open, current_file_size_, configVars, pc, written, interrupts>>

(***************************************************************************)
(* The current file becomes .1.                                            *)
(***************************************************************************)
ShiftCurrent ==
  /\ pc = "shift" /\ index = 0
  /\ files' = IF files[0] = << >> THEN files ELSE Renamed(0, 1)
  /\ pc' = "reopen"
  /\ UNCHANGED <<is_open, current_file_size_, configVars, index, written, interrupts>>

Reopen(opens) ==
  /\ pc = "reopen"
  /\ files' = IF opens THEN [files EXCEPT ![0] = << >>] ELSE files
  /\ is_open' = opens
  /\ current_file_size_' = 0
  /\ pc' = "idle"
  /\ UNCHANGED <<configVars, index, written, interrupts>>

(***************************************************************************)
(* A remove or a rename fails and throws out of log(), with the stream     *)
(* closed.                                                                 *)
(***************************************************************************)
FilesystemError ==
  /\ pc = "shift" /\ files[index] # << >>
  /\ interrupts < MaxInterrupts
  /\ pc' = "idle" /\ index' = 0
  /\ interrupts' = interrupts + 1
  /\ UNCHANGED <<files, is_open, current_file_size_, configVars, written>>

(***************************************************************************)
(* The process dies; the next one is configured alike.                     *)
(***************************************************************************)
Crash ==
  /\ interrupts < MaxInterrupts
  /\ pc' = "idle" /\ index' = 0
  /\ is_open' = FALSE /\ current_file_size_' = 0
  /\ interrupts' = interrupts + 1
  /\ UNCHANGED <<files, configVars, written>>

-----------------------------------------------------------------------------
Next ==
  \/ \E opens \in BOOLEAN : set_output_file(opens) \/ Reopen(opens)
  \/ \E n \in FileLimits : set_max_files(n)
  \/ \E n \in SizeLimits : set_max_file_size(n)
  \/ \E n \in 1..MaxLine : log(n)
  \/ Shift \/ ShiftCurrent \/ FilesystemError \/ Crash

Spec == Init /\ [][Next]_vars

-----------------------------------------------------------------------------
(* Properties.                                                             *)

(***************************************************************************)
(* The files within the lowest limit that was ever set, read from the      *)
(* oldest to the newest.                                                   *)
(***************************************************************************)
Kept == FlattenSeq([k \in 1..limits.fewest |-> files[limits.fewest - k]])

(***************************************************************************)
(* They hold the last bytes that were logged, in order, each once and      *)
(* without a gap, in the middle of a rotation and after one that was cut   *)
(* short too: only the oldest bytes are ever lost (rotate_log_file,        *)
(* set_output_file).                                                       *)
(***************************************************************************)
LogContiguous ==
  /\ Kept = [k \in 1..Len(Kept) |-> written - Len(Kept) + k]
  /\ written > 0 => Kept # << >>

(***************************************************************************)
(* Never more files than the highest limit, two for a limit of one, and    *)
(* one more if a limit changed within a rotation, which then moves the     *)
(* last file on; and a file outgrows the size by less than one line, and   *)
(* by one more for every rotation that did not end (log, rotate_log_file,  *)
(* set_max_files, set_output_file).                                        *)
(***************************************************************************)
DiskBounded ==
  /\ \A k \in Files : k >= limits.most + limits.extra => files[k] = << >>
  /\ \A k \in Files :
       Len(files[k]) < limits.largest + MaxLine * (1 + interrupts)
=============================================================================
